---------------------------- MODULE RoomRuntime ----------------------------
(***************************************************************************)
(* The playback and queue state of one room: RoomRuntime of                *)
(* internal/realtime/runtime.go, the rows of SQLite it owns                *)
(* (room_queue, room_playback_state, room_history) and the two parties     *)
(* that touch those rows behind its back: the media library deleting a     *)
(* local track, and the member's personal liked list.                      *)
(*                                                                         *)
(* The runtime executes commands one at a time in its loop, so a command   *)
(* is one action.  What is not atomic is the store: a write may fail, or   *)
(* commit while its caller is told that the context was cancelled          *)
(* (Store.Write).  Every writing action therefore takes the outcome o of   *)
(* its write.  The idempotency wrappers executeQueue and executeControl    *)
(* either run the closure modelled here once or leave everything alone;    *)
(* they are the subject of module MutationCache.                           *)
(***************************************************************************)
EXTENDS Integers, FiniteSets, Sequences, SequencesExt

CONSTANTS
  Users,            \* public ids of the members of the room
  Tracks,           \* playable tracks (platform + music id)
  LocalTracks,      \* the tracks of the media library, which can be deleted
  Timed,            \* the tracks with a known duration: only these end
  Locks,            \* the lock columns set in the room's row: nothing in Go writes them
  Likers,           \* the members who use the like button
  None,             \* no current track, or no known enqueuer
  MaxSize,          \* QueueLimits.MaxSize
  MaxUserSongs,     \* QueueLimits.MaxUserSongs
  HistorySize,      \* QueueLimits.HistorySize
  MaxBatch,         \* bound: songs in one EnqueueMany
  MaxItems,         \* bound: queue items ever created
  MaxStateVersion,  \* bound: stateVersion
  MaxQueueVersion,  \* bound: queueVersion
  MaxScopes,        \* bound: runtimes built for the room
  MaxCancelled      \* bound: writes that commit although their caller sees an error

ASSUME ConstantsAssumption ==
  /\ LocalTracks \subseteq Tracks
  /\ Timed \subseteq Tracks
  /\ Locks \subseteq {"pause", "skip", "shuffle"}
  /\ Likers \subseteq Users
  /\ None \notin Tracks \cup Users
  /\ MaxSize \in Nat /\ MaxUserSongs \in Nat /\ HistorySize \in Nat
  /\ MaxBatch \in Nat /\ MaxItems \in Nat
  /\ MaxStateVersion \in Nat /\ MaxQueueVersion \in Nat /\ MaxScopes \in Nat
  /\ MaxCancelled \in Nat

VARIABLES
  loaded,        \* does the Manager hold a live runtime for the room?
  queue,         \* pending items, in visible order
  state,         \* PlaybackState
  history,       \* the in-memory window of played tracks, newest first
  skipped,       \* historySkipped: how many entries Previous has walked back
  queueVersion,  \* restarts at 1 with every runtime
  scope,         \* controlScope, sent as queueEpoch: a fresh value per runtime
  disk,          \* the room's rows
  liked,         \* the members' personal liked-songs playlists (rows)
  deleted,       \* local tracks whose row carries the DELETED tombstone
  reloads,       \* deletions whose removed-track hook has not run yet
  nextId,        \* queue item ids (UUIDs) created so far
  cancelled      \* history variable: writes that committed behind an error

mem == <<queue, state, history, skipped, queueVersion, scope>>
vars == <<loaded, queue, state, history, skipped, queueVersion, scope, disk,
          liked, deleted, reloads, nextId, cancelled>>

Item == [id : Nat, music : Tracks, by : Users, prio : Nat]
Entry == [music : Tracks, by : Users \cup {None}]
\* item is not a field of the code: the id of the queue item being played, 0
\* when the track was not taken from the queue.
State == [current : Tracks \cup {None}, by : Users \cup {None}, item : Nat,
          paused : BOOLEAN, shuffle : BOOLEAN, likes : SUBSET Users,
          markers : Nat, epoch : Nat, version : Nat]
Disk == [queue : Seq(Item), state : State, history : Seq(Entry)]

Outcomes == {"ok", "fail", "unknown"}
torn == cancelled > 0

-----------------------------------------------------------------------------
(* Queue algebra.                                                          *)

\* The subsequence of q at the positions K: what slices.DeleteFunc keeps.
\* Stated through ranks, not SelectSeq, so that its range can be proved.
Rank(K, i) == Cardinality({k \in K : k <= i})
Select(q, K) ==
  [j \in 1..Cardinality(K) |-> q[CHOOSE i \in K : Rank(K, i) = j]]

Ids(q) == {q[i].id : i \in DOMAIN q}
Songs(q) == {q[i].music : i \in DOMAIN q}
Window(h) == SubSeq(h, 1, IF Len(h) > HistorySize THEN HistorySize ELSE Len(h))

\* Mutant: only the room's limit is checked.
FitsTheRoom(u, q) == Len(q) <= MaxSize

\* checkQueueCapacity: the room's limit, and the acting member's.
Fits(u, q) ==
  /\ Len(q) <= MaxSize
  /\ Cardinality({i \in DOMAIN q : q[i].by = u}) <= MaxUserSongs

\* Mutant: shuffle is consulted before priority.
ShuffleFirst(shuffle, q) == IF shuffle THEN DOMAIN q ELSE {1}

\* takeNext: the first item of the highest priority; without any priority a
\* random item under shuffle, else the head.
NextPositions(shuffle, q) ==
  LET prioritised ==
        {i \in DOMAIN q : /\ q[i].prio > 0
                          /\ \A j \in DOMAIN q : \/ q[j].prio < q[i].prio
                                                 \/ q[j].prio = q[i].prio /\ i <= j}
  IN IF prioritised # {} THEN prioritised
     ELSE IF shuffle THEN DOMAIN q ELSE {1}

\* takeNext deletes the item at the position it picked.
Rest(q, k) == RemoveAt(q, k)

\* The assignments by which startFirst, advance and dropCurrentTrack begin the
\* item it, and by which the latter two stop when nothing is pending.
Play(s, it) ==
  [s EXCEPT !.current = it.music, !.by = it.by, !.item = it.id, !.paused = FALSE,
            !.likes = {}, !.markers = 0, !.epoch = @ + 1, !.version = @ + 1]
Stop(s) ==
  [s EXCEPT !.current = None, !.by = None, !.item = 0, !.paused = TRUE,
            !.likes = {}, !.markers = 0, !.version = @ + 1]

\* Top: the chosen items move to the front in queue order, above every
\* priority handed out before.
Prioritise(q, K) ==
  LET top == CHOOSE m \in {0} \cup {q[i].prio : i \in DOMAIN q} :
               \A i \in DOMAIN q : q[i].prio <= m
      n == Cardinality(K)
  IN [i \in 1..n |-> [Select(q, K)[i] EXCEPT !.prio = top + n + 1 - i]]
       \o Select(q, DOMAIN q \ K)

\* Mutant: the item is inserted and not deleted.
MoveCopy(q, from, to) == InsertAt(q, to, q[from])

Move(q, from, to) == InsertAt(RemoveAt(q, from), to, q[from])

\* Mutant: the target's index is not adjusted for the deletion before it.
DropUnshifted(q, from, target, after) ==
  LET wanted == IF after THEN target + 1 ELSE target
  IN IF wanted > Len(q) THEN Len(q) ELSE wanted

\* ReorderByID: the position at which the item at "from" lands when it is
\* dropped before or after the item at "target".
DropPosition(q, from, target, after) ==
  LET shifted == IF from < target THEN target - 1 ELSE target
      wanted == IF after THEN shifted + 1 ELSE shifted
  IN IF wanted > Len(q) THEN Len(q) ELSE wanted

-----------------------------------------------------------------------------
(* The store.  A transaction that would write a tombstoned track fails     *)
(* (requireLocalTrackNotDeleted); "unknown" commits and reports an error.  *)

\* Mutant: without the tombstone check in the transaction.
CommitUnchecked(o, songs, d) ==
  /\ o \in Outcomes
  /\ o = "unknown" => cancelled < MaxCancelled
  /\ disk' = IF o = "fail" THEN disk ELSE d
  /\ cancelled' = IF o = "unknown" THEN cancelled + 1 ELSE cancelled

Commit(o, songs, d) ==
  /\ o \in Outcomes
  /\ o # "fail" => songs \cap deleted = {}
  /\ disk' = IF o = "fail" THEN disk ELSE d
  /\ o = "unknown" => cancelled < MaxCancelled
  /\ cancelled' = IF o = "unknown" THEN cancelled + 1 ELSE cancelled

SynchronizeQueue(o, q) == Commit(o, Songs(q), [disk EXCEPT !.queue = q])

Upsert(o, s) == Commit(o, {s.current} \ {None}, [disk EXCEPT !.state = s])

\* Mutant: playback is saved and the queue it was taken from is not.
CommitStateOnly(o, q, s, h) ==
  Commit(o, Songs(q) \cup Songs(h) \cup ({s.current} \ {None}),
         [disk EXCEPT !.state = s, !.history = h \o @])

\* h holds the history entry of the transaction, if there is one.
CommitRoomState(o, q, s, h) ==
  Commit(o, Songs(q) \cup Songs(h) \cup ({s.current} \ {None}),
         [queue |-> q, state |-> s, history |-> h \o disk.history])

\* Mutant: the state moves before its write is known to have succeeded.
AdoptEarly(o, s) == state' = s

\* Memory moves only after a write that succeeded.
AdoptQueue(o, q) ==
  /\ queue' = IF o = "ok" THEN q ELSE queue
  /\ queueVersion' = IF o = "ok" THEN queueVersion + 1 ELSE queueVersion
AdoptState(o, s) == state' = IF o = "ok" THEN s ELSE state

Live ==
  loaded /\ queueVersion < MaxQueueVersion /\ state.version < MaxStateVersion
-----------------------------------------------------------------------------
(* Queue commands.  A command whose guard is false answers an error        *)
(* (ErrStaleQueue, ErrQueueCapacity, ErrControlLocked, ...) and changes    *)
(* nothing.                                                                *)

\* Mutant: an idle room only queues.
EnqueueSilently(u, ms, o) ==
  LET next == queue \o [i \in 1..Len(ms) |->
                [id |-> nextId + i, music |-> ms[i], by |-> u, prio |-> 0]]
  IN /\ Live
     /\ nextId + Len(ms) <= MaxItems /\ nextId' = nextId + Len(ms)
     /\ Fits(u, next) /\ SynchronizeQueue(o, next) /\ AdoptQueue(o, next)
     /\ UNCHANGED <<loaded, state, history, skipped, scope, liked, deleted, reloads>>

\* Enqueue and EnqueueMany: u appends the songs ms.  On an idle room the next
\* item starts at once, and only what stays pending counts against the limits.
Enqueue(u, ms, o) ==
  LET items == [i \in 1..Len(ms) |->
                  [id |-> nextId + i, music |-> ms[i], by |-> u, prio |-> 0]]
      next == queue \o items
  IN /\ Live
     /\ ms # <<>> /\ nextId + Len(ms) <= MaxItems
     /\ nextId' = nextId + Len(ms)
     /\ \/ /\ state.current # None
           /\ Fits(u, next)
           /\ SynchronizeQueue(o, next)
           /\ AdoptQueue(o, next)
           /\ UNCHANGED state
        \/ /\ state.current = None
           /\ \E k \in NextPositions(state.shuffle, next) :
                LET rest == Rest(next, k)
                    s == Play(state, next[k])
                IN /\ Fits(u, rest)
                   /\ CommitRoomState(o, rest, s, <<>>)
                   /\ AdoptQueue(o, rest)
                   /\ AdoptState(o, s)
     /\ UNCHANGED <<loaded, history, skipped, scope, liked, deleted, reloads>>

\* What Remove, Top, Reorder, ReorderByID and Clear have in common: the
\* pending queue becomes q and nothing else moves.
Rearrange(q, o) ==
  /\ Live
  /\ SynchronizeQueue(o, q)
  /\ AdoptQueue(o, q)
  /\ UNCHANGED <<loaded, state, history, skipped, scope, liked, deleted, reloads, nextId>>

\* K: the positions of the named items; none of them pending is ErrStaleQueue.
RemoveItems(K, o) == K # {} /\ Rearrange(Select(queue, DOMAIN queue \ K), o)

Top(K, o) == K # {} /\ Rearrange(Prioritise(queue, K), o)

Reorder(from, to, o) == Rearrange(Move(queue, from, to), o)

ReorderByID(from, target, after, o) ==
  LET to == DropPosition(queue, from, target, after)
  IN /\ from # target /\ to # from
     /\ Rearrange(Move(queue, from, to), o)

Clear(o) == queue # <<>> /\ Rearrange(<<>>, o)

-----------------------------------------------------------------------------
(* Playback commands.                                                      *)

\* advance: what was playing becomes history and the next item starts, or the
\* room stops; queue, state and history land in one transaction.
Advance(o) ==
  LET played == IF state.current = None THEN <<>>
                ELSE <<[music |-> state.current, by |-> state.by]>>
      Step(q, s) == /\ CommitRoomState(o, q, s, played)
                    /\ AdoptQueue(o, q)
                    /\ AdoptState(o, s)
  IN /\ Live
     /\ \/ queue = <<>> /\ Step(<<>>, Stop(state))
        \/ /\ queue # <<>>
           /\ \E k \in NextPositions(state.shuffle, queue) :
                Step(Rest(queue, k), Play(state, queue[k]))
     /\ history' = IF o = "ok" THEN Window(played \o history) ELSE history
     /\ skipped' = IF o = "ok" THEN 0 ELSE skipped
     /\ UNCHANGED <<scope, liked, deleted, reloads, nextId>>

\* mutateStateDirect: one new version of the playback state.
MutateState(o, s) ==
  LET next == [s EXCEPT !.version = @ + 1]
  IN /\ Live
     /\ Upsert(o, next)
     /\ AdoptState(o, next)
     /\ UNCHANGED <<loaded, queue, queueVersion, scope, deleted, reloads, nextId>>

NextSong(o) == "skip" \notin Locks /\ Advance(o) /\ UNCHANGED loaded

\* onTick: the current track has reached its end.  The write runs under the
\* runtime's own context, so it is cancelled only by the runtime's end.
Tick(o) ==
  /\ state.current \in Timed /\ ~state.paused
  /\ Advance(o)
  /\ loaded' = (o # "unknown")

TogglePause(o) ==
  /\ "pause" \in Locks => state.paused
  /\ \/ /\ state.current = None /\ queue # <<>>
        /\ Advance(o) /\ UNCHANGED loaded
     \/ /\ state.current # None
        /\ MutateState(o, [state EXCEPT !.paused = ~@])
        /\ UNCHANGED <<history, skipped, liked>>

ToggleShuffle(o) ==
  /\ "shuffle" \notin Locks
  /\ MutateState(o, [state EXCEPT !.shuffle = ~@])
  /\ UNCHANGED <<history, skipped, liked>>

\* admin or not, a seek opens a new epoch.
Seek(u, admin, o) ==
  /\ state.current # None
  /\ admin \/ state.by = u
  /\ MutateState(o, [state EXCEPT !.epoch = @ + 1])
  /\ UNCHANGED <<history, skipped, liked>>

\* Replays the newest history entry not walked back yet; the queue stays.
Previous(o) ==
  /\ "skip" \notin Locks
  /\ state.current # None
  /\ skipped < Len(history)
  /\ LET entry == history[skipped + 1]
     IN MutateState(o, [state EXCEPT !.current = entry.music, !.by = entry.by,
                                     !.item = 0, !.paused = FALSE, !.likes = {},
                                     !.markers = 0, !.epoch = @ + 1])
  /\ skipped' = IF o = "ok" THEN skipped + 1 ELSE skipped
  /\ UNCHANGED <<history, liked>>

\* Like and Unlike mirror the heart onto the member's personal list first
\* (syncLikedSongs, outcome listed), then commit the room's state (outcome o).
SyncLikedSongs(u, listed, songs) ==
  /\ listed = "unknown" => MaxCancelled > 0
  /\ liked' = IF listed = "fail" THEN liked ELSE [liked EXCEPT ![u] = songs]

Like(u, listed, o) ==
  /\ Live
  /\ state.current # None /\ u \notin state.likes
  /\ SyncLikedSongs(u, listed, liked[u] \cup {state.current})
  /\ \/ /\ listed = "ok"
        /\ MutateState(o, [state EXCEPT !.likes = @ \cup {u}, !.markers = @ + 1])
        /\ UNCHANGED <<history, skipped>>
     \/ /\ listed # "ok" /\ o = "fail"
        /\ UNCHANGED <<loaded, mem, disk, deleted, reloads, nextId, cancelled>>

Unlike(u, listed, o) ==
  /\ Live
  /\ state.current # None /\ u \in state.likes
  /\ SyncLikedSongs(u, listed, liked[u] \ {state.current})
  /\ \/ /\ listed = "ok"
        /\ MutateState(o, [state EXCEPT !.likes = @ \ {u},
                                        !.markers = IF @ > 0 THEN @ - 1 ELSE 0])
        /\ UNCHANGED <<history, skipped>>
     \/ /\ listed # "ok" /\ o = "fail"
        /\ UNCHANGED <<loaded, mem, disk, deleted, reloads, nextId, cancelled>>

-----------------------------------------------------------------------------
(* Loading, unloading and deletions in the library.                        *)

\* newRoomRuntime; a history that cannot be read is silently empty.
Load(readable) ==
  /\ ~loaded
  /\ loaded' = TRUE
  /\ scope' = scope + 1
  /\ queue' = disk.queue
  /\ state' = disk.state
  /\ history' = IF readable THEN Window(disk.history) ELSE <<>>
  /\ skipped' = 0
  /\ queueVersion' = 1
  /\ UNCHANGED <<disk, liked, deleted, reloads, nextId, cancelled>>

\* Idle eviction, shutdown or a crash between two commands: the memory is
\* gone.  Its last value stays in the variables as what clients saw last.
Unload ==
  /\ loaded /\ scope < MaxScopes
  /\ loaded' = FALSE
  /\ UNCHANGED <<mem, disk, liked, deleted, reloads, nextId, cancelled>>

\* Keep(q, gone): what is left of a queue or a history without those tracks.
Keep(q, gone) == Select(q, {i \in DOMAIN q : q[i].music \notin gone})

\* LocalLibrary.Delete, its transaction (DeleteWithReferences): the tombstone
\* and the removal of every row that names the track.  The hook follows later,
\* and only for a room whose rows named the track.
DeleteTrack(t) ==
  /\ t \in LocalTracks \ deleted
  /\ deleted' = deleted \cup {t}
  /\ reloads' = IF t \in Songs(disk.queue) \cup Songs(disk.history) \cup {disk.state.current}
                THEN reloads \cup {t} ELSE reloads
  /\ disk' = [queue |-> Keep(disk.queue, {t}),
              state |-> IF disk.state.current = t
                        THEN [disk.state EXCEPT !.current = None] ELSE disk.state,
              history |-> Keep(disk.history, {t})]
  /\ liked' = [u \in Users |-> liked[u] \ {t}]
  /\ UNCHANGED <<loaded, mem, nextId, cancelled>>

\* How many of the entries walked back are among those kept.
CursorAmong(kept) == Cardinality({i \in kept : i <= skipped})

\* The hook's ReloadQueue: history without the track, and the persisted queue.
\* A current track that was deleted is dropped for the next item
\* (dropCurrentTrack: no history entry, shuffle suspended).
ReloadQueue(t, o) ==
  LET kept == {i \in DOMAIN history : history[i].music # t}
      Drop(q, s) == /\ CommitRoomState(o, q, s, <<>>)
                    /\ AdoptQueue(o, q)
                    /\ AdoptState(o, s)
  IN /\ Live
     /\ t \in reloads
     /\ reloads' = reloads \ {t}
     /\ history' = Select(history, kept)
     /\ skipped' = CursorAmong(kept)
     /\ \/ /\ state.current # t /\ o = "ok"
           /\ AdoptQueue(o, disk.queue)
           /\ UNCHANGED <<state, disk, cancelled>>
        \/ /\ state.current = t /\ disk.queue = <<>>
           /\ Drop(<<>>, Stop(state))
        \/ /\ state.current = t /\ disk.queue # <<>>
           /\ \E k \in NextPositions(FALSE, disk.queue) :
                Drop(Rest(disk.queue, k), Play(state, disk.queue[k]))
     /\ UNCHANGED <<loaded, scope, liked, deleted, nextId>>

\* The hook found no runtime, or its command did not get through in time: the
\* error is logged and the hook never runs again.
SkipReload(t) ==
  /\ t \in reloads
  /\ reloads' = reloads \ {t}
  /\ UNCHANGED <<loaded, mem, disk, liked, deleted, nextId, cancelled>>

\* Everything the loop answers without changing anything: snapshots, repeated
\* likes, rejected and replayed commands, commands cancelled while queued.
Answer == loaded /\ UNCHANGED vars

-----------------------------------------------------------------------------
NewState == [current |-> None, by |-> None, item |-> 0, paused |-> FALSE,
             shuffle |-> FALSE, likes |-> {}, markers |-> 0, epoch |-> 0,
             version |-> 0]

Init ==
  /\ loaded = FALSE
  /\ queue = <<>> /\ state = NewState
  /\ history = <<>> /\ skipped = 0 /\ queueVersion = 1 /\ scope = 0
  /\ disk = [queue |-> <<>>, state |-> NewState, history |-> <<>>]
  /\ liked = [u \in Users |-> {}]
  /\ deleted = {} /\ reloads = {}
  /\ nextId = 0
  /\ cancelled = 0

QueueCommand(o) ==
  \/ \E u \in Users, n \in 1..MaxBatch : \E ms \in [1..n -> Tracks] : Enqueue(u, ms, o)
  \/ \E K \in SUBSET DOMAIN queue : RemoveItems(K, o) \/ Top(K, o)
  \/ \E i, j \in DOMAIN queue : Reorder(i, j, o)
  \/ \E i, j \in DOMAIN queue, after \in BOOLEAN : ReorderByID(i, j, after, o)
  \/ Clear(o)

PlaybackCommand(o) ==
  \/ NextSong(o) \/ Tick(o) \/ TogglePause(o) \/ ToggleShuffle(o) \/ Previous(o)
  \/ \E u \in Users, admin \in BOOLEAN : Seek(u, admin, o)
  \/ \E u \in Likers, listed \in Outcomes : Like(u, listed, o) \/ Unlike(u, listed, o)

Next ==
  \/ \E o \in Outcomes : QueueCommand(o) \/ PlaybackCommand(o)
  \/ \E readable \in BOOLEAN : Load(readable)
  \/ Unload \/ Answer
  \/ \E t \in LocalTracks : DeleteTrack(t) \/ SkipReload(t)
  \/ \E t \in LocalTracks, o \in Outcomes : ReloadQueue(t, o)

Spec == Init /\ [][Next]_vars

-----------------------------------------------------------------------------
(* Invariants.                                                             *)

\* The type of every variable.
TypeOK ==
  /\ loaded \in BOOLEAN
  /\ queue \in Seq(Item) /\ state \in State
  /\ history \in Seq(Entry) /\ skipped \in Nat /\ queueVersion \in Nat
  /\ scope \in Nat
  /\ disk \in Disk
  /\ liked \in [Users -> SUBSET Tracks]
  /\ deleted \subseteq LocalTracks /\ reloads \subseteq deleted
  /\ nextId \in Nat /\ cancelled \in Nat

\* Neither memory nor the rows ever hold more pending songs than the room or
\* one member may have: checkQueueCapacity looks only at the acting member, and
\* only after startFirst has taken an item away; reloads adopt rows unchecked.
WithinLimits(q) ==
  /\ Len(q) <= MaxSize
  /\ \A u \in Users : Cardinality({i \in DOMAIN q : q[i].by = u}) <= MaxUserSongs
QueueWithinLimits == WithinLimits(queue) /\ WithinLimits(disk.queue)

\* No queue item is pending twice, or pending while it plays, in memory or on
\* disk, as long as no write committed behind an error.
NoDuplicates(q, s) ==
  /\ Cardinality(Ids(q)) = Len(q)
  /\ s.current # None => s.item \notin Ids(q)
NoItemTwice ==
  ~torn => NoDuplicates(queue, state) /\ NoDuplicates(disk.queue, disk.state)

\* Between commands the rows are exactly what memory shows, without the tracks
\* deleted meanwhile: memory moves only with a successful write, in one
\* transaction, whatever hook was missed, failed or has not run yet.
MemoryMatchesDisk ==
  loaded /\ ~torn =>
    /\ disk.queue = Keep(queue, deleted)
    /\ disk.state = IF state.current \in deleted
                    THEN [state EXCEPT !.current = None] ELSE state
    /\ IsPrefix(Keep(history, deleted), disk.history)

\* A runtime that still remembers a deleted track never writes it back: no row
\* of the room names a tombstoned track (requireLocalTrackNotDeleted).
TombstonesUnreferenced ==
  deleted \cap (Songs(disk.queue) \cup Songs(disk.history) \cup {disk.state.current}) = {}

\* Previous stays inside the window: truncation, a reload that drops entries
\* under the cursor and an advance that resets it keep the cursor in range.
CursorInHistory == skipped <= Len(history) /\ Len(history) <= HistorySize

\* The saved playback state is never older than the one clients saw, whatever
\* failed or was cancelled: it is the same, a later version, or the same with
\* its deleted track nulled, and it never names another track under that epoch.
RowsNotBehind ==
  /\ \/ disk.state.version > state.version /\ disk.state.epoch >= state.epoch
     \/ disk.state = state
     \/ state.current \in deleted /\ disk.state = [state EXCEPT !.current = None]
  /\ disk.state.epoch = state.epoch => disk.state.current \in {state.current, None}

\* The room is never silent while songs are pending: an enqueue into an idle
\* room starts a song and an advance stops only when nothing is left.
NeverIdleWithSongs ==
  loaded /\ ~torn /\ deleted = {} => (state.current = None => queue = <<>>)

\* One marker per outstanding like, though markers do not say whose they are.
OneMarkerPerLike ==
  /\ Cardinality(state.likes) = state.markers
  /\ Cardinality(disk.state.likes) = disk.state.markers

\* ReorderByID: an item dropped before or after another ends up beside it on
\* that side, and a drop rejected as stale would have changed nothing.
DropLandsBesideTarget ==
  \A i, t \in DOMAIN queue, after \in BOOLEAN :
    i # t => LET q == Move(queue, i, DropPosition(queue, i, t, after))
                 at == CHOOSE k \in DOMAIN q : q[k].id = queue[t].id
                 beside == IF after THEN at + 1 ELSE at - 1
             IN ~torn => /\ beside \in DOMAIN q
                         /\ q[beside].id = queue[i].id

-----------------------------------------------------------------------------
(* Action properties.                                                      *)

\* What clients gate on: the playback state never changes under the same
\* stateVersion and neither version goes back, across reloads, restarts and
\* writes that committed behind an error.  The one exception: a restart after a
\* deletion finds the current track nulled in the row.
PublishedStateIsVersioned ==
  [][state' # state =>
       \/ state'.version > state.version /\ state'.epoch >= state.epoch
       \/ state.current \in deleted /\ state' = [state EXCEPT !.current = None]]_vars

\* Within one runtime every change of the queue moves queueVersion forward.
QueueChangesAreVersioned ==
  [][loaded /\ queue' # queue => queueVersion' > queueVersion]_vars

\* An epoch names one track: under an unchanged playEpoch the current track can
\* end but not become another, so a like or seek carrying the epoch its sender
\* saw cannot land on a different track.
EpochNamesOneTrack ==
  [][state'.epoch = state.epoch => state'.current \in {state.current, None}]_vars

\* A step that changes what plays, or adds songs, loses none: an item that
\* leaves the queue is the one that starts, or names a deleted track.  And that
\* one leaves it in its turn: explicit priority beats shuffle and position, so
\* no pending item outranks it.
NoneLost ==
  (state' # state \/ nextId' # nextId) /\ queue' # queue =>
    \A i \in Ids(queue) \cup (nextId + 1)..nextId' :
      \/ i \in Ids(queue')
      \/ i = state'.item
      \/ \E k \in DOMAIN queue : queue[k].id = i /\ queue[k].music \in deleted
NoneOvertaken ==
  state'.item \in Ids(queue) \ {state.item} =>
    \A k \in DOMAIN queue : queue[k].id = state'.item =>
      \A j \in DOMAIN queue' : queue'[j].prio <= queue[k].prio
SongsLeaveInTurn == [][loaded /\ loaded' /\ ~torn' => NoneLost /\ NoneOvertaken]_vars

\* The claim of the comment on syncLikedSongs: a write that fails leaves the
\* shared heart and the personal list agreeing on "not liked".  Only a like adds
\* to a personal list here, so a song that enters one must come with the heart.
FailedLikeLeavesNothing ==
  [][\A u \in Likers : liked'[u] \subseteq liked[u] \/ u \in state'.likes]_vars
=============================================================================
