# A verification project for MusicParty

MusicParty is a Go server (`src/backend-go`) and a Vue client
(`src/music-party-web`) for listening to music together: members of a room share
one queue and one playback position, chat, keep playlists, and add tracks from
music platforms or from a local media library. This directory holds TLA+ modules of
the server's own core logic, the configurations under which TLC checks them, and
proofs about them that TLAPS checks.

    tlc -workers 2 -config MCRoomQueue.cfg MCRoomRuntime.tla      # a run
    tlapm RoomRuntime_proofs.tla                                  # the proofs of a module

Paths below are relative to `src/backend-go/internal` unless they say otherwise.

## 1. Inventory

| Component | State it keeps | Operations | Interacts through | What is hard | What makes it correct |
|---|---|---|---|---|---|
| Room runtime (`realtime/runtime.go`, `queue_mutations.go`) | queue, playback state, history window, versions, mutation records, attachment count | enqueue, remove, top, reorder, clear, next, previous, pause, shuffle, seek, like, chat, reload; ticker | commands channel; `Store.Write`; broadcasts through the hub | writes that fail, or commit although the caller is told otherwise; deletions behind its back; restarts | nothing lost or doubled; memory is a view of the rows; versions grow; limits hold |
| Idempotency (`queue_mutations.go`, `control_idempotency.go`) | records by mutation id, with scope and expiry | execute, replay, refuse, sweep | wraps runtime commands | retries, conflicting bodies, a full map, unknown outcomes, rebuilt runtimes | at most one effect per window and scope; true answers |
| Store (`store/sqlite/store.go`) | bounded channel, closed flag, write goroutine | `Write`, `Close` | every repository | cancellation during a commit, closing with calls in flight | answers are true, order kept, nobody waits for ever |
| Manager and room life cycle (`runtime.go`, `httpapi/websocket.go`, `domain/room/service.go`) | map of runtimes, loops, attachment counts, hub registrations | `Room`, `CloseRoom`, `Close`, `Execute`, `Attach`, `Detach`, eviction, deletion | locks, channels, contexts, the room-deleted hook of `main.go` | eviction against attachment, deletion against everything, shutdown | one loop per room; a deleted room stays empty; every call returns |
| Room rows (`store/sqlite/repository_queue.go`, `repository_realtime.go`, `repository_playback_chat.go`) | `room_queue`, `room_playback_state`, `room_history` | synchronise, upsert, commit, load, page | transactions | sparse sort orders, ties in the history, tombstones | rows say what memory says; order survives |
| Hub (`ws/hub.go`) | connections by room, presence revisions, a bounded queue per client | register, unregister, send, broadcast, close by room or session | called by the runtime's loop and by HTTP handlers | coalescing, full queues, broadcasts outside the lock | nothing older replaces something newer; presence converges |
| WebSocket handler (`httpapi/websocket*.go`) | one goroutine and one writer per connection | handshake, dispatch, resync | all of the above | session expiry, revocation, deletion at any point | no connection served without a right to be |
| Frontend room state (`src/music-party-web/src/domains/realtime`) | queue, playback, pending optimistic changes, version gates | apply event, reorder, like, resync | messages of the hub | reordering, duplicates, a runtime rebuilt in between | converges to the server's state |
| Chat policy (`realtime/chat_policy.go`) | last message per member and stream | reserve, release | runtime's `AppendChat` | a slot released for a write that committed | interval kept, slots not leaked |
| Accounts and sessions (`domain/account`) | users, sessions, invites | login, resolve, revoke, upgrade, redeem | transactions; hub closes sockets after commit | revocation against a handshake | a revoked session is served no longer |
| Rooms and members (`domain/room`, `store/sqlite/repository_room.go`, `httpapi/room_access.go`) | rooms, memberships, invites, passwords and tickets | create, update, verify, grant owner, invite, redeem, delete | transactions; deletion hook | changes of owner between a check and its transaction; tickets older than the password | both records of the owner agree; edits come from who may make them; a ticket proves the current password |
| Media cache (`media/cache*.go`) | entries, reservations, readers | acquire, submit, reserve, grow, commit, evict | HTTP readers, downloads | accounting under failure and concurrency | within budget; no file removed while read |
| Local library, transcoder (`media/local_*.go`, `transcode.go`) | track rows, files, job queue | upload, transcode, retry, delete, recover | runtime reload hook | deletion against a running job, a full job queue | no orphaned files or stuck tracks |
| Playlists (`store/sqlite/repository_*_playlist.go`, `httpapi/playlists.go`, `websocket_playlist.go`) | personal and room playlists | create, change, delete, add, remove, reorder | runtime (liked songs); deletion of rooms and tracks by cascade | positions counted while tracks disappear; two writes for one like | positions distinct; lists and tracks go with their owner; heart and list agree |
| Limiters (`httpapi/login_limiter.go`, `concurrency/limiter.go`) | budgets per source | admit, release | middleware | window and capacity edges | budget is kept |
| Music sources (`httpapi/admin.go`, `subsonic_registry.go`, `platforms.go`) | rows of sources and bindings, a registry in memory, a cache of resolved songs | put, bind, delete, resolve, restart | transactions, then locks; deletion of rooms | rows and registry change one after the other; answers under way | registry says what rows say; no song of an old source is served |
| HTTP API, platform adapters, schema, configuration, metrics, frontend views | none of their own, or read once | parsing, adapters, rendering | | | not modelled |

Flow of a command: a client's frame is decoded by the WebSocket handler and
given to `RoomRuntime.Execute`, which hands a closure to the room's loop. The
closure computes a new queue or playback state, writes it through `Store.Write`
in one transaction, adopts it in memory when the write succeeded, and broadcasts
it through the hub. The Manager builds the runtime when the room is first used and
drops it when it has been idle. A deletion of a room or of a local track commits
its transaction first and tells the runtimes afterwards, through hooks that
`cmd/musicparty/main.go` installs.

`PROJECT.json` lists the hazards at their lines, with the properties that cover
them, or why none does.

## 2. Plan

Written, in this order:

1. `RoomRuntime`, with `RoomRuntime_proofs` and `RoomQueue_proofs`
2. `StoreWriter` implementing `AtomicWrites`, with `StoreWriter_proofs`
3. `MutationCache`, with proofs in `Services_proofs`
4. `RoomLifecycle`, with `RoomLifecycle_proofs`
5. `RoomSync`: the hub's queue, snapshots, resyncs, and the page's version gates; with
   `RoomSync_proofs`
6. `LocalLibrary`, with `LocalLibrary_proofs`
7. `Services`, which composes `MutationCache` with `Sessions`, `MediaCache`,
   `SparseOrder`, `ChatPolicy`, `LoginLimiter` and `Presence`; with `Services_proofs`
8. `Catalog`, which composes `LocalLibrary` with `RoomAccess`, `Playlists` and
   `MusicSources`; with `Catalog_proofs`

To come, the most important first: the like button of the page
(`roomCommandStore.ts:155-185`), which writes the personal list, sends `control.like` and
undoes the list when it is refused, composed with `Like` of `RoomRuntime`; presence across a restart of the server, where revisions start again.

## 3. Modules

Every module names its constants' meaning at their declaration; those described as
"bound" limit the model and stand for nothing in the code. Operators whose comment
starts with "Mutant" are plausible bugs of the operator that follows them. They
are used by no specification: replacing the operator by its mutant must break the
property that `PROJECT.json` pairs it with.

### RoomRuntime

One room's memory (`queue`, `state`, `history`, `skipped`, `queueVersion`,
`scope`, under the names of the struct), its rows (`disk`), the members' liked lists
and the tombstones of the media library. A command is one action because the loop
runs commands one at a time; the order inside is the code's: guards and early
returns, the transaction, and memory only after it. The outcome of the transaction is
a parameter: `"ok"`, `"fail"` (nothing written) and `"unknown"`, which commits and
reports an error. The latter is what `Store.Write` does when the caller's context
ends while the transaction commits (see `StoreWriter`). `torn` says that this has
happened; properties that cannot hold then say `~torn`.

`Load` and `Unload` are `newRoomRuntime` and the end of a runtime at any point
between two commands, a crash included. `DeleteTrack` is the library's transaction;
`ReloadQueue` is the hook that follows it, which may come at any time later;
`SkipReload` is the hook finding no runtime or running into its timeout.

Data is reduced to what the properties tell apart: an item is an id, a track, a
member and a priority; play positions and times are left out, so `Tick` may end a
timed track at any time; chat is left out.

### StoreWriter and AtomicWrites

`Write`, `Close` and the write goroutine. A call is `"new"`, `"waiting"` or
`"returned"`; the three ways out of the select are the disjuncts of `Await`. The
goroutine's `stage` is where `executeWrite` stands: before the function, after the
context check and before the commit, or the outcome that `Deliver` puts into the
result channel. `AtomicWrites` is what callers may rely on: a call is refused
without a trace or commits once, success means committed, a definite error means
never, and a context error means nothing. `StoreWriter` implements it under the
mapping at the end of the module.

### MutationCache

`executeQueue` and `executeControl`, with one record per mutation id, a clock
and the runtime's scope. What the closure does is an outcome: committed, refused with
a definite error, or unknown. `last` remembers, per id, the last execution that may
have had an effect; the properties compare answers with it.

### RoomLifecycle

One room of the Manager: its row, the map entry (`runtimes`), the goroutine of
every runtime instance (`loop`, `"unborn"` to `"done"`), its cancelled context
(`ended`), the attachment count (`clients`) and the commands channel; every WebSocket
handler and HTTP caller with its phase, the runtime it was given, and the state of
its call of `Execute`; the hub's registrations and closed sockets; the deletion of
the room and the shutdown, step by step. The selects of `Execute` and of the loop
are nondeterministic among their ready cases, as Go's are. A command is put into
the channel while it has room, even if the loop has ended (`Send`), which the
second select must survive. `Room` is one step as it runs under the Manager's
lock. Idle time, the contents of commands and other rooms are left out: `Evict` may
happen whenever the count is zero, `Tick` whenever the loop runs.

### RoomSync

How one member sees the room. The loop changes the room and broadcasts it; the
connection's handler sends a snapshot it took earlier, and so do the resync goroutines.
All write into the client's bounded queue, where a state replaces a waiting one of its
type (`Send`); an overflow closes the connection with a status the page takes for a
refused session. The page keeps what `roomStateSynchronizer.ts`,
`roomRuntimeStore.ts` and `roomCommandStore.ts` keep: queue, version and epoch of the
runtime (`Generation`), what waits for the next animation frame, an optimistic reorder
and the update it holds back, and whether a resync was asked for. Connections break and
come back, and the room's runtime is rebuilt. Playback is reduced to a number that grows;
`AtRestInSync` says what a connected page shows once nothing is under way. It exempts what
the history variable `overtaken` records, that something older took the place of the newest:
a state in the client's queue, which is what `sync_overtaken` is about; a state that
waits for its frame (`roomStateSynchronizer.ts:97-106`); or an update held back during a
reordering (`PutBack`). The room's next state clears it. It exempts, too, what `missed`
records: the snapshot of `sendInitial` or `scheduleResync` is a command that may fail, over a
full channel or an ended loop, and both drop the error and send nothing (`TakeFails`;
`httpapi/websocket.go:116-119`, `:386-389`). Nothing in the code repairs a page that
waited for it, until the room changes again, the page connects again or another
snapshot brings the newest state.

### Sessions, RoomAccess

`Sessions`: accounts, sessions and connections. Requests are a read, a transaction and
the call of the hub, as in `domain/account`; the opening of a WebSocket resolves its
session before and after it registers. `RoomAccess`: rooms, passwords, owners kept in
two places, members, invites, and tickets for private rooms, whose version changes with the
password; what `UpdateDetails` decides before its transaction may be out of date in it. A
deletion is a request and, later, its transaction, as the write waits in the store's
queue; each transaction asks whether its own caller may edit the room then.

### MediaCache, LocalLibrary

`MediaCache`: job queue, workers with retries and growing reservations, committed files
pinned by readers, eviction of the least recently used (`older` orders the entries as the
list of the cache does) and which passes over files it cannot remove, Close, a scan after
a restart. Committed, reserved and pinned
bytes share one budget. `LocalLibrary`: uploads (which may repeat one another),
reservations, the transcoder's queue and workers, recovery, deletion; a step is one
read, one transaction or one change of a file, any write may fail, and the process may end
between any two steps.

### Playlists, MusicSources

`Playlists`: the lists of users and rooms with their tracks and positions, changed over
HTTP and WebSocket, while rooms and local tracks are deleted under them. A new track takes
one of the free rows; several are numbered by their rank among them (`Nth`).
`MusicSources`: rows of sources and bindings, the registry published after the
transaction, and the cache of resolved songs with requests that began before a change.

### SparseOrder, ChatPolicy, LoginLimiter, Presence

`SparseOrder`: the sort orders `repository_queue.go` gives a new queue: the longest
increasing run keeps its orders, the others take gaps, or all are numbered again; against "read
back, the rows give the queue". `ChatPolicy`: a message's slot, its write, which may
commit behind an ended context, and the release; the rows of the history are a set, as
their times tell them apart. `LoginLimiter`: attempts counted
before the password is checked. `Presence`: revisions given out under the hub's lock,
broadcasts after it and in any order, coalescing, and the page's gate.

### Services, Catalog

These two compose what shares no state. `Services` extends `MutationCache` and
instantiates `Sessions`, `MediaCache`, `SparseOrder`, `ChatPolicy`, `LoginLimiter` and
`Presence`; `Catalog` extends `LocalLibrary` and instantiates `RoomAccess`, `Playlists`
and `MusicSources`. A behaviour is of the one part it chooses at its start (`part`) and
leaves all others alone, so the state spaces add up and are not multiplied. Both name
the properties of their parts, are parameterised like any other module and state what
they assume of their constants; `MCServices` and `MCCatalog` only give them values.

## 4. Runs

| Run | Configuration | Question |
|---|---|---|
| `room_queue` | MCRoomQueue | Do reorder, priority, shuffle, batches and failing writes ever lose, double or misplace an item, or leave the room silent? |
| `room_rows` | MCRoomRows | Do limits, versions and rows agree with memory through writes that commit behind an error, deleted tracks, late hooks and restarts? |
| `room_like_failure` | MCRoomLikeFailure | *Violated*: does a like that fails leave nothing behind? |
| `store_writer` | MCStoreWriter | Are commits ordered, and does every call return, through cancellations and Close? Does the store implement `AtomicWrites`? |
| `store_writer_rollback` | MCStoreWriterRollback | *Violated*: is a cancelled write always rolled back? |
| `life_deletion` | MCLifeDeletion | Is there ever a second loop, a runtime or listener of a deleted room, or an eviction of a room with listeners? |
| `life_progress` | MCLifeProgress | Does every call return, and every deletion finish? |
| `life_stranded` | MCLifeStranded | *Violated*: is every accepted listener served by a live runtime? |
| `sync` | MCRoomSync | Is a page that has nothing under way in step with the room, and does it ever go back within one runtime? |
| `sync_overtaken` | MCRoomSyncOvertaken | *Violated*: does the latest state reach a connected page? |
| `services` | MCServices | Are retried mutations run once, revoked sessions closed, budgets kept, queues read back, and chat, logins and presence in order? |
| `catalog` | MCCatalog | Do tracks, files, rooms, owners, tickets, playlists and music sources stay consistent through requests that overlap, failures and restarts? |

### Bounds

- `RoomRuntime`. `room_queue`: two users, one track, queue of three, two songs per
  user, batches up to four, four items, so that two stand before or after a moved one and
  a batch meets a limit; two runtimes. `room_rows`: one user, two tracks, one of them
  local, queue of two, one song per user, history of one, three items, two runtimes, and
  one write that commits behind an error, as the second meets the states the first left.
  Versions end at three or four, enough for a queue to be filled, changed and played.
- `StoreWriter`: three calls over a channel of two: one is executed, one waits, and
  the channel can be full.
- `RoomLifecycle`: a channel of one, so that it is full. `life_deletion`: two runtimes, so
  that one is built while the other ends, one connection and one HTTP caller whose
  contexts may end. `life_progress`: no context ends (`Expiring` is empty), so that a
  call can return only by its result or the end of the loop, the hard case; one
  runtime is enough there, as calls and the deletion wait for the runtime they hold.
  `life_stranded`: the system room, which is never deleted, and two connections.
- `RoomSync`: two songs, the room empty or with both at the start, one resync goroutine,
  a client queue of three, two changes by others, one lost connection, one reorder: a
  snapshot can be overtaken, an acknowledgement can meet a foreign change, and a queue can
  be coalesced or overflow.
- `services`: three queue ids over two records and one control id, two bodies, a TTL of
  two within a clock of four, so that a record expires while another is live, the map is
  full, and a window starts again. Sessions: two users, three tokens, two requests,
  one connection, three passwords. Media: three keys, two workers, one reader, a budget of
  three with files of up to two, so that one file must go for another. Orders: four items,
  step two, so that gaps run out. Chat: one room and the public stream, interval two, two
  senders, one slot. Logins: two addresses, one of them tracked, two attempts,
  two requests. Presence: two browsers of one user, four revisions, two broadcasts
  under way.
- `catalog`: two uploads of one content by two uploaders, one worker, a queue of one, one
  deletion, the feeder; a system room and another, two users of whom one is administrator,
  one invite, two passwords; two lists, two songs (one local), three tracks; one source
  that the environment gives too, two credentials, a cache of two entries.

Symmetry is used for users, ids, runtimes, songs and connections, in runs of safety
properties only. CHECK_DEADLOCK stays on wherever the system ends in a named stuttering
step. `services` and `catalog` turn it off: some of their parts stop at their bounds, and
a part whose calls have all returned has nothing left to do.

### Fairness

`StoreWriter` assumes that the write goroutine runs and that a waiting caller whose
select has a ready case is resumed; the functions given to `Write` end, as their
statements run under a context and a busy timeout. `RoomLifecycle` assumes that a
loop's ready cases are taken (Go's select picks at random among those ready, so
one that stays ready is picked eventually), that a loop that has stopped runs its
deferred calls, that callers of `Execute` are resumed, and that Delete and
`Manager.Close` go on once their loops have ended. Nothing is assumed of clients,
sessions, tracks that end, eviction, or of anybody starting a deletion or shutdown.
All other modules have safety properties only and assume none.

### What the violated runs show

- `room_like_failure`: the personal list is written in a transaction of its own before
  the room's state. When the second fails the song stays in the list; the comment
  above `syncLikedSongs` says that heart and list agree.
- `store_writer_rollback`: `Write` returns its context's error while the goroutine is
  past its own check; the transaction commits. The comment above `Write` says that
  cancelled writes are rolled back before the result is delivered.
- `life_stranded`: the ticker cancels an idle runtime while an `Attach` waits in its
  channel. The next select has both ready and may apply the `Attach`. The handler then
  serves a connection on a runtime that ends; commands and resyncs of that connection
  fail until it reconnects.
- `sync_overtaken`: a snapshot is taken, the room changes and broadcasts, and the
  snapshot is sent: it replaces the newer state that waits in the client's queue. The
  member sees the older one until the room changes again, though no snapshot failed and the resync was
  what should repair the page. `ws/hub_test.go:12` names what is
  promised, that the *latest* state survives coalescing.

A page may rest out of step in another way, which `AtRestInSync` exempts as `missed`. The
channel of the loop is full: a reordering is refused, and the page drops the update it held
back for the reordering and asks for a resync instead. The resync takes its snapshot 750 ms
later, meets a full channel again, and returns without a message. The page stays connected
and shows its own order until the room changes. `docs/repair-batches.html:30` expects
resyncs to converge.

One more case was met while `AtRestInSync` was being proved. While a reordering is
unanswered, the page holds one update back, and each that comes replaces it without a look
at its version (`roomCommandStore.ts:63-66`, `:84-90`). When the first song is
enqueued into an idle room, the append patch and the state that takes the song out again
have the same version, and the patch, when it is applied after that state was held back
and lost to an older one, leaves the page with a song the room no longer queues. The comment
at `roomRuntimeStore.ts:56-59` expects the state to correct the patch. It takes five changes
of the room and a client queue of six, which is beyond the bounds of `sync`; a
larger, constrained instance showed it. The exemption `PutBack` covers it.

## 5. Proofs

The theorems hold for every value of the constants that satisfies the module's
named assumption (`ConstantsAssumption`, `StoreAssumption`, `CacheAssumption`,
`LifecycleAssumption`, `SyncAssumption`, `NoneAssumption`, `LibraryAssumption`,
`ServicesAssumption`, `CatalogAssumption`):
limits and durations are naturals, sentinels are not members of the sets they stand
beside, steps between orders are positive, and what is counted is finite. Each proof is of the form Init => I,
I /\ [Next]_vars => I', I => property.

`RoomRuntime_proofs` begins with what `Select`, `Move`, `Rest`, `Window` and
`Prioritise` return. `TypeCorrect`; `CursorStaysInHistory`;
`TombstonesStayUnreferenced`, whose invariant adds that a transaction checks every
song it writes against the tombstones at commit; `RowsStayInFront`, which needs that
the row's version is ahead of memory's, or the states are equal but for a deleted
track; from it `PublishedVersioned`, `QueueVersioned` and `EpochNamesTrack`, since a
rebuilt runtime starts from the row; `MarkersCountLikes`.

`RoomQueue_proofs`: `LimitsHold`, `NothingTwice` and `NeverIdle`. Every operation makes
its queue out of the old one and fresh ids; `Drawn(p, q)` says that q is made from p
through an injective map of positions, which is all that ids, limits and shares need. The
invariant `Kept` holds the limits of memory and rows always, and, unless a write has
committed behind an error, that ids are unique, that the playing item is not in the
queue, and that a silent room has nothing pending, in memory and in rows: a runtime
rebuilt from the rows has to start with the same. `RowsAreMemory` is inductive together
with the tombstones: a transaction that succeeds has checked every song it writes, so
`Keep` leaves all of what it wrote, and a deletion leaves in the rows what `Keep` leaves
of memory, because keeping twice is keeping once (`KeepTwice`, through ranks) and keeps
prefixes (`KeepPrefix`). `DropsLand` follows from which position each position shows after a
move (`Origin`, `MoveItems`) and from unique ids. `TurnsAreKept` takes every
operation in turn, on top of `Kept` and of the agreement of rows and memory, which says
that the hook after a deletion takes only songs of deleted tracks; `NextOutranks` says that
no pending item outranks the one the room may start.

`StoreWriter_proofs`: `TypeCorrect`; `AnswersTrue` and `StoreKeepsPromise` from an
invariant that places each call in exactly one of the channel, the transaction, the
result slot and the past, and says what may be committed in each; `NobodyWaitsForever`
from "the channel is empty when the goroutine has ended, and nothing enters it after
the flag is set"; `CommitsKeepOrder` from `InOrder`: the channel holds exactly the
accepted calls that were not taken, in their order, and what has committed was taken
before the call that is being written.

`RoomLifecycle_proofs`, in layers, each using the ones before:

1. `MapOK` and `HandlersOK`: the map holds exactly the runtime whose loop is between
   its start and its forgetting. This is the invariant behind `SingleOwner`
   (`OneOwner`).
2. `DeletionOK` and `ShutdownOK`: how far the end of the room or the server is, and
   that the map can then hold only the runtime that is waited for, or none. With
   layer 1, `DeletedStaysEmpty`, `DeletedHasNoRuntime` and `ClosedForGood`.
3. `ListenersOK`: a handler that may come to use the room is in the hub, closed or
   about to be (`NobodyListens`).
4. `SendersOK` and `DetachOK`: a detachment that waits in the channel belongs to a
   handler that still waits for it, and to one only.
5. `CountOK`: the count is at least the number of attached connections. It needs
   layer 4, as a detachment counted twice would break it. With layer 2,
   `ListenersSpared`.

`RoomSync_proofs` begins with what queues, patches and the page's stores keep; what the
patches of one frame do is shown one after the other (`AppliedKeeps`). `TypeCorrect`: every
message that waits and every store is of its kind, and the client's queue keeps its
bound. `PageMovesForward` from `Behind`: whatever state is on its way, in the client's
queue, in the hands of a sender or waiting for its frame, is at least as new as the
playback state the page shows, or the gate refuses it. Connecting resets that gate, which
is safe only because a lost connection has taken along what was under way, and a frame
that was due has run by then.

`RestIsInSync` from `Faithful`, which has two halves. `Truthful`: whatever is on its way,
held back or shown is true of the room. A whole queue of the room's epoch and version
is the room's queue, the newest state has the room's versions, and nothing is of a version
the room has not reached. `Reaching`: while the connection is open, either
`overtaken`, or `missed`, or the newest state or a resync that will bring it is still `Coming`, or the
page has `Absorbed` it, possibly as the update it holds back. What one frame does to the
page is followed patch by patch (`AppliedTruth`), and each action has to hand what it takes
from `Coming` on to a later stage, or to set `overtaken`, or, when a snapshot fails,
`missed`.

`LocalLibrary_proofs`: `DeletedForGood`. Most writes look at the status they replace;
the insert of an upload does not, so its invariant says that such an upload has an id
of its own without a row, which no other upload has. `OneOwner`: calls, queued jobs and
workers that hold a track hold different ones, and what they hold is what is
reserved (`OwnOK`). `MaterialKept` rests on it: a source has one row, the file of an upload
under way is known to nobody else (`ComingOK`), a job's input is its row's source
(`TasksOK`), and what somebody is about to remove is no source of a row that needs it
(`DoomedOK`).

`Services_proofs`, one invariant for each part; the theorems about them all follow from
`ServicesInvariant`, their composition, except those about mutations, which is the
part that `Services` extends:

- Mutations. An execution that may have had an effect in this runtime and is within its
  window has a record that says so (`Agree`); with it `AnswersTrue`, `AtMostOnce` and
  `RetriesInScope`. `CapacityHonest`: a mutation is refused only over a map full of records
  within their windows.
- Sessions. `CurrentPassword`: every session and every login under way must belong to a
  profile (`SessProfilesFirst`), as nobody becomes an administrator who had a session
  before; its steps rest on where a good session can come from (`SessOrigin`).
  `RevokedClosed`: a connection opens only after its session resolved again in the hub,
  and each call that revokes sessions goes on to close their connections.
- Media. `QuotaCovers`: the sizes of entries sum up to `used`, the bytes of workers to
  `reserved`, and each partial file is within its worker's bytes (`Covers`), which each
  change of a file keeps, also an eviction that meets a file it cannot remove. Sums over
  functions are cardinalities of sets of units (`Units`), about which there are theorems.
  `ReadersKeep`: nothing with a reader is a victim.
- Orders. `QueueReadsTrue`: an order that is written increases along the queue, as what
  `LongestIncreasing` keeps does (`LongestIncreases`, by induction over the items with the
  least natural number that would be wrong), and what is fitted between two neighbours lies
  between them in turn when the gap is as wide as `Crowded` asks for (`BetweenIncreases`).
  That the run which is kept is the longest there is matters to no property.
- Chat. `MessagesSpaced`: stored messages and writes under way are the interval apart
  (`ChatApart`), and each is the one its slot remembers or the interval before that, or,
  when the slot was forgotten, the interval past (`ChatSettled`).
- Logins. `AttemptsLimited`: an item counts the last admissions of its address (`Counts`), and
  an address without one has its budget again (`Fresh`).
- Presence. `PresenceForward`: every snapshot that is sent, waits or is shown is the record of
  its revision.

`Catalog_proofs`, likewise from `CatalogInv`:

- Access. `TicketsProve`: a ticket is at most as new as its room's version, and of the
  same version only with the same password; public rooms have none (`AccessTickets`,
  `AccessPublic`). `OwnersStayAgreed`: the one an owner pointer names is an owner, and
  whom a room without owners names is no member. `OnlyEditorsChange`: each action that changes or deletes a room ends
  a call made for just that, whose caller may edit the room in the state of the
  transaction.
- Lists. `PositionsDistinct`: a new track's position is above all others of its list,
  whose maximum exists because there are finitely many (`GreatestOf`), and several new
  ones differ by their ranks. `NothingLeftBehind`: a request may hold a list that is gone,
  but what writes a track sees its list alive in the same transaction.
- Music. `RegistryIsOfRows`: registry and rows differ only at the source or room the
  administrator's present step has still to publish (`MusicStep`), and bindings name
  sources that exist. `CacheIsCurrent`: what enters the cache is kept under the
  credentials it was resolved with.

Proved, and checked by no run: `TypeOK`, `AnswersAreTrue`, `CursorInHistory`,
`EpochNamesOneTrack`, `OneMarkerPerLike`, `QueueChangesAreVersioned`, `RetriesStayInScope`,
`NobodyLeftBehind`, `DeletedRoomStaysEmpty`, `NoLoopAfterClose`.

Only model-checked: the liveness properties (`EveryCallReturns` of both modules,
`DeletionFinishes`), since temporal proofs under fairness and ENABLED are out of the
prover's reach. Every safety invariant and action property the passing runs check is stated by a
theorem. The library's induction theorems cannot be instantiated here; where a recursive
function is proved about, the proof takes the least natural number at which the claim fails
(`LeastNatural`), which well-foundedness gives. The modules with proofs declare no recursive operator, and `Select` is stated through ranks for that
reason.

## 6. What is not modelled

- SQLite itself: a transaction is one atomic step with the outcomes its module names.
  That the file survives a power failure is the library's promise.
- Play positions and durations, the contents of chat, names and display data; history
  entries of equal time, whose order pages leave open.
- The page's optimistic like; presence across a restart of the server; the closing of a
  client with a full queue, which may hold up the room's loop for the time of a
  handshake.
- Steps that are one action here and several in the code: `Respond` of `MediaCache`
  reserves the bytes of a download and opens its partial file
  (`media/cache_download.go:69-79`), a file that nobody else makes, so that only the
  eviction of a leftover of it can come between; `Load` of `RoomRuntime` reads queue,
  state and history one after the other (`realtime/runtime.go:180-197`) while
  `Manager.Room` holds the lock the hook after a deletion waits for; the hook then repairs
  what was read, unless it runs into its timeout.
- A page that is hidden from one connection to the next and holds an animation frame all the
  while (`roomStateSynchronizer.ts:88-95`): `Connect` of `RoomSync` assumes that a frame
  which was due has run.
- Read-modify-write of a user's settings (`user.bind`, platform settings) without a lock:
  the hazard is the code itself, and a model would restate it.
- Files that stay behind in the local library when a removal fails; cookies of platforms
  other than the administrator's sources in the cache of resolved songs.
- Several rooms at once where rooms share no more than the Manager's lock, the store
  and the hub, each of which is modelled for one.
- HTTP routing and validation, platform adapters, configuration, the schema and its
  migrations (but for the upgrade of member accounts, in `RoomAccess`), snapshots,
  metrics, frontend views and the media player: parsing, input and output, or state
  read once.
