------------------------------ MODULE RoomSync ------------------------------
(***************************************************************************)
(* How the state of a room reaches the browser of one member, and comes    *)
(* back as reorderings.  The room's loop broadcasts every change; the      *)
(* handler of the connection and its resync goroutines send snapshots they *)
(* took earlier (websocket.go); all of them write into one bounded queue   *)
(* per client in which a state takes the place of an earlier one (hub.go). *)
(* The browser applies states and patches in animation frames, behind      *)
(* version gates, and shows a reordering before it is confirmed            *)
(* (src/music-party-web/src/domains/realtime).                             *)
(***************************************************************************)
EXTENDS Naturals, Sequences, SequencesExt

CONSTANTS
    Songs,        \* queue items
    Starts,       \* queues the room starts with
    Resyncs,      \* resync goroutines that may run at once (bound)
    Capacity,     \* messages a client's queue holds
    MaxChanges,   \* others change the room while changes, drops and reorderings are fewer (bound)
    MaxDrops,     \* connections lost (bound)
    MaxReorders,  \* reorderings by this member (bound)
    None

ASSUME SyncAssumption ==
    /\ Starts \subseteq Seq(Songs)
    /\ Capacity \in Nat \ {0}
    /\ MaxChanges \in Nat /\ MaxDrops \in Nat /\ MaxReorders \in Nat

VARIABLES
    room,      \* published state: runtime (epoch), versions, queue, and n, the number of changes
    conn,      \* "lost", "open", or "rejected" by a close the browser takes for a refused session
    outbox,    \* Client.queue of the hub
    inbox,     \* frames on their way to the handler
    sender,    \* sendInitial and the resync goroutines: "idle", "due", or the snapshot held
    reply,     \* acknowledgement the handler is about to send
    page,      \* the browser's stores: gates, queue, pending reorderings, deferred update
    frame,     \* state waiting for its animation frame
    patches,   \* patches waiting for theirs
    overtaken,    \* history: an older state or update took the place of the newest
    missed,       \* history: a snapshot failed, and the newest state was not sent since
    drops, reorders

vars == <<room, conn, outbox, inbox, sender, reply, page, frame, patches, overtaken, missed, drops, reorders>>
server == <<room, outbox, sender, reply>>

Senders == Resyncs \cup {"initial"}
Idle == [phase |-> "idle"]
Due == [phase |-> "due"]

-----------------------------------------------------------------------------
(* Queues *)

Has(q, s) == \E i \in DOMAIN q : q[i] = s
Position(q, s) == CHOOSE i \in DOMAIN q : q[i] = s
Without(q, s) == IF Has(q, s) THEN RemoveAt(q, Position(q, s)) ELSE q
Place(q, s, t) == LET rest == Without(q, s) IN InsertAt(rest, Position(rest, t), s)

\* What a patch makes of a queue; None when it names an item that is not there.
Patched(q, p) ==
    CASE p.op = "append" -> IF Has(q, p.song) THEN q ELSE Append(q, p.song)
      [] p.op = "remove" -> Without(q, p.song)
      [] p.op = "move"   -> IF Has(q, p.song) /\ Has(q, p.target) THEN Place(q, p.song, p.target) ELSE None

Snapshot == [type |-> "state", epoch |-> room.epoch, sv |-> room.sv, qv |-> room.qv,
             ts |-> room.n \div 2, queue |-> room.queue, n |-> room.n]

-----------------------------------------------------------------------------
(* The client's queue in the hub *)

States(box) == {i \in DOMAIN box : box[i].type = "state"}

\* Mutant: the state that waits stays, and the one that comes is dropped.
SendKeeping(box, m) ==
    IF box = None THEN box
    ELSE IF m.type = "state" /\ States(box) # {} THEN box
         ELSE IF Len(box) >= Capacity THEN None ELSE Append(box, m)

\* Send: a state replaces the one that waits; otherwise the message is
\* appended, and a full queue closes the connection (None).
Send(box, m) ==
    IF box = None THEN box
    ELSE IF m.type = "state" /\ States(box) # {}
         THEN [box EXCEPT ![CHOOSE i \in States(box) : TRUE] = m]
         ELSE IF Len(box) >= Capacity THEN None ELSE Append(box, m)

Closing == /\ conn' = "rejected"
           /\ outbox' = <<>> /\ inbox' = <<>> /\ reply' = None
           /\ sender' = [s \in Senders |-> Idle]

Deliver(box) == IF box = None THEN Closing
                                ELSE outbox' = box /\ UNCHANGED conn

\* A newest state that waits gives way to an older one; sending the newest
\* makes up for what happened before.
Overtaken == \E i \in States(outbox) : outbox[i].n = room.n
Overtaking(m) == overtaken' = (m.n < room.n /\ (overtaken \/ Overtaken))

-----------------------------------------------------------------------------
(* The room *)

\* What the room reports of a change of its queue, under the version it makes.
Edit(op, s) == [type |-> "patch", epoch |-> room.epoch, qv |-> room.qv + 1, op |-> op, song |-> s]
Move(s, t) == [type |-> "patch", epoch |-> room.epoch, qv |-> room.qv + 1, op |-> "move", song |-> s, target |-> t]
Whole(q) == [type |-> "patch", epoch |-> room.epoch, qv |-> room.qv + 1, op |-> "snapshot", queue |-> q]

\* A change of the room: the patch, when the queue changed, and the state.
\* Two changes share a millisecond of the clock.
Publish(queue, sv, patch) ==
    /\ room' = [room EXCEPT !.queue = queue, !.sv = sv, !.n = @ + 1,
                            !.qv = IF patch = None THEN @ ELSE @ + 1]
    /\ overtaken' = FALSE /\ missed' = FALSE
    /\ IF conn = "open"
       THEN Deliver(Send(IF patch = None THEN outbox ELSE Send(outbox, patch), Snapshot'))
       ELSE UNCHANGED <<conn, outbox>>

\* Another member enqueues, removes, moves, pauses, or the track ends.
Change ==
    /\ room.n + drops + reorders < MaxChanges
    /\ \/ \E s \in Songs :
            /\ ~Has(room.queue, s)
            /\ \/ Publish(Append(room.queue, s), room.sv, Edit("append", s))
               \/ /\ room.queue = <<>>   \* the player is idle and takes the song at once
                  /\ Publish(<<>>, room.sv + 1, Edit("append", s))
       \/ \E s \in Songs :
            /\ Has(room.queue, s)
            /\ Publish(Without(room.queue, s), room.sv, Edit("remove", s))
       \/ \E s, t \in Songs :
            /\ s # t /\ Has(room.queue, s) /\ Has(room.queue, t) /\ Place(room.queue, s, t) # room.queue
            /\ Publish(Place(room.queue, s, t), room.sv, Move(s, t))
       \/ Publish(room.queue, room.sv + 1, None)
       \/ /\ room.queue # <<>>
          /\ Publish(Tail(room.queue), room.sv + 1, Whole(Tail(room.queue)))
    /\ IF conn' = conn THEN UNCHANGED <<inbox, sender, reply>> ELSE TRUE
    /\ UNCHANGED <<page, frame, patches, drops, reorders>>

\* The runtime ends while nobody is attached and is rebuilt from the rows.
Rebuild ==
    /\ conn = "lost" /\ drops > 0 /\ room.epoch < 2
    /\ room' = [room EXCEPT !.epoch = @ + 1, !.qv = 1]
    /\ UNCHANGED <<conn, outbox, inbox, sender, reply, page, frame, patches, overtaken, missed, drops, reorders>>

-----------------------------------------------------------------------------
(* The handler *)

\* sendInitial and scheduleResync take a snapshot in the loop ...
Take(s) ==
    /\ sender[s].phase = "due"
    /\ sender' = [sender EXCEPT ![s] = [phase |-> "holds", snapshot |-> Snapshot,
                                        left |-> IF s = "initial" THEN 1 ELSE 2]]
    /\ UNCHANGED <<room, conn, outbox, inbox, reply, page, frame, patches, overtaken, missed, drops, reorders>>

\* ... or fail to (the loop's channel stays full, or the loop has ended), and
\* say nothing about it ...
TakeFails(s) ==
    /\ sender[s].phase = "due"
    /\ sender' = [sender EXCEPT ![s] = Idle] /\ missed' = TRUE
    /\ UNCHANGED <<room, conn, outbox, inbox, reply, page, frame, patches, overtaken, drops, reorders>>

\* ... and send it later, a resync twice.
SendSnapshot(s) ==
    /\ sender[s].phase = "holds"
    /\ LET held == sender[s] IN
       /\ Overtaking(held.snapshot)
       /\ missed' = (missed /\ held.snapshot.n < room.n)
       /\ Deliver(Send(outbox, held.snapshot))
       /\ IF conn' = conn
          THEN /\ sender' = [sender EXCEPT ![s] = IF held.left = 1 THEN Idle ELSE [held EXCEPT !.left = 1]]
               /\ UNCHANGED <<inbox, reply>>
          ELSE TRUE
    /\ UNCHANGED <<room, page, frame, patches, drops, reorders>>

\* dispatch, one frame at a time, after sendInitial.
Dispatch ==
    /\ conn = "open" /\ inbox # <<>> /\ reply = None /\ sender["initial"] = Idle
    /\ LET m == Head(inbox) IN
       \/ /\ m.type = "resync"
          /\ \E s \in Resyncs : sender[s] = Idle /\ sender' = [sender EXCEPT ![s] = Due]
          /\ inbox' = Tail(inbox)
          /\ UNCHANGED <<room, conn, outbox, reply, overtaken, missed>>
       \/ /\ m.type = "reorder"
          /\ Has(room.queue, m.song) /\ Has(room.queue, m.target)
          /\ Place(room.queue, m.song, m.target) # room.queue
          /\ Publish(Place(room.queue, m.song, m.target), room.sv, Move(m.song, m.target))
          /\ IF conn' = conn
             THEN /\ reply' = [type |-> "ack", id |-> m.id]
                  /\ inbox' = Tail(inbox)
                  /\ UNCHANGED sender
             ELSE TRUE
       \/ /\ m.type = "reorder"   \* the queue is stale, or the write failed
          /\ reply' = [type |-> "nack", id |-> m.id]
          /\ inbox' = Tail(inbox)
          /\ UNCHANGED <<room, conn, outbox, sender, overtaken, missed>>
    /\ UNCHANGED <<page, frame, patches, drops, reorders>>

\* mutationResult
Acknowledge ==
    /\ reply # None
    /\ Deliver(Send(outbox, reply))
    /\ IF conn' = conn THEN reply' = None /\ UNCHANGED <<inbox, sender>> ELSE TRUE
    /\ UNCHANGED <<room, page, frame, patches, overtaken, missed, drops, reorders>>

-----------------------------------------------------------------------------
(* The browser's stores *)

\* replaceQueue with a snapshot: refused when it is older than what is shown.
Replace(p, u) == IF u.qv < p.qv THEN p ELSE [p EXCEPT !.queue = u.queue, !.qv = u.qv]

SetQueue(p, u) == IF p.pending # {} THEN [p EXCEPT !.deferred = u] ELSE Replace(p, u)

\* A snapshot of another runtime starts a new generation, unless that
\* runtime has been left behind already.
Generation(p, s) ==
    IF s.epoch = p.epoch THEN p
    ELSE [p EXCEPT !.retired = @ \cup ({p.epoch} \ {0}), !.epoch = s.epoch, !.qv = 0, !.queue = <<>>,
                   !.deferred = None, !.pending = {}, !.sv = 0, !.ts = 0]

\* Mutant: states are taken as they come.
SyncUngated(p, s) ==
    LET update == [epoch |-> s.epoch, qv |-> s.qv, queue |-> s.queue]
    IN  IF s.epoch \in p.retired THEN p
        ELSE SetQueue([Generation(p, s) EXCEPT !.sv = s.sv, !.ts = s.ts, !.shown = s.sv], update)

SyncState(p, s) ==
    LET g == Generation(p, s)
        update == [epoch |-> s.epoch, qv |-> s.qv, queue |-> s.queue]
    IN  IF s.epoch \in p.retired THEN p
        ELSE IF s.sv < g.sv \/ (s.sv = g.sv /\ s.ts < g.ts) THEN g
        ELSE SetQueue([g EXCEPT !.sv = s.sv, !.ts = s.ts, !.shown = s.sv], update)

\* applyQueuePatch: the stores after it, and whether it asks for a resync.
ApplyPatch(p, d) ==
    LET kept == [page |-> p, resync |-> FALSE]
        gap == [page |-> p, resync |-> TRUE]
    IN  IF p.pending # {} THEN
            IF d.op = "snapshot"
            THEN [page |-> [p EXCEPT !.deferred = [epoch |-> d.epoch, qv |-> d.qv, queue |-> d.queue]], resync |-> FALSE]
            ELSE gap
        ELSE IF d.epoch # p.epoch THEN IF d.epoch \in p.retired THEN kept ELSE gap
        ELSE IF p.qv = 0 THEN gap
        ELSE IF d.op = "snapshot" THEN [page |-> Replace(p, d), resync |-> FALSE]
        ELSE IF d.qv <= p.qv THEN kept
        ELSE IF d.qv # p.qv + 1 \/ Patched(p.queue, d) = None THEN gap
        ELSE [page |-> [p EXCEPT !.queue = Patched(p.queue, d), !.qv = d.qv], resync |-> FALSE]

\* The stores after the patches of one frame, and whether one of them asked.
Then(before, d) == LET step == ApplyPatch(before.page, d)
                   IN  [page |-> step.page, resync |-> before.resync \/ step.resync]
Applied(p, ds) ==
    LET after[i \in 0..Len(ds)] ==
          IF i = 0 THEN [page |-> p, resync |-> FALSE] ELSE Then(after[i - 1], ds[i])
    IN  after[Len(ds)]

ApplyDeferred(p) ==
    IF p.deferred = None THEN p
    ELSE [(IF p.deferred.epoch = p.epoch THEN Replace(p, p.deferred) ELSE p) EXCEPT !.deferred = None]

\* settleQueueReorder
SettleAck(p, id) ==
    LET settled == [p EXCEPT !.pending = @ \ {id}]
    IN  IF id \notin p.pending \/ settled.pending # {} THEN settled ELSE ApplyDeferred(settled)
SettleNack(p, id) ==
    IF id \notin p.pending THEN p ELSE [p EXCEPT !.pending = @ \ {id}, !.deferred = None]

Ask(yes) == inbox' = IF yes THEN Append(inbox, [type |-> "resync"]) ELSE inbox

-----------------------------------------------------------------------------
(* The browser *)

\* The socket opens: the version gates are reset, a resync is requested.
\* The server registers the client before it takes the first snapshot.
\* Frames that were due have run by the time a socket is open again.
Connect ==
    /\ conn = "lost" /\ frame = None /\ patches = <<>>
    /\ conn' = "open"
    /\ page' = [page EXCEPT !.sv = 0, !.ts = 0]
    /\ inbox' = <<[type |-> "resync"]>>
    /\ sender' = [sender EXCEPT !["initial"] = Due]
    /\ overtaken' = FALSE /\ missed' = FALSE
    /\ UNCHANGED <<room, outbox, reply, frame, patches, drops, reorders>>

Lose ==
    /\ conn = "open" /\ drops < MaxDrops
    /\ conn' = "lost" /\ drops' = drops + 1
    /\ outbox' = <<>> /\ inbox' = <<>> /\ reply' = None
    /\ sender' = [s \in Senders |-> Idle]
    /\ UNCHANGED <<room, page, frame, patches, overtaken, missed, reorders>>

\* WriteLoop and the message handlers of the page.  A state waits for the
\* next frame and takes the place of one that waits already.
Receive ==
    /\ outbox # <<>>
    /\ LET m == Head(outbox) IN
       \/ /\ m.type = "state"
          /\ frame' = m
          /\ overtaken' = (overtaken \/ (frame # None /\ frame.n = room.n /\ m.n < room.n))
          /\ UNCHANGED <<patches, page, inbox>>
       \/ /\ m.type = "patch"
          /\ patches' = Append(patches, m)
          /\ UNCHANGED <<frame, page, inbox, overtaken>>
       \/ /\ m.type = "ack"
          /\ page' = SettleAck(page, m.id)
          /\ UNCHANGED <<frame, patches, inbox, overtaken>>
       \/ /\ m.type = "nack"
          /\ page' = SettleNack(page, m.id)
          /\ Ask(m.id \in page.pending)
          /\ UNCHANGED <<frame, patches, overtaken>>
    /\ outbox' = Tail(outbox)
    /\ UNCHANGED <<room, conn, sender, reply, missed, drops, reorders>>

\* The update put off while a reordering is pending has the queue of the
\* room, and gives way to an older one.
PutBack == /\ page.deferred # None /\ page'.deferred # None
           /\ page.deferred.epoch = room.epoch /\ page.deferred.qv = room.qv
           /\ page'.deferred.qv < room.qv

StateFrame ==
    /\ frame # None /\ conn # "rejected"
    /\ page' = SyncState(page, frame) /\ frame' = None
    /\ overtaken' = (overtaken \/ PutBack)
    /\ UNCHANGED <<server, conn, inbox, patches, missed, drops, reorders>>

\* All patches that wait; the requests of one frame are sent as one.
PatchFrame ==
    /\ patches # <<>> /\ conn # "rejected"
    /\ LET after == Applied(page, patches)
       IN  page' = after.page /\ Ask(after.resync /\ conn = "open")
    /\ patches' = <<>> /\ overtaken' = (overtaken \/ PutBack)
    /\ UNCHANGED <<server, conn, frame, missed, drops, reorders>>

\* The member drags a song in front of another.
Reorder ==
    /\ conn = "open" /\ reorders < MaxReorders
    /\ \E s, t \in Songs :
        /\ s # t /\ Has(page.queue, s) /\ Has(page.queue, t)
        /\ page' = [page EXCEPT !.queue = Place(@, s, t), !.pending = @ \cup {reorders + 1}]
        /\ inbox' = Append(inbox, [type |-> "reorder", song |-> s, target |-> t, id |-> reorders + 1])
    /\ reorders' = reorders + 1
    /\ UNCHANGED <<server, conn, frame, patches, overtaken, missed, drops>>

\* A reordering is not acknowledged in time, with or without a connection.
Expire ==
    /\ conn # "rejected"
    /\ \E id \in page.pending : page' = ApplyDeferred([page EXCEPT !.pending = @ \ {id}])
    /\ Ask(conn = "open")
    /\ UNCHANGED <<server, conn, frame, patches, overtaken, missed, drops, reorders>>

-----------------------------------------------------------------------------

AtRest == /\ outbox = <<>> /\ inbox = <<>> /\ reply = None
          /\ \A s \in Senders : sender[s] = Idle
          /\ frame = None /\ patches = <<>> /\ page.pending = {}

\* Nothing is on its way: the member looks at the room, or at the login form.
Quiet == (AtRest \/ conn = "rejected") /\ UNCHANGED vars

Init ==
    /\ \E q \in Starts : room = [epoch |-> 1, sv |-> 1, qv |-> 1, queue |-> q, n |-> 0]
    /\ conn = "lost" /\ outbox = <<>> /\ inbox = <<>> /\ reply = None
    /\ sender = [s \in Senders |-> Idle]
    /\ page = [epoch |-> 0, sv |-> 0, ts |-> 0, qv |-> 0, queue |-> <<>>, shown |-> 0,
               retired |-> {}, deferred |-> None, pending |-> {}]
    /\ frame = None /\ patches = <<>> /\ drops = 0 /\ reorders = 0
    /\ overtaken = FALSE /\ missed = FALSE

Next ==
    \/ Change \/ Rebuild \/ Dispatch \/ Acknowledge
    \/ \E s \in Senders : Take(s) \/ TakeFails(s) \/ SendSnapshot(s)
    \/ Connect \/ Lose \/ Receive \/ StateFrame \/ PatchFrame \/ Reorder \/ Expire
    \/ Quiet

Spec == Init /\ [][Next]_vars

-----------------------------------------------------------------------------
(* Properties *)

Queue == Seq(Songs)
State == [type : {"state"}, epoch : 1..2, sv : Nat, qv : Nat, ts : Nat, queue : Queue, n : Nat]
Patch ==
    [type : {"patch"}, epoch : 1..2, qv : Nat, op : {"append", "remove"}, song : Songs]
    \cup [type : {"patch"}, epoch : 1..2, qv : Nat, op : {"snapshot"}, queue : Queue]
    \cup {d \in [type : {"patch"}, epoch : 1..2, qv : Nat, op : {"move"}, song : Songs, target : Songs] :
             d.song # d.target}
Answer == [type : {"ack", "nack"}, id : 1..MaxReorders]
Request ==
    [type : {"resync"}]
    \cup {m \in [type : {"reorder"}, song : Songs, target : Songs, id : 1..MaxReorders] : m.song # m.target}
Update == [epoch : 1..2, qv : Nat, queue : Queue]
\* What says that there is none is not one of them.
ASSUME NoneAssumption == None \notin State \cup Patch \cup Answer \cup Update
Page == [epoch : 0..2, sv : Nat, ts : Nat, qv : Nat, queue : Queue, shown : Nat,
         retired : SUBSET (1..2), deferred : Update \cup {None}, pending : SUBSET (1..MaxReorders)]

TypeOK ==
    /\ room \in [epoch : 1..2, sv : Nat, qv : Nat, queue : Queue, n : Nat]
    /\ conn \in {"lost", "open", "rejected"}
    /\ outbox \in Seq(State \cup Patch \cup Answer) /\ Len(outbox) <= Capacity
    /\ inbox \in Seq(Request) /\ reply \in Answer \cup {None}
    /\ sender \in [Senders -> {Idle, Due} \cup [phase : {"holds"}, snapshot : State, left : 1..2]]
    /\ page \in Page
    /\ frame \in State \cup {None} /\ patches \in Seq(Patch)
    /\ overtaken \in BOOLEAN /\ missed \in BOOLEAN /\ drops \in 0..MaxDrops /\ reorders \in 0..MaxReorders

InSync == /\ page.epoch = room.epoch /\ page.shown = room.sv
          /\ page.qv = room.qv /\ page.queue = room.queue

(* When nothing is on its way the page shows the room as it is: its queue, *)
(* its runtime and its playback state, over patches, gaps, refused and     *)
(* expired reorderings, lost connections and rebuilt runtimes, unless an   *)
(* older state took the place of the newest on its way, or an older update *)
(* that of the newest, put off while a reordering is pending, or the       *)
(* server could not take a snapshot it owed and sent no newer state since. *)
AtRestInSync == AtRest /\ conn = "open" => InSync \/ overtaken \/ missed

(* The test at hub_test.go:12 has the queue of a client coalesce the       *)
(* latest state, and a resync is to converge: when nothing is on its way   *)
(* and every snapshot that was due was taken, the page shows the room as   *)
(* it is.                                                                  *)
LatestStateArrives == AtRest /\ conn = "open" => InSync \/ missed

(* The page never shows an older playback state than before, although its  *)
(* gates are reset whenever it connects.                                   *)
NeverBackwards ==
    [][/\ page'.shown >= page.shown
       /\ page'.epoch >= page.epoch]_vars
=============================================================================
