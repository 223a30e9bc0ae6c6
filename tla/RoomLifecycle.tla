---------------------------- MODULE RoomLifecycle ----------------------------
(***************************************************************************)
(* Who may touch one room, and until when: the Manager of                  *)
(* internal/realtime/runtime.go builds a runtime on demand and forgets it  *)
(* when its loop ends; WebSocket handlers (httpapi/websocket.go) attach    *)
(* to it and detach; other requests use it without attaching; an idle      *)
(* runtime evicts itself, a deleted room has its runtime closed, and       *)
(* shutdown closes them all.                                               *)
(*                                                                         *)
(* Every call goes through Execute, which hands a command to the loop over *)
(* a bounded channel and waits for the first of its result, its context    *)
(* and the end of the loop.  What a command does to the room's state is    *)
(* the subject of RoomRuntime; here it only writes rows.                   *)
(***************************************************************************)
EXTENDS Integers, FiniteSets, Sequences

CONSTANTS
  Runtimes,     \* runtime instances, each built at most once
  Connections,  \* WebSocket connections, each with its handler
  Callers,      \* HTTP requests that enqueue without a connection
  Capacity,     \* capacity of the commands channel
  System,       \* is it the system room, which cannot be deleted?
  Expiring,     \* bound: the clients whose context may end
  None          \* no runtime, or no result yet

Clients == Connections \cup Callers
Kinds == {"attaching", "writing", "detaching"}
Answers == {"ok", "error", "gone", "cancelled"}

ASSUME LifecycleAssumption ==
  /\ Capacity \in Nat \ {0}
  /\ Connections \cap Callers = {}
  /\ IsFiniteSet(Connections)
  /\ System \in BOOLEAN
  /\ Expiring \subseteq Clients
  /\ None \notin Runtimes \cup Answers
  /\ Runtimes \cap {"no", "committed", "closed", "finished"} = {}

VARIABLES
  room,      \* the room's row: "active" or "deleted" (deleted_at)
  rows,      \* does any other table hold a row of the room?
  deletion,  \* where Delete of the room is, after its transaction
  shutdown,  \* where Manager.Close is: "no", "closing" or "done"
  closing,   \* the runtimes Manager.Close has yet to wait for
  runtimes,  \* the Manager's map: the room's runtime, if any
  loop,      \* where the goroutine of each runtime is
  ended,     \* the runtimes whose context is cancelled
  clients,   \* the attachment count of each runtime
  commands,  \* the commands channel of each runtime
  hub,       \* the connections registered in the hub
  revoked,   \* the connections taken out of the hub for a revoked session
  dropped,   \* the connections whose socket is closed
  expired,   \* the clients whose context is done: session expiry, request gone
  phase,     \* where each handler is
  rt,        \* the runtime each handler works with
  sent,      \* is its command in the channel or beyond?
  result     \* the result channel of its command

manager == <<room, rows, deletion, shutdown, closing>>
instances == <<runtimes, loop, ended, clients, commands>>
sockets == <<hub, revoked, dropped, expired>>
handlers == <<phase, rt, sent, result>>
vars == <<manager, instances, sockets, handlers>>

Phases == {"new", "entered", "registered", "serving", "leaving", "gone"} \cup Kinds
Command == [by : Clients, kind : Kinds]

-----------------------------------------------------------------------------
(* The Manager.  Room runs under the Manager's lock, so it is one step.    *)

Goto(p, where) == phase' = [phase EXCEPT ![p] = where]

\* What a handler does with a runtime first.
FirstCommand(p) == IF p \in Connections THEN "attaching" ELSE "writing"
\* Where a handler goes that got none.
Refused(p) == IF p \in Connections THEN "leaving" ELSE "gone"

Wants(p) == phase[p] = IF p \in Connections THEN "registered" ELSE "new"

\* Mutant: access to the room was checked before, by canEnterRoom.
AdmittedByAccess == shutdown = "no"

Admitted == shutdown = "no" /\ room = "active"

\* The runtime in the map, or a new one whose loop is started.
Obtain(p) ==
  \/ /\ runtimes # None
     /\ rt' = [rt EXCEPT ![p] = runtimes]
     /\ UNCHANGED <<runtimes, loop>>
  \/ /\ runtimes = None
     /\ \E r \in Runtimes : /\ loop[r] = "unborn"
                            /\ loop' = [loop EXCEPT ![r] = "running"]
                            /\ runtimes' = r
                            /\ rt' = [rt EXCEPT ![p] = r]

\* Room: refused when the Manager is closed, the room is deleted, or the
\* database cannot be read (a context that is done among the reasons).  A
\* connection is refused for a session revoked since it was registered, too.
Room(p) ==
  /\ Wants(p)
  /\ \/ Goto(p, Refused(p)) /\ UNCHANGED <<rt, runtimes, loop>>
     \/ Admitted /\ Goto(p, FirstCommand(p)) /\ Obtain(p)
  /\ UNCHANGED <<manager, ended, clients, commands, sockets, sent, result>>

\* Manager.Close: the flag and the snapshot of the map, then one runtime after
\* the other is cancelled and waited for.
Close ==
  /\ shutdown = "no"
  /\ shutdown' = "closing"
  /\ closing' = {runtimes} \ {None}
  /\ ended' = ended \cup closing'
  /\ UNCHANGED <<room, rows, deletion, runtimes, loop, clients, commands, sockets, handlers>>

Closed ==
  /\ shutdown = "closing"
  /\ \A r \in closing : loop[r] = "done"
  /\ shutdown' = "done"
  /\ UNCHANGED <<room, rows, deletion, closing, instances, sockets, handlers>>

-----------------------------------------------------------------------------
(* Execute.                                                                *)

Request(p) == [by |-> p, kind |-> phase[p]]

\* The first select: into the channel while it has room, whether or not the
\* loop still reads it.
Send(p) ==
  /\ phase[p] \in Kinds /\ ~sent[p]
  /\ Len(commands[rt[p]]) < Capacity
  /\ commands' = [commands EXCEPT ![rt[p]] = Append(@, Request(p))]
  /\ sent' = [sent EXCEPT ![p] = TRUE]
  /\ UNCHANGED <<manager, runtimes, loop, ended, clients, sockets, phase, rt, result>>

\* Mutant: the handler detaches even if its attachment failed.
AfterDeferred(p, v) ==
  IF phase[p] = "attaching" /\ v # "ok" THEN "detaching"
  ELSE IF phase[p] = "attaching" \/ (phase[p] = "writing" /\ p \in Connections)
  THEN "serving" ELSE Refused(p)

\* Execute returns.  A handler whose attachment failed leaves without
\* detaching; one whose detachment failed leaves all the same.
After(p, v) ==
  IF \/ phase[p] = "attaching" /\ v = "ok"
     \/ phase[p] = "writing" /\ p \in Connections
  THEN "serving" ELSE Refused(p)

Return(p, v) ==
  /\ Goto(p, After(p, v))
  /\ sent' = [sent EXCEPT ![p] = FALSE]
  /\ result' = [result EXCEPT ![p] = None]
  /\ UNCHANGED <<manager, instances, sockets, rt>>

\* Mutant: the second select does not watch the end of the loop.
AwaitLoop(p) ==
  /\ phase[p] \in Kinds
  /\ \/ ~sent[p] /\ Len(commands[rt[p]]) = Capacity /\ Return(p, "error")
     \/ ~sent[p] /\ loop[rt[p]] = "done" /\ Return(p, "cancelled")
     \/ phase[p] # "detaching" /\ p \in expired /\ Return(p, "cancelled")
     \/ sent[p] /\ result[p] # None /\ Return(p, result[p])

\* The ways out of the two selects: the timer while the channel is full, the
\* end of the loop, the context (Detach has none), the result.
Await(p) ==
  /\ phase[p] \in Kinds
  /\ \/ ~sent[p] /\ Len(commands[rt[p]]) = Capacity /\ Return(p, "error")
     \/ loop[rt[p]] = "done" /\ Return(p, "cancelled")
     \/ phase[p] # "detaching" /\ p \in expired /\ Return(p, "cancelled")
     \/ sent[p] /\ result[p] # None /\ Return(p, result[p])

-----------------------------------------------------------------------------
(* The loop of a runtime.                                                  *)

\* The result of a command goes into the channel of its request, which nobody
\* reads any more when Execute has returned.
Waiting(cmd) == sent[cmd.by] /\ phase[cmd.by] = cmd.kind
Answer(cmds, v) ==
  result' = [p \in Clients |->
               IF \E i \in DOMAIN cmds : cmds[i].by = p /\ Waiting(cmds[i]) THEN v ELSE result[p]]

\* A transaction on the room's rows (RequireActiveRoom).
WriteRows == /\ room = "active"
             /\ rows' = TRUE

\* The next command: skipped when its context is done, otherwise applied.  A
\* write that finds the room deleted ends the runtime.
Apply(r) ==
  LET cmd == Head(commands[r])
  IN /\ loop[r] = "running" /\ commands[r] # <<>>
     /\ commands' = [commands EXCEPT ![r] = Tail(@)]
     /\ \/ /\ cmd.by \in expired /\ cmd.kind # "detaching"
           /\ Answer(<<cmd>>, "cancelled")
           /\ UNCHANGED <<clients, rows, ended>>
        \/ /\ cmd.by \notin expired /\ cmd.kind = "attaching"
           /\ clients' = [clients EXCEPT ![r] = @ + 1]
           /\ Answer(<<cmd>>, "ok")
           /\ UNCHANGED <<rows, ended>>
        \/ /\ cmd.kind = "detaching"
           /\ clients' = [clients EXCEPT ![r] = IF @ > 0 THEN @ - 1 ELSE 0]
           /\ Answer(<<cmd>>, "ok")
           /\ UNCHANGED <<rows, ended>>
        \/ /\ cmd.by \notin expired /\ cmd.kind = "writing"
           /\ \/ WriteRows /\ Answer(<<cmd>>, "ok") /\ UNCHANGED ended
              \/ UNCHANGED <<rows, ended>> /\ Answer(<<cmd>>, "error")
              \/ /\ room = "deleted" /\ Answer(<<cmd>>, "gone")
                 /\ ended' = ended \cup {r} /\ UNCHANGED rows
           /\ UNCHANGED clients
     /\ UNCHANGED <<room, deletion, shutdown, closing, runtimes, loop, sockets, phase, rt, sent>>

\* The ticker: the current track may end, which writes the room's rows.
Tick(r) ==
  /\ loop[r] = "running"
  /\ WriteRows
  /\ UNCHANGED <<room, deletion, shutdown, closing, instances, sockets, handlers>>

\* Mutant: the runtime leaves the map as soon as it decides to end.
EvictAndForget(r) ==
  /\ loop[r] = "running" /\ clients[r] = 0
  /\ ended' = ended \cup {r}
  /\ runtimes' = IF runtimes = r THEN None ELSE runtimes
  /\ UNCHANGED <<manager, loop, clients, commands, sockets, handlers>>

\* The ticker: nobody has been attached and nothing has been asked for a while.
Evict(r) ==
  /\ loop[r] = "running"
  /\ clients[r] = 0
  /\ ended' = ended \cup {r}
  /\ UNCHANGED <<manager, runtimes, loop, clients, commands, sockets, handlers>>

\* Mutant: commands that wait are served first.
StopWhenDrained(r) ==
  /\ loop[r] = "running" /\ r \in ended /\ commands[r] = <<>>
  /\ loop' = [loop EXCEPT ![r] = "stopped"]
  /\ UNCHANGED <<manager, runtimes, ended, clients, commands, sockets, handlers>>

\* ctx.Done was picked: everything in the channel is rejected.  The loop picks
\* among what is ready, so it may have applied commands since it was cancelled.
Stop(r) ==
  /\ loop[r] = "running" /\ r \in ended
  /\ Answer(commands[r], "cancelled")
  /\ commands' = [commands EXCEPT ![r] = <<>>]
  /\ loop' = [loop EXCEPT ![r] = "stopped"]
  /\ UNCHANGED <<manager, runtimes, ended, clients, sockets, phase, rt, sent>>

\* onClose takes the runtime out of the map, then done is closed.
Forget(r) ==
  /\ loop[r] = "stopped"
  /\ runtimes' = None
  /\ loop' = [loop EXCEPT ![r] = "forgotten"]
  /\ UNCHANGED <<manager, ended, clients, commands, sockets, handlers>>

Done(r) ==
  /\ loop[r] = "forgotten"
  /\ loop' = [loop EXCEPT ![r] = "done"]
  /\ UNCHANGED <<manager, runtimes, ended, clients, commands, sockets, handlers>>

-----------------------------------------------------------------------------
(* The WebSocket handler.                                                  *)

\* canEnterRoom reads the room's row.
Enter(c) ==
  /\ phase[c] = "new" /\ room = "active"
  /\ Goto(c, "entered")
  /\ UNCHANGED <<manager, instances, sockets, rt, sent, result>>

\* The hub knows the connection before the handler asks for a runtime.
Register(c) ==
  /\ phase[c] = "entered"
  /\ hub' = hub \cup {c}
  /\ Goto(c, "registered")
  /\ UNCHANGED <<manager, instances, revoked, dropped, expired, rt, sent, result>>

\* A frame that becomes a command of the runtime.
Receive(c) ==
  /\ phase[c] = "serving" /\ c \notin dropped \cup expired
  /\ Goto(c, "writing")
  /\ UNCHANGED <<manager, instances, sockets, rt, sent, result>>

\* The read fails: the socket is closed or the session has expired.
Break(c) ==
  /\ phase[c] = "serving" /\ c \in dropped \cup expired
  /\ Goto(c, "detaching")
  /\ UNCHANGED <<manager, instances, sockets, rt, sent, result>>

\* Unregister, the last thing a handler does; it closes the socket as well.
Unregister(c) ==
  /\ phase[c] = "leaving"
  /\ hub' = hub \ {c}
  /\ dropped' = dropped \cup {c}
  /\ Goto(c, "gone")
  /\ UNCHANGED <<manager, instances, revoked, expired, rt, sent, result>>

\* detachSessions: the hub forgets the connections of a revoked session, and
\* closes them when it has released its lock.
Revoke(c) ==
  /\ c \in hub
  /\ hub' = hub \ {c}
  /\ revoked' = revoked \cup {c}
  /\ UNCHANGED <<manager, instances, dropped, expired, handlers>>

\* The member closes the page or loses the network; the hub closes a socket for
\* a full queue, a revoked session or the end of the server.
Drop(c) ==
  /\ phase[c] \notin {"new", "gone"} /\ c \notin dropped
  /\ dropped' = dropped \cup {c}
  /\ UNCHANGED <<manager, instances, hub, revoked, expired, handlers>>

\* The deadline of the session, or the client of an HTTP request goes away.
Expire(p) ==
  /\ p \in Expiring \ expired /\ phase[p] \notin {"new", "gone"}
  /\ expired' = expired \cup {p}
  /\ UNCHANGED <<manager, instances, hub, revoked, dropped, handlers>>

-----------------------------------------------------------------------------
(* Deleting the room.                                                      *)

\* The transaction of Delete: the room's row is marked, every other row goes.
Delete ==
  /\ ~System /\ room = "active"
  /\ room' = "deleted" /\ rows' = FALSE
  /\ deletion' = "committed"
  /\ UNCHANGED <<shutdown, closing, instances, sockets, handlers>>

\* Manager.CloseRoom cancels the runtime in the map and waits for its loop.
CloseRoom ==
  /\ deletion = "committed"
  /\ ended' = ended \cup ({runtimes} \ {None})
  /\ deletion' = IF runtimes = None THEN "closed" ELSE runtimes
  /\ UNCHANGED <<room, rows, shutdown, closing, runtimes, loop, clients, commands, sockets, handlers>>

RoomClosed ==
  /\ deletion \in Runtimes /\ loop[deletion] = "done"
  /\ deletion' = "closed"
  /\ UNCHANGED <<room, rows, shutdown, closing, instances, sockets, handlers>>

\* Mutant: only the connections that are being served are closed.
CloseServed ==
  /\ deletion = "closed"
  /\ dropped' = dropped \cup {c \in hub : phase[c] = "serving"} /\ hub' = {}
  /\ deletion' = "finished"
  /\ UNCHANGED <<room, rows, shutdown, closing, instances, revoked, expired, handlers>>

\* Hub.CloseRoom, the second half of the hook.
CloseConnections ==
  /\ deletion = "closed"
  /\ dropped' = dropped \cup hub
  /\ hub' = {}
  /\ deletion' = "finished"
  /\ UNCHANGED <<room, rows, shutdown, closing, instances, revoked, expired, handlers>>

-----------------------------------------------------------------------------
Init ==
  /\ room = "active" /\ rows = FALSE /\ deletion = "no"
  /\ shutdown = "no" /\ closing = {}
  /\ runtimes = None
  /\ loop = [r \in Runtimes |-> "unborn"]
  /\ ended = {}
  /\ clients = [r \in Runtimes |-> 0]
  /\ commands = [r \in Runtimes |-> <<>>]
  /\ hub = {} /\ revoked = {} /\ dropped = {} /\ expired = {}
  /\ phase = [p \in Clients |-> "new"]
  /\ rt = [p \in Clients |-> None]
  /\ sent = [p \in Clients |-> FALSE]
  /\ result = [p \in Clients |-> None]

Loop(r) == Apply(r) \/ Tick(r) \/ Evict(r) \/ Stop(r) \/ Forget(r) \/ Done(r)
Handler(c) == Enter(c) \/ Register(c) \/ Receive(c) \/ Break(c) \/ Unregister(c)
              \/ Revoke(c) \/ Drop(c)
Deletion == Delete \/ CloseRoom \/ RoomClosed \/ CloseConnections

\* Every client is through and the server is down.
Quiet == shutdown = "done" /\ (\A p \in Clients : phase[p] \in {"new", "gone"}) /\ UNCHANGED vars

Next ==
  \/ \E r \in Runtimes : Loop(r)
  \/ \E p \in Clients : Room(p) \/ Send(p) \/ Await(p) \/ Expire(p)
  \/ \E c \in Connections : Handler(c)
  \/ Close \/ Closed \/ Deletion \/ Quiet

\* Goroutines are scheduled.  A select picks among its ready cases at random, so
\* a case that stays ready is picked: cancellation, the waiting commands, and
\* the cases of Execute.
Fairness ==
  /\ \A r \in Runtimes : WF_vars(Apply(r)) /\ WF_vars(Stop(r))
                         /\ WF_vars(Forget(r)) /\ WF_vars(Done(r))
  /\ \A p \in Clients : WF_vars(Send(p) \/ Await(p))
  /\ WF_vars(CloseRoom) /\ WF_vars(RoomClosed) /\ WF_vars(CloseConnections) /\ WF_vars(Closed)

Spec == Init /\ [][Next]_vars /\ Fairness

-----------------------------------------------------------------------------
(* Properties.                                                             *)

\* The type of every variable.
TypeOK ==
  /\ room \in {"active", "deleted"} /\ rows \in BOOLEAN
  /\ deletion \in {"no", "committed", "closed", "finished"} \cup Runtimes
  /\ shutdown \in {"no", "closing", "done"} /\ closing \subseteq Runtimes
  /\ runtimes \in Runtimes \cup {None}
  /\ loop \in [Runtimes -> {"unborn", "running", "stopped", "forgotten", "done"}]
  /\ ended \subseteq Runtimes
  /\ clients \in [Runtimes -> Nat]
  /\ commands \in [Runtimes -> Seq(Command)]
  /\ hub \subseteq Connections /\ revoked \subseteq Connections
  /\ dropped \subseteq Connections /\ expired \subseteq Clients
  /\ phase \in [Clients -> Phases]
  /\ rt \in [Clients -> Runtimes \cup {None}]
  /\ sent \in [Clients -> BOOLEAN]
  /\ result \in [Clients -> Answers \cup {None}]

\* The room's memory has one owner: never do the loops of two runtimes run at
\* once, however eviction, deletion and requests interleave.
SingleOwner ==
  \A r, s \in Runtimes : loop[r] = "running" /\ loop[s] = "running" => r = s

\* "Deletion interleaved with enqueue and advance: a deleted room cannot be
\* written any more": whatever loop, tick or queued command is still going.
DeletedRoomStaysEmpty == room = "deleted" => ~rows

\* Once Delete has returned no loop of the room runs or is ever started.
DeletedRoomHasNoRuntime ==
  deletion = "finished" => runtimes = None /\ \A r \in Runtimes : loop[r] # "running"

\* ... and nobody listens to it: a connection that the hook did not close, and
\* no revocation is about to, will still ask for the runtime, and be refused.
Using == {"serving", "attaching", "writing"}
NobodyListensToDeletedRoom ==
  deletion = "finished" => \A c \in Connections : phase[c] \in Using => c \in dropped \cup revoked

\* After Manager.Close, before the store is closed, no loop runs.
NoLoopAfterClose ==
  shutdown = "done" => \A r \in Runtimes : loop[r] # "running"

\* The connections whose attachment to r has been applied and whose detachment
\* has not.
Attached(r) ==
  {c \in Connections :
     /\ rt[c] = r
     /\ \/ phase[c] \in {"serving", "writing"}
        \/ phase[c] = "attaching" /\ result[c] = "ok"
        \/ phase[c] = "detaching" /\ result[c] = None}

\* Idle eviction spares every runtime with a listener: lost detachments and
\* attachments given up by their handlers can only make the count too high.
EvictionSparesListeners ==
  [][\A r \in ended' \ ended :
       room = "active" /\ shutdown' = "no" => Attached(r) = {}]_vars

\* Every call of Execute returns, even one whose command was put into the
\* channel after the loop had rejected what was in there.
EveryCallReturns ==
  \A p \in Clients, kind \in Kinds : phase[p] = kind ~> phase[p] # kind

\* Delete returns once it has committed: the loop ends however busy it is kept.
DeletionFinishes == deletion = "committed" ~> deletion = "finished"

\* "Reclaimed runtimes ... are recoverable, resync converges": a member whose
\* attachment was accepted is served by a runtime that still answers.
ListenersAreServed ==
  room = "active" /\ shutdown = "no" =>
    \A c \in Connections : phase[c] = "serving" => loop[rt[c]] # "done"
=============================================================================
