------------------------ MODULE RoomLifecycle_proofs ------------------------
(* Proofs about RoomLifecycle, for any number of runtimes, connections and *)
(* callers.                                                                *)
EXTENDS RoomLifecycle, FiniteSetTheorems, TLAPS

-----------------------------------------------------------------------------
(* Types.                                                                  *)

\* Where the handlers go next is a phase.
LEMMA PhasesOK ==
  ASSUME TypeOK, NEW p \in Clients, NEW v
  PROVE  /\ FirstCommand(p) \in Phases /\ Refused(p) \in Phases
         /\ After(p, v) \in Phases /\ Kinds \subseteq Phases
  BY DEF FirstCommand, Refused, After, Phases, Kinds

\* A step of Execute keeps the types.
LEMMA ExecuteTypes ==
  ASSUME TypeOK, NEW p \in Clients, Room(p) \/ Send(p) \/ Await(p) \/ Expire(p)
  PROVE  TypeOK'
<1>1. ASSUME Room(p) PROVE TypeOK'
  <2>1. phase' \in [Clients -> Phases]
    BY <1>1, PhasesOK DEF TypeOK, Room, Goto
  <2>2. CASE UNCHANGED <<rt, runtimes, loop>>
    BY <1>1, <2>1, <2>2 DEF TypeOK, Room, manager, sockets
  <2>3. CASE Obtain(p)
    <3>1. /\ runtimes' \in Runtimes \cup {None}
          /\ rt' \in [Clients -> Runtimes \cup {None}]
      BY <1>1, <2>3 DEF TypeOK, Obtain
    <3>2. loop' \in [Runtimes -> {"unborn", "running", "stopped", "forgotten", "done"}]
      BY <1>1, <2>3 DEF TypeOK, Obtain
    <3> QED BY <1>1, <2>1, <3>1, <3>2 DEF TypeOK, Room, manager, sockets
  <2> QED BY <1>1, <2>2, <2>3 DEF Room
<1> USE DEF TypeOK
<1>2. ASSUME Send(p) PROVE TypeOK'
  <2>1. Request(p) \in Command
    BY <1>2 DEF Send, Request, Command
  <2>2. commands' \in [Runtimes -> Seq(Command)]
    <3>1. ASSUME rt[p] \in Runtimes
          PROVE  Append(commands[rt[p]], Request(p)) \in Seq(Command)
      BY <2>1, <3>1
    <3> QED BY <1>2, <3>1 DEF Send
  <2> QED BY <1>2, <2>2 DEF Send, manager, sockets
<1>3. ASSUME Await(p) PROVE TypeOK'
  <2>1. PICK v : Return(p, v)
    BY <1>3 DEF Await
  <2>2. phase' \in [Clients -> Phases]
    BY <2>1, PhasesOK DEF Return, Goto
  <2> QED BY <2>1, <2>2 DEF Return, manager, instances, sockets
<1>4. ASSUME Expire(p) PROVE TypeOK'
  BY <1>4 DEF Expire, manager, instances, handlers
<1> QED BY <1>1, <1>2, <1>3, <1>4

\* A step of a loop keeps the types.
LEMMA LoopTypes ==
  ASSUME TypeOK, NEW r \in Runtimes, Loop(r)
  PROVE  TypeOK'
<1>1. ASSUME NEW cmds, NEW v \in Answers, Answer(cmds, v)
      PROVE  result' \in [Clients -> Answers \cup {None}]
  BY <1>1 DEF TypeOK, Answer
<1>2. ASSUME Apply(r) PROVE TypeOK'
  <2>1. commands[r] \in Seq(Command) /\ commands[r] # <<>>
    BY <1>2 DEF TypeOK, Apply
  <2>2. commands' \in [Runtimes -> Seq(Command)]
    BY <1>2, <2>1 DEF TypeOK, Apply
  <2>3. result' \in [Clients -> Answers \cup {None}]
    BY <1>1, <1>2 DEF Apply, Answers
  <2>4. clients' \in [Runtimes -> Nat]
    <3>1. \/ clients' = clients
          \/ clients' = [clients EXCEPT ![r] = @ + 1]
          \/ clients' = [clients EXCEPT ![r] = IF @ > 0 THEN @ - 1 ELSE 0]
      BY <1>2 DEF Apply
    <3>2. clients \in [Runtimes -> Nat]
      BY DEF TypeOK
    <3>3. \A n \in Nat : n + 1 \in Nat /\ (IF n > 0 THEN n - 1 ELSE 0) \in Nat
      OBVIOUS
    <3> QED BY <3>1, <3>2, <3>3
  <2>5. ended' \subseteq Runtimes /\ rows' \in BOOLEAN
    BY <1>2 DEF TypeOK, Apply, WriteRows
  <2> QED BY <1>2, <2>2, <2>3, <2>4, <2>5 DEF TypeOK, Apply, sockets
<1>3. ASSUME Tick(r) PROVE TypeOK'
  BY <1>3 DEF TypeOK, Tick, WriteRows, instances, sockets, handlers
<1>4. ASSUME Stop(r) PROVE TypeOK'
  <2>1. commands' \in [Runtimes -> Seq(Command)]
    BY <1>4 DEF TypeOK, Stop
  <2>2. result' \in [Clients -> Answers \cup {None}]
    BY <1>1, <1>4 DEF Stop, Answers
  <2> QED BY <1>4, <2>1, <2>2 DEF TypeOK, Stop, manager, sockets
<1>5. ASSUME Evict(r) \/ Forget(r) \/ Done(r) PROVE TypeOK'
  BY <1>5 DEF TypeOK, Evict, Forget, Done, manager, sockets, handlers
<1> QED BY <1>2, <1>3, <1>4, <1>5 DEF Loop

\* A step of a handler, of the deletion or of the shutdown keeps the types.
LEMMA OtherTypes ==
  ASSUME TypeOK, (\E c \in Connections : Handler(c)) \/ Close \/ Closed \/ Deletion
  PROVE  TypeOK'
<1> USE DEF TypeOK, manager, instances, sockets, handlers
<1>1. ASSUME NEW c \in Connections, Handler(c) PROVE TypeOK'
  <2> c \in Clients
    BY DEF Clients
  <2> QED BY <1>1 DEF Handler, Enter, Register, Receive, Break, Unregister, Revoke, Drop, Goto,
                      Phases, Kinds
<1>2. ASSUME Close \/ Closed PROVE TypeOK'
  BY <1>2 DEF Close, Closed
<1>3. ASSUME Deletion PROVE TypeOK'
  BY <1>3 DEF Deletion, Delete, CloseRoom, RoomClosed, CloseConnections
<1> QED BY <1>1, <1>2, <1>3

\* The type of every variable, for every value of the constants.
THEOREM TypeCorrect == Spec => []TypeOK
<1>1. Init => TypeOK
  <2> SUFFICES ASSUME Init PROVE TypeOK
    OBVIOUS
  <2>1. commands \in [Runtimes -> Seq(Command)]
    BY DEF Init
  <2>2. phase \in [Clients -> Phases]
    BY DEF Init, Phases
  <2> QED BY <2>1, <2>2 DEF Init, TypeOK
<1>2. TypeOK /\ [Next]_vars => TypeOK'
  <2> SUFFICES ASSUME TypeOK, [Next]_vars PROVE TypeOK'
    OBVIOUS
  <2>1. ASSUME UNCHANGED vars PROVE TypeOK'
    BY <2>1 DEF TypeOK, vars, manager, instances, sockets, handlers
  <2> QED BY <2>1, ExecuteTypes, LoopTypes, OtherTypes DEF Next, Quiet
<1> QED BY <1>1, <1>2, PTL DEF Spec

-----------------------------------------------------------------------------
(* Which runtime is in the map, and who works with one.                    *)

\* The map holds the one runtime whose loop has started and has not been
\* forgotten; whoever works with a runtime got one whose loop was started.
MapOK ==
  /\ \A r \in Runtimes : loop[r] \in {"running", "stopped"} <=> runtimes = r
  /\ \A p \in Clients : rt[p] # None => loop[rt[p]] # "unborn"

\* What a handler has at hand in each of its phases.
HandlersOK ==
  \A p \in Clients :
     /\ phase[p] \in {"new", "entered", "registered"} => rt[p] = None
     /\ phase[p] \in Kinds \cup {"serving"} => rt[p] # None
     /\ ~sent[p] => result[p] = None
     /\ phase[p] \notin Kinds => ~sent[p]
     /\ p \in Callers => phase[p] \in {"new", "writing", "gone"}

\* Room gives a handler the runtime of the map.
LEMMA RoomKeepsMap ==
  ASSUME TypeOK, MapOK, NEW p \in Clients, Room(p)
  PROVE  MapOK'
<1>1. CASE UNCHANGED <<rt, runtimes, loop>>
  BY <1>1 DEF MapOK
<1>2. CASE Obtain(p) /\ runtimes # None
  <2>1. UNCHANGED <<runtimes, loop>> /\ rt' = [rt EXCEPT ![p] = runtimes]
    BY <1>2 DEF Obtain
  <2>2. loop[runtimes] # "unborn"
    BY <1>2 DEF TypeOK, MapOK
  <2> QED BY <2>1, <2>2 DEF TypeOK, MapOK
<1>3. CASE Obtain(p) /\ runtimes = None
  <2>1. PICK r \in Runtimes : /\ loop[r] = "unborn"
                              /\ loop' = [loop EXCEPT ![r] = "running"]
                              /\ runtimes' = r
                              /\ rt' = [rt EXCEPT ![p] = r]
    BY <1>3 DEF Obtain
  <2>2. \A s \in Runtimes : loop[s] \notin {"running", "stopped"}
    BY <1>3, LifecycleAssumption DEF MapOK
  <2>3. \A s \in Runtimes : loop'[s] \in {"running", "stopped"} <=> runtimes' = s
    BY <2>1, <2>2 DEF TypeOK
  <2>4. ASSUME NEW q \in Clients, rt'[q] # None PROVE loop'[rt'[q]] # "unborn"
    BY <2>1, <2>4 DEF TypeOK, MapOK
  <2> QED BY <2>3, <2>4 DEF MapOK
<1> QED BY <1>1, <1>2, <1>3 DEF Room

\* A step of the loop of r keeps the map.
LEMMA LoopKeepsMap ==
  ASSUME TypeOK, MapOK, NEW r \in Runtimes, Loop(r)
  PROVE  MapOK'
<1>1. CASE Apply(r) \/ Tick(r) \/ Evict(r)
  BY <1>1 DEF MapOK, Apply, Tick, Evict, instances, handlers
<1>2. CASE Stop(r)
  BY <1>2 DEF MapOK, TypeOK, Stop, handlers
<1>3. CASE Forget(r)
  <2>1. \A s \in Runtimes \ {r} : loop[s] \notin {"running", "stopped"}
    BY <1>3 DEF MapOK, Forget
  <2> QED BY <1>3, <2>1, LifecycleAssumption DEF MapOK, TypeOK, Forget, handlers
<1>4. CASE Done(r)
  BY <1>4 DEF MapOK, TypeOK, Done, handlers
<1> QED BY <1>1, <1>2, <1>3, <1>4 DEF Loop

\* A step of a handler keeps what handlers have at hand.
LEMMA HandlersStep ==
  ASSUME TypeOK, MapOK, HandlersOK,
         (\E p \in Clients : Room(p) \/ Send(p) \/ Await(p) \/ Expire(p))
           \/ \E c \in Connections : Handler(c)
  PROVE  HandlersOK'
<1> USE DEF TypeOK, HandlersOK
<1>1. ASSUME NEW p \in Clients, Room(p) PROVE HandlersOK'
  <2>1. phase[p] \notin Kinds /\ phase[p] \in {"new", "registered"}
    BY <1>1 DEF Room, Wants, Kinds
  <2>2. UNCHANGED <<sent, result>> /\ ~sent[p]
    BY <1>1, <2>1 DEF Room
  <2>3. CASE Goto(p, Refused(p)) /\ UNCHANGED <<rt, runtimes, loop>>
    <3>1. Refused(p) \notin Kinds \cup {"new", "entered", "registered", "serving"}
      BY DEF Refused, Kinds
    <3>2. p \in Callers => Refused(p) = "gone"
      BY LifecycleAssumption DEF Refused
    <3> QED BY <2>2, <2>3, <3>1, <3>2 DEF Goto
  <2>4. CASE Goto(p, FirstCommand(p)) /\ Obtain(p)
    <3>1. FirstCommand(p) \in Kinds /\ (p \in Callers => FirstCommand(p) = "writing")
      BY LifecycleAssumption DEF FirstCommand, Kinds
    <3>2. \E r \in Runtimes : rt' = [rt EXCEPT ![p] = r]
      BY <2>4 DEF Obtain
    <3>3. None \notin Runtimes /\ Kinds \cap {"new", "entered", "registered"} = {}
      BY LifecycleAssumption DEF Kinds
    <3> QED BY <2>2, <2>4, <3>1, <3>2, <3>3 DEF Goto
  <2> QED BY <1>1, <2>3, <2>4 DEF Room
<1>2. ASSUME NEW p \in Clients, Send(p) PROVE HandlersOK'
  BY <1>2 DEF Send
<1>3. ASSUME NEW p \in Clients, Await(p) PROVE HandlersOK'
  <2>1. PICK v : Return(p, v)
    BY <1>3 DEF Await
  <2>2. phase[p] \in Kinds
    BY <1>3 DEF Await
  <2>3. /\ After(p, v) \in {"serving", "leaving", "gone"}
        /\ p \in Callers => After(p, v) = "gone"
    BY <2>2, LifecycleAssumption DEF After, Refused, Kinds
  <2>4. Kinds \cap {"serving", "leaving", "gone"} = {}
    BY DEF Kinds
  <2> QED BY <2>1, <2>2, <2>3, <2>4 DEF Return, Goto
<1>4. ASSUME NEW p \in Clients, Expire(p) PROVE HandlersOK'
  BY <1>4 DEF Expire, handlers
<1>5. ASSUME NEW c \in Connections, Handler(c) PROVE HandlersOK'
  <2>1. c \in Clients /\ c \notin Callers
    BY LifecycleAssumption DEF Clients
  <2> QED BY <1>5, <2>1 DEF Handler, Enter, Register, Receive, Break, Unregister, Revoke, Drop, Goto,
                            Kinds, handlers
<1> QED BY <1>1, <1>2, <1>3, <1>4, <1>5

\* A result goes to a request that waits for it.
LEMMA AnswersWait ==
  ASSUME HandlersOK, TypeOK, NEW cmds, NEW v, Answer(cmds, v)
  PROVE  \A p \in Clients : ~sent[p] => result'[p] = result[p]
  BY DEF Answer, Waiting

\* A step of a loop gives results to those who wait.
LEMMA LoopKeepsHandlers ==
  ASSUME TypeOK, HandlersOK, NEW r \in Runtimes, Loop(r)
  PROVE  HandlersOK'
<1>1. CASE Apply(r)
  <2>1. PICK cmds, v : Answer(cmds, v)
    BY <1>1 DEF Apply
  <2> QED BY <1>1, <2>1, AnswersWait DEF HandlersOK, Apply
<1>2. CASE Stop(r)
  <2>1. PICK cmds, v : Answer(cmds, v)
    BY <1>2 DEF Stop
  <2> QED BY <1>2, <2>1, AnswersWait DEF HandlersOK, Stop
<1>3. CASE Tick(r) \/ Evict(r) \/ Forget(r) \/ Done(r)
  BY <1>3 DEF HandlersOK, Tick, Evict, Forget, Done, handlers
<1> QED BY <1>1, <1>2, <1>3 DEF Loop

\* The map and the handlers stay as they should.
THEOREM MapCorrect == Spec => [](MapOK /\ HandlersOK)
<1>1. Init => MapOK /\ HandlersOK
  BY LifecycleAssumption DEF Init, MapOK, HandlersOK, Kinds
<1>2. TypeOK /\ MapOK /\ HandlersOK /\ [Next]_vars => (MapOK /\ HandlersOK)'
  <2> SUFFICES ASSUME TypeOK, MapOK, HandlersOK, [Next]_vars
               PROVE  (MapOK /\ HandlersOK)'
    OBVIOUS
  <2>1. CASE \E r \in Runtimes : Loop(r)
    BY <2>1, LoopKeepsMap, LoopKeepsHandlers
  <2>2. ASSUME NEW p \in Clients, Room(p) \/ Send(p) \/ Await(p) \/ Expire(p)
        PROVE  (MapOK /\ HandlersOK)'
    <3>1. ASSUME ~Room(p) PROVE MapOK'
      BY <2>2, <3>1 DEF MapOK, Send, Await, Return, Expire, instances, handlers
    <3> QED BY <2>2, <3>1, RoomKeepsMap, HandlersStep
  <2>3. ASSUME NEW c \in Connections, Handler(c) PROVE (MapOK /\ HandlersOK)'
    <3>1. MapOK'
      BY <2>3 DEF MapOK, Handler, Enter, Register, Receive, Break, Unregister, Revoke, Drop,
                  instances, handlers
    <3> QED BY <2>3, <3>1, HandlersStep
  <2>4. CASE Close \/ Closed \/ Deletion \/ Quiet \/ UNCHANGED vars
    BY <2>4 DEF MapOK, HandlersOK, Close, Closed, Deletion, Delete, CloseRoom, RoomClosed,
                CloseConnections, Quiet, vars, instances, handlers
  <2> QED BY <2>1, <2>2, <2>3, <2>4 DEF Next
<1> QED BY <1>1, <1>2, TypeCorrect, PTL DEF Spec

\* Never do two loops of the room run at once: the map holds them all.
THEOREM OneOwner == Spec => []SingleOwner
<1>1. MapOK => SingleOwner
  BY DEF MapOK, SingleOwner
<1> QED BY <1>1, MapCorrect, PTL

-----------------------------------------------------------------------------
(* Deletion and shutdown.                                                  *)

\* How far the deletion is, and what is left of the room then.
DeletionOK ==
  /\ deletion # "no" => room = "deleted"
  /\ room = "deleted" => ~rows
  /\ deletion \in Runtimes => runtimes \in {None, deletion}
  /\ deletion \in {"closed", "finished"} => runtimes = None

\* How far the shutdown is, and what is left in the map then.
ShutdownOK ==
  /\ shutdown # "no" => runtimes \in closing \cup {None}
  /\ shutdown = "done" => runtimes = None

\* The map gets a runtime while neither has begun.
LEMMA RoomKeepsEnds ==
  ASSUME DeletionOK, ShutdownOK, NEW p \in Clients, Room(p)
  PROVE  DeletionOK' /\ ShutdownOK'
<1>1. CASE UNCHANGED runtimes
  BY <1>1 DEF DeletionOK, ShutdownOK, Room, manager
<1>2. CASE Admitted
  <2>1. deletion = "no" /\ shutdown = "no"
    BY <1>2 DEF DeletionOK, Admitted
  <2>2. "no" \notin Runtimes
    BY LifecycleAssumption
  <2> QED BY <2>1, <2>2 DEF DeletionOK, ShutdownOK, Room, manager
<1> QED BY <1>1, <1>2 DEF Room

\* A loop takes its runtime out of the map, and writes to an active room.
LEMMA LoopKeepsEnds ==
  ASSUME TypeOK, DeletionOK, ShutdownOK, NEW r \in Runtimes, Loop(r)
  PROVE  DeletionOK' /\ ShutdownOK'
<1>1. runtimes' \in {runtimes, None} /\ UNCHANGED <<room, deletion, shutdown, closing>>
  BY DEF Loop, Apply, Tick, Evict, Stop, Forget, Done, manager, instances
<1>2. rows' = rows \/ room = "active"
  BY DEF Loop, Apply, Tick, Evict, Stop, Forget, Done, manager, WriteRows
<1> QED BY <1>1, <1>2 DEF DeletionOK, ShutdownOK

\* Deletion and shutdown go on only when the loops they wait for are done.
LEMMA EndsStep ==
  ASSUME TypeOK, MapOK, DeletionOK, ShutdownOK, Close \/ Closed \/ Deletion
  PROVE  DeletionOK' /\ ShutdownOK'
<1> USE LifecycleAssumption
<1>1. CASE Close
  BY <1>1 DEF DeletionOK, ShutdownOK, Close
<1>2. CASE Closed
  <2>1. runtimes = None
    BY <1>2 DEF TypeOK, MapOK, ShutdownOK, Closed
  <2> QED BY <1>2, <2>1 DEF DeletionOK, ShutdownOK, Closed, instances
<1>3. CASE Delete
  BY <1>3 DEF DeletionOK, ShutdownOK, Delete, instances
<1>4. CASE CloseRoom
  BY <1>4 DEF TypeOK, DeletionOK, ShutdownOK, CloseRoom
<1>5. CASE RoomClosed
  <2>1. runtimes = None
    BY <1>5 DEF MapOK, DeletionOK, RoomClosed
  <2> QED BY <1>5, <2>1 DEF DeletionOK, ShutdownOK, RoomClosed, instances
<1>6. CASE CloseConnections
  BY <1>6 DEF DeletionOK, ShutdownOK, CloseConnections, instances
<1> QED BY <1>1, <1>2, <1>3, <1>4, <1>5, <1>6 DEF Deletion

\* What is left of the room, and of the map, at each point of its end.
THEOREM EndsCorrect == Spec => [](DeletionOK /\ ShutdownOK)
<1>1. Init => DeletionOK /\ ShutdownOK
  BY LifecycleAssumption DEF Init, DeletionOK, ShutdownOK
<1>2. TypeOK /\ MapOK /\ DeletionOK /\ ShutdownOK /\ [Next]_vars => (DeletionOK /\ ShutdownOK)'
  <2> SUFFICES ASSUME TypeOK, MapOK, DeletionOK, ShutdownOK, [Next]_vars
               PROVE  (DeletionOK /\ ShutdownOK)'
    OBVIOUS
  <2>1. ASSUME NEW p \in Clients, Send(p) \/ Await(p) \/ Expire(p)
        PROVE  UNCHANGED <<manager, runtimes>>
    BY <2>1 DEF Send, Await, Return, Expire, instances
  <2>2. ASSUME NEW c \in Connections, Handler(c) PROVE UNCHANGED <<manager, runtimes>>
    BY <2>2 DEF Handler, Enter, Register, Receive, Break, Unregister, Revoke, Drop, instances
  <2>3. ASSUME Quiet \/ UNCHANGED vars PROVE UNCHANGED <<manager, runtimes>>
    BY <2>3 DEF Quiet, vars, instances
  <2>4. ASSUME UNCHANGED <<manager, runtimes>> PROVE (DeletionOK /\ ShutdownOK)'
    BY <2>4 DEF DeletionOK, ShutdownOK, manager
  <2> QED BY <2>1, <2>2, <2>3, <2>4, RoomKeepsEnds, LoopKeepsEnds, EndsStep DEF Next
<1> QED BY <1>1, <1>2, TypeCorrect, MapCorrect, PTL DEF Spec

\* A deleted room is never written to.
THEOREM DeletedStaysEmpty == Spec => []DeletedRoomStaysEmpty
<1>1. DeletionOK => DeletedRoomStaysEmpty
  BY DEF DeletionOK, DeletedRoomStaysEmpty
<1> QED BY <1>1, EndsCorrect, PTL

\* When Delete returns, no loop of the room runs, nor will one.
THEOREM DeletedHasNoRuntime == Spec => []DeletedRoomHasNoRuntime
<1>1. MapOK /\ DeletionOK => DeletedRoomHasNoRuntime
  BY LifecycleAssumption DEF MapOK, DeletionOK, DeletedRoomHasNoRuntime
<1> QED BY <1>1, MapCorrect, EndsCorrect, PTL

\* When Manager.Close returns, no loop runs, nor will one.
THEOREM ClosedForGood == Spec => []NoLoopAfterClose
<1>1. MapOK /\ ShutdownOK => NoLoopAfterClose
  BY LifecycleAssumption DEF MapOK, ShutdownOK, NoLoopAfterClose
<1> QED BY <1>1, MapCorrect, EndsCorrect, PTL

-----------------------------------------------------------------------------
(* The connections of a deleted room.                                      *)

\* A handler that may come to use the room is known to the hub, closed or about
\* to be, and when the deletion is through it is not the hub that knows it.
ListenersOK ==
  /\ \A c \in Connections :
        phase[c] \in {"registered", "serving"} \cup Kinds => c \in hub \cup dropped \cup revoked
  /\ NobodyListensToDeletedRoom

\* A handler registers before it asks for a runtime, and unregisters last.
LEMMA HandlerKeepsListeners ==
  ASSUME TypeOK, DeletionOK, ListenersOK,
         (\E p \in Clients : Room(p) \/ Send(p) \/ Await(p) \/ Expire(p))
           \/ \E c \in Connections : Handler(c)
  PROVE  ListenersOK'
<1> USE DEF TypeOK, ListenersOK, NobodyListensToDeletedRoom, Using, Kinds
<1>1. ASSUME NEW p \in Clients, Room(p) PROVE ListenersOK'
  <2>1. UNCHANGED <<hub, revoked, dropped, deletion>>
    BY <1>1 DEF Room, manager, sockets
  <2>2. p \in Connections => phase[p] = "registered"
    BY <1>1 DEF Room, Wants
  <2>3. CASE Goto(p, Refused(p))
    <3>1. p \in Connections => Refused(p) = "leaving"
      BY DEF Refused
    <3> QED BY <2>1, <2>3, <3>1 DEF Goto
  <2>4. CASE Admitted /\ Goto(p, FirstCommand(p))
    <3>1. deletion # "finished"
      BY <2>4 DEF Admitted, DeletionOK
    <3>2. p \in Connections => FirstCommand(p) = "attaching"
      BY DEF FirstCommand
    <3> QED BY <2>1, <2>2, <2>4, <3>1, <3>2 DEF Goto
  <2> QED BY <1>1, <2>3, <2>4 DEF Room
<1>2. ASSUME NEW p \in Clients, Send(p) \/ Expire(p) PROVE ListenersOK'
  BY <1>2 DEF Send, Expire, manager, sockets, handlers
<1>3. ASSUME NEW p \in Clients, Await(p) PROVE ListenersOK'
  <2>1. PICK v : Return(p, v)
    BY <1>3 DEF Await
  <2>2. phase[p] \in Kinds
    BY <1>3 DEF Await
  <2>3. \/ After(p, v) = "serving" /\ phase[p] \in {"attaching", "writing"}
        \/ After(p, v) \in {"leaving", "gone"}
    BY <2>2 DEF After, Refused
  <2> QED BY <2>1, <2>2, <2>3 DEF Return, Goto, manager, sockets
<1>4. ASSUME NEW c \in Connections, Handler(c) PROVE ListenersOK'
  <2> c \in Clients /\ Connections \subseteq Clients
    BY DEF Clients
  <2>1. CASE Enter(c) \/ Register(c)
    BY <2>1 DEF Enter, Register, Goto, manager, sockets
  <2>2. CASE Receive(c) \/ Break(c)
    BY <2>2 DEF Receive, Break, Goto, manager, sockets
  <2>3. CASE Unregister(c)
    BY <2>3 DEF Unregister, Goto, manager
  <2>4. CASE Revoke(c) \/ Drop(c)
    BY <2>4 DEF Revoke, Drop, manager, handlers
  <2> QED BY <1>4, <2>1, <2>2, <2>3, <2>4 DEF Handler
<1> QED BY <1>1, <1>2, <1>3, <1>4

\* When Delete has returned, nobody listens to the room.
THEOREM NobodyListens == Spec => []NobodyListensToDeletedRoom
<1>1. Init => ListenersOK
  BY DEF Init, ListenersOK, NobodyListensToDeletedRoom, Kinds, Clients
<1>2. TypeOK /\ DeletionOK /\ ListenersOK /\ [Next]_vars => ListenersOK'
  <2> SUFFICES ASSUME TypeOK, DeletionOK, ListenersOK, [Next]_vars
               PROVE  ListenersOK'
    OBVIOUS
  <2>1. ASSUME NEW r \in Runtimes, Loop(r) PROVE ListenersOK'
    BY <2>1 DEF ListenersOK, NobodyListensToDeletedRoom, Loop, Apply, Tick, Evict, Stop,
                Forget, Done, manager, sockets, handlers
  <2>2. CASE Close \/ Closed \/ Quiet \/ UNCHANGED vars
    BY <2>2 DEF ListenersOK, NobodyListensToDeletedRoom, Close, Closed, Quiet, vars,
                manager, sockets, handlers
  <2>3. CASE Delete \/ CloseRoom \/ RoomClosed
    <3>1. UNCHANGED <<sockets, phase>> /\ deletion' # "finished"
      BY <2>3, LifecycleAssumption DEF TypeOK, Delete, CloseRoom, RoomClosed, handlers
    <3> QED BY <3>1 DEF ListenersOK, NobodyListensToDeletedRoom, sockets
  <2>4. CASE CloseConnections
    BY <2>4 DEF ListenersOK, NobodyListensToDeletedRoom, CloseConnections, Using, Kinds,
                handlers
  <2> QED BY <2>1, <2>2, <2>3, <2>4, HandlerKeepsListeners DEF Next, Deletion
<1>3. ListenersOK => NobodyListensToDeletedRoom
  BY DEF ListenersOK
<1> QED BY <1>1, <1>2, <1>3, TypeCorrect, EndsCorrect, PTL DEF Spec

-----------------------------------------------------------------------------
(* The commands that wait.                                                 *)

\* The places of the detachments in the channel of r.
Detachments(r) == {i \in DOMAIN commands[r] : commands[r][i].kind = "detaching"}

\* A command is in the channel of its sender's runtime.
SendersOK ==
  \A r \in Runtimes : \A i \in DOMAIN commands[r] : rt[commands[r][i].by] = r

\* While the loop runs, whoever has asked for a detachment waits for it, and
\* has asked once.
DetachOK ==
  \A r \in Runtimes : loop[r] = "running" =>
     /\ \A i \in Detachments(r) : /\ phase[commands[r][i].by] = "detaching"
                                  /\ sent[commands[r][i].by]
                                  /\ result[commands[r][i].by] = None
     /\ \A i, j \in Detachments(r) : commands[r][i].by = commands[r][j].by => i = j

\* What is left of a channel when its head is taken.
LEMMA TailOf ==
  ASSUME NEW s \in Seq(Command), s # <<>>
  PROVE  /\ Head(s) = s[1] /\ 1 \in DOMAIN s /\ Tail(s) \in Seq(Command)
         /\ \A i \in DOMAIN Tail(s) : i + 1 \in DOMAIN s /\ Tail(s)[i] = s[i + 1] /\ i + 1 # 1
         /\ \A i, j \in DOMAIN Tail(s) : i + 1 = j + 1 => i = j
  OBVIOUS

\* The sender of a command, and its kind.
LEMMA CommandAt ==
  ASSUME TypeOK, NEW r \in Runtimes, NEW i \in DOMAIN commands[r]
  PROVE  commands[r][i].by \in Clients /\ commands[r][i].kind \in Kinds
<1>1. commands[r] \in Seq(Command)
  BY DEF TypeOK
<1>2. commands[r][i] \in Command
  BY <1>1
<1> QED BY <1>2 DEF Command

\* Nobody has sent anything to a runtime before Room gave it to him.
LEMMA FreshSender ==
  ASSUME TypeOK, MapOK, HandlersOK, SendersOK, NEW p \in Clients, Wants(p),
         NEW r \in Runtimes, NEW i \in DOMAIN commands[r]
  PROVE  commands[r][i].by # p /\ loop[r] # "unborn"
<1>1. rt[p] = None
  BY DEF Wants, HandlersOK
<1>2. rt[commands[r][i].by] = r /\ commands[r][i].by \in Clients
  BY CommandAt DEF SendersOK
<1>3. r # None
  BY LifecycleAssumption
<1> QED BY <1>1, <1>2, <1>3 DEF MapOK

\* Room changes nothing for those who have sent something.
LEMMA RoomKeepsCommands ==
  ASSUME TypeOK, MapOK, HandlersOK, SendersOK, DetachOK, NEW p \in Clients, Room(p)
  PROVE  SendersOK' /\ DetachOK'
<1>1. UNCHANGED <<commands, sent, result>> /\ Wants(p)
  BY DEF Room
<1>2. \A q \in Clients \ {p} : rt'[q] = rt[q] /\ phase'[q] = phase[q]
  BY DEF Room, Obtain, Goto, TypeOK
<1>3. \A r \in Runtimes : loop[r] # "unborn" => loop'[r] = loop[r]
  BY DEF Room, Obtain, TypeOK
<1>4. \A r \in Runtimes : \A i \in DOMAIN commands[r] :
         commands[r][i].by \in Clients \ {p} /\ loop[r] # "unborn"
  BY <1>1, FreshSender, CommandAt
<1>5. SendersOK'
  BY <1>1, <1>2, <1>4 DEF SendersOK
<1>6. DetachOK'
  <2> SUFFICES ASSUME NEW r \in Runtimes, loop'[r] = "running"
               PROVE  /\ \A i \in Detachments(r) : /\ phase'[commands[r][i].by] = "detaching"
                                                   /\ sent[commands[r][i].by]
                                                   /\ result[commands[r][i].by] = None
                      /\ \A i, j \in Detachments(r) :
                            commands[r][i].by = commands[r][j].by => i = j
    BY <1>1 DEF DetachOK, Detachments
  <2>1. \A i \in Detachments(r) : i \in DOMAIN commands[r]
    BY DEF Detachments
  <2>2. \A i \in Detachments(r) : loop[r] = "running"
    BY <1>3, <1>4, <2>1
  <2> QED BY <1>2, <1>4, <2>1, <2>2 DEF DetachOK
<1> QED BY <1>5, <1>6

\* Who sends a detachment has no other in the channel.
LEMMA SendKeepsCommands ==
  ASSUME TypeOK, MapOK, HandlersOK, SendersOK, DetachOK, NEW p \in Clients, Send(p)
  PROVE  SendersOK' /\ DetachOK'
<1> DEFINE r0 == rt[p]
           s == commands[r0]
<1>1. r0 \in Runtimes /\ s \in Seq(Command) /\ Request(p) \in Command
  BY DEF Send, HandlersOK, TypeOK, Request, Command
<1>2. commands' = [commands EXCEPT ![r0] = Append(s, Request(p))]
  BY DEF Send
<1>3. sent' = [sent EXCEPT ![p] = TRUE] /\ ~sent[p] /\ UNCHANGED <<loop, phase, rt, result>>
  BY DEF Send
<1>4. Request(p).by = p /\ Request(p).kind = phase[p] /\ result[p] = None
  BY <1>3 DEF Request, HandlersOK
<1>5. /\ DOMAIN Append(s, Request(p)) = DOMAIN s \cup {Len(s) + 1}
      /\ Len(s) + 1 \notin DOMAIN s
      /\ \A i \in DOMAIN s : Append(s, Request(p))[i] = s[i]
      /\ Append(s, Request(p))[Len(s) + 1] = Request(p)
  BY <1>1
<1>6. commands'[r0] = Append(s, Request(p)) /\ \A r \in Runtimes \ {r0} : commands'[r] = commands[r]
  BY <1>1, <1>2 DEF TypeOK
<1>7. SendersOK'
  <2>1. ASSUME NEW q \in Runtimes \ {r0}, NEW i \in DOMAIN commands'[q]
        PROVE  rt[commands'[q][i].by] = q
    <3> HIDE DEF s, r0
    <3> QED BY <1>6 DEF SendersOK
  <2>2. ASSUME NEW i \in DOMAIN commands'[r0] PROVE rt[commands'[r0][i].by] = r0
    <3>1. CASE i = Len(s) + 1
      BY <1>4, <1>5, <1>6, <3>1
    <3>2. CASE i \in DOMAIN s
      <4>1. commands'[r0][i] = commands[r0][i] /\ i \in DOMAIN commands[r0]
        BY <1>5, <1>6, <3>2
      <4> HIDE DEF s, r0
      <4> QED BY <1>1, <4>1 DEF SendersOK
    <3> HIDE DEF s, r0
    <3> QED BY <1>5, <1>6, <3>1, <3>2
  <2> HIDE DEF s, r0
  <2> QED BY <1>3, <2>1, <2>2 DEF SendersOK
<1>8. DetachOK'
  <2> SUFFICES ASSUME NEW r \in Runtimes, loop[r] = "running"
               PROVE  /\ \A i \in Detachments(r)' : /\ phase[commands'[r][i].by] = "detaching"
                                                    /\ sent'[commands'[r][i].by]
                                                    /\ result[commands'[r][i].by] = None
                      /\ \A i, j \in Detachments(r)' :
                            commands'[r][i].by = commands'[r][j].by => i = j
    BY <1>3 DEF DetachOK
  <2>1. \A i \in Detachments(r) : /\ phase[commands[r][i].by] = "detaching"
                                  /\ sent[commands[r][i].by]
                                  /\ result[commands[r][i].by] = None
                                  /\ commands[r][i].by # p
    BY <1>3 DEF DetachOK
  <2>2. \A i, j \in Detachments(r) : commands[r][i].by = commands[r][j].by => i = j
    BY DEF DetachOK
  <2>3. \A i \in Detachments(r) : sent'[commands[r][i].by]
    BY <1>3, <2>1, CommandAt DEF TypeOK, Detachments
  <2>4. CASE r # r0
    <3>1. commands'[r] = commands[r]
      BY <1>6, <2>4
    <3>2. Detachments(r)' = Detachments(r)
      BY <3>1 DEF Detachments
    <3> QED BY <2>1, <2>2, <2>3, <3>1, <3>2
  <2>5. CASE r = r0
    <3>1. \A i \in Detachments(r)' : \/ i \in Detachments(r) /\ commands'[r][i] = commands[r][i]
                                     \/ /\ i = Len(s) + 1 /\ commands'[r][i] = Request(p)
                                        /\ phase[p] = "detaching"
      BY <1>4, <1>5, <1>6, <2>5 DEF Detachments
    <3>2. sent'[p]
      BY <1>3 DEF TypeOK
    <3> HIDE DEF s, r0
    <3> QED BY <1>4, <2>1, <2>2, <2>3, <3>1, <3>2
  <2> QED BY <2>4, <2>5
<1> QED BY <1>7, <1>8

\* Who waits for a detachment goes on when he has its answer.
LEMMA AwaitKeepsCommands ==
  ASSUME TypeOK, HandlersOK, SendersOK, DetachOK, NEW p \in Clients, Await(p)
  PROVE  SendersOK' /\ DetachOK'
<1>1. PICK v : Return(p, v)
  BY DEF Await
<1>2. UNCHANGED <<commands, loop, rt>>
  BY <1>1 DEF Return, instances
<1>3. SendersOK'
  BY <1>2 DEF SendersOK
<1>4. ASSUME NEW r \in Runtimes, loop[r] = "running", NEW i \in Detachments(r)
      PROVE  commands[r][i].by \in Clients \ {p}
  <2>1. /\ commands[r][i].by \in Clients /\ rt[commands[r][i].by] = r
        /\ phase[commands[r][i].by] = "detaching" /\ sent[commands[r][i].by]
        /\ result[commands[r][i].by] = None
    BY <1>4, CommandAt DEF SendersOK, DetachOK, Detachments
  <2>2. ASSUME commands[r][i].by = p PROVE FALSE
    BY <1>4, <2>1, <2>2 DEF Await
  <2> QED BY <2>1, <2>2
<1>5. \A q \in Clients \ {p} :
         phase'[q] = phase[q] /\ sent'[q] = sent[q] /\ result'[q] = result[q]
  BY <1>1 DEF Return, Goto, TypeOK
<1>6. DetachOK'
  BY <1>2, <1>4, <1>5 DEF DetachOK, Detachments
<1> QED BY <1>3, <1>6

\* An answer goes to the senders of the commands.
LEMMA AnswerTo ==
  ASSUME NEW cmds, NEW v, Answer(cmds, v), NEW p \in Clients,
         \A i \in DOMAIN cmds : cmds[i].by = p => ~Waiting(cmds[i])
  PROVE  result'[p] = result[p]
  BY DEF Answer

\* The loop of r takes one command after the other.
LEMMA ApplyKeepsCommands ==
  ASSUME TypeOK, HandlersOK, SendersOK, DetachOK, NEW r \in Runtimes, Apply(r)
  PROVE  SendersOK' /\ DetachOK'
<1> DEFINE s == commands[r]
           cmd == Head(s)
<1>1. s \in Seq(Command) /\ s # <<>>
  BY DEF TypeOK, Apply
<1>2. /\ cmd = s[1] /\ 1 \in DOMAIN s
      /\ \A i \in DOMAIN Tail(s) : i + 1 \in DOMAIN s /\ Tail(s)[i] = s[i + 1] /\ i + 1 # 1
      /\ \A i, j \in DOMAIN Tail(s) : i + 1 = j + 1 => i = j
  BY <1>1, TailOf
<1>3. commands'[r] = Tail(s) /\ \A q \in Runtimes \ {r} : commands'[q] = commands[q]
  BY DEF TypeOK, Apply
<1>4. UNCHANGED <<loop, phase, rt, sent>> /\ loop[r] = "running"
  BY DEF Apply
<1>5. SendersOK'
  <2>1. ASSUME NEW q \in Runtimes \ {r}, NEW i \in DOMAIN commands'[q]
        PROVE  rt[commands'[q][i].by] = q
    BY <1>3 DEF SendersOK
  <2>2. ASSUME NEW i \in DOMAIN commands'[r] PROVE rt[commands'[r][i].by] = r
    <3>1. commands'[r][i] = commands[r][i + 1] /\ i + 1 \in DOMAIN commands[r]
      BY <1>2, <1>3
    <3> HIDE DEF cmd, s
    <3> QED BY <3>1 DEF SendersOK
  <2> HIDE DEF cmd, s
  <2> QED BY <1>4, <2>1, <2>2 DEF SendersOK
<1>6. ASSUME NEW p \in Clients, p # cmd.by \/ phase[p] # cmd.kind PROVE result'[p] = result[p]
  <2>1. PICK v : Answer(<<cmd>>, v)
    BY DEF Apply
  <2>2. \A i \in DOMAIN <<cmd>> : <<cmd>>[i] = cmd
    OBVIOUS
  <2>3. cmd.by = p => ~Waiting(cmd)
    BY <1>6 DEF Waiting
  <2> HIDE DEF cmd, s
  <2> QED BY <2>1, <2>2, <2>3, AnswerTo
<1>7. DetachOK'
  <2> SUFFICES ASSUME NEW q \in Runtimes, loop[q] = "running"
               PROVE  /\ \A i \in Detachments(q)' : /\ phase[commands'[q][i].by] = "detaching"
                                                    /\ sent[commands'[q][i].by]
                                                    /\ result'[commands'[q][i].by] = None
                      /\ \A i, j \in Detachments(q)' :
                            commands'[q][i].by = commands'[q][j].by => i = j
    BY <1>4 DEF DetachOK
  <2>1. /\ \A i \in Detachments(q) : /\ phase[commands[q][i].by] = "detaching"
                                     /\ sent[commands[q][i].by]
                                     /\ result[commands[q][i].by] = None
                                     /\ commands[q][i].by \in Clients
                                     /\ rt[commands[q][i].by] = q
        /\ \A i, j \in Detachments(q) : commands[q][i].by = commands[q][j].by => i = j
    BY CommandAt DEF DetachOK, SendersOK, Detachments
  <2>2. CASE q # r
    <3>1. commands'[q] = commands[q]
      BY <1>3, <2>2
    <3>2. Detachments(q)' = Detachments(q)
      BY <3>1 DEF Detachments
    <3>3. rt[cmd.by] = r
      BY <1>2 DEF SendersOK
    <3> HIDE DEF cmd, s
    <3> QED BY <1>6, <2>1, <2>2, <3>1, <3>2, <3>3
  <2>3. CASE q = r
    <3>1. \A i \in Detachments(r)' :
             i + 1 \in Detachments(r) /\ commands'[r][i] = s[i + 1] /\ i + 1 # 1
      BY <1>2, <1>3 DEF Detachments
    <3>2. \A i, j \in Detachments(r)' : i + 1 = j + 1 => i = j
      BY <1>2, <1>3 DEF Detachments
    <3>3. \A i \in Detachments(r) :
             i # 1 => s[i].by # cmd.by \/ phase[s[i].by] # cmd.kind
      <4>1. cmd.kind = "detaching" => 1 \in Detachments(r)
        BY <1>2 DEF Detachments
      <4> QED BY <1>2, <2>1, <2>3, <4>1
    <3>4. \A i \in Detachments(r) : i # 1 => result'[s[i].by] = None
      <4> HIDE DEF cmd
      <4> QED BY <1>6, <2>1, <2>3, <3>3
    <3> HIDE DEF cmd
    <3> QED BY <2>1, <2>3, <3>1, <3>2, <3>4
  <2> QED BY <2>2, <2>3
<1> QED BY <1>5, <1>7

\* When the loop of r has stopped its channel is empty.
LEMMA StopKeepsCommands ==
  ASSUME TypeOK, SendersOK, DetachOK, NEW r \in Runtimes, Stop(r)
  PROVE  SendersOK' /\ DetachOK'
<1>1. /\ commands'[r] = <<>> /\ loop'[r] = "stopped"
      /\ \A q \in Runtimes \ {r} : commands'[q] = commands[q] /\ loop'[q] = loop[q]
      /\ UNCHANGED <<phase, rt, sent>>
  BY DEF TypeOK, Stop
<1>2. SendersOK'
  BY <1>1 DEF SendersOK
<1>3. ASSUME NEW p \in Clients, rt[p] # r PROVE result'[p] = result[p]
  BY <1>3, AnswerTo DEF Stop, SendersOK
<1>4. ASSUME NEW q \in Runtimes \ {r}, loop[q] = "running", NEW i \in Detachments(q)
      PROVE  result'[commands[q][i].by] = None
  BY <1>3, <1>4, CommandAt DEF SendersOK, DetachOK, Detachments
<1>5. DetachOK'
  BY <1>1, <1>4 DEF DetachOK, Detachments
<1> QED BY <1>2, <1>5

\* The commands that wait, for every value of the constants.
THEOREM CommandsCorrect == Spec => [](SendersOK /\ DetachOK)
<1>1. Init => SendersOK /\ DetachOK
  BY DEF Init, SendersOK, DetachOK
<1>2. TypeOK /\ MapOK /\ HandlersOK /\ SendersOK /\ DetachOK /\ [Next]_vars
        => (SendersOK /\ DetachOK)'
  <2> SUFFICES ASSUME TypeOK, MapOK, HandlersOK, SendersOK, DetachOK, [Next]_vars
               PROVE  (SendersOK /\ DetachOK)'
    OBVIOUS
  <2>1. ASSUME NEW r \in Runtimes, Tick(r) \/ Evict(r) \/ Forget(r) \/ Done(r)
        PROVE  (SendersOK /\ DetachOK)'
    <3>1. /\ UNCHANGED <<commands, handlers>>
          /\ \A q \in Runtimes : loop'[q] = "running" => loop[q] = "running"
      BY <2>1 DEF TypeOK, Tick, Evict, Forget, Done, instances
    <3> QED BY <3>1 DEF SendersOK, DetachOK, Detachments, handlers
  <2>2. ASSUME NEW c \in Connections, Handler(c) PROVE (SendersOK /\ DetachOK)'
    <3>1. UNCHANGED <<commands, loop, rt, sent, result>>
      BY <2>2 DEF Handler, Enter, Register, Receive, Break, Unregister, Revoke, Drop, instances, handlers
    <3>2. \A q \in Clients : phase[q] = "detaching" => phase'[q] = "detaching"
      BY <2>2 DEF TypeOK, Handler, Enter, Register, Receive, Break, Unregister, Revoke, Drop, Goto,
                  handlers
    <3> QED BY <3>1, <3>2, CommandAt DEF SendersOK, DetachOK, Detachments
  <2>3. CASE Close \/ Closed \/ Deletion \/ Quiet \/ UNCHANGED vars
               \/ \E p \in Clients : Expire(p)
    <3>1. UNCHANGED <<commands, loop, handlers>>
      BY <2>3 DEF Close, Closed, Deletion, Delete, CloseRoom, RoomClosed, CloseConnections,
                  Quiet, vars, instances, Expire
    <3> QED BY <3>1 DEF SendersOK, DetachOK, Detachments, handlers
  <2> QED BY <2>1, <2>2, <2>3, RoomKeepsCommands, SendKeepsCommands, AwaitKeepsCommands,
             ApplyKeepsCommands, StopKeepsCommands DEF Next, Loop
<1> QED BY <1>1, <1>2, TypeCorrect, MapCorrect, PTL DEF Spec

-----------------------------------------------------------------------------
(* The attachment count.                                                   *)

\* The count of a running loop covers every connection attached to it.
CountOK ==
  \A r \in Runtimes : loop[r] = "running" => Cardinality(Attached(r)) <= clients[r]

\* The connections attached to a runtime are finitely many.
LEMMA AttachedFinite ==
  ASSUME NEW r
  PROVE  /\ IsFiniteSet(Attached(r)) /\ Cardinality(Attached(r)) \in Nat
         /\ IsFiniteSet(Attached(r)') /\ Cardinality(Attached(r)') \in Nat
<1>1. Attached(r) \subseteq Connections /\ Attached(r)' \subseteq Connections
  BY DEF Attached
<1> QED BY <1>1, LifecycleAssumption, FS_Subset, FS_CardinalityType

\* A count stays high enough while nobody new is attached.
LEMMA CountCovers ==
  ASSUME TypeOK, CountOK, NEW r \in Runtimes, loop[r] = "running",
         Attached(r)' \subseteq Attached(r), clients'[r] = clients[r]
  PROVE  Cardinality(Attached(r)') <= clients'[r]
<1>1. Cardinality(Attached(r)') <= Cardinality(Attached(r))
  BY AttachedFinite, FS_Subset
<1>2. Cardinality(Attached(r)) <= clients[r] /\ clients[r] \in Nat
  BY DEF CountOK, TypeOK
<1> QED BY <1>1, <1>2, AttachedFinite

\* Room attaches nobody: its handler comes to wait for the attachment.
LEMMA RoomAttachesNobody ==
  ASSUME TypeOK, HandlersOK, NEW p \in Clients, Room(p), NEW r \in Runtimes
  PROVE  Attached(r)' \subseteq Attached(r)
<1>1. UNCHANGED <<sent, result>> /\ Wants(p)
  BY DEF Room
<1>2. \A q \in Clients \ {p} : rt'[q] = rt[q] /\ phase'[q] = phase[q]
  BY DEF Room, Obtain, Goto, TypeOK
<1>3. p \in Connections => result[p] = None /\ phase'[p] \in {"leaving", "attaching"}
  <2>1. p \in Connections => phase[p] = "registered"
    BY <1>1 DEF Wants
  <2>2. p \in Connections => result[p] = None
    BY <2>1 DEF HandlersOK, Kinds
  <2>3. p \in Connections => phase'[p] \in {"leaving", "attaching"}
    BY DEF Room, Goto, FirstCommand, Refused, TypeOK
  <2> QED BY <2>2, <2>3
<1>4. None # "ok"
  BY LifecycleAssumption DEF Answers
<1> QED BY <1>1, <1>2, <1>3, <1>4 DEF Attached, Clients

\* Nor do the other steps of Execute: who returns from his attachment with
\* success is attached already.
LEMMA ExecuteAttachesNobody ==
  ASSUME TypeOK, HandlersOK, NEW p \in Clients, Send(p) \/ Await(p) \/ Expire(p),
         NEW r \in Runtimes
  PROVE  Attached(r)' \subseteq Attached(r)
<1>1. CASE Send(p) \/ Expire(p)
  <2>1. UNCHANGED <<phase, rt, result>>
    BY <1>1 DEF Send, Expire, handlers
  <2> QED BY <2>1 DEF Attached
<1>2. CASE Await(p)
  <2>1. PICK v : Return(p, v) /\ (v = "ok" /\ phase[p] = "attaching" => result[p] = "ok")
    BY <1>2 DEF Await
  <2>2. \A q \in Clients \ {p} : phase'[q] = phase[q] /\ result'[q] = result[q]
    BY <2>1 DEF Return, Goto, TypeOK
  <2>3. phase'[p] = After(p, v) /\ UNCHANGED rt
    BY <2>1 DEF Return, Goto, TypeOK
  <2>4. p \in Connections =>
          \/ phase'[p] = "leaving"
          \/ /\ phase'[p] = "serving"
             /\ phase[p] = "writing" \/ (phase[p] = "attaching" /\ result[p] = "ok")
    BY <2>1, <2>3 DEF After, Refused
  <2> QED BY <2>2, <2>3, <2>4 DEF Attached, Clients
<1> QED BY <1>1, <1>2

\* A handler's own step attaches nobody.
LEMMA HandlerAttachesNobody ==
  ASSUME TypeOK, HandlersOK, NEW c \in Connections, Handler(c), NEW r \in Runtimes
  PROVE  Attached(r)' \subseteq Attached(r)
<1>1. UNCHANGED <<rt, sent, result>> /\ c \in Clients
  BY DEF Handler, Enter, Register, Receive, Break, Unregister, Revoke, Drop, handlers, Clients
<1>2. \A q \in Clients \ {c} : phase'[q] = phase[q]
  BY DEF Handler, Enter, Register, Receive, Break, Unregister, Revoke, Drop, Goto, TypeOK, handlers
<1>3. \/ phase'[c] \in {phase[c], "entered", "registered", "gone"}
      \/ phase[c] = "serving" /\ phase'[c] \in {"writing", "detaching"}
  BY <1>1 DEF Handler, Enter, Register, Receive, Break, Unregister, Revoke, Drop, Goto, TypeOK, handlers
<1> QED BY <1>1, <1>2, <1>3 DEF Attached, Clients

\* An attachment attaches its sender, a detachment detaches him.
LEMMA ApplyCounts ==
  ASSUME TypeOK, HandlersOK, SendersOK, DetachOK, CountOK, NEW r \in Runtimes, Apply(r),
         NEW q \in Runtimes, loop'[q] = "running"
  PROVE  Cardinality(Attached(q)') <= clients'[q]
<1> DEFINE cmd == Head(commands[r])
           p == cmd.by
<1>1. commands[r] \in Seq(Command) /\ commands[r] # <<>>
  BY DEF TypeOK, Apply
<1>2. /\ p \in Clients /\ rt[p] = r /\ loop[r] = "running" /\ loop[q] = "running"
      /\ cmd = commands[r][1] /\ 1 \in DOMAIN commands[r]
  BY <1>1, TailOf, CommandAt DEF SendersOK, Apply
<1>3. UNCHANGED <<phase, rt, sent>>
  BY DEF Apply
<1>4. ASSUME NEW v, Answer(<<cmd>>, v)
      PROVE  /\ \A o \in Clients : result'[o] = IF o = p /\ Waiting(cmd) THEN v ELSE result[o]
  <2>1. DOMAIN <<cmd>> = {1} /\ <<cmd>>[1] = cmd
    OBVIOUS
  <2> HIDE DEF cmd
  <2> QED BY <1>4, <2>1 DEF Answer
<1>5. ASSUME NEW v, Answer(<<cmd>>, v), v # "ok" \/ cmd.kind # "attaching", v \in Answers
      PROVE  Attached(q)' \subseteq Attached(q)
  <2>1. Waiting(cmd) => phase[p] = cmd.kind
    BY DEF Waiting
  <2>2. None \notin Answers
    BY LifecycleAssumption
  <2> HIDE DEF cmd, p
  <2> QED BY <1>3, <1>4, <1>5, <2>1, <2>2 DEF Attached, Clients
<1>6. CASE \E v \in Answers : /\ Answer(<<cmd>>, v) /\ UNCHANGED clients
                              /\ v # "ok" \/ cmd.kind # "attaching"
  BY <1>2, <1>5, <1>6, CountCovers
<1>7. CASE /\ cmd.kind = "attaching" /\ Answer(<<cmd>>, "ok")
           /\ clients' = [clients EXCEPT ![r] = @ + 1]
  <2>1. CASE q # r
    <3>1. Attached(q)' \subseteq Attached(q)
      <4>1. \A o \in Clients : rt[o] = q => result'[o] = result[o]
        <5> HIDE DEF cmd
        <5> QED BY <1>2, <1>4, <1>7, <2>1
      <4> QED BY <1>3, <4>1 DEF Attached, Clients
    <3>2. clients'[q] = clients[q]
      BY <1>7, <2>1 DEF TypeOK
    <3> QED BY <1>2, <3>1, <3>2, CountCovers
  <2>2. CASE q = r
    <3>1. Attached(r)' \subseteq Attached(r) \cup {p}
      <4>1. \A o \in Clients \ {p} : result'[o] = result[o]
        <5> HIDE DEF cmd, p
        <5> QED BY <1>4, <1>7
      <4> HIDE DEF cmd, p
      <4> QED BY <1>3, <4>1 DEF Attached, Clients
    <3>2. Cardinality(Attached(r) \cup {p}) <= Cardinality(Attached(r)) + 1
          /\ IsFiniteSet(Attached(r) \cup {p})
      <4> HIDE DEF p
      <4>1. IsFiniteSet(Attached(r)) /\ Cardinality(Attached(r)) \in Nat
        BY AttachedFinite
      <4> QED BY <4>1, FS_AddElement
    <3>3. Cardinality(Attached(r)') <= Cardinality(Attached(r) \cup {p})
      <4> HIDE DEF p
      <4> QED BY <3>1, <3>2, FS_Subset
    <3>4. clients'[r] = clients[r] + 1 /\ clients[r] \in Nat
      BY <1>7 DEF TypeOK
    <3>5. Cardinality(Attached(r)) <= clients[r]
      BY <1>2, <2>2 DEF CountOK
    <3> HIDE DEF p
    <3>6. Cardinality(Attached(r) \cup {p}) \in Nat
      BY <3>2, FS_CardinalityType
    <3> QED BY <2>2, <3>2, <3>3, <3>4, <3>5, <3>6, AttachedFinite
  <2> QED BY <2>1, <2>2
<1>8. CASE /\ cmd.kind = "detaching" /\ Answer(<<cmd>>, "ok")
           /\ clients' = [clients EXCEPT ![r] = IF @ > 0 THEN @ - 1 ELSE 0]
  <2>1. phase[p] = "detaching" /\ sent[p] /\ result[p] = None
    BY <1>2, <1>8 DEF DetachOK, Detachments
  <2>2. result'[p] = "ok" /\ "ok" # None
    BY <1>2, <1>4, <1>8, <2>1, LifecycleAssumption DEF Waiting, Answers
  <2>3. Attached(q)' \subseteq Attached(q)
    BY <1>5, <1>8 DEF Answers
  <2>4. CASE q # r
    BY <1>2, <1>8, <2>3, <2>4, CountCovers DEF TypeOK
  <2>5. CASE q = r
    <3>1. p \in Attached(r) /\ p \notin Attached(r)'
      <4>1. p \in Connections
        BY <1>2, <2>1 DEF HandlersOK, Clients
      <4>2. p \in Attached(r)
        BY <1>2, <2>1, <4>1 DEF Attached
      <4>3. p \notin Attached(r)'
        BY <1>3, <2>1, <2>2 DEF Attached
      <4> QED BY <4>2, <4>3
    <3> HIDE DEF p, cmd
    <3>2. Attached(r)' \subseteq Attached(r) \ {p}
      BY <2>3, <2>5, <3>1
    <3>3. Cardinality(Attached(r) \ {p}) = Cardinality(Attached(r)) - 1
          /\ IsFiniteSet(Attached(r) \ {p})
      <4>1. IsFiniteSet(Attached(r))
        BY AttachedFinite
      <4> QED BY <3>1, <4>1, FS_RemoveElement
    <3>4. Cardinality(Attached(r)') <= Cardinality(Attached(r) \ {p})
      BY <3>2, <3>3, FS_Subset
    <3>5. Cardinality(Attached(r)) <= clients[r] /\ clients[r] \in Nat
      BY <1>2 DEF CountOK, TypeOK
    <3>6. clients'[r] = IF clients[r] > 0 THEN clients[r] - 1 ELSE 0
      BY <1>8 DEF TypeOK
    <3>7. Cardinality(Attached(r)) # 0
      BY <3>1, AttachedFinite, FS_EmptySet
    <3> QED BY <2>5, <3>3, <3>4, <3>5, <3>6, <3>7, AttachedFinite
  <2> QED BY <2>4, <2>5
<1>9. \/ \E v \in Answers : /\ Answer(<<cmd>>, v) /\ UNCHANGED clients
                            /\ v # "ok" \/ cmd.kind # "attaching"
      \/ /\ cmd.kind = "attaching" /\ Answer(<<cmd>>, "ok")
         /\ clients' = [clients EXCEPT ![r] = @ + 1]
      \/ /\ cmd.kind = "detaching" /\ Answer(<<cmd>>, "ok")
         /\ clients' = [clients EXCEPT ![r] = IF @ > 0 THEN @ - 1 ELSE 0]
  BY DEF Apply, Answers
<1> QED BY <1>6, <1>7, <1>8, <1>9

\* When a loop stops it rejects what waits, which attaches nobody elsewhere.
LEMMA StopAttachesNobody ==
  ASSUME TypeOK, SendersOK, NEW r \in Runtimes, Stop(r), NEW q \in Runtimes
  PROVE  Attached(q)' \subseteq Attached(q)
<1>1. UNCHANGED <<phase, rt>> /\ Answer(commands[r], "cancelled")
  BY DEF Stop
<1>2. \A p \in Clients : result'[p] \in {result[p], "cancelled"}
  BY <1>1 DEF Answer
<1>3. "cancelled" # None
  BY LifecycleAssumption DEF Answers
<1> QED BY <1>1, <1>2, <1>3 DEF Attached, Clients

\* The count of a loop that is started covers the connections attached to it.
LEMMA CountStep ==
  ASSUME TypeOK, MapOK, HandlersOK, SendersOK, DetachOK, CountOK, Next \/ UNCHANGED vars
  PROVE  CountOK'
<1> SUFFICES ASSUME NEW q \in Runtimes, loop'[q] = "running"
             PROVE  Cardinality(Attached(q)') <= clients'[q]
  BY DEF CountOK
<1>1. ASSUME NEW r \in Runtimes, Apply(r) PROVE Cardinality(Attached(q)') <= clients'[q]
  BY <1>1, ApplyCounts
<1>2. ASSUME NEW p \in Clients, Room(p) PROVE Cardinality(Attached(q)') <= clients'[q]
  <2>1. Attached(q)' \subseteq Attached(q) /\ UNCHANGED clients
    BY <1>2, RoomAttachesNobody DEF Room
  <2>2. loop[q] = "running" \/ loop[q] = "unborn"
    BY <1>2 DEF Room, Obtain, TypeOK
  <2>3. CASE loop[q] = "unborn"
    <3>1. Attached(q) = {}
      BY <2>3, LifecycleAssumption DEF MapOK, Attached, Clients
    <3>2. Attached(q)' = {}
      BY <2>1, <3>1
    <3> QED BY <2>1, <3>2, FS_EmptySet DEF TypeOK
  <2> QED BY <2>1, <2>2, <2>3, CountCovers
<1>3. ASSUME loop[q] = "running", Attached(q)' \subseteq Attached(q), UNCHANGED clients
      PROVE  Cardinality(Attached(q)') <= clients'[q]
  BY <1>3, CountCovers
<1>4. ASSUME NEW p \in Clients, Send(p) \/ Await(p) \/ Expire(p)
      PROVE  Cardinality(Attached(q)') <= clients'[q]
  <2>1. UNCHANGED <<loop, clients>>
    BY <1>4 DEF Send, Await, Return, Expire, instances
  <2> QED BY <1>3, <1>4, <2>1, ExecuteAttachesNobody
<1>5. ASSUME NEW c \in Connections, Handler(c) PROVE Cardinality(Attached(q)') <= clients'[q]
  <2>1. UNCHANGED <<loop, clients>>
    BY <1>5 DEF Handler, Enter, Register, Receive, Break, Unregister, Revoke, Drop, instances
  <2> QED BY <1>3, <1>5, <2>1, HandlerAttachesNobody
<1>6. ASSUME NEW r \in Runtimes, Stop(r) PROVE Cardinality(Attached(q)') <= clients'[q]
  <2>1. UNCHANGED clients /\ loop[q] = "running"
    BY <1>6 DEF Stop, TypeOK
  <2> QED BY <1>3, <1>6, <2>1, StopAttachesNobody
<1>7. ASSUME UNCHANGED <<handlers, clients>>, loop[q] = "running"
      PROVE  Cardinality(Attached(q)') <= clients'[q]
  <2>1. Attached(q)' = Attached(q)
    BY <1>7 DEF Attached, handlers
  <2> QED BY <1>3, <1>7, <2>1
<1>8. ASSUME NEW r \in Runtimes, Tick(r) \/ Evict(r) \/ Forget(r) \/ Done(r)
      PROVE  Cardinality(Attached(q)') <= clients'[q]
  <2>1. UNCHANGED <<handlers, clients>> /\ loop[q] = "running"
    BY <1>8 DEF TypeOK, Tick, Evict, Forget, Done, instances
  <2> QED BY <1>7, <2>1
<1>9. CASE Close \/ Closed \/ Deletion \/ Quiet \/ UNCHANGED vars
  <2>1. UNCHANGED <<handlers, clients, loop>>
    BY <1>9 DEF Close, Closed, Deletion, Delete, CloseRoom, RoomClosed, CloseConnections,
                Quiet, vars, instances
  <2> QED BY <1>7, <2>1
<1> QED BY <1>1, <1>2, <1>4, <1>5, <1>6, <1>8, <1>9 DEF Next, Loop

\* The count never falls below the number of listeners.
THEOREM CountCorrect == Spec => []CountOK
<1>1. Init => CountOK
  BY DEF Init, CountOK
<1>2. TypeOK /\ MapOK /\ HandlersOK /\ SendersOK /\ DetachOK /\ CountOK /\ [Next]_vars => CountOK'
  BY CountStep
<1> QED BY <1>1, <1>2, TypeCorrect, MapCorrect, CommandsCorrect, PTL DEF Spec

\* A room that is neither deleted nor shut down loses no runtime that somebody
\* is attached to: only eviction cancels one, and it looks at the count.
THEOREM ListenersSpared == Spec => EvictionSparesListeners
<1> DEFINE Spares == \A r \in ended' \ ended :
                        room = "active" /\ shutdown' = "no" => Attached(r) = {}
<1>1. TypeOK /\ DeletionOK /\ CountOK /\ [Next]_vars => [Spares]_vars
  <2> SUFFICES ASSUME TypeOK, DeletionOK, CountOK, Next,
                      NEW r \in ended' \ ended, room = "active", shutdown' = "no"
               PROVE  Attached(r) = {}
    OBVIOUS
  <2>1. ASSUME Evict(r), r \in Runtimes PROVE Attached(r) = {}
    <3>1. Cardinality(Attached(r)) <= 0
      BY <2>1 DEF CountOK, Evict
    <3>2. Cardinality(Attached(r)) = 0
      BY <3>1, AttachedFinite
    <3> QED BY <3>2, AttachedFinite, FS_EmptySet
  <2>2. ASSUME NEW q \in Runtimes, Loop(q) PROVE Evict(r) /\ r \in Runtimes
    BY <2>2 DEF Loop, Apply, Tick, Evict, Stop, Forget, Done, instances
  <2>3. ~\E p \in Clients : Room(p) \/ Send(p) \/ Await(p) \/ Expire(p)
    BY DEF Room, Send, Await, Return, Expire, instances
  <2>4. ~\E c \in Connections : Handler(c)
    BY DEF Handler, Enter, Register, Receive, Break, Unregister, Revoke, Drop, instances
  <2>5. ~(Close \/ Closed \/ Deletion \/ Quiet)
    BY DEF Close, Closed, Deletion, Delete, CloseRoom, RoomClosed, CloseConnections, Quiet,
           vars, instances, DeletionOK
  <2> QED BY <2>1, <2>2, <2>3, <2>4, <2>5 DEF Next
<1> QED BY <1>1, TypeCorrect, EndsCorrect, CountCorrect, PTL DEF Spec, EvictionSparesListeners
=============================================================================
