--------------------------- MODULE MutationCache ---------------------------
(***************************************************************************)
(* Retries of one room's mutations: executeQueue (queue_mutations.go) and  *)
(* executeControl (control_idempotency.go) of internal/realtime.  A client *)
(* that saw no answer sends the same mutation id again; the runtime then   *)
(* replays what it recorded instead of executing the mutation twice.       *)
(*                                                                         *)
(* Both wrappers run inside the runtime's loop, so a request is one step;  *)
(* what they protect is one closure, here an execution with an outcome:    *)
(* "committed", "refused" (a definite error: nothing was written) or       *)
(* "unknown" (any other error, whose write may have committed).  Requests  *)
(* without an id run unprotected and are left out.                         *)
(***************************************************************************)
EXTENDS Integers, FiniteSets

CONSTANTS
  QueueIds,         \* mutation ids of queue commands, namespaced by their actor
  ControlIds,       \* (actor, mutation id) pairs of playback controls
  Bodies,           \* what is asked for, as far as the fingerprints tell it apart
  QueueCapacity,    \* 2048 in executeQueue
  ControlCapacity,  \* controlMutationCapacity
  TTL,              \* ControlMutationTTL
  None,             \* no record, no execution, or a record that never expires
  MaxApply,         \* bound: how long an execution takes
  MaxTime,          \* bound: the clock
  MaxRuns,          \* bound: executions
  MaxScopes         \* bound: runtimes built for the room

Ids == QueueIds \cup ControlIds
Outcomes == {"committed", "refused", "unknown"}
Record == [body : Bodies, answer : Outcomes, run : Nat, expires : Nat \cup {None}]
Execution == [body : Bodies, known : BOOLEAN, run : Nat, scope : Nat, at : Nat]

ASSUME CacheAssumption ==
  /\ QueueIds \cap ControlIds = {}
  /\ QueueCapacity \in Nat \ {0} /\ ControlCapacity \in Nat \ {0}
  /\ TTL \in Nat /\ MaxApply \in Nat
  /\ MaxTime \in Nat /\ MaxRuns \in Nat /\ MaxScopes \in Nat
  /\ None \notin Nat \cup Record \cup Execution

VARIABLES
  now,    \* time.Now, which does not go back
  scope,  \* controlScope: a fresh value per runtime
  asked,  \* history variable: the scope the step's control was sent for
  cache,  \* the records of mutations and controlMutations, by id
  reply,  \* what the step answered
  runs,   \* history variable: executions so far
  last    \* history variable: per id, the last execution that may have had an effect

vars == <<now, scope, asked, cache, reply, runs, last>>

-----------------------------------------------------------------------------
(* The record maps.                                                        *)

Expired(r, t) == r.expires # None /\ r.expires <= t

\* The sweep before a lookup: expired records of the lane go, those reserved
\* for an unknown outcome stay.
Swept(lane) ==
  [id \in Ids |->
     IF id \in lane /\ cache[id] # None /\ Expired(cache[id], now) THEN None
     ELSE cache[id]]

Records(lane, kept) == {id \in lane : kept[id] # None}

Reply(id, body, answer, run) ==
  reply' = [id |-> id, body |-> body, answer |-> answer, run |-> run]

\* A request whose id is known: the same body gets the recorded answer, any
\* other body is a conflict.
Replay(kept, id, body) ==
  /\ kept[id] # None
  /\ IF kept[id].body = body THEN Reply(id, body, kept[id].answer, kept[id].run)
     ELSE Reply(id, body, "conflict", None)
  /\ cache' = kept
  /\ UNCHANGED <<now, scope, runs, last>>

\* A full map turns new ids away.
TurnAway(kept, lane, capacity, id, body) ==
  /\ kept[id] = None
  /\ Cardinality(Records(lane, kept)) >= capacity
  /\ Reply(id, body, "capacity", None)
  /\ cache' = kept
  /\ UNCHANGED <<now, scope, runs, last>>

\* Mutant: an outcome nobody knows is recorded for the TTL only.
ForgetUnknown(kept, id, body, outcome, recorded) ==
  cache' = IF outcome \in recorded
           THEN [kept EXCEPT ![id] = [body |-> body, answer |-> outcome,
                                      run |-> runs', expires |-> now' + TTL]]
           ELSE kept

\* What is recorded, by the time the execution has ended: an unknown outcome
\* for the life of the runtime, the outcomes of the lane for the TTL.
Remember(kept, id, body, outcome, recorded) ==
  cache' = IF outcome \in recorded
           THEN [kept EXCEPT ![id] =
                   [body |-> body, answer |-> outcome, run |-> runs',
                    expires |-> IF outcome = "unknown" THEN None ELSE now' + TTL]]
           ELSE kept

\* The closure runs and takes its time.
Execute(kept, lane, capacity, id, body, outcome, recorded) ==
  /\ kept[id] = None
  /\ Cardinality(Records(lane, kept)) < capacity
  /\ runs < MaxRuns /\ runs' = runs + 1
  /\ now' \in now..(now + MaxApply) /\ now' <= MaxTime
  /\ Remember(kept, id, body, outcome, recorded)
  /\ last' = IF outcome = "refused" THEN last
             ELSE [last EXCEPT ![id] = [body |-> body, known |-> outcome = "committed",
                                        run |-> runs', scope |-> scope, at |-> now']]
  /\ Reply(id, body, outcome, runs')
  /\ UNCHANGED scope

-----------------------------------------------------------------------------
(* The two wrappers.                                                       *)

\* Mutant: the map is consulted without being swept.
QueueUnswept(id, body, outcome) ==
  /\ id \in QueueIds /\ asked' = None
  /\ \/ Replay(cache, id, body)
     \/ TurnAway(cache, QueueIds, QueueCapacity, id, body)
     \/ Execute(cache, QueueIds, QueueCapacity, id, body, outcome, {"committed", "unknown"})

\* A queue command that was refused (stale queue, capacity) may be tried again.
executeQueue(id, body, outcome) ==
  LET kept == Swept(QueueIds)
  IN /\ id \in QueueIds /\ asked' = None
     /\ \/ Replay(kept, id, body)
        \/ TurnAway(kept, QueueIds, QueueCapacity, id, body)
        \/ Execute(kept, QueueIds, QueueCapacity, id, body, outcome, {"committed", "unknown"})

\* A control names the runtime it was meant for; refusals (locked, denied,
\* another epoch, no history) are replayed like successes.
executeControl(id, body, seen, outcome) ==
  LET kept == Swept(ControlIds)
  IN /\ id \in ControlIds /\ asked' = seen
     /\ \/ /\ seen # scope
           /\ Reply(id, body, "stale", None)
           /\ UNCHANGED <<now, scope, cache, runs, last>>
        \/ /\ seen = scope
           /\ \/ Replay(kept, id, body)
              \/ TurnAway(kept, ControlIds, ControlCapacity, id, body)
              \/ Execute(kept, ControlIds, ControlCapacity, id, body, outcome, Outcomes)

\* An id that is empty, blank or too long.
RefuseInvalid == reply' = None /\ asked' = None /\ UNCHANGED <<now, scope, cache, runs, last>>

Tick ==
  /\ now < MaxTime
  /\ now' = now + 1
  /\ reply' = None /\ asked' = None
  /\ UNCHANGED <<scope, cache, runs, last>>

\* The runtime ends and another is built for the room, with empty maps.
Rebuild ==
  /\ scope < MaxScopes
  /\ scope' = scope + 1
  /\ cache' = [id \in Ids |-> None]
  /\ reply' = None /\ asked' = None
  /\ UNCHANGED <<now, runs, last>>

Init ==
  /\ now = 0
  /\ scope = 1 /\ asked = None
  /\ cache = [id \in Ids |-> None]
  /\ reply = None
  /\ runs = 0
  /\ last = [id \in Ids |-> None]

Next ==
  \/ \E id \in QueueIds, body \in Bodies, o \in Outcomes : executeQueue(id, body, o)
  \/ \E id \in ControlIds, body \in Bodies, seen \in 1..scope, o \in Outcomes :
       executeControl(id, body, seen, o)
  \/ RefuseInvalid \/ Tick \/ Rebuild

Spec == Init /\ [][Next]_vars

-----------------------------------------------------------------------------
(* Properties.                                                             *)

\* The type of every variable.
TypeOK ==
  /\ now \in Nat /\ scope \in Nat /\ asked \in Nat \cup {None} /\ runs \in Nat
  /\ cache \in [Ids -> Record \cup {None}]
  /\ last \in [Ids -> Execution \cup {None}]
  /\ reply = None \/ reply \in [id : Ids, body : Bodies, run : Nat \cup {None},
                                answer : Outcomes \cup {"conflict", "capacity", "stale"}]

\* The effect of an execution that may have taken place still protects its id:
\* for the TTL after it ended, or for good when its outcome is unknown.
Protected(id) ==
  /\ last[id] # None
  /\ last[id].scope = scope
  /\ last[id].known => now < last[id].at + TTL

\* Within one runtime a mutation takes effect at most once per TTL, and never
\* again once its outcome is unknown, whatever requests arrive meanwhile: other
\* ids, other bodies under the same id, or so many that the map is full.
AtMostOncePerWindow ==
  [][\A id \in Ids : Protected(id) => last'[id] = last[id]]_vars

\* A control that is sent again as it was, for the runtime it was meant for,
\* does not take effect again in a later runtime either.
RetriesStayInScope ==
  [][\A id \in ControlIds :
       last[id] # None /\ asked' = last[id].scope /\ last'[id] # last[id] =>
         scope = last[id].scope /\ ~Protected(id)]_vars

\* Whoever is told "committed" is told of the execution of his own body under
\* his own id in this runtime; whoever is told "refused" of a mutation that has
\* no effect left to protect.
AnswersAreTrue ==
  reply # None =>
    LET l == last[reply.id]
    IN /\ reply.answer = "committed" =>
            l # None /\ l.known /\ l.run = reply.run /\ l.body = reply.body /\ l.scope = scope
       /\ reply.answer = "refused" => ~Protected(reply.id)

\* Only reservations for unknown outcomes can block a lane for good: a request
\* turned away for capacity finds that many records still in force.
CapacityIsHonest ==
  reply # None /\ reply.answer = "capacity" =>
    \A lane \in {QueueIds, ControlIds} : reply.id \in lane =>
      Cardinality({id \in lane : cache[id] # None /\ ~Expired(cache[id], now)})
        >= IF lane = QueueIds THEN QueueCapacity ELSE ControlCapacity
=============================================================================
