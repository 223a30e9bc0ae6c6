--------------------------- MODULE Services_proofs ---------------------------
(***************************************************************************)
(* That what the services promise holds in every instance: for each part   *)
(* an invariant that its Init establishes and each of its actions keeps,   *)
(* and at the end their composition.  The sections follow the parts:       *)
(* mutations, sessions, the media cache, orders, chat, logins, presence.   *)
(***************************************************************************)
EXTENDS Services, Sequences, FiniteSetTheorems, SequenceTheorems, WellFoundedInduction, TLAPS

-----------------------------------------------------------------------------
(* Mutations: for any number of ids, any capacities and any TTL a mutation *)
(* takes effect at most once in its window, and what a client is told of   *)
(* it is true.                                                             *)

\* The record of an id and its last execution agree: as long as the execution
\* protects its id the record is there, and expires when the protection ends.
Agree(id) ==
  /\ last[id] # None => last[id].scope <= scope
  /\ Protected(id) => /\ cache[id] # None
                      /\ cache[id].expires = IF last[id].known THEN last[id].at + TTL ELSE None
  /\ cache[id] # None /\ cache[id].answer = "committed" =>
       /\ last[id] # None /\ last[id].known /\ last[id].scope = scope
       /\ last[id].run = cache[id].run /\ last[id].body = cache[id].body
  /\ cache[id] # None /\ cache[id].answer = "refused" => ~Protected(id)

MutationInv == TypeOK /\ \A id \in Ids : Agree(id)

Recorded == {R \in SUBSET Outcomes : {"committed", "unknown"} \subseteq R}

\* The sweep takes no record that protects an execution.
LEMMA SweepKeeps ==
  ASSUME MutationInv, NEW lane \in {QueueIds, ControlIds}
  PROVE  /\ Swept(lane) \in [Ids -> Record \cup {None}]
         /\ \A id \in Ids :
              /\ Swept(lane)[id] \in {cache[id], None}
              /\ Protected(id) => Swept(lane)[id] = cache[id] /\ cache[id] # None
<1> SUFFICES ASSUME NEW id \in Ids
             PROVE  /\ Swept(lane)[id] \in {cache[id], None}
                    /\ Protected(id) => Swept(lane)[id] = cache[id] /\ cache[id] # None
  BY DEF Swept, MutationInv, TypeOK
<1>1. Swept(lane)[id] \in {cache[id], None}
  BY DEF Swept
<1>2. ASSUME Protected(id)
      PROVE  cache[id] # None /\ ~Expired(cache[id], now)
  BY <1>2, CacheAssumption DEF MutationInv, TypeOK, Agree, Protected, Expired, Execution, Record
<1> QED
  BY <1>1, <1>2 DEF Swept

\* Steps that execute nothing: a replay, a request turned away, an invalid one.
LEMMA AnswerStep ==
  ASSUME MutationInv, NEW lane \in {QueueIds, ControlIds}, cache' = Swept(lane),
         asked' \in Nat \cup {None}, UNCHANGED <<now, scope, runs, last>>,
         NEW id \in Ids, NEW body \in Bodies,
         NEW answer \in Outcomes \cup {"conflict", "capacity", "stale"},
         NEW run \in Nat \cup {None}, Reply(id, body, answer, run)
  PROVE  MutationInv'
<1>1. TypeOK'
  BY SweepKeeps DEF MutationInv, TypeOK, Reply
<1>2. \A i \in Ids : Agree(i)'
  BY SweepKeeps DEF MutationInv, Agree, Protected
<1> QED
  BY <1>1, <1>2 DEF MutationInv

LEMMA ReplayStep ==
  ASSUME MutationInv, NEW lane \in {QueueIds, ControlIds}, asked' \in Nat \cup {None},
         NEW id \in Ids, NEW body \in Bodies, Replay(Swept(lane), id, body)
  PROVE  MutationInv' /\ AnswersAreTrue' /\ UNCHANGED last
<1> DEFINE r == Swept(lane)[id]
<1>1. r # None /\ r = cache[id] /\ r \in Record
  BY SweepKeeps DEF Replay, MutationInv, TypeOK
<1>2. PICK answer \in Outcomes \cup {"conflict"}, run \in Nat \cup {None} :
        /\ Reply(id, body, answer, run)
        /\ answer # "conflict" => r.body = body /\ answer = r.answer /\ run = r.run
  BY <1>1 DEF Replay, Record
<1>3. cache' = Swept(lane) /\ UNCHANGED <<now, scope, runs, last>>
  BY DEF Replay
<1> HIDE DEF r
<1>4. MutationInv'
  BY <1>2, <1>3, AnswerStep
<1>5. AnswersAreTrue'
  <2>1. /\ reply'.id = id /\ reply'.answer = answer /\ reply'.body = body /\ reply'.run = run
    BY <1>2 DEF Reply
  <2>2. Agree(id) /\ Protected(id)' <=> Agree(id) /\ Protected(id)
    BY <1>3 DEF Protected
  <2> QED
    BY <1>1, <1>2, <1>3, <2>1, <2>2 DEF MutationInv, Agree, AnswersAreTrue, Outcomes
<1> QED
  BY <1>3, <1>4, <1>5

LEMMA TurnAwayStep ==
  ASSUME MutationInv, NEW lane \in {QueueIds, ControlIds}, asked' \in Nat \cup {None},
         NEW id \in Ids, NEW body \in Bodies, NEW n, TurnAway(Swept(lane), lane, n, id, body)
  PROVE  MutationInv' /\ AnswersAreTrue' /\ UNCHANGED last
<1>1. /\ Reply(id, body, "capacity", None) /\ cache' = Swept(lane)
      /\ UNCHANGED <<now, scope, runs, last>>
  BY DEF TurnAway
<1>2. MutationInv'
  BY <1>1, AnswerStep
<1> QED
  BY <1>1, <1>2 DEF AnswersAreTrue, Reply

LEMMA ExecuteStep ==
  ASSUME MutationInv, NEW lane \in {QueueIds, ControlIds}, asked' \in Nat \cup {None},
         NEW id \in Ids, NEW body \in Bodies, NEW o \in Outcomes, NEW n,
         NEW R \in Recorded, Execute(Swept(lane), lane, n, id, body, o, R)
  PROVE  /\ MutationInv' /\ AnswersAreTrue' /\ ~Protected(id)
         /\ \A i \in Ids \ {id} : last'[i] = last[i]
<1> DEFINE kept == Swept(lane)
           rec == [body |-> body, answer |-> o, run |-> runs',
                   expires |-> IF o = "unknown" THEN None ELSE now' + TTL]
           ex == [body |-> body, known |-> o = "committed", run |-> runs',
                  scope |-> scope, at |-> now']
<1>1. /\ kept \in [Ids -> Record \cup {None}] /\ kept[id] = None
      /\ \A i \in Ids : /\ kept[i] \in {cache[i], None}
                        /\ Protected(i) => kept[i] = cache[i] /\ cache[i] # None
  BY SweepKeeps DEF Execute
<1>2. /\ runs' = runs + 1 /\ now' \in Nat /\ now' >= now /\ scope' = scope
      /\ runs' \in Nat /\ now \in Nat /\ scope \in Nat
  BY CacheAssumption DEF Execute, MutationInv, TypeOK
<1>3. rec \in Record /\ rec # None /\ ex \in Execution /\ ex # None
  <2>1. rec \in Record
    <3>1. now' + TTL \in Nat
      <4>1. TTL \in Nat
        BY CacheAssumption
      <4>2. \A t \in Nat : t + TTL \in Nat
        BY <4>1
      <4> QED
        BY <1>2, <4>2
    <3>2. (IF o = "unknown" THEN None ELSE now' + TTL) \in Nat \cup {None}
      BY <3>1
    <3> QED
      BY <1>2, <3>2, Zenon DEF Record
  <2>2. (o = "committed") \in BOOLEAN
    OBVIOUS
  <2>3. ex \in Execution
    BY <1>2, <2>2 DEF Execution
  <2> QED
    BY <2>1, <2>3, CacheAssumption
<1>4. /\ cache' = IF o \in R THEN [kept EXCEPT ![id] = rec] ELSE kept
      /\ last' = IF o = "refused" THEN last ELSE [last EXCEPT ![id] = ex]
      /\ reply' = [id |-> id, body |-> body, answer |-> o, run |-> runs']
  BY DEF Execute, Remember, Reply
<1>5. /\ rec.body = body /\ rec.answer = o /\ rec.run = runs'
      /\ rec.expires = IF o = "unknown" THEN None ELSE now' + TTL
      /\ ex.body = body /\ ex.known = (o = "committed") /\ ex.run = runs'
      /\ ex.scope = scope /\ ex.at = now'
  OBVIOUS
<1>6. o \in R \/ o = "refused"
  BY DEF Recorded, Outcomes
<1>7. ~Protected(id)
  BY <1>1
<1> HIDE DEF kept, rec, ex
<1>8. TypeOK'
  BY <1>1, <1>2, <1>3, <1>4 DEF MutationInv, TypeOK
<1>9. ASSUME NEW i \in Ids \ {id}
      PROVE  last'[i] = last[i] /\ cache'[i] = kept[i]
  BY <1>1, <1>4 DEF MutationInv, TypeOK
<1>10. \A i \in Ids : Protected(i)' /\ last'[i] = last[i] => Protected(i)
  BY <1>2, CacheAssumption DEF Protected, MutationInv, TypeOK, Execution
<1>11. \A i \in Ids \ {id} : Agree(i)'
  BY <1>1, <1>2, <1>9, <1>10 DEF MutationInv, Agree
<1>12. /\ o = "refused" => last'[id] = last[id] /\ cache'[id] \in {None, rec}
       /\ o # "refused" => last'[id] = ex /\ cache'[id] = rec
  BY <1>1, <1>4, <1>6 DEF MutationInv, TypeOK
<1>13. Agree(id)'
  <2>1. CASE o = "refused"
    <3>1. ~Protected(id)'
      BY <1>7, <1>10, <1>12, <2>1
    <3> QED
      BY <1>2, <1>5, <1>12, <2>1, <3>1 DEF MutationInv, Agree
  <2>2. CASE o # "refused"
    <3>1. last'[id] = ex /\ cache'[id] = rec /\ o \in {"committed", "unknown"}
      BY <1>12, <2>2 DEF Outcomes
    <3>2. last'[id].scope <= scope'
      BY <1>2, <1>5, <3>1
    <3>3. /\ cache'[id] # None
          /\ cache'[id].expires = IF last'[id].known THEN last'[id].at + TTL ELSE None
      <4>1. CASE o = "committed"
        BY <1>3, <1>5, <3>1, <4>1
      <4>2. CASE o = "unknown"
        BY <1>3, <1>5, <3>1, <4>2
      <4> QED
        BY <3>1, <4>1, <4>2
    <3>4. cache'[id].answer = "committed" =>
            /\ last'[id] # None /\ last'[id].known /\ last'[id].scope = scope'
            /\ last'[id].run = cache'[id].run /\ last'[id].body = cache'[id].body
      BY <1>2, <1>3, <1>5, <3>1
    <3>5. cache'[id].answer # "refused"
      BY <1>5, <3>1
    <3> QED
      BY <3>2, <3>3, <3>4, <3>5 DEF Agree
  <2> QED
    BY <2>1, <2>2
<1>14. AnswersAreTrue'
  <2>1. reply'.id = id /\ reply'.answer = o /\ reply'.body = body /\ reply'.run = runs'
    BY <1>4
  <2> QED
    BY <1>2, <1>3, <1>5, <1>7, <1>10, <1>12, <2>1 DEF AnswersAreTrue
<1> QED
  BY <1>7, <1>8, <1>9, <1>11, <1>13, <1>14 DEF MutationInv

-----------------------------------------------------------------------------
(* The invariant and what follows from it.                                 *)

LEMMA MutationInit == Init => MutationInv /\ AnswersAreTrue
BY CacheAssumption DEF Init, MutationInv, TypeOK, Agree, Protected, AnswersAreTrue

\* What a step may do to an execution that is remembered.
StepIsSafe ==
  /\ \A id \in Ids : Protected(id) => last'[id] = last[id]
  /\ \A id \in ControlIds : last'[id] # last[id] => asked' = scope

LEMMA QueueStep ==
  ASSUME MutationInv, NEW id \in QueueIds, NEW body \in Bodies, NEW o \in Outcomes,
         executeQueue(id, body, o)
  PROVE  MutationInv' /\ AnswersAreTrue' /\ StepIsSafe
<1>1. id \in Ids /\ id \notin ControlIds /\ asked' \in Nat \cup {None}
  BY CacheAssumption DEF Ids, executeQueue
<1>2. {"committed", "unknown"} \in Recorded
  BY DEF Recorded, Outcomes
<1>3. CASE Replay(Swept(QueueIds), id, body)
  BY <1>1, <1>3, ReplayStep DEF StepIsSafe
<1>4. CASE TurnAway(Swept(QueueIds), QueueIds, QueueCapacity, id, body)
  BY <1>1, <1>4, TurnAwayStep DEF StepIsSafe
<1>5. CASE Execute(Swept(QueueIds), QueueIds, QueueCapacity, id, body, o, {"committed", "unknown"})
  BY <1>1, <1>2, <1>5, ExecuteStep DEF StepIsSafe, Ids
<1> QED
  BY <1>3, <1>4, <1>5 DEF executeQueue

LEMMA ControlStep ==
  ASSUME MutationInv, NEW id \in ControlIds, NEW body \in Bodies, NEW seen \in 1..scope,
         NEW o \in Outcomes, executeControl(id, body, seen, o)
  PROVE  MutationInv' /\ AnswersAreTrue' /\ StepIsSafe
<1>1. id \in Ids /\ asked' = seen /\ asked' \in Nat \cup {None}
  BY DEF Ids, executeControl, MutationInv, TypeOK
<1>2. Outcomes \in Recorded
  BY DEF Recorded, Outcomes
<1>3. CASE /\ Reply(id, body, "stale", None)
           /\ UNCHANGED <<now, scope, cache, runs, last>>
  <2>1. TypeOK'
    BY <1>1, <1>3 DEF MutationInv, TypeOK, Reply
  <2>2. \A i \in Ids : Agree(i)'
    BY <1>3 DEF MutationInv, Agree, Protected
  <2> QED
    BY <1>3, <2>1, <2>2 DEF MutationInv, AnswersAreTrue, Reply, StepIsSafe
<1>4. CASE Replay(Swept(ControlIds), id, body)
  BY <1>1, <1>4, ReplayStep DEF StepIsSafe
<1>5. CASE TurnAway(Swept(ControlIds), ControlIds, ControlCapacity, id, body)
  BY <1>1, <1>5, TurnAwayStep DEF StepIsSafe
<1>6. CASE /\ seen = scope
           /\ Execute(Swept(ControlIds), ControlIds, ControlCapacity, id, body, o, Outcomes)
  BY <1>1, <1>2, <1>6, ExecuteStep DEF StepIsSafe, Ids
<1> QED
  BY <1>3, <1>4, <1>5, <1>6 DEF executeControl

LEMMA MutationStep ==
  ASSUME MutationInv, AnswersAreTrue, [Next]_vars
  PROVE  MutationInv' /\ AnswersAreTrue' /\ StepIsSafe
<1>1. CASE RefuseInvalid \/ Tick
  <2>1. /\ reply' = None /\ asked' = None /\ now' \in Nat /\ now' >= now
        /\ UNCHANGED <<scope, cache, runs, last>>
    BY <1>1, CacheAssumption DEF RefuseInvalid, Tick, MutationInv, TypeOK
  <2>2. TypeOK'
    BY <2>1 DEF MutationInv, TypeOK
  <2>3. \A i \in Ids : Agree(i)'
    BY <2>1, CacheAssumption DEF MutationInv, TypeOK, Execution, Agree, Protected
  <2> QED
    BY <2>1, <2>2, <2>3 DEF MutationInv, AnswersAreTrue, StepIsSafe
<1>2. CASE Rebuild
  <2>1. /\ reply' = None /\ asked' = None /\ scope' = scope + 1
        /\ cache' = [id \in Ids |-> None] /\ UNCHANGED <<now, runs, last>>
    BY <1>2 DEF Rebuild
  <2>2. TypeOK'
    BY <2>1 DEF MutationInv, TypeOK
  <2>3. \A i \in Ids : Agree(i)'
    BY <2>1 DEF MutationInv, TypeOK, Execution, Agree, Protected
  <2> QED
    BY <2>1, <2>2, <2>3 DEF MutationInv, AnswersAreTrue, StepIsSafe
<1>3. CASE UNCHANGED vars
  <2>1. TypeOK' /\ \A i \in Ids : Agree(i)'
    BY <1>3 DEF vars, MutationInv, TypeOK, Agree, Protected
  <2> QED
    BY <1>3, <2>1 DEF vars, MutationInv, AnswersAreTrue, Protected, StepIsSafe
<1> QED
  BY <1>1, <1>2, <1>3, QueueStep, ControlStep DEF Next

\* Every variable keeps its type.
THEOREM TypeCorrect == Spec => []TypeOK
<1>1. MutationInv => TypeOK
  BY DEF MutationInv
<1> QED
  BY <1>1, MutationInit, MutationStep, PTL DEF Spec

\* What a client is told of its mutation is true.
THEOREM AnswersTrue == Spec => []AnswersAreTrue
BY MutationInit, MutationStep, PTL DEF Spec

\* A mutation takes effect at most once in its window.
THEOREM AtMostOnce == Spec => AtMostOncePerWindow
<1>1. StepIsSafe => \A id \in Ids : Protected(id) => last'[id] = last[id]
  BY DEF StepIsSafe
<1> QED
  BY <1>1, MutationInit, MutationStep, PTL DEF Spec, AtMostOncePerWindow

\* A control sent again as it was takes effect in no later runtime.
THEOREM RetriesInScope == Spec => RetriesStayInScope
<1> DEFINE Kept == \A id \in ControlIds :
             last[id] # None /\ asked' = last[id].scope /\ last'[id] # last[id] =>
               scope = last[id].scope /\ ~Protected(id)
<1>1. StepIsSafe => Kept
  BY DEF StepIsSafe, Ids
<1> QED
  BY <1>1, MutationInit, MutationStep, PTL DEF Spec, RetriesStayInScope

-----------------------------------------------------------------------------
(* A full map. *)

\* What the sweep leaves is in force.
LEMMA SweptInForce ==
  ASSUME NEW lane \in {QueueIds, ControlIds}, cache' = Swept(lane), now' = now
  PROVE  {id \in lane : cache'[id] # None /\ ~Expired(cache'[id], now')}
           = Records(lane, Swept(lane))
BY DEF Swept, Records, Ids

LEMMA TurnAwayHonest ==
  ASSUME NEW lane \in {QueueIds, ControlIds}, NEW id \in lane, NEW body,
         TurnAway(Swept(lane), lane, IF lane = QueueIds THEN QueueCapacity ELSE ControlCapacity, id, body)
  PROVE  CapacityIsHonest'
<1>1. cache' = Swept(lane) /\ now' = now /\ reply'.id = id
  BY DEF TurnAway, Reply
<1>2. \A l \in {QueueIds, ControlIds} : id \in l => l = lane
  BY CacheAssumption
<1>3. Cardinality({i \in lane : cache'[i] # None /\ ~Expired(cache'[i], now')})
        >= IF lane = QueueIds THEN QueueCapacity ELSE ControlCapacity
  BY <1>1, SweptInForce DEF TurnAway
<1> QED
  BY <1>1, <1>2, <1>3 DEF CapacityIsHonest

\* Every other answer is an outcome or a conflict, a refusal for its scope, or
\* no answer at all.
LEMMA OtherAnswer ==
  ASSUME MutationInv, NEW lane \in {QueueIds, ControlIds}, NEW id \in lane, NEW body, NEW o \in Outcomes, NEW n,
         NEW R, \/ Replay(Swept(lane), id, body)
                \/ Execute(Swept(lane), lane, n, id, body, o, R)
  PROVE  CapacityIsHonest'
<1>1. Swept(lane)[id] # None => Swept(lane)[id].answer \in Outcomes
  BY SweepKeeps DEF Ids, Record
<1>2. reply'.answer # "capacity"
  BY <1>1 DEF Replay, Execute, Reply, Outcomes
<1> QED
  BY <1>2 DEF CapacityIsHonest

LEMMA HonestStep ==
  ASSUME MutationInv, CapacityIsHonest, [Next]_vars
  PROVE  CapacityIsHonest'
<1>1. ASSUME NEW id \in QueueIds, NEW body \in Bodies, NEW o \in Outcomes, executeQueue(id, body, o)
      PROVE  CapacityIsHonest'
  BY <1>1, TurnAwayHonest, OtherAnswer DEF executeQueue
<1>2. ASSUME NEW id \in ControlIds, NEW body \in Bodies, NEW seen \in 1..scope, NEW o \in Outcomes,
             executeControl(id, body, seen, o)
      PROVE  CapacityIsHonest'
  <2>1. CASE Reply(id, body, "stale", None)
    BY <2>1 DEF Reply, CapacityIsHonest
  <2>2. CASE TurnAway(Swept(ControlIds), ControlIds, ControlCapacity, id, body)
    <3>1. ControlIds # QueueIds
      BY CacheAssumption
    <3> QED
      BY <2>2, <3>1, TurnAwayHonest
  <2> QED
    BY <1>2, <2>1, <2>2, OtherAnswer DEF executeControl
<1>3. CASE RefuseInvalid \/ Tick \/ Rebuild
  BY <1>3 DEF RefuseInvalid, Tick, Rebuild, CapacityIsHonest
<1>4. CASE UNCHANGED vars
  BY <1>4 DEF vars, CapacityIsHonest
<1> QED
  BY <1>1, <1>2, <1>3, <1>4 DEF Next

\* Whoever is turned away for capacity met a map full of records in force
\* (executeQueue and executeControl sweep before they count).
THEOREM CapacityHonest == Spec => []CapacityIsHonest
<1>1. Init => CapacityIsHonest
  BY DEF Init, CapacityIsHonest
<1> QED
  BY <1>1, MutationInit, MutationStep, HonestStep, PTL DEF Spec

-----------------------------------------------------------------------------
(* Sessions *)

\* A row of user_session as Issued and Revoked leave it.
SessIsRow(s) ==
    /\ s = [status |-> s.status, user |-> s.user, proof |-> s.proof]
    /\ s.status \in {"live", "old", "gone"} /\ s.user \in Accounts

\* The steps of a call, with the user of those that issue a session.
SessIsCall(c) ==
    \/ c = Sess!Idle
    \/ c = [op |-> "login", user |-> c.user, hash |-> c.hash] /\ c.user \in Accounts
    \/ c = [op |-> "resolved", token |-> c.token] /\ c.token \in Tokens
    \/ c = [op |-> "change", token |-> c.token, hash |-> c.hash] /\ c.token \in Tokens
    \/ c = [op |-> "report", hashes |-> c.hashes]
    \/ c = [op |-> "upgrade", user |-> c.user] /\ c.user \in Accounts

SessIsConn(k) ==
    \/ k = Sess!NoConn
    \/ /\ k = [phase |-> k.phase, token |-> k.token]
       /\ k.phase \in {"accepted", "registered", "open"} /\ k.token \in Tokens

SessTypeOK ==
    /\ account \in [Accounts -> {"none", "GUEST", "MEMBER", "ADMIN"}]
    /\ password = [u \in Accounts |-> password[u]]
    /\ session = [t \in Tokens |-> session[t]]
    /\ \A t \in Tokens : session[t] = Sess!Unused \/ SessIsRow(session[t])
    /\ call = [c \in Callers |-> call[c]]
    /\ \A c \in Callers : SessIsCall(call[c])
    /\ conn = [k \in Conns |-> conn[k]]
    /\ \A k \in Conns : SessIsConn(conn[k])

\* Nobody has a session, or is about to get one by logging in, before having
\* a profile.
SessProfilesFirst ==
    /\ \A t \in Tokens : session[t].status \in {"live", "old"} => account[session[t].user] # "none"
    /\ \A c \in Callers : call[c].op = "login" => account[call[c].user] # "none"

-----------------------------------------------------------------------------
(* The variables keep their types *)

LEMMA SessTypeInit == Sess!Init => SessTypeOK
BY DEF Sess!Init, SessTypeOK, Sess!Idle, Sess!NoConn, Sess!Unused, SessIsCall, SessIsConn

LEMMA SessIssuedType ==
    ASSUME SessTypeOK, NEW t \in Tokens, NEW u \in Accounts, NEW h, Sess!Issued(t, u, h)
    PROVE  /\ session' = [s \in Tokens |-> session'[s]]
           /\ \A s \in Tokens : session'[s] = Sess!Unused \/ SessIsRow(session'[s])
BY DEF SessTypeOK, Sess!Issued, SessIsRow, Sess!Unused

LEMMA SessRevokedType ==
    ASSUME SessTypeOK, NEW ts, \A t \in ts : t \in Tokens => session[t] # Sess!Unused,
           session' = Sess!Revoked(ts)
    PROVE  /\ session' = [s \in Tokens |-> session'[s]]
           /\ \A s \in Tokens : session'[s] = Sess!Unused \/ SessIsRow(session'[s])
<1>1. session' = [s \in Tokens |-> session'[s]]
  BY DEF Sess!Revoked
<1>2. ASSUME NEW s \in Tokens PROVE session'[s] = Sess!Unused \/ SessIsRow(session'[s])
  <2>1. CASE s \in ts
    <3>1. SessIsRow(session[s])
      BY <2>1 DEF SessTypeOK
    <3>2. session'[s] = [session[s] EXCEPT !.status = "gone"]
      BY <2>1 DEF Sess!Revoked
    <3>3. session'[s] = [status |-> "gone", user |-> session[s].user, proof |-> session[s].proof]
      BY <3>1, <3>2 DEF SessIsRow
    <3> QED BY <3>1, <3>3 DEF SessIsRow
  <2>2. CASE s \notin ts
    BY <2>2 DEF Sess!Revoked, SessTypeOK
  <2> QED BY <2>1, <2>2
<1> QED BY <1>1, <1>2

LEMMA SessTypeStep == SessTypeOK /\ Sess!Next => SessTypeOK'
<1> SUFFICES ASSUME SessTypeOK, Sess!Next PROVE SessTypeOK'
  OBVIOUS
<1> USE DEF Sess!Idle, Sess!NoConn
<1>1. ASSUME NEW u \in Accounts, Sess!Bootstrap(u) PROVE SessTypeOK'
  BY <1>1 DEF SessTypeOK, Sess!Bootstrap
<1>2. ASSUME NEW u \in Accounts, NEW t \in Tokens, Sess!CreateGuestSession(u, t) PROVE SessTypeOK'
  BY <1>2, SessIssuedType DEF SessTypeOK, Sess!CreateGuestSession
<1>3. ASSUME NEW u \in Accounts, NEW t \in Tokens, Sess!RedeemInvite(u, t) PROVE SessTypeOK'
  BY <1>3, SessIssuedType DEF SessTypeOK, Sess!RedeemInvite
<1>4. ASSUME NEW t \in Tokens, Sess!Age(t) PROVE SessTypeOK'
  <2>1. SessIsRow(session[t])
    BY <1>4 DEF SessTypeOK, Sess!Age, Sess!Unused
  <2>2. [session[t] EXCEPT !.status = "old"]
          = [status |-> "old", user |-> session[t].user, proof |-> session[t].proof]
    BY <2>1 DEF SessIsRow
  <2>3. SessIsRow([session[t] EXCEPT !.status = "old"])
    BY <2>1, <2>2 DEF SessIsRow
  <2> QED BY <1>4, <2>3 DEF SessTypeOK, Sess!Age
<1>5. ASSUME NEW c \in Callers, Sess!CallStep(c) PROVE SessTypeOK'
  <2>1. ASSUME NEW u \in Accounts, Sess!LoginRead(c, u) PROVE SessTypeOK'
    BY <2>1 DEF SessTypeOK, Sess!LoginRead, SessIsCall
  <2>2. ASSUME NEW t \in Tokens, Sess!Login(c, t) PROVE SessTypeOK'
    <3>1. call[c].user \in Accounts
      BY <2>2 DEF SessTypeOK, Sess!Login, SessIsCall
    <3>2. /\ session' = [s \in Tokens |-> session'[s]]
          /\ \A s \in Tokens : session'[s] = Sess!Unused \/ SessIsRow(session'[s])
      BY <2>2, <3>1, SessIssuedType DEF SessTypeOK, Sess!Login
    <3> QED BY <2>2, <3>2 DEF SessTypeOK, Sess!Login, SessIsCall
  <2>3. ASSUME NEW t \in Tokens, Sess!ChangeResolve(c, t) PROVE SessTypeOK'
    BY <2>3 DEF SessTypeOK, Sess!ChangeResolve, SessIsCall
  <2>4. ASSUME Sess!ChangeRead(c) PROVE SessTypeOK'
    <3> DEFINE e == [op |-> "change", token |-> call[c].token,
                     hash |-> password[Sess!UserOf(call[c].token)]]
    <3>1. call[c].token \in Tokens
      BY <2>4 DEF SessTypeOK, Sess!ChangeRead, SessIsCall
    <3>2. SessIsCall(e) /\ SessIsCall(Sess!Idle)
      BY <3>1 DEF SessIsCall
    <3>3. /\ call' = [call EXCEPT ![c] = e] \/ call' = [call EXCEPT ![c] = Sess!Idle]
          /\ UNCHANGED <<account, password, session, conn>>
      BY <2>4 DEF Sess!ChangeRead
    <3> HIDE DEF e
    <3> QED BY <3>2, <3>3 DEF SessTypeOK
  <2>5. ASSUME Sess!ChangePassword(c) PROVE SessTypeOK'
    <3> DEFINE u == Sess!UserOf(call[c].token)
    <3>1. CASE Sess!Resolve(call[c].token) /\ password[u] = call[c].hash
      <4>1. \A t \in Sess!RowsOf(u) : session[t] # Sess!Unused
        BY DEF Sess!RowsOf, Sess!Unused
      <4>2. session' = Sess!Revoked(Sess!RowsOf(u))
        BY <2>5, <3>1 DEF Sess!ChangePassword
      <4>3. /\ session' = [s \in Tokens |-> session'[s]]
            /\ \A s \in Tokens : session'[s] = Sess!Unused \/ SessIsRow(session'[s])
        BY <4>1, <4>2, SessRevokedType
      <4>4. /\ call' = [call EXCEPT ![c] = [op |-> "report", hashes |-> Sess!RowsOf(u)]]
            /\ password' = [password EXCEPT ![u] = Sess!NextHash]
            /\ UNCHANGED <<account, conn>>
        BY <2>5, <3>1 DEF Sess!ChangePassword
      <4>5. /\ call' = [d \in Callers |-> call'[d]]
            /\ \A d \in Callers : SessIsCall(call'[d])
        BY <4>4 DEF SessTypeOK, SessIsCall
      <4>6. password' = [v \in Accounts |-> password'[v]]
        BY <4>4 DEF SessTypeOK
      <4> QED BY <4>3, <4>4, <4>5, <4>6 DEF SessTypeOK
    <3>2. CASE ~(Sess!Resolve(call[c].token) /\ password[u] = call[c].hash)
      BY <2>5, <3>2 DEF SessTypeOK, Sess!ChangePassword, SessIsCall
    <3> QED BY <3>1, <3>2
  <2>6. ASSUME NEW t \in Tokens, Sess!Logout(c, t) PROVE SessTypeOK'
    <3>1. /\ session' = [s \in Tokens |-> session'[s]]
          /\ \A s \in Tokens : session'[s] = Sess!Unused \/ SessIsRow(session'[s])
      BY <2>6, SessRevokedType DEF Sess!Logout
    <3> QED BY <2>6, <3>1 DEF SessTypeOK, Sess!Logout, SessIsCall
  <2>7. ASSUME Sess!CleanupExpiredSessions(c) PROVE SessTypeOK'
    <3> DEFINE old == {t \in Tokens : session[t].status = "old"}
    <3>1. session' = Sess!Revoked(old) /\ \A t \in old : session[t] # Sess!Unused
      BY <2>7 DEF Sess!CleanupExpiredSessions, Sess!Unused
    <3>2. /\ session' = [s \in Tokens |-> session'[s]]
          /\ \A s \in Tokens : session'[s] = Sess!Unused \/ SessIsRow(session'[s])
      BY <3>1, SessRevokedType
    <3> QED BY <2>7, <3>2 DEF SessTypeOK, Sess!CleanupExpiredSessions, SessIsCall
  <2>8. ASSUME Sess!CloseSessionHashes(c) PROVE SessTypeOK'
    BY <2>8 DEF SessTypeOK, Sess!CloseSessionHashes, SessIsCall, SessIsConn
  <2>9. ASSUME NEW t \in Tokens, Sess!UpgradeResolve(c, t) PROVE SessTypeOK'
    <3>1. Sess!UserOf(t) \in Accounts
      BY <2>9 DEF SessTypeOK, Sess!UpgradeResolve, Sess!Resolve, Sess!LiveSessions, Sess!UserOf, SessIsRow, Sess!Unused
    <3> QED BY <2>9, <3>1 DEF SessTypeOK, Sess!UpgradeResolve, SessIsCall
  <2>10. ASSUME NEW t \in Tokens, Sess!UpgradeGuestToUser(c, t) PROVE SessTypeOK'
    <3>1. call[c].user \in Accounts
      BY <2>10 DEF SessTypeOK, Sess!UpgradeGuestToUser, SessIsCall
    <3>2. /\ session' = [s \in Tokens |-> session'[s]]
          /\ \A s \in Tokens : session'[s] = Sess!Unused \/ SessIsRow(session'[s])
      BY <2>10, <3>1, SessIssuedType DEF SessTypeOK, Sess!UpgradeGuestToUser
    <3> QED BY <2>10, <3>1, <3>2 DEF SessTypeOK, Sess!UpgradeGuestToUser, SessIsCall
  <2> QED BY <1>5, <2>1, <2>2, <2>3, <2>4, <2>5, <2>6, <2>7, <2>8, <2>9, <2>10 DEF Sess!CallStep
<1>6. ASSUME NEW k \in Conns, Sess!ConnStep(k) PROVE SessTypeOK'
  BY <1>6 DEF SessTypeOK, Sess!ConnStep, Sess!Accept, Sess!RegisterSession, Sess!ResolveAgain, Sess!Leave, SessIsConn
<1> QED BY <1>1, <1>2, <1>3, <1>4, <1>5, <1>6 DEF Sess!Next, Sess!AccountStep

-----------------------------------------------------------------------------
(* Who has a session has a profile *)

LEMMA SessProfilesInit == Sess!Init => SessProfilesFirst
BY DEF Sess!Init, SessProfilesFirst, Sess!Idle, Sess!Unused

\* An account, once made, is never taken away.
LEMMA SessProfilesStay ==
    ASSUME SessTypeOK, Sess!Next, NEW u \in Accounts, account[u] # "none"
    PROVE  account'[u] # "none"
<1>1. ASSUME NEW v \in Accounts, Sess!Bootstrap(v) PROVE account'[u] # "none"
  BY <1>1 DEF Sess!Bootstrap, SessTypeOK
<1>2. ASSUME NEW v \in Accounts, NEW t \in Tokens, Sess!CreateGuestSession(v, t) \/ Sess!RedeemInvite(v, t)
      PROVE  account'[u] # "none"
  BY <1>2 DEF Sess!CreateGuestSession, Sess!RedeemInvite, SessTypeOK
<1>3. ASSUME NEW t \in Tokens, Sess!Age(t) PROVE account'[u] # "none"
  BY <1>3 DEF Sess!Age
<1>4. ASSUME NEW c \in Callers, Sess!CallStep(c) PROVE account'[u] # "none"
  <2>1. ASSUME NEW t \in Tokens, Sess!UpgradeGuestToUser(c, t) PROVE account'[u] # "none"
    BY <2>1 DEF Sess!UpgradeGuestToUser, SessTypeOK
  <2> QED
    BY <1>4, <2>1 DEF Sess!CallStep, Sess!LoginRead, Sess!Login, Sess!ChangeResolve, Sess!ChangeRead, Sess!ChangePassword, Sess!Logout,
       Sess!CleanupExpiredSessions, Sess!CloseSessionHashes, Sess!UpgradeResolve
<1>5. ASSUME NEW k \in Conns, Sess!ConnStep(k) PROVE account'[u] # "none"
  BY <1>5 DEF Sess!ConnStep, Sess!Accept, Sess!RegisterSession, Sess!ResolveAgain, Sess!Leave
<1> QED BY <1>1, <1>2, <1>3, <1>4, <1>5 DEF Sess!Next, Sess!AccountStep

\* A session is good after a step only if it was before, or was issued to a
\* user who has a profile then; an administrator's was issued on the hash
\* that the account still has.
SessOrigin(t) ==
    \/ session[t].status \in {"live", "old"} /\ session'[t].user = session[t].user
         /\ session'[t].proof = session[t].proof /\ (session'[t].status = "live" => session[t].status = "live")
    \/ /\ account'[session'[t].user] # "none" /\ session'[t].user \in Accounts
       /\ account'[session'[t].user] = "ADMIN" =>
             session'[t].proof = password[session'[t].user] /\ UNCHANGED password

LEMMA SessSessionOrigin ==
    ASSUME SessTypeOK, SessProfilesFirst, Sess!Next, NEW t \in Tokens,
           session'[t].status \in {"live", "old"}
    PROVE  SessOrigin(t)
<1>1. ASSUME NEW u \in Accounts, Sess!Bootstrap(u) PROVE SessOrigin(t)
  BY <1>1 DEF Sess!Bootstrap, SessOrigin
<1>2. ASSUME NEW u \in Accounts, NEW s \in Tokens, Sess!CreateGuestSession(u, s) \/ Sess!RedeemInvite(u, s)
      PROVE  SessOrigin(t)
  BY <1>2 DEF Sess!CreateGuestSession, Sess!RedeemInvite, Sess!Issued, SessOrigin, SessTypeOK
<1>3. ASSUME NEW s \in Tokens, Sess!Age(s) PROVE SessOrigin(t)
  <2>1. CASE s = t
    <3>1. session[t] = [status |-> "live", user |-> session[t].user, proof |-> session[t].proof]
      BY <1>3, <2>1 DEF SessTypeOK, SessIsRow, Sess!Age, Sess!Unused
    <3>2. session'[t] = [session[t] EXCEPT !.status = "old"]
      BY <1>3, <2>1 DEF Sess!Age, SessTypeOK
    <3>3. session'[t] = [status |-> "old", user |-> session[t].user, proof |-> session[t].proof]
      BY <3>1, <3>2
    <3> QED BY <3>1, <3>3 DEF SessOrigin
  <2>2. CASE s # t
    BY <1>3, <2>2 DEF Sess!Age, SessOrigin, SessTypeOK
  <2> QED BY <2>1, <2>2
<1>4. ASSUME NEW ts, session' = Sess!Revoked(ts) PROVE SessOrigin(t)
  <2>1. t \notin ts
    <3> SUFFICES ASSUME t \in ts PROVE FALSE
      OBVIOUS
    <3>1. session'[t] = [session[t] EXCEPT !.status = "gone"]
      BY <1>4 DEF Sess!Revoked
    <3>2. CASE session[t] = Sess!Unused
      BY <3>1, <3>2 DEF Sess!Unused
    <3>3. CASE SessIsRow(session[t])
      <4>1. session'[t] = [status |-> "gone", user |-> session[t].user, proof |-> session[t].proof]
        BY <3>1, <3>3 DEF SessIsRow
      <4> QED BY <4>1
    <3> QED BY <3>2, <3>3 DEF SessTypeOK
  <2> QED BY <1>4, <2>1 DEF Sess!Revoked, SessOrigin
<1>5. ASSUME UNCHANGED session PROVE SessOrigin(t)
  BY <1>5 DEF SessOrigin
<1>6. ASSUME NEW c \in Callers, Sess!CallStep(c) PROVE SessOrigin(t)
  <2>1. ASSUME NEW s \in Tokens, Sess!Login(c, s) PROVE SessOrigin(t)
    <3>1. call[c].user \in Accounts /\ account[call[c].user] # "none"
      BY <2>1 DEF SessTypeOK, SessIsCall, Sess!Idle, Sess!Login, SessProfilesFirst
    <3> QED BY <2>1, <3>1 DEF Sess!Login, Sess!Issued, SessOrigin, SessTypeOK
  <2>2. ASSUME NEW s \in Tokens, Sess!UpgradeGuestToUser(c, s) PROVE SessOrigin(t)
    <3>1. call[c].user \in Accounts
      BY <2>2 DEF SessTypeOK, SessIsCall, Sess!Idle, Sess!UpgradeGuestToUser
    <3> QED BY <2>2, <3>1 DEF Sess!UpgradeGuestToUser, Sess!Issued, SessOrigin, SessTypeOK
  <2>3. ASSUME Sess!ChangePassword(c) \/ Sess!CleanupExpiredSessions(c) \/ \E s \in Tokens : Sess!Logout(c, s)
        PROVE  SessOrigin(t)
    BY <2>3, <1>4, <1>5 DEF Sess!ChangePassword, Sess!CleanupExpiredSessions, Sess!Logout
  <2> QED
    BY <1>5, <1>6, <2>1, <2>2, <2>3 DEF Sess!CallStep, Sess!LoginRead, Sess!ChangeResolve, Sess!ChangeRead,
       Sess!CloseSessionHashes, Sess!UpgradeResolve
<1>7. ASSUME NEW k \in Conns, Sess!ConnStep(k) PROVE SessOrigin(t)
  BY <1>5, <1>7 DEF Sess!ConnStep, Sess!Accept, Sess!RegisterSession, Sess!ResolveAgain, Sess!Leave
<1> QED BY <1>1, <1>2, <1>3, <1>5, <1>6, <1>7 DEF Sess!Next, Sess!AccountStep

LEMMA SessProfilesStep == SessTypeOK /\ SessProfilesFirst /\ Sess!Next => SessProfilesFirst'
<1> SUFFICES ASSUME SessTypeOK, SessProfilesFirst, Sess!Next PROVE SessProfilesFirst'
  OBVIOUS
<1>1. ASSUME NEW t \in Tokens, session'[t].status \in {"live", "old"}
      PROVE  account'[session'[t].user] # "none"
  <2>1. SessOrigin(t)
    BY <1>1, SessSessionOrigin
  <2>2. CASE session[t].status \in {"live", "old"} /\ session'[t].user = session[t].user
    <3>1. session[t].user \in Accounts
      BY <2>2 DEF SessTypeOK, SessIsRow, Sess!Unused
    <3> QED BY <2>2, <3>1, SessProfilesStay DEF SessProfilesFirst
  <2> QED BY <2>1, <2>2 DEF SessOrigin
<1>2. ASSUME NEW c \in Callers, call'[c].op = "login" PROVE account'[call'[c].user] # "none"
  <2> DEFINE Read == \E u \in Accounts :
                call'[c] = [op |-> "login", user |-> u, hash |-> password[u]] /\ account[u] = "ADMIN"
  <2>1. call'[c] = call[c] \/ Read
    <3>1. ASSUME NEW d \in Callers, NEW u \in Accounts, Sess!LoginRead(d, u) PROVE Read \/ call'[c] = call[c]
      BY <3>1 DEF Sess!LoginRead, SessTypeOK
    <3>2. ASSUME NEW d \in Callers, NEW e, call' = [call EXCEPT ![d] = e], e.op # "login"
          PROVE  call'[c] = call[c]
      BY <1>2, <3>2 DEF SessTypeOK
    <3>3. ASSUME NEW d \in Callers, Sess!CallStep(d) PROVE Read \/ call'[c] = call[c]
      <4>1. ASSUME NEW e, call' = [call EXCEPT ![d] = e], e.op # "login" PROVE call'[c] = call[c]
        BY <4>1, <3>2
      <4>2. ASSUME NEW t \in Tokens, \/ Sess!Logout(d, t) \/ Sess!ChangeResolve(d, t) \/ Sess!UpgradeResolve(d, t)
                                    \/ Sess!Login(d, t) \/ Sess!UpgradeGuestToUser(d, t)
            PROVE  call'[c] = call[c]
        BY <4>1, <4>2 DEF Sess!Logout, Sess!ChangeResolve, Sess!UpgradeResolve, Sess!Login, Sess!UpgradeGuestToUser, Sess!Idle
      <4>3. ASSUME Sess!CleanupExpiredSessions(d) \/ Sess!CloseSessionHashes(d) PROVE call'[c] = call[c]
        BY <4>1, <4>3 DEF Sess!CleanupExpiredSessions, Sess!CloseSessionHashes, Sess!Idle
      <4>4. ASSUME Sess!ChangeRead(d) PROVE call'[c] = call[c]
        BY <4>1, <4>4 DEF Sess!ChangeRead, Sess!Idle
      <4>5. ASSUME Sess!ChangePassword(d) PROVE call'[c] = call[c]
        BY <4>1, <4>5 DEF Sess!ChangePassword, Sess!Idle
      <4> QED BY <3>1, <3>3, <4>2, <4>3, <4>4, <4>5 DEF Sess!CallStep
    <3>5. ASSUME Sess!AccountStep \/ \E k \in Conns : Sess!ConnStep(k) PROVE call'[c] = call[c]
      BY <3>5 DEF Sess!AccountStep, Sess!Bootstrap, Sess!CreateGuestSession, Sess!RedeemInvite, Sess!Age, Sess!ConnStep, Sess!Accept,
         Sess!RegisterSession, Sess!ResolveAgain, Sess!Leave
    <3> QED BY <3>3, <3>5 DEF Sess!Next
  <2>2. CASE call'[c] = call[c]
    <3>1. call[c].user \in Accounts /\ account[call[c].user] # "none"
      BY <1>2, <2>2 DEF SessTypeOK, SessIsCall, Sess!Idle, SessProfilesFirst
    <3> QED BY <2>2, <3>1, SessProfilesStay
  <2>3. CASE Read
    BY <2>3, SessProfilesStay
  <2> QED BY <2>1, <2>2, <2>3
<1> QED BY <1>1, <1>2 DEF SessProfilesFirst

-----------------------------------------------------------------------------
(* Theorems *)

\* A login that read an old password gets no session, a change of password
\* leaves none behind, and nobody becomes an administrator who had one before.
LEMMA SessCurrentStep ==
    SessTypeOK /\ SessProfilesFirst /\ Sess!SessionsUseCurrentPassword /\ Sess!Next => Sess!SessionsUseCurrentPassword'
<1> SUFFICES ASSUME SessTypeOK, SessProfilesFirst, Sess!SessionsUseCurrentPassword, Sess!Next,
                    NEW t \in Tokens, session'[t].status = "live", account'[session'[t].user] = "ADMIN"
             PROVE  session'[t].proof = password'[session'[t].user]
  BY DEF Sess!SessionsUseCurrentPassword, Sess!LiveSessions, Sess!UserOf
<1>1. SessOrigin(t)
  BY SessSessionOrigin
<1>2. CASE /\ session'[t].user = session[t].user /\ session'[t].proof = session[t].proof
           /\ session[t].status = "live"
  <2> DEFINE u == session[t].user
  <2>1. u \in Accounts /\ account[u] # "none"
    BY <1>2 DEF SessTypeOK, SessIsRow, Sess!Unused, SessProfilesFirst
  <2>2. account[u] = "ADMIN" => session[t].proof = password[u]
    BY <1>2 DEF Sess!SessionsUseCurrentPassword, Sess!LiveSessions, Sess!UserOf
  <2>3. ASSUME NEW v \in Accounts, Sess!Bootstrap(v) PROVE account[u] = "ADMIN" /\ password'[u] = password[u]
    BY <1>2, <2>1, <2>3 DEF Sess!Bootstrap, SessTypeOK
  <2>4. ASSUME NEW c \in Callers, Sess!ChangePassword(c) PROVE account[u] = "ADMIN" /\ password'[u] = password[u]
    <3> DEFINE w == Sess!UserOf(call[c].token)
    <3>1. account[u] = "ADMIN"
      BY <1>2, <2>4 DEF Sess!ChangePassword
    <3>2. CASE Sess!Resolve(call[c].token) /\ password[w] = call[c].hash
      <4>1. session' = Sess!Revoked(Sess!RowsOf(w)) /\ password' = [password EXCEPT ![w] = Sess!NextHash]
        BY <2>4, <3>2 DEF Sess!ChangePassword
      <4>2. CASE w = u
        <5>1. t \in Sess!RowsOf(w)
          BY <1>2, <4>2 DEF Sess!RowsOf
        <5>2. session'[t] = [session[t] EXCEPT !.status = "gone"]
          BY <4>1, <5>1 DEF Sess!Revoked
        <5>3. session[t] = [status |-> "live", user |-> u, proof |-> session[t].proof]
          BY <1>2 DEF SessTypeOK, SessIsRow, Sess!Unused
        <5>4. session'[t] = [status |-> "gone", user |-> u, proof |-> session[t].proof]
          BY <5>2, <5>3
        <5> QED BY <5>4
      <4> QED BY <2>1, <3>1, <4>1, <4>2 DEF SessTypeOK
    <3>3. CASE ~(Sess!Resolve(call[c].token) /\ password[w] = call[c].hash)
      BY <2>4, <3>1, <3>3 DEF Sess!ChangePassword
    <3> QED BY <3>2, <3>3
  <2>5. CASE UNCHANGED password /\ account'[u] # account[u]
    <3>1. ASSUME NEW v \in Accounts, NEW s \in Tokens, Sess!CreateGuestSession(v, s) \/ Sess!RedeemInvite(v, s)
          PROVE  FALSE
      BY <1>2, <2>1, <2>5, <3>1 DEF Sess!CreateGuestSession, Sess!RedeemInvite, SessTypeOK
    <3>2. ASSUME NEW c \in Callers, NEW s \in Tokens, Sess!UpgradeGuestToUser(c, s) PROVE FALSE
      BY <1>2, <2>1, <2>5, <3>2 DEF Sess!UpgradeGuestToUser, SessTypeOK
    <3>3. ASSUME NEW c \in Callers, Sess!CallStep(c) PROVE FALSE
      BY <2>5, <3>2, <3>3 DEF Sess!CallStep, Sess!LoginRead, Sess!Login, Sess!ChangeResolve, Sess!ChangeRead, Sess!ChangePassword,
         Sess!Logout, Sess!CleanupExpiredSessions, Sess!CloseSessionHashes, Sess!UpgradeResolve
    <3>4. ASSUME NEW k \in Conns, Sess!ConnStep(k) PROVE FALSE
      BY <2>5, <3>4 DEF Sess!ConnStep, Sess!Accept, Sess!RegisterSession, Sess!ResolveAgain, Sess!Leave
    <3>5. \E v \in Accounts : Sess!Bootstrap(v)
      BY <2>5, <3>1, <3>3, <3>4 DEF Sess!Next, Sess!AccountStep, Sess!Age
    <3> QED BY <1>2, <2>3, <2>5, <3>5
  <2>6. CASE UNCHANGED password /\ account'[u] = account[u]
    BY <1>2, <2>2, <2>6
  <2>7. CASE ~UNCHANGED password
    <3>1. ASSUME NEW c \in Callers, Sess!CallStep(c) PROVE Sess!ChangePassword(c)
      BY <2>7, <3>1 DEF Sess!CallStep, Sess!LoginRead, Sess!Login, Sess!ChangeResolve, Sess!ChangeRead, Sess!Logout,
         Sess!CleanupExpiredSessions, Sess!CloseSessionHashes, Sess!UpgradeResolve, Sess!UpgradeGuestToUser
    <3>2. ASSUME NEW k \in Conns, Sess!ConnStep(k) PROVE FALSE
      BY <2>7, <3>2 DEF Sess!ConnStep, Sess!Accept, Sess!RegisterSession, Sess!ResolveAgain, Sess!Leave
    <3>3. (\E v \in Accounts : Sess!Bootstrap(v)) \/ (\E c \in Callers : Sess!ChangePassword(c))
      BY <2>7, <3>1, <3>2 DEF Sess!Next, Sess!AccountStep, Sess!CreateGuestSession, Sess!RedeemInvite, Sess!Age
    <3> QED BY <1>2, <2>2, <2>3, <2>4, <3>3
  <2> QED BY <2>5, <2>6, <2>7
<1>3. CASE account'[session'[t].user] = "ADMIN" =>
             session'[t].proof = password[session'[t].user] /\ UNCHANGED password
  BY <1>3
<1> QED BY <1>1, <1>2, <1>3 DEF SessOrigin

LEMMA SessCurrentInit == Sess!Init => Sess!SessionsUseCurrentPassword
BY DEF Sess!Init, Sess!SessionsUseCurrentPassword, Sess!LiveSessions, Sess!Unused

\* A connection is opened only after its session resolved again in the hub;
\* every call that revokes sessions goes on to close their connections.
LEMMA SessClosedStep ==
    SessTypeOK /\ Sess!RevokedSessionsAreClosed /\ Sess!Next => Sess!RevokedSessionsAreClosed'
<1> SUFFICES ASSUME SessTypeOK, Sess!RevokedSessionsAreClosed, Sess!Next, NEW k \in Conns,
                    conn'[k].phase = "open", session'[conn'[k].token].status = "gone"
             PROVE  \E c \in Callers : call'[c].op = "report" /\ conn'[k].token \in call'[c].hashes
  BY DEF Sess!RevokedSessionsAreClosed
<1> DEFINE t == conn'[k].token
           Reported == \E c \in Callers : call'[c].op = "report" /\ t \in call'[c].hashes
<1>1. conn'[k] = conn[k] /\ t \in Tokens
  <2>1. ASSUME NEW j \in Conns, Sess!ConnStep(j) PROVE conn'[k] = conn[k]
    <3>1. ASSUME NEW s \in Tokens, Sess!Accept(j, s) PROVE conn'[k] = conn[k]
      BY <3>1 DEF Sess!Accept, SessTypeOK
    <3>2. ASSUME Sess!RegisterSession(j) PROVE conn'[k] = conn[k]
      BY <3>2 DEF Sess!RegisterSession, SessTypeOK, SessIsConn, Sess!NoConn
    <3>3. ASSUME Sess!ResolveAgain(j) PROVE conn'[k] = conn[k]
      <4>1. CASE j # k
        BY <3>3, <4>1 DEF Sess!ResolveAgain, SessTypeOK
      <4>2. CASE j = k
        <5>1. conn[k] = [phase |-> "registered", token |-> conn[k].token] /\ UNCHANGED session
          BY <3>3, <4>2 DEF Sess!ResolveAgain, SessTypeOK, SessIsConn, Sess!NoConn
        <5>2. Sess!Resolve(conn[k].token)
          BY <3>3, <4>2, <5>1 DEF Sess!ResolveAgain, SessTypeOK, Sess!NoConn
        <5>3. conn'[k].token = conn[k].token
          BY <3>3, <4>2, <5>1, <5>2 DEF Sess!ResolveAgain, SessTypeOK
        <5> QED BY <5>1, <5>2, <5>3 DEF Sess!Resolve, Sess!LiveSessions
      <4> QED BY <4>1, <4>2
    <3>4. ASSUME Sess!Leave(j) PROVE conn'[k] = conn[k]
      BY <3>4 DEF Sess!Leave, SessTypeOK, Sess!NoConn
    <3> QED BY <2>1, <3>1, <3>2, <3>3, <3>4 DEF Sess!ConnStep
  <2>2. ASSUME NEW c \in Callers, Sess!CloseSessionHashes(c) PROVE conn'[k] = conn[k]
    BY <2>2 DEF Sess!CloseSessionHashes, Sess!NoConn
  <2>3. ASSUME NEW c \in Callers, Sess!CallStep(c) PROVE conn'[k] = conn[k]
    BY <2>2, <2>3 DEF Sess!CallStep, Sess!LoginRead, Sess!Login, Sess!ChangeResolve, Sess!ChangeRead, Sess!ChangePassword, Sess!Logout,
       Sess!CleanupExpiredSessions, Sess!UpgradeResolve, Sess!UpgradeGuestToUser
  <2>4. conn'[k] = conn[k]
    BY <2>1, <2>3 DEF Sess!Next, Sess!AccountStep, Sess!Bootstrap, Sess!CreateGuestSession, Sess!RedeemInvite, Sess!Age
  <2> QED BY <2>4 DEF SessTypeOK, SessIsConn, Sess!NoConn
<1>2. ASSUME NEW ts, session' = Sess!Revoked(ts), NEW c \in Callers,
             call' = [call EXCEPT ![c] = [op |-> "report", hashes |-> ts]], call[c].op # "report"
      PROVE  Reported
  <2>1. CASE t \in ts
    BY <1>2, <2>1 DEF SessTypeOK
  <2>2. CASE t \notin ts
    <3>1. session[t].status = "gone"
      BY <1>1, <1>2, <2>2 DEF Sess!Revoked
    <3>2. PICK d \in Callers : call[d].op = "report" /\ t \in call[d].hashes
      BY <1>1, <3>1 DEF Sess!RevokedSessionsAreClosed
    <3>3. call'[d] = call[d]
      BY <1>2, <3>2 DEF SessTypeOK
    <3> QED BY <3>2, <3>3
  <2> QED BY <2>1, <2>2
<1>3. ASSUME session[t].status = "gone",
             \A d \in Callers : call[d].op = "report" => call'[d] = call[d]
      PROVE  Reported
  BY <1>1, <1>3 DEF Sess!RevokedSessionsAreClosed
<1>4. ASSUME NEW s \in Tokens, NEW u, NEW h, Sess!Issued(s, u, h) PROVE session[t].status = "gone"
  BY <1>1, <1>4 DEF Sess!Issued, SessTypeOK
<1>5. ASSUME Sess!AccountStep PROVE Reported
  <2>1. ASSUME NEW s \in Tokens, Sess!Age(s) PROVE session[t].status = "gone"
    <3>1. CASE s = t
      <4>1. session[t] = [status |-> "live", user |-> session[t].user, proof |-> session[t].proof]
        BY <2>1, <3>1 DEF Sess!Age, SessTypeOK, SessIsRow, Sess!Unused
      <4>2. session'[t] = [status |-> "old", user |-> session[t].user, proof |-> session[t].proof]
        BY <1>1, <2>1, <3>1, <4>1 DEF Sess!Age, SessTypeOK
      <4> QED BY <4>2
    <3>2. CASE s # t
      BY <1>1, <2>1, <3>2 DEF Sess!Age, SessTypeOK
    <3> QED BY <3>1, <3>2
  <2>2. session[t].status = "gone" /\ UNCHANGED call
    BY <1>4, <1>5, <2>1 DEF Sess!AccountStep, Sess!Bootstrap, Sess!CreateGuestSession, Sess!RedeemInvite, Sess!Age
  <2> QED BY <1>3, <2>2
<1>6. ASSUME NEW c \in Callers, Sess!CallStep(c) PROVE Reported
  <2>1. ASSUME NEW s \in Tokens, Sess!Logout(c, s) PROVE Reported
    <3>1. /\ session' = Sess!Revoked({s}) /\ call[c].op # "report"
          /\ call' = [call EXCEPT ![c] = [op |-> "report", hashes |-> {s}]]
      BY <2>1 DEF Sess!Logout, Sess!Idle
    <3> QED BY <1>2, <3>1
  <2>2. ASSUME Sess!CleanupExpiredSessions(c) PROVE Reported
    <3> DEFINE old == {s \in Tokens : session[s].status = "old"}
    <3>1. /\ session' = Sess!Revoked(old) /\ call[c].op # "report"
          /\ call' = [call EXCEPT ![c] = [op |-> "report", hashes |-> old]]
      BY <2>2 DEF Sess!CleanupExpiredSessions, Sess!Idle
    <3> HIDE DEF old
    <3> QED BY <1>2, <3>1
  <2>3. ASSUME call[c].op # "report", NEW e, call' = [call EXCEPT ![c] = e], session[t].status = "gone"
        PROVE  Reported
    BY <1>3, <2>3 DEF SessTypeOK
  <2>4. ASSUME Sess!ChangePassword(c) PROVE Reported
    <3> DEFINE u == Sess!UserOf(call[c].token)
    <3>1. CASE Sess!Resolve(call[c].token) /\ password[u] = call[c].hash
      BY <1>2, <2>4, <3>1 DEF Sess!ChangePassword
    <3>2. CASE ~(Sess!Resolve(call[c].token) /\ password[u] = call[c].hash)
      BY <2>3, <2>4, <3>2 DEF Sess!ChangePassword
    <3> QED BY <3>1, <3>2
  <2>5. ASSUME Sess!CloseSessionHashes(c) PROVE Reported
    <3>1. t \notin call[c].hashes
      BY <1>1, <2>5 DEF Sess!CloseSessionHashes, Sess!NoConn
    <3>2. PICK d \in Callers : call[d].op = "report" /\ t \in call[d].hashes
      BY <1>1, <2>5 DEF Sess!CloseSessionHashes, Sess!RevokedSessionsAreClosed
    <3>3. call'[d] = call[d]
      BY <2>5, <3>1, <3>2 DEF Sess!CloseSessionHashes, SessTypeOK
    <3> QED BY <3>2, <3>3
  <2>6. ASSUME NEW u \in Accounts, Sess!LoginRead(c, u) PROVE Reported
    <3>1. /\ call[c].op # "report" /\ session[t].status = "gone"
          /\ call' = [call EXCEPT ![c] = [op |-> "login", user |-> u, hash |-> password[u]]]
      BY <2>6 DEF Sess!LoginRead, Sess!Idle
    <3> QED BY <2>3, <3>1
  <2>7. ASSUME NEW s \in Tokens, Sess!Login(c, s) PROVE Reported
    BY <1>4, <2>3, <2>7 DEF Sess!Login
  <2>8. ASSUME NEW s \in Tokens, Sess!ChangeResolve(c, s) \/ Sess!UpgradeResolve(c, s) PROVE Reported
    BY <2>3, <2>8 DEF Sess!ChangeResolve, Sess!UpgradeResolve, Sess!Idle
  <2>9. ASSUME Sess!ChangeRead(c) PROVE Reported
    BY <2>3, <2>9 DEF Sess!ChangeRead
  <2>10. ASSUME NEW s \in Tokens, Sess!UpgradeGuestToUser(c, s) PROVE Reported
    BY <1>4, <2>3, <2>10 DEF Sess!UpgradeGuestToUser
  <2> QED BY <1>6, <2>1, <2>2, <2>4, <2>5, <2>6, <2>7, <2>8, <2>9, <2>10 DEF Sess!CallStep
<1>7. ASSUME NEW j \in Conns, Sess!ConnStep(j) PROVE Reported
  BY <1>3, <1>7 DEF Sess!ConnStep, Sess!Accept, Sess!RegisterSession, Sess!ResolveAgain, Sess!Leave
<1> QED BY <1>3, <1>5, <1>6, <1>7 DEF Sess!Next

LEMMA SessClosedInit == Sess!Init => Sess!RevokedSessionsAreClosed
BY DEF Sess!Init, Sess!RevokedSessionsAreClosed, Sess!NoConn

-----------------------------------------------------------------------------
(* Sums *)

LEMMA MediaCardinality == \A S : Media!Cardinality(S) = Cardinality(S)
BY DEF Media!Cardinality, Cardinality, Media!IsFiniteSet, IsFiniteSet

Units(f) == UNION {{i} \X (1..f[i]) : i \in DOMAIN f}

LEMMA UnitsOf ==
    ASSUME NEW f, NEW u
    PROVE  u \in Units(f) <=> \E i \in DOMAIN f : u \in {i} \X (1..f[i])
BY DEF Units

\* A sum over finitely many numbers is a number.
LEMMA TotalType ==
    ASSUME NEW S, IsFiniteSet(S), NEW f \in [S -> Nat]
    PROVE  IsFiniteSet(Units(f)) /\ Media!Total(f) = Cardinality(Units(f)) /\ Media!Total(f) \in Nat
<1> DEFINE parts == {{i} \X (1..f[i]) : i \in S}
           g == [i \in S |-> {i} \X (1..f[i])]
<1>1. g \in Surjection(S, parts)
  BY DEF Surjection
<1>2. IsFiniteSet(parts)
  BY <1>1, FS_Surjection
<1>3. ASSUME NEW T \in parts
      PROVE  IsFiniteSet(T)
  <2>1. PICK i \in S : T = {i} \X (1..f[i])
    OBVIOUS
  <2>2. IsFiniteSet({i}) /\ IsFiniteSet(1..f[i])
    <3>1. \A x : IsFiniteSet({x})
      BY FS_Singleton
    <3>2. f[i] \in Int /\ 1 \in Int
      OBVIOUS
    <3>3. IsFiniteSet(1..f[i])
      BY <3>2, FS_Interval
    <3>4. QED
      BY <3>1, <3>3
  <2>3. QED
    BY <2>1, <2>2, FS_Product
<1>4. Units(f) = UNION parts
  BY DEF Units
<1> HIDE DEF parts
<1>5. IsFiniteSet(Units(f))
  BY <1>2, <1>3, <1>4, FS_UNION
<1>6. Media!Total(f) = Cardinality(Units(f))
  BY MediaCardinality DEF Media!Total, Units
<1>7. QED
  BY <1>5, <1>6, FS_CardinalityType

\* The sum over two disjoint sets.
LEMMA TotalSplit ==
    ASSUME NEW A, NEW B, IsFiniteSet(A), IsFiniteSet(B), A \cap B = {},
           NEW f \in [A \cup B -> Nat]
    PROVE  Media!Total(f) = Media!Total([i \in A |-> f[i]]) + Media!Total([i \in B |-> f[i]])
<1> DEFINE a == [i \in A |-> f[i]]
           b == [i \in B |-> f[i]]
<1>1. a \in [A -> Nat] /\ b \in [B -> Nat] /\ IsFiniteSet(A \cup B)
  BY FS_Union
<1>2. /\ IsFiniteSet(Units(f)) /\ Media!Total(f) = Cardinality(Units(f))
      /\ IsFiniteSet(Units(a)) /\ Media!Total(a) = Cardinality(Units(a)) /\ Media!Total(a) \in Nat
      /\ IsFiniteSet(Units(b)) /\ Media!Total(b) = Cardinality(Units(b)) /\ Media!Total(b) \in Nat
  BY <1>1, TotalType
<1>3. Units(f) = Units(a) \cup Units(b)
  BY UnitsOf
<1>4. Units(a) \cap Units(b) = {}
  BY UnitsOf
<1>5. Cardinality(Units(a) \cup Units(b)) = Cardinality(Units(a)) + Cardinality(Units(b)) - Cardinality({})
  BY <1>2, <1>4, FS_Union
<1>6. Cardinality({}) = 0
  BY FS_EmptySet
<1> HIDE DEF a, b
<1>7. QED
  BY <1>2, <1>3, <1>5, <1>6 DEF a, b

\* The sum over nothing, and over one.
LEMMA TotalSmall ==
    /\ \A f : DOMAIN f = {} => Media!Total(f) = 0
    /\ \A i : \A n \in Nat : Media!Total([j \in {i} |-> n]) = n
<1>1. ASSUME NEW f, DOMAIN f = {}
      PROVE  Media!Total(f) = 0
  <2>1. Units(f) = {}
    BY <1>1, UnitsOf
  <2>2. Media!Total(f) = Cardinality({})
    BY <2>1, MediaCardinality DEF Media!Total, Units
  <2>3. QED
    BY <2>2, FS_EmptySet
<1>2. ASSUME NEW i, NEW n \in Nat
      PROVE  Media!Total([j \in {i} |-> n]) = n
  <2>1. Units([j \in {i} |-> n]) = {i} \X (1..n)
    BY DEF Units
  <2>2. Media!Total([j \in {i} |-> n]) = Cardinality({i} \X (1..n))
    BY <2>1, MediaCardinality DEF Media!Total, Units
  <2>3. IsFiniteSet({i}) /\ Cardinality({i}) = 1 /\ IsFiniteSet(1..n) /\ Cardinality(1..n) = n
    <3>1. \A x : IsFiniteSet({x}) /\ Cardinality({x}) = 1
      BY FS_Singleton
    <3>2. n \in Int /\ 1 \in Int
      OBVIOUS
    <3>3. IsFiniteSet(1..n) /\ Cardinality(1..n) = IF 1 > n THEN 0 ELSE n - 1 + 1
      BY <3>2, FS_Interval
    <3>4. (IF 1 > n THEN 0 ELSE n - 1 + 1) = n
      OBVIOUS
    <3>5. QED
      BY <3>1, <3>3, <3>4
  <2>4. Cardinality({i} \X (1..n)) = 1 * n
    BY <2>3, FS_Product
  <2>5. QED
    BY <2>2, <2>4
<1>3. QED
  BY <1>1, <1>2

\* One of the numbers of a sum.
LEMMA TotalPoint ==
    ASSUME NEW S, IsFiniteSet(S), NEW i \in S, NEW f \in [S -> Nat]
    PROVE  /\ Media!Total(f) = Media!Total([j \in S \ {i} |-> f[j]]) + f[i]
           /\ Media!Total([j \in S \ {i} |-> f[j]]) \in Nat
<1> DEFINE A == S \ {i}
           one == [j \in {i} |-> f[j]]
<1>1. IsFiniteSet(A) /\ IsFiniteSet({i})
  BY FS_Singleton, FS_RemoveElement
<1>2. A \cap {i} = {} /\ A \cup {i} = S
  OBVIOUS
<1>3. Media!Total(f) = Media!Total([j \in A |-> f[j]]) + Media!Total(one)
  BY <1>1, <1>2, TotalSplit
<1>4. one = [j \in {i} |-> f[i]]
  OBVIOUS
<1>5. Media!Total(one) = f[i]
  BY <1>4, TotalSmall
<1>6. [j \in A |-> f[j]] \in [A -> Nat]
  OBVIOUS
<1>7. Media!Total([j \in A |-> f[j]]) \in Nat
  BY <1>1, <1>6, TotalType
<1>8. QED
  BY <1>3, <1>5, <1>7

-----------------------------------------------------------------------------
(* The index, by the sizes it has *)

Sizes == [Media!Files -> Nat \cup {None}]
Had(sizes) == {f \in Media!Files : sizes[f] # None}
Evicted(sizes, victims) == [f \in Media!Files |-> IF f \in victims THEN None ELSE sizes[f]]

LEMMA FilesFinite == IsFiniteSet(Media!Files)
<1>1. \A x : IsFiniteSet({x})
  BY FS_Singleton
<1>2. IsFiniteSet({"media", "part"})
  <2>1. IsFiniteSet({"media"} \cup {"part"})
    BY <1>1, FS_AddElement
  <2>2. {"media"} \cup {"part"} = {"media", "part"}
    OBVIOUS
  <2>3. QED
    BY <2>1, <2>2
<1>3. QED
  BY <1>2, ServicesAssumption, FS_Product DEF Media!Files

LEMMA BytesType ==
    ASSUME NEW sizes \in Sizes
    PROVE  /\ IsFiniteSet(Had(sizes))
           /\ [f \in Had(sizes) |-> sizes[f]] \in [Had(sizes) -> Nat]
           /\ Media!BytesOf(sizes) = Media!Total([f \in Had(sizes) |-> sizes[f]])
           /\ Media!BytesOf(sizes) \in Nat
<1>1. Had(sizes) \in SUBSET Media!Files
  BY DEF Had
<1>2. IsFiniteSet(Had(sizes))
  BY <1>1, FilesFinite, FS_Subset
<1>3. [f \in Had(sizes) |-> sizes[f]] \in [Had(sizes) -> Nat]
  BY DEF Had, Sizes
<1>4. Media!BytesOf(sizes) = Media!Total([f \in Had(sizes) |-> sizes[f]])
  BY DEF Had, Media!BytesOf
<1>5. QED
  BY <1>2, <1>3, <1>4, TotalType

\* Files that leave the index take their bytes along.
LEMMA BytesEvicted ==
    ASSUME NEW sizes \in Sizes, NEW victims \in SUBSET Had(sizes)
    PROVE  /\ Evicted(sizes, victims) \in Sizes
           /\ Media!BytesOf(sizes) = Media!BytesOf(Evicted(sizes, victims))
                                       + Media!Total([f \in victims |-> sizes[f]])
           /\ Media!Total([f \in victims |-> sizes[f]]) \in Nat
<1> DEFINE rest == Evicted(sizes, victims)
           D == Had(sizes)
           g == [f \in D |-> sizes[f]]
<1>1. rest \in Sizes
  BY DEF Sizes, Evicted
<1>2. Had(rest) = D \ victims
  BY DEF Had, Evicted
<1>3. IsFiniteSet(D) /\ g \in [D -> Nat] /\ Media!BytesOf(sizes) = Media!Total(g)
  BY BytesType
<1>4. IsFiniteSet(victims) /\ IsFiniteSet(D \ victims)
  BY <1>3, FS_Subset, FS_Difference
<1>5. victims \cap (D \ victims) = {} /\ victims \cup (D \ victims) = D
  OBVIOUS
<1>6. Media!Total(g) = Media!Total([f \in victims |-> g[f]]) + Media!Total([f \in D \ victims |-> g[f]])
  <2>1. g \in [victims \cup (D \ victims) -> Nat]
    BY <1>3, <1>5
  <2> HIDE DEF g, D
  <2>2. QED
    BY <1>4, <1>5, <2>1, TotalSplit
<1>7. [f \in victims |-> g[f]] = [f \in victims |-> sizes[f]]
  OBVIOUS
<1>8. [f \in D \ victims |-> g[f]] = [f \in Had(rest) |-> rest[f]]
  BY <1>2 DEF Evicted, Had
<1>9. /\ Media!BytesOf(rest) = Media!Total([f \in Had(rest) |-> rest[f]])
      /\ Media!BytesOf(rest) \in Nat
  BY <1>1, BytesType
<1>10. [f \in victims |-> sizes[f]] \in [victims -> Nat]
  BY DEF Had, Sizes
<1>11. Media!Total([f \in victims |-> sizes[f]]) \in Nat
  BY <1>4, <1>10, TotalType
<1>12. QED
  BY <1>1, <1>3, <1>6, <1>7, <1>8, <1>9, <1>11

\* A file that enters the index, or is replaced in it.
LEMMA BytesSet ==
    ASSUME NEW sizes \in Sizes, NEW p \in Media!Files, NEW n \in Nat
    PROVE  /\ [sizes EXCEPT ![p] = n] \in Sizes
           /\ Media!BytesOf([sizes EXCEPT ![p] = n])
                = Media!BytesOf(sizes) + n - (IF sizes[p] = None THEN 0 ELSE sizes[p])
           /\ (IF sizes[p] = None THEN 0 ELSE sizes[p]) <= Media!BytesOf(sizes)
<1> DEFINE new == [sizes EXCEPT ![p] = n]
           D == Had(sizes)
           g == [f \in D |-> sizes[f]]
           h == [f \in Had(new) |-> new[f]]
           rest == [f \in D \ {p} |-> g[f]]
<1>1. new \in Sizes
  BY DEF Sizes
<1>2. Had(new) = D \cup {p} /\ p \in Had(new) /\ Had(new) \ {p} = D \ {p}
  BY ServicesAssumption DEF Had, Sizes
<1>3. /\ IsFiniteSet(D) /\ g \in [D -> Nat] /\ Media!BytesOf(sizes) = Media!Total(g)
      /\ Media!BytesOf(sizes) \in Nat
  BY BytesType
<1>4. IsFiniteSet(Had(new)) /\ h \in [Had(new) -> Nat] /\ Media!BytesOf(new) = Media!Total(h)
  BY <1>1, BytesType
<1>5. Media!Total(h) = Media!Total([f \in Had(new) \ {p} |-> h[f]]) + h[p]
      /\ Media!Total([f \in Had(new) \ {p} |-> h[f]]) \in Nat
  <2> HIDE DEF h, new
  <2>1. QED
    BY <1>2, <1>4, TotalPoint
<1>6. h[p] = n /\ [f \in Had(new) \ {p} |-> h[f]] = rest
  <2>1. new[p] = n /\ \A f \in Media!Files : f # p => new[f] = sizes[f]
    BY DEF Sizes
  <2>2. \A f \in D : f \in Media!Files
    BY DEF Had
  <2>3. h[p] = n
    BY <1>2, <2>1
  <2>4. \A f \in D \ {p} : f \in Had(new) /\ h[f] = g[f]
    BY <1>2, <2>1, <2>2
  <2> HIDE DEF h, g, D, new
  <2>5. QED
    BY <1>2, <2>3, <2>4
<1>7. CASE sizes[p] = None
  <2>1. rest = g
    BY <1>7 DEF Had
  <2> DEFINE total == Media!BytesOf(sizes)
  <2>2. Media!BytesOf(new) = total + n
    BY <1>3, <1>4, <1>5, <1>6, <2>1
  <2>3. total \in Nat
    BY <1>3
  <2> HIDE DEF total
  <2>4. total + n = total + n - 0 /\ 0 <= total
    BY <2>3
  <2>5. QED
    BY <1>1, <1>7, <2>2, <2>3, <2>4 DEF total
<1>8. CASE sizes[p] # None
  <2>1. p \in D /\ g[p] = sizes[p] /\ g[p] \in Nat
    BY <1>3, <1>8 DEF Had
  <2>2. Media!Total(g) = Media!Total(rest) + g[p]
    BY <1>3, <2>1, TotalPoint
  <2> DEFINE total == Media!BytesOf(sizes)
             left == Media!Total(rest)
  <2>3. total = left + sizes[p] /\ Media!BytesOf(new) = left + n /\ left \in Nat /\ sizes[p] \in Nat
    BY <1>3, <1>4, <1>5, <1>6, <2>1, <2>2
  <2> HIDE DEF total, left
  <2>4. Media!BytesOf(new) = total + n - sizes[p] /\ sizes[p] <= total
    BY <2>3
  <2>5. QED
    BY <1>1, <1>8, <2>4 DEF total
<1>9. QED
  BY <1>7, <1>8

-----------------------------------------------------------------------------
(* The accounts, as a relation between the files, the index and its totals, *)
(* and the workers                                                          *)

WritingIn(wk) == {w \in Workers : wk[w].phase \in {"body", "refused"}}

\* The part of worker v that one of another key, or none, leaves alone.
Covers(fl, en, us, rs, wk) ==
    /\ fl \in Sizes /\ en \in Sizes
    /\ \A w \in WritingIn(wk) :
        /\ wk[w].key \in MediaKeys /\ wk[w].bytes \in Nat
        /\ en[Media!Part(wk[w].key)] = None
        /\ fl[Media!Part(wk[w].key)] \in 0..wk[w].bytes
    /\ \A v, w \in WritingIn(wk) : v # w => wk[v].key # wk[w].key
    /\ \A f \in Media!Files : (\A w \in WritingIn(wk) : f # Media!Part(wk[w].key)) => fl[f] = en[f]
    /\ us = Media!BytesOf(en)
    /\ rs = Media!Total([w \in WritingIn(wk) |-> wk[w].bytes])
    /\ us + rs <= MaxBytes

LEMMA FileNames ==
    ASSUME NEW k \in MediaKeys
    PROVE  /\ Media!Part(k) \in Media!Files /\ Media!Media(k) \in Media!Files
           /\ \A j : Media!Part(j) # Media!Media(k) /\ (Media!Part(j) = Media!Part(k) <=> j = k)
BY DEF Media!Part, Media!Media, Media!Files

LEMMA CoversTypes ==
    ASSUME NEW fl, NEW en, NEW us, NEW rs, NEW wk, Covers(fl, en, us, rs, wk)
    PROVE  /\ us \in Nat /\ rs \in Nat
           /\ IsFiniteSet(WritingIn(wk))
           /\ [w \in WritingIn(wk) |-> wk[w].bytes] \in [WritingIn(wk) -> Nat]
<1>1. us \in Nat
  BY BytesType DEF Covers
<1>2. WritingIn(wk) \in SUBSET Workers
  BY DEF WritingIn
<1>3. IsFiniteSet(WritingIn(wk))
  BY <1>2, ServicesAssumption, FS_Subset
<1>4. [w \in WritingIn(wk) |-> wk[w].bytes] \in [WritingIn(wk) -> Nat]
  BY DEF Covers
<1>5. Media!Total([w \in WritingIn(wk) |-> wk[w].bytes]) \in Nat
  BY <1>3, <1>4, TotalType
<1>6. QED
  BY <1>1, <1>3, <1>4, <1>5 DEF Covers

\* Eviction of indexed files.
LEMMA CoversEvicted ==
    ASSUME NEW fl, NEW en, NEW us, NEW rs, NEW wk, Covers(fl, en, us, rs, wk),
           NEW victims \in SUBSET Had(en)
    PROVE  /\ Covers(Evicted(fl, victims), Evicted(en, victims),
                     us - Media!Total([f \in victims |-> en[f]]), rs, wk)
           /\ Media!Total([f \in victims |-> en[f]]) \in Nat
           /\ \A w \in WritingIn(wk) : Evicted(fl, victims)[Media!Part(wk[w].key)] = fl[Media!Part(wk[w].key)]
<1> DEFINE fl2 == Evicted(fl, victims)
           en2 == Evicted(en, victims)
           freed == Media!Total([f \in victims |-> en[f]])
<1>1. fl \in Sizes /\ en \in Sizes /\ us = Media!BytesOf(en) /\ us + rs <= MaxBytes
  BY DEF Covers
<1>2. en2 \in Sizes /\ us = Media!BytesOf(en2) + freed /\ freed \in Nat /\ Media!BytesOf(en2) \in Nat
  BY <1>1, BytesEvicted, BytesType
<1>3. us \in Nat /\ rs \in Nat
  BY CoversTypes
<1>4. us - freed = Media!BytesOf(en2) /\ us - freed + rs <= MaxBytes
  BY <1>1, <1>2, <1>3, ServicesAssumption
<1>5. fl2 \in Sizes
  BY <1>1 DEF Sizes, Evicted
<1>6. ASSUME NEW w \in WritingIn(wk)
      PROVE  /\ en2[Media!Part(wk[w].key)] = None
             /\ fl2[Media!Part(wk[w].key)] = fl[Media!Part(wk[w].key)]
  <2>1. Media!Part(wk[w].key) \in Media!Files /\ en[Media!Part(wk[w].key)] = None
    BY FileNames DEF Covers
  <2>2. Media!Part(wk[w].key) \notin victims
    BY <2>1 DEF Had
  <2>3. QED
    BY <2>1, <2>2 DEF Evicted
<1>7. ASSUME NEW f \in Media!Files, \A w \in WritingIn(wk) : f # Media!Part(wk[w].key)
      PROVE  fl2[f] = en2[f]
  BY <1>7 DEF Covers, Evicted
<1> HIDE DEF fl2, en2, freed
<1>8. Covers(fl2, en2, us - freed, rs, wk)
  BY <1>2, <1>4, <1>5, <1>6, <1>7 DEF Covers
<1>9. QED
  BY <1>2, <1>6, <1>8 DEF fl2, en2, freed

\* A worker steps without writing before or after.
LEMMA CoversAside ==
    ASSUME NEW fl, NEW en, NEW us, NEW rs, NEW wk, Covers(fl, en, us, rs, wk),
           NEW wk2, WritingIn(wk2) = WritingIn(wk),
           \A v \in WritingIn(wk) : wk2[v].key = wk[v].key /\ wk2[v].bytes = wk[v].bytes
    PROVE  Covers(fl, en, us, rs, wk2)
<1>1. [w \in WritingIn(wk2) |-> wk2[w].bytes] = [w \in WritingIn(wk) |-> wk[w].bytes]
  OBVIOUS
<1>2. QED
  BY <1>1 DEF Covers

\* A worker begins a partial file with a reservation.
LEMMA CoversBegun ==
    ASSUME NEW fl, NEW en, NEW us, NEW rs, NEW wk, Covers(fl, en, us, rs, wk),
           NEW w \in Workers, w \notin WritingIn(wk), NEW k \in MediaKeys,
           \A v \in WritingIn(wk) : wk[v].key # k,
           fl[Media!Part(k)] = None,
           NEW need \in Nat, us + rs + need <= MaxBytes,
           NEW wk2, wk2[w].phase = "body", wk2[w].key = k, wk2[w].bytes = need,
           \A v \in Workers : v # w => wk2[v] = wk[v]
    PROVE  Covers([fl EXCEPT ![Media!Part(k)] = 0], en, us, rs + need, wk2)
<1> DEFINE p == Media!Part(k)
           fl2 == [fl EXCEPT ![p] = 0]
           A == WritingIn(wk)
           h == [v \in A \cup {w} |-> wk2[v].bytes]
<1>1. p \in Media!Files
  BY FileNames
<1>2. fl2 \in Sizes /\ fl2[p] = 0 /\ \A f \in Media!Files : f # p => fl2[f] = fl[f]
  BY <1>1 DEF Covers, Sizes
<1>3. WritingIn(wk2) = A \cup {w} /\ w \notin A
  BY DEF WritingIn
<1>4. en[p] = None
  BY <1>1, FileNames DEF Covers
<1>5. us \in Nat /\ rs \in Nat /\ IsFiniteSet(A)
      /\ [v \in A |-> wk[v].bytes] \in [A -> Nat]
  BY CoversTypes
<1>6. \A v \in A : v \in Workers /\ v # w /\ wk2[v] = wk[v] /\ wk[v].bytes \in Nat
  BY <1>3 DEF WritingIn, Covers
<1>7. h \in [A \cup {w} -> Nat] /\ IsFiniteSet(A \cup {w})
  BY <1>5, <1>6, FS_AddElement
<1>8. Media!Total(h) = Media!Total([v \in (A \cup {w}) \ {w} |-> h[v]]) + h[w]
  <2> HIDE DEF h, A
  <2>1. w \in A \cup {w}
    OBVIOUS
  <2>2. QED
    BY <1>7, <2>1, TotalPoint
<1>9. (A \cup {w}) \ {w} = A
  BY <1>3
<1>10. [v \in (A \cup {w}) \ {w} |-> h[v]] = [v \in A |-> wk[v].bytes]
  BY <1>6, <1>9
<1>11. Media!Total([v \in WritingIn(wk2) |-> wk2[v].bytes]) = rs + need
  <2>1. [v \in WritingIn(wk2) |-> wk2[v].bytes] = h
    BY <1>3
  <2>2. h[w] = need
    OBVIOUS
  <2>3. rs = Media!Total([v \in A |-> wk[v].bytes])
    BY DEF Covers
  <2> HIDE DEF h, A
  <2>4. QED
    BY <1>8, <1>10, <2>1, <2>2, <2>3
<1>12. ASSUME NEW v \in WritingIn(wk2)
       PROVE  /\ wk2[v].key \in MediaKeys /\ wk2[v].bytes \in Nat
              /\ en[Media!Part(wk2[v].key)] = None
              /\ fl2[Media!Part(wk2[v].key)] \in 0..wk2[v].bytes
  <2>1. CASE v = w
    BY <2>1, <1>2, <1>4
  <2>2. CASE v # w
    <3>1. v \in A /\ wk2[v] = wk[v] /\ wk[v].key # k /\ wk[v].key \in MediaKeys
      BY <2>2, <1>3, <1>6 DEF Covers
    <3>2. Media!Part(wk[v].key) # p /\ Media!Part(wk[v].key) \in Media!Files
      BY <3>1, FileNames
    <3>3. QED
      BY <3>1, <3>2, <1>2 DEF Covers
  <2>3. QED
    BY <2>1, <2>2
<1>13. \A u, v \in WritingIn(wk2) : u # v => wk2[u].key # wk2[v].key
  BY <1>3, <1>6 DEF Covers
<1>14. ASSUME NEW f \in Media!Files, \A v \in WritingIn(wk2) : f # Media!Part(wk2[v].key)
       PROVE  fl2[f] = en[f]
  <2>1. f # p /\ \A v \in A : f # Media!Part(wk[v].key)
    BY <1>14, <1>3, <1>6
  <2>2. QED
    BY <2>1, <1>2 DEF Covers
<1>15. us + (rs + need) <= MaxBytes
  BY <1>5, ServicesAssumption
<1> HIDE DEF fl2
<1>16. en \in Sizes /\ us = Media!BytesOf(en)
  BY DEF Covers
<1>17. QED
  BY <1>2, <1>11, <1>12, <1>13, <1>14, <1>15, <1>16 DEF Covers, fl2

\* A worker writes within its reservation, which may have grown before.
LEMMA CoversGrown ==
    ASSUME NEW fl, NEW en, NEW us, NEW rs, NEW wk, Covers(fl, en, us, rs, wk),
           NEW w \in WritingIn(wk), NEW extra \in Nat, us + rs + extra <= MaxBytes,
           NEW n \in 0..(wk[w].bytes + extra),
           NEW wk2, wk2[w].phase \in {"body", "refused"}, wk2[w].key = wk[w].key,
           wk2[w].bytes = wk[w].bytes + extra,
           \A v \in Workers : v # w => wk2[v] = wk[v]
    PROVE  Covers([fl EXCEPT ![Media!Part(wk[w].key)] = n], en, us, rs + extra, wk2)
<1> DEFINE p == Media!Part(wk[w].key)
           fl2 == [fl EXCEPT ![p] = n]
           A == WritingIn(wk)
           g == [v \in A |-> wk[v].bytes]
           h == [v \in A |-> wk2[v].bytes]
<1>1. p \in Media!Files /\ wk[w].bytes \in Nat /\ wk[w].key \in MediaKeys /\ en[p] = None
  BY FileNames DEF Covers
<1>2. fl2 \in Sizes /\ fl2[p] = n /\ \A f \in Media!Files : f # p => fl2[f] = fl[f]
  BY <1>1 DEF Covers, Sizes
<1>3. WritingIn(wk2) = A
  BY DEF WritingIn
<1>4. us \in Nat /\ rs \in Nat /\ IsFiniteSet(A) /\ g \in [A -> Nat]
  BY CoversTypes
<1>5. \A v \in A : v # w => wk2[v] = wk[v]
  BY DEF WritingIn
<1>6. h \in [A -> Nat]
  BY <1>1, <1>4, <1>5
<1>7. [v \in A \ {w} |-> h[v]] = [v \in A \ {w} |-> g[v]] /\ h[w] = g[w] + extra /\ g[w] \in Nat
  BY <1>1, <1>5
<1>8. rs = Media!Total(g)
  BY DEF Covers
<1>9. Media!Total(h) = rs + extra
  <2> HIDE DEF g, h, A
  <2>1. w \in A
    BY DEF A
  <2> DEFINE rest(f) == Media!Total([v \in A \ {w} |-> f[v]])
  <2>5. \A f \in [A -> Nat] : Media!Total(f) = rest(f) + f[w] /\ rest(f) \in Nat
    BY <1>4, <2>1, TotalPoint
  <2> HIDE DEF rest
  <2>6. Media!Total(g) = rest(g) + g[w] /\ rest(g) \in Nat
    BY <1>4, <2>5
  <2>7. Media!Total(h) = rest(h) + h[w]
    BY <1>6, <2>5
  <2>2. /\ Media!Total(g) = Media!Total([v \in A \ {w} |-> g[v]]) + g[w]
        /\ Media!Total([v \in A \ {w} |-> g[v]]) \in Nat
    BY <2>6 DEF rest
  <2>3. Media!Total(h) = Media!Total([v \in A \ {w} |-> h[v]]) + h[w]
    BY <2>7 DEF rest
  <2>4. QED
    BY <1>7, <1>8, <2>2, <2>3
<1>10. ASSUME NEW v \in A
       PROVE  /\ wk2[v].key \in MediaKeys /\ wk2[v].bytes \in Nat
              /\ en[Media!Part(wk2[v].key)] = None
              /\ fl2[Media!Part(wk2[v].key)] \in 0..wk2[v].bytes
  <2>1. CASE v = w
    BY <2>1, <1>1, <1>2
  <2>2. CASE v # w
    <3>1. wk2[v] = wk[v] /\ wk[v].key # wk[w].key /\ wk[v].key \in MediaKeys
      BY <2>2, <1>5 DEF Covers
    <3>2. Media!Part(wk[v].key) # p /\ Media!Part(wk[v].key) \in Media!Files
      BY <1>1, <3>1, FileNames
    <3>3. QED
      BY <3>1, <3>2, <1>2 DEF Covers
  <2>3. QED
    BY <2>1, <2>2
<1>11. \A v \in A : wk2[v].key = wk[v].key
  BY <1>5
<1>12. \A u, v \in A : u # v => wk2[u].key # wk2[v].key
  BY <1>11 DEF Covers
<1>13. ASSUME NEW f \in Media!Files, \A v \in A : f # Media!Part(wk2[v].key)
       PROVE  fl2[f] = en[f]
  <2>1. f # p /\ \A v \in A : f # Media!Part(wk[v].key)
    BY <1>11, <1>13
  <2>2. QED
    BY <2>1, <1>2 DEF Covers
<1>14. us + (rs + extra) <= MaxBytes
  BY <1>4, ServicesAssumption
<1>15. en \in Sizes /\ us = Media!BytesOf(en)
  BY DEF Covers
<1> HIDE DEF fl2
<1>16. QED
  BY <1>2, <1>3, <1>9, <1>10, <1>12, <1>13, <1>14, <1>15 DEF Covers, fl2

\* A worker stops writing: its files are as the index has them, and its
\* reservation, which covers what it left, is given back.
LEMMA CoversLeft ==
    ASSUME NEW fl, NEW en, NEW us, NEW rs, NEW wk, Covers(fl, en, us, rs, wk),
           NEW w \in WritingIn(wk),
           NEW fl2 \in Sizes, NEW en2 \in Sizes,
           fl2[Media!Part(wk[w].key)] = en2[Media!Part(wk[w].key)],
           fl2[Media!Media(wk[w].key)] = en2[Media!Media(wk[w].key)],
           \A f \in Media!Files \ {Media!Part(wk[w].key), Media!Media(wk[w].key)} :
               fl2[f] = fl[f] /\ en2[f] = en[f],
           NEW us2, us2 = Media!BytesOf(en2), us2 <= us + wk[w].bytes,
           NEW wk2, wk2[w].phase \notin {"body", "refused"},
           \A v \in Workers : v # w => wk2[v] = wk[v]
    PROVE  Covers(fl2, en2, us2, rs - wk[w].bytes, wk2)
<1> DEFINE p == Media!Part(wk[w].key)
           m == Media!Media(wk[w].key)
           A == WritingIn(wk)
           g == [v \in A |-> wk[v].bytes]
<1>1. wk[w].bytes \in Nat /\ wk[w].key \in MediaKeys
  BY DEF Covers
<1>2. WritingIn(wk2) = A \ {w}
  BY DEF WritingIn
<1>3. us \in Nat /\ rs \in Nat /\ IsFiniteSet(A) /\ g \in [A -> Nat]
  BY CoversTypes
<1>4. \A v \in A \ {w} : wk2[v] = wk[v]
  BY DEF WritingIn
<1>5. [v \in A \ {w} |-> wk2[v].bytes] = [v \in A \ {w} |-> g[v]]
  BY <1>4
<1>6. rs = Media!Total([v \in A \ {w} |-> g[v]]) + g[w]
      /\ Media!Total([v \in A \ {w} |-> g[v]]) \in Nat
  <2>1. rs = Media!Total(g)
    BY DEF Covers
  <2> HIDE DEF g
  <2>2. QED
    BY <1>3, <2>1, TotalPoint
<1>7. rs - wk[w].bytes = Media!Total([v \in WritingIn(wk2) |-> wk2[v].bytes])
  <2> DEFINE rest == Media!Total([v \in A \ {w} |-> g[v]])
  <2>1. rs = rest + wk[w].bytes /\ rest \in Nat
    BY <1>6
  <2> HIDE DEF rest
  <2>2. rs - wk[w].bytes = rest
    BY <1>1, <2>1
  <2>3. QED
    BY <1>2, <1>5, <2>2 DEF rest
<1>8. us2 \in Nat
  BY BytesType
<1>9. us2 + (rs - wk[w].bytes) <= MaxBytes
  BY <1>1, <1>3, <1>8, ServicesAssumption DEF Covers
<1>10. ASSUME NEW v \in A \ {w}
       PROVE  /\ wk2[v].key \in MediaKeys /\ wk2[v].bytes \in Nat
              /\ en2[Media!Part(wk2[v].key)] = None
              /\ fl2[Media!Part(wk2[v].key)] \in 0..wk2[v].bytes
  <2>1. /\ wk2[v] = wk[v] /\ wk[v].key # wk[w].key /\ wk[v].key \in MediaKeys /\ wk[v].bytes \in Nat
        /\ en[Media!Part(wk[v].key)] = None /\ fl[Media!Part(wk[v].key)] \in 0..wk[v].bytes
    BY <1>4 DEF Covers
  <2>2. Media!Part(wk[v].key) \in Media!Files \ {p, m}
    BY <1>1, <2>1, FileNames
  <2>3. QED
    BY <2>1, <2>2
<1>11. \A u, v \in A \ {w} : u # v => wk2[u].key # wk2[v].key
  BY <1>4 DEF Covers
<1>12. ASSUME NEW f \in Media!Files, \A v \in A \ {w} : f # Media!Part(wk2[v].key)
       PROVE  fl2[f] = en2[f]
  <2>1. CASE f \in {p, m}
    BY <2>1
  <2>2. CASE f \notin {p, m}
    <3>1. \A v \in A : f # Media!Part(wk[v].key)
      BY <1>4, <1>12, <2>2
    <3>2. fl[f] = en[f]
      BY <3>1 DEF Covers
    <3>3. QED
      BY <2>2, <3>2
  <2>3. QED
    BY <2>1, <2>2
<1>13. QED
  BY <1>2, <1>7, <1>9, <1>10, <1>11, <1>12 DEF Covers

\* The partial file is removed.
LEMMA CoversRemoved ==
    ASSUME NEW fl, NEW en, NEW us, NEW rs, NEW wk, Covers(fl, en, us, rs, wk),
           NEW w \in WritingIn(wk),
           NEW wk2, wk2[w].phase \notin {"body", "refused"},
           \A v \in Workers : v # w => wk2[v] = wk[v]
    PROVE  Covers([fl EXCEPT ![Media!Part(wk[w].key)] = None], en, us, rs - wk[w].bytes, wk2)
<1> DEFINE p == Media!Part(wk[w].key)
           m == Media!Media(wk[w].key)
           fl2 == [fl EXCEPT ![p] = None]
<1>1. /\ fl \in Sizes /\ en \in Sizes /\ wk[w].key \in MediaKeys /\ wk[w].bytes \in Nat
      /\ en[p] = None /\ us = Media!BytesOf(en)
  BY DEF Covers
<1>2. p \in Media!Files /\ m \in Media!Files /\ \A v \in WritingIn(wk) : m # Media!Part(wk[v].key)
  BY <1>1, FileNames
<1>3. fl2 \in Sizes /\ fl2[p] = None /\ \A f \in Media!Files \ {p} : fl2[f] = fl[f]
  BY <1>1, <1>2 DEF Sizes
<1>4. p # m
  BY <1>1, FileNames
<1>5. fl2[m] = en[m]
  BY <1>2, <1>3, <1>4 DEF Covers
<1>6. us <= us + wk[w].bytes
  BY <1>1, CoversTypes
<1> HIDE DEF fl2
<1>7. Covers(fl2, en, us, rs - wk[w].bytes, wk2)
  BY <1>1, <1>3, <1>5, <1>6, CoversLeft
<1>8. QED
  BY <1>7 DEF fl2

\* It cannot be removed: the index takes it up.
LEMMA CoversStuck ==
    ASSUME NEW fl, NEW en, NEW us, NEW rs, NEW wk, Covers(fl, en, us, rs, wk),
           NEW w \in WritingIn(wk),
           NEW wk2, wk2[w].phase \notin {"body", "refused"},
           \A v \in Workers : v # w => wk2[v] = wk[v]
    PROVE  Covers(fl, [en EXCEPT ![Media!Part(wk[w].key)] = fl[Media!Part(wk[w].key)]],
                  us + fl[Media!Part(wk[w].key)], rs - wk[w].bytes, wk2)
<1> DEFINE p == Media!Part(wk[w].key)
           m == Media!Media(wk[w].key)
           n == fl[p]
           en2 == [en EXCEPT ![p] = n]
<1>1. /\ fl \in Sizes /\ en \in Sizes /\ wk[w].key \in MediaKeys /\ wk[w].bytes \in Nat
      /\ en[p] = None /\ us = Media!BytesOf(en) /\ n \in 0..wk[w].bytes /\ n \in Nat
  BY DEF Covers
<1>2. /\ p \in Media!Files /\ m \in Media!Files /\ p # m
      /\ \A v \in WritingIn(wk) : m # Media!Part(wk[v].key)
  BY <1>1, FileNames
<1>3. en2[p] = n /\ \A f \in Media!Files \ {p} : en2[f] = en[f]
  BY <1>1, <1>2 DEF Sizes
<1>4. us \in Nat
  BY CoversTypes
<1>5. en2 \in Sizes /\ Media!BytesOf(en2) = us + n - 0
  BY <1>1, <1>2, BytesSet
<1>6. us + n = Media!BytesOf(en2) /\ us + n <= us + wk[w].bytes
  BY <1>1, <1>4, <1>5
<1>7. fl[m] = en2[m]
  <2>1. fl[m] = en[m]
    BY <1>2 DEF Covers
  <2>2. QED
    BY <1>2, <1>3, <2>1
<1> HIDE DEF en2
<1>8. Covers(fl, en2, us + n, rs - wk[w].bytes, wk2)
  BY <1>1, <1>3, <1>5, <1>6, <1>7, CoversLeft
<1>9. QED
  BY <1>8 DEF en2

\* It becomes the file of its key, in place of what the index had there.
LEMMA CoversCommitted ==
    ASSUME NEW fl, NEW en, NEW us, NEW rs, NEW wk, Covers(fl, en, us, rs, wk),
           NEW w \in WritingIn(wk),
           NEW wk2, wk2[w].phase \notin {"body", "refused"},
           \A v \in Workers : v # w => wk2[v] = wk[v],
           NEW k, k = wk[w].key, NEW n, n = fl[Media!Part(k)]
    PROVE  Covers([fl EXCEPT ![Media!Part(k)] = None, ![Media!Media(k)] = n],
                  [en EXCEPT ![Media!Media(k)] = n],
                  us + n - (IF en[Media!Media(k)] = None THEN 0 ELSE en[Media!Media(k)]),
                  rs - wk[w].bytes, wk2)
<1> DEFINE p == Media!Part(k)
           m == Media!Media(k)
           fl2 == [fl EXCEPT ![p] = None, ![m] = n]
           en2 == [en EXCEPT ![m] = n]
           old == IF en[m] = None THEN 0 ELSE en[m]
<1>1. /\ fl \in Sizes /\ en \in Sizes /\ k \in MediaKeys /\ wk[w].bytes \in Nat
      /\ en[p] = None /\ us = Media!BytesOf(en) /\ n \in 0..wk[w].bytes /\ n \in Nat
  BY DEF Covers
<1>2. p \in Media!Files /\ m \in Media!Files /\ p # m
  BY <1>1, FileNames
<1>3. /\ fl2[p] = None /\ fl2[m] = n /\ en2[m] = n /\ en2[p] = None
      /\ \A f \in Media!Files \ {p, m} : fl2[f] = fl[f] /\ en2[f] = en[f]
  BY <1>1, <1>2 DEF Sizes
<1>4. us \in Nat
  BY CoversTypes
<1>5. en2 \in Sizes /\ Media!BytesOf(en2) = us + n - old /\ old <= us
  BY <1>1, <1>2, BytesSet
<1>6. fl2 \in Sizes
  BY <1>1, <1>2 DEF Sizes
<1>7. old \in Nat
  BY <1>1, <1>2 DEF Sizes
<1>8. us + n - old <= us + wk[w].bytes
  <2> HIDE DEF old
  <2>1. QED
    BY <1>1, <1>4, <1>7
<1> HIDE DEF en2, fl2, old
<1>9. Covers(fl2, en2, us + n - old, rs - wk[w].bytes, wk2)
  BY <1>3, <1>5, <1>6, <1>8, CoversLeft
<1>10. QED
  BY <1>9 DEF en2, fl2, old

-----------------------------------------------------------------------------
(* The invariant of the media cache *)

AdmissionStates == [phase : {"admission", "end"}, key : MediaKeys]
RequestStates == [phase : {"request"}, key : MediaKeys, tries : Nat]
BodyStates == [phase : {"body", "refused"}, key : MediaKeys, tries : Nat,
               bytes : Nat, length : Nat \cup {None}]
WorkerStates == {Media!Free} \cup AdmissionStates \cup RequestStates \cup BodyStates

MediaTypes ==
    /\ worker \in [Workers -> WorkerStates]
    /\ jobs \in Seq(MediaKeys) /\ inflight \subseteq MediaKeys
    /\ reading \in [Readers -> MediaKeys \cup {None}]
    /\ older \subseteq Media!Files \X Media!Files

\* A key is in flight for one job: queued once, or at one worker.
OneJob(js, going, wk) ==
    /\ \A i \in 1..Len(js) : js[i] \in going
    /\ \A i, j \in 1..Len(js) : i # j => js[i] # js[j]
    /\ \A w \in Workers : wk[w] # Media!Free =>
        /\ wk[w].key \in going
        /\ \A i \in 1..Len(js) : js[i] # wk[w].key
        /\ \A v \in Workers : v # w /\ wk[v] # Media!Free => wk[v].key # wk[w].key

DiskAccounted == Covers(file, entry, used, reserved, worker)

Readable(fl, rd) == \A x \in Readers : rd[x] # None => fl[Media!Media(rd[x])] # None

MediaInv ==
    /\ MediaTypes
    /\ OneJob(jobs, inflight, worker)
    /\ DiskAccounted
    /\ Readable(file, reading)

LEMMA WorkerPhases ==
    ASSUME NEW s \in WorkerStates
    PROVE  /\ s.phase \in {"free", "admission", "end", "request", "body", "refused"}
           /\ s.phase = "free" <=> s = Media!Free
           /\ s # Media!Free => s.key \in MediaKeys
           /\ s.phase \in {"admission", "end"} => s \in AdmissionStates
           /\ s.phase = "request" => s \in RequestStates
           /\ s.phase \in {"body", "refused"} => s \in BodyStates
BY DEF WorkerStates, AdmissionStates, RequestStates, BodyStates, Media!Free

LEMMA MediaInit ==
    ASSUME Media!Init
    PROVE  MediaInv
<1>1. /\ file = [f \in Media!Files |-> None] /\ entry = file /\ older = {} /\ used = 0 /\ reserved = 0
      /\ jobs = <<>> /\ inflight = {}
      /\ worker = [w \in Workers |-> Media!Free] /\ reading = [x \in Readers |-> None]
  BY DEF Media!Init
<1>2. MediaTypes
  BY <1>1 DEF MediaTypes, WorkerStates
<1>3. OneJob(jobs, inflight, worker)
  BY <1>1 DEF OneJob
<1>4. Readable(file, reading)
  BY <1>1 DEF Readable
<1>5. WritingIn(worker) = {}
  BY <1>1 DEF WritingIn, Media!Free
<1>6. file \in Sizes /\ entry \in Sizes /\ Had(entry) = {}
  BY <1>1 DEF Sizes, Had
<1>7. Media!BytesOf(entry) = 0
  <2>1. Media!BytesOf(entry) = Media!Total([f \in Had(entry) |-> entry[f]])
    BY <1>6, BytesType
  <2>2. DOMAIN [f \in Had(entry) |-> entry[f]] = {}
    BY <1>6
  <2>3. QED
    BY <2>1, <2>2, TotalSmall
<1>8. Media!Total([w \in WritingIn(worker) |-> worker[w].bytes]) = 0
  <2>1. DOMAIN [w \in WritingIn(worker) |-> worker[w].bytes] = {}
    BY <1>5
  <2>2. QED
    BY <2>1, TotalSmall
<1>9. DiskAccounted
  BY <1>1, <1>5, <1>6, <1>7, <1>8, ServicesAssumption DEF DiskAccounted, Covers
<1>10. QED
  BY <1>2, <1>3, <1>4, <1>9 DEF MediaInv

\* What a worker with a job does to the jobs, when it keeps its key.
LEMMA JobKept ==
    ASSUME NEW js, NEW going, NEW wk, OneJob(js, going, wk),
           NEW w \in Workers, wk[w] # Media!Free,
           NEW wk2, wk2[w].key = wk[w].key, \A v \in Workers : v # w => wk2[v] = wk[v]
    PROVE  OneJob(js, going, wk2)
BY DEF OneJob

\* Eviction spares what is pinned.
LEMMA VictimsSpare ==
    ASSUME MediaInv, NEW stuck, NEW need
    PROVE  /\ Media!Victims(stuck, need) \in SUBSET Had(entry)
           /\ Readable(Evicted(file, Media!Victims(stuck, need)), reading)
           /\ \A v : Media!Without(v) \subseteq Media!Files \X Media!Files
<1>1. Media!Victims(stuck, need) \subseteq Had(entry) \ Media!Pinned
  BY DEF Media!Victims, Media!Oldest, Media!Indexed, Had
<1>2. ASSUME NEW x \in Readers, reading[x] # None
      PROVE  Evicted(file, Media!Victims(stuck, need))[Media!Media(reading[x])] # None
  <2>1. reading[x] \in MediaKeys /\ file[Media!Media(reading[x])] # None
    BY <1>2 DEF MediaInv, MediaTypes, Readable
  <2>2. Media!Media(reading[x]) \in Media!Pinned /\ Media!Media(reading[x]) \in Media!Files
    BY <1>2, <2>1, FileNames DEF Media!Pinned
  <2>3. QED
    BY <1>1, <2>1, <2>2 DEF Evicted
<1>3. \A v : Media!Without(v) \subseteq Media!Files \X Media!Files
  BY DEF MediaInv, MediaTypes, Media!Without
<1>4. QED
  BY <1>1, <1>2, <1>3 DEF Readable

LEMMA TouchedType ==
    ASSUME MediaInv, NEW f \in Media!Files
    PROVE  Media!Touched(f) \subseteq Media!Files \X Media!Files
BY DEF MediaInv, MediaTypes, Media!Touched, Media!Without, Media!Indexed

-----------------------------------------------------------------------------
(* Each action keeps it *)

\* The worker w of MediaInv, by its phase.
LEMMA WorkerTypes ==
    ASSUME MediaInv, NEW w \in Workers
    PROVE  /\ worker[w] \in WorkerStates
           /\ worker[w].phase = "free" <=> worker[w] = Media!Free
           /\ worker[w] # Media!Free => worker[w].key \in MediaKeys
           /\ worker[w].phase \in {"admission", "end"} => worker[w] \in AdmissionStates
           /\ worker[w].phase = "request" => worker[w] \in RequestStates
           /\ worker[w].phase \in {"body", "refused"} => worker[w] \in BodyStates
<1>1. worker[w] \in WorkerStates
  BY DEF MediaInv, MediaTypes
<1>2. QED
  BY <1>1, WorkerPhases

\* A worker that does not write steps to another state without writing.
LEMMA WorkerAside ==
    ASSUME MediaInv, NEW w \in Workers, worker[w].phase \notin {"body", "refused"},
           NEW s \in WorkerStates, s.phase \notin {"body", "refused"},
           worker' = [worker EXCEPT ![w] = s],
           UNCHANGED <<file, entry, used, reserved>>
    PROVE  /\ DiskAccounted'
           /\ worker' \in [Workers -> WorkerStates]
           /\ worker'[w] = s /\ \A v \in Workers : v # w => worker'[v] = worker[v]
<1>1. worker \in [Workers -> WorkerStates]
  BY DEF MediaInv, MediaTypes
<1>2. /\ worker' \in [Workers -> WorkerStates]
      /\ worker'[w] = s /\ \A v \in Workers : v # w => worker'[v] = worker[v]
  BY <1>1
<1>3. /\ WritingIn(worker') = WritingIn(worker)
      /\ \A v \in WritingIn(worker) : worker'[v].key = worker[v].key /\ worker'[v].bytes = worker[v].bytes
  BY <1>2 DEF WritingIn
<1>4. Covers(file, entry, used, reserved, worker')
  BY <1>3, CoversAside DEF MediaInv, DiskAccounted
<1>5. QED
  BY <1>2, <1>4 DEF DiskAccounted

LEMMA MediaLookup ==
    ASSUME MediaInv, NEW k \in MediaKeys, Media!Lookup(k)
    PROVE  MediaInv'
<1>1. /\ file' = file /\ entry' = entry /\ used' = used /\ reserved' = reserved
      /\ jobs' = jobs /\ inflight' = inflight /\ worker' = worker /\ reading' = reading
      /\ older' = Media!Touched(Media!Media(k))
  BY DEF Media!Lookup
<1>2. older' \subseteq Media!Files \X Media!Files
  BY <1>1, FileNames, TouchedType
<1>3. QED
  BY <1>1, <1>2 DEF MediaInv, MediaTypes, DiskAccounted

LEMMA MediaAcquire ==
    ASSUME MediaInv, NEW k \in MediaKeys, NEW x \in Readers, Media!Acquire(x, k)
    PROVE  MediaInv'
<1>1. /\ file' = file /\ entry' = entry /\ used' = used /\ reserved' = reserved
      /\ jobs' = jobs /\ inflight' = inflight /\ worker' = worker
      /\ older' = Media!Touched(Media!Media(k)) /\ file[Media!Media(k)] # None
      /\ reading' = [reading EXCEPT ![x] = k]
  BY DEF Media!Acquire
<1>2. older' \subseteq Media!Files \X Media!Files
  BY <1>1, FileNames, TouchedType
<1>3. reading' \in [Readers -> MediaKeys \cup {None}] /\ Readable(file', reading')
  BY <1>1 DEF MediaInv, MediaTypes, Readable
<1>4. QED
  BY <1>1, <1>2, <1>3 DEF MediaInv, MediaTypes, DiskAccounted

LEMMA MediaRelease ==
    ASSUME MediaInv, NEW x \in Readers, Media!Release(x)
    PROVE  MediaInv'
<1>1. /\ file' = file /\ entry' = entry /\ older' = older /\ used' = used /\ reserved' = reserved
      /\ jobs' = jobs /\ inflight' = inflight /\ worker' = worker
      /\ reading' = [reading EXCEPT ![x] = None]
  BY DEF Media!Release, Media!index
<1>2. reading' \in [Readers -> MediaKeys \cup {None}] /\ Readable(file', reading')
  BY <1>1 DEF MediaInv, MediaTypes, Readable
<1>3. QED
  BY <1>1, <1>2 DEF MediaInv, MediaTypes, DiskAccounted

LEMMA MediaSubmit ==
    ASSUME MediaInv, NEW k \in MediaKeys, Media!Submit(k)
    PROVE  MediaInv'
<1>1. /\ file' = file /\ entry' = entry /\ older' = older /\ used' = used /\ reserved' = reserved
      /\ worker' = worker /\ reading' = reading
      /\ jobs' = Append(jobs, k) /\ inflight' = inflight \cup {k} /\ k \notin inflight
  BY DEF Media!Submit, Media!index
<1>2. jobs \in Seq(MediaKeys) /\ inflight \subseteq MediaKeys
  BY DEF MediaInv, MediaTypes
<1>3. /\ jobs' \in Seq(MediaKeys) /\ Len(jobs') = Len(jobs) + 1 /\ jobs'[Len(jobs) + 1] = k
      /\ Len(jobs) \in Nat /\ \A i \in 1..Len(jobs) : jobs'[i] = jobs[i]
  BY <1>1, <1>2
<1>4. \A i \in 1..Len(jobs') : i = Len(jobs) + 1 \/ i \in 1..Len(jobs)
  BY <1>3
<1>5. /\ \A i \in 1..Len(jobs) : jobs[i] # k
      /\ \A w \in Workers : worker[w] # Media!Free => worker[w].key # k
  BY <1>1 DEF MediaInv, OneJob
<1>6. OneJob(jobs', inflight', worker)
  BY <1>1, <1>3, <1>4, <1>5 DEF MediaInv, OneJob
<1>7. QED
  BY <1>1, <1>2, <1>3, <1>6 DEF MediaInv, MediaTypes, DiskAccounted

LEMMA MediaTake ==
    ASSUME MediaInv, NEW w \in Workers, Media!Take(w)
    PROVE  MediaInv'
<1> DEFINE s == [phase |-> "admission", key |-> Head(jobs)]
<1>1. /\ file' = file /\ entry' = entry /\ older' = older /\ used' = used /\ reserved' = reserved
      /\ inflight' = inflight /\ reading' = reading
      /\ worker[w] = Media!Free /\ jobs # <<>> /\ jobs' = Tail(jobs)
      /\ worker' = [worker EXCEPT ![w] = s]
  BY DEF Media!Take, Media!index
<1>2. jobs \in Seq(MediaKeys)
  BY DEF MediaInv, MediaTypes
<1>3. /\ Head(jobs) \in MediaKeys /\ Head(jobs) = jobs[1] /\ jobs' \in Seq(MediaKeys)
      /\ Len(jobs) \in Nat /\ 1 \in 1..Len(jobs) /\ Len(jobs') = Len(jobs) - 1
      /\ \A i \in 1..Len(jobs') : jobs'[i] = jobs[i + 1] /\ i + 1 \in 1..Len(jobs) /\ i + 1 # 1
  BY <1>1, <1>2
<1>4. s \in WorkerStates /\ s.phase \notin {"body", "refused"} /\ worker[w].phase \notin {"body", "refused"}
  BY <1>1, <1>3 DEF WorkerStates, AdmissionStates, Media!Free
<1>5. /\ DiskAccounted' /\ worker' \in [Workers -> WorkerStates]
      /\ worker'[w] = s /\ \A v \in Workers : v # w => worker'[v] = worker[v]
  <2> HIDE DEF s
  <2>1. QED
    BY <1>1, <1>4, WorkerAside
<1>6. OneJob(jobs, inflight, worker)
  BY DEF MediaInv
<1>7. ASSUME NEW i \in 1..Len(jobs')
      PROVE  jobs'[i] \in inflight /\ jobs'[i] # s.key
  <2>1. jobs'[i] = jobs[i + 1] /\ i + 1 \in 1..Len(jobs) /\ i + 1 # 1 /\ s.key = jobs[1]
    BY <1>3
  <2>2. QED
    BY <1>3, <1>6, <2>1 DEF OneJob
<1>8. \A i, j \in 1..Len(jobs') : i # j => jobs'[i] # jobs'[j]
  <2>1. SUFFICES ASSUME NEW i \in 1..Len(jobs'), NEW j \in 1..Len(jobs'), i # j
                 PROVE  jobs[i + 1] # jobs[j + 1]
    BY <1>3
  <2>2. i + 1 # j + 1
    BY <2>1
  <2>3. QED
    BY <1>3, <1>6, <2>2 DEF OneJob
<1>9. \A v \in Workers : v # w /\ worker[v] # Media!Free =>
          /\ worker[v].key \in inflight /\ worker[v].key # s.key
          /\ \A i \in 1..Len(jobs') : jobs'[i] # worker[v].key
  BY <1>3, <1>6 DEF OneJob
<1>10. OneJob(jobs', inflight, worker')
  <2>1. s.key \in inflight
    BY <1>3, <1>6 DEF OneJob
  <2> HIDE DEF s
  <2>2. QED
    BY <1>5, <1>6, <1>7, <1>8, <1>9, <2>1 DEF OneJob
<1>11. QED
  BY <1>1, <1>3, <1>5, <1>10 DEF MediaInv, MediaTypes

\* A worker with a job that does not write goes on without writing.
LEMMA MediaAside ==
    ASSUME MediaInv, NEW w \in Workers, worker[w] # Media!Free,
           worker[w].phase \notin {"body", "refused"},
           NEW s \in WorkerStates, s.phase \notin {"body", "refused"}, s.key = worker[w].key,
           worker' = [worker EXCEPT ![w] = s],
           UNCHANGED <<file, entry, older, used, reserved, jobs, inflight, reading>>
    PROVE  MediaInv'
<1>1. /\ DiskAccounted' /\ worker' \in [Workers -> WorkerStates]
      /\ worker'[w] = s /\ \A v \in Workers : v # w => worker'[v] = worker[v]
  BY WorkerAside
<1>2. OneJob(jobs, inflight, worker')
  BY <1>1, JobKept DEF MediaInv
<1>3. QED
  BY <1>1, <1>2 DEF MediaInv, MediaTypes

LEMMA MediaAdmit ==
    ASSUME MediaInv, NEW w \in Workers, Media!Admit(w)
    PROVE  MediaInv'
<1> DEFINE s == [phase |-> "request", key |-> worker[w].key, tries |-> 0]
<1>1. /\ worker[w].phase = "admission"
      /\ worker' = [worker EXCEPT ![w] = s]
      /\ UNCHANGED <<file, entry, older, used, reserved, jobs, inflight, reading>>
  BY DEF Media!Admit, Media!index
<1>2. worker[w] # Media!Free /\ worker[w].key \in MediaKeys /\ worker[w].phase \notin {"body", "refused"}
  BY <1>1, WorkerTypes
<1>3. s \in WorkerStates /\ s.phase \notin {"body", "refused"} /\ s.key = worker[w].key
  BY <1>2 DEF WorkerStates, RequestStates
<1> HIDE DEF s
<1>4. QED
  BY <1>1, <1>2, <1>3, MediaAside

\* What follows an attempt is a state without writing.
LEMMA AfterStates ==
    ASSUME MediaInv, NEW w \in Workers, NEW retry, Media!After(w, retry),
           worker[w].phase \in {"request", "body", "refused"}
    PROVE  \E s \in WorkerStates : /\ worker' = [worker EXCEPT ![w] = s]
                                    /\ s.phase \in {"request", "end"} /\ s.key = worker[w].key
<1> DEFINE again == [phase |-> "request", key |-> worker[w].key, tries |-> worker[w].tries + 1]
           end == [phase |-> "end", key |-> worker[w].key]
           s == IF retry /\ worker[w].tries < Retries /\ ~closed THEN again ELSE end
<1>1. worker' = [worker EXCEPT ![w] = s]
  BY DEF Media!After
<1>2. worker[w].key \in MediaKeys /\ worker[w].tries \in Nat
  <2>1. worker[w] \in RequestStates \/ worker[w] \in BodyStates
    BY WorkerTypes
  <2>2. QED
    BY <2>1 DEF RequestStates, BodyStates
<1>3. again \in WorkerStates /\ end \in WorkerStates
  BY <1>2 DEF WorkerStates, RequestStates, AdmissionStates
<1>4. s \in WorkerStates /\ s.phase \in {"request", "end"} /\ s.key = worker[w].key
  BY <1>3
<1>5. QED
  BY <1>1, <1>4

LEMMA MediaRefused ==
    ASSUME MediaInv, NEW w \in Workers, Media!Refused(w)
    PROVE  MediaInv'
<1>1. /\ worker[w].phase = "request"
      /\ UNCHANGED <<file, entry, older, used, reserved, jobs, inflight, reading>>
  BY DEF Media!Refused, Media!index
<1>2. PICK retry \in BOOLEAN : Media!After(w, retry)
  BY DEF Media!Refused
<1>3. PICK s \in WorkerStates : /\ worker' = [worker EXCEPT ![w] = s]
                               /\ s.phase \in {"request", "end"} /\ s.key = worker[w].key
  BY <1>1, <1>2, AfterStates
<1>4. worker[w] # Media!Free /\ worker[w].phase \notin {"body", "refused"}
  BY <1>1, WorkerTypes
<1>5. QED
  BY <1>1, <1>3, <1>4, MediaAside

LEMMA MediaFinish ==
    ASSUME MediaInv, NEW w \in Workers, Media!Finish(w)
    PROVE  MediaInv'
<1>1. /\ worker[w].phase = "end"
      /\ inflight' = inflight \ {worker[w].key}
      /\ worker' = [worker EXCEPT ![w] = Media!Free]
      /\ UNCHANGED <<file, entry, older, used, reserved, jobs, reading>>
  BY DEF Media!Finish, Media!index
<1>2. worker[w] # Media!Free /\ worker[w].phase \notin {"body", "refused"}
  BY <1>1, WorkerTypes
<1>3. Media!Free \in WorkerStates /\ Media!Free.phase \notin {"body", "refused"}
  BY DEF WorkerStates, Media!Free
<1>4. /\ DiskAccounted' /\ worker' \in [Workers -> WorkerStates]
      /\ worker'[w] = Media!Free /\ \A v \in Workers : v # w => worker'[v] = worker[v]
  BY <1>1, <1>2, <1>3, WorkerAside
<1>5. OneJob(jobs, inflight', worker')
  BY <1>1, <1>2, <1>4 DEF MediaInv, OneJob
<1>6. QED
  BY <1>1, <1>4, <1>5 DEF MediaInv, MediaTypes

LEMMA MediaClosing ==
    ASSUME MediaInv, Media!Close \/ Media!Closed
    PROVE  MediaInv'
<1>1. UNCHANGED <<file, entry, older, used, reserved, worker, reading>>
  BY DEF Media!Close, Media!Closed, Media!index
<1>2. jobs' \in Seq(MediaKeys) /\ inflight' \subseteq MediaKeys /\ OneJob(jobs', inflight', worker)
  <2>1. CASE Media!Close
    BY <2>1 DEF Media!Close, MediaInv, MediaTypes
  <2>2. CASE Media!Closed
    BY <2>2 DEF Media!Closed, OneJob
  <2>3. QED
    BY <2>1, <2>2
<1>3. QED
  BY <1>1, <1>2 DEF MediaInv, MediaTypes, DiskAccounted

-----------------------------------------------------------------------------
(* The actions that change the disk *)

LEMMA ReadableRemoved ==
    ASSUME NEW fl, NEW rd \in [Readers -> MediaKeys \cup {None}], Readable(fl, rd), NEW fl2,
           \A f \in Media!Files :
               (\A k : f # Media!Part(k)) => (fl2[f] = fl[f] \/ fl2[f] # None)
    PROVE  Readable(fl2, rd)
<1>1. \A k \in MediaKeys : Media!Media(k) \in Media!Files
                          /\ \A j : Media!Media(k) # Media!Part(j)
  BY DEF Media!Media, Media!Part, Media!Files
<1>2. QED
  BY <1>1 DEF Readable

\* discardPartial, and the worker's next state.
LEMMA DiscardKeeps ==
    ASSUME MediaInv, NEW w \in Workers, worker[w].phase \in {"body", "refused"},
           NEW stuck \in BOOLEAN, Media!Discard(w, stuck),
           NEW s \in WorkerStates, s.phase \in {"request", "end"}, s.key = worker[w].key,
           worker' = [worker EXCEPT ![w] = s],
           UNCHANGED <<jobs, inflight, reading>>
    PROVE  MediaInv'
<1> DEFINE p == Media!Part(worker[w].key)
<1>1. worker[w] \in BodyStates /\ worker[w] # Media!Free /\ w \in WritingIn(worker)
  BY WorkerTypes DEF WritingIn
<1>2. worker[w].key \in MediaKeys /\ p \in Media!Files
  BY <1>1, FileNames DEF BodyStates
<1>3. /\ worker' \in [Workers -> WorkerStates] /\ worker'[w] = s
      /\ \A v \in Workers : v # w => worker'[v] = worker[v]
  BY DEF MediaInv, MediaTypes
<1>4. s.phase \notin {"body", "refused"}
  OBVIOUS
<1>5. OneJob(jobs, inflight, worker')
  BY <1>1, <1>3, JobKept DEF MediaInv
<1>6. Covers(file, entry, used, reserved, worker)
  BY DEF MediaInv, DiskAccounted
<1>7. DiskAccounted' /\ Readable(file', reading) /\ older' \subseteq Media!Files \X Media!Files
  <2>1. CASE stuck
    <3>1. /\ reserved' = reserved - worker[w].bytes /\ entry' = [entry EXCEPT ![p] = file[p]]
          /\ older' = Media!Touched(p) /\ used' = used + file[p] /\ file' = file
      BY <2>1 DEF Media!Discard
    <3>2. Covers(file, [entry EXCEPT ![p] = file[p]], used + file[p], reserved - worker[w].bytes, worker')
      BY <1>1, <1>3, <1>4, <1>6, CoversStuck
    <3>3. older' \subseteq Media!Files \X Media!Files
      BY <1>2, <3>1, TouchedType
    <3>4. QED
      BY <3>1, <3>2, <3>3 DEF DiskAccounted, MediaInv
  <2>2. CASE ~stuck
    <3>1. /\ reserved' = reserved - worker[w].bytes /\ file' = [file EXCEPT ![p] = None]
          /\ entry' = entry /\ older' = older /\ used' = used
      BY <2>2 DEF Media!Discard
    <3>2. Covers([file EXCEPT ![p] = None], entry, used, reserved - worker[w].bytes, worker')
      BY <1>1, <1>3, <1>4, <1>6, CoversRemoved
    <3>3. Readable(file', reading)
      <4>1. \A f \in Media!Files : (\A k : f # Media!Part(k)) => file'[f] = file[f]
        BY <1>6, <3>1 DEF Covers, Sizes
      <4>2. Readable(file, reading) /\ reading \in [Readers -> MediaKeys \cup {None}]
        BY DEF MediaInv, MediaTypes
      <4>3. QED
        BY <4>1, <4>2, ReadableRemoved
    <3>4. QED
      BY <3>1, <3>2, <3>3 DEF DiskAccounted, MediaInv, MediaTypes
  <2>3. QED
    BY <2>1, <2>2
<1>8. QED
  BY <1>3, <1>5, <1>7 DEF MediaInv, MediaTypes

LEMMA MediaBreak ==
    ASSUME MediaInv, NEW w \in Workers, NEW stuck \in BOOLEAN, Media!Break(w, stuck)
    PROVE  MediaInv'
<1>1. /\ worker[w].phase \in {"body", "refused"} /\ Media!Discard(w, stuck)
      /\ UNCHANGED <<jobs, inflight, reading>>
  BY DEF Media!Break, Media!Writing
<1>2. PICK retry : Media!After(w, retry)
  BY DEF Media!Break
<1>3. PICK s \in WorkerStates : /\ worker' = [worker EXCEPT ![w] = s]
                               /\ s.phase \in {"request", "end"} /\ s.key = worker[w].key
  BY <1>1, <1>2, AfterStates
<1>4. QED
  BY <1>1, <1>3, DiscardKeeps

LEMMA MediaAbandon ==
    ASSUME MediaInv, NEW w \in Workers, NEW stuck \in BOOLEAN, Media!Abandon(w, stuck)
    PROVE  MediaInv'
<1> DEFINE s == [phase |-> "end", key |-> worker[w].key]
<1>1. /\ worker[w].phase \in {"admission", "request", "body", "refused"}
      /\ worker' = [worker EXCEPT ![w] = s]
      /\ UNCHANGED <<jobs, inflight, reading>>
  BY DEF Media!Abandon
<1>2. worker[w] # Media!Free /\ worker[w].key \in MediaKeys
  BY <1>1, WorkerTypes
<1>3. s \in WorkerStates /\ s.phase \in {"request", "end"} /\ s.key = worker[w].key
  BY <1>2 DEF WorkerStates, AdmissionStates
<1> HIDE DEF s
<1>4. CASE Media!Writing(w)
  <2>1. worker[w].phase \in {"body", "refused"} /\ Media!Discard(w, stuck)
    BY <1>4 DEF Media!Abandon, Media!Writing
  <2>2. QED
    BY <1>1, <1>3, <2>1, DiscardKeeps
<1>5. CASE ~Media!Writing(w)
  <2>1. worker[w].phase \notin {"body", "refused"} /\ UNCHANGED <<file, entry, older, used, reserved>>
    BY <1>5 DEF Media!Abandon, Media!Writing, Media!index
  <2>2. s.phase \notin {"body", "refused"}
    BY <1>3
  <2>3. QED
    BY <1>1, <1>2, <1>3, <2>1, <2>2, MediaAside
<1>6. QED
  BY <1>4, <1>5

LEMMA MediaCommit ==
    ASSUME MediaInv, NEW w \in Workers, Media!Commit(w)
    PROVE  MediaInv'
<1> DEFINE k == worker[w].key
           n == file[Media!Part(k)]
           s == [phase |-> "end", key |-> k]
<1>1. /\ worker[w].phase = "body"
      /\ file' = [file EXCEPT ![Media!Part(k)] = None, ![Media!Media(k)] = n]
      /\ entry' = [entry EXCEPT ![Media!Media(k)] = n]
      /\ older' = Media!Touched(Media!Media(k))
      /\ used' = used + n - (IF entry[Media!Media(k)] = None THEN 0 ELSE entry[Media!Media(k)])
      /\ reserved' = reserved - worker[w].bytes
      /\ worker' = [worker EXCEPT ![w] = s]
      /\ UNCHANGED <<jobs, inflight, reading>>
  BY DEF Media!Commit, Media!Written
<1>2. worker[w] \in BodyStates /\ worker[w] # Media!Free /\ w \in WritingIn(worker)
  BY <1>1, WorkerTypes DEF WritingIn
<1>3. k \in MediaKeys /\ Media!Part(k) \in Media!Files /\ Media!Media(k) \in Media!Files
  BY <1>2, FileNames DEF BodyStates
<1>4. s \in WorkerStates /\ s.phase \notin {"body", "refused"} /\ s.key = k
  BY <1>3 DEF WorkerStates, AdmissionStates
<1>5. /\ worker' \in [Workers -> WorkerStates] /\ worker'[w] = s
      /\ \A v \in Workers : v # w => worker'[v] = worker[v]
  BY <1>1, <1>4 DEF MediaInv, MediaTypes
<1>6. OneJob(jobs, inflight, worker')
  BY <1>2, <1>4, <1>5, JobKept DEF MediaInv
<1>7. Covers(file, entry, used, reserved, worker)
  BY DEF MediaInv, DiskAccounted
<1>8. worker'[w].phase \notin {"body", "refused"}
  BY <1>4, <1>5
<1>9. DiskAccounted'
  <2> HIDE DEF s
  <2>1. \A a, b : a = worker[w].key /\ b = file[Media!Part(a)] =>
          Covers([file EXCEPT ![Media!Part(a)] = None, ![Media!Media(a)] = b],
                 [entry EXCEPT ![Media!Media(a)] = b],
                 used + b - (IF entry[Media!Media(a)] = None THEN 0 ELSE entry[Media!Media(a)]),
                 reserved - worker[w].bytes, worker')
    BY <1>2, <1>5, <1>7, <1>8, CoversCommitted
  <2>2. Covers(file', entry', used', reserved', worker')
    BY <1>1, <2>1
  <2>3. QED
    BY <2>2 DEF DiskAccounted
<1>10. Readable(file', reading)
  <2>1. n # None
    BY <1>2, <1>7, ServicesAssumption DEF Covers
  <2>2. \A f \in Media!Files :
          (\A j : f # Media!Part(j)) => (file'[f] = file[f] \/ file'[f] # None)
    <3>1. Media!Media(k) # Media!Part(k)
      BY <1>3, FileNames
    <3>2. file \in Sizes
      BY <1>7 DEF Covers
    <3>3. file'[Media!Media(k)] = n
      BY <1>1, <1>3, <3>2 DEF Sizes
    <3>4. \A f \in Media!Files : f # Media!Part(k) /\ f # Media!Media(k) => file'[f] = file[f]
      <4> HIDE DEF n, k
      <4>1. QED
        BY <1>1, <1>3, <3>2 DEF Sizes
    <3>5. QED
      BY <2>1, <3>3, <3>4
  <2>3. Readable(file, reading) /\ reading \in [Readers -> MediaKeys \cup {None}]
    BY DEF MediaInv, MediaTypes
  <2>4. QED
    BY <2>2, <2>3, ReadableRemoved
<1>11. older' \subseteq Media!Files \X Media!Files
  BY <1>1, <1>3, TouchedType
<1>12. QED
  BY <1>1, <1>5, <1>6, <1>9, <1>10, <1>11 DEF MediaInv, MediaTypes

\* Files of the index are evicted for need bytes: what was freed is known,
\* and the room for them with it.
LEMMA EvictedRoom ==
    ASSUME MediaInv, NEW victims \in SUBSET Had(entry), NEW need \in Nat
    PROVE  /\ Covers(Evicted(file, victims), Evicted(entry, victims), used - Media!FreedBy(victims),
                     reserved, worker)
           /\ Media!Fits(victims, need) => used - Media!FreedBy(victims) + reserved + need <= MaxBytes
           /\ \A w \in WritingIn(worker) :
                 Evicted(file, victims)[Media!Part(worker[w].key)] = file[Media!Part(worker[w].key)]
           /\ used \in Nat /\ reserved \in Nat /\ Media!FreedBy(victims) \in Nat
           /\ used + reserved <= MaxBytes
<1>1. Covers(file, entry, used, reserved, worker)
  BY DEF MediaInv, DiskAccounted
<1>2. /\ Covers(Evicted(file, victims), Evicted(entry, victims), used - Media!FreedBy(victims),
                reserved, worker)
      /\ Media!FreedBy(victims) \in Nat
      /\ \A w \in WritingIn(worker) :
            Evicted(file, victims)[Media!Part(worker[w].key)] = file[Media!Part(worker[w].key)]
  BY <1>1, CoversEvicted DEF Media!FreedBy
<1>3. used \in Nat /\ reserved \in Nat
  BY <1>1, CoversTypes
<1>4. Media!Fits(victims, need) => used - Media!FreedBy(victims) + reserved + need <= MaxBytes
  BY <1>2, <1>3, ServicesAssumption DEF Media!Fits
<1>5. used + reserved <= MaxBytes
  BY <1>1 DEF Covers
<1>6. QED
  BY <1>2, <1>3, <1>4, <1>5

LEMMA MediaRespond ==
    ASSUME MediaInv, NEW w \in Workers, NEW length \in (0..MaxFile) \cup {None}, NEW stuck,
           Media!Respond(w, length, stuck)
    PROVE  MediaInv'
<1> DEFINE k == worker[w].key
           p == Media!Part(k)
           need == IF length = None THEN Initial ELSE length
           victims == Media!Victims(stuck, need)
           fl == Evicted(file, victims)
<1>1. /\ worker[w].phase = "request"
      /\ entry' = Evicted(entry, victims) /\ older' = Media!Without(victims)
      /\ used' = used - Media!FreedBy(victims)
      /\ UNCHANGED <<jobs, inflight, reading>>
  BY DEF Media!Respond, Evicted
<1>2. worker[w] \in RequestStates /\ worker[w] # Media!Free
  BY <1>1, WorkerTypes
<1>3. k \in MediaKeys /\ worker[w].tries \in Nat /\ p \in Media!Files
  BY <1>2, FileNames DEF RequestStates
<1>4. need \in Nat /\ length \in Nat \cup {None}
  BY ServicesAssumption
<1>5. /\ victims \in SUBSET Had(entry) /\ Readable(fl, reading)
      /\ older' \subseteq Media!Files \X Media!Files
  BY <1>1, VictimsSpare
<1> HIDE DEF need, victims
<1>6. /\ Covers(fl, Evicted(entry, victims), used - Media!FreedBy(victims), reserved, worker)
      /\ Media!Fits(victims, need) => used - Media!FreedBy(victims) + reserved + need <= MaxBytes
  BY <1>4, <1>5, EvictedRoom
<1>7. w \notin WritingIn(worker) /\ worker[w].phase \notin {"body", "refused"}
  BY <1>1 DEF WritingIn
<1>8. CASE Media!Fits(victims, need) /\ (file[p] = None \/ p \in victims)
  <2> DEFINE s == [phase |-> "body", key |-> k, tries |-> worker[w].tries, bytes |-> need, length |-> length]
  <2>1. /\ file' = [f \in Media!Files |-> IF f = p THEN 0 ELSE IF f \in victims THEN None ELSE file[f]]
        /\ reserved' = reserved + need
        /\ worker' = [worker EXCEPT ![w] = s]
    BY <1>8 DEF Media!Respond, victims, need
  <2>2. file' = [fl EXCEPT ![p] = 0] /\ fl[p] = None
    BY <1>3, <1>8, <2>1 DEF Evicted
  <2>3. s \in WorkerStates
    BY <1>3, <1>4 DEF WorkerStates, BodyStates
  <2>4. /\ worker' \in [Workers -> WorkerStates] /\ worker'[w] = s
        /\ \A v \in Workers : v # w => worker'[v] = worker[v]
    BY <2>1, <2>3 DEF MediaInv, MediaTypes
  <2>5. s.key = k /\ s.phase = "body" /\ s.bytes = need
    OBVIOUS
  <2> HIDE DEF s
  <2>6. OneJob(jobs, inflight, worker')
    BY <1>2, <2>4, <2>5, JobKept DEF MediaInv
  <2>7. \A v \in WritingIn(worker) : worker[v].key # k
    <3>1. \A v \in WritingIn(worker) : v \in Workers /\ v # w /\ worker[v] # Media!Free
      BY <1>7, WorkerTypes DEF WritingIn
    <3>2. QED
      BY <1>2, <3>1 DEF MediaInv, OneJob
  <2>8. Covers([fl EXCEPT ![p] = 0], Evicted(entry, victims), used - Media!FreedBy(victims),
               reserved + need, worker')
    <3>1. used - Media!FreedBy(victims) + reserved + need <= MaxBytes
      BY <1>6, <1>8
    <3>2. worker'[w].phase = "body" /\ worker'[w].key = k /\ worker'[w].bytes = need
      BY <2>4, <2>5
    <3> DEFINE us == used - Media!FreedBy(victims)
               en == Evicted(entry, victims)
    <3>3. Covers(fl, en, us, reserved, worker) /\ us + reserved + need <= MaxBytes
      BY <1>6, <3>1
    <3>4. fl[Media!Part(k)] = None
      BY <2>2
    <3> HIDE DEF fl, k, us, en
    <3>5. Covers([fl EXCEPT ![Media!Part(k)] = 0], en, us, reserved + need, worker')
      BY <1>3, <1>4, <1>7, <2>4, <2>7, <3>2, <3>3, <3>4, CoversBegun
    <3>6. QED
      BY <3>5 DEF us, en
  <2>9. DiskAccounted'
    BY <1>1, <2>1, <2>2, <2>8 DEF DiskAccounted
  <2>10. Readable(file', reading)
    <3>1. fl \in Sizes
      BY <1>6 DEF Covers
    <3>2. \A f \in Media!Files : (\A j : f # Media!Part(j)) => (file'[f] = fl[f] \/ file'[f] # None)
      <4>1. \A f \in Media!Files : f # p => file'[f] = fl[f]
        BY <2>1 DEF Evicted
      <4>2. QED
        BY <4>1
    <3>3. reading \in [Readers -> MediaKeys \cup {None}]
      BY DEF MediaInv, MediaTypes
    <3> HIDE DEF fl
    <3>4. QED
      BY <1>5, <3>2, <3>3, ReadableRemoved
  <2>11. QED
    BY <1>1, <1>5, <2>4, <2>6, <2>9, <2>10 DEF MediaInv, MediaTypes
<1>9. CASE ~(Media!Fits(victims, need) /\ (file[p] = None \/ p \in victims))
  <2>1. file' = fl /\ Media!After(w, FALSE) /\ reserved' = reserved
    BY <1>9 DEF Media!Respond, Evicted, victims, need
  <2>2. PICK s \in WorkerStates : /\ worker' = [worker EXCEPT ![w] = s]
                                 /\ s.phase \in {"request", "end"} /\ s.key = worker[w].key
    BY <1>1, <2>1, AfterStates
  <2>3. /\ worker' \in [Workers -> WorkerStates] /\ worker'[w] = s
        /\ \A v \in Workers : v # w => worker'[v] = worker[v]
    BY <2>2 DEF MediaInv, MediaTypes
  <2>4. OneJob(jobs, inflight, worker')
    BY <1>2, <2>2, <2>3, JobKept DEF MediaInv
  <2>5. /\ WritingIn(worker') = WritingIn(worker)
        /\ \A v \in WritingIn(worker) : worker'[v].key = worker[v].key /\ worker'[v].bytes = worker[v].bytes
    BY <1>7, <2>2, <2>3 DEF WritingIn
  <2>6. Covers(fl, Evicted(entry, victims), used - Media!FreedBy(victims), reserved, worker')
    BY <1>6, <2>5, CoversAside
  <2>7. DiskAccounted'
    BY <1>1, <2>1, <2>6 DEF DiskAccounted
  <2>8. QED
    BY <1>1, <1>5, <2>1, <2>3, <2>4, <2>7 DEF MediaInv, MediaTypes
<1>10. QED
  BY <1>8, <1>9

LEMMA MediaWriteRefused ==
    ASSUME MediaInv, NEW w \in Workers, NEW stuck, Media!WriteRefused(w, stuck)
    PROVE  MediaInv'
<1> DEFINE victims == Media!Victims(stuck, 1)
           s == [worker[w] EXCEPT !.phase = "refused"]
<1>1. /\ worker[w].phase = "body"
      /\ file' = Evicted(file, victims) /\ entry' = Evicted(entry, victims)
      /\ older' = Media!Without(victims) /\ used' = used - Media!FreedBy(victims)
      /\ worker' = [worker EXCEPT ![w] = s]
      /\ UNCHANGED <<reserved, jobs, inflight, reading>>
  BY DEF Media!WriteRefused, Media!Evict, Evicted
<1>2. worker[w] \in BodyStates /\ worker[w] # Media!Free /\ w \in WritingIn(worker)
  BY <1>1, WorkerTypes DEF WritingIn
<1>3. /\ s \in BodyStates /\ s \in WorkerStates
      /\ s.phase = "refused" /\ s.key = worker[w].key /\ s.bytes = worker[w].bytes
  BY <1>2 DEF WorkerStates, BodyStates
<1>4. /\ victims \in SUBSET Had(entry) /\ Readable(Evicted(file, victims), reading)
      /\ older' \subseteq Media!Files \X Media!Files
  BY <1>1, VictimsSpare
<1> HIDE DEF victims, s
<1>5. Covers(Evicted(file, victims), Evicted(entry, victims), used - Media!FreedBy(victims), reserved, worker)
  BY <1>4, EvictedRoom
<1>6. /\ worker' \in [Workers -> WorkerStates] /\ worker'[w] = s
      /\ \A v \in Workers : v # w => worker'[v] = worker[v]
  BY <1>1, <1>3 DEF MediaInv, MediaTypes
<1>7. OneJob(jobs, inflight, worker')
  BY <1>2, <1>3, <1>6, JobKept DEF MediaInv
<1>8. /\ WritingIn(worker') = WritingIn(worker)
      /\ \A v \in WritingIn(worker) : worker'[v].key = worker[v].key /\ worker'[v].bytes = worker[v].bytes
  BY <1>2, <1>3, <1>6 DEF WritingIn
<1>9. Covers(Evicted(file, victims), Evicted(entry, victims), used - Media!FreedBy(victims), reserved, worker')
  BY <1>5, <1>8, CoversAside
<1>10. QED
  BY <1>1, <1>4, <1>6, <1>7, <1>9 DEF MediaInv, MediaTypes, DiskAccounted

LEMMA MediaWrite ==
    ASSUME MediaInv, NEW w \in Workers, NEW stuck, Media!Write(w, stuck)
    PROVE  MediaInv'
<1> DEFINE k == worker[w].key
           p == Media!Part(k)
           extra == IF file[p] + 1 <= worker[w].bytes THEN 0 ELSE 1
           victims == IF extra = 0 THEN {} ELSE Media!Victims(stuck, extra)
           s == [worker[w] EXCEPT !.bytes = worker[w].bytes + extra]
           fl == Evicted(file, victims)
           en == Evicted(entry, victims)
           us == used - Media!FreedBy(victims)
<1>1. /\ worker[w].phase = "body"
      /\ Media!Fits(victims, extra) \/ extra = 0
      /\ file' = [f \in Media!Files |-> IF f = p THEN file[p] + 1 ELSE IF f \in victims THEN None ELSE file[f]]
      /\ entry' = en /\ older' = Media!Without(victims)
      /\ used' = us /\ reserved' = reserved + extra
      /\ worker' = [worker EXCEPT ![w] = s]
      /\ UNCHANGED <<jobs, inflight, reading>>
  BY DEF Media!Write, Media!Written, Evicted
<1>2. worker[w] \in BodyStates /\ worker[w] # Media!Free /\ w \in WritingIn(worker)
  BY <1>1, WorkerTypes DEF WritingIn
<1>3. /\ k \in MediaKeys /\ p \in Media!Files /\ worker[w].bytes \in Nat
      /\ file[p] \in 0..worker[w].bytes
  BY <1>2, FileNames DEF BodyStates, MediaInv, DiskAccounted, Covers
<1>4. extra \in Nat /\ file[p] + 1 \in 0..(worker[w].bytes + extra)
  BY <1>3
<1>5. /\ s \in BodyStates /\ s \in WorkerStates
      /\ s.phase = "body" /\ s.key = k /\ s.bytes = worker[w].bytes + extra
  <2>1. worker[w].bytes + extra \in Nat
    BY <1>3, <1>4
  <2> HIDE DEF extra
  <2>2. QED
    BY <1>1, <1>2, <2>1 DEF WorkerStates, BodyStates
<1>6. /\ victims \in SUBSET Had(entry) /\ Readable(fl, reading)
      /\ older' \subseteq Media!Files \X Media!Files
  <2>1. CASE extra = 0
    <3>1. victims = {}
      BY <2>1
    <3>2. Readable(fl, reading)
      BY <3>1, FileNames DEF MediaInv, MediaTypes, Readable, Evicted
    <3> HIDE DEF victims
    <3>3. QED
      BY <1>1, <3>1, <3>2, VictimsSpare
  <2>2. CASE extra # 0
    <3>1. victims = Media!Victims(stuck, extra)
      BY <2>2
    <3> HIDE DEF victims, extra
    <3>2. QED
      BY <1>1, <3>1, VictimsSpare
  <2>3. QED
    BY <2>1, <2>2
<1> HIDE DEF victims, s, extra
<1>7. /\ Covers(fl, en, us, reserved, worker)
      /\ Media!Fits(victims, extra) => us + reserved + extra <= MaxBytes
      /\ fl[p] = file[p]
  BY <1>2, <1>4, <1>6, EvictedRoom
<1>8. us + reserved + extra <= MaxBytes
  <2>1. CASE Media!Fits(victims, extra)
    BY <1>7, <2>1
  <2>2. CASE extra = 0
    <3> HIDE DEF us, fl, en
    <3>1. us \in Nat /\ reserved \in Nat /\ us + reserved <= MaxBytes
      BY <1>7, CoversTypes DEF Covers
    <3>2. QED
      BY <2>2, <3>1
  <2>3. QED
    BY <1>1, <2>1, <2>2
<1>9. /\ worker' \in [Workers -> WorkerStates] /\ worker'[w] = s
      /\ \A v \in Workers : v # w => worker'[v] = worker[v]
  BY <1>1, <1>5 DEF MediaInv, MediaTypes
<1>10. OneJob(jobs, inflight, worker')
  BY <1>2, <1>5, <1>9, JobKept DEF MediaInv
<1>11. file' = [fl EXCEPT ![p] = file[p] + 1]
  BY <1>1, <1>3 DEF Evicted
<1>12. DiskAccounted'
  <2> DEFINE n == file[p] + 1
  <2>1. n \in 0..(worker[w].bytes + extra)
    BY <1>4
  <2>2. /\ worker'[w].phase \in {"body", "refused"} /\ worker'[w].key = worker[w].key
        /\ worker'[w].bytes = worker[w].bytes + extra
    BY <1>5, <1>9
  <2> HIDE DEF n, fl, en, us
  <2>3. Covers([fl EXCEPT ![Media!Part(worker[w].key)] = n], en, us, reserved + extra, worker')
    BY <1>2, <1>4, <1>7, <1>8, <1>9, <2>1, <2>2, CoversGrown
  <2>4. QED
    BY <1>1, <1>11, <2>3 DEF DiskAccounted, n
<1>13. Readable(file', reading)
  <2>1. \A f \in Media!Files : (\A j : f # Media!Part(j)) => (file'[f] = fl[f] \/ file'[f] # None)
    <3>1. \A f \in Media!Files : f # p => file'[f] = fl[f]
      BY <1>1 DEF Evicted
    <3>2. QED
      BY <3>1
  <2>2. reading \in [Readers -> MediaKeys \cup {None}]
    BY DEF MediaInv, MediaTypes
  <2> HIDE DEF fl
  <2>3. QED
    BY <1>6, <2>1, <2>2, ReadableRemoved
<1>14. QED
  BY <1>1, <1>6, <1>9, <1>10, <1>12, <1>13 DEF MediaInv, MediaTypes

\* A start finds the media files of the index, without the debris.
LEMMA MediaRestart ==
    ASSUME MediaInv, Media!Restart
    PROVE  MediaInv'
<1> DEFINE media == {f \in Media!Files : f[2] = "media" /\ file[f] # None}
           gone == Had(entry) \ media
<1>1. /\ file' = [f \in Media!Files |-> IF f \in media THEN file[f] ELSE None]
      /\ entry' = file' /\ used' = Media!BytesOf(file')
      /\ reserved' = 0 /\ jobs' = <<>> /\ inflight' = {}
      /\ worker' = [w \in Workers |-> Media!Free] /\ reading' = [x \in Readers |-> None]
  BY DEF Media!Restart, Media!Scan
<1>2. older' \subseteq Media!Files \X Media!Files
  <2>1. PICK s \in [1..Media!Cardinality(media) -> media] :
            older' = {q \in media \X media : \E i, j \in DOMAIN s : i < j /\ q = <<s[i], s[j]>>}
    BY DEF Media!Restart, Media!Scan
  <2>2. QED
    BY <2>1
<1>3. Covers(file, entry, used, reserved, worker)
  BY DEF MediaInv, DiskAccounted
<1>4. file \in Sizes /\ entry \in Sizes /\ used = Media!BytesOf(entry)
      /\ used \in Nat /\ reserved \in Nat /\ used + reserved <= MaxBytes
  BY <1>3, CoversTypes DEF Covers
<1>5. \A f \in media : file[f] = entry[f]
  <2>1. \A f \in media : \A k : f # Media!Part(k)
    BY DEF Media!Part
  <2>2. QED
    BY <1>3, <2>1 DEF Covers
<1>6. file' = Evicted(entry, gone) /\ file' \in Sizes
  BY <1>1, <1>4, <1>5 DEF Evicted, Had, Sizes
<1>7. used' \in Nat /\ used' <= MaxBytes
  <2>1. gone \in SUBSET Had(entry)
    OBVIOUS
  <2> HIDE DEF gone
  <2>2. /\ Media!BytesOf(entry) = Media!BytesOf(Evicted(entry, gone)) + Media!Total([f \in gone |-> entry[f]])
        /\ Media!Total([f \in gone |-> entry[f]]) \in Nat
    BY <1>4, <2>1, BytesEvicted
  <2>3. Media!BytesOf(file') \in Nat
    BY <1>6, BytesType
  <2>4. Media!BytesOf(file') <= Media!BytesOf(entry)
    BY <1>6, <2>2, <2>3
  <2>5. QED
    BY <1>1, <1>4, <2>3, <2>4, ServicesAssumption
<1>8. WritingIn(worker') = {}
  BY <1>1 DEF WritingIn, Media!Free
<1>9. Media!Total([w \in WritingIn(worker') |-> worker'[w].bytes]) = 0
  <2>1. DOMAIN [w \in WritingIn(worker') |-> worker'[w].bytes] = {}
    BY <1>8
  <2>2. QED
    BY <2>1, TotalSmall
<1>10. DiskAccounted'
  <2>1. used' + 0 <= MaxBytes
    BY <1>7
  <2>2. Covers(file', entry', used', reserved', worker')
    BY <1>1, <1>6, <1>8, <1>9, <2>1 DEF Covers
  <2>3. QED
    BY <2>2 DEF DiskAccounted
<1>11. MediaTypes' /\ OneJob(jobs', inflight', worker') /\ Readable(file', reading')
  BY <1>1, <1>2 DEF MediaTypes, OneJob, Readable, WorkerStates
<1>12. QED
  BY <1>10, <1>11 DEF MediaInv

LEMMA MediaNext ==
    ASSUME MediaInv, Media!Next
    PROVE  MediaInv'
<1>1. CASE \E x \in Readers, k \in MediaKeys : Media!Acquire(x, k)
  BY <1>1, MediaAcquire
<1>2. CASE \E x \in Readers : Media!Release(x)
  BY <1>2, MediaRelease
<1>3. CASE \E k \in MediaKeys : Media!Lookup(k)
  BY <1>3, MediaLookup
<1>4. CASE \E k \in MediaKeys : Media!Submit(k)
  BY <1>4, MediaSubmit
<1>5. CASE \E w \in Workers : \/ Media!Take(w) \/ Media!Admit(w) \/ Media!Refused(w)
                             \/ Media!Commit(w) \/ Media!Finish(w)
  BY <1>5, MediaTake, MediaAdmit, MediaRefused, MediaCommit, MediaFinish
<1>6. CASE \E w \in Workers, length \in (0..MaxFile) \cup {None}, stuck \in SUBSET Media!Indexed :
            Media!Respond(w, length, stuck)
  BY <1>6, MediaRespond
<1>7. CASE \E w \in Workers, stuck \in SUBSET Media!Indexed :
            Media!Write(w, stuck) \/ Media!WriteRefused(w, stuck)
  BY <1>7, MediaWrite, MediaWriteRefused
<1>8. CASE \E w \in Workers, stuck \in BOOLEAN : Media!Break(w, stuck) \/ Media!Abandon(w, stuck)
  BY <1>8, MediaBreak, MediaAbandon
<1>9. CASE Media!Close \/ Media!Closed
  BY <1>9, MediaClosing
<1>10. CASE Media!Restart
  BY <1>10, MediaRestart
<1>11. QED
  BY <1>1, <1>2, <1>3, <1>4, <1>5, <1>6, <1>7, <1>8, <1>9, <1>10 DEF Media!Next

LEMMA MediaProperties ==
    ASSUME MediaInv
    PROVE  Media!QuotaCoversDisk /\ Media!ReadersKeepTheirFile
<1> DEFINE writing == {w \in Workers : Media!Writing(w)}
           partial == {Media!Part(worker[w].key) : w \in writing}
<1>1. Covers(file, entry, used, reserved, worker)
  BY DEF MediaInv, DiskAccounted
<1>2. writing = WritingIn(worker)
  BY DEF WritingIn, Media!Writing
<1>3. \A f \in Media!Files \ partial : file[f] = entry[f]
  BY <1>1, <1>2 DEF Covers
<1>4. \A w \in writing : Media!Written(w) <= worker[w].bytes
  BY <1>1, <1>2 DEF Covers, Media!Written
<1>5. /\ used = Media!BytesOf(entry) /\ used + reserved <= MaxBytes
      /\ reserved = Media!Total([w \in writing |-> worker[w].bytes])
  BY <1>1, <1>2 DEF Covers
<1>6. Media!QuotaCoversDisk
  BY <1>3, <1>4, <1>5 DEF Media!QuotaCoversDisk
<1>7. Media!ReadersKeepTheirFile
  BY DEF MediaInv, Readable, Media!ReadersKeepTheirFile
<1>8. QED
  BY <1>6, <1>7

-----------------------------------------------------------------------------
(* Orders: a queue that is written has increasing orders, whatever rows it *)
(* is written over, so its rows read back in its order.                    *)

OrderTypes == row \in [Items -> Int \cup {None}] /\ desired \in Order!Queues
OrderInv == OrderTypes /\ Order!QueueReadsBack

LEMMA OrderQueue ==
    ASSUME NEW q \in Order!Queues
    PROVE  /\ Len(q) \in Nat /\ DOMAIN q = 1..Len(q) /\ q \in Seq(Items)
           /\ Len(q) <= Cardinality(Items) /\ \A n \in 1..Len(q) : q[n] \in Items
           /\ \A m, n \in 1..Len(q) : q[m] = q[n] => m = n
<1>1. Cardinality(Items) \in Nat
  BY FS_CardinalityType, ServicesAssumption
<1>2. PICK k \in 0..Cardinality(Items) : q \in [1..k -> Items]
  BY DEF Order!Queues, Order!SeqOf, Order!Cardinality, Cardinality
<1>3. Len(q) = k /\ k \in Nat /\ k <= Cardinality(Items) /\ q \in Seq(Items)
  BY <1>1, <1>2
<1>4. \A m, n \in DOMAIN q : q[m] = q[n] => m = n
  BY DEF Order!Queues, Order!IsInjective
<1>5. QED
  BY <1>2, <1>3, <1>4

LEMMA LeastNatural ==
    ASSUME NEW T, T \subseteq Nat, T # {}
    PROVE  \E n \in T : \A m \in T : n <= m
<1>1. IsWellFoundedOn(OpToRel(<, Nat), Nat)
  BY NatLessThanWellFounded
<1>2. PICK n \in T : \A m \in T : <<m, n>> \notin OpToRel(<, Nat)
  BY <1>1, WFMin
<1>3. \A i, j \in Nat : i < j => <<i, j>> \in OpToRel(<, Nat)
  BY DEF OpToRel
<1>4. ASSUME NEW m \in T PROVE n <= m
  <2>1. m \in Nat /\ n \in Nat
    OBVIOUS
  <2>2. ~(m < n)
    BY <1>2, <1>3, <2>1
  <2>3. QED
    BY <2>1, <2>2
<1>5. QED
  BY <1>4

LEMMA LeastOf ==
    ASSUME NEW T, T \subseteq Nat, T # {}
    PROVE  Order!Min(T) \in T /\ \A m \in T : Order!Min(T) <= m
BY LeastNatural DEF Order!Min

LEMMA GreatestOf ==
    ASSUME NEW N \in Nat, NEW T, T \subseteq 0..N, T # {}
    PROVE  Order!Max(T) \in T /\ \A m \in T : m <= Order!Max(T)
<1> DEFINE D == {N - m : m \in T}
<1>1. D \subseteq Nat /\ D # {}
  <2>1. \A m \in T : m \in Nat /\ m <= N
    OBVIOUS
  <2>2. \A m \in T : N - m \in Nat
    BY <2>1
  <2>3. QED
    BY <2>2
<1>2. PICK d \in D : \A e \in D : d <= e
  BY <1>1, LeastNatural
<1>3. PICK t \in T : d = N - t
  OBVIOUS
<1>4. \A m \in T : t >= m
  <2>1. \A m \in T : N - t <= N - m
    BY <1>2, <1>3
  <2>2. QED
    BY <2>1
<1>5. Order!Max(T) \in T /\ \A m \in T : Order!Max(T) >= m
  BY <1>4 DEF Order!Max
<1>6. QED
  BY <1>5

\* What the first k items of q make of the runs, one entry after each.
Grown(g, q, k) ==
    /\ g = [n \in 0..k |-> g[n]]
    /\ g[0] = <<>>
    /\ \A n \in 1..k : g[n] = IF q[n] \in Order!Existing THEN Order!Extended(g[n - 1], q[n]) ELSE g[n - 1]

LEMMA GrownExists ==
    ASSUME NEW q, NEW k \in Nat
    PROVE  \E g : Grown(g, q, k)
<1> DEFINE After(t, n) == IF q[n] \in Order!Existing THEN Order!Extended(t, q[n]) ELSE t
           T == {m \in Nat : ~ \E g : Grown(g, q, m)}
<1>1. \A g, m : Grown(g, q, m) <=> /\ g = [n \in 0..m |-> g[n]] /\ g[0] = <<>>
                                   /\ \A n \in 1..m : g[n] = After(g[n - 1], n)
  BY DEF Grown
<1> HIDE DEF After
<1> SUFFICES ASSUME T # {} PROVE FALSE
  OBVIOUS
<1>2. PICK l \in T : \A m \in T : l <= m
  BY LeastNatural
<1>3. l # 0
  <2> DEFINE f == [n \in 0..0 |-> <<>>]
  <2>1. f = [n \in 0..0 |-> f[n]] /\ f[0] = <<>> /\ 1..0 = {}
    OBVIOUS
  <2> HIDE DEF f
  <2>2. Grown(f, q, 0)
    BY <1>1, <2>1
  <2>3. QED
    BY <1>2, <2>2
<1>4. l \in Nat /\ l - 1 \in Nat /\ l - 1 < l
  BY <1>2, <1>3
<1>5. PICK g : Grown(g, q, l - 1)
  BY <1>2, <1>4
<1> DEFINE h == [n \in 0..l |-> IF n = l THEN After(g[l - 1], l) ELSE g[n]]
<1>6. h = [n \in 0..l |-> h[n]]
  OBVIOUS
<1>7. h[0] = <<>>
  <2>1. 0 \in 0..l /\ 0 # l /\ g[0] = <<>>
    BY <1>1, <1>3, <1>4, <1>5
  <2>2. QED
    BY <2>1
<1>8. ASSUME NEW n \in 1..l PROVE h[n] = After(h[n - 1], n)
  <2>1. n - 1 \in 0..l /\ n - 1 # l /\ n \in 0..l
    BY <1>4
  <2>2. h[n - 1] = g[n - 1]
    BY <2>1
  <2>3. CASE n = l
    BY <2>1, <2>2, <2>3
  <2>4. CASE n # l
    <3>1. n \in 1..(l - 1)
      BY <1>4, <2>4
    <3>2. g[n] = After(g[n - 1], n)
      BY <1>1, <1>5, <3>1
    <3>3. QED
      BY <2>1, <2>2, <2>4, <3>2
  <2>5. QED
    BY <2>3, <2>4
<1> HIDE DEF h
<1>9. Grown(h, q, l)
  BY <1>1, <1>6, <1>7, <1>8
<1>10. QED
  BY <1>2, <1>9

LEMMA LongestGrown ==
    ASSUME NEW q, Len(q) \in Nat
    PROVE  \E g : /\ Grown(g, q, Len(q))
                  /\ Order!LongestIncreasing(q) = IF g[Len(q)] = <<>> THEN {}
                                                  ELSE g[Len(q)][Len(g[Len(q)])].run
<1> DEFINE k == Len(q)
           After(t, n) == IF q[n] \in Order!Existing THEN Order!Extended(t, q[n]) ELSE t
           Is(f) == f = [n \in 0..k |-> IF n = 0 THEN <<>> ELSE After(f[n - 1], n)]
           tails == CHOOSE f : Is(f)
<1>1. Order!LongestIncreasing(q) = IF tails[k] = <<>> THEN {} ELSE tails[k][Len(tails[k])].run
  BY DEF Order!LongestIncreasing, Order!Last
<1>2. PICK g : Grown(g, q, k)
  BY GrownExists
<1>3. \A f : Grown(f, q, k) <=> /\ f = [n \in 0..k |-> f[n]] /\ f[0] = <<>>
                                /\ \A n \in 1..k : f[n] = After(f[n - 1], n)
  BY DEF Grown
<1> HIDE DEF After
<1>4. Is(g)
  <2>1. /\ g = [n \in 0..k |-> g[n]] /\ g[0] = <<>>
        /\ \A n \in 1..k : g[n] = After(g[n - 1], n)
    BY <1>2, <1>3
  <2>2. \A n \in 0..k : n # 0 => n \in 1..k
    OBVIOUS
  <2>3. \A n \in 0..k : g[n] = IF n = 0 THEN <<>> ELSE After(g[n - 1], n)
    BY <2>1, <2>2
  <2> HIDE DEF k
  <2>4. QED
    BY <2>1, <2>3
<1>5. Is(tails)
  <2> HIDE DEF Is
  <2>1. QED
    BY <1>4
<1>6. Grown(tails, q, k)
  <2> HIDE DEF tails
  <2>1. tails = [n \in 0..k |-> IF n = 0 THEN <<>> ELSE After(tails[n - 1], n)]
    BY <1>5
  <2>2. \A n \in 0..k : tails[n] = IF n = 0 THEN <<>> ELSE After(tails[n - 1], n)
    BY <2>1
  <2>3. tails = [n \in 0..k |-> tails[n]]
    BY <2>1
  <2>4. 0 \in 0..k /\ \A n \in 1..k : n \in 0..k /\ n # 0
    OBVIOUS
  <2>5. QED
    BY <1>3, <2>2, <2>3, <2>4
<1> HIDE DEF tails, k
<1>7. QED
  BY <1>1, <1>6 DEF k

\* The increasing runs of rows among the first n items of q.
RunsTo(q, n) ==
    {t \in [end : Items, run : SUBSET Items] :
        /\ t.end \in t.run /\ t.run \subseteq Order!Existing
        /\ \A i \in t.run : row[i] <= row[t.end]
        /\ \A i \in t.run : \E m \in 1..n : q[m] = i
        /\ \A l, m \in 1..Len(q) : l < m /\ q[l] \in t.run /\ q[m] \in t.run => row[q[l]] < row[q[m]]}

\* A run that goes on with the next item stays one.
LEMMA RunGoesOn ==
    ASSUME OrderTypes, NEW q \in Order!Queues, NEW n \in 1..Len(q), q[n] \in Order!Existing,
           NEW t \in RunsTo(q, n - 1), row[t.end] < row[q[n]]
    PROVE  [end |-> q[n], run |-> {q[n]} \cup t.run] \in RunsTo(q, n)
<1> DEFINE i == q[n]
           new == [end |-> i, run |-> {i} \cup t.run]
<1>1. /\ t.end \in t.run /\ t.run \subseteq Order!Existing /\ t.run \subseteq Items /\ t.end \in Items
      /\ \A j \in t.run : row[j] <= row[t.end]
      /\ \A j \in t.run : \E m \in 1..(n - 1) : q[m] = j
      /\ \A l, m \in 1..Len(q) : l < m /\ q[l] \in t.run /\ q[m] \in t.run => row[q[l]] < row[q[m]]
  BY DEF RunsTo
<1>2. /\ Len(q) \in Nat /\ n \in Nat /\ n - 1 \in Nat /\ i \in Items
      /\ \A l, m \in 1..Len(q) : q[l] = q[m] => l = m
  BY OrderQueue
<1>3. \A j \in Order!Existing : row[j] \in Int
  BY DEF OrderTypes, Order!Existing
<1>4. row[i] \in Int /\ row[t.end] \in Int
  BY <1>1, <1>3
<1>5. \A j \in t.run : row[j] \in Int /\ row[j] < row[i]
  <2>1. \A j \in t.run : row[j] \in Int /\ row[j] <= row[t.end]
    BY <1>1, <1>3
  <2>2. QED
    BY <1>4, <2>1
<1>6. \A m \in 1..Len(q) : q[m] \in t.run => m < n
  <2>1. SUFFICES ASSUME NEW m \in 1..Len(q), q[m] \in t.run PROVE m < n
    OBVIOUS
  <2>2. PICK l \in 1..(n - 1) : q[l] = q[m]
    BY <1>1, <2>1
  <2>3. l \in 1..Len(q) /\ l < n
    BY <1>2
  <2>4. QED
    BY <1>2, <2>2, <2>3
<1>7. \A m \in 1..Len(q) : q[m] = i => m = n
  BY <1>2
<1>8. ASSUME NEW l \in 1..Len(q), NEW m \in 1..Len(q), l < m, q[l] \in {i} \cup t.run, q[m] \in {i} \cup t.run
      PROVE  row[q[l]] < row[q[m]]
  <2>1. CASE q[m] = i
    <3>1. m = n /\ l # n
      BY <1>2, <1>7, <1>8, <2>1
    <3>2. q[l] # i
      BY <1>7, <3>1
    <3>3. QED
      BY <1>5, <1>8, <2>1, <3>2
  <2>2. CASE q[m] # i
    <3>1. m < n /\ q[m] \in t.run
      BY <1>6, <1>8, <2>2
    <3>2. l # n
      BY <1>2, <1>8, <3>1
    <3>3. q[l] \in t.run
      BY <1>7, <1>8, <3>2
    <3>4. QED
      BY <1>1, <1>8, <3>1, <3>3
  <2>3. QED
    BY <2>1, <2>2
<1>9. \A j \in {i} \cup t.run : \E m \in 1..n : q[m] = j
  <2>1. 1..(n - 1) \subseteq 1..n /\ n \in 1..n
    BY <1>2
  <2>2. QED
    BY <1>1, <2>1
<1>10. \A j \in {i} \cup t.run : row[j] <= row[i]
  <2>1. \A j \in t.run : row[j] <= row[i]
    BY <1>4, <1>5
  <2>2. row[i] <= row[i]
    BY <1>4
  <2>3. QED
    BY <2>1, <2>2
<1>11. {i} \cup t.run \subseteq Order!Existing /\ {i} \cup t.run \subseteq Items
  BY <1>1, <1>2
<1>12. new.end = i /\ new.run = {i} \cup t.run /\ new \in [end : Items, run : SUBSET Items]
  BY <1>2, <1>11
<1> HIDE DEF new, i
<1>13. new \in RunsTo(q, n)
  BY <1>8, <1>9, <1>10, <1>11, <1>12 DEF RunsTo
<1>14. QED
  BY <1>13 DEF new, i

LEMMA RunStarts ==
    ASSUME OrderTypes, NEW q \in Order!Queues, NEW n \in 1..Len(q), q[n] \in Order!Existing
    PROVE  [end |-> q[n], run |-> {q[n]}] \in RunsTo(q, n)
<1>1. q[n] \in Items /\ n \in 1..n /\ \A l, m \in 1..Len(q) : q[l] = q[m] => l = m
  BY OrderQueue
<1>2. row[q[n]] <= row[q[n]]
  <2>1. row[q[n]] \in Int
    BY <1>1 DEF OrderTypes, Order!Existing
  <2>2. QED
    BY <2>1
<1>3. \A l, m \in 1..Len(q) : l < m => ~(q[l] \in {q[n]} /\ q[m] \in {q[n]})
  BY <1>1
<1>4. QED
  BY <1>1, <1>2, <1>3 DEF RunsTo

LEMMA RunsStay ==
    ASSUME NEW q, NEW n \in Nat \ {0}, NEW t \in RunsTo(q, n - 1)
    PROVE  t \in RunsTo(q, n)
<1>1. 1..(n - 1) \subseteq 1..n
  OBVIOUS
<1>2. QED
  BY <1>1 DEF RunsTo

LEMMA ExtendedRuns ==
    ASSUME OrderTypes, NEW q \in Order!Queues, NEW n \in 1..Len(q), q[n] \in Order!Existing,
           NEW ts \in Seq(RunsTo(q, n - 1))
    PROVE  Order!Extended(ts, q[n]) \in Seq(RunsTo(q, n))
<1> DEFINE i == q[n]
           k == Len(ts)
           B == {m \in DOMAIN ts : row[ts[m].end] >= row[i]} \cup {k + 1}
           low == Order!Min(B)
           longer == [end |-> i, run |-> {i} \cup (IF low = 1 THEN {} ELSE ts[low - 1].run)]
<1>1. k \in Nat /\ DOMAIN ts = 1..k /\ \A m \in 1..k : ts[m] \in RunsTo(q, n - 1)
  BY LenProperties, ElementOfSeq
<1>2. B \subseteq Nat /\ B # {} /\ B \subseteq 1..(k + 1)
  BY <1>1
<1>3. low \in B /\ \A m \in B : low <= m
  <2> HIDE DEF B
  <2>1. QED
    BY <1>2, LeastOf
<1>4. low \in 1..(k + 1)
  BY <1>2, <1>3
<1>5. Order!Extended(ts, i) = IF low > k THEN Append(ts, longer) ELSE [ts EXCEPT ![low] = longer]
  BY DEF Order!Extended
<1> HIDE DEF low
<1>6. longer \in RunsTo(q, n)
  <2>1. CASE low = 1
    <3>1. longer = [end |-> q[n], run |-> {q[n]}]
      BY <2>1
    <3>2. QED
      BY <3>1, RunStarts
  <2>2. CASE low # 1
    <3>1. low - 1 \in 1..k /\ low - 1 < low
      BY <1>1, <1>4, <2>2
    <3>2. low - 1 \notin B
      <4>1. low - 1 \in B => low <= low - 1
        BY <1>3
      <4>2. QED
        BY <1>4, <4>1
    <3>3. ~(row[ts[low - 1].end] >= row[i])
      BY <1>1, <3>1, <3>2
    <3>4. ts[low - 1] \in RunsTo(q, n - 1)
      BY <1>1, <3>1
    <3>5. ts[low - 1].end \in Order!Existing
      BY <3>4 DEF RunsTo
    <3>6. row[ts[low - 1].end] \in Int /\ row[i] \in Int
      BY <3>5 DEF OrderTypes, Order!Existing
    <3>7. row[ts[low - 1].end] < row[q[n]]
      BY <3>3, <3>6
    <3>8. [end |-> q[n], run |-> {q[n]} \cup ts[low - 1].run] \in RunsTo(q, n)
      BY <3>4, <3>7, RunGoesOn
    <3>9. QED
      BY <2>2, <3>8
  <2>3. QED
    BY <2>1, <2>2
<1> HIDE DEF longer, B
<1>7. ts \in Seq(RunsTo(q, n))
  <2>1. n \in Nat \ {0}
    BY OrderQueue
  <2>2. \A m \in 1..k : ts[m] \in RunsTo(q, n)
    BY <1>1, <2>1, RunsStay
  <2>3. ts = [m \in 1..k |-> ts[m]]
    BY <1>1
  <2>4. QED
    BY <1>1, <2>2, <2>3
<1>8. CASE low > k
  <2>1. Append(ts, longer) \in Seq(RunsTo(q, n))
    BY <1>6, <1>7
  <2>2. QED
    BY <1>5, <1>8, <2>1
<1>9. CASE ~(low > k)
  <2>1. low \in 1..k
    BY <1>1, <1>4, <1>9
  <2>2. [ts EXCEPT ![low] = longer] \in Seq(RunsTo(q, n))
    BY <1>6, <1>7, <2>1, ExceptSeq
  <2>3. QED
    BY <1>5, <1>9, <2>2
<1>10. QED
  BY <1>8, <1>9

LEMMA GrownRuns ==
    ASSUME OrderTypes, NEW q \in Order!Queues, NEW g, Grown(g, q, Len(q))
    PROVE  g[Len(q)] \in Seq(RunsTo(q, Len(q)))
<1> DEFINE T == {n \in 0..Len(q) : g[n] \notin Seq(RunsTo(q, n))}
<1>1. Len(q) \in Nat
  BY OrderQueue
<1>2. SUFFICES ASSUME T # {} PROVE FALSE
  <2>1. Len(q) \in 0..Len(q)
    BY <1>1
  <2>2. QED
    BY <2>1
<1>3. PICK n \in T : \A m \in T : n <= m
  <2>1. T \subseteq Nat
    BY <1>1
  <2>2. QED
    BY <1>2, <2>1, LeastNatural
<1>4. n # 0
  <2>1. g[0] = <<>> /\ <<>> \in Seq(RunsTo(q, 0))
    BY DEF Grown
  <2>2. QED
    BY <1>3, <2>1
<1>5. n \in 1..Len(q) /\ n \in Nat \ {0} /\ n - 1 \in 0..Len(q) /\ n - 1 < n
  BY <1>1, <1>3, <1>4
<1>6. n - 1 \notin T
  <2>1. n - 1 \in T => n <= n - 1
    BY <1>3
  <2>2. QED
    BY <1>5, <2>1
<1>7. g[n - 1] \in Seq(RunsTo(q, n - 1))
  BY <1>5, <1>6
<1>8. g[n] = IF q[n] \in Order!Existing THEN Order!Extended(g[n - 1], q[n]) ELSE g[n - 1]
  BY <1>5 DEF Grown
<1>9. CASE q[n] \in Order!Existing
  <2>1. g[n] \in Seq(RunsTo(q, n))
    BY <1>5, <1>7, <1>8, <1>9, ExtendedRuns
  <2>2. QED
    BY <1>3, <2>1
<1>10. CASE q[n] \notin Order!Existing
  <2>1. RunsTo(q, n - 1) \subseteq RunsTo(q, n)
    BY <1>5, RunsStay
  <2>2. g[n - 1] \in Seq(RunsTo(q, n))
    BY <1>7, <2>1
  <2>3. QED
    BY <1>3, <1>8, <1>10, <2>2
<1>11. QED
  BY <1>9, <1>10

\* What keeps its orders has a row, and its orders increase along the queue.
LEMMA LongestIncreases ==
    ASSUME OrderTypes, NEW q \in Order!Queues
    PROVE  LET kept == Order!LongestIncreasing(q)
           IN  /\ kept \subseteq Order!Existing
               /\ \A l, m \in 1..Len(q) : l < m /\ q[l] \in kept /\ q[m] \in kept => row[q[l]] < row[q[m]]
<1>1. Len(q) \in Nat
  BY OrderQueue
<1>2. PICK g : /\ Grown(g, q, Len(q))
               /\ Order!LongestIncreasing(q) = IF g[Len(q)] = <<>> THEN {}
                                               ELSE g[Len(q)][Len(g[Len(q)])].run
  BY <1>1, LongestGrown
<1> DEFINE ts == g[Len(q)]
<1>3. ts \in Seq(RunsTo(q, Len(q)))
  BY <1>2, GrownRuns
<1> HIDE DEF ts
<1>4. CASE ts = <<>>
  BY <1>2, <1>4 DEF ts
<1>5. CASE ts # <<>>
  <2>1. Len(ts) \in 1..Len(ts)
    BY <1>3, <1>5
  <2>2. ts[Len(ts)] \in RunsTo(q, Len(q))
    BY <1>3, <2>1, ElementOfSeq
  <2>3. Order!LongestIncreasing(q) = ts[Len(ts)].run
    BY <1>2, <1>5 DEF ts
  <2>4. QED
    BY <2>2, <2>3 DEF RunsTo
<1>6. QED
  BY <1>4, <1>5

\* The nearest items before and after the n-th that keep their orders.
LEMMA LeftNeighbour ==
    ASSUME NEW q, NEW kept, NEW n \in Nat \ {0}
    PROVE  LET left == Order!LeftOf(kept, q, n)
           IN  /\ left \in 0..(n - 1)
               /\ left # 0 => q[left] \in kept
               /\ \A m \in (left + 1)..(n - 1) : q[m] \notin kept
<1> DEFINE T == {0} \cup {m \in 1..(n - 1) : q[m] \in kept}
           left == Order!LeftOf(kept, q, n)
<1>1. T \subseteq 0..(n - 1) /\ T # {} /\ n - 1 \in Nat
  OBVIOUS
<1>2. left \in T /\ \A m \in T : m <= left
  <2>1. left = Order!Max(T)
    BY DEF Order!LeftOf
  <2> HIDE DEF T, left
  <2>2. QED
    BY <1>1, <2>1, GreatestOf
<1> HIDE DEF left
<1>3. left \in 0..(n - 1)
  BY <1>1, <1>2
<1>4. ASSUME NEW m \in (left + 1)..(n - 1) PROVE q[m] \notin kept
  <2>1. m \in 1..(n - 1) /\ ~(m <= left)
    BY <1>3
  <2>2. QED
    BY <1>2, <2>1
<1>5. left # 0 => q[left] \in kept
  BY <1>2
<1>6. QED
  BY <1>3, <1>4, <1>5 DEF left

LEMMA RightNeighbour ==
    ASSUME NEW q, Len(q) \in Nat, NEW kept, NEW n \in 1..Len(q)
    PROVE  LET right == Order!RightOf(kept, q, n)
           IN  /\ right \in (n + 1)..(Len(q) + 1)
               /\ right # Len(q) + 1 => q[right] \in kept
               /\ \A m \in (n + 1)..(right - 1) : q[m] \notin kept
<1> DEFINE N == Len(q)
           T == {N + 1} \cup {m \in (n + 1)..N : q[m] \in kept}
           right == Order!RightOf(kept, q, n)
<1>1. T \subseteq (n + 1)..(N + 1) /\ T # {} /\ T \subseteq Nat
  <2> HIDE DEF N
  <2>1. N \in Nat /\ n \in 1..N
    BY DEF N
  <2>2. QED
    BY <2>1
<1>2. right \in T /\ \A m \in T : right <= m
  <2>1. right = Order!Min(T)
    BY DEF Order!RightOf
  <2> HIDE DEF T, right
  <2>2. QED
    BY <1>1, <2>1, LeastOf
<1> HIDE DEF right
<1>3. right \in (n + 1)..(N + 1)
  BY <1>1, <1>2
<1>4. ASSUME NEW m \in (n + 1)..(right - 1) PROVE q[m] \notin kept
  <2>1. m \in (n + 1)..N /\ ~(right <= m)
    BY <1>3
  <2>2. QED
    BY <1>2, <2>1
<1>5. right # N + 1 => q[right] \in kept
  BY <1>2
<1>6. QED
  BY <1>3, <1>4, <1>5 DEF right

\* Between two orders as far apart as the items between them are many, the
\* spread orders increase.
LEMMA Quotients ==
    ASSUME NEW x \in Int, NEW y \in Int, NEW c \in Nat \ {0}, y >= x + c
    PROVE  x \div c < y \div c
<1> DEFINE i == x \div c
           j == y \div c
<1>1. i \in Int /\ c * i <= x /\ x < c * (i + 1)
  OBVIOUS
<1>2. j \in Int /\ c * j <= y /\ y < c * (j + 1)
  OBVIOUS
<1> HIDE DEF i, j
<1>3. SUFFICES ASSUME ~(i < j) PROVE FALSE
  BY DEF i, j
<1>4. j + 1 <= i + 1
  BY <1>1, <1>2, <1>3
<1>5. c * (j + 1) <= c * (i + 1)
  BY <1>1, <1>2, <1>4
<1>6. c * (i + 1) = c * i + c
  BY <1>1
<1>7. c * i \in Int /\ c * (j + 1) \in Int /\ c * (i + 1) \in Int
  BY <1>1, <1>2
<1>8. QED
  BY <1>1, <1>2, <1>5, <1>6, <1>7

LEMMA SpreadOut ==
    ASSUME NEW a \in Int, NEW b \in Int, NEW c \in Nat \ {0}, b - a >= c
    PROVE  /\ \A k \in 0..c : a + ((b - a) * k) \div c \in Int
           /\ \A k \in 0..(c - 1) : a + ((b - a) * k) \div c < a + ((b - a) * (k + 1)) \div c
           /\ a + ((b - a) * 0) \div c = a
           /\ a + ((b - a) * c) \div c = b
<1> DEFINE d == b - a
<1>1. d \in Int /\ d >= c /\ c \in Nat \ {0} /\ a + d = b
  OBVIOUS
<1> HIDE DEF d
<1>2. \A k \in 0..c : d * k \in Int /\ (d * k) \div c \in Int
  BY <1>1
<1>3. ASSUME NEW k \in 0..(c - 1) PROVE a + (d * k) \div c < a + (d * (k + 1)) \div c
  <2>1. d * k \in Int /\ d * (k + 1) \in Int /\ d * (k + 1) = d * k + d
    BY <1>1
  <2>2. d * (k + 1) >= d * k + c
    BY <1>1, <2>1
  <2>3. (d * k) \div c < (d * (k + 1)) \div c
    BY <1>1, <2>1, <2>2, Quotients
  <2>4. (d * k) \div c \in Int /\ (d * (k + 1)) \div c \in Int
    BY <1>1, <2>1
  <2>5. QED
    BY <2>3, <2>4
<1>4. (d * 0) \div c = 0
  <2>1. d * 0 = 0 /\ 0 \div c = 0
    BY <1>1
  <2>2. QED
    BY <2>1
<1>5. (d * c) \div c = d
  BY <1>1
<1>6. QED
  BY <1>1, <1>2, <1>3, <1>4, <1>5 DEF d

LEMMA StepsIncrease ==
    ASSUME NEW N \in Nat, NEW f, \A n \in 1..N : f[n] \in Int,
           \A n \in 1..N : n < N => f[n] < f[n + 1]
    PROVE  \A m, n \in 1..N : m < n => f[m] < f[n]
<1> SUFFICES ASSUME NEW m \in 1..N, NEW n \in 1..N, m < n, ~(f[m] < f[n])
             PROVE  FALSE
  OBVIOUS
<1> DEFINE T == {l \in 1..N : m < l /\ ~(f[m] < f[l])}
<1>1. PICK l \in T : \A k \in T : l <= k
  <2>1. T \subseteq Nat /\ n \in T
    OBVIOUS
  <2>2. QED
    BY <2>1, LeastNatural
<1>2. l \in 1..N /\ m < l /\ ~(f[m] < f[l])
  OBVIOUS
<1>3. l - 1 \in 1..N /\ l - 1 < N /\ (l - 1) + 1 = l /\ m <= l - 1 /\ ~(l <= l - 1)
  BY <1>2
<1>4. f[l - 1] < f[l] /\ f[l - 1] \in Int /\ f[l] \in Int /\ f[m] \in Int
  BY <1>2, <1>3
<1>5. CASE l - 1 = m
  BY <1>2, <1>4, <1>5
<1>6. CASE l - 1 # m
  <2>1. l - 1 \notin T
    BY <1>1, <1>3
  <2>2. f[m] < f[l - 1]
    BY <1>3, <1>6, <2>1
  <2>3. QED
    BY <1>2, <1>4, <2>2
<1>7. QED
  BY <1>5, <1>6

LEMMA Multiples ==
    \A n \in Int : n * Step \in Int /\ (n + 1) * Step \in Int /\ n * Step < (n + 1) * Step
<1>1. Step \in Int /\ 0 < Step
  BY ServicesAssumption
<1>2. \A n \in Int : n * Step \in Int /\ (n + 1) * Step = n * Step + Step
  BY <1>1
<1>3. QED
  BY <1>1, <1>2

\* The items between two neighbours increase from one to the other.
LEMMA BetweenIncreases ==
    ASSUME NEW q, Len(q) \in Nat, NEW l \in 0..Len(q), NEW r \in (l + 1)..(Len(q) + 1),
           l # 0 => row[q[l]] \in Int,
           r # Len(q) + 1 => row[q[r]] \in Int,
           l # 0 /\ r # Len(q) + 1 => row[q[r]] - row[q[l]] >= r - l
    PROVE  /\ \A n \in (l + 1)..(r - 1) : Order!Between(q, l, r, n) \in Int
           /\ \A n \in (l + 1)..(r - 1) :
                n + 1 < r => Order!Between(q, l, r, n) < Order!Between(q, l, r, n + 1)
           /\ l # 0 => row[q[l]] < Order!Between(q, l, r, l + 1) \/ r = l + 1
           /\ r # Len(q) + 1 => Order!Between(q, l, r, r - 1) < row[q[r]] \/ r = l + 1
<1> DEFINE N == Len(q)
           o(n) == Order!Between(q, l, r, n)
           a == row[q[l]]
           b == row[q[r]]
<1>1. l \in Nat /\ r \in Nat /\ N \in Nat /\ l < r /\ l <= N /\ r <= N + 1
  OBVIOUS
<1>2. \A n : o(n) = IF l = 0 /\ r <= N THEN b - (r - n) * Step
                    ELSE IF l > 0 /\ r > N THEN a + (n - l) * Step
                    ELSE IF l > 0 THEN a + ((b - a) * (n - l)) \div (r - l)
                    ELSE n * Step
  BY DEF Order!Between
<1>3. /\ l # 0 => a \in Int
      /\ r # N + 1 => b \in Int
      /\ l # 0 /\ r # N + 1 => b - a >= r - l
  OBVIOUS
<1> HIDE DEF N, o, a, b
<1>4. CASE l = 0 /\ r # N + 1
  <2>1. b \in Int /\ \A n : o(n) = b - (r - n) * Step
    BY <1>1, <1>2, <1>3, <1>4
  <2>2. \A n \in Int : r - n \in Int /\ r - (n + 1) \in Int /\ (r - (n + 1)) + 1 = r - n
    BY <1>1
  <2>3. \A n \in Int : /\ (r - n) * Step \in Int /\ (r - (n + 1)) * Step \in Int
                       /\ (r - (n + 1)) * Step < (r - n) * Step
    BY <2>2, Multiples
  <2>4. ASSUME NEW n \in Int PROVE o(n) \in Int /\ o(n) < o(n + 1)
    <3> DEFINE x == (r - n) * Step
               y == (r - (n + 1)) * Step
    <3>1. o(n) = b - x /\ o(n + 1) = b - y
      BY <2>1
    <3>2. x \in Int /\ y \in Int /\ y < x
      BY <2>3
    <3> HIDE DEF x, y
    <3>3. QED
      BY <2>1, <3>1, <3>2
  <2>5. o(r) = b /\ r - 1 \in Int /\ (r - 1) + 1 = r
    <3>1. r - r = 0 /\ 0 * Step = 0 /\ b - 0 = b
      BY <1>1, <2>1, ServicesAssumption
    <3>2. QED
      BY <1>1, <2>1, <3>1
  <2>6. o(r - 1) < b
    BY <2>4, <2>5
  <2>7. \A n \in (l + 1)..(r - 1) : n \in Int
    OBVIOUS
  <2>8. QED
    BY <1>4, <2>4, <2>6, <2>7 DEF o, b, N
<1>5. CASE l # 0 /\ r = N + 1
  <2>1. a \in Int /\ \A n : o(n) = a + (n - l) * Step
    BY <1>1, <1>2, <1>3, <1>5
  <2>2. \A n \in Int : n - l \in Int /\ (n + 1) - l = (n - l) + 1
    BY <1>1
  <2>3. \A n \in Int : /\ (n - l) * Step \in Int /\ ((n + 1) - l) * Step \in Int
                       /\ (n - l) * Step < ((n + 1) - l) * Step
    BY <2>2, Multiples
  <2>4. ASSUME NEW n \in Int PROVE o(n) \in Int /\ o(n) < o(n + 1)
    <3> DEFINE x == (n - l) * Step
               y == ((n + 1) - l) * Step
    <3>1. o(n) = a + x /\ o(n + 1) = a + y
      BY <2>1
    <3>2. x \in Int /\ y \in Int /\ x < y
      BY <2>3
    <3> HIDE DEF x, y
    <3>3. QED
      BY <2>1, <3>1, <3>2
  <2>5. o(l) = a
    <3>1. l - l = 0 /\ 0 * Step = 0 /\ a + 0 = a
      BY <1>1, <2>1, ServicesAssumption
    <3>2. QED
      BY <1>1, <2>1, <3>1
  <2>6. a < o(l + 1)
    BY <1>1, <2>4, <2>5
  <2>7. \A n \in (l + 1)..(r - 1) : n \in Int
    OBVIOUS
  <2>8. QED
    BY <1>5, <2>4, <2>6, <2>7 DEF o, a, N
<1>6. CASE l # 0 /\ r # N + 1
  <2> DEFINE c == r - l
  <2>1. /\ a \in Int /\ b \in Int /\ b - a >= c /\ c \in Nat \ {0}
        /\ \A n : o(n) = a + ((b - a) * (n - l)) \div c
    BY <1>1, <1>2, <1>3, <1>6
  <2>2. /\ \A k \in 0..c : a + ((b - a) * k) \div c \in Int
        /\ \A k \in 0..(c - 1) : a + ((b - a) * k) \div c < a + ((b - a) * (k + 1)) \div c
        /\ a + ((b - a) * 0) \div c = a
        /\ a + ((b - a) * c) \div c = b
    <3> HIDE DEF c
    <3>1. QED
      BY <2>1, SpreadOut
  <2>3. \A n \in l..r : n - l \in 0..c
    BY <1>1
  <2>4. \A n \in l..(r - 1) : n - l \in 0..(c - 1) /\ (n + 1) - l = (n - l) + 1
    BY <1>1
  <2>5. l - l = 0 /\ r - l = c /\ l \in l..(r - 1) /\ r - 1 \in l..(r - 1) /\ (r - 1) + 1 = r
    BY <1>1
  <2> HIDE DEF c
  <2>6. \A n \in l..r : o(n) \in Int
    BY <2>1, <2>2, <2>3
  <2>7. \A n \in l..(r - 1) : o(n) < o(n + 1)
    BY <2>1, <2>2, <2>4
  <2>8. o(l) = a /\ o(r) = b
    BY <2>1, <2>2, <2>5
  <2>9. a < o(l + 1) /\ o(r - 1) < b
    BY <2>5, <2>7, <2>8
  <2>10. \A n \in (l + 1)..(r - 1) : n \in l..r /\ n \in l..(r - 1)
    BY <1>1
  <2>11. QED
    BY <2>6, <2>7, <2>9, <2>10 DEF o, a, b
<1>7. CASE l = 0 /\ r = N + 1
  <2>1. \A n : o(n) = n * Step
    BY <1>1, <1>2, <1>7
  <2>2. \A n \in Int : o(n) \in Int /\ o(n) < o(n + 1)
    BY <2>1, Multiples
  <2>3. \A n \in (l + 1)..(r - 1) : n \in Int
    OBVIOUS
  <2>4. QED
    BY <1>7, <2>2, <2>3 DEF o, N
<1>8. QED
  BY <1>4, <1>5, <1>6, <1>7

LEMMA DenseIncreases ==
    ASSUME NEW q, Len(q) \in Nat, DOMAIN q = 1..Len(q)
    PROVE  LET o == Order!Dense(q)
           IN  /\ \A n \in 1..Len(q) : o[n] \in Int
               /\ \A m, n \in 1..Len(q) : m < n => o[m] < o[n]
<1> DEFINE o == Order!Dense(q)
<1>1. \A n \in 1..Len(q) : o[n] = n * Step /\ n \in Int
  BY DEF Order!Dense
<1>2. \A n \in 1..Len(q) : n < Len(q) => o[n + 1] = (n + 1) * Step
  <2>1. \A n \in 1..Len(q) : n < Len(q) => n + 1 \in 1..Len(q)
    OBVIOUS
  <2>2. QED
    BY <2>1, <1>1
<1> HIDE DEF o
<1>3. \A n \in 1..Len(q) : o[n] \in Int
  BY <1>1, Multiples
<1>4. \A n \in 1..Len(q) : n < Len(q) => o[n] < o[n + 1]
  BY <1>1, <1>2, Multiples
<1>5. \A m, n \in 1..Len(q) : m < n => o[m] < o[n]
  BY <1>3, <1>4, StepsIncrease
<1>6. QED
  BY <1>3, <1>5 DEF o

\* Orders that some items keep and the others get from their neighbours.
LEMMA FittedIncreases ==
    ASSUME NEW q, Len(q) \in Nat, NEW kept, NEW o,
           \A n \in 1..Len(q) : q[n] \in kept => row[q[n]] \in Int,
           \A l, m \in 1..Len(q) : l < m /\ q[l] \in kept /\ q[m] \in kept => row[q[l]] < row[q[m]],
           \A n \in 1..Len(q) : q[n] \notin kept =>
              ~Order!Crowded(q, kept, Order!LeftOf(kept, q, n), Order!RightOf(kept, q, n)),
           \A n \in 1..Len(q) : o[n] = IF q[n] \notin kept
              THEN Order!Between(q, Order!LeftOf(kept, q, n), Order!RightOf(kept, q, n), n)
              ELSE row[q[n]]
    PROVE  /\ \A n \in 1..Len(q) : o[n] \in Int
           /\ \A m, n \in 1..Len(q) : m < n => o[m] < o[n]
<1> DEFINE N == Len(q)
           L(n) == Order!LeftOf(kept, q, n)
           R(n) == Order!RightOf(kept, q, n)
           B(l, r, n) == Order!Between(q, l, r, n)
<1>1. ASSUME NEW n \in 1..N
      PROVE  /\ L(n) \in 0..(n - 1) /\ R(n) \in (n + 1)..(N + 1)
             /\ L(n) # 0 => q[L(n)] \in kept
             /\ R(n) # N + 1 => q[R(n)] \in kept
             /\ \A m \in (L(n) + 1)..(n - 1) : q[m] \notin kept
             /\ \A m \in (n + 1)..(R(n) - 1) : q[m] \notin kept
  <2>1. n \in Nat \ {0}
    OBVIOUS
  <2>2. QED
    BY <2>1, LeftNeighbour, RightNeighbour
<1>2. ASSUME NEW n \in 1..N, q[n] \notin kept
      PROVE  L(n) # 0 /\ R(n) # N + 1 => row[q[R(n)]] - row[q[L(n)]] >= R(n) - L(n)
  <2>1. SUFFICES ASSUME L(n) # 0, R(n) # N + 1 PROVE row[q[R(n)]] - row[q[L(n)]] >= R(n) - L(n)
    OBVIOUS
  <2> DEFINE l == L(n)
             r == R(n)
  <2>2. l \in 1..N /\ r \in 1..N /\ q[l] \in kept /\ q[r] \in kept
    <3>1. /\ l \in 0..(n - 1) /\ r \in (n + 1)..(N + 1) /\ l # 0 /\ r # N + 1
          /\ q[l] \in kept /\ q[r] \in kept
      BY <1>1, <2>1
    <3> HIDE DEF l, r
    <3>2. QED
      BY <3>1
  <2>3. ~Order!Crowded(q, kept, l, r)
    BY <1>2
  <2> HIDE DEF l, r, N
  <2>4. ~(row[q[r]] - row[q[l]] <= r - l - 1)
    BY <2>2, <2>3 DEF Order!Crowded, N
  <2>5. row[q[r]] \in Int /\ row[q[l]] \in Int
    BY <2>2 DEF N
  <2>6. row[q[r]] - row[q[l]] >= r - l
    BY <2>2, <2>4, <2>5
  <2>7. QED
    BY <2>6 DEF l, r
<1>3. \A n \in 1..N : /\ q[n] \notin kept => o[n] = B(L(n), R(n), n)
                      /\ q[n] \in kept => o[n] = row[q[n]] /\ o[n] \in Int
  OBVIOUS
<1>4. ASSUME NEW n \in 1..N, q[n] \notin kept
      PROVE  LET l == L(n)
                 r == R(n)
             IN  /\ \A m \in (l + 1)..(r - 1) : B(l, r, m) \in Int
                 /\ \A m \in (l + 1)..(r - 1) : m + 1 < r => B(l, r, m) < B(l, r, m + 1)
                 /\ l # 0 => row[q[l]] < B(l, r, l + 1)
                 /\ r # N + 1 => B(l, r, r - 1) < row[q[r]]
  <2> DEFINE l == L(n)
             r == R(n)
  <2>1. /\ l \in 0..(n - 1) /\ r \in (n + 1)..(N + 1)
        /\ l # 0 => q[l] \in kept
        /\ r # N + 1 => q[r] \in kept
    BY <1>1
  <2>2. l # 0 /\ r # N + 1 => row[q[r]] - row[q[l]] >= r - l
    BY <1>2, <1>4
  <2> HIDE DEF l, r
  <2>3. l \in 0..N /\ r \in (l + 1)..(N + 1) /\ r # l + 1
    BY <2>1
  <2>4. l # 0 => row[q[l]] \in Int
    <3>1. l # 0 => l \in 1..N
      BY <2>1
    <3>2. QED
      BY <2>1, <3>1
  <2>5. r # N + 1 => row[q[r]] \in Int
    <3>1. r # N + 1 => r \in 1..N
      BY <2>1
    <3>2. QED
      BY <2>1, <3>1
  <2>6. /\ \A m \in (l + 1)..(r - 1) : B(l, r, m) \in Int
        /\ \A m \in (l + 1)..(r - 1) : m + 1 < r => B(l, r, m) < B(l, r, m + 1)
        /\ l # 0 => row[q[l]] < B(l, r, l + 1)
        /\ r # N + 1 => B(l, r, r - 1) < row[q[r]]
    BY <2>2, <2>3, <2>4, <2>5, BetweenIncreases
  <2>7. QED
    BY <2>6 DEF l, r
<1> HIDE DEF B
<1>5. \A n \in 1..N : o[n] \in Int
  <2>1. SUFFICES ASSUME NEW n \in 1..N, q[n] \notin kept PROVE o[n] \in Int
    BY <1>3
  <2>2. n \in (L(n) + 1)..(R(n) - 1)
    BY <1>1
  <2>3. QED
    BY <1>3, <1>4, <2>1, <2>2
<1>6. ASSUME NEW n \in 1..N, n < N PROVE o[n] < o[n + 1]
  <2>1. n + 1 \in 1..N /\ n \in 1..N /\ n \in Nat /\ N \in Nat
    BY <1>6
  <2> HIDE DEF L, R, N
  <2>2. CASE q[n] \in kept /\ q[n + 1] \in kept
    BY <1>3, <2>1, <2>2 DEF N
  <2>3. CASE q[n] \in kept /\ q[n + 1] \notin kept
    <3>1. L(n + 1) \in 0..n /\ \A m \in (L(n + 1) + 1)..n : q[m] \notin kept
      <4>1. (n + 1) - 1 = n
        BY <2>1
      <4>2. QED
        BY <1>1, <2>1, <4>1
    <3>2. L(n + 1) = n
      <4>1. n \in (L(n + 1) + 1)..n \/ L(n + 1) = n
        BY <2>1, <3>1
      <4>2. QED
        BY <2>3, <3>1, <4>1
    <3>3. n # 0
      BY <2>1
    <3>4. row[q[n]] < B(n, R(n + 1), n + 1)
      BY <1>4, <2>1, <2>3, <3>2, <3>3
    <3>5. QED
      BY <1>3, <2>1, <2>3, <3>2, <3>4
  <2>4. CASE q[n] \notin kept /\ q[n + 1] \in kept
    <3>1. R(n) \in (n + 1)..(N + 1) /\ \A m \in (n + 1)..(R(n) - 1) : q[m] \notin kept
      BY <1>1, <2>1
    <3>2. R(n) = n + 1
      <4>1. n + 1 \in (n + 1)..(R(n) - 1) \/ R(n) = n + 1
        BY <2>1, <3>1
      <4>2. QED
        BY <2>4, <4>1, <3>1
    <3>3. n + 1 # N + 1 /\ (n + 1) - 1 = n
      BY <1>6, <2>1
    <3>4. B(L(n), n + 1, n) < row[q[n + 1]]
      BY <1>4, <2>1, <2>4, <3>2, <3>3
    <3>5. QED
      BY <1>3, <2>1, <2>4, <3>2, <3>4
  <2>5. CASE q[n] \notin kept /\ q[n + 1] \notin kept
    <3> DEFINE l == L(n)
               r == R(n)
               k == L(n + 1)
               s == R(n + 1)
    <3>1. /\ l \in 0..(n - 1) /\ (l # 0 => q[l] \in kept)
          /\ \A m \in (l + 1)..(n - 1) : q[m] \notin kept
          /\ r \in (n + 1)..(N + 1) /\ (r # N + 1 => q[r] \in kept)
          /\ \A m \in (n + 1)..(r - 1) : q[m] \notin kept
      BY <1>1, <2>1
    <3>2. /\ k \in 0..n /\ (k # 0 => q[k] \in kept)
          /\ \A m \in (k + 1)..n : q[m] \notin kept
          /\ s \in (n + 2)..(N + 1) /\ (s # N + 1 => q[s] \in kept)
          /\ \A m \in (n + 2)..(s - 1) : q[m] \notin kept
      <4>1. (n + 1) - 1 = n /\ (n + 1) + 1 = n + 2
        BY <2>1
      <4>2. QED
        BY <1>1, <2>1, <4>1
    <3> HIDE DEF l, r, k, s
    <3>3. k = l
      <4>1. k # n
        BY <2>1, <2>5, <3>2
      <4>2. CASE k < l
        <5>1. l \in (k + 1)..n /\ l # 0
          BY <2>1, <3>1, <3>2, <4>2
        <5>2. QED
          BY <3>1, <3>2, <5>1
      <4>3. CASE l < k
        <5>1. k \in (l + 1)..(n - 1) /\ k # 0
          BY <2>1, <3>1, <3>2, <4>1, <4>3
        <5>2. QED
          BY <3>1, <3>2, <5>1
      <4>4. QED
        BY <2>1, <3>1, <3>2, <4>2, <4>3
    <3>4. r = s
      <4>1. r # n + 1
        <5>1. n + 1 # N + 1
          BY <1>6, <2>1
        <5>2. QED
          BY <2>5, <3>1, <5>1
      <4>2. CASE r < s
        <5>1. r \in (n + 2)..(s - 1) /\ r # N + 1
          BY <2>1, <3>1, <3>2, <4>1, <4>2
        <5>2. QED
          BY <3>1, <3>2, <5>1
      <4>3. CASE s < r
        <5>1. s \in (n + 1)..(r - 1) /\ s # N + 1
          BY <2>1, <3>1, <3>2, <4>3
        <5>2. QED
          BY <3>1, <3>2, <5>1
      <4>4. QED
        BY <2>1, <3>1, <3>2, <4>2, <4>3
    <3>5. n \in (l + 1)..(r - 1) /\ n + 1 < r
      BY <2>1, <3>1, <3>2, <3>4
    <3>6. B(l, r, n) < B(l, r, n + 1)
      BY <1>4, <2>1, <2>5, <3>5 DEF l, r
    <3>7. o[n] = B(l, r, n) /\ o[n + 1] = B(l, r, n + 1)
      BY <1>3, <2>1, <2>5, <3>3, <3>4 DEF l, r, k, s
    <3>8. QED
      BY <3>6, <3>7
  <2>6. QED
    BY <2>2, <2>3, <2>4, <2>5
<1>7. \A m, n \in 1..N : m < n => o[m] < o[n]
  <2> HIDE DEF L, R
  <2>1. QED
    BY <1>5, <1>6, StepsIncrease
<1>8. QED
  BY <1>5, <1>7

LEMMA AllocateIncreases ==
    ASSUME OrderTypes, NEW q \in Order!Queues
    PROVE  LET o == Order!Allocate(q)
           IN  /\ \A n \in 1..Len(q) : o[n] \in Int
               /\ \A m, n \in 1..Len(q) : m < n => o[m] < o[n]
<1> DEFINE o == Order!Allocate(q)
           kept == Order!LongestIncreasing(q)
           crowded(n) == Order!Crowded(q, kept, Order!LeftOf(kept, q, n), Order!RightOf(kept, q, n))
           fitted == [n \in 1..Len(q) |->
                        IF q[n] \notin kept
                        THEN Order!Between(q, Order!LeftOf(kept, q, n), Order!RightOf(kept, q, n), n)
                        ELSE row[q[n]]]
<1>1. Len(q) \in Nat /\ DOMAIN q = 1..Len(q)
  BY OrderQueue
<1>2. /\ kept \subseteq Order!Existing
      /\ \A l, m \in 1..Len(q) : l < m /\ q[l] \in kept /\ q[m] \in kept => row[q[l]] < row[q[m]]
  BY LongestIncreases
<1>3. \A n \in 1..Len(q) : q[n] \in kept => row[q[n]] \in Int
  BY <1>2 DEF OrderTypes, Order!Existing
<1>4. \/ o = Order!Dense(q)
      \/ o = fitted /\ \A n \in 1..Len(q) : q[n] \notin kept => ~crowded(n)
  BY <1>1 DEF Order!Allocate
<1>5. \A n \in 1..Len(q) : fitted[n] = IF q[n] \notin kept
           THEN Order!Between(q, Order!LeftOf(kept, q, n), Order!RightOf(kept, q, n), n)
           ELSE row[q[n]]
  OBVIOUS
<1> HIDE DEF kept, fitted, o
<1>6. CASE o = Order!Dense(q)
  <2>1. /\ \A n \in 1..Len(q) : o[n] \in Int
        /\ \A m, n \in 1..Len(q) : m < n => o[m] < o[n]
    BY <1>1, <1>6, DenseIncreases
  <2>2. QED
    BY <2>1 DEF o
<1>7. CASE o = fitted /\ \A n \in 1..Len(q) : q[n] \notin kept => ~crowded(n)
  <2>1. /\ \A n \in 1..Len(q) : fitted[n] \in Int
        /\ \A m, n \in 1..Len(q) : m < n => fitted[m] < fitted[n]
    BY <1>1, <1>2, <1>3, <1>5, <1>7, FittedIncreases
  <2>2. QED
    BY <1>7, <2>1 DEF o
<1>8. QED
  BY <1>4, <1>6, <1>7

\* Rows written with increasing orders read back in the order of the queue.
LEMMA WrittenReadsBack ==
    ASSUME NEW q \in Order!Queues, NEW o, row' = Order!Written(q, o), desired' = q,
           \A n \in 1..Len(q) : o[n] \in Int,
           \A m, n \in 1..Len(q) : m < n => o[m] < o[n]
    PROVE  OrderInv'
<1>1. /\ Len(q) \in Nat /\ DOMAIN q = 1..Len(q) /\ \A n \in 1..Len(q) : q[n] \in Items
      /\ \A m, n \in 1..Len(q) : q[m] = q[n] => m = n
  BY OrderQueue
<1>2. Order!ToSet(q) = {q[n] : n \in 1..Len(q)}
  BY <1>1 DEF Order!ToSet
<1>3. \A n \in 1..Len(q) : row'[q[n]] = o[n]
  <2>1. SUFFICES ASSUME NEW n \in 1..Len(q) PROVE row'[q[n]] = o[n]
    OBVIOUS
  <2>2. Order!Position(q, q[n]) \in DOMAIN q /\ q[Order!Position(q, q[n])] = q[n]
    BY <1>1 DEF Order!Position
  <2>3. Order!Position(q, q[n]) = n
    BY <1>1, <2>2
  <2>4. q[n] \in Items /\ q[n] \in Order!ToSet(q)
    BY <1>1, <1>2
  <2>5. QED
    BY <2>3, <2>4 DEF Order!Written
<1>4. \A i \in Items : i \notin Order!ToSet(q) => row'[i] = None
  BY DEF Order!Written
<1>5. None \notin Int
  BY ServicesAssumption
<1>6. \A i \in Items : IF i \in Order!ToSet(q) THEN row'[i] \in Int ELSE row'[i] = None
  BY <1>2, <1>3, <1>4
<1>7. row' = [i \in Items |-> row'[i]]
  BY DEF Order!Written
<1>8. row' \in [Items -> Int \cup {None}]
  BY <1>6, <1>7
<1>9. Order!Existing' = Order!ToSet(q)
  <2>1. Order!ToSet(q) \subseteq Items
    BY <1>1, <1>2
  <2>2. Order!Existing' = {i \in Items : row'[i] # None}
    BY DEF Order!Existing
  <2>3. QED
    BY <1>5, <1>6, <2>1, <2>2
<1>10. \A m, n \in 1..Len(q) : m < n => row'[q[m]] < row'[q[n]]
  BY <1>3
<1>11. Order!LoadQueue(desired)'
  <2>1. \A m, n \in 1..Len(q) : m < n => row'[q[m]] <= row'[q[n]]
    <3>1. \A n \in 1..Len(q) : row'[q[n]] \in Int
      BY <1>3
    <3>2. QED
      BY <1>10, <3>1
  <2>2. Order!ToSet(desired)' = Order!ToSet(q) /\ DOMAIN desired' = 1..Len(q)
    BY <1>1 DEF Order!ToSet
  <2>3. QED
    BY <1>9, <2>1, <2>2 DEF Order!LoadQueue
<1>12. \A i, j \in Order!Existing' : i # j => row'[i] # row'[j]
  <2>1. SUFFICES ASSUME NEW i \in Order!Existing', NEW j \in Order!Existing', i # j PROVE row'[i] # row'[j]
    OBVIOUS
  <2>2. PICK m \in 1..Len(q) : i = q[m]
    BY <1>2, <1>9
  <2>3. PICK n \in 1..Len(q) : j = q[n]
    BY <1>2, <1>9
  <2>4. m < n \/ n < m
    BY <2>1, <2>2, <2>3
  <2>5. row'[q[m]] < row'[q[n]] \/ row'[q[n]] < row'[q[m]]
    BY <1>10, <2>4
  <2>6. row'[q[m]] \in Int /\ row'[q[n]] \in Int
    BY <1>3
  <2>7. QED
    BY <2>2, <2>3, <2>5, <2>6
<1>13. QED
  BY <1>8, <1>11, <1>12 DEF OrderInv, OrderTypes, Order!QueueReadsBack

LEMMA OrderDelete ==
    ASSUME OrderInv, NEW i \in Items, Order!DeleteLocalReferences(i)
    PROVE  OrderInv'
<1> DEFINE q == desired
           k == Order!Position(q, i)
           d == Order!RemoveAt(q, k)
           was(n) == IF n < k THEN n ELSE n + 1
<1>1. /\ q \in Order!Queues /\ row \in [Items -> Int \cup {None}] /\ row[i] # None
      /\ row' = [row EXCEPT ![i] = None] /\ desired' = d
  BY DEF OrderInv, OrderTypes, Order!DeleteLocalReferences
<1>2. /\ Len(q) \in Nat /\ DOMAIN q = 1..Len(q) /\ q \in Seq(Items) /\ Len(q) <= Cardinality(Items)
      /\ \A n \in 1..Len(q) : q[n] \in Items
      /\ \A m, n \in 1..Len(q) : q[m] = q[n] => m = n
  BY <1>1, OrderQueue
<1>3. /\ Order!ToSet(q) = Order!Existing
      /\ \A m, n \in 1..Len(q) : m < n => row[q[m]] <= row[q[n]]
      /\ \A a, b \in Order!Existing : a # b /\ row[a] = row[b] => \A c \in Order!Existing : row[c] \in Found
  BY <1>2 DEF OrderInv, Order!QueueReadsBack, Order!LoadQueue
<1>4. i \in Order!ToSet(q)
  BY <1>1, <1>3 DEF Order!Existing
<1>5. k \in 1..Len(q) /\ q[k] = i
  BY <1>2, <1>4 DEF Order!ToSet, Order!Position
<1> HIDE DEF k
<1>6. /\ d \in Seq(Items) /\ Len(d) = Len(q) - 1
      /\ \A n \in 1..Len(d) : d[n] = q[was(n)]
  <2> DEFINE s == SubSeq(q, 1, k - 1)
             t == SubSeq(q, k + 1, Len(q))
  <2>1. d = s \o t
    BY DEF Order!RemoveAt
  <2>2. s \in Seq(Items) /\ Len(s) = k - 1 /\ \A n \in 1..(k - 1) : s[n] = q[n]
    <3>1. \A n \in 1..(k - 1) : q[n] \in Items
      BY <1>2, <1>5
    <3>2. /\ s \in Seq(Items)
          /\ Len(s) = IF 1 <= k - 1 THEN (k - 1) - 1 + 1 ELSE 0
          /\ \A n \in 1..((k - 1) - 1 + 1) : s[n] = q[1 + n - 1]
      BY <1>5, <3>1, SubSeqProperties
    <3> HIDE DEF s
    <3>3. Len(s) = k - 1 /\ (k - 1) - 1 + 1 = k - 1 /\ \A n \in 1..(k - 1) : 1 + n - 1 = n
      BY <1>5, <3>2
    <3>4. QED
      BY <3>2, <3>3
  <2>3. t \in Seq(Items) /\ Len(t) = Len(q) - k /\ \A n \in 1..(Len(q) - k) : t[n] = q[k + n]
    <3>1. \A n \in (k + 1)..Len(q) : q[n] \in Items
      BY <1>2, <1>5
    <3>2. /\ t \in Seq(Items)
          /\ Len(t) = IF k + 1 <= Len(q) THEN Len(q) - (k + 1) + 1 ELSE 0
          /\ \A n \in 1..(Len(q) - (k + 1) + 1) : t[n] = q[k + 1 + n - 1]
      BY <1>2, <1>5, <3>1, SubSeqProperties
    <3> HIDE DEF t
    <3>3. /\ Len(t) = Len(q) - k /\ Len(q) - (k + 1) + 1 = Len(q) - k
          /\ \A n \in 1..(Len(q) - k) : k + 1 + n - 1 = k + n
      BY <1>2, <1>5, <3>2
    <3>4. QED
      BY <3>2, <3>3
  <2> HIDE DEF s, t, q, d
  <2>4. /\ s \o t \in Seq(Items) /\ Len(s \o t) = Len(s) + Len(t)
        /\ \A n \in 1..(Len(s) + Len(t)) : (s \o t)[n] = IF n <= Len(s) THEN s[n] ELSE t[n - Len(s)]
    BY <2>2, <2>3, ConcatProperties
  <2>5. Len(d) = Len(q) - 1
    BY <1>2, <1>5, <2>1, <2>2, <2>3, <2>4
  <2>6. ASSUME NEW n \in 1..Len(d) PROVE d[n] = q[was(n)]
    <3>1. d[n] = IF n <= k - 1 THEN s[n] ELSE t[n - (k - 1)]
      BY <1>2, <1>5, <2>1, <2>2, <2>3, <2>4, <2>5
    <3>2. CASE n < k
      <4>1. n \in 1..(k - 1)
        BY <1>5, <3>2
      <4>2. QED
        BY <2>2, <3>1, <3>2, <4>1
    <3>3. CASE ~(n < k)
      <4>1. /\ n - (k - 1) \in 1..(Len(q) - k) /\ ~(n <= k - 1)
            /\ k + (n - (k - 1)) = n + 1
        BY <1>2, <1>5, <2>5, <3>3
      <4>2. t[n - (k - 1)] = q[n + 1]
        BY <2>3, <4>1
      <4>3. QED
        BY <3>1, <3>3, <4>1, <4>2
    <3>4. QED
      BY <3>2, <3>3
  <2>7. QED
    BY <2>1, <2>4, <2>5, <2>6
<1>7. /\ \A n \in 1..Len(d) : was(n) \in 1..Len(q) /\ was(n) # k
      /\ \A m, n \in 1..Len(d) : m < n => was(m) < was(n)
      /\ \A m \in 1..Len(q) : m # k => \E n \in 1..Len(d) : was(n) = m
  <2> HIDE DEF d, q
  <2>1. Len(q) \in Nat /\ Len(d) = Len(q) - 1 /\ k \in 1..Len(q)
    BY <1>2, <1>5, <1>6
  <2>2. ASSUME NEW m \in 1..Len(q), m # k PROVE \E n \in 1..Len(d) : was(n) = m
    <3>1. CASE m < k
      <4>1. m \in 1..Len(d) /\ was(m) = m
        BY <2>1, <3>1
      <4>2. QED
        BY <4>1
    <3>2. CASE ~(m < k)
      <4>1. m - 1 \in 1..Len(d) /\ was(m - 1) = m
        BY <2>1, <2>2, <3>2
      <4>2. QED
        BY <4>1
    <3>3. QED
      BY <3>1, <3>2
  <2>3. \A n \in 1..Len(d) : was(n) \in 1..Len(q) /\ was(n) # k
    BY <2>1
  <2>4. \A m, n \in 1..Len(d) : m < n => was(m) < was(n)
    BY <2>1
  <2>5. QED
    BY <2>2, <2>3, <2>4
<1>8. Len(d) \in Nat /\ DOMAIN d = 1..Len(d) /\ Len(d) <= Cardinality(Items)
  <2>1. Cardinality(Items) \in Nat
    BY FS_CardinalityType, ServicesAssumption
  <2> HIDE DEF d, q
  <2>2. Len(d) \in Nat /\ DOMAIN d = 1..Len(d)
    BY <1>6, LenProperties
  <2>3. QED
    BY <1>2, <1>6, <2>1, <2>2
<1> HIDE DEF was
<1>9. \A m, n \in 1..Len(d) : d[m] = d[n] => m = n
  <2> HIDE DEF d, q
  <2>1. SUFFICES ASSUME NEW m \in 1..Len(d), NEW n \in 1..Len(d), d[m] = d[n], m # n PROVE FALSE
    OBVIOUS
  <2>2. was(m) = was(n)
    BY <1>2, <1>6, <1>7, <2>1
  <2>3. m < n \/ n < m
    BY <1>8, <2>1
  <2>4. was(m) \in Int /\ was(n) \in Int /\ (was(m) < was(n) \/ was(n) < was(m))
    BY <1>2, <1>7, <2>3
  <2>5. QED
    BY <2>2, <2>4
<1>10. d \in Order!Queues
  <2>1. d \in [1..Len(d) -> Items] /\ Len(d) \in 0..Cardinality(Items)
    <3> HIDE DEF d, q
    <3>1. Cardinality(Items) \in Nat
      BY FS_CardinalityType, ServicesAssumption
    <3>2. d \in [1..Len(d) -> Items]
      BY <1>6, LenProperties
    <3>3. QED
      BY <1>8, <3>1, <3>2
  <2> HIDE DEF d, q
  <2>2. d \in Order!SeqOf(Items, Cardinality(Items))
    BY <2>1 DEF Order!SeqOf
  <2>3. Order!IsInjective(d)
    BY <1>8, <1>9 DEF Order!IsInjective
  <2>4. QED
    BY <2>2, <2>3 DEF Order!Queues, Order!Cardinality, Cardinality
<1>11. /\ row' \in [Items -> Int \cup {None}] /\ row'[i] = None
       /\ \A j \in Items : j # i => row'[j] = row[j]
  BY <1>1
<1>12. Order!Existing' = Order!Existing \ {i}
  <2>1. Order!Existing' = {j \in Items : row'[j] # None}
    BY DEF Order!Existing
  <2>2. QED
    BY <1>11, <2>1 DEF Order!Existing
<1>13. Order!ToSet(d) = Order!Existing'
  <2> HIDE DEF d, q
  <2>1. Order!ToSet(d) = {d[n] : n \in 1..Len(d)} /\ Order!ToSet(q) = {q[n] : n \in 1..Len(q)}
    BY <1>2, <1>8 DEF Order!ToSet
  <2>2. \A n \in 1..Len(d) : d[n] = q[was(n)] /\ was(n) \in 1..Len(q) /\ q[was(n)] # i
    BY <1>2, <1>5, <1>6, <1>7
  <2>3. \A m \in 1..Len(q) : q[m] # i => \E n \in 1..Len(d) : d[n] = q[m]
    BY <1>5, <1>6, <1>7
  <2>4. QED
    BY <1>3, <1>12, <2>1, <2>2, <2>3
<1>14. \A m, n \in 1..Len(d) : m < n => row'[d[m]] <= row'[d[n]]
  <2> HIDE DEF d, q
  <2>1. \A n \in 1..Len(d) : d[n] = q[was(n)] /\ was(n) \in 1..Len(q) /\ row'[d[n]] = row[q[was(n)]]
    BY <1>2, <1>5, <1>6, <1>7, <1>11
  <2>2. QED
    BY <1>3, <1>7, <2>1
<1>15. Order!LoadQueue(desired)'
  <2>1. Order!ToSet(desired)' = Order!ToSet(d)
    BY <1>1 DEF Order!ToSet
  <2> HIDE DEF d, q
  <2>2. QED
    BY <1>1, <1>8, <1>13, <1>14, <2>1 DEF Order!LoadQueue
<1>16. \A a, b \in Order!Existing' : a # b /\ row'[a] = row'[b] => \A c \in Order!Existing' : row'[c] \in Found
  <2>1. \A a \in Order!Existing' : a \in Order!Existing /\ row'[a] = row[a]
    BY <1>11, <1>12 DEF Order!Existing
  <2>2. QED
    BY <1>3, <2>1
<1>17. QED
  BY <1>1, <1>10, <1>11, <1>15, <1>16 DEF OrderInv, OrderTypes, Order!QueueReadsBack

LEMMA OrderInit ==
    ASSUME Order!Init
    PROVE  OrderInv
<1>1. row \in [Items -> Found \cup {None}] /\ desired \in Order!Queues /\ Order!LoadQueue(desired)
  BY DEF Order!Init
<1>2. row \in [Items -> Int \cup {None}]
  BY <1>1, ServicesAssumption
<1>3. \A i \in Order!Existing : row[i] \in Found
  BY <1>1 DEF Order!Existing
<1>4. QED
  BY <1>1, <1>2, <1>3 DEF OrderInv, OrderTypes, Order!QueueReadsBack

LEMMA OrderNext ==
    ASSUME OrderInv, Order!Next
    PROVE  OrderInv'
<1>1. ASSUME NEW q \in Order!Queues, Order!SynchronizeQueue(q)
      PROVE  OrderInv'
  BY <1>1, AllocateIncreases, WrittenReadsBack DEF Order!SynchronizeQueue, OrderInv
<1>2. ASSUME NEW q \in Order!Queues, Order!ReplaceQueue(q)
      PROVE  OrderInv'
  BY <1>2, OrderQueue, DenseIncreases, WrittenReadsBack DEF Order!ReplaceQueue
<1>3. ASSUME NEW i \in Items, Order!DeleteLocalReferences(i)
      PROVE  OrderInv'
  BY <1>3, OrderDelete
<1>4. ASSUME Order!Reload
      PROVE  OrderInv'
  <2>1. PICK q \in Order!Queues : Order!LoadQueue(q) /\ desired' = q /\ row' = row
    BY <1>4 DEF Order!Reload
  <2>2. Order!LoadQueue(desired)'
    BY <2>1 DEF Order!LoadQueue, Order!ToSet, Order!Existing
  <2>3. QED
    BY <2>1, <2>2 DEF OrderInv, OrderTypes, Order!QueueReadsBack, Order!Existing
<1>5. QED
  BY <1>1, <1>2, <1>3, <1>4 DEF Order!Next

-----------------------------------------------------------------------------
(* Chat: all messages of a key, stored or about to be written, are spaced,  *)
(* and its slot, or if it has none the clock, knows the last of them.       *)

Message == [op : {"reserve", "write"}, key : Chat!Keys, time : Nat]

Apart(s, t) == s >= t + MinInterval \/ t >= s + MinInterval

\* A message of key k sent at t is no obstacle the slot does not know of.
Settled(k, t) ==
    IF lastSent[k] = None THEN t + MinInterval <= chatNow
    ELSE t = lastSent[k] \/ t + MinInterval <= lastSent[k]

ChatTypes ==
    /\ chatNow \in Nat
    /\ lastSent = [k \in Chat!Keys |-> lastSent[k]]
    /\ \A k \in Chat!Keys : lastSent[k] = None \/ lastSent[k] \in 0..chatNow
    /\ sending = [x \in Senders |-> sending[x]]
    /\ \A x \in Senders :
        /\ sending[x] = Chat!Idle \/ (sending[x] \in Message /\ sending[x].time <= chatNow)
        /\ sending[x].op = "reserve" => sending[x].time = chatNow
    /\ stored = [s \in Chat!Streams |-> stored[s]]
    /\ \A s \in Chat!Streams : \A m \in stored[s] : m.user \in Authors /\ m.time \in Nat

ChatApart ==
    /\ \A s \in Chat!Streams : \A m, n \in stored[s] :
        m # n /\ m.user = n.user => Apart(m.time, n.time)
    /\ \A x, y \in Senders :
        x # y /\ sending[x].op = "write" /\ sending[y].op = "write" /\ sending[x].key = sending[y].key
            => Apart(sending[x].time, sending[y].time)
    /\ \A x \in Senders, k \in Chat!Keys : sending[x].op = "write" /\ sending[x].key = k =>
        \A m \in stored[k[1]] : m.user = k[2] => Apart(sending[x].time, m.time)

ChatSettled ==
    /\ \A x \in Senders, k \in Chat!Keys : \A t \in Nat :
        sending[x].op = "write" /\ sending[x].key = k /\ sending[x].time = t => Settled(k, t)
    /\ \A k \in Chat!Keys : \A m \in stored[k[1]] : \A t \in Nat :
        m.user = k[2] /\ m.time = t => Settled(k, t)

ChatInv == ChatTypes /\ ChatApart /\ ChatSettled

LEMMA ChatInit ==
    ASSUME Chat!Init
    PROVE  ChatInv
<1>1. ChatTypes
  <2>1. /\ chatNow = 0 /\ lastSent = [k \in Chat!Keys |-> None]
        /\ sending = [x \in Senders |-> [op |-> "idle"]] /\ stored = [s \in Chat!Streams |-> {}]
    BY DEF Chat!Init, Chat!Idle
  <2>2. \A x \in Senders : sending[x] = Chat!Idle /\ sending[x].op # "reserve"
    BY <2>1 DEF Chat!Idle
  <2>3. (\A k \in Chat!Keys : lastSent[k] = None) /\ \A s \in Chat!Streams : stored[s] = {}
    BY <2>1
  <2>4. lastSent = [k \in Chat!Keys |-> lastSent[k]] /\ stored = [s \in Chat!Streams |-> stored[s]]
        /\ sending = [x \in Senders |-> sending[x]]
    BY <2>1
  <2>5. QED
    BY <2>1, <2>2, <2>3, <2>4 DEF ChatTypes
<1>2. \A k \in Chat!Keys : k[1] \in Chat!Streams
  BY DEF Chat!Keys
<1>3. ChatApart /\ ChatSettled
  BY <1>2 DEF Chat!Init, ChatApart, ChatSettled, Chat!Idle
<1>4. QED
  BY <1>1, <1>3 DEF ChatInv

\* The operations of a key, and of a message, by their type.
LEMMA ChatMessage ==
    ASSUME ChatTypes, NEW x \in Senders, sending[x].op \in {"reserve", "write"}
    PROVE  /\ sending[x] \in Message /\ sending[x].time <= chatNow
           /\ sending[x].key \in Chat!Keys /\ sending[x].time \in Nat
           /\ sending[x].key[1] \in Chat!Streams /\ sending[x].key[2] \in Authors
           /\ sending[x].key = <<sending[x].key[1], sending[x].key[2]>>
BY DEF ChatTypes, Chat!Idle, Message, Chat!Keys

LEMMA ChatTick ==
    ASSUME ChatInv, Chat!Tick
    PROVE  ChatInv'
<1>1. /\ chatNow \in Nat /\ chatNow' = chatNow + 1 /\ lastSent' = lastSent /\ sending' = sending
      /\ stored' = stored /\ active' = active /\ \A x \in Senders : sending[x].op # "reserve"
  BY DEF Chat!Tick, ChatInv, ChatTypes
<1>2. ChatTypes'
  <2>1. chatNow' \in Nat /\ chatNow <= chatNow'
    BY <1>1
  <2>2. ASSUME NEW k \in Chat!Keys
        PROVE  lastSent[k] = None \/ lastSent[k] \in 0..chatNow'
    BY <1>1, <2>1 DEF ChatInv, ChatTypes
  <2>3. ASSUME NEW x \in Senders
        PROVE  /\ sending[x] = Chat!Idle \/ (sending[x] \in Message /\ sending[x].time <= chatNow')
               /\ sending[x].op = "reserve" => sending[x].time = chatNow'
    <3>1. sending[x] = Chat!Idle \/ (sending[x] \in Message /\ sending[x].time <= chatNow)
      BY DEF ChatInv, ChatTypes
    <3>2. sending[x] \in Message => sending[x].time \in Nat
      BY DEF Message
    <3>3. CASE sending[x] = Chat!Idle
      BY <1>1, <3>3
    <3>4. CASE sending[x] \in Message /\ sending[x].time <= chatNow
      <4>1. sending[x].time <= chatNow'
        BY <2>1, <3>2, <3>4, <1>1
      <4>2. QED
        BY <1>1, <3>4, <4>1
    <3>5. QED
      BY <3>1, <3>3, <3>4
  <2>4. QED
    BY <1>1, <2>1, <2>2, <2>3 DEF ChatInv, ChatTypes, Chat!Idle, Chat!Keys, Chat!Streams
<1>3. ASSUME NEW k \in Chat!Keys, NEW t \in Nat, Settled(k, t)
      PROVE  Settled(k, t)'
  BY <1>1, <1>3, ServicesAssumption DEF Settled
<1>4. ChatSettled'
  BY <1>1, <1>3 DEF ChatInv, ChatSettled
<1>5. ChatApart'
  BY <1>1 DEF ChatInv, ChatApart, Apart
<1>6. QED
  BY <1>2, <1>4, <1>5 DEF ChatInv

\* Messages that are given up leave the others apart.
LEMMA ChatFewer ==
    ASSUME ChatInv,
           \A s \in Chat!Streams : stored'[s] \subseteq stored[s],
           \A x \in Senders : sending'[x].op = "write" => sending'[x] = sending[x]
    PROVE  ChatApart'
<1>1. \A k \in Chat!Keys : k[1] \in Chat!Streams
  BY DEF Chat!Keys
<1>2. Chat!Streams' = Chat!Streams /\ Chat!Keys' = Chat!Keys
  BY DEF Chat!Streams, Chat!Keys
<1>3. QED
  BY <1>1, <1>2 DEF ChatInv, ChatApart, Apart

\* And settled, when slots and clock stand still.
LEMMA ChatFewerSettled ==
    ASSUME ChatInv, chatNow' = chatNow, lastSent' = lastSent,
           \A s \in Chat!Streams : stored'[s] \subseteq stored[s],
           \A x \in Senders : sending'[x].op = "write" => sending'[x] = sending[x]
    PROVE  ChatSettled'
<1>1. \A k \in Chat!Keys : k[1] \in Chat!Streams
  BY DEF Chat!Keys
<1>2. QED
  BY <1>1 DEF ChatInv, ChatSettled, Settled

LEMMA ChatArrive ==
    ASSUME ChatInv, NEW x \in Senders, NEW k \in Chat!Keys, Chat!Arrive(x, k)
    PROVE  ChatInv'
<1> DEFINE r == [op |-> "reserve", key |-> k, time |-> chatNow]
<1>1. /\ sending' = [sending EXCEPT ![x] = r] /\ chatNow' = chatNow /\ lastSent' = lastSent
      /\ stored' = stored /\ active' = active
  BY DEF Chat!Arrive
<1>2. r \in Message /\ r.op = "reserve" /\ r.time = chatNow /\ chatNow <= chatNow
  BY DEF Message, ChatInv, ChatTypes
<1> HIDE DEF r
<1>3. sending' = [y \in Senders |-> sending'[y]] /\ sending'[x] = r
      /\ \A y \in Senders : y # x => sending'[y] = sending[y]
  BY <1>1 DEF ChatInv, ChatTypes
<1>4. ChatTypes'
  BY <1>1, <1>2, <1>3 DEF ChatInv, ChatTypes
<1>5. \A y \in Senders : sending'[y].op = "write" => sending'[y] = sending[y]
  BY <1>2, <1>3
<1>6. \A s \in Chat!Streams : stored'[s] \subseteq stored[s]
  BY <1>1
<1>7. QED
  BY <1>1, <1>4, <1>5, <1>6, ChatFewer, ChatFewerSettled DEF ChatInv

\* A sender that has ended.
LEMMA ChatIdle ==
    ASSUME ChatInv, NEW x \in Senders, sending' = [sending EXCEPT ![x] = Chat!Idle]
    PROVE  /\ sending' = [y \in Senders |-> sending'[y]] /\ sending'[x] = Chat!Idle
           /\ sending'[x].op = "idle"
           /\ \A y \in Senders : y # x => sending'[y] = sending[y]
           /\ \A y \in Senders : sending'[y].op = "write" => y # x /\ sending'[y] = sending[y]
<1>1. sending'[x] = Chat!Idle /\ Chat!Idle.op = "idle"
  BY DEF ChatInv, ChatTypes, Chat!Idle
<1>2. sending' = [y \in Senders |-> sending'[y]] /\ \A y \in Senders : y # x => sending'[y] = sending[y]
  BY DEF ChatInv, ChatTypes
<1>3. QED
  BY <1>1, <1>2

\* A slot that lets a message pass has let go every other of its key.
LEMMA ChatPasses ==
    ASSUME ChatTypes, NEW k \in Chat!Keys, NEW t \in Nat, Settled(k, t),
           lastSent[k] = None \/ ~(chatNow < lastSent[k] + MinInterval)
    PROVE  t + MinInterval <= chatNow
<1>1. chatNow \in Nat /\ (lastSent[k] = None \/ lastSent[k] \in 0..chatNow)
  BY DEF ChatTypes
<1>2. CASE lastSent[k] = None
  BY <1>2 DEF Settled
<1>3. CASE lastSent[k] # None
  <2>1. lastSent[k] \in Nat /\ lastSent[k] + MinInterval <= chatNow
    BY <1>1, <1>3, ServicesAssumption
  <2>2. t = lastSent[k] \/ t + MinInterval <= lastSent[k]
    BY <1>3 DEF Settled
  <2>3. QED
    BY <1>1, <2>1, <2>2, ServicesAssumption
<1>4. QED
  BY <1>2, <1>3

LEMMA ChatReserve ==
    ASSUME ChatInv, NEW x \in Senders, Chat!Reserve(x)
    PROVE  ChatInv'
<1> DEFINE k == sending[x].key
           t == sending[x].time
           limited == lastSent[k] # None /\ t < lastSent[k] + MinInterval
           forgotten == Chat!Full(t)
           kept == [q \in Chat!Keys |-> IF q \in forgotten THEN None ELSE lastSent[q]]
           w == [sending[x] EXCEPT !.op = "write"]
<1>1. /\ sending[x] \in Message /\ sending[x].op = "reserve" /\ t = chatNow /\ k \in Chat!Keys
      /\ chatNow \in Nat
  BY ChatMessage DEF ChatInv, ChatTypes, Chat!Reserve
<1>2. /\ chatNow' = chatNow /\ stored' = stored /\ active' = active
      /\ \/ /\ lastSent' \in {lastSent, kept}
            /\ sending' = [sending EXCEPT ![x] = Chat!Idle]
         \/ /\ ~limited
            /\ lastSent' = [kept EXCEPT ![k] = t]
            /\ sending' = [sending EXCEPT ![x] = w]
  BY DEF Chat!Reserve
<1>3. ASSUME NEW q \in Chat!Keys
      PROVE  \/ kept[q] = lastSent[q]
             \/ kept[q] = None /\ ~(chatNow < lastSent[q] + MinInterval)
  <2>1. CASE q \in forgotten
    <3>1. q \in Chat!Lapsed(t)
      BY <2>1 DEF Chat!Full
    <3>2. lastSent[q] \in Nat /\ chatNow >= lastSent[q] + MinInterval
      BY <3>1, <1>1 DEF Chat!Lapsed, Chat!Slots, ChatInv, ChatTypes
    <3>3. QED
      BY <2>1, <3>2, <1>1, ServicesAssumption
  <2>2. QED
    BY <2>1
<1>4. w = [op |-> "write", key |-> k, time |-> t] /\ w \in Message /\ w.op = "write" /\ w.key = k /\ w.time = t
  <2>1. w = [op |-> "write", key |-> k, time |-> t]
    BY <1>1 DEF Message
  <2> HIDE DEF w
  <2>2. QED
    BY <2>1, <1>1 DEF Message
<1>5. ~limited => lastSent[k] = None \/ ~(chatNow < lastSent[k] + MinInterval)
  BY <1>1
<1>6. kept = [q \in Chat!Keys |-> kept[q]]
  OBVIOUS
<1> HIDE DEF kept, w, limited, forgotten
<1>7. ASSUME NEW q \in Chat!Keys, NEW s \in Nat, Settled(q, s), lastSent' \in {lastSent, kept}
      PROVE  Settled(q, s)'
  <2>1. CASE lastSent'[q] = lastSent[q]
    BY <2>1, <1>2, <1>7 DEF Settled
  <2>2. CASE kept[q] = None /\ ~(chatNow < lastSent[q] + MinInterval) /\ lastSent'[q] = None
    <3>1. s + MinInterval <= chatNow
      BY <2>2, <1>7, ChatPasses DEF ChatInv
    <3>2. QED
      BY <3>1, <2>2, <1>2 DEF Settled
  <2>3. QED
    BY <1>3, <1>7, <2>1, <2>2
<1>8. CASE lastSent' \in {lastSent, kept} /\ sending' = [sending EXCEPT ![x] = Chat!Idle]
  <2>1. ChatTypes'
    <3>1. lastSent' = [q \in Chat!Keys |-> lastSent'[q]]
          /\ \A q \in Chat!Keys : lastSent'[q] = None \/ lastSent'[q] \in 0..chatNow
      BY <1>3, <1>6, <1>8 DEF ChatInv, ChatTypes
    <3>2. QED
      BY <1>2, <1>8, <3>1, ChatIdle DEF ChatInv, ChatTypes
  <2>2. ChatApart'
    BY <1>2, <1>8, ChatIdle, ChatFewer
  <2>3. ChatSettled'
    BY <1>2, <1>7, <1>8, ChatIdle DEF ChatInv, ChatSettled
  <2>4. QED
    BY <2>1, <2>2, <2>3 DEF ChatInv
<1>9. CASE ~limited /\ lastSent' = [kept EXCEPT ![k] = t] /\ sending' = [sending EXCEPT ![x] = w]
  <2>1. /\ sending' = [y \in Senders |-> sending'[y]] /\ sending'[x] = w
        /\ \A y \in Senders : y # x => sending'[y] = sending[y]
    BY <1>9 DEF ChatInv, ChatTypes
  <2>2. /\ lastSent' = [q \in Chat!Keys |-> lastSent'[q]] /\ lastSent'[k] = chatNow
        /\ \A q \in Chat!Keys : q # k => lastSent'[q] = kept[q]
    BY <1>1, <1>6, <1>9
  <2>3. ChatTypes'
    <3>1. \A q \in Chat!Keys : lastSent'[q] = None \/ lastSent'[q] \in 0..chatNow
      BY <1>1, <1>3, <2>2 DEF ChatInv, ChatTypes
    <3>2. \A y \in Senders :
            /\ sending'[y] = Chat!Idle \/ (sending'[y] \in Message /\ sending'[y].time <= chatNow)
            /\ sending'[y].op = "reserve" => sending'[y].time = chatNow
      BY <1>1, <1>4, <2>1 DEF ChatInv, ChatTypes
    <3>3. QED
      BY <1>2, <2>1, <2>2, <3>1, <3>2 DEF ChatInv, ChatTypes
  <2>4. ASSUME NEW s \in Nat, Settled(k, s)
        PROVE  s + MinInterval <= chatNow
    BY <1>1, <1>5, <1>9, <2>4, ChatPasses DEF ChatInv
  <2>5. ASSUME NEW q \in Chat!Keys, NEW s \in Nat, Settled(q, s)
        PROVE  Settled(q, s)'
    <3>1. CASE q = k
      BY <1>1, <1>2, <2>2, <2>4, <2>5, <3>1, ServicesAssumption DEF Settled
    <3>2. CASE q # k
      <4>1. lastSent'[q] = lastSent[q] \/ (lastSent'[q] = None /\ ~(chatNow < lastSent[q] + MinInterval))
        BY <1>3, <2>2, <3>2
      <4>2. CASE lastSent'[q] = lastSent[q]
        BY <4>2, <1>2, <2>5 DEF Settled
      <4>3. CASE lastSent'[q] = None /\ ~(chatNow < lastSent[q] + MinInterval)
        <5>1. s + MinInterval <= chatNow
          BY <4>3, <2>5, ChatPasses DEF ChatInv
        <5>2. QED
          BY <5>1, <4>3, <1>2 DEF Settled
      <4>4. QED
        BY <4>1, <4>2, <4>3
    <3>3. QED
      BY <3>1, <3>2
  <2>6. ASSUME NEW q \in Chat!Keys, NEW s \in Nat, q = k, s = chatNow
        PROVE  Settled(q, s)'
    BY <1>1, <2>2, <2>6, ServicesAssumption DEF Settled
  <2>7. ChatSettled'
    <3>1. ASSUME NEW y \in Senders, NEW q \in Chat!Keys, NEW s \in Nat,
                 sending'[y].op = "write", sending'[y].key = q, sending'[y].time = s
          PROVE  Settled(q, s)'
      <4>1. CASE y = x
        <5>1. q = k /\ s = chatNow
          BY <4>1, <3>1, <2>1, <1>4, <1>1
        <5>2. QED
          BY <5>1, <2>6
      <4>2. CASE y # x
        BY <4>2, <3>1, <2>1, <2>5 DEF ChatInv, ChatSettled
      <4>3. QED
        BY <4>1, <4>2
    <3>2. ASSUME NEW q \in Chat!Keys, NEW m \in stored'[q[1]], NEW s \in Nat, m.user = q[2], m.time = s
          PROVE  Settled(q, s)'
      BY <3>2, <1>2, <2>5 DEF ChatInv, ChatSettled
    <3>3. QED
      BY <3>1, <3>2 DEF ChatSettled
  <2>8. ChatApart'
    <3>1. ASSUME NEW y \in Senders, y # x, sending'[y].op = "write", sending'[y].key = k
          PROVE  sending'[y].time + MinInterval <= chatNow
      <4>1. sending[y].op = "write" /\ sending[y].key = k /\ sending'[y].time = sending[y].time
        BY <3>1, <2>1
      <4>2. sending[y].time \in Nat
        BY <4>1, ChatMessage DEF ChatInv
      <4>3. Settled(k, sending[y].time)
        BY <1>1, <4>1, <4>2 DEF ChatInv, ChatSettled
      <4>4. QED
        BY <4>1, <4>2, <4>3, <2>4
    <3>2. ASSUME NEW m \in stored'[k[1]], m.user = k[2]
          PROVE  m.time + MinInterval <= chatNow
      <4>1. m.time \in Nat
        BY <1>1, <1>2, <3>2 DEF ChatInv, ChatTypes, Chat!Keys
      <4>2. QED
        BY <1>1, <1>2, <3>2, <4>1, <2>4 DEF ChatInv, ChatSettled
    <3>3. ASSUME NEW y \in Senders, NEW z \in Senders, y # z, sending'[y].op = "write",
                 sending'[z].op = "write", sending'[y].key = sending'[z].key
          PROVE  Apart(sending'[y].time, sending'[z].time)
      <4>1. CASE y = x
        BY <4>1, <3>1, <3>3, <2>1, <1>1, <1>4 DEF Apart
      <4>2. CASE z = x
        BY <4>2, <3>1, <3>3, <2>1, <1>1, <1>4 DEF Apart
      <4>3. CASE y # x /\ z # x
        BY <4>3, <3>3, <2>1 DEF ChatInv, ChatApart
      <4>4. QED
        BY <4>1, <4>2, <4>3
    <3>4. ASSUME NEW y \in Senders, NEW q \in Chat!Keys, sending'[y].op = "write", sending'[y].key = q,
                 NEW m \in stored'[q[1]], m.user = q[2]
          PROVE  Apart(sending'[y].time, m.time)
      <4>1. CASE y = x
        BY <4>1, <3>2, <3>4, <2>1, <1>1, <1>4 DEF Apart
      <4>2. CASE y # x
        BY <4>2, <3>4, <2>1, <1>2 DEF ChatInv, ChatApart
      <4>3. QED
        BY <4>1, <4>2
    <3>5. QED
      BY <1>2, <3>3, <3>4 DEF ChatInv, ChatApart
  <2>9. QED
    BY <2>3, <2>7, <2>8 DEF ChatInv
<1>10. QED
  BY <1>2, <1>8, <1>9

\* A message that is written belongs to its key as before.
LEMMA ChatWrite ==
    ASSUME ChatInv, NEW x \in Senders, Chat!Write(x)
    PROVE  ChatInv'
<1> DEFINE c == sending[x].key
           t == sending[x].time
           new == [user |-> c[2], time |-> t,
                   row |-> 1 + Chat!Max({0} \cup {m.row : m \in stored[c[1]]})]
<1>1. /\ sending[x].op = "write" /\ c \in Chat!Keys /\ t \in Nat /\ t <= chatNow
      /\ c[1] \in Chat!Streams /\ c[2] \in Authors /\ c = <<c[1], c[2]>>
  BY ChatMessage DEF ChatInv, Chat!Write
<1>2. /\ chatNow' = chatNow /\ lastSent' = lastSent /\ active' = active
      /\ sending' = [sending EXCEPT ![x] = Chat!Idle]
      /\ stored' = [stored EXCEPT ![c[1]] = Chat!Retained(Chat!Inserted(stored[c[1]], c[2], t))]
  BY DEF Chat!Write
<1>3. Chat!Retained(Chat!Inserted(stored[c[1]], c[2], t)) \subseteq stored[c[1]] \cup {new}
  BY DEF Chat!Retained, Chat!Inserted
<1>4. new.user = c[2] /\ new.time = t
  OBVIOUS
<1> HIDE DEF new
<1>5. /\ stored' = [s \in Chat!Streams |-> stored'[s]]
      /\ stored'[c[1]] \subseteq stored[c[1]] \cup {new}
      /\ \A s \in Chat!Streams : s # c[1] => stored'[s] = stored[s]
  BY <1>1, <1>2, <1>3 DEF ChatInv, ChatTypes
<1>6. ASSUME NEW s \in Chat!Streams, NEW m \in stored'[s]
      PROVE  \/ m \in stored[s]
             \/ s = c[1] /\ m.user = c[2] /\ m.time = t
  BY <1>4, <1>5, <1>6
<1>7. ChatTypes'
  BY <1>1, <1>2, <1>5, <1>6, ChatIdle DEF ChatInv, ChatTypes
<1>8. ChatSettled'
  <2>1. ASSUME NEW q \in Chat!Keys, NEW m \in stored'[q[1]], NEW s \in Nat, m.user = q[2], m.time = s
        PROVE  Settled(q, s)
    <3>1. q[1] \in Chat!Streams /\ q = <<q[1], q[2]>>
      BY DEF Chat!Keys
    <3>2. CASE m \in stored[q[1]]
      BY <3>2, <2>1 DEF ChatInv, ChatSettled
    <3>3. CASE q[1] = c[1] /\ m.user = c[2] /\ m.time = t
      <4>1. q = c
        BY <3>1, <3>3, <2>1, <1>1
      <4>2. QED
        BY <4>1, <3>3, <2>1, <1>1 DEF ChatInv, ChatSettled
    <3>4. QED
      BY <1>6, <3>1, <3>2, <3>3
  <2>2. \A q \in Chat!Keys, s \in Nat : Settled(q, s) => Settled(q, s)'
    BY <1>2 DEF Settled
  <2>3. ASSUME NEW y \in Senders, NEW q \in Chat!Keys, NEW s \in Nat,
               sending'[y].op = "write", sending'[y].key = q, sending'[y].time = s
        PROVE  Settled(q, s)
    BY <1>2, <2>3, ChatIdle DEF ChatInv, ChatSettled
  <2>4. QED
    BY <2>1, <2>2, <2>3 DEF ChatSettled
<1>9. ChatApart'
  <2>1. ASSUME NEW s \in Chat!Streams, NEW m \in stored[s], s = c[1], m.user = c[2]
        PROVE  Apart(t, m.time) /\ Apart(m.time, t)
    <3>1. Apart(t, m.time)
      BY <2>1, <1>1 DEF ChatInv, ChatApart
    <3>2. QED
      BY <3>1 DEF Apart
  <2>2. ASSUME NEW s \in Chat!Streams, NEW m \in stored'[s], NEW n \in stored'[s], m # n, m.user = n.user
        PROVE  Apart(m.time, n.time)
    <3>1. CASE m \in stored[s] /\ n \in stored[s]
      BY <3>1, <2>2 DEF ChatInv, ChatApart
    <3>2. CASE m \notin stored[s]
      <4>1. s = c[1] /\ m = new /\ n \in stored[s]
        BY <3>2, <2>2, <1>5
      <4>2. QED
        BY <4>1, <2>1, <2>2, <1>4
    <3>3. CASE n \notin stored[s]
      <4>1. s = c[1] /\ n = new /\ m \in stored[s]
        BY <3>3, <2>2, <1>5
      <4>2. QED
        BY <4>1, <2>1, <2>2, <1>4
    <3>4. QED
      BY <3>1, <3>2, <3>3
  <2>3. ASSUME NEW y \in Senders, NEW z \in Senders, y # z, sending'[y].op = "write",
               sending'[z].op = "write", sending'[y].key = sending'[z].key
        PROVE  Apart(sending'[y].time, sending'[z].time)
    BY <1>2, <2>3, ChatIdle DEF ChatInv, ChatApart
  <2>4. ASSUME NEW y \in Senders, NEW q \in Chat!Keys, sending'[y].op = "write", sending'[y].key = q,
               NEW m \in stored'[q[1]], m.user = q[2]
        PROVE  Apart(sending'[y].time, m.time)
    <3>1. y # x /\ sending'[y] = sending[y]
      BY <1>2, <2>4, ChatIdle
    <3>2. q[1] \in Chat!Streams /\ q = <<q[1], q[2]>>
      BY DEF Chat!Keys
    <3>3. CASE m \in stored[q[1]]
      BY <3>1, <3>3, <2>4 DEF ChatInv, ChatApart
    <3>4. CASE q[1] = c[1] /\ m.user = c[2] /\ m.time = t
      <4>1. q = c
        BY <3>2, <3>4, <2>4, <1>1
      <4>2. QED
        BY <4>1, <3>1, <3>4, <2>4, <1>1 DEF ChatInv, ChatApart
    <3>5. QED
      BY <1>6, <3>2, <3>3, <3>4
  <2>5. QED
    BY <2>2, <2>3, <2>4 DEF ChatApart, Apart
<1>10. QED
  BY <1>7, <1>8, <1>9 DEF ChatInv

\* A slot given back is the one its message took: what remains under the key
\* was sent an interval before, or the interval is nothing.
LEMMA ChatWriteFails ==
    ASSUME ChatInv, NEW x \in Senders, Chat!WriteFails(x)
    PROVE  ChatInv'
<1> DEFINE c == sending[x].key
           t == sending[x].time
<1>1. /\ sending[x].op = "write" /\ c \in Chat!Keys /\ t \in Nat /\ t <= chatNow /\ chatNow \in Nat
      /\ c[1] \in Chat!Streams /\ c[2] \in Authors /\ c = <<c[1], c[2]>>
  BY ChatMessage DEF ChatInv, ChatTypes, Chat!WriteFails
<1>2. /\ chatNow' = chatNow /\ stored' = stored /\ active' = active
      /\ sending' = [sending EXCEPT ![x] = Chat!Idle]
      /\ \/ lastSent' = lastSent
         \/ lastSent[c] = t /\ lastSent' = [lastSent EXCEPT ![c] = None]
  BY DEF Chat!WriteFails, Chat!Released
<1>3. ChatApart'
  BY <1>2, ChatIdle, ChatFewer
<1>4. CASE lastSent' = lastSent
  <2>1. ChatTypes'
    BY <1>2, <1>4, ChatIdle DEF ChatInv, ChatTypes
  <2>2. ChatSettled'
    BY <1>2, <1>4, ChatIdle, ChatFewerSettled
  <2>3. QED
    BY <1>3, <2>1, <2>2 DEF ChatInv
<1>5. CASE lastSent[c] = t /\ lastSent' = [lastSent EXCEPT ![c] = None]
  <2>1. /\ lastSent' = [q \in Chat!Keys |-> lastSent'[q]] /\ lastSent'[c] = None
        /\ \A q \in Chat!Keys : q # c => lastSent'[q] = lastSent[q]
    BY <1>1, <1>5 DEF ChatInv, ChatTypes
  <2>2. ChatTypes'
    BY <1>2, <2>1, ChatIdle DEF ChatInv, ChatTypes
  <2>3. ASSUME NEW s \in Nat, Settled(c, s), Apart(t, s)
        PROVE  s + MinInterval <= chatNow
    <3>1. s = t \/ s + MinInterval <= t
      BY <2>3, <1>1, <1>5, ServicesAssumption DEF Settled
    <3>2. QED
      BY <3>1, <2>3, <1>1, ServicesAssumption DEF Apart
  <2>4. ASSUME NEW q \in Chat!Keys, NEW s \in Nat, Settled(q, s), q = c => Apart(t, s)
        PROVE  Settled(q, s)'
    <3>1. CASE q = c
      BY <3>1, <2>1, <2>3, <2>4, <1>2 DEF Settled
    <3>2. CASE q # c
      BY <3>2, <2>1, <2>4, <1>2 DEF Settled
    <3>3. QED
      BY <3>1, <3>2
  <2>5. ASSUME NEW y \in Senders, NEW q \in Chat!Keys, NEW s \in Nat,
               sending'[y].op = "write", sending'[y].key = q, sending'[y].time = s
        PROVE  Settled(q, s)'
    <3>1. y # x /\ sending'[y] = sending[y]
      BY <1>2, <2>5, ChatIdle
    <3>2. Settled(q, s)
      BY <3>1, <2>5 DEF ChatInv, ChatSettled
    <3>3. q = c => Apart(t, s)
      BY <3>1, <2>5, <1>1 DEF ChatInv, ChatApart
    <3>4. QED
      BY <3>2, <3>3, <2>4
  <2>6. ASSUME NEW q \in Chat!Keys, NEW m \in stored[q[1]], NEW s \in Nat, m.user = q[2], m.time = s
        PROVE  Settled(q, s)'
    <3>1. Settled(q, s)
      BY <2>6 DEF ChatInv, ChatSettled
    <3>2. q = c => Apart(t, s)
      BY <2>6, <1>1 DEF ChatInv, ChatApart
    <3>3. QED
      BY <3>1, <3>2, <2>4
  <2>7. ChatSettled'
    BY <1>2, <2>5, <2>6 DEF ChatSettled
  <2>8. QED
    BY <1>3, <2>2, <2>7 DEF ChatInv
<1>6. QED
  BY <1>2, <1>4, <1>5

LEMMA ChatDeleteRoom ==
    ASSUME ChatInv, NEW r, Chat!DeleteRoom(r)
    PROVE  ChatInv'
<1>1. /\ chatNow' = chatNow /\ lastSent' = lastSent /\ sending' = sending
      /\ stored' = [stored EXCEPT ![r] = {}]
  BY DEF Chat!DeleteRoom
<1>2. stored' = [s \in Chat!Streams |-> stored'[s]]
      /\ \A s \in Chat!Streams : stored'[s] \subseteq stored[s]
  BY <1>1 DEF ChatInv, ChatTypes
<1>3. ChatTypes'
  BY <1>1, <1>2 DEF ChatInv, ChatTypes
<1>4. QED
  BY <1>1, <1>2, <1>3, ChatFewer, ChatFewerSettled DEF ChatInv

LEMMA ChatNext ==
    ASSUME ChatInv, Chat!Next
    PROVE  ChatInv'
BY ChatTick, ChatArrive, ChatReserve, ChatWrite, ChatWriteFails, ChatDeleteRoom DEF Chat!Next

LEMMA ChatMessagesSpaced ==
    ASSUME ChatInv
    PROVE  Chat!MessagesAreSpaced
BY DEF ChatInv, ChatApart, Apart, Chat!MessagesAreSpaced

-----------------------------------------------------------------------------
(* Logins: what an item of the table knows of the times at which its        *)
(* address was let in, and what holds of an address without one.            *)

Items_ == [attempts : 1..MaxAttempts, first : Nat, blockedUntil : Nat]

\* The budget of an address is its own again: of its last MaxAttempts - 1
\* admissions nothing is known, and all before are Shorter ago.
Fresh(s, t) == \A p \in 1..(Len(s) + 1 - MaxAttempts) : t >= s[p] + Login!Shorter

\* Below the budget the admissions counted by an item are the last ones, and
\* began Shorter after what they may not be too close to; at the budget the
\* block began at the last one.
Counts(i, s) ==
    /\ i \in Items_
    /\ Len(s) >= i.attempts
    /\ IF i.attempts < MaxAttempts
       THEN /\ i.blockedUntil = 0
            /\ i.first = s[Len(s) - i.attempts + 1]
            /\ \A p \in 1..(Len(s) - i.attempts + 1 - MaxAttempts) : i.first >= s[p] + Login!Shorter
       ELSE i.blockedUntil = s[Len(s)] + Block

\* The times in a list are in order, none later than t.
Ordered(s, t) ==
    /\ s \in Seq(Nat)
    /\ \A m, n \in 1..Len(s) : m <= n => s[m] <= s[n]
    /\ \A n \in 1..Len(s) : s[n] <= t

\* AttemptsAreLimited of one address.
Spread(s) ==
    \A n \in 1..Len(s) : n >= 2 * MaxAttempts => s[n] - s[n - 2 * MaxAttempts + 1] >= Login!Shorter

LoginInv ==
    /\ loginNow \in Nat
    /\ request = [x \in Requests |-> request[x]]
    /\ \A x \in Requests : request[x] \in Addresses \cup {None}
    /\ items = [a \in Addresses |-> items[a]]
    /\ admitted = [a \in Addresses |-> admitted[a]]
    /\ \A a \in Addresses :
        /\ Ordered(admitted[a], loginNow)
        /\ Spread(admitted[a])
        /\ IF items[a] = None THEN Fresh(admitted[a], loginNow) ELSE Counts(items[a], admitted[a])

LEMMA BudgetType == MaxAttempts \in Nat \ {0}
BY ServicesAssumption

LEMMA ShorterType == Login!Shorter \in Nat /\ Login!Shorter <= Window /\ Login!Shorter <= Block
BY ServicesAssumption DEF Login!Shorter

LEMMA LoginInit ==
    ASSUME Login!Init
    PROVE  LoginInv
BY ServicesAssumption DEF Login!Init, LoginInv, Ordered, Spread, Fresh

\* An item that has expired leaves an address with its whole budget.
LEMMA ExpiredFresh ==
    ASSUME NEW s, NEW t \in Nat, NEW i, Ordered(s, t), Counts(i, s), ~(t < Login!Expires(i))
    PROVE  Fresh(s, t)
<1> DEFINE L == Len(s)
<1>1. /\ L \in Nat /\ i.attempts \in 1..MaxAttempts /\ i.first \in Nat /\ i.blockedUntil \in Nat
      /\ L >= i.attempts
      /\ \A n \in 1..L : s[n] \in Nat
  BY DEF Ordered, Counts, Items_
<1>2. t >= i.first + Window /\ t >= i.blockedUntil
  BY <1>1, ServicesAssumption DEF Login!Expires
<1>3. SUFFICES ASSUME NEW p \in 1..(L + 1 - MaxAttempts)
               PROVE  t >= s[p] + Login!Shorter
  BY DEF Fresh
<1>4. CASE i.attempts < MaxAttempts
  <2>1. i.first = s[L - i.attempts + 1] /\ L - i.attempts + 1 \in 1..L /\ p \in 1..L /\ p <= L - i.attempts + 1
    BY <1>1, <1>4, ServicesAssumption DEF Counts
  <2>2. s[p] <= i.first
    BY <2>1 DEF Ordered
  <2>3. QED
    BY <1>1, <1>2, <2>1, <2>2, ShorterType, ServicesAssumption
<1>5. CASE ~(i.attempts < MaxAttempts)
  <2>1. i.blockedUntil = s[L] + Block /\ p \in 1..L /\ L \in 1..L
    BY <1>1, <1>5, ServicesAssumption DEF Counts
  <2>2. s[p] <= s[L]
    BY <1>1, <2>1 DEF Ordered
  <2>3. s[p] \in Nat /\ s[L] \in Nat
    BY <1>1, <2>1
  <2>4. s[p] + Login!Shorter <= s[L] + Block
    BY <2>2, <2>3, ShorterType, ServicesAssumption
  <2>5. t >= s[L] + Block
    BY <1>2, <2>1
  <2>6. QED
    BY <2>3, <2>4, <2>5, ShorterType, ServicesAssumption
<1>6. QED
  BY <1>4, <1>5

\* Letting an address in, when the admission 2 * MaxAttempts - 1 before is
\* long ago.
LEMMA Admitted ==
    ASSUME NEW s, NEW t \in Nat, Ordered(s, t), Spread(s),
           Len(s) + 2 - 2 * MaxAttempts >= 1 => t >= s[Len(s) + 2 - 2 * MaxAttempts] + Login!Shorter
    PROVE  /\ Ordered(Append(s, t), t) /\ Spread(Append(s, t))
           /\ Len(s) \in Nat /\ Len(Append(s, t)) = Len(s) + 1
           /\ Append(s, t)[Len(s) + 1] = t
           /\ \A n \in 1..Len(s) : s[n] \in Nat /\ s[n] <= t /\ Append(s, t)[n] = s[n]
<1> DEFINE L == Len(s)  r == Append(s, t)
<1>1. /\ L \in Nat /\ \A n \in 1..L : s[n] \in Nat /\ s[n] <= t /\ r[n] = s[n]
      /\ Len(r) = L + 1 /\ r[L + 1] = t /\ r \in Seq(Nat)
      /\ \A m, n \in 1..L : m <= n => s[m] <= s[n]
  BY DEF Ordered
<1>2. \A n \in 1..(L + 1) : n \in 1..L \/ n = L + 1
  BY <1>1
<1> HIDE DEF r
<1>3. Ordered(r, t)
  <2>1. ASSUME NEW m \in 1..(L + 1), NEW n \in 1..(L + 1), m <= n
        PROVE  r[m] <= r[n] /\ r[n] <= t
    <3>1. CASE n = L + 1
      BY <1>1, <1>2, <3>1, <2>1
    <3>2. CASE n \in 1..L
      <4>1. m \in 1..L
        BY <2>1, <3>2, <1>1
      <4>2. QED
        BY <4>1, <3>2, <2>1, <1>1
    <3>3. QED
      BY <3>1, <3>2, <1>2
  <2>2. QED
    BY <2>1, <1>1 DEF Ordered
<1>4. Spread(r)
  <2>1. SUFFICES ASSUME NEW n \in 1..(L + 1), n >= 2 * MaxAttempts
                 PROVE  r[n] - r[n - 2 * MaxAttempts + 1] >= Login!Shorter
    BY <1>1 DEF Spread
  <2>2. CASE n \in 1..L
    <3>1. n - 2 * MaxAttempts + 1 \in 1..L
      BY <2>1, <2>2, <1>1, ServicesAssumption
    <3>2. s[n] - s[n - 2 * MaxAttempts + 1] >= Login!Shorter
      BY <2>1, <2>2 DEF Spread
    <3>3. QED
      BY <3>1, <3>2, <2>2, <1>1
  <2>3. CASE n = L + 1
    <3> DEFINE p == n - 2 * MaxAttempts + 1
    <3>1. p = L + 2 - 2 * MaxAttempts /\ p \in 1..L
      BY <2>1, <2>3, <1>1, ServicesAssumption
    <3>2. t >= s[p] + Login!Shorter
      BY <3>1
    <3>3. r[p] = s[p] /\ r[n] = t /\ s[p] \in Nat
      BY <1>1, <2>3, <3>1
    <3>4. QED
      BY <3>2, <3>3, ShorterType
  <2>4. QED
    BY <2>2, <2>3, <1>2
<1>5. QED
  BY <1>1, <1>3, <1>4 DEF r

\* An admission that finds the address with its whole budget.
LEMMA FirstAdmission ==
    ASSUME NEW s, NEW t \in Nat, Ordered(s, t), Spread(s), Fresh(s, t),
           NEW i, i = [attempts |-> 1, first |-> t, blockedUntil |-> IF 1 >= MaxAttempts THEN t + Block ELSE 0]
    PROVE  Ordered(Append(s, t), t) /\ Spread(Append(s, t)) /\ Counts(i, Append(s, t))
<1> DEFINE L == Len(s)  r == Append(s, t)
<1>1. L \in Nat
  BY DEF Ordered
<1>2. L + 2 - 2 * MaxAttempts >= 1 => t >= s[L + 2 - 2 * MaxAttempts] + Login!Shorter
  BY <1>1, ServicesAssumption DEF Fresh
<1>3. /\ Ordered(r, t) /\ Spread(r) /\ Len(r) = L + 1 /\ r[L + 1] = t
      /\ \A n \in 1..L : s[n] \in Nat /\ s[n] <= t /\ r[n] = s[n]
  BY <1>2, Admitted
<1> HIDE DEF r
<1>4. Counts(i, r)
  <2>1. /\ i.attempts = 1 /\ i.first = t /\ i \in Items_
        /\ 1 < MaxAttempts => i.blockedUntil = 0
        /\ ~(1 < MaxAttempts) => i.blockedUntil = t + Block
    BY ServicesAssumption DEF Items_
  <2>2. ASSUME NEW p \in 1..(L + 1 - MaxAttempts)
        PROVE  t >= r[p] + Login!Shorter
    <3>1. p \in 1..L
      BY <1>1, ServicesAssumption
    <3>2. QED
      BY <3>1, <2>2, <1>3 DEF Fresh
  <2>3. Len(r) - i.attempts + 1 = L + 1 /\ Len(r) >= i.attempts
    BY <1>1, <1>3, <2>1, ServicesAssumption
  <2>4. CASE 1 < MaxAttempts
    BY <2>1, <2>2, <2>3, <2>4, <1>3 DEF Counts
  <2>5. CASE ~(1 < MaxAttempts)
    BY <2>1, <2>3, <2>5, <1>3 DEF Counts
  <2>6. QED
    BY <2>4, <2>5
<1>5. QED
  BY <1>3, <1>4 DEF r

\* An admission counted by an item that has not expired, and does not block.
LEMMA NextAdmission ==
    ASSUME NEW s, NEW t \in Nat, Ordered(s, t), Spread(s), NEW i, Counts(i, s),
           t < Login!Expires(i), ~(t < i.blockedUntil),
           NEW j, j = [attempts |-> IF i.attempts + 1 < MaxAttempts THEN i.attempts + 1 ELSE MaxAttempts,
                       first |-> i.first,
                       blockedUntil |-> IF i.attempts + 1 >= MaxAttempts THEN t + Block ELSE i.blockedUntil]
    PROVE  Ordered(Append(s, t), t) /\ Spread(Append(s, t)) /\ Counts(j, Append(s, t))
<1> DEFINE L == Len(s)  r == Append(s, t)
<1>1. /\ L \in Nat /\ i.attempts \in 1..MaxAttempts /\ i.first \in Nat /\ i.blockedUntil \in Nat
      /\ L >= i.attempts
      /\ \A n \in 1..L : s[n] \in Nat /\ s[n] <= t
  BY DEF Ordered, Counts, Items_
<1>2. L + 2 - 2 * MaxAttempts >= 1 => t >= s[L + 2 - 2 * MaxAttempts] + Login!Shorter
  <2> DEFINE p == L + 2 - 2 * MaxAttempts
  <2>1. SUFFICES ASSUME p >= 1
                 PROVE  t >= s[p] + Login!Shorter
    OBVIOUS
  <2>2. p \in 1..L /\ s[p] \in Nat
    BY <2>1, <1>1, ServicesAssumption
  <2>3. CASE i.attempts < MaxAttempts
    <3>1. p \in 1..(L - i.attempts + 1 - MaxAttempts) /\ L - i.attempts + 1 \in 1..L
      BY <2>2, <2>3, <1>1, BudgetType
    <3>2. i.first >= s[p] + Login!Shorter /\ i.first = s[L - i.attempts + 1]
      BY <3>1, <2>3 DEF Counts
    <3>3. t >= i.first
      BY <3>1, <3>2, <1>1
    <3>4. QED
      BY <3>2, <3>3, <2>2, <1>1, ShorterType
  <2>4. CASE ~(i.attempts < MaxAttempts)
    <3>1. i.blockedUntil = s[L] + Block /\ L \in 1..L /\ s[L] \in Nat
      BY <2>4, <1>1, ServicesAssumption DEF Counts
    <3>2. s[p] <= s[L]
      BY <3>1, <2>2 DEF Ordered
    <3>3. t >= s[L] + Block
      BY <3>1, <1>1
    <3>4. s[p] + Login!Shorter <= s[L] + Block
      BY <3>1, <3>2, <2>2, ShorterType, ServicesAssumption
    <3>5. QED
      BY <3>1, <3>3, <3>4, <2>2, ShorterType, ServicesAssumption
  <2>5. QED
    BY <2>3, <2>4
<1>3. /\ Ordered(r, t) /\ Spread(r) /\ Len(r) = L + 1 /\ r[L + 1] = t
      /\ \A n \in 1..L : s[n] \in Nat /\ s[n] <= t /\ r[n] = s[n]
  BY <1>2, Admitted
<1> HIDE DEF r
<1>4. Counts(j, r)
  <2>1. CASE i.attempts + 1 < MaxAttempts
    <3>1. /\ j.attempts = i.attempts + 1 /\ j.first = i.first /\ j.blockedUntil = i.blockedUntil
          /\ j \in Items_ /\ i.attempts < MaxAttempts /\ j.attempts < MaxAttempts
      BY <2>1, <1>1, ServicesAssumption DEF Items_
    <3>2. /\ j.blockedUntil = 0 /\ j.first = s[L - i.attempts + 1]
          /\ \A p \in 1..(L - i.attempts + 1 - MaxAttempts) : j.first >= s[p] + Login!Shorter
      BY <3>1 DEF Counts
    <3>3. Len(r) - j.attempts + 1 = L - i.attempts + 1 /\ Len(r) >= j.attempts
      BY <3>1, <1>1, <1>3
    <3>4. L - i.attempts + 1 \in 1..L
          /\ \A p \in 1..(L - i.attempts + 1 - MaxAttempts) : p \in 1..L
      BY <1>1, ServicesAssumption
    <3>5. r[L - i.attempts + 1] = s[L - i.attempts + 1]
          /\ \A p \in 1..(L - i.attempts + 1 - MaxAttempts) : r[p] = s[p]
      BY <3>4, <1>3
    <3>6. j.first = r[Len(r) - j.attempts + 1]
      BY <3>2, <3>3, <3>5
    <3>7. \A p \in 1..(Len(r) - j.attempts + 1 - MaxAttempts) : j.first >= r[p] + Login!Shorter
      <4>1. Len(r) - j.attempts + 1 - MaxAttempts = L - i.attempts + 1 - MaxAttempts
        BY <1>1, <1>3, <3>1, BudgetType
      <4>2. \A p \in 1..(L - i.attempts + 1 - MaxAttempts) : j.first >= r[p] + Login!Shorter
        BY <3>2, <3>5
      <4>3. QED
        BY <4>1, <4>2
    <3>8. QED
      BY <3>1, <3>2, <3>3, <3>6, <3>7 DEF Counts
  <2>2. CASE ~(i.attempts + 1 < MaxAttempts)
    <3>1. j.attempts = MaxAttempts /\ j \in Items_ /\ j.blockedUntil = t + Block
      BY <2>2, <1>1, ServicesAssumption DEF Items_
    <3>2. Len(r) >= MaxAttempts
      BY <2>2, <1>1, <1>3, ServicesAssumption
    <3>3. QED
      BY <3>1, <3>2, <1>3, <1>1, ServicesAssumption DEF Counts
  <2>3. QED
    BY <2>1, <2>2
<1>5. QED
  BY <1>3, <1>4 DEF r

-----------------------------------------------------------------------------
(* The actions *)

\* Time only helps.
LEMMA LoginTick ==
    ASSUME LoginInv, Login!Tick
    PROVE  LoginInv'
<1>1. loginNow \in Nat /\ loginNow' = loginNow + 1 /\ items' = items /\ request' = request
      /\ admitted' = admitted
  BY DEF Login!Tick, LoginInv
<1>2. ASSUME NEW s, Ordered(s, loginNow)
      PROVE  Ordered(s, loginNow + 1)
  BY <1>1, <1>2 DEF Ordered
<1>3. ASSUME NEW s, Ordered(s, loginNow), Fresh(s, loginNow)
      PROVE  Fresh(s, loginNow + 1)
  <2>1. SUFFICES ASSUME NEW p \in 1..(Len(s) + 1 - MaxAttempts)
                 PROVE  loginNow + 1 >= s[p] + Login!Shorter
    BY DEF Fresh
  <2>2. loginNow >= s[p] + Login!Shorter /\ p \in 1..Len(s)
    BY <1>3, ServicesAssumption DEF Fresh, Ordered
  <2>3. s[p] \in Nat
    BY <1>3, <2>2 DEF Ordered
  <2>4. QED
    BY <1>1, <2>2, <2>3, ShorterType
<1>4. ASSUME NEW a \in Addresses
      PROVE  /\ Ordered(admitted[a], loginNow + 1)
             /\ Spread(admitted[a])
             /\ IF items[a] = None THEN Fresh(admitted[a], loginNow + 1) ELSE Counts(items[a], admitted[a])
  BY <1>2, <1>3 DEF LoginInv
<1>5. loginNow + 1 \in Nat
  BY <1>1
<1>6. QED
  BY <1>1, <1>4, <1>5 DEF LoginInv

\* An address the table forgets has its whole budget.
LEMMA Forgotten ==
    ASSUME LoginInv, NEW a \in Addresses, NEW b \in Addresses, b \notin Login!Live(a)
    PROVE  Fresh(admitted[b], loginNow)
<1>1. CASE items[b] = None
  BY <1>1 DEF LoginInv
<1>2. CASE items[b] # None
  <2>1. ~(loginNow < Login!Expires(items[b]))
    BY <1>2 DEF Login!Live, Login!Tracked, Login!Known
  <2>2. QED
    BY <1>2, <2>1, ExpiredFresh DEF LoginInv
<1>3. QED
  BY <1>1, <1>2

\* Recorded by its fields.
LEMMA RecordedFields ==
    ASSUME NEW item \in [attempts : Nat, first : Nat, blockedUntil : Nat], NEW c, NEW u
    PROVE  [item EXCEPT !.attempts = c, !.blockedUntil = u]
             = [attempts |-> c, first |-> item.first, blockedUntil |-> u]
<1>1. item = [attempts |-> item.attempts, first |-> item.first, blockedUntil |-> item.blockedUntil]
  OBVIOUS
<1>2. [item EXCEPT !.attempts = c] = [attempts |-> c, first |-> item.first, blockedUntil |-> item.blockedUntil]
  BY <1>1
<1>3. [item EXCEPT !.attempts = c, !.blockedUntil = u] = [[item EXCEPT !.attempts = c] EXCEPT !.blockedUntil = u]
  BY <1>1
<1> DEFINE once == [attempts |-> c, first |-> item.first, blockedUntil |-> item.blockedUntil]
<1>4. [once EXCEPT !.blockedUntil = u] = [attempts |-> c, first |-> item.first, blockedUntil |-> u]
  OBVIOUS
<1> HIDE DEF once
<1>5. QED
  BY <1>2, <1>3, <1>4 DEF once

LEMMA LoginAdmit ==
    ASSUME LoginInv, NEW x \in Requests, NEW a \in Addresses, Login!Admit(x, a)
    PROVE  LoginInv'
<1> DEFINE live == [b \in Addresses |-> IF b \in Login!Live(a) THEN items[b] ELSE None]
           i == items[a]
           s == admitted[a]
           j == Login!Recorded(a)
<1>1. \A b \in Addresses : IF live[b] = None THEN Fresh(admitted[b], loginNow)
                           ELSE Counts(live[b], admitted[b])
  BY Forgotten DEF LoginInv
<1>2. /\ loginNow' = loginNow
      /\ \/ items' = live /\ UNCHANGED <<request, admitted>>
         \/ /\ ~Login!Blocked(a)
            /\ items' = [live EXCEPT ![a] = j]
            /\ request' = [request EXCEPT ![x] = a]
            /\ admitted' = [admitted EXCEPT ![a] = Append(@, loginNow)]
  BY DEF Login!Admit
<1>3. CASE items' = live /\ UNCHANGED <<request, admitted>>
  <2> HIDE DEF live
  <2>1. QED
    BY <1>1, <1>2, <1>3 DEF LoginInv, live
<1>4. CASE /\ ~Login!Blocked(a)
           /\ items' = [live EXCEPT ![a] = j]
           /\ request' = [request EXCEPT ![x] = a]
           /\ admitted' = [admitted EXCEPT ![a] = Append(@, loginNow)]
  <2>1. loginNow \in Nat /\ Ordered(s, loginNow) /\ Spread(s)
        /\ IF i = None THEN Fresh(s, loginNow) ELSE Counts(i, s)
    BY DEF LoginInv
  <2>2. Ordered(Append(s, loginNow), loginNow) /\ Spread(Append(s, loginNow)) /\ Counts(j, Append(s, loginNow))
    <3>1. CASE Login!Known(a)
      <4>1. Counts(i, s) /\ loginNow < Login!Expires(i) /\ ~(loginNow < i.blockedUntil)
        BY <2>1, <3>1, <1>4 DEF Login!Known, Login!Blocked
      <4>2. i \in [attempts : Nat, first : Nat, blockedUntil : Nat]
        BY <4>1, ServicesAssumption DEF Counts, Items_
      <4>3. j = [attempts |-> IF i.attempts + 1 < MaxAttempts THEN i.attempts + 1 ELSE MaxAttempts,
                 first |-> i.first,
                 blockedUntil |-> IF i.attempts + 1 >= MaxAttempts THEN loginNow + Block ELSE i.blockedUntil]
        <5>1. j = [i EXCEPT !.attempts = IF i.attempts + 1 < MaxAttempts THEN i.attempts + 1 ELSE MaxAttempts,
                            !.blockedUntil = IF i.attempts + 1 >= MaxAttempts THEN loginNow + Block
                                             ELSE i.blockedUntil]
          BY <3>1, <4>2 DEF Login!Recorded
        <5> HIDE DEF i, j
        <5>2. QED
          BY <5>1, <4>2, RecordedFields
      <4> HIDE DEF i, s, j
      <4>4. QED
        BY <2>1, <4>1, <4>3, NextAdmission
    <3>2. CASE ~Login!Known(a)
      <4>1. Fresh(s, loginNow)
        BY <2>1, <3>2, ExpiredFresh DEF Login!Known
      <4>2. j = [attempts |-> 1, first |-> loginNow,
                 blockedUntil |-> IF 1 >= MaxAttempts THEN loginNow + Block ELSE 0]
        <5> DEFINE new == [attempts |-> 0, first |-> loginNow, blockedUntil |-> 0]
        <5>1. new \in [attempts : Nat, first : Nat, blockedUntil : Nat]
          BY <2>1
        <5>2. new.attempts = 0 /\ new.first = loginNow /\ new.blockedUntil = 0
          OBVIOUS
        <5>3. j = [new EXCEPT !.attempts = IF new.attempts + 1 < MaxAttempts THEN new.attempts + 1 ELSE MaxAttempts,
                              !.blockedUntil = IF new.attempts + 1 >= MaxAttempts THEN loginNow + Block
                                               ELSE new.blockedUntil]
          BY <3>2 DEF Login!Recorded
        <5> HIDE DEF new, j
        <5>4. j = [attempts |-> IF new.attempts + 1 < MaxAttempts THEN new.attempts + 1 ELSE MaxAttempts,
                   first |-> new.first,
                   blockedUntil |-> IF new.attempts + 1 >= MaxAttempts THEN loginNow + Block
                                    ELSE new.blockedUntil]
          BY <5>1, <5>3, RecordedFields
        <5>5. (IF new.attempts + 1 < MaxAttempts THEN new.attempts + 1 ELSE MaxAttempts) = 1
              /\ new.attempts + 1 = 1
          BY <5>2, ServicesAssumption
        <5>6. QED
          BY <5>2, <5>4, <5>5
      <4> HIDE DEF i, s, j
      <4>3. QED
        BY <2>1, <4>1, <4>2, FirstAdmission
    <3>3. QED
      BY <3>1, <3>2
  <2>3. items'[a] = j /\ admitted'[a] = Append(s, loginNow) /\ j # None
    <3>1. j # None
      BY <2>2, ServicesAssumption DEF Counts, Items_
    <3>2. QED
      BY <1>4, <3>1 DEF LoginInv
  <2>4. ASSUME NEW b \in Addresses, b # a
        PROVE  items'[b] = live[b] /\ admitted'[b] = admitted[b]
    BY <1>4, <2>4 DEF LoginInv
  <2>5. /\ items' = [b \in Addresses |-> items'[b]] /\ admitted' = [b \in Addresses |-> admitted'[b]]
        /\ request' = [y \in Requests |-> request'[y]]
        /\ \A y \in Requests : request'[y] \in Addresses \cup {None}
    BY <1>4 DEF LoginInv
  <2> HIDE DEF live, i, s, j
  <2>6. ASSUME NEW b \in Addresses
        PROVE  /\ Ordered(admitted'[b], loginNow)
               /\ Spread(admitted'[b])
               /\ IF items'[b] = None THEN Fresh(admitted'[b], loginNow) ELSE Counts(items'[b], admitted'[b])
    <3>1. CASE b = a
      BY <3>1, <2>2, <2>3
    <3>2. CASE b # a
      BY <3>2, <2>4, <1>1 DEF LoginInv
    <3>3. QED
      BY <3>1, <3>2
  <2>7. QED
    BY <1>2, <2>1, <2>5, <2>6 DEF LoginInv
<1>5. QED
  BY <1>2, <1>3, <1>4

LEMMA LoginFails ==
    ASSUME LoginInv, NEW x \in Requests, Login!LoginFails(x)
    PROVE  LoginInv'
BY DEF LoginInv, Login!LoginFails

LEMMA LoginSucceeds ==
    ASSUME LoginInv, NEW x \in Requests, Login!LoginSucceeds(x)
    PROVE  LoginInv'
<1> DEFINE a == request[x]
<1>1. /\ a \in Addresses /\ loginNow' = loginNow /\ loginNow \in Nat
      /\ items' = [items EXCEPT ![a] = None] /\ admitted' = [admitted EXCEPT ![a] = <<>>]
      /\ request' = [request EXCEPT ![x] = None]
  BY DEF LoginInv, Login!LoginSucceeds
<1>2. Ordered(<<>>, loginNow) /\ Spread(<<>>) /\ Fresh(<<>>, loginNow)
  BY ServicesAssumption DEF Ordered, Spread, Fresh
<1> HIDE DEF a
<1>3. QED
  BY <1>1, <1>2 DEF LoginInv

LEMMA LoginNext ==
    ASSUME LoginInv, Login!Next
    PROVE  LoginInv'
BY LoginTick, LoginAdmit, LoginFails, LoginSucceeds DEF Login!Next

LEMMA LoginLimited ==
    ASSUME LoginInv
    PROVE  Login!AttemptsAreLimited
<1>1. ASSUME NEW a \in Addresses
      PROVE  DOMAIN admitted[a] = 1..Len(admitted[a])
  BY DEF LoginInv, Ordered
<1>2. QED
  BY <1>1 DEF LoginInv, Spread, Login!AttemptsAreLimited

-----------------------------------------------------------------------------
(* Presence: every snapshot on its way to a browser, or shown by one, says  *)
(* who was online at its revision, and that is not rewritten.               *)

\* A snapshot as Snapshot makes it, true of its revision.
TrueSnapshot(s, n, past) ==
    /\ s = [revision |-> s.revision, users |-> s.users]
    /\ s.revision \in 0..n
    /\ s.users = past[s.revision]

PresInv ==
    /\ revision \in 0..MaxRevision
    /\ DOMAIN happened = 0..MaxRevision /\ happened = [n \in 0..MaxRevision |-> happened[n]]
    /\ happened[revision] = Pres!Online(rooms) /\ happened[0] = {}
    /\ \A s \in sends : s = [snapshot |-> s.snapshot, to |-> s.to]
                        /\ TrueSnapshot(s.snapshot, revision, happened)
    /\ waiting = [b \in Browsers |-> waiting[b]]
    /\ \A b \in Browsers : waiting[b] # None => TrueSnapshot(waiting[b], revision, happened)
    /\ shown = [b \in Browsers |-> shown[b]]
    /\ \A b \in Browsers : TrueSnapshot(shown[b], revision, happened)

LEMMA PresInit ==
    ASSUME Pres!Init
    PROVE  PresInv
<1>1. Pres!Online(rooms) = {}
  BY DEF Pres!Init, Pres!Online
<1>2. QED
  BY <1>1, ServicesAssumption DEF Pres!Init, PresInv, TrueSnapshot, Pres!Revisions

\* A snapshot of the state under the lock is true.
LEMMA SnapshotTrue ==
    ASSUME NEW n \in Nat, NEW past, NEW r, past[n] = Pres!Online(r)
    PROVE  TrueSnapshot(Pres!Snapshot(r, n), n, past)
BY DEF TrueSnapshot, Pres!Snapshot

\* A change under the lock leaves the earlier revisions as they were.
LEMMA ChangedKeeps ==
    ASSUME PresInv, NEW next, Pres!Changed(next)
    PROVE  /\ revision' \in 0..MaxRevision /\ revision' = revision + 1
           /\ DOMAIN happened' = 0..MaxRevision
           /\ happened' = [n \in 0..MaxRevision |-> happened'[n]]
           /\ happened'[revision'] = Pres!Online(next) /\ happened'[0] = {}
           /\ \A s : TrueSnapshot(s, revision, happened) => TrueSnapshot(s, revision', happened')
<1>1. /\ revision \in 0..MaxRevision /\ revision < MaxRevision
      /\ DOMAIN happened = 0..MaxRevision /\ happened = [n \in 0..MaxRevision |-> happened[n]]
      /\ revision' = revision + 1 /\ happened[0] = {}
      /\ happened' = [happened EXCEPT ![revision + 1] = Pres!Online(next)]
  BY DEF PresInv, Pres!Changed
<1>2. revision + 1 \in 0..MaxRevision
  BY <1>1, ServicesAssumption
<1>3. \A n \in 0..revision : happened'[n] = happened[n]
  BY <1>1, <1>2, ServicesAssumption
<1>4. ASSUME NEW s, TrueSnapshot(s, revision, happened)
      PROVE  TrueSnapshot(s, revision', happened')
  BY <1>1, <1>3, <1>4, ServicesAssumption DEF TrueSnapshot
<1>5. happened' = [n \in 0..MaxRevision |-> happened'[n]]
  BY <1>1
<1>6. happened'[revision'] = Pres!Online(next) /\ DOMAIN happened' = 0..MaxRevision
  BY <1>1, <1>2
<1>7. 0 \in 0..revision
  BY <1>1, ServicesAssumption
<1>8. happened'[0] = {}
  BY <1>1, <1>3, <1>7
<1>9. QED
  BY <1>1, <1>2, <1>4, <1>5, <1>6, <1>8

\* What a step adds must be true; what was under way stays true.
LEMMA PresStep ==
    ASSUME PresInv,
           \/ /\ rooms' = rooms /\ revision' = revision /\ happened' = happened
           \/ Pres!Changed(rooms'),
           \A s \in sends' :
               \/ s \in sends
               \/ /\ s = [snapshot |-> s.snapshot, to |-> s.to]
                  /\ \/ TrueSnapshot(s.snapshot, revision', happened')
                     \/ \E t \in sends : s.snapshot = t.snapshot,
           waiting' = [b \in Browsers |-> waiting'[b]],
           \A b \in Browsers : waiting'[b] # None =>
               \/ waiting'[b] = waiting[b]
               \/ TrueSnapshot(waiting'[b], revision', happened')
               \/ \E t \in sends : waiting'[b] = t.snapshot,
           shown' = [b \in Browsers |-> shown'[b]],
           \A b \in Browsers :
               \/ shown'[b] = shown[b]
               \/ shown'[b] = waiting[b] /\ waiting[b] # None
               \/ shown'[b] = [revision |-> 0, users |-> {}]
    PROVE  PresInv'
<1>1. /\ revision' \in 0..MaxRevision
      /\ DOMAIN happened' = 0..MaxRevision
      /\ happened' = [n \in 0..MaxRevision |-> happened'[n]]
      /\ happened'[revision'] = Pres!Online(rooms') /\ happened'[0] = {}
      /\ \A s : TrueSnapshot(s, revision, happened) => TrueSnapshot(s, revision', happened')
  <2>1. CASE Pres!Changed(rooms')
    BY <2>1, ChangedKeeps
  <2>2. CASE rooms' = rooms /\ revision' = revision /\ happened' = happened
    BY <2>2 DEF PresInv
  <2>3. QED
    BY <2>1, <2>2
<1>2. TrueSnapshot([revision |-> 0, users |-> {}], revision', happened')
  BY <1>1, ServicesAssumption DEF TrueSnapshot
<1>3. ASSUME NEW s \in sends'
      PROVE  s = [snapshot |-> s.snapshot, to |-> s.to] /\ TrueSnapshot(s.snapshot, revision', happened')
  BY <1>1, <1>3 DEF PresInv
<1>4. ASSUME NEW b \in Browsers, waiting'[b] # None
      PROVE  TrueSnapshot(waiting'[b], revision', happened')
  BY <1>1, <1>4 DEF PresInv
<1>5. ASSUME NEW b \in Browsers
      PROVE  TrueSnapshot(shown'[b], revision', happened')
  BY <1>1, <1>2, <1>5 DEF PresInv
<1>6. Pres!Online(rooms)' = Pres!Online(rooms')
  BY DEF Pres!Online
<1>7. QED
  BY <1>1, <1>3, <1>4, <1>5, <1>6 DEF PresInv

LEMMA PresRegister ==
    ASSUME PresInv, NEW b \in Browsers, NEW u, Pres!Register(b, u)
    PROVE  PresInv'
<1>1. Pres!Changed(rooms')
  BY DEF Pres!Register, Pres!Changed
<1>2. sends' = sends /\ waiting' = waiting
      /\ shown' \in {shown, [shown EXCEPT ![b] = [revision |-> 0, users |-> {}]]}
  BY DEF Pres!Register
<1>3. QED
  BY <1>1, <1>2, PresStep DEF PresInv

LEMMA PresAnnounce ==
    ASSUME PresInv, NEW b \in Browsers, Pres!Announce(b)
    PROVE  PresInv'
<1>1. TrueSnapshot(Pres!Snapshot(rooms, revision), revision, happened)
  BY SnapshotTrue, ServicesAssumption DEF PresInv
<1>2. /\ sends' = sends \cup {[snapshot |-> Pres!Snapshot(rooms, revision), to |-> None]}
      /\ rooms' = rooms /\ revision' = revision /\ happened' = happened
      /\ waiting' = waiting /\ shown' = shown
  BY DEF Pres!Announce
<1>3. waiting' = [b2 \in Browsers |-> waiting'[b2]] /\ shown' = [b2 \in Browsers |-> shown'[b2]]
  BY <1>2 DEF PresInv
<1>4. QED
  BY <1>1, <1>2, <1>3, PresStep

LEMMA PresLeave ==
    ASSUME PresInv, NEW gone, Pres!Leave(gone)
    PROVE  PresInv'
<1> DEFINE next == [b \in Browsers |-> IF b \in gone THEN None ELSE rooms[b]]
           new == [snapshot |-> Pres!Snapshot(next, revision + 1), to |-> None]
<1>1. Pres!Changed(next) /\ rooms' = next
  BY DEF Pres!Leave, Pres!Changed
<1>2. TrueSnapshot(Pres!Snapshot(next, revision'), revision', happened')
  BY <1>1, ChangedKeeps, SnapshotTrue, ServicesAssumption
<1>3. revision' = revision + 1
  BY <1>1, ChangedKeeps
<1>4. /\ sends' = ({s \in sends : s.to = None}
            \cup {[s EXCEPT !.to = @ \ gone] : s \in {t \in sends : t.to # None /\ t.to \ gone # {}}})
            \cup {new}
      /\ waiting' = [b \in Browsers |-> IF b \in gone THEN None ELSE waiting[b]]
      /\ shown' = shown
  BY DEF Pres!Leave
<1>5. new = [snapshot |-> new.snapshot, to |-> new.to] /\ TrueSnapshot(new.snapshot, revision', happened')
  BY <1>2, <1>3
<1> HIDE DEF new, next
<1>6. ASSUME NEW s \in sends'
      PROVE  \/ s \in sends
             \/ /\ s = [snapshot |-> s.snapshot, to |-> s.to]
                /\ \/ TrueSnapshot(s.snapshot, revision', happened')
                   \/ \E t \in sends : s.snapshot = t.snapshot
  <2>1. CASE \E t \in sends : s = [t EXCEPT !.to = @ \ gone]
    <3>1. PICK t \in sends : s = [t EXCEPT !.to = @ \ gone]
      BY <2>1
    <3>2. t = [snapshot |-> t.snapshot, to |-> t.to]
      BY DEF PresInv
    <3>3. s = [snapshot |-> t.snapshot, to |-> t.to \ gone]
      BY <3>1, <3>2
    <3>4. QED
      BY <3>3
  <2>2. CASE s \in sends
    BY <2>2
  <2>3. CASE s = new
    BY <2>3, <1>5
  <2>4. QED
    BY <1>4, <1>6, <2>1, <2>2, <2>3
<1>7. \A b \in Browsers : waiting'[b] # None => waiting'[b] = waiting[b]
  BY <1>4
<1>8. shown' = [b \in Browsers |-> shown'[b]] /\ waiting' = [b \in Browsers |-> waiting'[b]]
  BY <1>4 DEF PresInv
<1>9. QED
  BY <1>1, <1>4, <1>6, <1>7, <1>8, PresStep

LEMMA PresUpdate ==
    ASSUME PresInv, NEW u, Pres!UpdateUserSession(u)
    PROVE  PresInv'
<1>1. Pres!Changed(rooms) /\ rooms' = rooms
  BY DEF Pres!UpdateUserSession, Pres!Changed
<1>2. TrueSnapshot(Pres!Snapshot(rooms, revision'), revision', happened')
  BY <1>1, ChangedKeeps, SnapshotTrue, ServicesAssumption
<1>3. revision' = revision + 1
  BY <1>1, ChangedKeeps
<1>4. QED
  BY <1>1, <1>2, <1>3, PresStep DEF PresInv, Pres!UpdateUserSession

LEMMA PresSends ==
    ASSUME PresInv, NEW s \in sends,
           Pres!ReadTargets(s) \/ \E b \in Browsers : Pres!Send(s, b)
    PROVE  PresInv'
<1>1. s = [snapshot |-> s.snapshot, to |-> s.to]
  BY DEF PresInv
<1>2. CASE Pres!ReadTargets(s)
  <2>1. [s EXCEPT !.to = Pres!Connected] = [snapshot |-> s.snapshot, to |-> Pres!Connected]
    BY <1>1
  <2>2. QED
    BY <1>2, <2>1, PresStep DEF PresInv, Pres!ReadTargets
<1>3. ASSUME NEW b \in Browsers, Pres!Send(s, b)
      PROVE  PresInv'
  <2>1. [s EXCEPT !.to = @ \ {b}] = [snapshot |-> s.snapshot, to |-> s.to \ {b}]
    BY <1>1
  <2>2. QED
    BY <1>3, <2>1, PresStep DEF PresInv, Pres!Send
<1>4. QED
  BY <1>2, <1>3

LEMMA PresAsk ==
    ASSUME PresInv, NEW b \in Browsers, Pres!Ask(b)
    PROVE  PresInv'
<1>1. TrueSnapshot(Pres!Snapshot(rooms, revision), revision, happened)
  BY SnapshotTrue, ServicesAssumption DEF PresInv
<1>2. QED
  BY <1>1, PresStep DEF PresInv, Pres!Ask

LEMMA PresApply ==
    ASSUME PresInv, NEW b \in Browsers, Pres!Apply(b)
    PROVE  PresInv'
BY PresStep DEF PresInv, Pres!Apply

LEMMA PresNext ==
    ASSUME PresInv, Pres!Next
    PROVE  PresInv'
BY PresRegister, PresAnnounce, PresLeave, PresUpdate, PresSends, PresAsk, PresApply
   DEF Pres!Next, Pres!Unregister, Pres!CloseSessionHashes

\* What a browser shows changes only as it enters a room or shows a snapshot
\* of a later revision.
LEMMA PresMoves ==
    ASSUME PresInv, PresInv', Pres!Next
    PROVE  Pres!MovesOn
<1>1. SUFFICES ASSUME NEW b \in Pres!Connected
               PROVE  shown'[b].revision >= shown[b].revision
  BY DEF Pres!MovesOn, PresInv, TrueSnapshot, Pres!Connected
<1>2. b \in Browsers /\ rooms[b] # None /\ shown[b].revision \in Nat
  BY ServicesAssumption DEF Pres!Connected, PresInv, TrueSnapshot
<1>3. \/ shown'[b] = shown[b]
      \/ shown'[b] = waiting[b] /\ waiting[b] # None /\ waiting[b].revision > shown[b].revision
  <2>1. ASSUME NEW c \in Browsers, NEW u \in Users, Pres!Register(c, u)
        PROVE  shown'[b] = shown[b]
    <3>1. c # b /\ shown' \in {shown, [shown EXCEPT ![c] = [revision |-> 0, users |-> {}]]}
      BY <1>2, <2>1 DEF Pres!Register
    <3>2. [shown EXCEPT ![c] = [revision |-> 0, users |-> {}]][b] = shown[b]
      BY <1>2, <3>1
    <3>3. QED
      BY <3>1, <3>2
  <2>2. ASSUME NEW c \in Browsers, Pres!Apply(c)
        PROVE  \/ shown'[b] = shown[b]
               \/ shown'[b] = waiting[b] /\ waiting[b] # None /\ waiting[b].revision > shown[b].revision
    BY <1>2, <2>2 DEF Pres!Apply, PresInv
  <2>3. QED
    BY <2>1, <2>2 DEF Pres!Next, Pres!Announce, Pres!Unregister, Pres!Leave, Pres!Ask,
       Pres!CloseSessionHashes, Pres!UpdateUserSession, Pres!ReadTargets, Pres!Send
<1>4. waiting[b] # None => waiting[b].revision \in Nat
  BY <1>2, ServicesAssumption DEF PresInv, TrueSnapshot
<1>5. QED
  BY <1>2, <1>3, <1>4

-----------------------------------------------------------------------------
(* The parts together: a behaviour is of the part it starts with, so the    *)
(* invariant of that part is one of the whole.                              *)

all == <<part, vars, sessVars, mediaVars, orderVars, chatVars, loginVars, presVars>>

SessInv ==
    /\ SessTypeOK /\ SessProfilesFirst
    /\ Sess!SessionsUseCurrentPassword /\ Sess!RevokedSessionsAreClosed

ServicesInv ==
    /\ part = "sessions" => SessInv
    /\ part = "media" => MediaInv
    /\ part = "orders" => OrderInv
    /\ part = "chat" => ChatInv
    /\ part = "logins" => LoginInv
    /\ part = "presence" => PresInv

LEMMA SessInit ==
    ASSUME Sess!Init
    PROVE  SessInv
BY SessTypeInit, SessProfilesInit, SessCurrentInit, SessClosedInit DEF SessInv

LEMMA SessNext ==
    ASSUME SessInv, Sess!Next
    PROVE  SessInv'
BY SessTypeStep, SessProfilesStep, SessCurrentStep, SessClosedStep DEF SessInv

LEMMA PartsInit ==
    ASSUME ServicesInit
    PROVE  ServicesInv
<1>1. part = "sessions" => SessInv
  BY SessInit DEF ServicesInit
<1>2. part = "media" => MediaInv
  BY MediaInit DEF ServicesInit
<1>3. part = "chat" => ChatInv
  BY ChatInit DEF ServicesInit
<1>4. part = "logins" => LoginInv
  BY LoginInit DEF ServicesInit
<1>5. part = "presence" => PresInv
  BY PresInit DEF ServicesInit
<1>6. part = "orders" => OrderInv
  BY OrderInit DEF ServicesInit
<1>7. QED
  BY <1>1, <1>2, <1>3, <1>4, <1>5, <1>6 DEF ServicesInv

\* A step is one of its part.
LEMMA PartsAreApart ==
    ASSUME ServicesNext
    PROVE  /\ part' = part
           /\ part = "sessions" => Sess!Next
           /\ part = "media" => Media!Next
           /\ part = "chat" => Chat!Next
           /\ part = "logins" => Login!Next
           /\ part = "presence" => Pres!Next
           /\ part = "orders" => Order!Next
<1>1. \E p : part = p /\ part' = part
  BY DEF ServicesNext, Stay
<1>2. part = "sessions" => Sess!Next
  BY DEF ServicesNext, Stay
<1>3. part = "media" => Media!Next
  BY DEF ServicesNext, Stay
<1>4. part = "chat" => Chat!Next
  BY DEF ServicesNext, Stay
<1>5. part = "logins" => Login!Next
  BY DEF ServicesNext, Stay
<1>6. part = "presence" => Pres!Next
  BY DEF ServicesNext, Stay
<1>7. part = "orders" => Order!Next
  BY DEF ServicesNext, Stay
<1>8. QED
  BY <1>1, <1>2, <1>3, <1>4, <1>5, <1>6, <1>7

\* Without a step nothing is lost.
LEMMA PartsStutter ==
    ASSUME ServicesInv, UNCHANGED all
    PROVE  ServicesInv'
<1>1. /\ part' = part
      /\ account' = account /\ password' = password /\ session' = session /\ call' = call /\ conn' = conn
      /\ file' = file /\ entry' = entry /\ older' = older /\ used' = used /\ reserved' = reserved
      /\ jobs' = jobs /\ inflight' = inflight /\ worker' = worker /\ reading' = reading /\ closed' = closed
      /\ chatNow' = chatNow /\ lastSent' = lastSent /\ sending' = sending /\ stored' = stored
      /\ active' = active
      /\ loginNow' = loginNow /\ items' = items /\ request' = request /\ admitted' = admitted
      /\ rooms' = rooms /\ revision' = revision /\ sends' = sends /\ waiting' = waiting
      /\ shown' = shown /\ happened' = happened
      /\ row' = row /\ desired' = desired
  BY DEF all, sessVars, mediaVars, orderVars, chatVars, loginVars, presVars
<1>2. SessInv => SessInv'
  <2>1. SessTypeOK => SessTypeOK'
    BY <1>1 DEF SessTypeOK, SessIsRow, SessIsCall, SessIsConn
  <2>2. SessProfilesFirst => SessProfilesFirst'
    BY <1>1 DEF SessProfilesFirst
  <2>3. Sess!SessionsUseCurrentPassword => Sess!SessionsUseCurrentPassword'
    BY <1>1 DEF Sess!SessionsUseCurrentPassword, Sess!LiveSessions, Sess!UserOf
  <2>4. Sess!RevokedSessionsAreClosed => Sess!RevokedSessionsAreClosed'
    BY <1>1 DEF Sess!RevokedSessionsAreClosed
  <2>5. QED
    BY <2>1, <2>2, <2>3, <2>4 DEF SessInv
<1>3. MediaInv => MediaInv'
  BY <1>1 DEF MediaInv, MediaTypes, DiskAccounted
<1>4. ChatInv => ChatInv'
  BY <1>1 DEF ChatInv, ChatTypes, ChatApart, ChatSettled, Settled
<1>5. LoginInv => LoginInv'
  BY <1>1 DEF LoginInv
<1>6. PresInv => PresInv'
  BY <1>1 DEF PresInv, Pres!Online
<1>7. OrderInv => OrderInv'
  BY <1>1 DEF OrderInv, OrderTypes, Order!QueueReadsBack, Order!LoadQueue, Order!ToSet, Order!Existing
<1>8. QED
  BY <1>1, <1>2, <1>3, <1>4, <1>5, <1>6, <1>7 DEF ServicesInv

LEMMA PartsStep ==
    ASSUME ServicesInv, [ServicesNext]_all
    PROVE  ServicesInv'
<1>1. CASE ServicesNext
  <2>1. part' = part
    BY <1>1, PartsAreApart
  <2>2. part = "sessions" => SessInv'
    BY <1>1, PartsAreApart, SessNext DEF ServicesInv
  <2>3. part = "media" => MediaInv'
    BY <1>1, PartsAreApart, MediaNext DEF ServicesInv
  <2>4. part = "chat" => ChatInv'
    BY <1>1, PartsAreApart, ChatNext DEF ServicesInv
  <2>5. part = "logins" => LoginInv'
    BY <1>1, PartsAreApart, LoginNext DEF ServicesInv
  <2>6. part = "presence" => PresInv'
    BY <1>1, PartsAreApart, PresNext DEF ServicesInv
  <2>7. part = "orders" => OrderInv'
    BY <1>1, PartsAreApart, OrderNext DEF ServicesInv
  <2>8. QED
    BY <2>1, <2>2, <2>3, <2>4, <2>5, <2>6, <2>7 DEF ServicesInv
<1>2. QED
  BY <1>1, PartsStutter

LEMMA ServicesInvariant == ServicesSpec => []ServicesInv
<1>1. ServicesInit => ServicesInv
  BY PartsInit
<1>2. ServicesInv /\ [ServicesNext]_all => ServicesInv'
  BY PartsStep
<1>3. QED
  BY <1>1, <1>2, PTL DEF ServicesSpec, all

\* No session opened with a password outlives the change of that password.
THEOREM CurrentPassword == ServicesSpec => []SessionsUseCurrentPassword
<1>1. ServicesInv => SessionsUseCurrentPassword
  BY DEF ServicesInv, SessInv, SessionsUseCurrentPassword
<1>2. QED
  BY <1>1, ServicesInvariant, PTL

\* A connection of a revoked session is closed or about to be closed, whether
\* the revocation came before, during or after its handshake.
THEOREM RevokedClosed == ServicesSpec => []RevokedSessionsAreClosed
<1>1. ServicesInv => RevokedSessionsAreClosed
  BY DEF ServicesInv, SessInv, RevokedSessionsAreClosed
<1>2. QED
  BY <1>1, ServicesInvariant, PTL

\* The quota of the media cache covers its disk, through evictions, partial
\* files that stay behind, restarts and a reservation that grows.
THEOREM QuotaCovers == ServicesSpec => []QuotaCoversDisk
<1>1. ServicesInv => QuotaCoversDisk
  BY MediaProperties DEF ServicesInv, QuotaCoversDisk
<1>2. QED
  BY <1>1, ServicesInvariant, PTL

\* No action of the media cache takes a file from a reader.
THEOREM ReadersKeep == ServicesSpec => []ReadersKeepTheirFile
<1>1. ServicesInv => ReadersKeepTheirFile
  BY MediaProperties DEF ServicesInv, ReadersKeepTheirFile
<1>2. QED
  BY <1>1, ServicesInvariant, PTL

\* Whatever queue is written over whatever rows, its rows read back in its
\* order and in no other.
THEOREM QueueReadsTrue == ServicesSpec => []QueueReadsBack
<1>1. ServicesInv => QueueReadsBack
  BY DEF ServicesInv, QueueReadsBack, OrderInv
<1>2. QED
  BY <1>1, ServicesInvariant, PTL

\* Messages of a user in a stream are apart, also where their slot was given
\* up for another or released by a write that failed.
THEOREM MessagesSpaced == ServicesSpec => []MessagesAreSpaced
<1>1. ServicesInv => MessagesAreSpaced
  BY ChatMessagesSpaced DEF ServicesInv, MessagesAreSpaced
<1>2. QED
  BY <1>1, ServicesInvariant, PTL

\* Of any 2 * MaxAttempts attempts of an address the last comes at least the
\* shorter of window and block after the first.
THEOREM AttemptsLimited == ServicesSpec => []AttemptsAreLimited
<1>1. ServicesInv => AttemptsAreLimited
  BY LoginLimited DEF ServicesInv, AttemptsAreLimited
<1>2. QED
  BY <1>1, ServicesInvariant, PTL

\* What a browser shows of a room's presence is true of its revision, and in
\* one connection never goes back.
THEOREM PresenceForward == ServicesSpec => PresenceMovesOn
<1>1. ASSUME ServicesInv, ServicesInv', [ServicesNext]_all
      PROVE  [part = "presence" => Pres!MovesOn]_<<part, presVars>>
  <2>1. CASE ServicesNext
    <3>1. part' = part /\ (part = "presence" => Pres!Next)
      BY <2>1, PartsAreApart
    <3>2. part = "presence" => PresInv /\ PresInv'
      BY <1>1, <3>1 DEF ServicesInv
    <3>3. QED
      BY <3>1, <3>2, PresMoves
  <2>2. CASE UNCHANGED all
    BY <2>2 DEF all
  <2>3. QED
    BY <1>1, <2>1, <2>2
<1>2. ServicesInv /\ ServicesInv' /\ [ServicesNext]_all
        => [part = "presence" => Pres!MovesOn]_<<part, presVars>>
  BY <1>1
<1>3. QED
  BY <1>2, ServicesInvariant, PTL DEF ServicesSpec, PresenceMovesOn, all
=============================================================================
