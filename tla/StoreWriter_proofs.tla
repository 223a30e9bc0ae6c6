------------------------ MODULE StoreWriter_proofs ------------------------
(***************************************************************************)
(* Proofs about the single-writer store, for any number of calls and any   *)
(* capacity: answers are true, nobody is left behind at Close, and the     *)
(* store implements AtomicWrites.                                          *)
(***************************************************************************)
EXTENDS StoreWriter, SequenceTheorems, TLAPS

Distinct(s) == \A i, j \in DOMAIN s : i # j => s[i] # s[j]

Running == {"write", "commit", "ok"} \cup Failures

\* Where a request is, and what that says about its transaction.  A request is
\* in exactly one place: queued, being written, or answered in its channel.
Placed(w) ==
  /\ w \in ToSet(writes) => /\ tx # w /\ result[w] = None
                            /\ w \notin Committed /\ w \in ToSet(submitted)
  /\ tx = w => /\ result[w] = None /\ w \in ToSet(submitted)
               /\ w \in Committed <=> stage = "ok"
  /\ result[w] # None => w \in ToSet(submitted)
  /\ result[w] \in Failures => w \notin Committed
  /\ result[w] = "ok" => w \in Committed
  /\ w \in Committed => w \in ToSet(submitted)
  /\ call[w] = "new" => w \notin ToSet(submitted) /\ answer[w] = None
  /\ call[w] = "waiting" => /\ answer[w] = None
                            /\ w \in ToSet(writes) \/ tx = w \/ result[w] # None
  /\ call[w] # "new" /\ w \notin ToSet(submitted) => answer[w] # None
  /\ answer[w] = "ok" => w \in Committed
  /\ answer[w] \in {"error", "closed", "full"} =>
       w \notin ToSet(submitted) \/ result[w] \in Failures

IInv ==
  /\ TypeOK
  /\ Distinct(writes)
  /\ \A w \in Writers : Placed(w)
  /\ stage \in Running <=> tx # None
  /\ stage = "done" => closed /\ writes = <<>>

-----------------------------------------------------------------------------
(* The channel.                                                            *)

\* Queueing a request adds it and nothing else.
LEMMA ToSetAppend ==
  ASSUME NEW S, NEW s \in Seq(S), NEW e \in S
  PROVE  /\ Append(s, e) \in Seq(S)
         /\ ToSet(Append(s, e)) = ToSet(s) \cup {e}
         /\ Distinct(s) /\ e \notin ToSet(s) => Distinct(Append(s, e))
<1>1. /\ Append(s, e) \in Seq(S) /\ Len(Append(s, e)) = Len(s) + 1
      /\ Append(s, e)[Len(s) + 1] = e
      /\ \A i \in 1..Len(s) : Append(s, e)[i] = s[i]
  BY AppendProperties
<1>2. /\ DOMAIN s = 1..Len(s) /\ Len(s) \in Nat
      /\ DOMAIN Append(s, e) = 1..Len(s) + 1
  BY <1>1, LenProperties
<1>3. \A i \in 1..Len(s) + 1 : i \in 1..Len(s) \/ i = Len(s) + 1
  BY <1>2
<1>4. 1..Len(s) \subseteq 1..Len(s) + 1 /\ Len(s) + 1 \in 1..Len(s) + 1
  BY <1>2
<1> QED
  BY <1>1, <1>2, <1>3, <1>4 DEF ToSet, Distinct

\* Receiving one takes the head, which is nowhere else in the channel.
LEMMA ToSetTail ==
  ASSUME NEW S, NEW s \in Seq(S), s # <<>>
  PROVE  /\ Head(s) \in S /\ Tail(s) \in Seq(S)
         /\ ToSet(s) = ToSet(Tail(s)) \cup {Head(s)}
         /\ Distinct(s) => Distinct(Tail(s)) /\ Head(s) \notin ToSet(Tail(s))
<1>1. /\ Head(s) \in S /\ Tail(s) \in Seq(S) /\ Len(Tail(s)) = Len(s) - 1
      /\ Head(s) = s[1]
      /\ \A i \in 1..Len(s) - 1 : Tail(s)[i] = s[i + 1]
  BY HeadTailProperties
<1>2. /\ DOMAIN s = 1..Len(s) /\ Len(s) \in Nat \ {0}
      /\ DOMAIN Tail(s) = 1..Len(s) - 1
  BY <1>1, LenProperties, EmptySeq
<1>3. \A i \in 1..Len(s) : i = 1 \/ (i - 1 \in 1..Len(s) - 1 /\ (i - 1) + 1 = i)
  BY <1>2
<1>4. 1 \in 1..Len(s) /\ \A i \in 1..Len(s) - 1 : i + 1 \in 1..Len(s) /\ i + 1 # 1
  BY <1>2
<1>5. \A i, j \in 1..Len(s) - 1 : i # j => i + 1 # j + 1
  BY <1>2
<1>6. ToSet(s) = ToSet(Tail(s)) \cup {Head(s)}
  <2>1. \A x \in ToSet(s) : x = Head(s) \/ x \in ToSet(Tail(s))
    <3> SUFFICES ASSUME NEW i \in 1..Len(s)
                 PROVE  s[i] = Head(s) \/ s[i] \in ToSet(Tail(s))
      BY <1>2 DEF ToSet
    <3>1. CASE i = 1
      BY <1>1, <3>1
    <3>2. CASE i # 1
      <4>1. i - 1 \in 1..Len(s) - 1 /\ s[i] = Tail(s)[i - 1]
        BY <1>1, <1>3, <3>2
      <4> QED
        BY <1>2, <4>1 DEF ToSet
    <3> QED
      BY <3>1, <3>2
  <2>2. \A x \in ToSet(Tail(s)) : x \in ToSet(s)
    BY <1>1, <1>2, <1>4 DEF ToSet
  <2>3. Head(s) \in ToSet(s)
    BY <1>1, <1>2, <1>4 DEF ToSet
  <2> QED
    BY <2>1, <2>2, <2>3
<1>7. ASSUME Distinct(s)
      PROVE  Distinct(Tail(s)) /\ Head(s) \notin ToSet(Tail(s))
  BY <1>1, <1>2, <1>4, <1>5, <1>7 DEF Distinct, ToSet
<1> QED
  BY <1>1, <1>6, <1>7

LEMMA EmptyChannel ==
  ToSet(<<>>) = {} /\ Distinct(<<>>) /\ \A S : <<>> \in Seq(S)
BY EmptySeq DEF ToSet, Distinct

-----------------------------------------------------------------------------
(* The invariant, action by action.                                        *)

LEMMA IInvInit == Init => IInv
<1> SUFFICES ASSUME Init PROVE IInv
  OBVIOUS
<1>1. TypeOK
  BY EmptyChannel, StoreAssumption DEF Init, TypeOK
<1>2. \A w \in Writers : Placed(w)
  BY EmptyChannel, StoreAssumption DEF Init, Placed, Committed, Failures
<1>3. stage = "idle" /\ tx = None /\ Distinct(writes)
  BY EmptyChannel DEF Init
<1> QED
  BY <1>1, <1>2, <1>3 DEF IInv, Running, Failures

\* A call that returns without being queued.
LEMMA TurnedAwayStep ==
  ASSUME IInv, NEW w \in Writers, NEW v \in {"cancelled", "closed", "full"},
         call[w] = "new", Return(w, v),
         UNCHANGED <<cancelled, writes, result, tx, stage, closed, committed, submitted>>
  PROVE  IInv'
<1>1. TypeOK'
  BY StoreAssumption DEF IInv, TypeOK, Return, Answers
<1>2. \A x \in Writers : Placed(x)'
  BY StoreAssumption DEF IInv, TypeOK, Placed, Return, Committed, Answers
<1> QED
  BY <1>1, <1>2 DEF IInv, Running, Distinct

LEMMA SubmitStep ==
  ASSUME IInv, NEW w \in Writers, Submit(w)
  PROVE  IInv'
<1>1. CASE Return(w, "closed") \/ Return(w, "full")
  BY <1>1, TurnedAwayStep DEF Submit, Return, IInv, TypeOK
<1>2. CASE /\ ~closed /\ writes' = Append(writes, w)
           /\ submitted' = Append(submitted, w)
           /\ call' = [call EXCEPT ![w] = "waiting"]
           /\ UNCHANGED <<answer, cancelled, result, tx, stage, closed, committed>>
  <2>0. call[w] = "new"
    BY DEF Submit
  <2>1. /\ writes' \in Seq(Writers) /\ submitted' \in Seq(Writers)
        /\ ToSet(writes') = ToSet(writes) \cup {w}
        /\ ToSet(submitted') = ToSet(submitted) \cup {w}
    BY <1>2, ToSetAppend DEF IInv, TypeOK
  <2>2. w \notin ToSet(writes)
    BY <2>0 DEF IInv, Placed
  <2>3. Distinct(writes')
    BY <1>2, <2>2, ToSetAppend DEF IInv, TypeOK
  <2>4. TypeOK'
    BY <1>2, <2>1 DEF IInv, TypeOK
  <2>5. \A x \in Writers : Placed(x)'
    <3> SUFFICES ASSUME NEW x \in Writers PROVE Placed(x)'
      OBVIOUS
    <3>1. Placed(x) /\ tx # None => stage \in Running
      BY DEF IInv
    <3> QED
      BY <1>2, <2>0, <2>1, <3>1, StoreAssumption DEF IInv, TypeOK, Placed, Committed, Failures
  <2> QED
    BY <1>2, <2>3, <2>4, <2>5 DEF IInv
<1> QED
  BY <1>1, <1>2 DEF Submit

\* Once the goroutine has ended nothing is queued or being written, so a
\* request that waits is an answered one.
LEMMA AnsweredWhenDone == IInv => NobodyLeftBehind
<1> SUFFICES ASSUME IInv, stage = "done", NEW w \in Writers, call[w] = "waiting"
             PROVE  result[w] # None
  BY DEF NobodyLeftBehind
<1>1. w \notin ToSet(writes)
  BY EmptyChannel DEF IInv
<1>2. tx # w
  BY StoreAssumption DEF IInv, Running, Failures
<1> QED
  BY <1>1, <1>2 DEF IInv, Placed

LEMMA AwaitStep ==
  ASSUME IInv, NEW w \in Writers, Await(w)
  PROVE  IInv'
<1>1. PICK v : /\ Return(w, v) /\ call[w] = "waiting"
               /\ \/ result[w] # None /\ v = result[w]
                  \/ v = "cancelled"
                  \/ stage = "done" /\ result[w] = None /\ v = "closed"
  BY DEF Await
<1>2. UNCHANGED <<cancelled, writes, result, tx, stage, closed, committed, submitted>>
  BY DEF Await
<1>3. ~(stage = "done" /\ result[w] = None)
  BY <1>1, AnsweredWhenDone DEF NobodyLeftBehind
<1>4. v \in Answers
  BY <1>1, <1>3 DEF IInv, TypeOK, Answers, Failures
<1>5. TypeOK'
  BY <1>1, <1>2, <1>4 DEF IInv, TypeOK, Return
<1>6. \A x \in Writers : Placed(x)'
  <2> SUFFICES ASSUME NEW x \in Writers PROVE Placed(x)'
    OBVIOUS
  <2>1. CASE x # w
    BY <1>1, <1>2, <2>1 DEF IInv, TypeOK, Placed, Return, Committed
  <2>2. CASE x = w
    <3>1. call'[x] = "returned" /\ answer'[x] = v
      BY <1>1, <2>2 DEF IInv, TypeOK, Return
    <3>2. Placed(x) /\ call[x] = "waiting"
      BY <1>1, <2>2 DEF IInv
    <3>3. x \in ToSet(submitted) /\ v # None
      BY <1>4, <3>2, StoreAssumption DEF Placed, Answers
    <3> QED
      BY <1>1, <1>2, <1>3, <2>2, <3>1, <3>2, <3>3, StoreAssumption
        DEF IInv, TypeOK, Placed, Committed, Failures
  <2> QED
    BY <2>1, <2>2
<1> QED
  BY <1>2, <1>5, <1>6 DEF IInv, Distinct

LEMMA TakeStep ==
  ASSUME IInv, Take
  PROVE  IInv'
<1> DEFINE w == Head(writes)
<1>1. /\ w \in Writers /\ Tail(writes) \in Seq(Writers)
      /\ ToSet(writes) = ToSet(Tail(writes)) \cup {w}
      /\ Distinct(Tail(writes)) /\ w \notin ToSet(Tail(writes))
  BY ToSetTail DEF IInv, TypeOK, Take
<1>2. tx = None /\ stage = "idle"
  BY DEF IInv, Take, Running, Failures
<1>3. /\ tx' = w /\ writes' = Tail(writes) /\ stage' = "write"
      /\ UNCHANGED <<call, answer, cancelled, result, closed, committed, submitted>>
  BY DEF Take, caller
<1> HIDE DEF w
<1>4. TypeOK'
  BY <1>1, <1>3 DEF IInv, TypeOK
<1>5. \A x \in Writers : Placed(x)'
  BY <1>1, <1>2, <1>3, StoreAssumption DEF IInv, TypeOK, Placed, Committed
<1> QED
  BY <1>1, <1>3, <1>4, <1>5, StoreAssumption DEF IInv, Running

LEMMA RejectPendingStep ==
  ASSUME IInv, RejectPending
  PROVE  IInv'
<1>0. tx = None /\ closed /\ stage = "idle"
  BY DEF IInv, RejectPending, Running, Failures
<1>1. CASE writes = <<>> /\ stage' = "done" /\ UNCHANGED <<writes, result>>
  <2>1. UNCHANGED <<call, answer, cancelled, tx, closed, committed, submitted>>
    BY DEF RejectPending, caller
  <2>2. TypeOK'
    BY <1>1, <2>1 DEF IInv, TypeOK
  <2>3. \A x \in Writers : Placed(x)'
    BY <1>0, <1>1, <2>1, StoreAssumption DEF IInv, Placed, Committed
  <2> QED
    BY <1>0, <1>1, <2>1, <2>2, <2>3 DEF IInv, Running, Failures
<1>2. CASE /\ writes # <<>>
           /\ result' = [result EXCEPT ![Head(writes)] = "closed"]
           /\ writes' = Tail(writes)
           /\ UNCHANGED stage
  <2> DEFINE w == Head(writes)
  <2>1. /\ w \in Writers /\ Tail(writes) \in Seq(Writers)
        /\ ToSet(writes) = ToSet(Tail(writes)) \cup {w}
        /\ Distinct(Tail(writes)) /\ w \notin ToSet(Tail(writes))
    BY <1>2, ToSetTail DEF IInv, TypeOK
  <2>2. /\ result' = [result EXCEPT ![w] = "closed"] /\ writes' = Tail(writes)
        /\ UNCHANGED <<call, answer, cancelled, tx, closed, stage, committed, submitted>>
    BY <1>2 DEF RejectPending, caller
  <2> HIDE DEF w
  <2>3. TypeOK'
    BY <2>1, <2>2 DEF IInv, TypeOK, Failures
  <2>4. \A x \in Writers : Placed(x)'
    <3> SUFFICES ASSUME NEW x \in Writers PROVE Placed(x)'
      OBVIOUS
    <3>1. Placed(x) /\ Placed(w) /\ result'[x] = IF x = w THEN "closed" ELSE result[x]
      BY <2>1, <2>2 DEF IInv, TypeOK
    <3> QED
      BY <1>0, <2>1, <2>2, <3>1, StoreAssumption DEF Placed, Committed, Failures
  <2> QED
    BY <1>0, <2>1, <2>2, <2>3, <2>4 DEF IInv, Running
<1> QED
  BY <1>1, <1>2 DEF RejectPending

\* Rolling back and checking the contexts only move the goroutine.
LEMMA StageStep ==
  ASSUME IInv, Rollback \/ CheckContext
  PROVE  IInv'
<1>1. /\ stage \in {"write", "commit"} /\ stage' \in {"commit"} \cup Failures
      /\ UNCHANGED <<call, answer, cancelled, writes, result, tx, closed, committed, submitted>>
  BY DEF Rollback, CheckContext, caller, Failures
<1>2. TypeOK'
  BY <1>1 DEF IInv, TypeOK
<1>3. stage # "ok" /\ stage' # "ok" /\ stage \in Running /\ stage' \in Running
      /\ stage' # "done"
  BY <1>1 DEF Running, Failures
<1>4. \A x \in Writers : Placed(x)'
  BY <1>1, <1>3 DEF IInv, Placed, Committed
<1> QED
  BY <1>1, <1>2, <1>3, <1>4 DEF IInv, Distinct

LEMMA CommitTxStep ==
  ASSUME IInv, CommitTx
  PROVE  IInv'
<1>1. /\ stage = "commit" /\ stage' = "ok" /\ committed' = Append(committed, tx)
      /\ UNCHANGED <<call, answer, cancelled, writes, result, tx, closed, submitted>>
  BY DEF CommitTx, caller
<1>2. tx \in Writers
  BY <1>1 DEF IInv, TypeOK, Running
<1>3. committed' \in Seq(Writers) /\ ToSet(committed') = ToSet(committed) \cup {tx}
  BY <1>1, <1>2, ToSetAppend DEF IInv, TypeOK
<1>4. TypeOK'
  BY <1>1, <1>3 DEF IInv, TypeOK
<1>5. \A x \in Writers : Placed(x)'
  <2> SUFFICES ASSUME NEW x \in Writers PROVE Placed(x)'
    OBVIOUS
  <2>1. Placed(x) /\ Placed(tx)
    BY <1>2 DEF IInv
  <2> QED
    BY <1>1, <1>2, <1>3, <2>1, StoreAssumption DEF Placed, Committed, Failures
<1> QED
  BY <1>1, <1>2, <1>4, <1>5, StoreAssumption DEF IInv, Distinct, Running

LEMMA DeliverStep ==
  ASSUME IInv, Deliver
  PROVE  IInv'
<1>1. /\ stage \in {"ok"} \cup Failures /\ stage' = "idle" /\ tx' = None
      /\ result' = [result EXCEPT ![tx] = stage]
      /\ UNCHANGED <<call, answer, cancelled, writes, closed, committed, submitted>>
  BY DEF Deliver, caller
<1>2. tx \in Writers
  BY <1>1 DEF IInv, TypeOK, Running
<1>3. TypeOK'
  BY <1>1, <1>2 DEF IInv, TypeOK
<1>4. \A x \in Writers : Placed(x)'
  <2> SUFFICES ASSUME NEW x \in Writers PROVE Placed(x)'
    OBVIOUS
  <2>1. Placed(x) /\ Placed(tx) /\ result'[x] = IF x = tx THEN stage ELSE result[x]
    BY <1>1, <1>2 DEF IInv, TypeOK
  <2>2. stage # None /\ (stage \in Failures <=> stage # "ok") /\ tx # None
    BY <1>1, <1>2, StoreAssumption DEF Failures
  <2> QED
    BY <1>1, <1>2, <2>1, <2>2, StoreAssumption DEF Placed, Committed
<1> QED
  BY <1>1, <1>3, <1>4 DEF IInv, Distinct, Running, Failures

LEMMA IInvStep == IInv /\ [Next]_vars => IInv'
<1> SUFFICES ASSUME IInv, [Next]_vars PROVE IInv'
  OBVIOUS
<1>1. CASE writeLoop
  BY <1>1, TakeStep, RejectPendingStep, StageStep, CommitTxStep, DeliverStep DEF writeLoop
<1>2. ASSUME NEW w \in Writers, RefuseCancelled(w)
      PROVE  IInv'
  BY <1>2, TurnedAwayStep DEF RefuseCancelled
<1>3. ASSUME NEW w \in Writers, Submit(w) \/ Await(w)
      PROVE  IInv'
  BY <1>3, SubmitStep, AwaitStep
<1>4. CASE Close \/ UNCHANGED vars \/ \E w \in Writers : Cancel(w)
  <2>1. /\ UNCHANGED <<call, answer, writes, result, tx, stage, committed, submitted>>
        /\ cancelled' \subseteq Writers /\ closed' \in BOOLEAN /\ (closed => closed')
    BY <1>4 DEF Close, Cancel, vars, caller, IInv, TypeOK
  <2>2. TypeOK'
    BY <2>1 DEF IInv, TypeOK
  <2>3. \A x \in Writers : Placed(x)'
    BY <2>1 DEF IInv, Placed, Committed
  <2> QED
    BY <2>1, <2>2, <2>3 DEF IInv, Distinct
<1> QED
  BY <1>1, <1>2, <1>3, <1>4 DEF Next, Stopped

LEMMA Invariance == Spec => []IInv
BY IInvInit, IInvStep, PTL DEF Spec

\* Every variable keeps its type.
THEOREM TypeCorrect == Spec => []TypeOK
<1>1. IInv => TypeOK
  BY DEF IInv
<1> QED
  BY <1>1, Invariance, PTL

\* A nil answer of Write means a committed transaction; an error that is not
\* a context's means one that did not commit.
THEOREM AnswersTrue == Spec => []AnswersAreTrue
<1>1. IInv => AnswersAreTrue
  BY DEF IInv, Placed, AnswersAreTrue
<1> QED
  BY <1>1, Invariance, PTL

\* When the write goroutine has ended, every caller that waits has a result.
THEOREM NobodyWaitsForever == Spec => []NobodyLeftBehind
BY AnsweredWhenDone, Invariance, PTL

-----------------------------------------------------------------------------
(* The refinement of AtomicWrites, action by action.                       *)

\* A step that changes the status of nobody but w.
LEMMA StatusStep ==
  ASSUME NEW w \in Writers, NEW v,
         \A x \in Writers : Status(x)' = IF x = w THEN v ELSE Status(x)
  PROVE  status' = [status EXCEPT ![w] = v]
BY DEF status

\* A step that answers nobody but w.
LEMMA ToldStep ==
  ASSUME NEW w \in Writers, NEW v,
         \A x \in Writers : Told(x)' = IF x = w THEN v ELSE Told(x)
  PROVE  told' = [told EXCEPT ![w] = v]
BY DEF told

LEMMA StatusSame ==
  (\A x \in Writers : Status(x)' = Status(x)) => status' = status
BY DEF status

LEMMA ToldSame == UNCHANGED answer => told' = told
BY DEF told, Told

LEMMA TurnedAwayRefines ==
  ASSUME IInv, NEW w \in Writers, NEW v \in {"cancelled", "closed", "full"},
         call[w] = "new", Return(w, v),
         UNCHANGED <<cancelled, writes, result, tx, stage, closed, committed, submitted>>
  PROVE  Promise!Next
<1> DEFINE t == IF v = "cancelled" THEN "unknown" ELSE "failed"
<1>1. Placed(w) /\ w \notin ToSet(submitted) /\ w \notin Committed
  BY DEF IInv, Placed
<1>2. status[w] = "new"
  BY <1>1 DEF status, Status
<1>3. status' = [status EXCEPT ![w] = "refused"]
  <2>1. \A x \in Writers : Status(x)' = IF x = w THEN "refused" ELSE Status(x)
    BY <1>1 DEF Status, Committed, Return, IInv, TypeOK
  <2> QED
    BY <2>1, StatusStep
<1>4. told' = [told EXCEPT ![w] = t]
  <2>1. \A x \in Writers : Told(x)' = IF x = w THEN t ELSE Told(x)
    BY DEF Told, Return, IInv, TypeOK
  <2> QED
    BY <2>1, ToldStep
<1>5. Promise!Reject(w, t)
  BY <1>2, <1>3, <1>4 DEF Promise!Reject
<1> QED
  BY <1>5 DEF Promise!Next

LEMMA SubmitRefines ==
  ASSUME IInv, NEW w \in Writers, Submit(w)
  PROVE  Promise!Next
<1>1. CASE Return(w, "closed") \/ Return(w, "full")
  BY <1>1, TurnedAwayRefines DEF Submit, Return, IInv, TypeOK
<1>2. CASE /\ submitted' = Append(submitted, w)
           /\ call' = [call EXCEPT ![w] = "waiting"]
           /\ UNCHANGED <<answer, cancelled, result, tx, stage, closed, committed>>
  <2>1. Placed(w) /\ call[w] = "new" /\ w \notin ToSet(submitted) /\ w \notin Committed
    BY DEF IInv, Placed, Submit
  <2>2. ToSet(submitted') = ToSet(submitted) \cup {w}
    BY <1>2, ToSetAppend DEF IInv, TypeOK
  <2>3. /\ result[w] = None
        /\ tx # w
    BY <2>1 DEF Placed
  <2>4. \A x \in Writers : Status(x)' = IF x = w THEN "called" ELSE Status(x)
    BY <1>2, <2>1, <2>2, <2>3, StoreAssumption DEF Status, Committed, IInv, TypeOK, Failures
  <2>5. status' = [status EXCEPT ![w] = "called"] /\ told' = told
    BY <1>2, <2>4, StatusStep, ToldSame
  <2>6. status[w] = "new"
    BY <2>1 DEF status, Status
  <2>7. Promise!Call(w)
    BY <1>2, <2>5, <2>6 DEF Promise!Call
  <2> QED
    BY <2>7 DEF Promise!Next
<1> QED
  BY <1>1, <1>2 DEF Submit

LEMMA AwaitRefines ==
  ASSUME IInv, NEW w \in Writers, Await(w)
  PROVE  Promise!Next
<1>1. PICK v : /\ Return(w, v) /\ call[w] = "waiting"
               /\ \/ result[w] # None /\ v = result[w]
                  \/ v = "cancelled"
  BY AnsweredWhenDone DEF Await, NobodyLeftBehind
<1>2. UNCHANGED <<cancelled, writes, result, tx, stage, closed, committed, submitted>>
  BY DEF Await
<1> DEFINE t == IF v = "ok" THEN "ok" ELSE IF v = "cancelled" THEN "unknown" ELSE "failed"
<1>3. Placed(w) /\ answer[w] = None /\ w \in ToSet(submitted)
  BY <1>1 DEF IInv, Placed
<1>4. v \in {"ok"} \cup Failures
  BY <1>1 DEF IInv, TypeOK, Failures
<1>5. status' = status
  <2>1. \A x \in Writers : Status(x)' = Status(x)
    BY <1>1, <1>2 DEF Status, Committed, Return, IInv, TypeOK
  <2> QED
    BY <2>1, StatusSame
<1>6. told' = [told EXCEPT ![w] = t]
  <2>1. \A x \in Writers : Told(x)' = IF x = w THEN t ELSE Told(x)
    BY <1>1, <1>4 DEF Told, Return, IInv, TypeOK, Failures
  <2> QED
    BY <2>1, ToldStep
<1>7. /\ status[w] # "new" /\ told[w] = None
      /\ t = "ok" => status[w] = "committed"
      /\ t = "failed" => status[w] = "refused"
  BY <1>1, <1>3, <1>4, StoreAssumption DEF status, told, Status, Told, Placed, Failures
<1>8. t \in {"ok", "failed", "unknown"}
  OBVIOUS
<1>9. Promise!Return(w, t)
  BY <1>2, <1>5, <1>6, <1>7 DEF Promise!Return
<1> QED
  BY <1>8, <1>9 DEF Promise!Next

\* A queued request is answered ErrClosed, or a running one rolled back.
LEMMA RefuseRefines ==
  ASSUME IInv, NEW w \in Writers,
         w \notin Committed, w \in ToSet(submitted), result[w] = None,
         ~(tx = w /\ stage \in Failures),
         UNCHANGED <<call, answer, committed, submitted>>,
         \A x \in Writers : Status(x)' = IF x = w THEN "refused" ELSE Status(x)
  PROVE  Promise!Next
<1>1. status[w] = "called"
  BY StoreAssumption DEF status, Status, IInv, Placed, Failures
<1>2. status' = [status EXCEPT ![w] = "refused"] /\ told' = told
  BY StatusStep, ToldSame
<1>3. Promise!Refuse(w)
  BY <1>1, <1>2 DEF Promise!Refuse
<1> QED
  BY <1>3 DEF Promise!Next

LEMMA RejectPendingRefines ==
  ASSUME IInv, RejectPending
  PROVE  Promise!Next \/ UNCHANGED Promise!vars
<1>0. /\ tx = None /\ UNCHANGED <<call, answer, tx, committed, submitted>>
  BY DEF IInv, RejectPending, Running, Failures, caller
<1>1. CASE stage' = "done" /\ UNCHANGED result
  <2>1. \A x \in Writers : Status(x)' = Status(x)
    BY <1>0, <1>1, StoreAssumption DEF Status, Committed
  <2> QED
    BY <1>0, <2>1, StatusSame, ToldSame DEF Promise!vars
<1>2. CASE writes # <<>> /\ result' = [result EXCEPT ![Head(writes)] = "closed"]
  <2> DEFINE w == Head(writes)
  <2>1. w \in Writers /\ w \in ToSet(writes) /\ result' = [result EXCEPT ![w] = "closed"]
    BY <1>2, ToSetTail DEF IInv, TypeOK
  <2> HIDE DEF w
  <2>2. Placed(w) /\ result[w] = None /\ w \notin Committed /\ w \in ToSet(submitted)
    BY <2>1 DEF IInv, Placed
  <2>3. call[w] # "new"
    BY <2>2 DEF Placed
  <2>4. \A x \in Writers : Status(x)' = IF x = w THEN "refused" ELSE Status(x)
    BY <1>0, <2>1, <2>2, <2>3, StoreAssumption DEF Status, Committed, IInv, TypeOK, Failures
  <2> QED
    BY <1>0, <2>1, <2>2, <2>4, StoreAssumption, RefuseRefines
<1> QED
  BY <1>1, <1>2 DEF RejectPending

LEMMA RollbackRefines ==
  ASSUME IInv, Rollback
  PROVE  Promise!Next
<1>1. /\ stage \in {"write", "commit"} /\ stage' \in Failures
      /\ UNCHANGED <<call, answer, result, tx, committed, submitted>>
  BY DEF Rollback, caller, Failures
<1>2. tx \in Writers /\ Placed(tx)
  BY <1>1 DEF IInv, TypeOK, Running
<1>3. stage \notin Failures /\ stage # "ok"
  BY <1>1 DEF Failures
<1>4. result[tx] = None /\ tx \in ToSet(submitted) /\ tx \notin Committed /\ call[tx] # "new"
  BY <1>2, <1>3 DEF Placed
<1>5. \A x \in Writers : Status(x)' = IF x = tx THEN "refused" ELSE Status(x)
  BY <1>1, <1>3, <1>4 DEF Status, Committed
<1> QED
  BY <1>1, <1>2, <1>3, <1>4, <1>5, RefuseRefines

LEMMA CommitTxRefines ==
  ASSUME IInv, CommitTx
  PROVE  Promise!Next
<1>1. /\ stage = "commit" /\ stage' = "ok" /\ committed' = Append(committed, tx)
      /\ UNCHANGED <<call, answer, result, tx, submitted>>
  BY DEF CommitTx, caller
<1>2. tx \in Writers /\ Placed(tx)
  BY <1>1 DEF IInv, TypeOK, Running
<1>3. ToSet(committed') = ToSet(committed) \cup {tx}
  BY <1>1, <1>2, ToSetAppend DEF IInv, TypeOK
<1>4. /\ result[tx] = None /\ tx \in ToSet(submitted) /\ tx \notin Committed /\ call[tx] # "new"
  BY <1>1, <1>2 DEF Placed
<1>5. \A x \in Writers : Status(x)' = IF x = tx THEN "committed" ELSE Status(x)
  BY <1>1, <1>2, <1>3 DEF Status, Committed, Failures
<1>6. status[tx] = "called"
  BY <1>1, <1>2, <1>4, StoreAssumption DEF status, Status, Failures
<1>7. status' = [status EXCEPT ![tx] = "committed"] /\ told' = told
  BY <1>1, <1>2, <1>5, StatusStep, ToldSame
<1>8. Promise!Apply(tx)
  BY <1>1, <1>6, <1>7 DEF Promise!Apply
<1> QED
  BY <1>2, <1>8 DEF Promise!Next

\* Steps in which no transaction is settled and nobody is answered.
LEMMA StutterRefines ==
  ASSUME IInv, Take \/ CheckContext \/ Deliver \/ Close \/ UNCHANGED vars
               \/ \E w \in Writers : Cancel(w)
  PROVE  UNCHANGED Promise!vars
<1>1. UNCHANGED <<call, answer, committed, submitted>>
  BY DEF Take, CheckContext, Deliver, Close, Cancel, vars, caller
<1>2. \A x \in Writers : Status(x)' = Status(x)
  <2>1. CASE Take
    <3>1. /\ tx = None /\ stage' \notin Failures /\ UNCHANGED result
      BY <2>1 DEF IInv, Take, Running, Failures
    <3> QED
      BY <1>1, <3>1, StoreAssumption DEF Status, Committed
  <2>2. CASE CheckContext
    BY <1>1, <2>2 DEF CheckContext, Status, Committed, Failures
  <2>3. CASE Deliver
    <3>1. /\ stage \in {"ok"} \cup Failures /\ stage' = "idle" /\ tx' = None
          /\ result' = [result EXCEPT ![tx] = stage] /\ tx \in Writers /\ Placed(tx)
      BY <2>3 DEF Deliver, IInv, TypeOK, Running
    <3>2. /\ tx \in Committed <=> stage = "ok"
          /\ result[tx] \notin Failures
      BY <3>1, StoreAssumption DEF Placed, Failures
    <3>3. "ok" \notin Failures /\ "idle" \notin Failures
      BY DEF Failures
    <3> QED
      BY <1>1, <3>1, <3>2, <3>3, StoreAssumption DEF Status, Committed, IInv, TypeOK
  <2>4. CASE Close \/ UNCHANGED vars \/ \E w \in Writers : Cancel(w)
    BY <1>1, <2>4 DEF Close, Cancel, vars, Status, Committed
  <2> QED
    BY <2>1, <2>2, <2>3, <2>4
<1> QED
  BY <1>1, <1>2, StatusSame, ToldSame DEF Promise!vars

LEMMA StepRefines == IInv /\ [Next]_vars => [Promise!Next]_Promise!vars
<1> SUFFICES ASSUME IInv, [Next]_vars
             PROVE  Promise!Next \/ UNCHANGED Promise!vars
  OBVIOUS
<1>1. CASE writeLoop
  BY <1>1, StutterRefines, RejectPendingRefines, RollbackRefines, CommitTxRefines DEF writeLoop
<1>2. ASSUME NEW w \in Writers, RefuseCancelled(w)
      PROVE  Promise!Next
  BY <1>2, TurnedAwayRefines DEF RefuseCancelled
<1>3. ASSUME NEW w \in Writers, Submit(w) \/ Await(w)
      PROVE  Promise!Next
  BY <1>3, SubmitRefines, AwaitRefines
<1>4. CASE Close \/ UNCHANGED vars \/ \E w \in Writers : Cancel(w)
  BY <1>4, StutterRefines
<1> QED
  BY <1>1, <1>2, <1>3, <1>4 DEF Next, Stopped

\* The store implements AtomicWrites: a write is refused without a trace or
\* commits once, and what its caller is told agrees.
THEOREM StoreKeepsPromise == Spec => KeepsPromise
<1>1. Init => Promise!Init
  BY EmptyChannel, StoreAssumption
    DEF Init, Promise!Init, status, told, Status, Told, Committed
<1> QED
  BY <1>1, StepRefines, Invariance, PTL DEF Spec, KeepsPromise, Promise!Spec

-----------------------------------------------------------------------------
(* The order of the commits.                                               *)

\* The channel is what of the accepted calls has not been taken; whatever
\* committed was taken, and before the one that is being written.
Taken == Len(submitted) - Len(writes)
InOrder ==
  /\ Len(writes) <= Len(submitted)
  /\ \A j \in 1..Len(writes) : writes[j] = submitted[Taken + j]
  /\ \A i \in 1..Len(committed) : \E a \in 1..Taken : submitted[a] = committed[i]
  /\ stage \in {"write", "commit"} =>
       /\ Taken >= 1 /\ submitted[Taken] = tx
       /\ \A i \in 1..Len(committed) : \E a \in 1..(Taken - 1) : submitted[a] = committed[i]
  /\ CommitsInOrder

LEMMA Lengths ==
  ASSUME TypeOK
  PROVE  /\ Len(writes) \in Nat /\ Len(submitted) \in Nat /\ Len(committed) \in Nat
         /\ DOMAIN submitted = 1..Len(submitted) /\ DOMAIN committed = 1..Len(committed)
         /\ DOMAIN writes = 1..Len(writes)
BY LenProperties DEF TypeOK

\* An accepted call goes to the end of both.
LEMMA SubmitInOrder ==
  ASSUME TypeOK, InOrder, NEW w \in Writers,
         writes' = Append(writes, w), submitted' = Append(submitted, w),
         UNCHANGED <<committed, stage, tx>>
  PROVE  InOrder'
<1>1. /\ Len(writes) \in Nat /\ Len(submitted) \in Nat /\ Len(committed) \in Nat
      /\ DOMAIN submitted = 1..Len(submitted) /\ DOMAIN committed = 1..Len(committed)
  BY Lengths
<1>2. /\ Len(writes') = Len(writes) + 1 /\ writes'[Len(writes) + 1] = w
      /\ \A j \in 1..Len(writes) : writes'[j] = writes[j]
  BY AppendProperties DEF TypeOK
<1>3. /\ Len(submitted') = Len(submitted) + 1 /\ submitted'[Len(submitted) + 1] = w
      /\ \A j \in 1..Len(submitted) : submitted'[j] = submitted[j]
      /\ DOMAIN submitted' = 1..(Len(submitted) + 1)
  BY AppendProperties, LenProperties DEF TypeOK
<1>4. Taken' = Taken /\ Taken \in 0..Len(submitted)
  BY <1>1, <1>2, <1>3 DEF Taken, InOrder
<1>5. ASSUME NEW j \in 1..(Len(writes) + 1)
      PROVE  writes'[j] = submitted'[Taken + j]
  <2>1. CASE j = Len(writes) + 1
    <3>1. Taken + j = Len(submitted) + 1
      BY <1>1, <2>1 DEF Taken
    <3> QED
      BY <1>2, <1>3, <2>1, <3>1
  <2>2. CASE j # Len(writes) + 1
    <3>1. j \in 1..Len(writes) /\ Taken + j \in 1..Len(submitted)
      BY <1>1, <1>4, <2>2 DEF Taken
    <3> QED
      BY <1>2, <1>3, <3>1 DEF InOrder
  <2> QED
    BY <2>1, <2>2
<1>6. \A i \in 1..Len(committed) : \E a \in 1..Taken : submitted'[a] = committed[i]
  BY <1>1, <1>3, <1>4 DEF InOrder
<1>7. stage \in {"write", "commit"} =>
        /\ Taken >= 1 /\ submitted'[Taken] = tx
        /\ \A i \in 1..Len(committed) : \E a \in 1..(Taken - 1) : submitted'[a] = committed[i]
  BY <1>1, <1>3, <1>4 DEF InOrder
<1>8. CommitsInOrder'
  <2>1. 1..Len(submitted) \subseteq 1..(Len(submitted) + 1)
    BY <1>1
  <2> QED
    BY <1>1, <1>3, <2>1 DEF CommitsInOrder, InOrder
<1>9. Len(writes') <= Len(submitted')
  BY <1>1, <1>2, <1>3 DEF InOrder
<1>10. \A j \in 1..Len(writes') : writes'[j] = submitted'[Taken' + j]
  BY <1>2, <1>4, <1>5
<1> QED
  BY <1>4, <1>6, <1>7, <1>8, <1>9, <1>10 DEF InOrder

\* The head of the channel is the next of the accepted calls.
LEMMA HeadInOrder ==
  ASSUME TypeOK, InOrder, writes # <<>>, stage = "idle",
         writes' = Tail(writes), UNCHANGED <<committed, submitted>>,
         \/ stage' = "write" /\ tx' = Head(writes)
         \/ stage' = "idle"
  PROVE  InOrder'
<1>1. /\ Len(writes) \in Nat /\ Len(submitted) \in Nat /\ Len(committed) \in Nat
      /\ DOMAIN submitted = 1..Len(submitted) /\ DOMAIN committed = 1..Len(committed)
  BY Lengths
<1>2. /\ Len(writes) > 0 /\ Len(writes') = Len(writes) - 1 /\ Head(writes) = writes[1]
      /\ \A j \in 1..(Len(writes) - 1) : writes'[j] = writes[j + 1]
  BY <1>1, HeadTailProperties, EmptySeq, LenProperties DEF TypeOK
<1>3. Taken' = Taken + 1 /\ Taken \in Nat
  BY <1>1, <1>2 DEF Taken, InOrder
<1>4. submitted[Taken + 1] = Head(writes)
  BY <1>1, <1>2 DEF InOrder
<1>5. \A j \in 1..(Len(writes) - 1) : writes'[j] = submitted[Taken' + j]
  <2> TAKE j \in 1..(Len(writes) - 1)
  <2>1. j + 1 \in 1..Len(writes) /\ Taken' + j = Taken + (j + 1)
    BY <1>1, <1>3
  <2> QED
    BY <1>2, <2>1 DEF InOrder
<1>6. /\ \A i \in 1..Len(committed) : \E a \in 1..Taken' : submitted[a] = committed[i]
      /\ \A i \in 1..Len(committed) : \E a \in 1..(Taken' - 1) : submitted[a] = committed[i]
  <2>1. Taken' - 1 = Taken /\ 1..Taken \subseteq 1..Taken'
    BY <1>3
  <2> QED
    BY <2>1 DEF InOrder
<1>7. CommitsInOrder'
  BY DEF InOrder, CommitsInOrder
<1> QED
  BY <1>1, <1>2, <1>3, <1>4, <1>5, <1>6, <1>7 DEF InOrder

\* The transaction being written is later than every one that committed.
LEMMA CommitInOrder ==
  ASSUME TypeOK, InOrder, CommitTx
  PROVE  InOrder'
<1>1. /\ Len(writes) \in Nat /\ Len(submitted) \in Nat /\ Len(committed) \in Nat
      /\ DOMAIN submitted = 1..Len(submitted) /\ DOMAIN committed = 1..Len(committed)
  BY Lengths
<1>2. /\ stage = "commit" /\ stage' = "ok" /\ committed' = Append(committed, tx)
      /\ UNCHANGED <<writes, submitted, tx>>
  BY DEF CommitTx
<1>3. Taken' = Taken /\ Taken \in 1..Len(submitted) /\ submitted[Taken] = tx
  BY <1>1, <1>2 DEF Taken, InOrder
<1>4. tx \in Writers
  BY <1>1, <1>3, ElementOfSeq DEF TypeOK
<1>5. /\ Len(committed') = Len(committed) + 1 /\ committed'[Len(committed) + 1] = tx
      /\ \A i \in 1..Len(committed) : committed'[i] = committed[i]
      /\ DOMAIN committed' = 1..(Len(committed) + 1)
  BY <1>2, <1>4, AppendProperties, LenProperties DEF TypeOK
<1>6. \A i \in 1..Len(committed) : \E a \in 1..(Taken - 1) : submitted[a] = committed[i]
  BY <1>2 DEF InOrder
<1>7. \A i \in 1..(Len(committed) + 1) : i \in 1..Len(committed) \/ i = Len(committed) + 1
  BY <1>1
<1>8. \A i \in 1..(Len(committed) + 1) : \E a \in 1..Taken : submitted[a] = committed'[i]
  <2>1. 1..(Taken - 1) \subseteq 1..Taken /\ Taken \in 1..Taken
    BY <1>3
  <2> QED
    BY <1>3, <1>5, <1>6, <1>7, <2>1
<1>9. ASSUME NEW i \in 1..(Len(committed) + 1), NEW j \in 1..(Len(committed) + 1), i < j
      PROVE  \E a, b \in 1..Len(submitted) :
               a < b /\ submitted[a] = committed'[i] /\ submitted[b] = committed'[j]
  <2>1. i \in 1..Len(committed)
    BY <1>1, <1>9
  <2>2. CASE j = Len(committed) + 1
    <3>1. PICK a \in 1..(Taken - 1) : submitted[a] = committed[i]
      BY <1>6, <2>1
    <3>2. a \in 1..Len(submitted) /\ Taken \in 1..Len(submitted) /\ a < Taken
      BY <1>1, <1>3
    <3> QED
      BY <1>3, <1>5, <2>1, <2>2, <3>1, <3>2
  <2>3. CASE j \in 1..Len(committed)
    <3>1. i \in DOMAIN committed /\ j \in DOMAIN committed
      BY <1>1, <2>1, <2>3
    <3>2. CommitsInOrder
      BY DEF InOrder
    <3>3. \E a, b \in DOMAIN submitted :
             a < b /\ submitted[a] = committed[i] /\ submitted[b] = committed[j]
      BY <1>9, <3>1, <3>2 DEF CommitsInOrder
    <3>4. committed'[i] = committed[i] /\ committed'[j] = committed[j]
      BY <1>5, <2>1, <2>3
    <3> QED
      BY <1>1, <3>3, <3>4
  <2> QED
    BY <1>7, <2>2, <2>3
<1>10. CommitsInOrder'
  <2>1. DOMAIN submitted' = 1..Len(submitted) /\ submitted' = submitted
    BY <1>1, <1>2
  <2> SUFFICES ASSUME NEW i \in DOMAIN committed', NEW j \in DOMAIN committed', i < j
               PROVE  \E a, b \in DOMAIN submitted' : /\ a < b
                                                     /\ submitted'[a] = committed'[i]
                                                     /\ submitted'[b] = committed'[j]
    BY DEF CommitsInOrder
  <2>2. i \in 1..(Len(committed) + 1) /\ j \in 1..(Len(committed) + 1)
    BY <1>5
  <2>3. PICK a \in 1..Len(submitted), b \in 1..Len(submitted) :
          a < b /\ submitted[a] = committed'[i] /\ submitted[b] = committed'[j]
    BY <1>9, <2>2
  <2> QED
    BY <2>1, <2>3
<1> QED
  BY <1>2, <1>3, <1>5, <1>8, <1>10 DEF InOrder

LEMMA InOrderStep == TypeOK /\ InOrder /\ [Next]_vars => InOrder'
<1> SUFFICES ASSUME TypeOK, InOrder, [Next]_vars
             PROVE  InOrder'
  OBVIOUS
<1>1. ASSUME UNCHANGED <<writes, submitted, committed>>,
             \/ UNCHANGED <<stage, tx>>
             \/ stage' \notin {"write", "commit"}
             \/ stage = "write" /\ UNCHANGED tx
      PROVE  InOrder'
  BY <1>1 DEF InOrder, Taken, CommitsInOrder
<1>2. ASSUME NEW w \in Writers, Submit(w)
      PROVE  InOrder'
  BY <1>1, <1>2, SubmitInOrder DEF Submit
<1>3. CASE Take
  BY <1>3, HeadInOrder DEF Take
<1>4. CASE RejectPending
  BY <1>1, <1>4, HeadInOrder DEF RejectPending
<1>5. CASE Rollback
  BY <1>1, <1>5 DEF Rollback
<1>6. CASE CheckContext \/ Deliver
  BY <1>1, <1>6 DEF CheckContext, Deliver
<1>7. CASE CommitTx
  BY <1>7, CommitInOrder
<1>8. CASE Close \/ UNCHANGED vars
  BY <1>1, <1>8 DEF Close, vars
<1>9. ASSUME NEW w \in Writers, RefuseCancelled(w) \/ Await(w) \/ Cancel(w)
      PROVE  InOrder'
  BY <1>1, <1>9 DEF RefuseCancelled, Await, Cancel
<1> QED
  BY <1>2, <1>3, <1>4, <1>5, <1>6, <1>7, <1>8, <1>9 DEF Next, writeLoop, Stopped

\* Transactions commit in the order in which their calls were accepted.
THEOREM CommitsKeepOrder == Spec => []CommitsInOrder
<1>1. Init => InOrder
  <2> SUFFICES ASSUME Init PROVE InOrder
    OBVIOUS
  <2>1. /\ writes = <<>> /\ submitted = <<>> /\ committed = <<>> /\ stage = "idle"
        /\ Len(<< >>) = 0 /\ DOMAIN << >> = {}
    BY EmptySeq, LenProperties DEF Init
  <2> QED
    BY <2>1 DEF InOrder, Taken, CommitsInOrder
<1>2. TypeOK /\ InOrder /\ [Next]_vars => InOrder'
  BY InOrderStep
<1>3. InOrder => CommitsInOrder
  BY DEF InOrder
<1> QED
  BY <1>1, <1>2, <1>3, TypeCorrect, PTL DEF Spec

=============================================================================
