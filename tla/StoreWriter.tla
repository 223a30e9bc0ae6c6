---------------------------- MODULE StoreWriter ----------------------------
(***************************************************************************)
(* The single-writer store of internal/store/sqlite/store.go: Write hands  *)
(* a transaction to one goroutine over a bounded channel and waits for its *)
(* result, for its own context, or for the end of the store; Close stops   *)
(* the goroutine and rejects what is still queued.                         *)
(***************************************************************************)
EXTENDS Naturals, Sequences, SequencesExt

CONSTANTS
  Writers,   \* the calls of Write, one each
  Capacity,  \* WriteQueueCapacity
  None       \* no result yet, or no transaction running

ASSUME StoreAssumption ==
  /\ Capacity \in Nat \ {0}
  /\ None \notin Writers \cup {"ok", "error", "closed", "cancelled", "full"}

VARIABLES
  call,       \* "new", "waiting" or "returned", per call
  cancelled,  \* the calls whose context is done
  answer,     \* what Write returned
  writes,     \* the channel
  result,     \* the one-slot result channel of each request
  tx,         \* the request executeWrite is working on
  stage,      \* where the write goroutine is
  closed,     \* s.closed, set together with the store's context
  committed,  \* the database: the calls whose transaction committed, in order
  submitted   \* history variable: the calls accepted into the channel, in order

vars == <<call, cancelled, answer, writes, result, tx, stage, closed, committed, submitted>>
caller == <<call, answer>>

Failures == {"error", "closed", "cancelled"}  \* what a rollback may report
Answers == {"ok", "error", "closed", "cancelled", "full"}

-----------------------------------------------------------------------------
(* The caller.                                                             *)

Return(w, v) ==
  /\ call' = [call EXCEPT ![w] = "returned"]
  /\ answer' = [answer EXCEPT ![w] = v]

\* A context that is already done is refused before the store is asked.
RefuseCancelled(w) ==
  /\ call[w] = "new" /\ w \in cancelled
  /\ Return(w, "cancelled")
  /\ UNCHANGED <<cancelled, writes, result, tx, stage, closed, committed, submitted>>

\* The section under stateMu.RLock: closed, full, or queued.
Submit(w) ==
  /\ call[w] = "new" /\ w \notin cancelled
  /\ \/ /\ closed
        /\ Return(w, "closed") /\ UNCHANGED <<writes, submitted>>
     \/ /\ ~closed /\ Len(writes) >= Capacity
        /\ Return(w, "full") /\ UNCHANGED <<writes, submitted>>
     \/ /\ ~closed /\ Len(writes) < Capacity
        /\ writes' = Append(writes, w)
        /\ submitted' = Append(submitted, w)
        /\ call' = [call EXCEPT ![w] = "waiting"]
        /\ UNCHANGED answer
  /\ UNCHANGED <<cancelled, result, tx, stage, closed, committed>>

\* Mutant: only the result is waited for.
AwaitResult(w) ==
  /\ call[w] = "waiting" /\ result[w] # None /\ w \notin cancelled
  /\ Return(w, result[w])
  /\ UNCHANGED <<cancelled, writes, result, tx, stage, closed, committed, submitted>>

\* The select that waits: any ready case may be taken.  When the store has
\* ended, a result that is there is preferred.
Await(w) ==
  /\ call[w] = "waiting"
  /\ \/ result[w] # None /\ Return(w, result[w])
     \/ w \in cancelled /\ Return(w, "cancelled")
     \/ stage = "done" /\ result[w] = None /\ Return(w, "closed")
  /\ UNCHANGED <<cancelled, writes, result, tx, stage, closed, committed, submitted>>

\* The caller's context ends: a timeout or a client that went away.
Cancel(w) ==
  /\ call[w] # "returned"
  /\ cancelled' = cancelled \cup {w}
  /\ UNCHANGED <<caller, writes, result, tx, stage, closed, committed, submitted>>

\* Close: under the lock, before it waits for the goroutine.
Close ==
  /\ ~closed
  /\ closed' = TRUE
  /\ UNCHANGED <<caller, cancelled, writes, result, tx, stage, committed, submitted>>

-----------------------------------------------------------------------------
(* The write goroutine.                                                    *)

\* Mutant: the newest request first.
TakeLast ==
  /\ stage = "idle" /\ ~closed /\ writes # <<>>
  /\ tx' = Last(writes) /\ writes' = Front(writes)
  /\ stage' = "write"
  /\ UNCHANGED <<caller, cancelled, result, closed, committed, submitted>>

Take ==
  /\ stage = "idle" /\ ~closed /\ writes # <<>>
  /\ tx' = Head(writes)
  /\ writes' = Tail(writes)
  /\ stage' = "write"
  /\ UNCHANGED <<caller, cancelled, result, closed, committed, submitted>>

\* Once the store's context is done every queued request is answered
\* ErrClosed, the one just taken included, and then the goroutine ends.
RejectPending ==
  /\ stage = "idle" /\ closed
  /\ \/ /\ writes # <<>>
        /\ result' = [result EXCEPT ![Head(writes)] = "closed"]
        /\ writes' = Tail(writes)
        /\ UNCHANGED stage
     \/ /\ writes = <<>>
        /\ stage' = "done"
        /\ UNCHANGED <<writes, result>>
  /\ UNCHANGED <<caller, cancelled, tx, closed, committed, submitted>>

\* Rolled back: the transaction did not begin, its function failed or
\* panicked, a context was done when it returned, or the commit failed.  After
\* Close the error is ErrClosed, unless it comes from a panic.
Rollback ==
  /\ stage \in {"write", "commit"}
  /\ stage' \in IF closed THEN {"closed", "error"}
                ELSE IF tx \in cancelled THEN {"cancelled", "error"} ELSE {"error"}
  /\ UNCHANGED <<caller, cancelled, writes, result, tx, closed, committed, submitted>>

\* The function succeeded and neither context was done when it was checked.
CheckContext ==
  /\ stage = "write" /\ tx \notin cancelled /\ ~closed
  /\ stage' = "commit"
  /\ UNCHANGED <<caller, cancelled, writes, result, tx, closed, committed, submitted>>

\* tx.Commit: contexts that end now come too late.
CommitTx ==
  /\ stage = "commit"
  /\ committed' = Append(committed, tx)
  /\ stage' = "ok"
  /\ UNCHANGED <<caller, cancelled, writes, result, tx, closed, submitted>>

\* Mutant: the error of a rolled back transaction is lost.
DeliverNil ==
  /\ stage \in {"ok"} \cup Failures
  /\ result' = [result EXCEPT ![tx] = "ok"]
  /\ tx' = None /\ stage' = "idle"
  /\ UNCHANGED <<caller, cancelled, writes, closed, committed, submitted>>

\* req.result <- executeWrite(req): stage is the outcome.
Deliver ==
  /\ stage \in {"ok"} \cup Failures
  /\ result' = [result EXCEPT ![tx] = stage]
  /\ tx' = None
  /\ stage' = "idle"
  /\ UNCHANGED <<caller, cancelled, writes, closed, committed, submitted>>

writeLoop == Take \/ RejectPending \/ Rollback \/ CheckContext \/ CommitTx \/ Deliver

-----------------------------------------------------------------------------
Init ==
  /\ call = [w \in Writers |-> "new"]
  /\ cancelled = {}
  /\ answer = [w \in Writers |-> None]
  /\ writes = <<>>
  /\ result = [w \in Writers |-> None]
  /\ tx = None
  /\ stage = "idle"
  /\ closed = FALSE
  /\ committed = <<>>
  /\ submitted = <<>>

Stopped == closed /\ stage = "done" /\ (\A w \in Writers : call[w] = "returned") /\ UNCHANGED vars

Next ==
  \/ writeLoop \/ Close \/ Stopped
  \/ \E w \in Writers : RefuseCancelled(w) \/ Submit(w) \/ Await(w) \/ Cancel(w)

\* The goroutine and the callers that wait are scheduled; a write function
\* ends, as its statements run under a context and a busy timeout.
Fairness == WF_vars(writeLoop) /\ \A w \in Writers : WF_vars(Await(w))

Spec == Init /\ [][Next]_vars /\ Fairness

-----------------------------------------------------------------------------
(* Properties.                                                             *)

\* The type of every variable.
TypeOK ==
  /\ call \in [Writers -> {"new", "waiting", "returned"}]
  /\ cancelled \subseteq Writers
  /\ answer \in [Writers -> Answers \cup {None}]
  /\ writes \in Seq(Writers)
  /\ result \in [Writers -> {"ok", None} \cup Failures]
  /\ tx \in Writers \cup {None}
  /\ stage \in {"idle", "write", "commit", "ok", "done"} \cup Failures
  /\ closed \in BOOLEAN
  /\ committed \in Seq(Writers) /\ submitted \in Seq(Writers)

Committed == ToSet(committed)

\* "A nil return means the transaction has committed", and any error but that
\* of a context means that it has not and will not.
AnswersAreTrue ==
  \A w \in Writers :
    /\ answer[w] = "ok" => w \in Committed
    /\ answer[w] \in {"error", "closed", "full"} => w \notin Committed

\* Transactions commit in the order in which their calls were accepted, each
\* once: a room's later state never lands below an earlier one.
CommitsInOrder ==
  \A i, j \in DOMAIN committed : i < j =>
    \E a, b \in DOMAIN submitted :
      a < b /\ submitted[a] = committed[i] /\ submitted[b] = committed[j]

\* The goroutine never ends with a caller unanswered: the lock makes "not
\* closed" and "queued" one step, so rejectPendingWrites sees every request.
NobodyLeftBehind ==
  stage = "done" => \A w \in Writers : call[w] = "waiting" => result[w] # None

\* Every call returns, through results, contexts or the end of the store.
EveryCallReturns == \A w \in Writers : call[w] = "waiting" ~> call[w] = "returned"

\* The refinement: AtomicWrites with the errors of a context as "unknown".
Status(w) ==
  IF w \in Committed THEN "committed"
  ELSE IF call[w] = "new" THEN "new"
  ELSE IF \/ result[w] \in Failures
          \/ tx = w /\ stage \in Failures
          \/ w \notin ToSet(submitted)
       THEN "refused" ELSE "called"
Told(w) ==
  IF answer[w] \in {"error", "closed", "full"} THEN "failed"
  ELSE IF answer[w] = "cancelled" THEN "unknown" ELSE answer[w]
status == [w \in Writers |-> Status(w)]
told == [w \in Writers |-> Told(w)]

Promise == INSTANCE AtomicWrites WITH db <- committed, status <- status, answer <- told
KeepsPromise == Promise!Spec

\* The claim of Write's comment, "failed and cancelled writes are rolled back
\* before the result is delivered": whoever was told of an error finds no trace
\* of the transaction in the database.
RolledBackBeforeDelivery ==
  \A w \in Writers :
    answer[w] \in Answers \ {"ok"} => w \notin Committed
=============================================================================
