---------------------------- MODULE AtomicWrites ----------------------------
(***************************************************************************)
(* What Store.Write promises its callers: a call is refused without a      *)
(* trace, or commits once; nil means it committed, a definite error means  *)
(* that it never will, and a context error means nothing at all.           *)
(***************************************************************************)
EXTENDS Sequences

CONSTANTS
  Writers,  \* the calls of Write, one each
  None      \* not answered yet

VARIABLES
  db,       \* the calls that committed, in commit order
  status,   \* what became of the transaction of each call
  answer    \* what its caller was told

vars == <<db, status, answer>>

Init ==
  /\ db = <<>>
  /\ status = [w \in Writers |-> "new"]
  /\ answer = [w \in Writers |-> None]

Call(w) ==
  /\ status[w] = "new"
  /\ status' = [status EXCEPT ![w] = "called"]
  /\ UNCHANGED <<db, answer>>

\* The call is answered without a transaction.
Reject(w, v) ==
  /\ status[w] = "new"
  /\ status' = [status EXCEPT ![w] = "refused"]
  /\ answer' = [answer EXCEPT ![w] = v]
  /\ UNCHANGED db

Refuse(w) ==
  /\ status[w] = "called"
  /\ status' = [status EXCEPT ![w] = "refused"]
  /\ UNCHANGED <<db, answer>>

Apply(w) ==
  /\ status[w] = "called"
  /\ status' = [status EXCEPT ![w] = "committed"]
  /\ db' = Append(db, w)
  /\ UNCHANGED answer

Return(w, v) ==
  /\ status[w] # "new" /\ answer[w] = None
  /\ v = "ok" => status[w] = "committed"
  /\ v = "failed" => status[w] = "refused"
  /\ answer' = [answer EXCEPT ![w] = v]
  /\ UNCHANGED <<db, status>>

Next ==
  \E w \in Writers :
    \/ Call(w) \/ Refuse(w) \/ Apply(w)
    \/ \E v \in {"failed", "unknown"} : Reject(w, v)
    \/ \E v \in {"ok", "failed", "unknown"} : Return(w, v)

Spec == Init /\ [][Next]_vars
=============================================================================
