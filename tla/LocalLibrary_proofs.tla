------------------------ MODULE LocalLibrary_proofs ------------------------
(***************************************************************************)
(* Proofs about the local library, for any number of uploads, contents,    *)
(* callers and workers, with failed writes and restarts anywhere: a track  *)
(* that was deleted stays deleted; a reserved track has exactly one owner  *)
(* and an owner's input is its row's source; and what a live track needs   *)
(* is kept on disk.  The first rests on IInv alone, the types and the rows *)
(* that calls and deletions rely on; the others on HInv, which adds who    *)
(* holds each track, which files are named by whom, and what the files     *)
(* that will be removed are no source of any more.                         *)
(***************************************************************************)
EXTENDS LocalLibrary, FiniteSetTheorems, TLAPS

Statuses == {"PENDING", "PROCESSING", "FAILED", "COMPLETED", "DELETED"}
New == {"find", "findAgain", "insert"}     \* of an upload that may yet insert
Again == {"retry", "reread", "swap"}       \* of one that repeats a track

Call ==
  [pc : {"idle"}]
  \cup [pc : New \cup {"discard"}, file : Ids, hash : Contents]
  \cup [pc : {"retry", "reread", "discard"}, file : Ids, id : Ids, status : Statuses]
  \cup [pc : {"swap", "dropOld", "discard"}, file : Ids, id : Ids, old : Ids \cup {None}]
  \cup [pc : {"reserve", "submit", "fail", "release"}, id : Ids]
  \cup [pc : {"offer", "fail", "release"}, id : Ids, input : Ids]

Deletion ==
  [pc : {"idle"}]
  \cup [pc : {"tx", "files"}, id : Ids, source : Ids \cup {None}, output : BOOLEAN]

RowsOK == row \in [Ids -> Row \cup {None}]

StateOK ==
  /\ RowsOK
  /\ call \in [Callers -> Call]
  /\ deleting \in [Deleters -> Deletion]
  /\ feeder \in Page \cup {None}
  /\ sources \subseteq Ids /\ fresh \subseteq Ids

\* An id that was not given out has no row, nor has the one of an upload that
\* may yet insert, which no other upload has; a track to retry has a row.
CallsOK ==
  /\ \A id \in fresh : row[id] = None
  /\ \A u \in Callers : call[u].pc \in New => row[call[u].file] = None /\ call[u].file \notin fresh
  /\ \A u, v \in Callers :
       u # v /\ call[u].pc \in New /\ call[v].pc \in New => call[u].file # call[v].file
  /\ \A u \in Callers : call[u].pc \in Again => row[call[u].id] # None

DeletesOK == \A d \in Deleters : deleting[d].pc = "tx" => row[deleting[d].id] # None

IInv == StateOK /\ CallsOK /\ DeletesOK

-----------------------------------------------------------------------------
(* The writes of a row.                                                    *)

\* A write that leaves every row that is there, and deleted ones deleted.
Harmless ==
  /\ RowsOK'
  /\ \A id \in Ids : row[id] # None => row'[id] # None
  /\ NoneComesBack

\* And one that inserts none.
Kept == Harmless /\ \A id \in Ids : row[id] = None => row'[id] = None

LEMMA RowChanges ==
  ASSUME RowsOK, NEW id \in Ids, NEW r \in Row, row' = [row EXCEPT ![id] = r],
         row[id] = None \/ row[id].status # "DELETED" \/ r.status = "DELETED"
  PROVE  Harmless /\ \A i \in Ids : i # id => row'[i] = row[i]
BY LibraryAssumption DEF Harmless, RowsOK, NoneComesBack, Live

LEMMA RowStays ==
  ASSUME RowsOK, UNCHANGED row
  PROVE  Kept
BY DEF Kept, Harmless, RowsOK, NoneComesBack, Live

LEMMA RowFields ==
  ASSUME RowsOK, NEW id \in Ids, row[id] # None
  PROVE  /\ row[id] \in Row /\ row[id].status \in Statuses /\ row[id].source \in Ids \cup {None}
         /\ row[id] = [status |-> row[id].status, hash |-> row[id].hash, source |-> row[id].source]
<1>1. row[id] \in Row
  BY DEF RowsOK
<1> QED
  BY <1>1 DEF Row, Statuses, Ids

LEMMA FieldsChange ==
  ASSUME RowsOK, NEW id \in Ids, row[id] # None,
         NEW status \in Statuses, NEW source \in Ids \cup {None},
         row[id].status # "DELETED" \/ status = "DELETED",
         row' = [row EXCEPT ![id] = [status |-> status, hash |-> row[id].hash, source |-> source]]
  PROVE  Kept
<1> DEFINE r == [status |-> status, hash |-> row[id].hash, source |-> source]
<1>1. r \in Row /\ r.status = status
  BY RowFields DEF Row, Statuses, Ids
<1>2. row' = [row EXCEPT ![id] = r]
  OBVIOUS
<1> HIDE DEF r
<1>3. Harmless /\ \A i \in Ids : i # id => row'[i] = row[i]
  BY <1>1, <1>2, RowChanges
<1> QED
  BY <1>3 DEF Kept

LEMMA FieldsOf ==
  ASSUME NEW r \in Row, NEW s
  PROVE  /\ [r EXCEPT !.status = s] = [status |-> s, hash |-> r.hash, source |-> r.source]
         /\ [r EXCEPT !.source = s] = [status |-> r.status, hash |-> r.hash, source |-> s]
BY DEF Row

LEMMA StatusChanges ==
  ASSUME RowsOK, NEW id \in Ids, row[id] # None, NEW status \in Statuses,
         row[id].status # "DELETED" \/ status = "DELETED",
         row' = [row EXCEPT ![id].status = status]
  PROVE  Kept
<1> DEFINE source == row[id].source
<1>1. [row[id] EXCEPT !.status = status]
      = [status |-> status, hash |-> row[id].hash, source |-> source]
  BY RowFields, FieldsOf
<1>2. source \in Ids \cup {None}
  BY RowFields
<1>3. row' = [row EXCEPT ![id] = [status |-> status, hash |-> row[id].hash, source |-> source]]
  BY <1>1
<1> HIDE DEF source
<1> QED
  BY <1>2, <1>3, FieldsChange

LEMMA SourceChanges ==
  ASSUME RowsOK, NEW id \in Ids, row[id] # None,
         NEW status \in Statuses, NEW source \in Ids \cup {None},
         row[id].status # "DELETED",
         row' = [row EXCEPT ![id].status = status, ![id].source = source]
  PROVE  Kept
<1> DEFINE r == [status |-> status, hash |-> row[id].hash, source |-> row[id].source]
           s == [row EXCEPT ![id] = r]
<1>1. [row[id] EXCEPT !.status = status] = r
  BY RowFields, FieldsOf
<1>2. row' = [s EXCEPT ![id].source = source]
  BY <1>1
<1>3. s[id] = r /\ r \in Row
  BY RowFields DEF RowsOK, Row, Statuses, Ids
<1>4. [s[id] EXCEPT !.source = source]
      = [status |-> status, hash |-> row[id].hash, source |-> source]
  BY <1>3, FieldsOf
<1>5. row' = [s EXCEPT ![id] = [status |-> status, hash |-> row[id].hash, source |-> source]]
  BY <1>2, <1>4
<1>6. row' = [row EXCEPT ![id] = [status |-> status, hash |-> row[id].hash, source |-> source]]
  BY <1>5 DEF RowsOK
<1> HIDE DEF s, r
<1> QED
  BY <1>6, FieldsChange

LEMMA Updates ==
  ASSUME RowsOK, NEW id, NEW status \in Statuses, UpdateStatus(id, status)
  PROVE  Kept
<1>1. CASE id \in Live
  <2>1. id \in Ids /\ row[id] # None /\ row[id].status # "DELETED"
    BY <1>1 DEF Live
  <2> QED
    BY <1>1, <2>1, StatusChanges DEF UpdateStatus
<1>2. CASE id \notin Live
  BY <1>2, RowStays DEF UpdateStatus
<1> QED
  BY <1>1, <1>2

-----------------------------------------------------------------------------
(* The moves of a call.                                                    *)

\* What stays true of the calls when rows are kept and a call becomes r.
LEMMA CallMoves ==
  ASSUME IInv, Kept, NEW c \in Callers, NEW r \in Call,
         call' = [call EXCEPT ![c] = r], UNCHANGED fresh,
         r.pc \in New => call[c].pc \in New /\ r.file = call[c].file,
         r.pc \in Again => row[r.id] # None /\ r.id \in Ids
  PROVE  CallsOK' /\ call' \in [Callers -> Call]
<1>1. call' \in [Callers -> Call] /\ call'[c] = r
      /\ \A b \in Callers : b # c => call'[b] = call[b]
  BY DEF IInv, StateOK
<1>2. \A b \in Callers : call[b].pc \in New => call[b].file \in Ids
  BY DEF IInv, StateOK, Call, New
<1>3. \A b \in Callers : call[b].pc \in Again => call[b].id \in Ids
  BY DEF IInv, StateOK, Call, New, Again
<1>4. \A id \in fresh' : row'[id] = None
  BY DEF IInv, StateOK, CallsOK, Kept
<1>5. \A u \in Callers : call'[u].pc \in New => call'[u].file \in Ids /\ row[call'[u].file] = None
                                               /\ call'[u].file \notin fresh'
  BY <1>1, <1>2 DEF IInv, CallsOK
<1>6. \A u, v \in Callers :
        u # v /\ call'[u].pc \in New /\ call'[v].pc \in New => call'[u].file # call'[v].file
  BY <1>1 DEF IInv, CallsOK
<1>7. \A u \in Callers : call'[u].pc \in Again => call'[u].id \in Ids /\ row[call'[u].id] # None
  BY <1>1, <1>3 DEF IInv, CallsOK
<1> QED
  BY <1>1, <1>4, <1>5, <1>6, <1>7 DEF CallsOK, Kept, Harmless

LEMMA CallsStay ==
  ASSUME IInv, Kept, UNCHANGED <<call, fresh>>
  PROVE  CallsOK' /\ call' \in [Callers -> Call]
<1>2. \A b \in Callers : call[b].pc \in New => call[b].file \in Ids
  BY DEF IInv, StateOK, Call, New
<1>3. \A b \in Callers : call[b].pc \in Again => call[b].id \in Ids
  BY DEF IInv, StateOK, Call, New, Again
<1> QED
  BY <1>2, <1>3 DEF IInv, StateOK, CallsOK, Kept, Harmless

LEMMA DeletesStay ==
  ASSUME IInv, Harmless, UNCHANGED deleting
  PROVE  DeletesOK' /\ deleting' \in [Deleters -> Deletion]
<1>1. \A d \in Deleters : deleting[d].pc = "tx" => deleting[d].id \in Ids
  BY DEF IInv, StateOK, Deletion
<1> QED
  BY <1>1 DEF IInv, StateOK, DeletesOK, Harmless

\* The rest of a step that moves one call: what the calls' steps have in common.
LEMMA Moves ==
  ASSUME IInv, Kept, NEW c \in Callers, NEW r \in Call,
         call' = [call EXCEPT ![c] = r], UNCHANGED <<fresh, deleting>>,
         r.pc \in New => call[c].pc \in New /\ r.file = call[c].file,
         r.pc \in Again => row[r.id] # None /\ r.id \in Ids,
         sources' \subseteq Ids, feeder' \in Page \cup {None}
  PROVE  IInv' /\ NoneComesBack
<1>1. CallsOK' /\ call' \in [Callers -> Call]
  BY CallMoves
<1>2. DeletesOK' /\ deleting' \in [Deleters -> Deletion]
  BY DeletesStay DEF Kept
<1> QED
  BY <1>1, <1>2 DEF IInv, StateOK, Kept, Harmless

LEMMA Stays ==
  ASSUME IInv, Kept, UNCHANGED <<call, fresh, deleting>>,
         sources' \subseteq Ids, feeder' \in Page \cup {None}
  PROVE  IInv' /\ NoneComesBack
<1>1. CallsOK' /\ call' \in [Callers -> Call]
  BY CallsStay
<1>2. DeletesOK' /\ deleting' \in [Deleters -> Deletion]
  BY DeletesStay DEF Kept
<1> QED
  BY <1>1, <1>2 DEF IInv, StateOK, Kept, Harmless

\* Where a call is, by its shape.
LEMMA Shapes ==
  ASSUME IInv, NEW c \in Callers
  PROVE  /\ call[c] \in Call
         /\ call[c].pc \in New => call[c] \in [pc : New \cup {"discard"}, file : Ids, hash : Contents]
         /\ call[c].pc \in {"retry", "reread"} =>
              call[c] \in [pc : {"retry", "reread", "discard"}, file : Ids, id : Ids, status : Statuses]
         /\ call[c].pc \in {"swap", "dropOld"} =>
              call[c] \in [pc : {"swap", "dropOld", "discard"}, file : Ids, id : Ids, old : Ids \cup {None}]
         /\ call[c].pc \in {"reserve", "submit"} =>
              call[c] \in [pc : {"reserve", "submit", "fail", "release"}, id : Ids]
         /\ call[c].pc = "offer" =>
              call[c] \in [pc : {"offer", "fail", "release"}, id : Ids, input : Ids]
         /\ call[c].pc = "fail" =>
              call[c] \in [pc : {"reserve", "submit", "fail", "release"}, id : Ids]
                         \cup [pc : {"offer", "fail", "release"}, id : Ids, input : Ids]
<1>1. call[c] \in Call
  BY DEF IInv, StateOK
<1> QED
  BY <1>1 DEF Call, New

LEMMA Goes ==
  ASSUME IInv, Kept, NEW c \in Callers, NEW p, Goto(c, p), UNCHANGED <<fresh, deleting>>,
         sources' \subseteq Ids, feeder' \in Page \cup {None},
         \/ call[c].pc \in New /\ p \in New \cup {"discard"}
         \/ call[c].pc \in {"retry", "reread"} /\ p \in {"reread", "discard"}
         \/ call[c].pc = "swap" /\ p \in {"dropOld", "discard"}
         \/ call[c].pc \in {"reserve", "submit"} /\ p \in {"submit", "fail", "release"}
         \/ call[c].pc \in {"offer", "fail"} /\ p \in {"fail", "release"}
  PROVE  IInv' /\ NoneComesBack
<1> DEFINE r == [call[c] EXCEPT !.pc = p]
<1>1. call' = [call EXCEPT ![c] = r]
  BY DEF Goto
<1>2. /\ r \in Call
      /\ r.pc \in New => call[c].pc \in New /\ r.file = call[c].file
      /\ r.pc \in Again => call[c].pc \in Again /\ r.id = call[c].id /\ call[c].id \in Ids
  <2>1. CASE call[c].pc \in New /\ p \in New \cup {"discard"}
    BY <2>1, Shapes DEF Call, New, Again
  <2>2. CASE call[c].pc \in {"retry", "reread"} /\ p \in {"reread", "discard"}
    BY <2>2, Shapes DEF Call, New, Again
  <2>3. CASE call[c].pc = "swap" /\ p \in {"dropOld", "discard"}
    BY <2>3, Shapes DEF Call, New, Again
  <2>4. CASE call[c].pc \in {"reserve", "submit"} /\ p \in {"submit", "fail", "release"}
    BY <2>4, Shapes DEF Call, New, Again
  <2>5. CASE call[c].pc \in {"offer", "fail"} /\ p \in {"fail", "release"}
    BY <2>5, Shapes DEF Call, New, Again
  <2> QED
    BY <2>1, <2>2, <2>3, <2>4, <2>5
<1>3. r.pc \in Again => row[r.id] # None /\ r.id \in Ids
  BY <1>2 DEF IInv, CallsOK
<1> HIDE DEF r
<1> QED
  BY <1>1, <1>2, <1>3, Moves

LEMMA Ends ==
  ASSUME IInv, Kept, NEW c \in Callers, Done(c), UNCHANGED <<fresh, deleting>>,
         sources' \subseteq Ids, feeder' \in Page \cup {None}
  PROVE  IInv' /\ NoneComesBack
<1>1. call' = [call EXCEPT ![c] = Idle]
  BY DEF Done
<1>2. Idle \in Call /\ Idle.pc \notin New /\ Idle.pc \notin Again
  BY DEF Idle, Call, New, Again
<1> QED
  BY <1>1, <1>2, Moves

-----------------------------------------------------------------------------
(* The steps.                                                              *)

LEMMA TypeFacts ==
  ASSUME IInv
  PROVE  RowsOK /\ sources \subseteq Ids /\ feeder \in Page \cup {None}
BY DEF IInv, StateOK

LEMMA Uploads ==
  ASSUME IInv, NEW u \in Uploaders, NEW h \in Contents, Upload(u, h)
  PROVE  IInv' /\ NoneComesBack
<1>1. PICK id \in fresh :
        /\ fresh' = fresh \ {id}
        /\ sources' = sources \cup {id}
        /\ call' = [call EXCEPT ![u] = [pc |-> "find", file |-> id, hash |-> h]]
  BY DEF Upload
<1>2. UNCHANGED <<row, deleting, feeder>> /\ u \in Callers
  BY DEF Upload, disk, queue, Callers
<1>3. id \in Ids /\ row[id] = None /\ fresh \subseteq Ids /\ fresh' \subseteq fresh /\ id \notin fresh'
  BY <1>1 DEF IInv, StateOK, CallsOK
<1> DEFINE r == [pc |-> "find", file |-> id, hash |-> h]
<1>4. r \in Call /\ r.pc \in New /\ r.pc \notin Again /\ r.file = id
  BY <1>3 DEF Call, New, Again
<1>5. call' = [call EXCEPT ![u] = r]
  BY <1>1
<1> HIDE DEF r
<1>6. call' \in [Callers -> Call] /\ call'[u] = r
      /\ \A b \in Callers : b # u => call'[b] = call[b]
  BY <1>2, <1>4, <1>5 DEF IInv, StateOK
<1>7. \A b \in Callers : call[b].pc \in New => call[b].file \notin fresh /\ row[call[b].file] = None
  BY DEF IInv, CallsOK
<1>8. Kept
  BY <1>2, RowStays, TypeFacts
<1>9. CallsOK'
  <2>1. \A i \in fresh' : row'[i] = None
    BY <1>2, <1>3 DEF IInv, CallsOK
  <2>2. \A b \in Callers : call'[b].pc \in New => row'[call'[b].file] = None /\ call'[b].file \notin fresh'
    BY <1>2, <1>3, <1>4, <1>6, <1>7
  <2>3. \A b, c \in Callers :
          b # c /\ call'[b].pc \in New /\ call'[c].pc \in New => call'[b].file # call'[c].file
    BY <1>1, <1>4, <1>6, <1>7 DEF IInv, CallsOK
  <2>4. \A b \in Callers : call'[b].pc \in Again => row'[call'[b].id] # None
    BY <1>2, <1>4, <1>6 DEF IInv, CallsOK
  <2> QED
    BY <2>1, <2>2, <2>3, <2>4 DEF CallsOK
<1>10. DeletesOK' /\ deleting' \in [Deleters -> Deletion]
  BY <1>2, <1>8, DeletesStay DEF Kept
<1>11. RowsOK' /\ feeder' \in Page \cup {None} /\ sources' \subseteq Ids /\ fresh' \subseteq Ids
  BY <1>1, <1>2, <1>3, TypeFacts DEF RowsOK
<1> QED
  BY <1>6, <1>8, <1>9, <1>10, <1>11 DEF IInv, StateOK, Kept, Harmless

\* The only writes of a row that was not there: its id is the upload's own.
LEMMA Inserts ==
  ASSUME IInv, NEW u \in Uploaders, call[u].pc = "insert",
         row' = [row EXCEPT ![call[u].file] = Pending(u)],
         \/ call' = [call EXCEPT ![u] = [pc |-> "reserve", id |-> call[u].file]]
         \/ Goto(u, "discard"),
         UNCHANGED <<sources, fresh, deleting, feeder>>
  PROVE  IInv' /\ NoneComesBack
<1> DEFINE id == call[u].file
<1>1. /\ u \in Callers /\ id \in Ids /\ row[id] = None /\ id \notin fresh
      /\ call[u] \in [pc : New \cup {"discard"}, file : Ids, hash : Contents]
  BY Shapes DEF Callers, IInv, CallsOK, New
<1>2. Pending(u) \in Row
  BY <1>1 DEF Pending, Row, Ids
<1>3. Harmless /\ \A i \in Ids : i # id => row'[i] = row[i]
  BY <1>1, <1>2, RowChanges, TypeFacts
<1>4. PICK r \in Call : call' = [call EXCEPT ![u] = r] /\ r.pc \notin New /\ r.pc \notin Again
  <2>1. CASE call' = [call EXCEPT ![u] = [pc |-> "reserve", id |-> call[u].file]]
    <3> DEFINE r == [pc |-> "reserve", id |-> call[u].file]
    <3>1. r \in Call /\ r.pc \notin New /\ r.pc \notin Again
      BY <1>1 DEF Call, New, Again
    <3>2. call' = [call EXCEPT ![u] = r]
      BY <2>1
    <3> HIDE DEF r
    <3> QED
      BY <3>1, <3>2
  <2>2. CASE Goto(u, "discard")
    <3> DEFINE r == [call[u] EXCEPT !.pc = "discard"]
    <3>1. r \in Call /\ r.pc \notin New /\ r.pc \notin Again
      BY <1>1 DEF Call, New, Again
    <3>2. call' = [call EXCEPT ![u] = r]
      BY <2>2 DEF Goto
    <3> HIDE DEF r
    <3> QED
      BY <3>1, <3>2
  <2> QED
    BY <2>1, <2>2
<1>5. call' \in [Callers -> Call] /\ call'[u] = r
      /\ \A b \in Callers : b # u => call'[b] = call[b]
  BY <1>1, <1>4 DEF IInv, StateOK
<1> HIDE DEF id
<1>6. \A b \in Callers : b # u /\ call[b].pc \in New => call[b].file # id /\ call[b].file \in Ids
  BY <1>1 DEF IInv, StateOK, CallsOK, Call, New, id
<1>7. \A b \in Callers : call[b].pc \in Again => call[b].id \in Ids /\ row[call[b].id] # None
  BY DEF IInv, StateOK, CallsOK, Call, New, Again
<1>8. CallsOK'
  <2>1. \A i \in fresh' : row'[i] = None
    BY <1>1, <1>3 DEF IInv, StateOK, CallsOK
  <2>2. \A b \in Callers : call'[b].pc \in New => row'[call'[b].file] = None /\ call'[b].file \notin fresh'
    BY <1>3, <1>4, <1>5, <1>6 DEF IInv, CallsOK
  <2>3. \A b, c \in Callers :
          b # c /\ call'[b].pc \in New /\ call'[c].pc \in New => call'[b].file # call'[c].file
    BY <1>4, <1>5 DEF IInv, CallsOK
  <2>4. \A b \in Callers : call'[b].pc \in Again => row'[call'[b].id] # None
    BY <1>3, <1>4, <1>5, <1>7 DEF Harmless
  <2> QED
    BY <2>1, <2>2, <2>3, <2>4 DEF CallsOK
<1>9. DeletesOK' /\ deleting' \in [Deleters -> Deletion]
  BY <1>3, DeletesStay
<1> QED
  BY <1>3, <1>5, <1>8, <1>9 DEF IInv, StateOK, Harmless

LEMMA UploaderSteps ==
  ASSUME IInv, NEW u \in Uploaders,
         \/ Find(u) \/ FindFails(u) \/ Discard(u) \/ Insert(u) \/ InsertCancelled(u) \/ Reserve(u)
         \/ Retry(u) \/ Reread(u) \/ Swap(u) \/ DropOld(u)
  PROVE  IInv' /\ NoneComesBack
<1> USE TypeFacts
<1>1. u \in Callers
  BY DEF Callers
<1>2. CASE Find(u)
  <2>1. Kept /\ UNCHANGED <<fresh, deleting, feeder, sources>> /\ call[u].pc \in New
    BY <1>2, RowStays DEF Find, disk, New
  <2>2. CASE Active(call[u].hash) # {}
    <3>1. PICK id \in Active(call[u].hash) :
            call' = [call EXCEPT ![u] = [pc |-> "retry", file |-> @.file, id |-> id, status |-> row[id].status]]
      BY <1>2, <2>2 DEF Find
    <3> DEFINE r == [pc |-> "retry", file |-> call[u].file, id |-> id, status |-> row[id].status]
    <3>2. id \in Ids /\ row[id] # None /\ row[id].status \in Statuses
      BY RowFields DEF Active, Live
    <3>3. r \in Call /\ r.pc \notin New /\ r.id = id
      BY <1>1, <2>1, <3>2, Shapes DEF Call, New
    <3>4. call' = [call EXCEPT ![u] = r]
      BY <3>1
    <3> HIDE DEF r
    <3> QED
      BY <1>1, <2>1, <3>2, <3>3, <3>4, Moves
  <2>3. CASE Active(call[u].hash) = {}
    <3>1. Goto(u, "insert") \/ Goto(u, "discard")
      BY <1>2, <2>3 DEF Find
    <3>2. "insert" \in New
      BY DEF New
    <3> QED
      BY <1>1, <2>1, <3>1, <3>2, Goes
  <2> QED
    BY <2>2, <2>3
<1>3. CASE FindFails(u)
  <2>1. Kept /\ UNCHANGED <<fresh, deleting, feeder, sources>> /\ call[u].pc \in New
    BY <1>3, RowStays DEF FindFails, disk, New
  <2> QED
    BY <1>1, <1>3, <2>1, Goes DEF FindFails
<1>4. CASE Discard(u)
  <2>1. Kept /\ UNCHANGED <<fresh, deleting, feeder>> /\ sources' \subseteq Ids
    BY <1>4, RowStays DEF Discard
  <2> QED
    BY <1>1, <1>4, <2>1, Ends DEF Discard
<1>5. CASE Insert(u)
  <2>1. UNCHANGED <<fresh, deleting, feeder, sources>> /\ call[u].pc \in New
    BY <1>5 DEF Insert, New
  <2>2. CASE Goto(u, "findAgain") /\ UNCHANGED row
    <3>1. Kept /\ "findAgain" \in New
      BY <2>2, RowStays DEF New
    <3> QED
      BY <1>1, <2>1, <2>2, <3>1, Goes
  <2>3. CASE ~(Goto(u, "findAgain") /\ UNCHANGED row)
    <3>1. /\ call[u].pc = "insert"
          /\ row' = [row EXCEPT ![call[u].file] = Pending(u)]
          /\ call' = [call EXCEPT ![u] = [pc |-> "reserve", id |-> call[u].file]]
      BY <1>5, <2>3 DEF Insert
    <3> QED
      BY <2>1, <3>1, Inserts
  <2> QED
    BY <2>2, <2>3
<1>6. CASE InsertCancelled(u)
  BY <1>6, Inserts DEF InsertCancelled
<1>7. CASE Reserve(u)
  <2>1. Kept /\ UNCHANGED <<fresh, deleting, feeder, sources>> /\ call[u].pc = "reserve"
    BY <1>7, RowStays DEF Reserve, disk
  <2>2. Done(u) \/ Goto(u, "submit")
    BY <1>7 DEF Reserve
  <2>3. CASE Done(u)
    BY <1>1, <2>1, <2>3, Ends
  <2>4. CASE Goto(u, "submit")
    BY <1>1, <2>1, <2>4, Goes
  <2> QED
    BY <2>2, <2>3, <2>4
<1>8. CASE Retry(u)
  <2>1. Kept /\ UNCHANGED <<fresh, deleting, feeder, sources>> /\ call[u].pc = "retry"
    BY <1>8, RowStays DEF Retry, disk
  <2>2. Goto(u, "discard") \/ Goto(u, "reread")
    BY <1>8 DEF Retry
  <2>3. CASE Goto(u, "discard")
    BY <1>1, <2>1, <2>3, Goes
  <2>4. CASE Goto(u, "reread")
    BY <1>1, <2>1, <2>4, Goes
  <2> QED
    BY <2>2, <2>3, <2>4
<1>9. CASE Reread(u)
  <2>1. Kept /\ UNCHANGED <<fresh, deleting, feeder, sources>> /\ call[u].pc = "reread"
    BY <1>9, RowStays DEF Reread, disk
  <2>2. CASE GiveUp(u)
    BY <1>1, <2>1, <2>2, Goes DEF GiveUp
  <2>3. CASE ~GiveUp(u)
    <3> DEFINE id == call[u].id
               r == [pc |-> "swap", file |-> call[u].file, id |-> id, old |-> row[id].source]
    <3>1. id \in Ids /\ row[id] # None
      BY <1>1, <2>1, Shapes DEF IInv, CallsOK, Again
    <3>2. row[id].source \in Ids \cup {None}
      BY <3>1, RowFields
    <3>3. r \in Call /\ r.pc \notin New /\ r.id = id
      BY <1>1, <2>1, <3>1, <3>2, Shapes DEF Call, New
    <3>4. call' = [call EXCEPT ![u] = r]
      BY <1>9, <2>3 DEF Reread
    <3> HIDE DEF r, id
    <3> QED
      BY <1>1, <2>1, <3>1, <3>3, <3>4, Moves
  <2> QED
    BY <2>2, <2>3
<1>10. CASE Swap(u)
  <2>1. UNCHANGED <<fresh, deleting, feeder, sources>> /\ call[u].pc = "swap"
    BY <1>10 DEF Swap
  <2>2. CASE GiveUp(u) /\ UNCHANGED row
    BY <1>1, <2>1, <2>2, RowStays, Goes DEF GiveUp
  <2>3. CASE ~(GiveUp(u) /\ UNCHANGED row)
    <3>1. /\ row[call[u].id].status \in {"PENDING", "PROCESSING", "FAILED"}
          /\ row' = [row EXCEPT ![call[u].id].status = "PENDING", ![call[u].id].source = call[u].file]
          /\ Goto(u, "dropOld")
      BY <1>10, <2>3 DEF Swap
    <3>2. call[u].id \in Ids /\ row[call[u].id] # None /\ call[u].file \in Ids
      BY <1>1, <2>1, Shapes DEF IInv, CallsOK, Again
    <3>3. row[call[u].id].status # "DELETED" /\ "PENDING" \in Statuses
      BY <3>1 DEF Statuses
    <3>4. Kept
      BY <3>1, <3>2, <3>3, SourceChanges
    <3> QED
      BY <1>1, <2>1, <3>1, <3>4, Goes
  <2> QED
    BY <2>2, <2>3
<1>11. CASE DropOld(u)
  <2>1. Kept /\ UNCHANGED <<fresh, deleting, feeder>> /\ sources' \subseteq Ids /\ call[u].pc = "dropOld"
    BY <1>11, RowStays DEF DropOld
  <2> DEFINE r == [pc |-> "submit", id |-> call[u].id]
  <2>2. r \in Call /\ r.pc \notin New /\ r.pc \notin Again
    BY <1>1, <2>1, Shapes DEF Call, New, Again
  <2>3. call' = [call EXCEPT ![u] = r]
    BY <1>11 DEF DropOld
  <2> HIDE DEF r
  <2> QED
    BY <1>1, <2>1, <2>2, <2>3, Moves
<1> QED
  BY <1>2, <1>3, <1>4, <1>5, <1>6, <1>7, <1>8, <1>9, <1>10, <1>11

LEMMA SubmitSteps ==
  ASSUME IInv, NEW c \in Callers, Inspect(c) \/ Offer(c) \/ Fail(c) \/ Release(c)
  PROVE  IInv' /\ NoneComesBack
<1> USE TypeFacts
<1>1. CASE Inspect(c)
  <2>1. Kept /\ UNCHANGED <<fresh, deleting, feeder, sources>> /\ call[c].pc = "submit"
    BY <1>1, RowStays DEF Inspect, disk
  <2>2. CASE Goto(c, "release")
    BY <2>1, <2>2, Goes
  <2>3. CASE Goto(c, "fail")
    BY <2>1, <2>3, Goes
  <2>4. CASE /\ row[call[c].id].source \in sources
             /\ call' = [call EXCEPT ![c] = [pc |-> "offer", id |-> call[c].id, input |-> row[call[c].id].source]]
    <3> DEFINE r == [pc |-> "offer", id |-> call[c].id, input |-> row[call[c].id].source]
    <3>1. r \in Call /\ r.pc \notin New /\ r.pc \notin Again
      BY <2>1, <2>4, Shapes DEF Call, New, Again
    <3>2. call' = [call EXCEPT ![c] = r]
      BY <2>4
    <3> HIDE DEF r
    <3> QED
      BY <2>1, <3>1, <3>2, Moves
  <2> QED
    BY <1>1, <2>2, <2>3, <2>4 DEF Inspect
<1>2. CASE Offer(c)
  <2>1. Kept /\ UNCHANGED <<fresh, deleting, feeder, sources>> /\ call[c].pc = "offer"
    BY <1>2, RowStays DEF Offer, disk
  <2>2. Goto(c, "release") \/ Done(c) \/ Goto(c, "fail")
    BY <1>2 DEF Offer
  <2>3. CASE Goto(c, "release")
    BY <2>1, <2>3, Goes
  <2>4. CASE Done(c)
    BY <2>1, <2>4, Ends
  <2>5. CASE Goto(c, "fail")
    BY <2>1, <2>5, Goes
  <2> QED
    BY <2>2, <2>3, <2>4, <2>5
<1>3. CASE Fail(c)
  <2>1. UNCHANGED <<fresh, deleting, feeder, sources>> /\ call[c].pc = "fail" /\ Goto(c, "release")
    BY <1>3 DEF Fail
  <2>2. Kept
    BY <1>3, Updates DEF Fail, Statuses
  <2> QED
    BY <2>1, <2>2, Goes
<1>4. CASE Release(c)
  <2>1. Kept /\ UNCHANGED <<fresh, deleting, feeder, sources>> /\ Done(c)
    BY <1>4, RowStays DEF Release, disk
  <2> QED
    BY <2>1, Ends
<1> QED
  BY <1>1, <1>2, <1>3, <1>4

LEMMA FeederSteps ==
  ASSUME IInv, NextPage \/ Recover
  PROVE  IInv' /\ NoneComesBack
<1> USE TypeFacts
<1>1. Kept /\ UNCHANGED <<fresh, deleting, sources>>
  BY RowStays DEF NextPage, Recover, disk
<1>2. CASE NextPage
  <2>1. feeder \in Page
    BY <1>2 DEF NextPage
  <2> DEFINE page == {id \in Live : row[id].status \in {"PENDING", "PROCESSING"} /\ id > feeder.after}
  <2>2. page \subseteq 1..MaxUploads
    BY DEF Live, Ids
  <2>3. feeder' = None \/ feeder' = [feeder EXCEPT !.todo = page]
    BY <1>2 DEF NextPage
  <2> HIDE DEF page
  <2>4. feeder' \in Page \cup {None}
    BY <2>1, <2>2, <2>3 DEF Page
  <2> QED
    BY <1>1, <1>2, <2>4, Stays DEF NextPage
<1>3. CASE Recover
  <2>1. feeder \in Page
    BY <1>3 DEF Recover
  <2>2. PICK id \in feeder.todo :
          /\ feeder' = [todo |-> feeder.todo \ {id}, after |-> id]
          /\ \/ UNCHANGED call
             \/ call' = [call EXCEPT ![Feeder] = [pc |-> "submit", id |-> id]]
    BY <1>3 DEF Recover
  <2>3. id \in Ids /\ feeder' \in Page \cup {None}
    BY <2>1, <2>2 DEF Page, Ids
  <2>4. CASE UNCHANGED call
    BY <1>1, <2>3, <2>4, Stays
  <2>5. CASE call' = [call EXCEPT ![Feeder] = [pc |-> "submit", id |-> id]]
    <3> DEFINE r == [pc |-> "submit", id |-> id]
    <3>1. r \in Call /\ r.pc \notin New /\ r.pc \notin Again /\ Feeder \in Callers
      BY <2>3 DEF Call, New, Again, Callers
    <3>2. call' = [call EXCEPT ![Feeder] = r]
      BY <2>5
    <3> HIDE DEF r
    <3> QED
      BY <1>1, <2>3, <3>1, <3>2, Moves
  <2> QED
    BY <2>2, <2>4, <2>5
<1> QED
  BY <1>2, <1>3

LEMMA WorkerSteps ==
  ASSUME IInv, NEW w \in Workers,
         \/ Take(w) \/ Start(w) \/ Run(w) \/ Unsuccessful(w) \/ Complete(w) \/ DropFiles(w)
         \/ ReleaseTrack(w)
  PROVE  IInv' /\ NoneComesBack
<1> USE TypeFacts
<1>1. UNCHANGED <<call, fresh, deleting, feeder>>
  BY DEF Take, Start, Run, Unsuccessful, Complete, DropFiles, ReleaseTrack
<1>2. sources' \subseteq Ids
  BY DEF Take, Start, Run, Unsuccessful, Complete, DropFiles, ReleaseTrack, disk
<1>3. Kept
  <2>1. CASE UNCHANGED row
    BY <2>1, RowStays
  <2>2. CASE Start(w) /\ UpdateStatus(worker[w].id, "PROCESSING")
    BY <2>2, Updates DEF Statuses
  <2>3. CASE \E status \in {"FAILED", "PENDING"} : UpdateStatus(worker[w].id, status)
    BY <2>3, Updates DEF Statuses
  <2>4. CASE /\ worker[w].id \in Live
             /\ row' = [row EXCEPT ![worker[w].id].status = "COMPLETED", ![worker[w].id].source = None]
    <3>1. worker[w].id \in Ids /\ row[worker[w].id] # None /\ row[worker[w].id].status # "DELETED"
      BY <2>4 DEF Live
    <3>2. "COMPLETED" \in Statuses /\ None \in Ids \cup {None}
      BY DEF Statuses
    <3> QED
      BY <2>4, <3>1, <3>2, SourceChanges
  <2> QED
    BY <2>1, <2>2, <2>3, <2>4
       DEF Take, Start, Run, Unsuccessful, Complete, DropFiles, ReleaseTrack, disk
<1> QED
  BY <1>1, <1>2, <1>3, Stays

LEMMA DeletionMoves ==
  ASSUME IInv, Kept, NEW d \in Deleters, NEW r \in Deletion,
         deleting' = [deleting EXCEPT ![d] = r], UNCHANGED <<call, fresh, feeder>>,
         r.pc = "tx" => r.id \in Ids /\ row[r.id] # None,
         sources' \subseteq Ids
  PROVE  IInv' /\ NoneComesBack
<1>1. deleting \in [Deleters -> Deletion]
  BY DEF IInv, StateOK
<1>2. deleting' \in [Deleters -> Deletion] /\ deleting'[d] = r
      /\ \A e \in Deleters : e # d => deleting'[e] = deleting[e]
  BY <1>1
<1>3. \A e \in Deleters : deleting[e].pc = "tx" => deleting[e].id \in Ids /\ row[deleting[e].id] # None
  BY <1>1 DEF Deletion, IInv, DeletesOK
<1>4. DeletesOK'
  BY <1>2, <1>3 DEF DeletesOK, Kept, Harmless
<1>5. CallsOK' /\ call' \in [Callers -> Call]
  BY CallsStay
<1> QED
  BY <1>2, <1>4, <1>5 DEF IInv, StateOK, Kept, Harmless

LEMMA DeleterSteps ==
  ASSUME IInv, NEW d \in Deleters,
         DeleteTx(d) \/ DeleteFiles(d) \/ \E id \in Ids : Delete(d, id)
  PROVE  IInv' /\ NoneComesBack
<1> USE TypeFacts
<1>1. UNCHANGED <<call, fresh, feeder>> /\ sources' \subseteq Ids
  BY DEF DeleteTx, DeleteFiles, Delete, disk
<1>2. deleting[d] \in Deletion
  BY DEF IInv, StateOK
<1>5. CASE DeleteTx(d)
  <2> DEFINE id == deleting[d].id
             r == [deleting[d] EXCEPT !.pc = "files"]
  <2>1. id \in Ids /\ row[id] # None /\ deleting[d] \in [pc : {"tx", "files"}, id : Ids,
                                                        source : Ids \cup {None}, output : BOOLEAN]
    BY <1>2, <1>5 DEF DeleteTx, Deletion, IInv, DeletesOK
  <2>2. row' = [row EXCEPT ![id].status = "DELETED"] /\ "DELETED" \in Statuses
    BY <1>5 DEF DeleteTx, Statuses
  <2>3. r \in Deletion /\ r.pc = "files" /\ Idle \in Deletion /\ Idle.pc = "idle"
    BY <2>1 DEF Deletion, Idle
  <2>4. deleting' = [deleting EXCEPT ![d] = r] \/ deleting' = [deleting EXCEPT ![d] = Idle]
    BY <1>5 DEF DeleteTx
  <2> HIDE DEF id, r
  <2>5. Kept
    BY <2>1, <2>2, StatusChanges
  <2>6. r.pc # "tx" /\ Idle.pc # "tx"
    BY <2>3
  <2> QED
    BY <1>1, <2>3, <2>4, <2>5, <2>6, DeletionMoves
<1>6. CASE DeleteFiles(d)
  <2>1. Idle \in Deletion /\ Idle.pc = "idle"
    BY DEF Deletion, Idle
  <2>2. deleting' = [deleting EXCEPT ![d] = Idle] /\ Kept
    BY <1>6, RowStays DEF DeleteFiles
  <2> QED
    BY <1>1, <2>1, <2>2, DeletionMoves
<1>7. ASSUME NEW id \in Ids, Delete(d, id)
      PROVE  IInv' /\ NoneComesBack
  <2> DEFINE r == [pc |-> "tx", id |-> id, source |-> row[id].source, output |-> row[id].status = "COMPLETED"]
  <2>1. deleting' = [deleting EXCEPT ![d] = r] /\ row[id] # None
    BY <1>7 DEF Delete
  <2>2. row[id].source \in Ids \cup {None}
    BY <2>1, RowFields
  <2>3. r \in Deletion /\ r.id = id
    BY <2>2 DEF Deletion
  <2>4. Kept
    BY <1>7, RowStays DEF Delete, disk
  <2> HIDE DEF r
  <2> QED
    BY <1>1, <2>1, <2>3, <2>4, DeletionMoves
<1> QED
  BY <1>5, <1>6, <1>7

LEMMA RestartStep ==
  ASSUME IInv, Restart
  PROVE  IInv' /\ NoneComesBack
<1>1. Kept /\ UNCHANGED <<fresh, sources>>
  BY RowStays, TypeFacts DEF Restart, disk
<1>2. call' = [c \in Callers |-> Idle] /\ deleting' = [d \in Deleters |-> Idle]
      /\ feeder' = [todo |-> {}, after |-> 0]
  BY DEF Restart, Quiet
<1>3. Idle \in Call /\ Idle \in Deletion /\ Idle.pc = "idle" /\ feeder' \in Page
  BY <1>2 DEF Idle, Call, Deletion, Page
<1>4. CallsOK' /\ DeletesOK'
  BY <1>1, <1>2, <1>3 DEF CallsOK, DeletesOK, IInv, StateOK, New, Again, Kept
<1> QED
  BY <1>1, <1>2, <1>3, <1>4 DEF IInv, StateOK, Kept, Harmless

LEMMA Starts == Init => IInv
<1> SUFFICES ASSUME Init PROVE IInv
  OBVIOUS
<1>1. Idle \in Call /\ Idle \in Deletion /\ Idle.pc = "idle" /\ [todo |-> {}, after |-> 0] \in Page
  BY DEF Idle, Call, Deletion, Page
<1>2. StateOK
  BY <1>1 DEF Init, StateOK, RowsOK
<1>3. CallsOK /\ DeletesOK
  BY <1>1 DEF Init, CallsOK, DeletesOK, New, Again
<1> QED
  BY <1>2, <1>3 DEF IInv

LEMMA Steps == IInv /\ [Next]_vars => IInv' /\ NoneComesBack
<1> SUFFICES ASSUME IInv, [Next]_vars PROVE IInv' /\ NoneComesBack
  OBVIOUS
<1>1. ASSUME NEW u \in Uploaders, NEW h \in Contents, Upload(u, h)
      PROVE  IInv' /\ NoneComesBack
  BY <1>1, Uploads
<1>2. ASSUME NEW u \in Uploaders,
             \/ Find(u) \/ FindFails(u) \/ Discard(u) \/ Insert(u) \/ InsertCancelled(u) \/ Reserve(u)
             \/ Retry(u) \/ Reread(u) \/ Swap(u) \/ DropOld(u)
      PROVE  IInv' /\ NoneComesBack
  BY <1>2, UploaderSteps
<1>3. ASSUME NEW c \in Callers, Inspect(c) \/ Offer(c) \/ Fail(c) \/ Release(c)
      PROVE  IInv' /\ NoneComesBack
  BY <1>3, SubmitSteps
<1>4. CASE NextPage \/ Recover
  BY <1>4, FeederSteps
<1>5. ASSUME NEW w \in Workers,
             \/ Take(w) \/ Start(w) \/ Run(w) \/ Unsuccessful(w) \/ Complete(w) \/ DropFiles(w)
             \/ ReleaseTrack(w)
      PROVE  IInv' /\ NoneComesBack
  BY <1>5, WorkerSteps
<1>6. ASSUME NEW d \in Deleters, DeleteTx(d) \/ DeleteFiles(d) \/ \E id \in Ids : Delete(d, id)
      PROVE  IInv' /\ NoneComesBack
  BY <1>6, DeleterSteps
<1>7. CASE Close
  <2>1. Kept /\ UNCHANGED <<call, fresh, deleting, sources, feeder>>
    BY <1>7, RowStays, TypeFacts DEF Close, disk
  <2> QED
    BY <2>1, TypeFacts, Stays
<1>8. CASE Restart
  BY <1>8, RestartStep
<1>9. CASE UNCHANGED vars
  <2>1. Kept /\ UNCHANGED <<call, fresh, deleting, sources, feeder>>
    BY <1>9, RowStays, TypeFacts DEF vars
  <2> QED
    BY <2>1, TypeFacts, Stays
<1> QED
  BY <1>1, <1>2, <1>3, <1>4, <1>5, <1>6, <1>7, <1>8, <1>9 DEF Next

-----------------------------------------------------------------------------
\* A deleted local track is never brought back: not by the end of a transcode
\* that ran while it was deleted (CompleteTranscode, UpdateStatus), by another
\* upload of the same content (retryUpload), nor by recovery after a restart.
THEOREM DeletedForGood == Spec => DeletedStaysDeleted
<1>1. Init => IInv
  BY Starts
<1>2. IInv /\ [Next]_vars => IInv' /\ NoneComesBack
  BY Steps
<1> QED
  BY <1>1, <1>2, PTL DEF Spec, DeletedStaysDeleted

-----------------------------------------------------------------------------
(* The whole invariant: who owns a track, and who names a file.            *)

Job == [id : Ids, input : Ids]
Busy == {"start", "run", "failed", "cancelled", "complete", "dropSource", "dropOutput", "release"}
Holds == {"reread", "swap", "dropOld", "submit", "offer", "fail", "release"}
Coming == {"find", "findAgain", "insert", "retry", "reread", "swap"}
Carries == Coming \cup {"dropOld", "discard"}
Worker == [pc : {"idle"}] \cup [pc : Busy, id : Ids, input : Ids]
Rows == {id \in Ids : row[id] # None}

Holder(c) == call[c].pc \in Holds
Occupied(w) == worker[w].pc # "idle"

\* The types of what IInv leaves out.
WorkOK ==
  /\ jobs \in Seq(Job) /\ worker \in [Workers -> Worker]
  /\ reserved \subseteq Ids /\ outputs \subseteq Ids /\ abandoned \subseteq Ids

\* Every reserved track has one owner, a call, a queued job or a worker, and
\* every owner a reserved track of its own.
OwnOK ==
  /\ \A c \in Callers : Holder(c) => call[c].id \in reserved
  /\ \A i \in DOMAIN jobs : jobs[i].id \in reserved
  /\ \A w \in Workers : Occupied(w) => worker[w].id \in reserved
  /\ \A c, d \in Callers : Holder(c) /\ Holder(d) /\ c # d => call[c].id # call[d].id
  /\ \A i, j \in DOMAIN jobs : i # j => jobs[i].id # jobs[j].id
  /\ \A w, v \in Workers : Occupied(w) /\ Occupied(v) /\ w # v => worker[w].id # worker[v].id
  /\ \A c \in Callers, i \in DOMAIN jobs : Holder(c) => call[c].id # jobs[i].id
  /\ \A c \in Callers, w \in Workers : Holder(c) /\ Occupied(w) => call[c].id # worker[w].id
  /\ \A i \in DOMAIN jobs, w \in Workers : Occupied(w) => jobs[i].id # worker[w].id
  /\ \A id \in reserved : \/ \E c \in Callers : Holder(c) /\ call[c].id = id
                          \/ \E i \in DOMAIN jobs : jobs[i].id = id
                          \/ \E w \in Workers : Occupied(w) /\ worker[w].id = id

\* The tracks held, to recover or to delete have rows.
KnownOK ==
  /\ reserved \subseteq Rows
  /\ \A c \in Callers : call[c].pc = "reserve" => call[c].id \in Rows
  /\ feeder # None => feeder.todo \subseteq Rows
  /\ \A d \in Deleters : deleting[d].pc # "idle" => deleting[d].id \in Rows

\* The file is a source of a row, or one that somebody works with.
Named(f) ==
  \/ \E i \in Rows : row[i].source = f
  \/ \E c \in Callers : call[c].pc \in {"swap", "dropOld"} /\ call[c].old = f
  \/ \E c \in Callers : call[c].pc = "offer" /\ call[c].input = f
  \/ \E i \in DOMAIN jobs : jobs[i].input = f
  \/ \E w \in Workers : Occupied(w) /\ worker[w].input = f
  \/ \E d \in Deleters : deleting[d].pc # "idle" /\ deleting[d].source = f

\* The file of an upload that may yet become a source is on disk, and nobody
\* else knows of it.
ComingOK ==
  /\ \A f \in fresh : ~Named(f)
  /\ \A u \in Callers : call[u].pc \in Carries => call[u].file \notin fresh
  /\ \A u, v \in Callers :
       call[u].pc \in Carries /\ call[v].pc \in Carries /\ u # v => call[u].file # call[v].file
  /\ \A u \in Callers, f \in Ids :
       call[u].pc \in Coming /\ call[u].file = f => ~Named(f) /\ f \in sources

\* The track is not completed, and its input is its row's source.
Tasked(id, input) == row[id].status # "COMPLETED" /\ (id \in Live => row[id].source = input)

TasksOK ==
  /\ \A c \in Callers : call[c].pc = "offer" => Tasked(call[c].id, call[c].input)
  /\ \A c \in Callers : call[c].pc = "fail" => row[call[c].id].status # "COMPLETED"
  /\ \A c \in Callers : call[c].pc = "swap" => row[call[c].id].source = call[c].old
  /\ \A i \in DOMAIN jobs : Tasked(jobs[i].id, jobs[i].input)
  /\ \A w \in Workers : worker[w].pc \in {"start", "run", "complete", "failed", "cancelled"} =>
       Tasked(worker[w].id, worker[w].input)
  /\ \A w \in Workers :
       worker[w].pc = "complete" /\ worker[w].id \in Live => worker[w].id \in outputs
  /\ \A w \in Workers : worker[w].pc = "dropOutput" => row[worker[w].id].status = "DELETED"

\* A source has one row, and what will be removed is the source of none that
\* needs it.
DoomedOK ==
  /\ \A i, j \in Rows : row[i].source # None /\ row[i].source = row[j].source => i = j
  /\ \A c \in Callers, i \in Rows :
       call[c].pc = "discard" /\ row[i].source = call[c].file => call[c].file \in abandoned
  /\ \A c \in Callers : call[c].pc = "dropOld" => call[c].old # None
  /\ \A c \in Callers, i \in Rows : call[c].pc = "dropOld" => row[i].source # call[c].old
  /\ \A w \in Workers, i \in Rows : worker[w].pc = "dropSource" => row[i].source # worker[w].input
  /\ \A d \in Deleters, i \in Rows :
       deleting[d].pc # "idle" /\ row[i].source = deleting[d].source /\ row[i].source # None => i = deleting[d].id
  /\ \A d \in Deleters : deleting[d].pc = "files" => row[deleting[d].id].status = "DELETED"

HRest == WorkOK /\ OwnOK /\ KnownOK /\ ComingOK /\ TasksOK /\ DoomedOK /\ MaterialIsKept
HInv == IInv /\ HRest

-----------------------------------------------------------------------------
(* Who owns a reserved track.                                              *)

\* A call takes a track, gives it back, or keeps what it has.
LEMMA OwnCall ==
  ASSUME IInv, OwnOK, NEW c \in Callers, NEW r \in Call, call' = [call EXCEPT ![c] = r],
         UNCHANGED <<jobs, worker>>,
         \/ ~Holder(c) /\ r.pc \notin Holds /\ reserved' = reserved
         \/ Holder(c) /\ r.pc \in Holds /\ r.id = call[c].id /\ reserved' = reserved
         \/ ~Holder(c) /\ r.pc \in Holds /\ r.id \notin reserved /\ reserved' = reserved \cup {r.id}
         \/ Holder(c) /\ r.pc \notin Holds /\ reserved' = reserved \ {call[c].id}
  PROVE  OwnOK'
<1>1. call'[c] = r /\ \A b \in Callers : b # c => call'[b] = call[b]
  BY DEF IInv, StateOK
<1>2. CASE ~Holder(c) /\ r.pc \notin Holds /\ reserved' = reserved
  BY <1>1, <1>2 DEF OwnOK, Holder, Occupied
<1>3. CASE Holder(c) /\ r.pc \in Holds /\ r.id = call[c].id /\ reserved' = reserved
  BY <1>1, <1>3 DEF OwnOK, Holder, Occupied
<1>4. CASE ~Holder(c) /\ r.pc \in Holds /\ r.id \notin reserved /\ reserved' = reserved \cup {r.id}
  BY <1>1, <1>4 DEF OwnOK, Holder, Occupied
<1>5. CASE Holder(c) /\ r.pc \notin Holds /\ reserved' = reserved \ {call[c].id}
  BY <1>1, <1>5 DEF OwnOK, Holder, Occupied
<1> QED
  BY <1>2, <1>3, <1>4, <1>5

\* A call hands its track to the queue.
LEMMA OwnQueue ==
  ASSUME IInv, WorkOK, OwnOK, NEW c \in Callers, Holder(c), NEW job \in Job, job.id = call[c].id,
         jobs' = Append(jobs, job), call' = [call EXCEPT ![c] = Idle],
         UNCHANGED <<reserved, worker>>
  PROVE  OwnOK'
<1>1. call'[c] = Idle /\ \A b \in Callers : b # c => call'[b] = call[b]
  BY DEF IInv, StateOK
<1>2. Idle.pc \notin Holds
  BY DEF Idle, Holds
<1>3. /\ DOMAIN jobs = 1..Len(jobs) /\ Len(jobs) \in Nat
      /\ DOMAIN jobs' = 1..(Len(jobs) + 1)
      /\ \A i \in 1..Len(jobs) : jobs'[i] = jobs[i]
      /\ jobs'[Len(jobs) + 1] = job
  BY DEF WorkOK
<1>4. \A i \in DOMAIN jobs' : (i \in DOMAIN jobs /\ jobs'[i] = jobs[i]) \/ (i = Len(jobs) + 1 /\ jobs'[i] = job)
  <2> SUFFICES ASSUME NEW i \in DOMAIN jobs'
               PROVE  (i \in DOMAIN jobs /\ jobs'[i] = jobs[i]) \/ (i = Len(jobs) + 1 /\ jobs'[i] = job)
    OBVIOUS
  <2>0. PICK n \in Nat : n = Len(jobs) /\ i \in 1..(n + 1)
    BY <1>3
  <2>1. i \in 1..Len(jobs) \/ i = Len(jobs) + 1
    BY <2>0
  <2> QED
    BY <1>3, <2>1
<1>5. DOMAIN jobs \subseteq DOMAIN jobs' /\ Len(jobs) + 1 \in DOMAIN jobs'
  BY <1>3
<1>6. \A i \in DOMAIN jobs' : jobs'[i].id \in reserved'
  BY <1>4 DEF OwnOK
<1>7. \A i, j \in DOMAIN jobs' : i # j => jobs'[i].id # jobs'[j].id
  BY <1>4 DEF OwnOK
<1>8. \A d \in Callers : Holder(d)' => d # c /\ Holder(d) /\ call'[d] = call[d]
  BY <1>1, <1>2 DEF Holder
<1>9. \A d \in Callers, i \in DOMAIN jobs' : Holder(d)' => call'[d].id # jobs'[i].id
  BY <1>4, <1>8 DEF OwnOK
<1>10. \A i \in DOMAIN jobs', w \in Workers : Occupied(w)' => jobs'[i].id # worker'[w].id
  BY <1>4 DEF OwnOK, Occupied
<1>11. \A id \in reserved' : \/ \E d \in Callers : Holder(d)' /\ call'[d].id = id
                             \/ \E i \in DOMAIN jobs' : jobs'[i].id = id
                             \/ \E w \in Workers : Occupied(w)' /\ worker'[w].id = id
  BY <1>1, <1>3, <1>5 DEF OwnOK, Occupied, Holder
<1> QED
  BY <1>6, <1>7, <1>8, <1>9, <1>10, <1>11 DEF OwnOK, Occupied

\* A worker takes the first job.
LEMMA OwnTake ==
  ASSUME WorkOK, OwnOK, NEW w \in Workers, worker[w].pc = "idle", jobs # <<>>, jobs' = Tail(jobs),
         NEW r \in Worker, r.pc # "idle", r.id = Head(jobs).id, worker' = [worker EXCEPT ![w] = r],
         UNCHANGED <<reserved, call>>
  PROVE  OwnOK'
<1>1. worker'[w] = r /\ \A v \in Workers : v # w => worker'[v] = worker[v]
  BY DEF WorkOK
<1>2. /\ DOMAIN jobs = 1..Len(jobs) /\ Len(jobs) \in Nat /\ Len(jobs) # 0
      /\ DOMAIN jobs' = 1..(Len(jobs) - 1)
      /\ \A i \in 1..(Len(jobs) - 1) : jobs'[i] = jobs[i + 1]
      /\ Head(jobs) = jobs[1]
  BY DEF WorkOK
<1>3. \A i \in DOMAIN jobs' : i + 1 \in DOMAIN jobs /\ i + 1 # 1 /\ jobs'[i] = jobs[i + 1] /\ i \in Int
  BY <1>2
<1>4. 1 \in DOMAIN jobs /\ r.id = jobs[1].id
      /\ \A i \in DOMAIN jobs : i # 1 => i - 1 \in DOMAIN jobs' /\ jobs'[i - 1] = jobs[i]
  BY <1>2
<1>5. \A i \in DOMAIN jobs' : jobs'[i].id \in reserved' /\ jobs'[i].id # r.id
  BY <1>3, <1>4 DEF OwnOK
<1>6. \A i, j \in DOMAIN jobs' : i # j => jobs'[i].id # jobs'[j].id
  BY <1>3 DEF OwnOK
<1>7. \A c \in Callers, i \in DOMAIN jobs' : Holder(c)' => call'[c].id # jobs'[i].id
  BY <1>3 DEF OwnOK, Holder
<1>8. \A i \in DOMAIN jobs', v \in Workers : Occupied(v)' => jobs'[i].id # worker'[v].id
  BY <1>1, <1>3, <1>5 DEF OwnOK, Occupied
<1>9. \A v, x \in Workers : Occupied(v)' /\ Occupied(x)' /\ v # x => worker'[v].id # worker'[x].id
  BY <1>1, <1>4 DEF OwnOK, Occupied
<1>10. \A c \in Callers, v \in Workers : Holder(c)' /\ Occupied(v)' => call'[c].id # worker'[v].id
  BY <1>1, <1>4 DEF OwnOK, Occupied, Holder
<1>11. \A v \in Workers : Occupied(v)' => worker'[v].id \in reserved'
  BY <1>1, <1>4 DEF OwnOK, Occupied
<1>12. \A id \in reserved' : \/ \E d \in Callers : Holder(d)' /\ call'[d].id = id
                             \/ \E i \in DOMAIN jobs' : jobs'[i].id = id
                             \/ \E v \in Workers : Occupied(v)' /\ worker'[v].id = id
  <2> SUFFICES ASSUME NEW id \in reserved
               PROVE  \/ \E d \in Callers : Holder(d)' /\ call'[d].id = id
                      \/ \E i \in DOMAIN jobs' : jobs'[i].id = id
                      \/ \E v \in Workers : Occupied(v)' /\ worker'[v].id = id
    OBVIOUS
  <2>1. CASE \E i \in DOMAIN jobs : i # 1 /\ jobs[i].id = id
    BY <1>4, <2>1
  <2>2. CASE jobs[1].id = id
    BY <1>1, <1>4, <2>2 DEF Occupied
  <2>3. CASE \E v \in Workers : Occupied(v) /\ worker[v].id = id
    BY <1>1, <2>3 DEF Occupied
  <2>4. CASE \E d \in Callers : Holder(d) /\ call[d].id = id
    BY <2>4 DEF Holder
  <2> QED
    BY <2>1, <2>2, <2>3, <2>4 DEF OwnOK
<1> QED
  BY <1>5, <1>6, <1>7, <1>8, <1>9, <1>10, <1>11, <1>12 DEF OwnOK, Holder

\* A worker goes on with its track, or gives it back.
LEMMA OwnWorker ==
  ASSUME WorkOK, OwnOK, NEW w \in Workers, Occupied(w), NEW r \in Worker,
         worker' = [worker EXCEPT ![w] = r], UNCHANGED <<call, jobs>>,
         \/ r.pc # "idle" /\ r.id = worker[w].id /\ reserved' = reserved
         \/ r.pc = "idle" /\ reserved' = reserved \ {worker[w].id}
  PROVE  OwnOK'
<1>1. worker'[w] = r /\ \A v \in Workers : v # w => worker'[v] = worker[v]
  BY DEF WorkOK
<1>2. CASE r.pc # "idle" /\ r.id = worker[w].id /\ reserved' = reserved
  BY <1>1, <1>2 DEF OwnOK, Holder, Occupied
<1>3. CASE r.pc = "idle" /\ reserved' = reserved \ {worker[w].id}
  BY <1>1, <1>3 DEF OwnOK, Holder, Occupied
<1> QED
  BY <1>2, <1>3

-----------------------------------------------------------------------------
(* The names of files.                                                     *)

LEMMA CallFields ==
  ASSUME IInv, NEW c \in Callers
  PROVE  /\ call[c].pc \in Carries => call[c].file \in Ids
         /\ call[c].pc \in Holds \cup {"retry", "reserve"} => call[c].id \in Ids
         /\ call[c].pc \in {"swap", "dropOld"} => call[c].old \in Ids \cup {None}
         /\ call[c].pc = "offer" => call[c].input \in Ids
         /\ call[c].pc \in {"retry", "reread", "swap"} => call[c].id \in Rows
<1>1. call[c] \in Call
  BY DEF IInv, StateOK
<1>2. call[c].pc \in Carries => call[c].file \in Ids
  BY <1>1 DEF Call, Carries, Coming, New
<1>3. call[c].pc \in Holds \cup {"retry", "reserve"} => call[c].id \in Ids
  BY <1>1 DEF Call, Holds, New
<1>4. call[c].pc \in {"swap", "dropOld"} => call[c].old \in Ids \cup {None}
  BY <1>1 DEF Call, New
<1>5. call[c].pc = "offer" => call[c].input \in Ids
  BY <1>1 DEF Call, New
<1>6. call[c].pc \in {"retry", "reread", "swap"} => call[c].id \in Rows
  BY <1>3 DEF IInv, CallsOK, Again, Rows, Holds
<1> QED
  BY <1>2, <1>3, <1>4, <1>5, <1>6

\* Names arise from names, but for the files G of uploads that are done with them.
LEMMA ComingStep ==
  ASSUME IInv, ComingOK, NEW G, UNCHANGED fresh,
         \A c \in Callers : call'[c].pc \in Carries => call[c].pc \in Carries /\ call'[c].file = call[c].file,
         \A c \in Callers : call'[c].pc \in Coming => call[c].pc \in Coming,
         \A f \in Ids : Named(f)' => Named(f) \/ f \in G,
         \A f \in sources : f \in sources' \/ Named(f) \/ f \in G,
         \A f \in G : \E u \in Callers : call[u].pc \in Carries /\ call[u].file = f /\ call'[u].pc \notin Coming
  PROVE  ComingOK'
<1>1. fresh \subseteq Ids
  BY DEF IInv, StateOK
<1>2. \A c \in Callers : call[c].pc \in Carries => call[c].file \in Ids
  BY CallFields
<1>3. \A f \in G : f \notin fresh
  BY DEF ComingOK
<1>4. \A f \in fresh' : ~Named(f)'
  BY <1>1, <1>3 DEF ComingOK
<1>5. \A c \in Callers : call'[c].pc \in Carries => call'[c].file \notin fresh'
  BY DEF ComingOK
<1>6. \A u, v \in Callers :
        call'[u].pc \in Carries /\ call'[v].pc \in Carries /\ u # v => call'[u].file # call'[v].file
  BY DEF ComingOK
<1>7. ASSUME NEW u \in Callers, NEW f \in Ids, call'[u].pc \in Coming, call'[u].file = f
      PROVE  ~Named(f)' /\ f \in sources'
  <2>1. call[u].pc \in Coming /\ call[u].pc \in Carries /\ call[u].file = f
    BY <1>2, <1>7 DEF Carries
  <2>2. f \notin G
    BY <1>7, <2>1 DEF ComingOK
  <2>3. ~Named(f) /\ f \in sources
    BY <2>1 DEF ComingOK
  <2> QED
    BY <2>2, <2>3
<1> QED
  BY <1>4, <1>5, <1>6, <1>7 DEF ComingOK

\* And when no name arises, and no source goes that is none.
LEMMA NamesStay ==
  ASSUME IInv, ComingOK, UNCHANGED fresh,
         \A c \in Callers : call'[c].pc \in Carries => call[c].pc \in Carries /\ call'[c].file = call[c].file,
         \A c \in Callers : call'[c].pc \in Coming => call[c].pc \in Coming,
         \A f \in Ids : Named(f)' => Named(f),
         \A f \in sources : f \in sources' \/ Named(f)
  PROVE  ComingOK'
<1> DEFINE G == {}
<1>1. \A f \in Ids : Named(f)' => Named(f) \/ f \in G
  OBVIOUS
<1>2. \A f \in sources : f \in sources' \/ Named(f) \/ f \in G
  OBVIOUS
<1>3. \A f \in G : \E u \in Callers : call[u].pc \in Carries /\ call[u].file = f /\ call'[u].pc \notin Coming
  OBVIOUS
<1> HIDE DEF G
<1> QED
  BY <1>1, <1>2, <1>3, ComingStep

\* What a call that goes on keeps of its fields.
LEMMA GoesTo ==
  ASSUME IInv, NEW c \in Callers, NEW p, Goto(c, p),
         \/ call[c].pc \in New /\ p \in New \cup {"discard"}
         \/ call[c].pc \in {"retry", "reread"} /\ p \in {"reread", "discard"}
         \/ call[c].pc = "swap" /\ p \in {"dropOld", "discard"}
         \/ call[c].pc \in {"reserve", "submit"} /\ p \in {"submit", "fail", "release"}
         \/ call[c].pc \in {"offer", "fail"} /\ p \in {"fail", "release"}
  PROVE  \E r \in Call :
           /\ call' = [call EXCEPT ![c] = r] /\ r.pc = p
           /\ call[c].pc \in Carries => r.file = call[c].file
           /\ call[c].pc \in Holds \cup {"retry", "reserve"} => r.id = call[c].id
           /\ call[c].pc = "swap" => r.old = call[c].old
<1> DEFINE r == [call[c] EXCEPT !.pc = p]
<1>1. call' = [call EXCEPT ![c] = r]
  BY DEF Goto
<1>2. /\ r \in Call /\ r.pc = p
      /\ call[c].pc \in Carries => r.file = call[c].file
      /\ call[c].pc \in Holds \cup {"retry", "reserve"} => r.id = call[c].id
      /\ call[c].pc = "swap" => r.old = call[c].old
  <2>1. CASE call[c].pc \in New /\ p \in New \cup {"discard"}
    BY <2>1, Shapes DEF Call, New, Holds
  <2>2. CASE call[c].pc \in {"retry", "reread"} /\ p \in {"reread", "discard"}
    BY <2>2, Shapes DEF Call, New
  <2>3. CASE call[c].pc = "swap" /\ p \in {"dropOld", "discard"}
    BY <2>3, Shapes DEF Call, New
  <2>4. CASE call[c].pc \in {"reserve", "submit"} /\ p \in {"submit", "fail", "release"}
    BY <2>4, Shapes DEF Call, New, Carries, Coming
  <2>5. CASE call[c].pc \in {"offer", "fail"} /\ p \in {"fail", "release"}
    BY <2>5, Shapes DEF Call, New, Carries, Coming
  <2> QED
    BY <2>1, <2>2, <2>3, <2>4, <2>5
<1> HIDE DEF r
<1> QED
  BY <1>1, <1>2

-----------------------------------------------------------------------------
(* The steps of a call that write no row.                                  *)

LEMMA CallStep ==
  ASSUME HInv, NEW c \in Callers, NEW r \in Call, call' = [call EXCEPT ![c] = r],
         UNCHANGED <<row, outputs, fresh, jobs, worker, deleting, abandoned>>,
         \/ ~Holder(c) /\ r.pc \notin Holds /\ reserved' = reserved
         \/ Holder(c) /\ r.pc \in Holds /\ r.id = call[c].id /\ reserved' = reserved
         \/ ~Holder(c) /\ r.pc \in Holds /\ r.id \notin reserved /\ r.id \in Rows
            /\ reserved' = reserved \cup {r.id}
         \/ Holder(c) /\ r.pc \notin Holds /\ reserved' = reserved \ {call[c].id},
         feeder' # None => feeder'.todo \subseteq Rows,
         r.pc \notin {"reserve", "dropOld"},
         r.pc \in Carries => call[c].pc \in Carries /\ r.file = call[c].file,
         r.pc \in Coming => call[c].pc \in Coming,
         r.pc = "discard" => call[c].pc \in Coming,
         r.pc = "swap" => r.id \in Rows /\ r.old = row[r.id].source,
         r.pc = "offer" => r.id \in Rows /\ r.input = row[r.id].source /\ row[r.id].status # "COMPLETED",
         r.pc = "fail" => row[r.id].status # "COMPLETED",
         \/ sources' = sources
         \/ r.pc \notin Carries /\ call[c].pc = "discard" /\ sources' = sources \ {call[c].file}
         \/ r.pc \notin Carries /\ call[c].pc = "dropOld" /\ sources' = sources \ {call[c].old}
  PROVE  HRest'
<1>1. call'[c] = r /\ \A b \in Callers : b # c => call'[b] = call[b]
  BY DEF HInv, IInv, StateOK
<1>2. OwnOK'
  BY OwnCall DEF HInv, HRest
<1>3. WorkOK'
  BY DEF HInv, HRest, WorkOK, Rows
<1>4. Rows' = Rows /\ \A id, x : Tasked(id, x)' <=> Tasked(id, x)
  BY DEF Rows, Tasked, Live
<1>5. KnownOK'
  BY <1>1, <1>4 DEF HInv, HRest, KnownOK
<1>6. ComingOK'
  <2> DEFINE G == IF call[c].pc = "discard" THEN {call[c].file} ELSE {}
  <2>1. \A b \in Callers : call'[b].pc \in Carries => call[b].pc \in Carries /\ call'[b].file = call[b].file
    BY <1>1
  <2>2. \A b \in Callers : call'[b].pc \in Coming => call[b].pc \in Coming
    BY <1>1
  <2>3. \A f \in Ids : Named(f)' => Named(f) \/ f \in G
    BY <1>1, <1>4 DEF Named, Occupied
  <2>4. \A f \in sources : f \in sources' \/ Named(f) \/ f \in G
    BY DEF Named
  <2>5. \A f \in G : \E u \in Callers : call[u].pc \in Carries /\ call[u].file = f /\ call'[u].pc \notin Coming
    BY <1>1 DEF Carries, Coming
  <2> HIDE DEF G
  <2> QED
    BY <2>1, <2>2, <2>3, <2>4, <2>5, ComingStep DEF HInv, HRest
<1>7. TasksOK'
  BY <1>1, <1>4 DEF HInv, HRest, TasksOK, Tasked, Live
<1>8. \A i \in Rows : call[c].pc \in Coming => row[i].source # call[c].file
  <2> SUFFICES ASSUME NEW i \in Rows, call[c].pc \in Coming PROVE row[i].source # call[c].file
    OBVIOUS
  <2>1. call[c].file \in Ids /\ ~Named(call[c].file)
    BY CallFields DEF HInv, HRest, ComingOK, Carries
  <2> QED
    BY <2>1 DEF Named
<1>9. DoomedOK'
  <2>1. \A b \in Callers, i \in Rows' :
          call'[b].pc = "discard" /\ row'[i].source = call'[b].file => call'[b].file \in abandoned'
    BY <1>1, <1>4, <1>8 DEF HInv, HRest, DoomedOK, Carries
  <2>2. \A b \in Callers : call'[b].pc = "dropOld" => b # c /\ call'[b] = call[b]
    BY <1>1
  <2>3. \A b \in Callers : call'[b].pc = "dropOld" => call'[b].old # None
    BY <2>2 DEF HInv, HRest, DoomedOK
  <2>4. \A b \in Callers, i \in Rows' : call'[b].pc = "dropOld" => row'[i].source # call'[b].old
    BY <1>4, <2>2 DEF HInv, HRest, DoomedOK
  <2> QED
    BY <1>4, <2>1, <2>3, <2>4 DEF HInv, HRest, DoomedOK
<1>10. MaterialIsKept'
  <2>1. Live' = Live /\ Live \subseteq Rows
    BY DEF Live, Rows
  <2>2. \A id \in Live : row[id].source \in sources => row[id].source \in sources' \/ row[id].source \in abandoned
    BY <2>1 DEF HInv, HRest, DoomedOK
  <2> QED
    BY <2>1, <2>2 DEF HInv, HRest, MaterialIsKept
<1> QED
  BY <1>2, <1>3, <1>5, <1>6, <1>7, <1>9, <1>10 DEF HRest

LEMMA EndsRest ==
  ASSUME HInv, NEW c \in Callers, Done(c),
         UNCHANGED <<row, outputs, fresh, jobs, worker, deleting, abandoned, feeder>>,
         \/ ~Holder(c) /\ reserved' = reserved
         \/ Holder(c) /\ reserved' = reserved \ {call[c].id},
         \/ sources' = sources
         \/ call[c].pc = "discard" /\ sources' = sources \ {call[c].file}
  PROVE  HRest'
<1>1. Idle \in Call /\ Idle.pc = "idle" /\ Idle.pc \notin Holds /\ Idle.pc \notin Carries /\ Idle.pc \notin Coming
  BY DEF Idle, Call, Holds, Carries, Coming
<1>2. feeder' # None => feeder'.todo \subseteq Rows
  BY DEF HInv, HRest, KnownOK
<1>3. call' = [call EXCEPT ![c] = Idle]
  BY DEF Done
<1> QED
  BY <1>1, <1>2, <1>3, CallStep

LEMMA GoesRest ==
  ASSUME HInv, NEW c \in Callers, NEW p, Goto(c, p),
         UNCHANGED <<row, sources, outputs, fresh, jobs, worker, deleting, abandoned, feeder>>,
         \/ call[c].pc \in New /\ p \in New \cup {"discard"} /\ reserved' = reserved
         \/ call[c].pc = "retry" /\ p = "discard" /\ reserved' = reserved
         \/ /\ call[c].pc = "retry" /\ p = "reread"
            /\ call[c].id \notin reserved /\ reserved' = reserved \cup {call[c].id}
         \/ call[c].pc \in {"reread", "swap"} /\ p = "discard" /\ reserved' = reserved \ {call[c].id}
         \/ /\ call[c].pc = "reserve" /\ p = "submit"
            /\ call[c].id \notin reserved /\ reserved' = reserved \cup {call[c].id}
         \/ call[c].pc \in {"submit", "offer"} /\ p = "release" /\ reserved' = reserved
         \/ /\ call[c].pc \in {"submit", "offer"} /\ p = "fail" /\ reserved' = reserved
            /\ row[call[c].id].status # "COMPLETED"
  PROVE  HRest'
<1>1. PICK r \in Call :
        /\ call' = [call EXCEPT ![c] = r] /\ r.pc = p
        /\ call[c].pc \in Carries => r.file = call[c].file
        /\ call[c].pc \in Holds \cup {"retry", "reserve"} => r.id = call[c].id
        /\ call[c].pc = "swap" => r.old = call[c].old
  BY GoesTo DEF HInv
<1>2. feeder' # None => feeder'.todo \subseteq Rows
  BY DEF HInv, HRest, KnownOK
<1>3. IInv
  BY DEF HInv
<1>4. call[c].pc \in {"retry", "reserve"} => call[c].id \in Rows
  BY <1>3, CallFields DEF HInv, HRest, KnownOK
<1>5. /\ r.pc \notin {"reserve", "dropOld", "swap", "offer"}
      /\ r.pc \in Carries => call[c].pc \in Carries /\ r.file = call[c].file
      /\ r.pc \in Coming => call[c].pc \in Coming
      /\ r.pc = "discard" => call[c].pc \in Coming
      /\ r.pc = "fail" => row[r.id].status # "COMPLETED"
  BY <1>1 DEF New, Carries, Coming, Holds
<1>6. \/ ~Holder(c) /\ r.pc \notin Holds /\ reserved' = reserved
      \/ Holder(c) /\ r.pc \in Holds /\ r.id = call[c].id /\ reserved' = reserved
      \/ ~Holder(c) /\ r.pc \in Holds /\ r.id \notin reserved /\ r.id \in Rows
         /\ reserved' = reserved \cup {r.id}
      \/ Holder(c) /\ r.pc \notin Holds /\ reserved' = reserved \ {call[c].id}
  BY <1>1, <1>4 DEF New, Holds, Holder
<1> QED
  BY <1>1, <1>2, <1>5, <1>6, CallStep

LEMMA QuietUploads ==
  ASSUME HInv, NEW u \in Uploaders,
         \/ Find(u) \/ FindFails(u) \/ Discard(u) \/ Reserve(u)
         \/ Retry(u) \/ Reread(u) \/ DropOld(u)
  PROVE  HRest'
<1>1. u \in Callers /\ IInv
  BY DEF Callers, HInv
<1>2. UNCHANGED <<row, outputs, fresh, jobs, worker, deleting, abandoned, feeder>>
  BY DEF Find, FindFails, Discard, Reserve, Retry, Reread, DropOld, disk, queue
<1>3. feeder' # None => feeder'.todo \subseteq Rows
  BY <1>2 DEF HInv, HRest, KnownOK
<1>4. CASE Find(u)
  <2>1. UNCHANGED <<sources, reserved>> /\ call[u].pc \in {"find", "findAgain"} /\ ~Holder(u)
    BY <1>4 DEF Find, disk, Holder, Holds
  <2>2. CASE Active(call[u].hash) # {}
    <3>1. PICK id \in Active(call[u].hash) :
            call' = [call EXCEPT ![u] = [pc |-> "retry", file |-> @.file, id |-> id, status |-> row[id].status]]
      BY <1>4, <2>2 DEF Find
    <3> DEFINE r == [pc |-> "retry", file |-> call[u].file, id |-> id, status |-> row[id].status]
    <3>2. id \in Ids /\ row[id] # None
      BY DEF Active, Live
    <3>3. row[id].status \in Statuses /\ call[u].file \in Ids
      BY <1>1, <2>1, <3>2, RowFields, CallFields, TypeFacts DEF Carries, Coming
    <3>4. r \in Call /\ r.pc = "retry" /\ r.file = call[u].file
      BY <3>2, <3>3 DEF Call
    <3>5. call' = [call EXCEPT ![u] = r]
      BY <3>1
    <3> HIDE DEF r
    <3>6. r.pc \notin Holds /\ call[u].pc \in Coming /\ call[u].pc \in Carries
      BY <2>1, <3>4 DEF Holds, Coming, Carries
    <3> QED
      BY <1>1, <1>2, <1>3, <2>1, <3>4, <3>5, <3>6, CallStep
  <2>3. CASE Active(call[u].hash) = {}
    <3>1. PICK p \in {"insert", "discard"} : Goto(u, p)
      BY <1>4, <2>3 DEF Find
    <3> QED
      BY <1>1, <1>2, <2>1, <3>1, GoesRest DEF New
  <2> QED
    BY <2>2, <2>3
<1>5. CASE FindFails(u)
  BY <1>1, <1>2, <1>5, GoesRest DEF FindFails, New, disk
<1>6. CASE Discard(u)
  <2>1. call[u].pc = "discard" /\ ~Holder(u) /\ sources' = sources \ {call[u].file} /\ Done(u) /\ UNCHANGED reserved
    BY <1>6 DEF Discard, Holder, Holds
  <2> QED
    BY <1>1, <1>2, <2>1, EndsRest
<1>7. CASE Reserve(u)
  <2>1. call[u].pc = "reserve" /\ ~Holder(u) /\ UNCHANGED sources
    BY <1>7 DEF Reserve, Holder, Holds, disk
  <2>2. CASE call[u].id \in reserved
    BY <1>1, <1>2, <1>7, <2>1, <2>2, EndsRest DEF Reserve
  <2>3. CASE call[u].id \notin reserved
    BY <1>1, <1>2, <1>7, <2>1, <2>3, GoesRest DEF Reserve
  <2> QED
    BY <2>2, <2>3
<1>8. CASE Retry(u)
  BY <1>1, <1>2, <1>8, GoesRest DEF Retry, disk
<1>9. CASE Reread(u)
  <2>1. UNCHANGED sources /\ call[u].pc = "reread"
    BY <1>9 DEF Reread, disk
  <2>2. CASE GiveUp(u)
    BY <1>1, <1>2, <2>1, <2>2, GoesRest DEF GiveUp
  <2>3. CASE ~GiveUp(u)
    <3> DEFINE id == call[u].id
               r == [pc |-> "swap", file |-> call[u].file, id |-> id, old |-> row[id].source]
    <3>1. id \in Rows /\ call[u].file \in Ids
      BY <1>1, <2>1, CallFields DEF Carries, Coming
    <3>2. row[id].source \in Ids \cup {None} /\ id \in Ids
      BY <1>1, <3>1, RowFields, TypeFacts DEF Rows
    <3>3. r \in Call /\ r.pc = "swap" /\ r.file = call[u].file /\ r.id = call[u].id /\ r.id \in Rows /\ r.old = row[r.id].source
      BY <3>1, <3>2 DEF Call
    <3>4. call' = [call EXCEPT ![u] = r] /\ UNCHANGED reserved
      BY <1>9, <2>3 DEF Reread
    <3> HIDE DEF r, id
    <3>5. Holder(u) /\ r.pc \in Holds /\ call[u].pc \in Carries /\ call[u].pc \in Coming
      BY <2>1, <3>3 DEF Holds, Coming, Carries, Holder
    <3> QED
      BY <1>1, <1>2, <1>3, <2>1, <3>3, <3>4, <3>5, CallStep
  <2> QED
    BY <2>2, <2>3
<1>10. CASE DropOld(u)
  <2> DEFINE r == [pc |-> "submit", id |-> call[u].id]
  <2>1. call[u].pc = "dropOld" /\ sources' = sources \ {call[u].old} /\ UNCHANGED reserved
    BY <1>10 DEF DropOld
  <2>2. call[u].id \in Ids
    BY <1>1, <2>1, CallFields DEF Holds
  <2>3. r \in Call /\ r.pc = "submit" /\ r.id = call[u].id
    BY <2>2 DEF Call
  <2>4. call' = [call EXCEPT ![u] = r]
    BY <1>10 DEF DropOld
  <2> HIDE DEF r
  <2>5. Holder(u) /\ r.pc \in Holds /\ r.pc \notin Carries /\ r.pc \notin Coming
    BY <2>1, <2>3 DEF Holds, Coming, Carries, Holder
  <2> QED
    BY <1>1, <1>2, <1>3, <2>1, <2>3, <2>4, <2>5, CallStep
<1> QED
  BY <1>4, <1>5, <1>6, <1>7, <1>8, <1>9, <1>10

LEMMA QuietSubmits ==
  ASSUME HInv, NEW c \in Callers, Inspect(c) \/ (Offer(c) /\ UNCHANGED jobs) \/ Release(c)
  PROVE  HRest'
<1>1. UNCHANGED <<row, sources, outputs, fresh, jobs, worker, deleting, abandoned, feeder>> /\ IInv
  BY DEF Inspect, Offer, Release, disk, queue, HInv
<1>2. feeder' # None => feeder'.todo \subseteq Rows
  BY <1>1 DEF HInv, HRest, KnownOK
<1>3. CASE Inspect(c)
  <2>1. UNCHANGED reserved /\ call[c].pc = "submit"
    BY <1>3 DEF Inspect
  <2>2. CASE Goto(c, "release")
    BY <1>1, <2>1, <2>2, GoesRest
  <2>3. CASE row[call[c].id].status # "COMPLETED" /\ Goto(c, "fail")
    BY <1>1, <2>1, <2>3, GoesRest
  <2>4. CASE /\ row[call[c].id].source \in sources /\ row[call[c].id].status # "COMPLETED"
             /\ call' = [call EXCEPT ![c] = [pc |-> "offer", id |-> call[c].id, input |-> row[call[c].id].source]]
    <3> DEFINE r == [pc |-> "offer", id |-> call[c].id, input |-> row[call[c].id].source]
    <3>1. call[c].id \in Ids /\ sources \subseteq Ids
      BY <1>1, <2>1, CallFields, TypeFacts DEF Holds
    <3>2. r \in Call /\ r.pc = "offer" /\ r.id = call[c].id /\ r.input = row[r.id].source
      BY <2>4, <3>1 DEF Call
    <3>3. call' = [call EXCEPT ![c] = r] /\ row[r.id].status # "COMPLETED"
      BY <2>4
    <3> HIDE DEF r
    <3>4. Holder(c) /\ r.pc \in Holds /\ r.pc \notin Carries /\ r.pc \notin Coming
      BY <2>1, <3>2 DEF Holds, Coming, Carries, Holder
    <3>5. call[c].id \in Rows
      BY <3>4 DEF HInv, HRest, OwnOK, KnownOK
    <3> QED
      BY <1>1, <1>2, <2>1, <3>2, <3>3, <3>4, <3>5, CallStep
  <2> QED
    BY <1>3, <2>2, <2>3, <2>4 DEF Inspect
<1>4. CASE Offer(c) /\ UNCHANGED jobs
  <2>1. UNCHANGED reserved /\ call[c].pc = "offer" /\ row[call[c].id].status # "COMPLETED"
    BY <1>4 DEF Offer, HInv, HRest, TasksOK, Tasked
  <2>2. jobs' # Append(jobs, [id |-> call[c].id, input |-> call[c].input])
    BY <1>4 DEF HInv, HRest, WorkOK
  <2>3. PICK p \in {"release", "fail"} : Goto(c, p)
    BY <1>4, <2>2 DEF Offer
  <2> QED
    BY <1>1, <2>1, <2>3, GoesRest
<1>5. CASE Release(c)
  <2>1. Holder(c) /\ Done(c) /\ reserved' = reserved \ {call[c].id}
    BY <1>5 DEF Release, Holder, Holds
  <2> QED
    BY <1>1, <2>1, EndsRest
<1> QED
  BY <1>3, <1>4, <1>5

LEMMA StillRest ==
  ASSUME HInv, UNCHANGED <<disk, fresh, reserved, jobs, worker, call, deleting, abandoned>>,
         feeder' # None => feeder'.todo \subseteq Rows
  PROVE  HRest'
<1>1. UNCHANGED <<row, sources, outputs>>
  BY DEF disk
<1>2. WorkOK' /\ OwnOK'
  BY <1>1 DEF HInv, HRest, WorkOK, OwnOK, Holder, Occupied
<1>3. KnownOK'
  BY <1>1 DEF HInv, HRest, KnownOK, Rows
<1>4. \A f : Named(f)' <=> Named(f)
  BY <1>1 DEF Named, Rows, Occupied
<1>5. ComingOK'
  BY <1>1, <1>4 DEF HInv, HRest, ComingOK
<1>6. TasksOK' /\ DoomedOK' /\ MaterialIsKept'
  BY <1>1 DEF HInv, HRest, TasksOK, Tasked, DoomedOK, MaterialIsKept, Live, Rows
<1> QED
  BY <1>2, <1>3, <1>5, <1>6 DEF HRest

LEMMA FeederRest ==
  ASSUME HInv, NextPage \/ Recover
  PROVE  HRest'
<1>1. UNCHANGED <<disk, fresh, jobs, worker, deleting, abandoned>> /\ IInv
  BY DEF NextPage, Recover, queue, HInv
<1>2. CASE NextPage
  <2>1. feeder \in Page /\ UNCHANGED <<call, reserved>>
    BY <1>1, <1>2, TypeFacts DEF NextPage
  <2> DEFINE page == {id \in Live : row[id].status \in {"PENDING", "PROCESSING"} /\ id > feeder.after}
  <2>2. page \subseteq Rows
    BY DEF Live, Rows
  <2>3. feeder' = None \/ feeder' = [feeder EXCEPT !.todo = page]
    BY <1>2 DEF NextPage
  <2> HIDE DEF page
  <2>4. feeder' # None => feeder'.todo \subseteq Rows
    BY <2>1, <2>2, <2>3 DEF Page
  <2> QED
    BY <1>1, <2>1, <2>4, StillRest
<1>3. CASE Recover
  <2>1. feeder # None /\ feeder.todo \subseteq Rows /\ call[Feeder] = Idle
    BY <1>3 DEF Recover, HInv, HRest, KnownOK
  <2>2. PICK id \in feeder.todo :
          /\ feeder' = [todo |-> feeder.todo \ {id}, after |-> id]
          /\ IF id \in reserved THEN UNCHANGED <<call, reserved>>
             ELSE /\ reserved' = reserved \cup {id}
                  /\ call' = [call EXCEPT ![Feeder] = [pc |-> "submit", id |-> id]]
    BY <1>3 DEF Recover
  <2>3. feeder' # None => feeder'.todo \subseteq Rows
    BY <2>1, <2>2
  <2>4. CASE id \in reserved
    BY <1>1, <2>2, <2>3, <2>4, StillRest
  <2>5. CASE id \notin reserved
    <3> DEFINE r == [pc |-> "submit", id |-> id]
    <3>1. id \in Rows /\ id \in Ids
      BY <2>1, <2>2 DEF Rows
    <3>2. r \in Call /\ r.pc = "submit" /\ r.id = id /\ Feeder \in Callers
      BY <3>1 DEF Call, Callers
    <3>3. call' = [call EXCEPT ![Feeder] = r] /\ reserved' = reserved \cup {r.id}
      BY <2>2, <2>5
    <3> HIDE DEF r
    <3>4. ~Holder(Feeder) /\ r.pc \in Holds /\ r.pc \notin Carries /\ r.pc \notin Coming
      BY <2>1, <3>2 DEF Holds, Holder, Idle, Carries, Coming
    <3>5. UNCHANGED <<row, sources, outputs>>
      BY <1>1 DEF disk
    <3> QED
      BY <1>1, <2>3, <2>5, <3>1, <3>2, <3>3, <3>4, <3>5, CallStep
  <2> QED
    BY <2>4, <2>5
<1> QED
  BY <1>2, <1>3

-----------------------------------------------------------------------------
(* Uploads and the rows they write.                                        *)

LEMMA UploadRest ==
  ASSUME HInv, NEW u \in Uploaders, NEW h \in Contents, Upload(u, h)
  PROVE  HRest'
<1>1. PICK id \in fresh :
        /\ fresh' = fresh \ {id}
        /\ sources' = sources \cup {id}
        /\ call' = [call EXCEPT ![u] = [pc |-> "find", file |-> id, hash |-> h]]
  BY DEF Upload
<1>2. UNCHANGED <<row, outputs, reserved, jobs, worker, deleting, feeder, abandoned>> /\ u \in Callers
      /\ call[u] = Idle /\ IInv
  BY DEF Upload, queue, Callers, HInv
<1> DEFINE r == [pc |-> "find", file |-> id, hash |-> h]
<1>3. id \in Ids /\ ~Named(id) /\ fresh \subseteq Ids
  BY <1>2 DEF IInv, StateOK, HInv, HRest, ComingOK
<1>4. r \in Call /\ r.pc = "find" /\ r.file = id
  BY <1>3 DEF Call, New
<1>5. call' = [call EXCEPT ![u] = r]
  BY <1>1
<1> HIDE DEF r
<1>6. call'[u] = r /\ \A b \in Callers : b # u => call'[b] = call[b]
  BY <1>2, <1>5 DEF IInv, StateOK
<1>7. ~Holder(u) /\ r.pc \notin Holds
  BY <1>2, <1>4 DEF Holds, Holder, Idle
<1>8. OwnOK'
  BY <1>2, <1>4, <1>5, <1>7, OwnCall DEF HInv, HRest
<1>9. WorkOK'
  BY <1>2 DEF HInv, HRest, WorkOK
<1>10. KnownOK'
  BY <1>2, <1>4, <1>6 DEF HInv, HRest, KnownOK, Rows
<1>11. \A f : Named(f)' => Named(f)
  BY <1>2, <1>4, <1>6 DEF Named, Rows, Occupied
<1>12. ComingOK'
  <2>1. \A f \in fresh' : ~Named(f)'
    BY <1>1, <1>11 DEF HInv, HRest, ComingOK
  <2>2. \A b \in Callers : call'[b].pc \in Carries => call'[b].file \notin fresh'
    BY <1>1, <1>4, <1>6 DEF HInv, HRest, ComingOK
  <2>3. \A b, v \in Callers :
          call'[b].pc \in Carries /\ call'[v].pc \in Carries /\ b # v => call'[b].file # call'[v].file
    BY <1>1, <1>4, <1>6 DEF HInv, HRest, ComingOK
  <2>4. \A b \in Callers, f \in Ids :
          call'[b].pc \in Coming /\ call'[b].file = f => ~Named(f)' /\ f \in sources'
    BY <1>1, <1>3, <1>4, <1>6, <1>11 DEF HInv, HRest, ComingOK
  <2> QED
    BY <2>1, <2>2, <2>3, <2>4 DEF ComingOK
<1>13. TasksOK'
  BY <1>2, <1>4, <1>6 DEF HInv, HRest, TasksOK, Tasked, Live
<1>14. DoomedOK'
  BY <1>2, <1>4, <1>6 DEF HInv, HRest, DoomedOK, Rows
<1>15. MaterialIsKept'
  BY <1>1, <1>2 DEF HInv, HRest, MaterialIsKept, Live
<1> QED
  BY <1>8, <1>9, <1>10, <1>12, <1>13, <1>14, <1>15 DEF HRest

LEMMA InsertRest ==
  ASSUME HInv, NEW u \in Uploaders, call[u].pc = "insert",
         row' = [row EXCEPT ![call[u].file] = Pending(u)],
         \/ call' = [call EXCEPT ![u] = [pc |-> "reserve", id |-> call[u].file]] /\ UNCHANGED abandoned
         \/ Goto(u, "discard") /\ abandoned' = abandoned \cup {call[u].file},
         UNCHANGED <<sources, outputs, fresh, reserved, jobs, worker, deleting, feeder>>
  PROVE  HRest'
<1> DEFINE id == call[u].file
<1>1. u \in Callers /\ IInv /\ RowsOK
  BY TypeFacts DEF Callers, HInv
<1>2. id \in Ids /\ row[id] = None /\ ~Named(id) /\ id \in sources /\ ~Holder(u)
  BY <1>1, CallFields DEF IInv, CallsOK, New, HInv, HRest, ComingOK, Carries, Coming, Holds, Holder
<1>3. PICK r \in Call :
        /\ call' = [call EXCEPT ![u] = r]
        /\ \/ r.pc = "reserve" /\ r.id = id /\ UNCHANGED abandoned
           \/ r.pc = "discard" /\ r.file = id /\ abandoned' = abandoned \cup {id}
  <2>1. CASE call' = [call EXCEPT ![u] = [pc |-> "reserve", id |-> call[u].file]] /\ UNCHANGED abandoned
    <3> DEFINE r == [pc |-> "reserve", id |-> call[u].file]
    <3>1. r \in Call /\ r.pc = "reserve" /\ r.id = call[u].file
      BY <1>2 DEF Call
    <3>2. call' = [call EXCEPT ![u] = r]
      BY <2>1
    <3> HIDE DEF r
    <3> QED
      BY <2>1, <3>1, <3>2
  <2>2. CASE Goto(u, "discard") /\ abandoned' = abandoned \cup {call[u].file}
    BY <1>1, <2>2, GoesTo DEF New, Carries, Coming
  <2> QED
    BY <2>1, <2>2
<1>4. call'[u] = r /\ \A b \in Callers : b # u => call'[b] = call[b]
  BY <1>1, <1>3 DEF IInv, StateOK
<1>5. Pending(u) \in Row /\ Pending(u).source = id /\ Pending(u).status = "PENDING"
  BY <1>1, <1>2, Shapes DEF Pending, Row, Ids, New
<1> HIDE DEF id
<1>6. row'[id] = Pending(u) /\ \A i \in Ids : i # id => row'[i] = row[i]
  BY <1>1, <1>2 DEF RowsOK, id
<1>7. Rows' = Rows \cup {id} /\ id \notin Rows
  BY <1>2, <1>5, <1>6, LibraryAssumption DEF Rows
<1>8. r.pc \notin Holds /\ r.pc \notin Coming
  BY <1>3 DEF Holds, Coming
<1>9. OwnOK'
  BY <1>1, <1>2, <1>3, <1>8, OwnCall DEF HInv, HRest
<1>10. WorkOK'
  BY <1>2, <1>3 DEF HInv, HRest, WorkOK
<1>11. KnownOK'
  <2>1. reserved' \subseteq Rows' /\ (feeder' # None => feeder'.todo \subseteq Rows')
    BY <1>7 DEF HInv, HRest, KnownOK
  <2>2. \A c \in Callers : call'[c].pc = "reserve" => call'[c].id \in Rows'
    BY <1>3, <1>4, <1>7 DEF HInv, HRest, KnownOK
  <2>3. \A d \in Deleters : deleting'[d].pc # "idle" => deleting'[d].id \in Rows'
    BY <1>7 DEF HInv, HRest, KnownOK
  <2> QED
    BY <2>1, <2>2, <2>3 DEF KnownOK
<1>12. ComingOK'
  <2> DEFINE G == {id}
  <2>1. \A b \in Callers : call'[b].pc \in Carries => call[b].pc \in Carries /\ call'[b].file = call[b].file
    BY <1>3, <1>4 DEF Carries, Coming, id
  <2>2. \A b \in Callers : call'[b].pc \in Coming => call[b].pc \in Coming
    BY <1>4, <1>8
  <2>3. \A f \in Ids : Named(f)' => Named(f) \/ f \in G
    <3>1. \A i \in Rows' : row'[i].source = id \/ (i \in Rows /\ row'[i] = row[i])
      BY <1>5, <1>6, <1>7 DEF Rows
    <3>2. \A b \in Callers : call'[b].pc \in {"swap", "dropOld", "offer"} => b # u /\ call'[b] = call[b]
      BY <1>3, <1>4
    <3> QED
      BY <3>1, <3>2 DEF Named, Occupied
  <2>4. \A f \in sources : f \in sources' \/ Named(f) \/ f \in G
    OBVIOUS
  <2>5. \A f \in G : \E v \in Callers : call[v].pc \in Carries /\ call[v].file = f /\ call'[v].pc \notin Coming
    BY <1>1, <1>4, <1>8 DEF Carries, Coming, id
  <2> HIDE DEF G
  <2> QED
    BY <1>1, <2>1, <2>2, <2>3, <2>4, <2>5, ComingStep DEF HInv, HRest
<1>13. \A i \in reserved : i # id /\ row'[i] = row[i] /\ i \in Ids
  BY <1>6, <1>7 DEF HInv, HRest, KnownOK, Rows
<1>14. \A i \in reserved : i \in Live' <=> i \in Live
  BY <1>13 DEF Live
<1>15. TasksOK'
  <2>1. \A c \in Callers : call'[c].pc \in {"offer", "fail", "swap"} =>
          call'[c] = call[c] /\ call[c].id \in reserved
    BY <1>3, <1>4 DEF HInv, HRest, OwnOK, Holder, Holds
  <2>2. \A i \in DOMAIN jobs : jobs[i].id \in reserved
    BY DEF HInv, HRest, OwnOK
  <2>3. \A w \in Workers : worker[w].pc # "idle" => worker[w].id \in reserved
    BY DEF HInv, HRest, OwnOK, Occupied
  <2> QED
    BY <1>13, <1>14, <2>1, <2>2, <2>3 DEF HInv, HRest, TasksOK, Tasked
<1>16. \A i \in Rows : row'[i] = row[i] /\ i # id /\ i \in Ids /\ row[i].source # id
  BY <1>2, <1>6, <1>7 DEF Named, Rows
<1>17. DoomedOK'
  <2>1. \A i, j \in Rows' : row'[i].source # None /\ row'[i].source = row'[j].source => i = j
    BY <1>5, <1>6, <1>7, <1>16 DEF HInv, HRest, DoomedOK
  <2>2. \A c \in Callers, i \in Rows' :
          call'[c].pc = "discard" /\ row'[i].source = call'[c].file => call'[c].file \in abandoned'
    <3> SUFFICES ASSUME NEW c \in Callers, NEW i \in Rows', call'[c].pc = "discard",
                        row'[i].source = call'[c].file
                 PROVE  call'[c].file \in abandoned'
      OBVIOUS
    <3>1. CASE c = u
      BY <1>3, <1>4, <3>1
    <3>2. CASE c # u /\ i = id
      BY <1>4, <1>5, <1>6, <3>2 DEF HInv, HRest, ComingOK, Carries, Coming, id, Callers
    <3>3. CASE c # u /\ i # id
      BY <1>3, <1>4, <1>7, <1>16, <3>3 DEF HInv, HRest, DoomedOK
    <3> QED
      BY <3>1, <3>2, <3>3
  <2>3. \A c \in Callers : call'[c].pc = "dropOld" => call'[c] = call[c] /\ call'[c].old # None /\ call[c].old # id
    <3> SUFFICES ASSUME NEW c \in Callers, call'[c].pc = "dropOld"
                 PROVE  call'[c] = call[c] /\ call'[c].old # None /\ call[c].old # id
      OBVIOUS
    <3>1. call'[c] = call[c]
      BY <1>3, <1>4
    <3> QED
      BY <1>2, <3>1 DEF HInv, HRest, DoomedOK, Named
  <2>4. \A c \in Callers, i \in Rows' : call'[c].pc = "dropOld" => row'[i].source # call'[c].old
    BY <1>5, <1>6, <1>7, <1>16, <2>3 DEF HInv, HRest, DoomedOK
  <2>5. \A w \in Workers : worker[w].pc = "dropSource" => worker[w].input # id
    BY <1>2 DEF Named, Occupied
  <2>6. \A w \in Workers, i \in Rows' : worker'[w].pc = "dropSource" => row'[i].source # worker'[w].input
    BY <1>5, <1>6, <1>7, <1>16, <2>5 DEF HInv, HRest, DoomedOK
  <2>7. \A d \in Deleters : deleting[d].pc # "idle" => deleting[d].source # id /\ deleting[d].id \in Rows
    BY <1>2 DEF Named, HInv, HRest, KnownOK
  <2>8. \A d \in Deleters, i \in Rows' :
          deleting'[d].pc # "idle" /\ row'[i].source = deleting'[d].source /\ row'[i].source # None
             => i = deleting'[d].id
    BY <1>5, <1>6, <1>7, <1>16, <2>7 DEF HInv, HRest, DoomedOK
  <2>9. \A d \in Deleters : deleting'[d].pc = "files" => row'[deleting'[d].id].status = "DELETED"
    BY <1>16, <2>7 DEF HInv, HRest, DoomedOK
  <2> QED
    BY <2>1, <2>2, <2>3, <2>4, <2>6, <2>8, <2>9 DEF DoomedOK
<1>18. MaterialIsKept'
  <2>1. \A i \in Live' : i = id \/ (i \in Live /\ row'[i] = row[i])
    BY <1>6 DEF Live
  <2> QED
    BY <1>2, <1>3, <1>5, <1>6, <2>1 DEF HInv, HRest, MaterialIsKept
<1> QED
  BY <1>9, <1>10, <1>11, <1>12, <1>15, <1>17, <1>18 DEF HRest

LEMMA SourceOfLive ==
  ASSUME HInv, NEW i \in Live, row[i].status # "COMPLETED"
  PROVE  row[i].source # None
BY LibraryAssumption DEF HInv, HRest, MaterialIsKept, WorkOK, IInv, StateOK, Ids

\* RetryTranscode: the track's holder gives it the new source.
LEMMA SwapRest ==
  ASSUME HInv, NEW u \in Uploaders, Swap(u)
  PROVE  HRest'
<1>1. u \in Callers /\ IInv /\ RowsOK /\ call[u].pc = "swap"
      /\ UNCHANGED <<sources, outputs, fresh, jobs, worker, deleting, feeder, abandoned>>
  BY TypeFacts DEF Callers, HInv, Swap, queue
<1>2. CASE GiveUp(u) /\ UNCHANGED row
  BY <1>1, <1>2, GoesRest DEF GiveUp
<1>3. CASE ~(GiveUp(u) /\ UNCHANGED row)
  <2> DEFINE k == call[u].id
             new == call[u].file
  <2>1. /\ row[k].status \in {"PENDING", "PROCESSING", "FAILED"}
        /\ row' = [row EXCEPT ![k].status = "PENDING", ![k].source = new]
        /\ Goto(u, "dropOld") /\ UNCHANGED reserved
    BY <1>1, <1>3 DEF Swap
  <2>2. k \in Rows /\ k \in Ids /\ new \in Ids /\ ~Named(new) /\ new \in sources
    BY <1>1, CallFields DEF Rows, HInv, HRest, ComingOK, Carries, Coming
  <2>3. k \in Live /\ row[k].source # None /\ call[u].old = row[k].source
    BY <1>1, <2>1, <2>2, SourceOfLive DEF Live, Rows, HInv, HRest, TasksOK
  <2>4. PICK r \in Call :
          call' = [call EXCEPT ![u] = r] /\ r.pc = "dropOld" /\ r.file = new /\ r.id = k /\ r.old = call[u].old
    BY <1>1, <2>1, GoesTo DEF Carries, Coming, Holds
  <2>5. call'[u] = r /\ \A b \in Callers : b # u => call'[b] = call[b]
    BY <1>1, <2>4 DEF IInv, StateOK
  <2> HIDE DEF k, new
  <2>6. \A i \in Ids : i # k => row'[i] = row[i]
    BY <1>1, <2>1 DEF RowsOK
  <2>7. row'[k] = [status |-> "PENDING", hash |-> row[k].hash, source |-> new] /\ row'[k] \in Row
    <3>1. row[k] \in Row
      BY <1>1, <2>2 DEF RowsOK, Rows
    <3>2. row'[k] = [[row[k] EXCEPT !.status = "PENDING"] EXCEPT !.source = new]
      BY <1>1, <2>1, <2>2 DEF RowsOK
    <3>3. [row[k] EXCEPT !.status = "PENDING"] = [status |-> "PENDING", hash |-> row[k].hash, source |-> row[k].source]
      BY <3>1, FieldsOf
    <3>4. row'[k] = [status |-> "PENDING", hash |-> row[k].hash, source |-> new]
      BY <3>2, <3>3
    <3> QED
      BY <2>2, <3>1, <3>4 DEF Row, Ids
  <2>8. Rows' = Rows
    BY <2>2, <2>6, <2>7, LibraryAssumption DEF Rows
  <2>9. Holder(u) /\ r.pc \in Holds /\ r.pc \notin Coming /\ call[u].pc \in Carries
    BY <1>1, <2>4 DEF Holds, Coming, Carries, Holder
  <2>10. OwnOK'
    BY <1>1, <2>1, <2>4, <2>9, OwnCall DEF HInv, HRest, k
  <2>11. WorkOK'
    BY <1>1, <2>1 DEF HInv, HRest, WorkOK
  <2>12. KnownOK'
    BY <1>1, <2>1, <2>4, <2>5, <2>8 DEF HInv, HRest, KnownOK
  <2>13. \A i \in Rows : i \in Ids /\ row[i].source # new /\ (i = k \/ row'[i] = row[i])
    BY <2>2, <2>6 DEF Named, Rows
  <2>14. ComingOK'
    <3> DEFINE G == {new}
    <3>1. \A b \in Callers : call'[b].pc \in Carries => call[b].pc \in Carries /\ call'[b].file = call[b].file
      BY <2>4, <2>5, <2>9 DEF new
    <3>2. \A b \in Callers : call'[b].pc \in Coming => call[b].pc \in Coming
      BY <2>5, <2>9
    <3>3. \A f \in Ids : Named(f)' => Named(f) \/ f \in G
      <4>1. \A i \in Rows' : row'[i].source = new \/ (i \in Rows /\ row'[i].source = row[i].source)
        BY <2>7, <2>8, <2>13
      <4>2. \A b \in Callers : call'[b].pc \in {"swap", "dropOld"} =>
              call[b].pc \in {"swap", "dropOld"} /\ call'[b].old = call[b].old
        BY <1>1, <2>4, <2>5
      <4>3. \A b \in Callers : call'[b].pc = "offer" => call'[b] = call[b]
        BY <2>4, <2>5
      <4> QED
        BY <1>1, <4>1, <4>2, <4>3 DEF Named, Occupied
    <3>4. \A f \in sources : f \in sources' \/ Named(f) \/ f \in G
      BY <1>1
    <3>5. \A f \in G : \E v \in Callers : call[v].pc \in Carries /\ call[v].file = f /\ call'[v].pc \notin Coming
      BY <1>1, <2>5, <2>9 DEF new
    <3> HIDE DEF G
    <3> QED
      BY <1>1, <3>1, <3>2, <3>3, <3>4, <3>5, ComingStep DEF HInv, HRest
  <2>15. TasksOK'
    <3>1. \A c \in Callers : call'[c].pc \in {"offer", "fail", "swap"} =>
            call'[c] = call[c] /\ call[c].id \in Ids /\ call[c].id # k
      <4> SUFFICES ASSUME NEW c \in Callers, call'[c].pc \in {"offer", "fail", "swap"}
                   PROVE  call'[c] = call[c] /\ call[c].id \in Ids /\ call[c].id # k
        OBVIOUS
      <4>1. c # u /\ call'[c] = call[c]
        BY <2>4, <2>5
      <4> QED
        BY <1>1, <2>9, <4>1, CallFields DEF HInv, HRest, OwnOK, Holder, Holds, k
    <3>2. \A i \in DOMAIN jobs : jobs[i].id \in Ids /\ jobs[i].id # k
      BY <1>1, <2>9 DEF HInv, HRest, OwnOK, WorkOK, k
    <3>3. \A w \in Workers : worker[w].pc # "idle" => worker[w].id \in Ids /\ worker[w].id # k
      BY <1>1, <2>9 DEF HInv, HRest, OwnOK, WorkOK, Occupied, k
    <3>4. \A i \in Ids : i # k => (i \in Live' <=> i \in Live)
      BY <2>6 DEF Live
    <3> QED
      BY <1>1, <2>6, <3>1, <3>2, <3>3, <3>4 DEF HInv, HRest, TasksOK, Tasked
  <2>16. DoomedOK'
    <3>0. row'[k].source = new
      BY <2>7
    <3>1. \A i, j \in Rows' : row'[i].source # None /\ row'[i].source = row'[j].source => i = j
      BY <2>8, <2>13, <3>0 DEF HInv, HRest, DoomedOK
    <3>2. \A c \in Callers, i \in Rows' :
            call'[c].pc = "discard" /\ row'[i].source = call'[c].file => call'[c].file \in abandoned'
      <4> SUFFICES ASSUME NEW c \in Callers, NEW i \in Rows', call'[c].pc = "discard",
                          row'[i].source = call'[c].file
                   PROVE  call'[c].file \in abandoned'
        OBVIOUS
      <4>1. c # u /\ call'[c] = call[c]
        BY <2>4, <2>5
      <4>2. call[c].file # new
        BY <1>1, <2>9, <4>1 DEF HInv, HRest, ComingOK, Carries, Coming, new
      <4> QED
        BY <1>1, <2>8, <2>13, <3>0, <4>1, <4>2 DEF HInv, HRest, DoomedOK
    <3>3. \A c \in Callers : call'[c].pc = "dropOld" => call'[c].old # None /\ call'[c].old # new
      <4> SUFFICES ASSUME NEW c \in Callers, call'[c].pc = "dropOld"
                   PROVE  call'[c].old # None /\ call'[c].old # new
        OBVIOUS
      <4>1. CASE c = u
        BY <2>2, <2>3, <2>4, <2>5, <2>13, <4>1
      <4>2. CASE c # u
        BY <2>2, <2>5, <4>2 DEF HInv, HRest, DoomedOK, Named
      <4> QED
        BY <4>1, <4>2
    <3>4. \A c \in Callers, i \in Rows' : call'[c].pc = "dropOld" => row'[i].source # call'[c].old
      <4> SUFFICES ASSUME NEW c \in Callers, NEW i \in Rows', call'[c].pc = "dropOld"
                   PROVE  row'[i].source # call'[c].old
        OBVIOUS
      <4>1. CASE i = k
        BY <3>0, <3>3, <4>1
      <4>2. CASE i # k /\ c = u
        BY <2>2, <2>3, <2>4, <2>5, <2>8, <2>13, <4>2 DEF HInv, HRest, DoomedOK
      <4>3. CASE i # k /\ c # u
        BY <2>5, <2>8, <2>13, <4>3 DEF HInv, HRest, DoomedOK
      <4> QED
        BY <4>1, <4>2, <4>3
    <3>5. \A w \in Workers, i \in Rows' : worker'[w].pc = "dropSource" => row'[i].source # worker'[w].input
      BY <1>1, <2>2, <2>8, <2>13, <3>0 DEF HInv, HRest, DoomedOK, Named, Occupied
    <3>6. \A d \in Deleters, i \in Rows' :
            deleting'[d].pc # "idle" /\ row'[i].source = deleting'[d].source /\ row'[i].source # None
               => i = deleting'[d].id
      BY <1>1, <2>2, <2>8, <2>13, <3>0 DEF HInv, HRest, DoomedOK, Named
    <3>7. \A d \in Deleters : deleting'[d].pc = "files" => row'[deleting'[d].id].status = "DELETED"
      <4> SUFFICES ASSUME NEW d \in Deleters, deleting'[d].pc = "files"
                   PROVE  row'[deleting'[d].id].status = "DELETED"
        OBVIOUS
      <4>1. deleting[d].id \in Rows /\ row[deleting[d].id].status = "DELETED"
        BY <1>1 DEF HInv, HRest, KnownOK, DoomedOK
      <4>2. deleting[d].id # k
        BY <2>1, <4>1 DEF k
      <4> QED
        BY <1>1, <2>13, <4>1, <4>2
    <3> QED
      BY <3>1, <3>2, <3>3, <3>4, <3>5, <3>6, <3>7 DEF DoomedOK
  <2>17. MaterialIsKept'
    <3>1. \A i \in Live' : i = k \/ (i \in Live /\ row'[i] = row[i])
      BY <2>6 DEF Live
    <3> QED
      BY <1>1, <2>2, <2>7, <3>1 DEF HInv, HRest, MaterialIsKept
  <2> QED
    BY <2>10, <2>11, <2>12, <2>14, <2>15, <2>16, <2>17 DEF HRest
<1> QED
  BY <1>2, <1>3

-----------------------------------------------------------------------------
(* The queue.                                                              *)

LEMMA OfferRest ==
  ASSUME HInv, NEW c \in Callers, Offer(c), ~UNCHANGED jobs
  PROVE  HRest'
<1> DEFINE job == [id |-> call[c].id, input |-> call[c].input]
<1>1. /\ call[c].pc = "offer" /\ jobs' = Append(jobs, job) /\ call' = [call EXCEPT ![c] = Idle]
      /\ UNCHANGED <<row, sources, outputs, fresh, reserved, worker, deleting, feeder, abandoned>> /\ IInv
  BY DEF Offer, Done, disk, HInv
<1>2. job \in Job /\ job.id = call[c].id /\ job.input = call[c].input /\ Holder(c)
  BY <1>1, CallFields DEF Job, Holds, Holder
<1>3. Tasked(job.id, job.input) /\ Named(job.input) /\ job.input = call[c].input
  BY <1>1, <1>2 DEF HInv, HRest, TasksOK, Named
<1> HIDE DEF job
<1>4. call'[c] = Idle /\ Idle.pc = "idle" /\ \A b \in Callers : b # c => call'[b] = call[b]
  BY <1>1 DEF IInv, StateOK, Idle
<1>5. jobs \in Seq(Job) /\ jobs' \in Seq(Job)
      /\ \A i \in DOMAIN jobs' : jobs'[i] = job \/ (i \in DOMAIN jobs /\ jobs'[i] = jobs[i])
  <2>1. jobs \in Seq(Job)
    BY DEF HInv, HRest, WorkOK
  <2> QED
    BY <1>1, <1>2, <2>1
<1>6. OwnOK'
  BY <1>1, <1>2, OwnQueue DEF HInv, HRest
<1>7. WorkOK'
  BY <1>1, <1>5 DEF HInv, HRest, WorkOK
<1>8. KnownOK'
  BY <1>1, <1>4 DEF HInv, HRest, KnownOK, Rows
<1>9. ComingOK'
  <2>1. \A b \in Callers : call'[b].pc \in Carries \cup {"swap", "dropOld", "offer"} =>
          call[b].pc \in Carries \cup {"swap", "dropOld", "offer"} /\ call'[b] = call[b]
    BY <1>4 DEF Carries, Coming
  <2>2. \A b \in Callers : call'[b].pc \in Coming => call[b].pc \in Coming
    BY <1>4 DEF Coming
  <2>3. \A f \in Ids : Named(f)' => Named(f)
    BY <1>1, <1>3, <1>5, <2>1 DEF Named, Occupied, Rows
  <2> QED
    BY <1>1, <2>1, <2>2, <2>3, NamesStay DEF HInv, HRest
<1>10. TasksOK'
  BY <1>1, <1>3, <1>4, <1>5 DEF HInv, HRest, TasksOK, Tasked, Live
<1>11. DoomedOK' /\ MaterialIsKept'
  BY <1>1, <1>4 DEF HInv, HRest, DoomedOK, Rows, MaterialIsKept, Live
<1> QED
  BY <1>6, <1>7, <1>8, <1>9, <1>10, <1>11 DEF HRest

LEMMA TakeRest ==
  ASSUME HInv, NEW w \in Workers, Take(w)
  PROVE  HRest'
<1> DEFINE r == [pc |-> "start", id |-> Head(jobs).id, input |-> Head(jobs).input]
<1>1. /\ worker[w] = Idle /\ jobs # <<>> /\ worker' = [worker EXCEPT ![w] = r] /\ jobs' = Tail(jobs)
      /\ UNCHANGED <<row, sources, outputs, fresh, reserved, call, deleting, feeder, abandoned>> /\ IInv
  BY DEF Take, disk, HInv
<1>2. jobs \in Seq(Job) /\ worker \in [Workers -> Worker]
  BY DEF HInv, HRest, WorkOK
<1>3. Head(jobs) \in Job /\ 1 \in DOMAIN jobs /\ Head(jobs) = jobs[1]
  BY <1>1, <1>2
<1>4. r \in Worker /\ r.pc = "start" /\ r.id = jobs[1].id /\ r.input = jobs[1].input /\ worker[w].pc = "idle"
  BY <1>1, <1>3 DEF Worker, Job, Busy, Idle
<1> HIDE DEF r
<1>5. worker'[w] = r /\ \A v \in Workers : v # w => worker'[v] = worker[v]
  BY <1>1, <1>2
<1>6. \A i \in DOMAIN jobs' : i + 1 \in DOMAIN jobs /\ jobs'[i] = jobs[i + 1]
  <2>1. /\ DOMAIN jobs = 1..Len(jobs) /\ Len(jobs) \in Nat /\ Len(jobs) # 0
        /\ DOMAIN jobs' = 1..(Len(jobs) - 1)
        /\ \A i \in 1..(Len(jobs) - 1) : jobs'[i] = jobs[i + 1]
    BY <1>1, <1>2
  <2> QED
    BY <2>1
<1>7. OwnOK'
  BY <1>1, <1>3, <1>4, OwnTake DEF HInv, HRest
<1>8. WorkOK'
  BY <1>1, <1>2, <1>4 DEF HInv, HRest, WorkOK
<1>9. KnownOK'
  BY <1>1 DEF HInv, HRest, KnownOK, Rows
<1>10. ComingOK'
  <2>1. \A f \in Ids : Named(f)' => Named(f)
    BY <1>1, <1>3, <1>4, <1>5, <1>6 DEF Named, Occupied, Rows
  <2> QED
    BY <1>1, <2>1, NamesStay DEF HInv, HRest
<1>11. TasksOK'
  BY <1>1, <1>3, <1>4, <1>5, <1>6 DEF HInv, HRest, TasksOK, Tasked, Live
<1>12. DoomedOK' /\ MaterialIsKept'
  BY <1>1, <1>4, <1>5 DEF HInv, HRest, DoomedOK, Rows, MaterialIsKept, Live
<1> QED
  BY <1>7, <1>8, <1>9, <1>10, <1>11, <1>12 DEF HRest

-----------------------------------------------------------------------------
(* The steps of a worker, and of a call that writes a status.              *)

\* A row's holder changes its status, or ends its source.
Settles(k) ==
  /\ \A i \in Ids : i # k => row'[i] = row[i]
  /\ row'[k] # None /\ row'[k].source \in {row[k].source, None}
  /\ row[k].status = "DELETED" => row'[k] = row[k]

LEMMA SettledDoom ==
  ASSUME HInv, NEW k \in Rows, Settles(k), UNCHANGED <<deleting, abandoned>>,
         \A c \in Callers : call'[c].pc \in {"discard", "dropOld"} => call'[c] = call[c],
         \A v \in Workers : worker'[v].pc = "dropSource" =>
           worker'[v] = worker[v] \/ \A i \in Rows : row'[i].source # worker'[v].input
  PROVE  Rows' = Rows /\ DoomedOK'
<1>1. Rows' = Rows /\ k \in Ids
  BY DEF Rows, Settles
<1>2. \A i \in Rows : row'[i].source \in {row[i].source, None} /\ (row[i].status = "DELETED" => row'[i] = row[i])
  BY DEF Rows, Settles
<1>3. \A i, j \in Rows' : row'[i].source # None /\ row'[i].source = row'[j].source => i = j
  BY <1>1, <1>2 DEF HInv, HRest, DoomedOK
<1>4. \A c \in Callers, i \in Rows' :
        call'[c].pc = "discard" /\ row'[i].source = call'[c].file => call'[c].file \in abandoned'
  <2> SUFFICES ASSUME NEW c \in Callers, NEW i \in Rows, call[c].pc = "discard",
                      row'[i].source = call[c].file
               PROVE  call[c].file \in abandoned
    BY <1>1
  <2>1. call[c].file \in Ids
    BY CallFields DEF HInv, Carries
  <2>2. row'[i].source # None
    BY <2>1, LibraryAssumption DEF Ids
  <2> QED
    BY <1>2, <2>2 DEF HInv, HRest, DoomedOK
<1>5. \A c \in Callers : call'[c].pc = "dropOld" => call'[c].old # None
  BY DEF HInv, HRest, DoomedOK
<1>6. \A c \in Callers, i \in Rows' : call'[c].pc = "dropOld" => row'[i].source # call'[c].old
  BY <1>1, <1>2, <1>5 DEF HInv, HRest, DoomedOK
<1>7. \A v \in Workers, i \in Rows' : worker'[v].pc = "dropSource" => row'[i].source # worker'[v].input
  <2> SUFFICES ASSUME NEW v \in Workers, NEW i \in Rows, worker'[v].pc = "dropSource", worker'[v] = worker[v]
               PROVE  row'[i].source # worker'[v].input
    BY <1>1
  <2>1. worker[v].input \in Ids
    BY DEF HInv, HRest, WorkOK, Worker, Busy
  <2>2. worker[v].input # None
    BY <2>1, LibraryAssumption DEF Ids
  <2> QED
    BY <1>2, <2>2 DEF HInv, HRest, DoomedOK
<1>8. \A d \in Deleters, i \in Rows' :
        deleting'[d].pc # "idle" /\ row'[i].source = deleting'[d].source /\ row'[i].source # None
           => i = deleting'[d].id
  BY <1>1, <1>2 DEF HInv, HRest, DoomedOK
<1>9. \A d \in Deleters : deleting'[d].pc = "files" => row'[deleting'[d].id].status = "DELETED"
  <2>1. \A d \in Deleters : deleting[d].pc = "files" => deleting[d].id \in Rows
    BY DEF HInv, HRest, KnownOK
  <2> QED
    BY <1>2, <2>1 DEF HInv, HRest, DoomedOK
<1> QED
  BY <1>1, <1>3, <1>4, <1>5, <1>6, <1>7, <1>8, <1>9 DEF DoomedOK

LEMMA SettledNames ==
  ASSUME HInv, NEW k \in Rows, Settles(k), UNCHANGED <<fresh, deleting, jobs>>,
         \A c \in Callers : call'[c].pc \in Carries \cup {"offer"} => call'[c] = call[c],
         \A v \in Workers : Occupied(v)' => Occupied(v) /\ worker'[v].input = worker[v].input,
         \A f \in sources : f \in sources' \/ Named(f)
  PROVE  ComingOK'
<1>1. Rows' = Rows /\ \A i \in Rows : row'[i].source \in {row[i].source, None}
  BY DEF Rows, Settles
<1>2. ASSUME NEW f \in Ids, Named(f)' PROVE Named(f)
  <2>1. f # None
    BY LibraryAssumption DEF Ids
  <2>2. \A c \in Callers : call'[c].pc \in {"swap", "dropOld", "offer"} => call'[c] = call[c]
    BY DEF Carries, Coming
  <2> QED
    BY <1>1, <1>2, <2>1, <2>2 DEF Named
<1>3. \A c \in Callers : call'[c].pc \in Coming => call[c].pc \in Coming
  BY DEF Carries
<1>4. \A c \in Callers : call'[c].pc \in Carries => call[c].pc \in Carries /\ call'[c].file = call[c].file
  OBVIOUS
<1> QED
  BY <1>2, <1>3, <1>4, NamesStay DEF HInv, HRest

LEMMA WorkerRest ==
  ASSUME HInv, NEW w \in Workers, Occupied(w), NEW r \in Worker, worker' = [worker EXCEPT ![w] = r],
         UNCHANGED <<fresh, jobs, call, feeder, deleting, abandoned>>,
         \/ r.pc # "idle" /\ r.id = worker[w].id /\ r.input = worker[w].input /\ reserved' = reserved
         \/ r.pc = "idle" /\ reserved' = reserved \ {worker[w].id},
         Settles(worker[w].id),
         \/ sources' = sources
         \/ worker[w].pc = "dropSource" /\ sources' = sources \ {worker[w].input},
         \/ outputs' = outputs
         \/ outputs' = outputs \cup {worker[w].id}
         \/ worker[w].pc = "dropOutput" /\ outputs' = outputs \ {worker[w].id},
         r.pc \in {"start", "run", "complete", "failed", "cancelled"} => Tasked(r.id, r.input)',
         r.pc = "complete" => r.id \in outputs',
         r.pc = "dropOutput" => row'[r.id].status = "DELETED",
         r.pc = "dropSource" => \A i \in Rows : row'[i].source # r.input,
         /\ worker[w].id \in Live /\ row'[worker[w].id].status = "COMPLETED" => worker[w].id \in outputs'
         /\ worker[w].id \in Live /\ row'[worker[w].id].status # "COMPLETED" =>
              row[worker[w].id].status # "COMPLETED" /\ row'[worker[w].id].source = row[worker[w].id].source
  PROVE  HRest'
<1> DEFINE k == worker[w].id
<1>1. IInv /\ k \in Rows /\ k \in Ids /\ k \in reserved
  BY DEF HInv, HRest, OwnOK, KnownOK, Rows
<1>2. worker'[w] = r /\ \A v \in Workers : v # w => worker'[v] = worker[v]
  BY DEF HInv, HRest, WorkOK
<1>3. OwnOK'
  BY OwnWorker DEF HInv, HRest
<1>4. WorkOK'
  BY <1>1 DEF HInv, HRest, WorkOK
<1> HIDE DEF k
<1>5. \A v \in Workers : worker'[v].pc = "dropSource" =>
        worker'[v] = worker[v] \/ \A i \in Rows : row'[i].source # worker'[v].input
  BY <1>2
<1>6. Rows' = Rows /\ DoomedOK'
  BY <1>1, <1>5, SettledDoom DEF k
<1>7. KnownOK'
  BY <1>6 DEF HInv, HRest, KnownOK
<1>8. ComingOK'
  <2>1. \A v \in Workers : Occupied(v)' => Occupied(v) /\ worker'[v].input = worker[v].input
    BY <1>2 DEF Occupied
  <2>2. \A f \in sources : f \in sources' \/ Named(f)
    BY DEF Named
  <2> QED
    BY <1>1, <2>1, <2>2, SettledNames DEF k
<1>9. \A i \in Ids : i # k => row'[i] = row[i] /\ (i \in Live' <=> i \in Live)
  BY DEF Settles, Live, k
<1>10. TasksOK'
  <2>1. \A c \in Callers : call[c].pc \in {"offer", "fail", "swap"} => call[c].id \in Ids /\ call[c].id # k
    BY <1>1, CallFields DEF HInv, HRest, OwnOK, Holder, Holds, k
  <2>2. \A i \in DOMAIN jobs : jobs[i].id \in Ids /\ jobs[i].id # k
    BY DEF HInv, HRest, OwnOK, WorkOK, k
  <2>3. \A v \in Workers : v # w /\ worker[v].pc # "idle" => worker[v].id \in Ids /\ worker[v].id # k
    BY DEF HInv, HRest, OwnOK, WorkOK, Occupied, k
  <2>4. \A i \in outputs : i # k => i \in outputs'
    BY DEF k
  <2>5. r.pc # "idle" => r.id = k
    BY DEF k
  <2>6. \A v \in Workers : worker'[v].pc = "complete" /\ worker'[v].id \in Live' => worker'[v].id \in outputs'
    BY <1>2, <1>9, <2>3, <2>4 DEF HInv, HRest, TasksOK
  <2>7. \A v \in Workers : worker'[v].pc = "dropOutput" => row'[worker'[v].id].status = "DELETED"
    BY <1>2, <1>9, <2>3 DEF HInv, HRest, TasksOK
  <2>8. \A v \in Workers : worker'[v].pc \in {"start", "run", "complete", "failed", "cancelled"} =>
          /\ row'[worker'[v].id].status # "COMPLETED"
          /\ worker'[v].id \in Live' => row'[worker'[v].id].source = worker'[v].input
    BY <1>2, <1>9, <2>3 DEF HInv, HRest, TasksOK, Tasked
  <2>9. \A c \in Callers : call'[c].pc \in {"offer", "fail", "swap"} => call'[c] = call[c] /\ row'[call'[c].id] = row[call[c].id]
                                                                     /\ (call'[c].id \in Live' <=> call[c].id \in Live)
    BY <1>9, <2>1
  <2>10. \A i \in DOMAIN jobs' : /\ jobs'[i] = jobs[i] /\ row'[jobs'[i].id] = row[jobs[i].id]
                                /\ (jobs'[i].id \in Live' <=> jobs[i].id \in Live)
    BY <1>9, <2>2
  <2> QED
    BY <2>6, <2>7, <2>8, <2>9, <2>10 DEF HInv, HRest, TasksOK, Tasked
<1>11. MaterialIsKept'
  <2>1. ASSUME NEW i \in Live'
        PROVE  IF row'[i].status = "COMPLETED" THEN i \in outputs'
               ELSE row'[i].source \in sources' \/ row'[i].source \in abandoned'
    <3>1. i \in Ids /\ i \in Rows /\ i \in Live
      BY <1>6, <1>9, <2>1 DEF Live, Rows, Settles, k
    <3>2. row[i].source \in sources => row[i].source \in sources' \/ row[i].source \in abandoned
      BY <3>1 DEF HInv, HRest, DoomedOK
    <3>3. CASE i = k
      BY <3>1, <3>2, <3>3 DEF HInv, HRest, MaterialIsKept, k
    <3>4. CASE i # k
      <4>1. row'[i] = row[i] /\ (i \in outputs => i \in outputs')
        BY <1>9, <3>1, <3>4 DEF k
      <4> QED
        BY <3>1, <3>2, <4>1 DEF HInv, HRest, MaterialIsKept
    <3> QED
      BY <3>3, <3>4
  <2> QED
    BY <2>1 DEF MaterialIsKept
<1> QED
  BY <1>3, <1>4, <1>6, <1>7, <1>8, <1>10, <1>11 DEF HRest

LEMMA WorkTo ==
  ASSUME WorkOK, NEW w \in Workers, NEW p \in Busy, Occupied(w), Work(w, p)
  PROVE  \E r \in Worker : /\ worker' = [worker EXCEPT ![w] = r]
                          /\ r.pc = p /\ r.id = worker[w].id /\ r.input = worker[w].input
<1> DEFINE r == [worker[w] EXCEPT !.pc = p]
<1>1. worker[w] \in [pc : Busy, id : Ids, input : Ids]
  BY DEF WorkOK, Worker, Occupied
<1>2. r \in Worker /\ r.pc = p /\ r.id = worker[w].id /\ r.input = worker[w].input
  BY <1>1 DEF Worker
<1>3. worker' = [worker EXCEPT ![w] = r]
  BY DEF Work
<1> HIDE DEF r
<1> QED
  BY <1>2, <1>3

LEMMA Unwritten ==
  ASSUME RowsOK, NEW k \in Rows, UNCHANGED row
  PROVE  Settles(k)
BY DEF Settles, Rows, RowsOK

LEMMA StatusSettles ==
  ASSUME RowsOK, NEW k \in Rows, NEW status \in {"PENDING", "PROCESSING", "FAILED"}, UpdateStatus(k, status)
  PROVE  /\ Settles(k) /\ row'[k].source = row[k].source
         /\ k \in Live' <=> k \in Live
         /\ k \in Live => row'[k].status = status
         /\ row'[k].status = "COMPLETED" => row[k].status = "COMPLETED"
<1>1. k \in Ids /\ row[k] # None
  BY DEF Rows
<1>2. CASE k \in Live
  <2>1. row[k] \in Row
    BY <1>1 DEF RowsOK
  <2>2. row' = [row EXCEPT ![k].status = status]
    BY <1>2 DEF UpdateStatus
  <2>3. row'[k] = [status |-> status, hash |-> row[k].hash, source |-> row[k].source]
        /\ \A i \in Ids : i # k => row'[i] = row[i]
    BY <1>1, <2>1, <2>2, FieldsOf DEF RowsOK
  <2>4. row'[k] \in Row
    BY <2>1, <2>3 DEF Row
  <2>5. row'[k] # None /\ row'[k].status = status /\ row'[k].source = row[k].source /\ row[k].status # "DELETED"
    BY <1>2, <2>3, <2>4, LibraryAssumption DEF Live
  <2> QED
    BY <1>1, <1>2, <2>3, <2>5 DEF Settles, Live
<1>3. CASE k \notin Live
  <2>1. UNCHANGED row
    BY <1>3 DEF UpdateStatus
  <2> QED
    BY <1>3, <2>1, Unwritten DEF Live
<1> QED
  BY <1>2, <1>3

LEMMA FailRest ==
  ASSUME HInv, NEW c \in Callers, Fail(c)
  PROVE  HRest'
<1> DEFINE k == call[c].id
<1>1. /\ call[c].pc = "fail" /\ UpdateStatus(k, "FAILED") /\ Goto(c, "release") /\ IInv /\ RowsOK
      /\ UNCHANGED <<sources, outputs, fresh, reserved, jobs, worker, closed, feeder, deleting, abandoned>>
  BY TypeFacts DEF Fail, queue, HInv
<1>2. Holder(c) /\ k \in Rows /\ k \in Ids
  BY <1>1 DEF Holder, Holds, HInv, HRest, OwnOK, KnownOK, Rows
<1>3. PICK r \in Call : call' = [call EXCEPT ![c] = r] /\ r.pc = "release" /\ r.id = k
  BY <1>1, GoesTo DEF Holds
<1>4. call'[c] = r /\ \A b \in Callers : b # c => call'[b] = call[b]
  BY <1>1, <1>3 DEF IInv, StateOK
<1> HIDE DEF k
<1>5. /\ Settles(k) /\ row'[k].source = row[k].source
      /\ k \in Live' <=> k \in Live
      /\ k \in Live => row'[k].status = "FAILED"
      /\ row'[k].status = "COMPLETED" => row[k].status = "COMPLETED"
  BY <1>1, <1>2, StatusSettles
<1>6. r.pc \in Holds
  BY <1>3 DEF Holds
<1>7. OwnOK'
  BY <1>1, <1>2, <1>3, <1>6, OwnCall DEF HInv, HRest, k
<1>8. WorkOK'
  BY <1>1 DEF HInv, HRest, WorkOK
<1>9. \A b \in Callers : call'[b].pc \in Carries \cup {"offer", "reserve"} => call'[b] = call[b]
  BY <1>3, <1>4 DEF Carries, Coming
<1>10. Rows' = Rows /\ DoomedOK'
  <2>1. \A b \in Callers : call'[b].pc \in {"discard", "dropOld"} => call'[b] = call[b]
    BY <1>9 DEF Carries
  <2> QED
    BY <1>1, <1>2, <1>5, <2>1, SettledDoom
<1>11. KnownOK'
  BY <1>1, <1>9, <1>10 DEF HInv, HRest, KnownOK
<1>12. ComingOK'
  BY <1>1, <1>2, <1>5, <1>9, SettledNames DEF Occupied
<1>13. \A i \in Ids : i # k => row'[i] = row[i] /\ (i \in Live' <=> i \in Live)
  BY <1>5 DEF Settles, Live
<1>14. TasksOK'
  <2>1. \A b \in Callers : call'[b].pc \in {"offer", "fail", "swap"} =>
          call'[b] = call[b] /\ call[b].id \in Ids /\ call[b].id # k
    <3> SUFFICES ASSUME NEW b \in Callers, call'[b].pc \in {"offer", "fail", "swap"}
                 PROVE  call'[b] = call[b] /\ call[b].id \in Ids /\ call[b].id # k
      OBVIOUS
    <3>1. b # c /\ call'[b] = call[b]
      BY <1>3, <1>4
    <3> QED
      BY <1>1, <1>2, <3>1, CallFields DEF HInv, HRest, OwnOK, Holder, Holds, k
  <2>2. \A i \in DOMAIN jobs : jobs[i].id \in Ids /\ jobs[i].id # k
    BY <1>2 DEF HInv, HRest, OwnOK, WorkOK, k
  <2>3. \A v \in Workers : worker[v].pc # "idle" => worker[v].id \in Ids /\ worker[v].id # k
    BY <1>2 DEF HInv, HRest, OwnOK, WorkOK, Occupied, k
  <2> QED
    BY <1>1, <1>13, <2>1, <2>2, <2>3 DEF HInv, HRest, TasksOK, Tasked
<1>15. MaterialIsKept'
  <2>1. \A i \in Live' : i \in Live /\ (i = k \/ row'[i] = row[i])
    BY <1>5, <1>13 DEF Live
  <2>2. row[k].status # "COMPLETED"
    BY <1>1 DEF HInv, HRest, TasksOK, k
  <2>3. k \in Live' => row'[k].status # "COMPLETED" /\ row'[k].source = row[k].source
    BY <1>5
  <2> QED
    BY <1>1, <2>1, <2>2, <2>3 DEF HInv, HRest, MaterialIsKept
<1> QED
  BY <1>7, <1>8, <1>10, <1>11, <1>12, <1>14, <1>15 DEF HRest

LEMMA WorkersRest ==
  ASSUME HInv, NEW w \in Workers,
         Start(w) \/ Run(w) \/ Unsuccessful(w) \/ Complete(w) \/ DropFiles(w) \/ ReleaseTrack(w)
  PROVE  HRest'
<1> DEFINE k == worker[w].id
           Past == {"start", "run", "complete", "failed", "cancelled"}
<1>1. Occupied(w) /\ RowsOK /\ WorkOK
      /\ UNCHANGED <<fresh, jobs, call, feeder, deleting, abandoned>>
  BY TypeFacts DEF Start, Run, Unsuccessful, Complete, DropFiles, ReleaseTrack, Occupied, HInv, HRest, disk
<1>2. k \in Rows /\ k \in Ids
  BY <1>1 DEF HInv, HRest, OwnOK, KnownOK, Rows
<1>3. worker[w].pc \in Past => row[k].status # "COMPLETED" /\ (k \in Live => row[k].source = worker[w].input)
  BY DEF HInv, HRest, TasksOK, Tasked
<1>4. k \in Live /\ row[k].status = "COMPLETED" => k \in outputs
  BY DEF HInv, HRest, MaterialIsKept
<1>5. UNCHANGED row => Settles(k) /\ (k \in Live' <=> k \in Live)
  BY <1>1, <1>2, Unwritten DEF Live
<1>6. "run" \in Busy /\ "failed" \in Busy /\ "cancelled" \in Busy /\ "complete" \in Busy
      /\ "release" \in Busy /\ "dropSource" \in Busy /\ "dropOutput" \in Busy
  BY DEF Busy
<1> HIDE DEF k
<1>7. CASE Start(w)
  <2>1. worker[w].pc = "start" /\ UNCHANGED <<sources, outputs, reserved>>
    BY <1>7 DEF Start
  <2>2. CASE UpdateStatus(k, "PROCESSING") /\ Work(w, IF k \in Live THEN "run" ELSE "release")
    <3>1. PICK r \in Worker : /\ worker' = [worker EXCEPT ![w] = r]
                              /\ r.pc = (IF k \in Live THEN "run" ELSE "release")
                              /\ r.id = worker[w].id /\ r.input = worker[w].input
      BY <1>1, <1>6, <2>2, WorkTo
    <3>2. /\ Settles(k) /\ row'[k].source = row[k].source
          /\ k \in Live' <=> k \in Live
          /\ row'[k].status = "COMPLETED" => row[k].status = "COMPLETED"
      BY <1>1, <1>2, <2>2, StatusSettles
    <3>3. r.pc \in Past => Tasked(r.id, r.input)'
      BY <1>3, <2>1, <3>1, <3>2 DEF Tasked, k
    <3> QED
      BY <1>1, <1>3, <1>4, <2>1, <3>1, <3>2, <3>3, WorkerRest DEF k
  <2>3. CASE Work(w, "failed") /\ UNCHANGED row
    <3>1. PICK r \in Worker : worker' = [worker EXCEPT ![w] = r] /\ r.pc = "failed" /\ r.id = worker[w].id /\ r.input = worker[w].input
      BY <1>1, <1>6, <2>3, WorkTo
    <3>2. Tasked(r.id, r.input)'
      BY <1>3, <1>5, <2>1, <2>3, <3>1 DEF Tasked, k
    <3> QED
      BY <1>1, <1>3, <1>4, <1>5, <2>1, <2>3, <3>1, <3>2, WorkerRest DEF k
  <2> QED
    BY <1>7, <2>2, <2>3 DEF Start, k
<1>8. CASE Run(w)
  <2>1. worker[w].pc = "run" /\ UNCHANGED <<row, sources, reserved>>
    BY <1>8 DEF Run
  <2>2. PICK p \in {"complete", "failed", "cancelled"} :
          /\ Work(w, p)
          /\ \/ p = "complete" /\ outputs' = outputs \cup {k}
             \/ p # "complete" /\ outputs' = outputs
    BY <1>8 DEF Run, k
  <2>3. PICK r \in Worker : worker' = [worker EXCEPT ![w] = r] /\ r.pc = p /\ r.id = worker[w].id /\ r.input = worker[w].input
    BY <1>1, <1>6, <2>2, WorkTo
  <2>4. Tasked(r.id, r.input)'
    BY <1>3, <1>5, <2>1, <2>3 DEF Tasked, k
  <2>5. outputs' = outputs \/ outputs' = outputs \cup {worker[w].id}
    BY <2>2 DEF k
  <2>6. r.pc = "complete" => r.id \in outputs'
    BY <2>2, <2>3 DEF k
  <2>7. r.pc # "idle" /\ r.pc # "dropOutput" /\ r.pc # "dropSource"
    BY <2>3
  <2>8. /\ k \in Live /\ row'[k].status = "COMPLETED" => k \in outputs'
        /\ k \in Live /\ row'[k].status # "COMPLETED" =>
             row[k].status # "COMPLETED" /\ row'[k].source = row[k].source
    BY <1>3, <2>1
  <2> QED
    BY <1>1, <1>5, <2>1, <2>3, <2>4, <2>5, <2>6, <2>7, <2>8, WorkerRest DEF k
<1>9. CASE Unsuccessful(w)
  <2>1. worker[w].pc \in {"failed", "cancelled"} /\ UNCHANGED <<sources, outputs, reserved>> /\ Work(w, "release")
    BY <1>9 DEF Unsuccessful
  <2>2. PICK r \in Worker : worker' = [worker EXCEPT ![w] = r] /\ r.pc = "release" /\ r.id = worker[w].id /\ r.input = worker[w].input
    BY <1>1, <1>6, <2>1, WorkTo
  <2>3. CASE UNCHANGED row
    BY <1>1, <1>3, <1>4, <1>5, <2>1, <2>2, <2>3, WorkerRest DEF k
  <2>4. CASE \E status \in {"FAILED", "PENDING"} : UpdateStatus(k, status)
    <3>1. PICK status \in {"FAILED", "PENDING"} : UpdateStatus(k, status)
      BY <2>4
    <3>2. /\ Settles(k) /\ row'[k].source = row[k].source
          /\ k \in Live' <=> k \in Live
          /\ row'[k].status = "COMPLETED" => row[k].status = "COMPLETED"
      BY <1>1, <1>2, <3>1, StatusSettles
    <3> QED
      BY <1>1, <1>3, <1>4, <2>1, <2>2, <3>2, WorkerRest DEF k
  <2> QED
    BY <1>9, <2>3, <2>4 DEF Unsuccessful, k
<1>10. CASE Complete(w)
  <2>1. worker[w].pc = "complete" /\ UNCHANGED <<sources, outputs, reserved>>
    BY <1>10 DEF Complete
  <2>2. CASE UNCHANGED row /\ Work(w, "release")
    <3>1. PICK r \in Worker : worker' = [worker EXCEPT ![w] = r] /\ r.pc = "release" /\ r.id = worker[w].id /\ r.input = worker[w].input
      BY <1>1, <1>6, <2>2, WorkTo
    <3> QED
      BY <1>1, <1>3, <1>4, <1>5, <2>1, <2>2, <3>1, WorkerRest DEF k
  <2>3. CASE UNCHANGED row /\ Work(w, "dropOutput") /\ k \notin Live
    <3>1. PICK r \in Worker : worker' = [worker EXCEPT ![w] = r] /\ r.pc = "dropOutput" /\ r.id = worker[w].id /\ r.input = worker[w].input
      BY <1>1, <1>6, <2>3, WorkTo
    <3>2. row'[r.id].status = "DELETED"
      BY <1>2, <2>3, <3>1 DEF Live, Rows, k
    <3> QED
      BY <1>1, <1>3, <1>4, <1>5, <2>1, <2>3, <3>1, <3>2, WorkerRest DEF k
  <2>4. CASE k \in Live /\ row' = [row EXCEPT ![k].status = "COMPLETED", ![k].source = None] /\ Work(w, "dropSource")
    <3>1. PICK r \in Worker : worker' = [worker EXCEPT ![w] = r] /\ r.pc = "dropSource" /\ r.id = worker[w].id /\ r.input = worker[w].input
      BY <1>1, <1>6, <2>4, WorkTo
    <3>2. row[k] \in Row /\ row[k].status # "DELETED"
      BY <1>1, <1>2, <2>4 DEF RowsOK, Rows, Live
    <3>3. row'[k] = [[row[k] EXCEPT !.status = "COMPLETED"] EXCEPT !.source = None]
          /\ \A i \in Ids : i # k => row'[i] = row[i]
      BY <1>1, <1>2, <2>4 DEF RowsOK
    <3>4. [row[k] EXCEPT !.status = "COMPLETED"] = [status |-> "COMPLETED", hash |-> row[k].hash, source |-> row[k].source]
      BY <3>2, FieldsOf
    <3>5. row'[k] = [status |-> "COMPLETED", hash |-> row[k].hash, source |-> None]
      BY <3>3, <3>4
    <3>6. row'[k] \in Row
      BY <3>2, <3>5 DEF Row
    <3>7. Settles(k) /\ row'[k].status = "COMPLETED" /\ row'[k].source = None
      BY <3>2, <3>3, <3>5, <3>6, LibraryAssumption DEF Settles
    <3>8. row[k].source = r.input /\ r.input # None
      BY <1>3, <2>1, <2>4, <3>1, SourceOfLive
    <3>9. \A i \in Rows : row'[i].source # r.input
      <4> SUFFICES ASSUME NEW i \in Rows PROVE row'[i].source # r.input
        OBVIOUS
      <4>1. CASE i = k
        BY <3>7, <3>8, <4>1
      <4>2. CASE i # k
        BY <1>2, <3>3, <3>8, <4>2 DEF HInv, HRest, DoomedOK, Rows
      <4> QED
        BY <4>1, <4>2
    <3>10. k \in outputs
      BY <2>1, <2>4 DEF HInv, HRest, TasksOK, k
    <3> QED
      BY <1>1, <2>1, <3>1, <3>7, <3>9, <3>10, WorkerRest DEF k
  <2> QED
    BY <1>10, <2>2, <2>3, <2>4 DEF Complete, k
<1>11. CASE DropFiles(w)
  <2>1. UNCHANGED <<row, reserved>> /\ Work(w, "release")
    BY <1>11 DEF DropFiles
  <2>2. PICK r \in Worker : worker' = [worker EXCEPT ![w] = r] /\ r.pc = "release" /\ r.id = worker[w].id /\ r.input = worker[w].input
    BY <1>1, <1>6, <2>1, WorkTo
  <2>3. /\ sources' = sources \/ (worker[w].pc = "dropSource" /\ sources' = sources \ {worker[w].input})
        /\ outputs' = outputs \/ (worker[w].pc = "dropOutput" /\ outputs' = outputs \ {k})
    BY <1>11 DEF DropFiles, k
  <2>4. k \in Live => outputs' = outputs
    BY <2>3 DEF HInv, HRest, TasksOK, Live, k
  <2>5. /\ k \in Live /\ row'[k].status = "COMPLETED" => k \in outputs'
        /\ k \in Live /\ row'[k].status # "COMPLETED" =>
             row[k].status # "COMPLETED" /\ row'[k].source = row[k].source
    BY <1>4, <2>1, <2>4
  <2>6. r.pc # "idle" /\ r.pc # "complete" /\ r.pc # "dropOutput" /\ r.pc # "dropSource" /\ r.pc \notin Past
    BY <2>2
  <2> QED
    BY <1>1, <1>5, <2>1, <2>2, <2>3, <2>5, <2>6, WorkerRest DEF k
<1>12. CASE ReleaseTrack(w)
  <2>1. /\ UNCHANGED <<row, sources, outputs>> /\ reserved' = reserved \ {worker[w].id}
        /\ worker' = [worker EXCEPT ![w] = Idle]
    BY <1>12 DEF ReleaseTrack, disk
  <2>2. Idle \in Worker /\ Idle.pc = "idle"
    BY DEF Idle, Worker
  <2> QED
    BY <1>1, <1>3, <1>4, <1>5, <2>1, <2>2, WorkerRest DEF k
<1> QED
  BY <1>7, <1>8, <1>9, <1>10, <1>11, <1>12

-----------------------------------------------------------------------------
(* Deletion, the end of the process, and the theorems.                     *)

LEMMA DeleteRest ==
  ASSUME HInv, NEW d \in Deleters, NEW k \in Ids, Delete(d, k)
  PROVE  HRest'
<1> DEFINE r == [pc |-> "tx", id |-> k, source |-> row[k].source, output |-> row[k].status = "COMPLETED"]
<1>1. /\ deleting' = [deleting EXCEPT ![d] = r] /\ k \in Rows
      /\ UNCHANGED <<row, sources, outputs, fresh, reserved, jobs, worker, call, feeder, abandoned>> /\ IInv
  BY DEF Delete, disk, queue, Rows, HInv
<1>2. deleting'[d] = r /\ \A e \in Deleters : e # d => deleting'[e] = deleting[e]
  BY <1>1 DEF IInv, StateOK
<1>3. r.pc = "tx" /\ r.id = k /\ r.source = row[k].source
  OBVIOUS
<1> HIDE DEF r
<1>4. WorkOK' /\ OwnOK' /\ TasksOK' /\ MaterialIsKept'
  BY <1>1 DEF HInv, HRest, WorkOK, OwnOK, Holder, Occupied, TasksOK, Tasked, Live, MaterialIsKept
<1>5. KnownOK'
  BY <1>1, <1>2, <1>3 DEF HInv, HRest, KnownOK, Rows
<1>6. ComingOK'
  <2>1. \A f \in Ids : Named(f)' => Named(f)
    BY <1>1, <1>2, <1>3 DEF Named, Occupied, Rows
  <2> QED
    BY <1>1, <2>1, NamesStay DEF HInv, HRest
<1>7. DoomedOK'
  BY <1>1, <1>2, <1>3 DEF HInv, HRest, DoomedOK, Rows
<1> QED
  BY <1>4, <1>5, <1>6, <1>7 DEF HRest

LEMMA DeleteTxRest ==
  ASSUME HInv, NEW d \in Deleters, DeleteTx(d)
  PROVE  HRest'
<1> DEFINE k == deleting[d].id
<1>0. row' = [row EXCEPT ![k].status = "DELETED"]
  BY DEF DeleteTx
<1>1. /\ deleting[d].pc = "tx"
      /\ UNCHANGED <<sources, outputs, fresh, reserved, jobs, worker, call, feeder, abandoned>> /\ IInv /\ RowsOK
  BY TypeFacts DEF DeleteTx, queue, HInv
<1>2. deleting[d] \in [pc : {"tx", "files"}, id : Ids, source : Ids \cup {None}, output : BOOLEAN]
  BY <1>1 DEF IInv, StateOK, Deletion
<1>3. PICK r \in Deletion : /\ deleting' = [deleting EXCEPT ![d] = r]
                            /\ r.pc = "idle" \/ (r.pc = "files" /\ r.id = k /\ r.source = deleting[d].source)
  <2> DEFINE r == [deleting[d] EXCEPT !.pc = "files"]
  <2>1. r \in Deletion /\ r.pc = "files" /\ r.id = k /\ r.source = deleting[d].source
    BY <1>2 DEF Deletion
  <2>2. Idle \in Deletion /\ Idle.pc = "idle"
    BY DEF Idle, Deletion
  <2>3. deleting' = [deleting EXCEPT ![d] = r] \/ deleting' = [deleting EXCEPT ![d] = Idle]
    BY DEF DeleteTx
  <2> HIDE DEF r
  <2> QED
    BY <2>1, <2>2, <2>3
<1>4. k \in Rows /\ k \in Ids
  BY <1>1, <1>2 DEF HInv, HRest, KnownOK
<1>5. deleting'[d] = r /\ \A e \in Deleters : e # d => deleting'[e] = deleting[e]
  BY <1>1, <1>3 DEF IInv, StateOK
<1> HIDE DEF k
<1>6. row'[k] # None /\ row'[k].status = "DELETED" /\ row'[k].source = row[k].source
      /\ \A i \in Ids : i # k => row'[i] = row[i]
  <2>1. row[k] \in Row
    BY <1>1, <1>4 DEF RowsOK, Rows
  <2>2. row'[k] = [status |-> "DELETED", hash |-> row[k].hash, source |-> row[k].source]
    BY <1>0, <1>1, <1>4, <2>1, FieldsOf DEF RowsOK
  <2>3. row'[k] \in Row
    BY <2>1, <2>2 DEF Row
  <2> QED
    BY <1>0, <1>1, <1>4, <2>2, <2>3, LibraryAssumption DEF RowsOK
<1>7. Rows' = Rows /\ \A i \in Rows : row'[i].source = row[i].source
  BY <1>4, <1>6 DEF Rows
<1>8. Live' \subseteq Live /\ k \notin Live'
  BY <1>6 DEF Live
<1>9. WorkOK' /\ OwnOK'
  BY <1>1 DEF HInv, HRest, WorkOK, OwnOK, Holder, Occupied
<1>10. KnownOK'
  BY <1>1, <1>3, <1>4, <1>5, <1>7 DEF HInv, HRest, KnownOK
<1>11. ComingOK'
  <2>1. \A f \in Ids : Named(f)' => Named(f)
    BY <1>1, <1>3, <1>5, <1>7 DEF Named, Occupied
  <2> QED
    BY <1>1, <2>1, NamesStay DEF HInv, HRest
<1>12. TasksOK'
  <2>1. \A i \in Ids : row'[i].status # "COMPLETED" \/ row'[i] = row[i]
    BY <1>6
  <2>3. \A c \in Callers : call[c].pc \in {"offer", "fail", "swap"} => call[c].id \in Rows
    BY DEF HInv, HRest, OwnOK, KnownOK, Holder, Holds
  <2>4. \A i \in DOMAIN jobs : jobs[i].id \in Rows
    BY DEF HInv, HRest, OwnOK, KnownOK
  <2>5. \A v \in Workers : worker[v].pc # "idle" => worker[v].id \in Rows
    BY DEF HInv, HRest, OwnOK, KnownOK, Occupied
  <2>6. \A i \in Rows : (row[i].status = "DELETED" => row'[i].status = "DELETED") /\ row'[i].source = row[i].source
                      /\ (row[i].status # "COMPLETED" => row'[i].status # "COMPLETED")
    BY <1>6, <1>7 DEF Rows
  <2> QED
    BY <1>1, <1>8, <2>3, <2>4, <2>5, <2>6 DEF HInv, HRest, TasksOK, Tasked
<1>13. DoomedOK'
  <2>1. \A c \in Callers, i \in Rows' :
          call'[c].pc = "discard" /\ row'[i].source = call'[c].file => call'[c].file \in abandoned'
    BY <1>1, <1>7 DEF HInv, HRest, DoomedOK
  <2>2. \A i, j \in Rows' : row'[i].source # None /\ row'[i].source = row'[j].source => i = j
    BY <1>7 DEF HInv, HRest, DoomedOK
  <2>3. \A c \in Callers : call'[c].pc = "dropOld" => call'[c].old # None
    BY <1>1 DEF HInv, HRest, DoomedOK
  <2>4. \A c \in Callers, i \in Rows' : call'[c].pc = "dropOld" => row'[i].source # call'[c].old
    BY <1>1, <1>7 DEF HInv, HRest, DoomedOK
  <2>5. \A w \in Workers, i \in Rows' : worker'[w].pc = "dropSource" => row'[i].source # worker'[w].input
    BY <1>1, <1>7 DEF HInv, HRest, DoomedOK
  <2>6. \A e \in Deleters : deleting'[e].pc # "idle" =>
          deleting[e].pc # "idle" /\ deleting'[e].id = deleting[e].id /\ deleting'[e].source = deleting[e].source
    BY <1>1, <1>3, <1>5 DEF k
  <2>7. \A e \in Deleters, i \in Rows' :
          deleting'[e].pc # "idle" /\ row'[i].source = deleting'[e].source /\ row'[i].source # None
             => i = deleting'[e].id
    BY <1>7, <2>6 DEF HInv, HRest, DoomedOK
  <2>8. \A e \in Deleters : deleting'[e].pc = "files" => row'[deleting'[e].id].status = "DELETED"
    <3> SUFFICES ASSUME NEW e \in Deleters, deleting'[e].pc = "files"
                 PROVE  row'[deleting'[e].id].status = "DELETED"
      OBVIOUS
    <3>1. CASE e = d
      BY <1>3, <1>5, <1>6, <3>1
    <3>2. CASE e # d
      <4>1. deleting'[e] = deleting[e] /\ deleting[e].id \in Rows /\ row[deleting[e].id].status = "DELETED"
        BY <1>5, <3>2 DEF HInv, HRest, DoomedOK, KnownOK
      <4> QED
        BY <1>6, <4>1 DEF Rows
    <3> QED
      BY <3>1, <3>2
  <2> QED
    BY <2>1, <2>2, <2>3, <2>4, <2>5, <2>7, <2>8 DEF DoomedOK
<1>14. MaterialIsKept'
  <2>1. \A i \in Live' : i \in Live /\ row'[i] = row[i]
    BY <1>6 DEF Live
  <2> QED
    BY <1>1, <2>1 DEF HInv, HRest, MaterialIsKept
<1> QED
  BY <1>9, <1>10, <1>11, <1>12, <1>13, <1>14 DEF HRest

LEMMA DeleteFilesRest ==
  ASSUME HInv, NEW d \in Deleters, DeleteFiles(d)
  PROVE  HRest'
<1> DEFINE k == deleting[d].id
           f == deleting[d].source
<1>1. /\ deleting[d].pc = "files" /\ sources' = sources \ {f}
      /\ outputs' = outputs \/ outputs' = outputs \ {k}
      /\ deleting' = [deleting EXCEPT ![d] = Idle]
      /\ UNCHANGED <<row, fresh, reserved, jobs, worker, call, feeder, abandoned>> /\ IInv
  BY DEF DeleteFiles, queue, HInv
<1>2. row[k].status = "DELETED" /\ k \notin Live
  BY <1>1 DEF HInv, HRest, DoomedOK, Live
<1>3. \A e \in Deleters : deleting'[e].pc # "idle" => deleting'[e] = deleting[e]
  BY <1>1 DEF IInv, StateOK, Idle
<1>4. \A i \in Live : row[i].status # "COMPLETED" => row[i].source # f
  <2> SUFFICES ASSUME NEW i \in Live, row[i].status # "COMPLETED", row[i].source = f
               PROVE  FALSE
    OBVIOUS
  <2>1. i \in Rows /\ row[i].source # None
    BY SourceOfLive DEF Live, Rows
  <2>2. i = k
    BY <1>1, <2>1 DEF HInv, HRest, DoomedOK
  <2> QED
    BY <1>2, <2>2
<1>5. Named(f)
  BY <1>1 DEF Named
<1> HIDE DEF k, f
<1>6. OwnOK' /\ WorkOK'
  BY <1>1 DEF HInv, HRest, WorkOK, OwnOK, Holder, Occupied
<1>7. KnownOK'
  BY <1>1, <1>3 DEF HInv, HRest, KnownOK, Rows
<1>8. ComingOK'
  <2>1. \A x \in Ids : Named(x)' => Named(x)
    BY <1>1, <1>3 DEF Named, Occupied, Rows
  <2>2. \A x \in sources : x \in sources' \/ Named(x)
    BY <1>1, <1>5
  <2> QED
    BY <1>1, <2>1, <2>2, NamesStay DEF HInv, HRest
<1>9. TasksOK'
  BY <1>1, <1>2 DEF HInv, HRest, TasksOK, Tasked, Live
<1>10. DoomedOK'
  BY <1>1, <1>3 DEF HInv, HRest, DoomedOK, Rows
<1>11. MaterialIsKept'
  BY <1>1, <1>2, <1>4 DEF HInv, HRest, MaterialIsKept, Live
<1> QED
  BY <1>6, <1>7, <1>8, <1>9, <1>10, <1>11 DEF HRest

LEMMA RestartRest ==
  ASSUME HInv, Restart
  PROVE  HRest'
<1>1. /\ reserved' = {} /\ jobs' = <<>> /\ worker' = [w \in Workers |-> Idle]
      /\ call' = [c \in Callers |-> Idle] /\ deleting' = [d \in Deleters |-> Idle]
      /\ feeder' = [todo |-> {}, after |-> 0]
      /\ UNCHANGED <<row, sources, outputs, fresh, abandoned>>
  BY DEF Restart, Quiet, disk
<1>2. Idle.pc = "idle" /\ Idle \in Worker /\ jobs' \in Seq(Job) /\ DOMAIN jobs' = {}
  BY <1>1 DEF Idle, Worker
<1>3. /\ \A c \in Callers : call'[c].pc = "idle"
      /\ \A w \in Workers : worker'[w].pc = "idle"
      /\ \A d \in Deleters : deleting'[d].pc = "idle"
  BY <1>1, <1>2
<1>4. WorkOK'
  BY <1>1, <1>2 DEF HInv, HRest, WorkOK
<1>5. OwnOK'
  BY <1>1, <1>2, <1>3 DEF OwnOK, Holder, Occupied, Holds
<1>6. KnownOK'
  BY <1>1, <1>3 DEF KnownOK
<1>7. ComingOK'
  <2>1. \A f : Named(f)' => Named(f)
    BY <1>1, <1>2, <1>3 DEF Named, Occupied, Rows
  <2> QED
    BY <1>1, <1>3, <2>1 DEF HInv, HRest, ComingOK, Carries, Coming
<1>8. TasksOK'
  BY <1>2, <1>3 DEF TasksOK
<1>9. DoomedOK'
  BY <1>1, <1>3 DEF HInv, HRest, DoomedOK, Rows
<1>10. MaterialIsKept'
  BY <1>1 DEF HInv, HRest, MaterialIsKept, Live
<1> QED
  BY <1>4, <1>5, <1>6, <1>7, <1>8, <1>9, <1>10 DEF HRest

LEMMA StartsWhole == Init => HInv
<1> SUFFICES ASSUME Init PROVE HInv
  OBVIOUS
<1>1. Idle.pc = "idle" /\ Idle \in Worker /\ jobs \in Seq(Job) /\ DOMAIN jobs = {}
  BY DEF Init, Idle, Worker
<1>2. /\ \A c \in Callers : call[c].pc = "idle"
      /\ \A w \in Workers : worker[w].pc = "idle"
      /\ \A d \in Deleters : deleting[d].pc = "idle"
  BY <1>1 DEF Init
<1>3. Rows = {} /\ Live = {}
  BY DEF Init, Rows, Live
<1>4. WorkOK
  BY <1>1 DEF Init, WorkOK
<1>5. OwnOK
  BY <1>1, <1>2 DEF Init, OwnOK, Holder, Occupied, Holds
<1>6. KnownOK
  BY <1>2 DEF Init, KnownOK
<1>7. ComingOK
  BY <1>1, <1>2, <1>3 DEF Named, Occupied, ComingOK, Carries, Coming
<1>8. TasksOK /\ DoomedOK /\ MaterialIsKept
  BY <1>1, <1>2, <1>3 DEF TasksOK, DoomedOK, MaterialIsKept
<1> QED
  BY <1>4, <1>5, <1>6, <1>7, <1>8, Starts DEF HInv, HRest

LEMMA StepsWhole == HInv /\ [Next]_vars => HInv'
<1> SUFFICES ASSUME HInv, [Next]_vars PROVE HRest'
  BY Steps DEF HInv
<1>1. ASSUME NEW u \in Uploaders, NEW h \in Contents, Upload(u, h)
      PROVE  HRest'
  BY <1>1, UploadRest
<1>2. ASSUME NEW u \in Uploaders,
             \/ Find(u) \/ FindFails(u) \/ Discard(u) \/ Reserve(u)
             \/ Retry(u) \/ Reread(u) \/ DropOld(u)
      PROVE  HRest'
  BY <1>2, QuietUploads
<1>3. ASSUME NEW u \in Uploaders, Insert(u)
      PROVE  HRest'
  <2>1. CASE Goto(u, "findAgain") /\ UNCHANGED row
    <3>1. /\ UNCHANGED <<row, sources, outputs, fresh, reserved, jobs, worker, deleting, abandoned, feeder>>
          /\ call[u].pc = "insert" /\ u \in Callers
      BY <1>3, <2>1 DEF Insert, queue, Callers
    <3> QED
      BY <2>1, <3>1, GoesRest DEF New
  <2>2. CASE ~(Goto(u, "findAgain") /\ UNCHANGED row)
    BY <1>3, <2>2, InsertRest DEF Insert, queue
  <2> QED
    BY <2>1, <2>2
<1>4. ASSUME NEW u \in Uploaders, InsertCancelled(u)
      PROVE  HRest'
  BY <1>4, InsertRest DEF InsertCancelled, queue
<1>5. ASSUME NEW u \in Uploaders, Swap(u)
      PROVE  HRest'
  BY <1>5, SwapRest
<1>6. ASSUME NEW c \in Callers, Inspect(c) \/ Offer(c) \/ Fail(c) \/ Release(c)
      PROVE  HRest'
  BY <1>6, QuietSubmits, OfferRest, FailRest
<1>7. CASE NextPage \/ Recover
  BY <1>7, FeederRest
<1>8. ASSUME NEW w \in Workers,
             \/ Take(w) \/ Start(w) \/ Run(w) \/ Unsuccessful(w) \/ Complete(w) \/ DropFiles(w)
             \/ ReleaseTrack(w)
      PROVE  HRest'
  BY <1>8, TakeRest, WorkersRest
<1>9. ASSUME NEW d \in Deleters, DeleteTx(d) \/ DeleteFiles(d) \/ \E id \in Ids : Delete(d, id)
      PROVE  HRest'
  BY <1>9, DeleteTxRest, DeleteFilesRest, DeleteRest
<1>10. CASE Close
  BY <1>10, StillRest DEF Close, HInv, HRest, KnownOK
<1>11. CASE Restart
  BY <1>11, RestartRest
<1>12. CASE UNCHANGED vars
  BY <1>12, StillRest DEF vars, disk, HInv, HRest, KnownOK
<1> QED
  BY <1>1, <1>2, <1>3, <1>4, <1>5, <1>6, <1>7, <1>8, <1>9, <1>10, <1>11, <1>12 DEF Next

\* The owners of a track, counted: one, or none.
LEMMA OwnersCounted ==
  ASSUME HInv PROVE OneOwnerPerTrack
<1> DEFINE Calls(id) == {c \in Callers : call[c].pc \in {"reread", "swap", "dropOld", "submit", "offer", "fail", "release"}
                                        /\ call[c].id = id}
           Queued(id) == {i \in DOMAIN jobs : jobs[i].id = id}
           Worked(id) == {w \in Workers : worker[w] # Idle /\ worker[w].id = id}
<1>0. Cardinality({}) = 0 /\ \A x : Cardinality({x}) = 1
  BY FS_EmptySet, FS_Singleton
<1>1. \A w \in Workers : worker[w] # Idle <=> Occupied(w)
  BY DEF HInv, HRest, WorkOK, Worker, Busy, Idle, Occupied
<1>2. ASSUME NEW id \in Ids
      PROVE  Cardinality(Calls(id)) + Cardinality(Queued(id)) + Cardinality(Worked(id))
             = (IF id \in reserved THEN 1 ELSE 0)
  <2>1. \A c \in Calls(id) : c \in Callers /\ Holder(c) /\ call[c].id = id
    BY DEF Holder, Holds
  <2>2. \A w \in Worked(id) : w \in Workers /\ Occupied(w) /\ worker[w].id = id
    BY <1>1
  <2>3. CASE id \notin reserved
    <3>1. Calls(id) = {} /\ Queued(id) = {} /\ Worked(id) = {}
      BY <2>1, <2>2, <2>3 DEF HInv, HRest, OwnOK
    <3> HIDE DEF Calls, Queued, Worked
    <3> QED
      BY <2>3, <3>1, FS_EmptySet
  <2>4. CASE id \in reserved
    <3>1. CASE \E c \in Callers : Holder(c) /\ call[c].id = id
      <4>1. PICK c \in Callers : Holder(c) /\ call[c].id = id
        BY <3>1
      <4>2. Calls(id) = {c} /\ Queued(id) = {} /\ Worked(id) = {}
        <5>1. c \in Calls(id)
          BY <4>1 DEF Holder, Holds
        <5> QED
          BY <2>1, <2>2, <4>1, <5>1 DEF HInv, HRest, OwnOK
      <4> HIDE DEF Calls, Queued, Worked
      <4> QED
        BY <1>0, <2>4, <4>2
    <3>2. CASE \E i \in DOMAIN jobs : jobs[i].id = id
      <4>1. PICK i \in DOMAIN jobs : jobs[i].id = id
        BY <3>2
      <4>2. Calls(id) = {} /\ Queued(id) = {i} /\ Worked(id) = {}
        BY <2>1, <2>2, <4>1 DEF HInv, HRest, OwnOK
      <4> HIDE DEF Calls, Queued, Worked
      <4> QED
        BY <1>0, <2>4, <4>2
    <3>3. CASE \E w \in Workers : Occupied(w) /\ worker[w].id = id
      <4>1. PICK w \in Workers : Occupied(w) /\ worker[w].id = id
        BY <3>3
      <4>2. Calls(id) = {} /\ Queued(id) = {} /\ Worked(id) = {w}
        <5>1. w \in Worked(id)
          BY <1>1, <4>1
        <5> QED
          BY <2>1, <2>2, <4>1, <5>1 DEF HInv, HRest, OwnOK
      <4> HIDE DEF Calls, Queued, Worked
      <4> QED
        BY <1>0, <2>4, <4>2
    <3> QED
      BY <2>4, <3>1, <3>2, <3>3 DEF HInv, HRest, OwnOK
  <2> QED
    BY <2>3, <2>4
<1> DEFINE tasks == ToSet(jobs) \cup {[id |-> worker[w].id, input |-> worker[w].input] :
                                     w \in {v \in Workers : worker[v].pc \in {"start", "run", "complete"}}}
<1>3. ASSUME NEW job \in tasks, job.id \in Live
      PROVE  row[job.id].source = job.input
  <2>1. CASE job \in ToSet(jobs)
    BY <1>3, <2>1 DEF ToSet, HInv, HRest, TasksOK, Tasked
  <2>2. CASE \E w \in Workers : /\ worker[w].pc \in {"start", "run", "complete"}
                               /\ job = [id |-> worker[w].id, input |-> worker[w].input]
    BY <1>3, <2>2 DEF HInv, HRest, TasksOK, Tasked
  <2> QED
    BY <2>1, <2>2
<1> HIDE DEF tasks, Calls, Queued, Worked
<1>4. \A id \in Ids : Cardinality(Calls(id)) + Cardinality(Queued(id)) + Cardinality(Worked(id))
             = (IF id \in reserved THEN 1 ELSE 0)
  BY <1>2
<1>5. \A job \in tasks : job.id \in Live => row[job.id].source = job.input
  BY <1>3
<1> QED
  BY <1>4, <1>5, Zenon DEF OneOwnerPerTrack, tasks, Calls, Queued, Worked

LEMMA WholeInvariant == Spec => []HInv
<1>1. Init => HInv
  BY StartsWhole
<1>2. HInv /\ [Next]_vars => HInv'
  BY StepsWhole
<1> QED
  BY <1>1, <1>2, PTL DEF Spec


\* A track is reserved exactly while one call (Upload, retryUpload, the
\* feeder), one queued job or one worker has it, and the input of its job is
\* the source its row names, through retries, refusals of the queue,
\* deletions, failed writes and restarts.
THEOREM OneOwner == Spec => []OneOwnerPerTrack
<1>1. HInv => OneOwnerPerTrack
  BY OwnersCounted
<1> QED
  BY <1>1, WholeInvariant, PTL

\* The output of a completed track and the source of any other are on disk:
\* no DropOld, Discard, DropFiles or DeleteFiles removes a file that a live
\* row needs, but for the source of an insert whose caller was told it failed.
THEOREM MaterialKept == Spec => []MaterialIsKept
<1>1. HInv => MaterialIsKept
  BY DEF HInv, HRest
<1> QED
  BY <1>1, WholeInvariant, PTL
=============================================================================
