---------------------------- MODULE LocalLibrary ----------------------------
(***************************************************************************)
(* The local library (media/local_library.go, local_recovery.go,           *)
(* transcode.go) over the rows of local_track: uploads that may repeat one *)
(* another, the reservation of a track, the bounded queue of transcodes,   *)
(* its workers, deletion, and the feeder that recovers what a process left *)
(* unfinished.  A step is one read, one transaction or one change of a     *)
(* file; between any two the process may end and start again.              *)
(***************************************************************************)
EXTENDS Naturals, Sequences, FiniteSets, FiniteSetsExt, SequencesExt

CONSTANTS
    MaxUploads,  \* bounds the ids given out; a track, its source and its output carry the upload's
    Contents, Uploaders, Feeder, Deleters, Workers,
    Capacity,    \* transcodes the queue holds
    None

Row == [status : {"PENDING", "PROCESSING", "FAILED", "COMPLETED", "DELETED"},
        hash : Contents, source : (1..MaxUploads) \cup {None}]

Page == [todo : SUBSET (1..MaxUploads), after : Nat]

ASSUME LibraryAssumption == None \notin Row /\ None \notin Page /\ None \notin 1..MaxUploads

VARIABLES
    row,       \* local_track: per id None or [status, hash, source]
    sources, outputs,  \* the files under source/ and media/
    fresh,     \* ids not given out
    reserved,  \* inFlight
    jobs, worker,
    call,      \* per uploader and for the feeder, where it is
    feeder,    \* the page and the key recovery has reached
    deleting,
    closed,
    abandoned  \* history: rows inserted by a call that was told it had not been

vars == <<row, sources, outputs, fresh, reserved, jobs, worker, call, feeder, deleting, closed, abandoned>>
disk == <<row, sources, outputs>>
queue == <<jobs, worker, closed>>

Ids == 1..MaxUploads
Callers == Uploaders \cup {Feeder}
Idle == [pc |-> "idle"]
Live == {id \in Ids : row[id] # None /\ row[id].status # "DELETED"}
Active(h) == {id \in Live : row[id].hash = h}

Goto(c, pc) == call' = [call EXCEPT ![c].pc = pc]
Done(c) == call' = [call EXCEPT ![c] = Idle]

-----------------------------------------------------------------------------
(* Writes of a status *)

\* Mutant: the row is written whatever its status.
UpdateAny(id, status) == row' = [row EXCEPT ![id].status = status]

\* UpdateStatus of a deleted row changes nothing.
UpdateStatus(id, status) ==
    IF id \in Live THEN row' = [row EXCEPT ![id].status = status] ELSE UNCHANGED row

-----------------------------------------------------------------------------
(* Upload *)

Upload(u, h) ==
    /\ call[u] = Idle /\ ~closed
    /\ \E id \in fresh :
         /\ fresh' = fresh \ {id}
         /\ sources' = sources \cup {id}
         /\ call' = [call EXCEPT ![u] = [pc |-> "find", file |-> id, hash |-> h]]
    /\ UNCHANGED <<row, outputs, reserved, queue, feeder, deleting, abandoned>>

\* FindActiveByOriginalHash, before the insert and after one that failed.
Find(u) ==
    LET found == Active(call[u].hash)
    IN  /\ call[u].pc \in {"find", "findAgain"}
        /\ IF found # {}
           THEN \E id \in found :
                  call' = [call EXCEPT ![u] = [pc |-> "retry", file |-> @.file, id |-> id, status |-> row[id].status]]
           ELSE Goto(u, IF call[u].pc = "find" THEN "insert" ELSE "discard")
        /\ UNCHANGED <<disk, fresh, reserved, queue, feeder, deleting, abandoned>>

\* A read fails, or its context is done.
FindFails(u) ==
    /\ call[u].pc \in {"find", "findAgain"}
    /\ Goto(u, "discard")
    /\ UNCHANGED <<disk, fresh, reserved, queue, feeder, deleting, abandoned>>

Discard(u) ==
    /\ call[u].pc = "discard"
    /\ sources' = sources \ {call[u].file}
    /\ Done(u)
    /\ UNCHANGED <<row, outputs, fresh, reserved, queue, feeder, deleting, abandoned>>

Pending(u) == [status |-> "PENDING", hash |-> call[u].hash, source |-> call[u].file]

\* Upsert: one live row per content, by the unique index.
Insert(u) ==
    LET id == call[u].file
    IN  /\ call[u].pc = "insert"
        /\ \/ /\ Active(call[u].hash) = {}
              /\ row' = [row EXCEPT ![id] = Pending(u)]
              /\ call' = [call EXCEPT ![u] = [pc |-> "reserve", id |-> id]]
           \/ Goto(u, "findAgain") /\ UNCHANGED row
        /\ UNCHANGED <<sources, outputs, fresh, reserved, queue, feeder, deleting, abandoned>>

\* The transaction commits while its caller, whose context is done, is told
\* it was cancelled; the read that follows fails for the same reason.
InsertCancelled(u) ==
    LET id == call[u].file
    IN  /\ call[u].pc = "insert" /\ Active(call[u].hash) = {}
        /\ row' = [row EXCEPT ![id] = Pending(u)]
        /\ abandoned' = abandoned \cup {id}
        /\ Goto(u, "discard")
        /\ UNCHANGED <<sources, outputs, fresh, reserved, queue, feeder, deleting>>

Reserve(u) ==
    LET id == call[u].id
    IN  /\ call[u].pc = "reserve"
        /\ IF id \in reserved THEN Done(u) /\ UNCHANGED reserved
           ELSE Goto(u, "submit") /\ reserved' = reserved \cup {id}
        /\ UNCHANGED <<disk, fresh, queue, feeder, deleting, abandoned>>

-----------------------------------------------------------------------------
(* retryUpload *)

\* Mutant: a track in flight is taken over.
RetryUnreserved(u) ==
    /\ call[u].pc = "retry"
    /\ IF call[u].status = "COMPLETED" THEN Goto(u, "discard") /\ UNCHANGED reserved
       ELSE Goto(u, "reread") /\ reserved' = reserved \cup {call[u].id}
    /\ UNCHANGED <<disk, fresh, queue, feeder, deleting, abandoned>>

Retry(u) ==
    /\ call[u].pc = "retry"
    /\ IF call[u].status = "COMPLETED" \/ call[u].id \in reserved
       THEN Goto(u, "discard") /\ UNCHANGED reserved
       ELSE Goto(u, "reread") /\ reserved' = reserved \cup {call[u].id}
    /\ UNCHANGED <<disk, fresh, queue, feeder, deleting, abandoned>>

GiveUp(u) ==
    /\ reserved' = reserved \ {call[u].id}
    /\ Goto(u, "discard")

Reread(u) ==
    LET id == call[u].id
    IN  /\ call[u].pc = "reread"
        /\ \/ /\ row[id].status \notin {"DELETED", "COMPLETED"}
              /\ call' = [call EXCEPT ![u] = [pc |-> "swap", file |-> @.file, id |-> id, old |-> row[id].source]]
              /\ UNCHANGED reserved
           \/ GiveUp(u)
        /\ UNCHANGED <<disk, fresh, queue, feeder, deleting, abandoned>>

\* Mutant: the replaced source is removed before its row names the new one.
SwapEarly(u) ==
    LET id == call[u].id
    IN  /\ call[u].pc = "swap"
        /\ sources' = sources \ {call[u].old}
        /\ \/ /\ row[id].status \in {"PENDING", "PROCESSING", "FAILED"}
              /\ row' = [row EXCEPT ![id].status = "PENDING", ![id].source = call[u].file]
              /\ Goto(u, "dropOld")
              /\ UNCHANGED reserved
           \/ GiveUp(u) /\ UNCHANGED row
        /\ UNCHANGED <<outputs, fresh, queue, feeder, deleting, abandoned>>

\* RetryTranscode: the committed result is waited for, whoever cancels.
Swap(u) ==
    LET id == call[u].id
    IN  /\ call[u].pc = "swap"
        /\ \/ /\ row[id].status \in {"PENDING", "PROCESSING", "FAILED"}
              /\ row' = [row EXCEPT ![id].status = "PENDING", ![id].source = call[u].file]
              /\ Goto(u, "dropOld")
              /\ UNCHANGED reserved
           \/ GiveUp(u) /\ UNCHANGED row
        /\ UNCHANGED <<sources, outputs, fresh, queue, feeder, deleting, abandoned>>

DropOld(u) ==
    /\ call[u].pc = "dropOld"
    /\ sources' = sources \ {call[u].old}
    /\ call' = [call EXCEPT ![u] = [pc |-> "submit", id |-> @.id]]
    /\ UNCHANGED <<row, outputs, fresh, reserved, queue, feeder, deleting, abandoned>>

-----------------------------------------------------------------------------
(* submitReserved, of an upload and of the feeder *)

Release(c) ==
    /\ call[c].pc = "release"
    /\ reserved' = reserved \ {call[c].id}
    /\ Done(c)
    /\ UNCHANGED <<disk, fresh, queue, feeder, deleting, abandoned>>

\* The row and its source are looked at; the read may fail.
Inspect(c) ==
    LET id == call[c].id
    IN  /\ call[c].pc = "submit"
        /\ \/ Goto(c, "release")
           \/ /\ row[id].status \notin {"DELETED", "COMPLETED"}
              /\ IF row[id].source \in sources
                 THEN call' = [call EXCEPT ![c] = [pc |-> "offer", id |-> id, input |-> row[id].source]]
                 ELSE Goto(c, "fail")
        /\ UNCHANGED <<disk, fresh, reserved, queue, feeder, deleting, abandoned>>

\* Submit refuses when the queue is full; SubmitWait waits for room.
Offer(c) ==
    LET job == [id |-> call[c].id, input |-> call[c].input]
    IN  /\ call[c].pc = "offer"
        /\ \/ closed /\ Goto(c, "release") /\ UNCHANGED jobs
           \/ /\ Len(jobs) < Capacity /\ (closed => c = Feeder)
              /\ jobs' = Append(jobs, job) /\ Done(c)
           \/ ~closed /\ Len(jobs) >= Capacity /\ c # Feeder /\ Goto(c, "fail") /\ UNCHANGED jobs
        /\ UNCHANGED <<disk, fresh, reserved, worker, closed, feeder, deleting, abandoned>>

Fail(c) ==
    /\ call[c].pc = "fail"
    /\ UpdateStatus(call[c].id, "FAILED")
    /\ Goto(c, "release")
    /\ UNCHANGED <<sources, outputs, fresh, reserved, queue, feeder, deleting, abandoned>>

-----------------------------------------------------------------------------
(* RecoverPending *)

NextPage ==
    /\ feeder # None /\ call[Feeder] = Idle /\ feeder.todo = {} /\ ~closed
    /\ LET page == {id \in Live : row[id].status \in {"PENDING", "PROCESSING"} /\ id > feeder.after}
       IN  \E stop \in {page = {}, TRUE} : feeder' = IF stop THEN None ELSE [feeder EXCEPT !.todo = page]
    /\ UNCHANGED <<disk, fresh, reserved, queue, call, deleting, abandoned>>

Recover ==
    /\ feeder # None /\ call[Feeder] = Idle /\ feeder.todo # {} /\ ~closed
    /\ \E id \in feeder.todo :
         /\ \A other \in feeder.todo : id <= other
         /\ feeder' = [todo |-> feeder.todo \ {id}, after |-> id]
         /\ IF id \in reserved THEN UNCHANGED <<call, reserved>>
            ELSE /\ reserved' = reserved \cup {id}
                 /\ call' = [call EXCEPT ![Feeder] = [pc |-> "submit", id |-> id]]
    /\ UNCHANGED <<disk, fresh, queue, deleting, abandoned>>

-----------------------------------------------------------------------------
(* Workers *)

Work(w, pc) == worker' = [worker EXCEPT ![w].pc = pc]

Take(w) ==
    /\ worker[w] = Idle /\ jobs # <<>>
    /\ worker' = [worker EXCEPT ![w] = [pc |-> "start", id |-> Head(jobs).id, input |-> Head(jobs).input]]
    /\ jobs' = Tail(jobs)
    /\ UNCHANGED <<disk, fresh, reserved, call, feeder, deleting, closed, abandoned>>

\* Start: a deleted track ends the job, a failed write fails it.
Start(w) ==
    LET id == worker[w].id
    IN  /\ worker[w].pc = "start"
        /\ \/ UpdateStatus(id, "PROCESSING") /\ Work(w, IF id \in Live THEN "run" ELSE "release")
           \/ Work(w, "failed") /\ UNCHANGED row
        /\ UNCHANGED <<sources, outputs, fresh, reserved, jobs, call, feeder, deleting, closed, abandoned>>

\* ffmpeg writes a partial file that is renamed; a missing source, a
\* timeout or a failure is an error, and so is the transcoder's end.
Run(w) ==
    LET id == worker[w].id
    IN  /\ worker[w].pc = "run"
        /\ \/ worker[w].input \in sources /\ outputs' = outputs \cup {id} /\ Work(w, "complete")
           \/ Work(w, "failed") /\ UNCHANGED outputs
           \/ closed /\ Work(w, "cancelled") /\ UNCHANGED outputs
        /\ UNCHANGED <<row, sources, fresh, reserved, jobs, call, feeder, deleting, closed, abandoned>>

\* completeTranscode of a job that did not succeed; the write may fail too.
Unsuccessful(w) ==
    /\ worker[w].pc \in {"failed", "cancelled"}
    /\ \/ UpdateStatus(worker[w].id, IF worker[w].pc = "failed" THEN "FAILED" ELSE "PENDING")
       \/ UNCHANGED row
    /\ Work(w, "release")
    /\ UNCHANGED <<sources, outputs, fresh, reserved, jobs, call, feeder, deleting, closed, abandoned>>

\* CompleteTranscode; when it fails the source stays, and the output too
\* unless the track was deleted.
Complete(w) ==
    LET id == worker[w].id
    IN  /\ worker[w].pc = "complete"
        /\ \/ /\ id \in Live
              /\ row' = [row EXCEPT ![id].status = "COMPLETED", ![id].source = None]
              /\ Work(w, "dropSource")
           \/ id \notin Live /\ Work(w, "dropOutput") /\ UNCHANGED row
           \/ Work(w, "release") /\ UNCHANGED row
        /\ UNCHANGED <<sources, outputs, fresh, reserved, jobs, call, feeder, deleting, closed, abandoned>>

DropFiles(w) ==
    /\ \/ worker[w].pc = "dropSource" /\ sources' = sources \ {worker[w].input} /\ UNCHANGED outputs
       \/ worker[w].pc = "dropOutput" /\ outputs' = outputs \ {worker[w].id} /\ UNCHANGED sources
    /\ Work(w, "release")
    /\ UNCHANGED <<row, fresh, reserved, jobs, call, feeder, deleting, closed, abandoned>>

ReleaseTrack(w) ==
    /\ worker[w].pc = "release"
    /\ reserved' = reserved \ {worker[w].id}
    /\ worker' = [worker EXCEPT ![w] = Idle]
    /\ UNCHANGED <<disk, fresh, jobs, call, feeder, deleting, closed, abandoned>>

-----------------------------------------------------------------------------
(* Delete: the files removed are those of the row before the transaction,  *)
(* and none when the caller is told that it failed.                        *)

Delete(d, id) ==
    /\ deleting[d] = Idle /\ row[id] # None
    /\ deleting' = [deleting EXCEPT ![d] = [pc |-> "tx", id |-> id, source |-> row[id].source,
                                            output |-> row[id].status = "COMPLETED"]]
    /\ UNCHANGED <<disk, fresh, reserved, queue, call, feeder, abandoned>>

DeleteTx(d) ==
    /\ deleting[d].pc = "tx"
    /\ row' = [row EXCEPT ![deleting[d].id].status = "DELETED"]
    /\ \E told \in BOOLEAN :
         deleting' = [deleting EXCEPT ![d] = IF told THEN [@ EXCEPT !.pc = "files"] ELSE Idle]
    /\ UNCHANGED <<sources, outputs, fresh, reserved, queue, call, feeder, abandoned>>

DeleteFiles(d) ==
    /\ deleting[d].pc = "files"
    /\ sources' = sources \ {deleting[d].source}
    /\ outputs' = IF deleting[d].output THEN outputs \ {deleting[d].id} ELSE outputs
    /\ deleting' = [deleting EXCEPT ![d] = Idle]
    /\ UNCHANGED <<row, fresh, reserved, queue, call, feeder, abandoned>>

-----------------------------------------------------------------------------
(* Close, and a process that ends anywhere and starts again *)

Close ==
    /\ ~closed
    /\ closed' = TRUE
    /\ UNCHANGED <<disk, fresh, reserved, jobs, worker, call, feeder, deleting, abandoned>>

Quiet ==
    /\ reserved' = {} /\ jobs' = <<>> /\ closed' = FALSE
    /\ worker' = [w \in Workers |-> Idle]
    /\ call' = [c \in Callers |-> Idle]
    /\ deleting' = [d \in Deleters |-> Idle]
    /\ feeder' = [todo |-> {}, after |-> 0]

Restart == Quiet /\ UNCHANGED <<disk, fresh, abandoned>>

Init ==
    /\ row = [id \in Ids |-> None] /\ sources = {} /\ outputs = {} /\ fresh = Ids
    /\ reserved = {} /\ jobs = <<>> /\ closed = FALSE
    /\ worker = [w \in Workers |-> Idle]
    /\ call = [c \in Callers |-> Idle]
    /\ deleting = [d \in Deleters |-> Idle]
    /\ feeder = [todo |-> {}, after |-> 0] /\ abandoned = {}

Next ==
    \/ \E u \in Uploaders, h \in Contents : Upload(u, h)
    \/ \E u \in Uploaders :
         \/ Find(u) \/ FindFails(u) \/ Discard(u) \/ Insert(u) \/ InsertCancelled(u) \/ Reserve(u)
         \/ Retry(u) \/ Reread(u) \/ Swap(u) \/ DropOld(u)
    \/ \E c \in Callers : Inspect(c) \/ Offer(c) \/ Fail(c) \/ Release(c)
    \/ NextPage \/ Recover
    \/ \E w \in Workers :
         Take(w) \/ Start(w) \/ Run(w) \/ Unsuccessful(w) \/ Complete(w) \/ DropFiles(w) \/ ReleaseTrack(w)
    \/ \E d \in Deleters : DeleteTx(d) \/ DeleteFiles(d) \/ \E id \in Ids : Delete(d, id)
    \/ Close \/ Restart

Spec == Init /\ [][Next]_vars

-----------------------------------------------------------------------------
(* Properties *)

\* A track is reserved exactly while one call, one queued job or one worker
\* has it: no track is transcoded twice at a time, none is locked for ever,
\* and the input of its job is still the source its row names.
OneOwnerPerTrack ==
    LET owners(id) ==
            Cardinality({c \in Callers : call[c].pc \in {"reread", "swap", "dropOld", "submit", "offer", "fail", "release"}
                                         /\ call[c].id = id})
            + Cardinality({i \in DOMAIN jobs : jobs[i].id = id})
            + Cardinality({w \in Workers : worker[w] # Idle /\ worker[w].id = id})
        tasks == ToSet(jobs) \cup {[id |-> worker[w].id, input |-> worker[w].input] :
                                     w \in {v \in Workers : worker[v].pc \in {"start", "run", "complete"}}}
    IN  /\ \A id \in Ids : owners(id) = (IF id \in reserved THEN 1 ELSE 0)
        /\ \A job \in tasks : job.id \in Live => row[job.id].source = job.input

\* What a live track needs is on disk through any failed write and any end
\* of the process: its output once completed, else the source it is
\* recovered from - but for an insert whose caller was told it failed.
MaterialIsKept ==
    \A id \in Live : IF row[id].status = "COMPLETED" THEN id \in outputs
                     ELSE row[id].source \in sources \/ row[id].source \in abandoned

\* A deleted track is never brought back: not by the end of its transcode,
\* by another upload of it, nor by recovery.
NoneComesBack == \A id \in Ids : row[id] # None /\ id \notin Live => row'[id].status = "DELETED"
DeletedStaysDeleted == [][NoneComesBack]_vars
=============================================================================
