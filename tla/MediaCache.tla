----------------------------- MODULE MediaCache -----------------------------
(***************************************************************************)
(* The cache of downloaded media (media/cache.go, cache_capacity.go,       *)
(* cache_download.go): a bounded queue of jobs, workers that download into *)
(* partial files, a quota over what is committed and what is reserved, and *)
(* eviction of the least recently used file no reader has pinned.  Every   *)
(* action but the reading of a response is one critical section of the     *)
(* mutex.  Nobody else touches the directory.  Sizes are in units a worker *)
(* writes at once.                                                         *)
(***************************************************************************)
EXTENDS Naturals, Sequences, FiniteSets

CONSTANTS
    Keys, Workers, Readers,
    Capacity,      \* jobs the queue holds
    Limit,         \* downloads a platform allows at once; the keys are of one platform
    MaxBytes, MaxFile, Initial,  \* maxBytes, MaxFileBytes, ReservationBytes
    Retries,
    None

VARIABLES
    file,      \* what is on disk: size per file id, or None
    entry,     \* entries: the size the index has for a file id, or None
    older,     \* accessOrder: the pairs of indexed ids whose first was used before
    used, reserved,
    jobs, inflight,
    worker,    \* per worker its job and how far its attempt is
    reading,   \* per reader the key it has pinned, or None
    closed

vars == <<file, entry, older, used, reserved, jobs, inflight, worker, reading, closed>>
index == <<file, entry, older, used, reserved>>

Media(k) == <<k, "media">>
Part(k) == <<k, "part">>
Files == Keys \X {"media", "part"}
Free == [phase |-> "free"]

Pinned == {Media(reading[x]) : x \in {y \in Readers : reading[y] # None}}
Indexed == {f \in Files : entry[f] # None}

\* The sum of the values of a function.
Total(sizes) == Cardinality(UNION {{i} \X (1..sizes[i]) : i \in DOMAIN sizes})
BytesOf(sizes) == Total([f \in {g \in Files : sizes[g] # None} |-> sizes[f]])

Without(fs) == {p \in older : p[1] \notin fs /\ p[2] \notin fs}
Touched(f) == Without({f}) \cup ((Indexed \ {f}) \X {f})

-----------------------------------------------------------------------------
(* makeRoomLocked *)

FreedBy(victims) == Total([f \in victims |-> entry[f]])
Fits(victims, need) == need + used + reserved <= MaxBytes + FreedBy(victims)

\* Those of the candidates that go: each before which too little was freed.
Oldest(candidates, need) ==
    {f \in candidates : ~Fits({g \in candidates : <<g, f>> \in older}, need)}

\* Mutant: pinned files are evicted like any other.
VictimsUnpinned(stuck, need) == Oldest(Indexed \ stuck, need)

\* The files evicted for need bytes, oldest first and no more than needed; those
\* that are stuck cannot be removed, and the next one is tried.
Victims(stuck, need) == Oldest(Indexed \ (Pinned \cup stuck), need)

Evict(victims) ==
    /\ file' = [f \in Files |-> IF f \in victims THEN None ELSE file[f]]
    /\ entry' = [f \in Files |-> IF f \in victims THEN None ELSE entry[f]]
    /\ older' = Without(victims)
    /\ used' = used - FreedBy(victims)

-----------------------------------------------------------------------------
(* Callers *)

\* lookupLocked finds the file and marks it used; Acquire pins it.
Acquire(x, k) ==
    /\ reading[x] = None /\ file[Media(k)] # None
    /\ older' = Touched(Media(k))
    /\ reading' = [reading EXCEPT ![x] = k]
    /\ UNCHANGED <<file, entry, used, reserved, jobs, inflight, worker, closed>>

Release(x) ==
    /\ reading[x] # None
    /\ reading' = [reading EXCEPT ![x] = None]
    /\ UNCHANGED <<index, jobs, inflight, worker, closed>>

\* Get, and a Submit for what is there.
Lookup(k) ==
    /\ file[Media(k)] # None
    /\ older' = Touched(Media(k))
    /\ UNCHANGED <<file, entry, used, reserved, jobs, inflight, worker, reading, closed>>

Submit(k) ==
    /\ ~closed /\ file[Media(k)] = None /\ k \notin inflight
    /\ Len(jobs) < Capacity
    /\ inflight' = inflight \cup {k}
    /\ jobs' = Append(jobs, k)
    /\ UNCHANGED <<index, worker, reading, closed>>

-----------------------------------------------------------------------------
(* Workers *)

Take(w) ==
    /\ worker[w] = Free /\ jobs # <<>>
    /\ worker' = [worker EXCEPT ![w] = [phase |-> "admission", key |-> Head(jobs)]]
    /\ jobs' = Tail(jobs)
    /\ UNCHANGED <<index, inflight, reading, closed>>

Admitted == {w \in Workers : worker[w].phase \in {"request", "body", "refused"}}

Admit(w) ==
    /\ worker[w].phase = "admission" /\ Cardinality(Admitted) < Limit
    /\ worker' = [worker EXCEPT ![w] = [phase |-> "request", key |-> @.key, tries |-> 0]]
    /\ UNCHANGED <<index, jobs, inflight, reading, closed>>

\* What follows an attempt: another one, or the end of the job, which gives
\* its place on the platform back.
After(w, retry) ==
    worker' = [worker EXCEPT ![w] = IF retry /\ @.tries < Retries /\ ~closed
                                    THEN [phase |-> "request", key |-> @.key, tries |-> @.tries + 1]
                                    ELSE [phase |-> "end", key |-> @.key]]

\* No connection, 429 or 5xx (again); any other status, or too long (no more).
Refused(w) ==
    /\ worker[w].phase = "request"
    /\ \E retry \in BOOLEAN : After(w, retry)
    /\ UNCHANGED <<index, jobs, inflight, reading, closed>>

\* A response of the given length, or of none: reserveSpace, then at once the
\* partial file, which must not exist and which no other worker would make.
Respond(w, length, stuck) ==
    LET k == worker[w].key
        need == IF length = None THEN Initial ELSE length
        victims == Victims(stuck, need)
    IN  /\ worker[w].phase = "request"
        /\ length # None => length <= MaxFile
        /\ entry' = [f \in Files |-> IF f \in victims THEN None ELSE entry[f]]
        /\ older' = Without(victims)
        /\ used' = used - FreedBy(victims)
        /\ IF Fits(victims, need) /\ (file[Part(k)] = None \/ Part(k) \in victims)
           THEN /\ file' = [f \in Files |-> IF f = Part(k) THEN 0 ELSE IF f \in victims THEN None ELSE file[f]]
                /\ reserved' = reserved + need
                /\ worker' = [worker EXCEPT ![w] = [phase |-> "body", key |-> k, tries |-> @.tries,
                                                    bytes |-> need, length |-> length]]
           ELSE /\ file' = [f \in Files |-> IF f \in victims THEN None ELSE file[f]]
                /\ After(w, FALSE)
                /\ UNCHANGED reserved
        /\ UNCHANGED <<jobs, inflight, reading, closed>>

\* Mutant: quota is released for a partial file that cannot be removed.
DiscardForgetting(w, stuck) ==
    LET p == Part(worker[w].key)
    IN  /\ file' = [file EXCEPT ![p] = IF stuck THEN @ ELSE None]
        /\ reserved' = reserved - worker[w].bytes
        /\ UNCHANGED <<entry, older, used>>

\* discardPartial: debris that stays on disk is indexed at its size.
Discard(w, stuck) ==
    LET p == Part(worker[w].key)
    IN  /\ reserved' = reserved - worker[w].bytes
        /\ IF stuck
           THEN /\ entry' = [entry EXCEPT ![p] = file[p]]
                /\ older' = Touched(p)
                /\ used' = used + file[p]
                /\ UNCHANGED file
           ELSE /\ file' = [file EXCEPT ![p] = None]
                /\ UNCHANGED <<entry, older, used>>

Writing(w) == worker[w].phase \in {"body", "refused"}
Written(w) == file[Part(worker[w].key)]

\* cacheWriter.Write: the reservation grows first, evicting if it must.
Write(w, stuck) ==
    LET k == worker[w].key
        extra == IF Written(w) + 1 <= worker[w].bytes THEN 0 ELSE 1
        victims == IF extra = 0 THEN {} ELSE Victims(stuck, extra)
    IN  /\ worker[w].phase = "body" /\ ~closed
        /\ worker[w].length # None => Written(w) < worker[w].length
        /\ Written(w) < MaxFile
        /\ Fits(victims, extra) \/ extra = 0
        /\ entry' = [f \in Files |-> IF f \in victims THEN None ELSE entry[f]]
        /\ older' = Without(victims)
        /\ used' = used - FreedBy(victims)
        /\ file' = [f \in Files |-> IF f = Part(k) THEN Written(w) + 1 ELSE IF f \in victims THEN None ELSE file[f]]
        /\ reserved' = reserved + extra
        /\ worker' = [worker EXCEPT ![w].bytes = @ + extra]
        /\ UNCHANGED <<jobs, inflight, reading, closed>>

\* makeRoomLocked evicts all it can before it gives up; the copy ends with
\* its error, and the download is not tried again.
WriteRefused(w, stuck) ==
    LET victims == Victims(stuck, 1)
    IN  /\ worker[w].phase = "body" /\ ~closed
        /\ Written(w) = worker[w].bytes /\ worker[w].length = None /\ Written(w) < MaxFile
        /\ ~Fits(victims, 1)
        /\ Evict(victims)
        /\ worker' = [worker EXCEPT ![w].phase = "refused"]
        /\ UNCHANGED <<reserved, jobs, inflight, reading, closed>>

\* A broken body is tried again; one that grows past MaxFile is not.
Break(w, stuck) ==
    /\ Writing(w)
    /\ Discard(w, stuck)
    /\ IF worker[w].phase = "refused" THEN After(w, FALSE)
       ELSE \E retry \in BOOLEAN : (Written(w) < MaxFile => retry) /\ After(w, retry)
    /\ UNCHANGED <<jobs, inflight, reading, closed>>

\* commitPartial
Commit(w) ==
    LET k == worker[w].key  old == entry[Media(worker[w].key)]
    IN  /\ worker[w].phase = "body" /\ ~closed
        /\ worker[w].length # None => Written(w) = worker[w].length
        /\ file' = [file EXCEPT ![Part(k)] = None, ![Media(k)] = Written(w)]
        /\ entry' = [entry EXCEPT ![Media(k)] = Written(w)]
        /\ older' = Touched(Media(k))
        /\ used' = used + Written(w) - (IF old = None THEN 0 ELSE old)
        /\ reserved' = reserved - worker[w].bytes
        /\ worker' = [worker EXCEPT ![w] = [phase |-> "end", key |-> k]]
        /\ UNCHANGED <<jobs, inflight, reading, closed>>

\* The job's deadline passes, the cache closes, or the rename fails.
Abandon(w, stuck) ==
    /\ worker[w].phase \in {"admission", "request", "body", "refused"}
    /\ IF Writing(w) THEN Discard(w, stuck) ELSE UNCHANGED index
    /\ worker' = [worker EXCEPT ![w] = [phase |-> "end", key |-> @.key]]
    /\ UNCHANGED <<jobs, inflight, reading, closed>>

Finish(w) ==
    /\ worker[w].phase = "end"
    /\ inflight' = inflight \ {worker[w].key}
    /\ worker' = [worker EXCEPT ![w] = Free]
    /\ UNCHANGED <<index, jobs, reading, closed>>

-----------------------------------------------------------------------------
(* Close, and a process that ends anywhere and starts again *)

Close ==
    /\ ~closed
    /\ closed' = TRUE
    /\ UNCHANGED <<index, jobs, inflight, worker, reading>>

\* Close waits for the workers, then clears what is queued.
Closed ==
    /\ closed /\ \A w \in Workers : worker[w] = Free
    /\ jobs' = <<>> /\ inflight' = {}
    /\ UNCHANGED <<index, worker, reading, closed>>

\* scan: partial files are removed, and what is there is indexed in the
\* order of the files' times.  (With the limit it had before, the directory
\* is within it; a start that cannot remove a file fails.)
Scan ==
    LET media == {f \in Files : f[2] = "media" /\ file[f] # None}
    IN  /\ file' = [f \in Files |-> IF f \in media THEN file[f] ELSE None]
        /\ entry' = file'
        /\ \E s \in [1..Cardinality(media) -> media] :
               /\ \A f \in media : \E i \in DOMAIN s : s[i] = f
               /\ older' = {p \in media \X media : \E i, j \in DOMAIN s : i < j /\ p = <<s[i], s[j]>>}
        /\ used' = BytesOf(file')

Restart ==
    /\ Scan
    /\ reserved' = 0 /\ jobs' = <<>> /\ inflight' = {} /\ closed' = FALSE
    /\ worker' = [w \in Workers |-> Free] /\ reading' = [x \in Readers |-> None]

Init ==
    /\ file = [f \in Files |-> None] /\ entry = file
    /\ older = {} /\ used = 0 /\ reserved = 0
    /\ jobs = <<>> /\ inflight = {} /\ closed = FALSE
    /\ worker = [w \in Workers |-> Free] /\ reading = [x \in Readers |-> None]

Next ==
    \/ \E x \in Readers, k \in Keys : Acquire(x, k)
    \/ \E x \in Readers : Release(x)
    \/ \E k \in Keys : Lookup(k) \/ Submit(k)
    \/ \E w \in Workers : Take(w) \/ Admit(w) \/ Refused(w) \/ Commit(w) \/ Finish(w)
    \/ \E w \in Workers, length \in (0..MaxFile) \cup {None}, stuck \in SUBSET Indexed : Respond(w, length, stuck)
    \/ \E w \in Workers, stuck \in SUBSET Indexed : Write(w, stuck) \/ WriteRefused(w, stuck)
    \/ \E w \in Workers, stuck \in BOOLEAN : Break(w, stuck) \/ Abandon(w, stuck)
    \/ Close \/ Closed \/ Restart

Spec == Init /\ [][Next]_vars

-----------------------------------------------------------------------------
(* Properties *)

\* The quota covers the disk: what the index counts is what is there, every
\* partial file is within its worker's reservation, and all of it within
\* the limit, also when a file cannot be removed.
QuotaCoversDisk ==
    LET active == {w \in Workers : Writing(w)}
        partial == {Part(worker[w].key) : w \in active}
    IN  /\ \A f \in Files \ partial : file[f] = entry[f]
        /\ \A w \in active : Written(w) <= worker[w].bytes
        /\ used = BytesOf(entry)
        /\ reserved = Total([w \in active |-> worker[w].bytes])
        /\ used + reserved <= MaxBytes

\* The file a reader serves from is not removed under it.
ReadersKeepTheirFile == \A x \in Readers : reading[x] # None => file[Media(reading[x])] # None
=============================================================================
