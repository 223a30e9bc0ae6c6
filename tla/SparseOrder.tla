----------------------------- MODULE SparseOrder ----------------------------
(***************************************************************************)
(* How a room's queue is kept in SQLite (repository_queue.go): each row    *)
(* has a sort order, and a new queue keeps the orders of a longest         *)
(* increasing run of its items and fits the others into the gaps, or       *)
(* numbers everything again.  One room; what a row says besides its order  *)
(* is left out, and so are sums beyond 64 bits.                            *)
(***************************************************************************)
EXTENDS Integers, Sequences, FiniteSets, FiniteSetsExt, SequencesExt

CONSTANTS
    Items,
    Step,      \* queueSortOrderStep, positive
    MaxOrder,  \* bounds the orders on both sides of 0
    Found,     \* orders of the rows an older program has left
    None

VARIABLES
    row,     \* room_queue.sort_order, or None
    desired  \* the queue last written, by id

vars == <<row, desired>>

Queues == {q \in SeqOf(Items, Cardinality(Items)) : IsInjective(q)}
Existing == {i \in Items : row[i] # None}

\* denseSortOrders
Dense(q) == [n \in DOMAIN q |-> n * Step]

\* hasUsableSparseOrder
Usable == Existing # {} /\ \A i, j \in Existing : i # j => row[i] # row[j]

\* longestIncreasingQueueSubsequence: of the runs of each length that end
\* among the first n items, the one with the smallest end; a row that goes on
\* takes the place of the first whose end is not smaller (tails, previous).
Extended(tails, i) ==
    LET low == Min({k \in DOMAIN tails : row[tails[k].end] >= row[i]} \cup {Len(tails) + 1})
        longer == [end |-> i, run |-> {i} \cup (IF low = 1 THEN {} ELSE tails[low - 1].run)]
    IN  IF low > Len(tails) THEN Append(tails, longer) ELSE [tails EXCEPT ![low] = longer]

LongestIncreasing(q) ==
    LET tails[n \in 0..Len(q)] ==
          IF n = 0 THEN <<>>
          ELSE IF q[n] \in Existing THEN Extended(tails[n - 1], q[n]) ELSE tails[n - 1]
        found == tails[Len(q)]
    IN  IF found = <<>> THEN {} ELSE Last(found).run

\* The items of q in [left, right] around n that keep their order; 0 and
\* Len(q) + 1 where there is none.
LeftOf(stable, q, n) == Max({0} \cup {m \in 1..(n - 1) : q[m] \in stable})
RightOf(stable, q, n) == Min({Len(q) + 1} \cup {m \in (n + 1)..Len(q) : q[m] \in stable})

\* Mutant: a gap as wide as the items that go into it is taken.
CrowdedLate(q, stable, left, right) ==
    left > 0 /\ right <= Len(q) /\ row[q[right]] - row[q[left]] < right - left - 1

Crowded(q, stable, left, right) ==
    left > 0 /\ right <= Len(q) /\ row[q[right]] - row[q[left]] <= right - left - 1

Between(q, left, right, n) ==
    IF left = 0 /\ right <= Len(q) THEN row[q[right]] - (right - n) * Step
    ELSE IF left > 0 /\ right > Len(q) THEN row[q[left]] + (n - left) * Step
    ELSE IF left > 0 THEN row[q[left]] + ((row[q[right]] - row[q[left]]) * (n - left)) \div (right - left)
    ELSE n * Step

\* allocateSparseSortOrders
Allocate(q) ==
    LET stable == LongestIncreasing(q)
        moved == {n \in DOMAIN q : q[n] \notin stable}
        left(n) == LeftOf(stable, q, n)
        right(n) == RightOf(stable, q, n)
    IN  IF ~Usable \/ \E n \in moved : Crowded(q, stable, left(n), right(n)) THEN Dense(q)
        ELSE [n \in DOMAIN q |-> IF n \in moved THEN Between(q, left(n), right(n), n) ELSE row[q[n]]]

Position(q, i) == CHOOSE n \in DOMAIN q : q[n] = i
Written(q, orders) == [i \in Items |-> IF i \in ToSet(q) THEN orders[Position(q, i)] ELSE None]

\* synchronizeQueueTx, from SynchronizeQueue and from the playback writes.
SynchronizeQueue(q) ==
    /\ row' = Written(q, Allocate(q))
    /\ \A i \in Items : row'[i] # None => row'[i] \in (-MaxOrder)..MaxOrder
    /\ desired' = q

ReplaceQueue(q) ==
    /\ row' = Written(q, Dense(q))
    /\ desired' = q

\* A local track is deleted: its rows go, the others stay as they are.
DeleteLocalReferences(i) ==
    /\ row[i] # None
    /\ row' = [row EXCEPT ![i] = None]
    /\ desired' = RemoveAt(desired, Position(desired, i))

\* LoadQueue: by sort order, equal ones in any order.
LoadQueue(q) ==
    /\ ToSet(q) = Existing
    /\ \A m, n \in DOMAIN q : m < n => row[q[m]] <= row[q[n]]

Reload == \E q \in Queues : LoadQueue(q) /\ desired' = q /\ UNCHANGED row

Init ==
    /\ row \in [Items -> Found \cup {None}]
    /\ desired \in Queues
    /\ LoadQueue(desired)

Next ==
    \/ \E q \in Queues : SynchronizeQueue(q) \/ ReplaceQueue(q)
    \/ \E i \in Items : DeleteLocalReferences(i)
    \/ Reload

Spec == Init /\ [][Next]_vars

-----------------------------------------------------------------------------
(* Properties *)

\* Whatever queue is written over whatever orders, its rows read back in its
\* order and in no other: the gaps that run out, the runs that keep their
\* orders and the numbering from one end never give two items the same order
\* or the wrong one, whatever rows were deleted in between.  Only rows that
\* nothing has rewritten may have been found with the same order.
QueueReadsBack ==
    /\ LoadQueue(desired)
    /\ \A i, j \in Existing : i # j /\ row[i] = row[j] => \A k \in Existing : row[k] \in Found
=============================================================================
