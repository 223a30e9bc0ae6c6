------------------------- MODULE RoomRuntime_proofs -------------------------
(***************************************************************************)
(* Proofs about the room's queue and playback, for every set of members    *)
(* and tracks, every limit and every interleaving of commands, failed and  *)
(* cancelled writes, restarts and deletions.                               *)
(***************************************************************************)
EXTENDS RoomRuntime, FiniteSetTheorems, SequenceTheorems, TLAPS

-----------------------------------------------------------------------------
(* What the queue operators of RoomRuntime return: every one of them       *)
(* rearranges, drops or relabels the items it was given and invents none.  *)
(* The keystone is that Rank numbers a finite set of positions 1, 2, ...   *)
(* without a gap, so that Select is a sequence of the items it keeps.      *)

\* The positions up to i of a finite set are finitely many, and i is the last.
LEMMA RankType ==
  ASSUME NEW K \in SUBSET Nat, IsFiniteSet(K), NEW i \in K
  PROVE  Rank(K, i) \in 1..Cardinality(K)
<1> DEFINE below == {k \in K : k <= i}
<1>1. below \in SUBSET K /\ i \in below
  OBVIOUS
<1>2. IsFiniteSet(below) /\ Cardinality(below) <= Cardinality(K)
  BY <1>1, FS_Subset
<1>3. Cardinality(below) # 0
  BY <1>1, <1>2, FS_EmptySet
<1>4. Cardinality(below) \in Nat /\ Cardinality(K) \in Nat
  BY <1>2, FS_CardinalityType
<1> QED
  BY <1>2, <1>3, <1>4 DEF Rank

\* A later position has a greater rank.
LEMMA RankMonotonic ==
  ASSUME NEW K \in SUBSET Nat, IsFiniteSet(K),
         NEW i \in K, NEW j \in K, i < j
  PROVE  Rank(K, i) < Rank(K, j)
<1> DEFINE low == {k \in K : k <= i}
           high == {k \in K : k <= j}
<1>0. /\ \A k \in K : k <= i => k <= j
      /\ j <= j /\ ~(j <= i)
  OBVIOUS
<1>1. /\ high \in SUBSET K /\ j \in high
      /\ low \in SUBSET high /\ j \notin low
  BY <1>0, Zenon
<1>2. IsFiniteSet(high)
  BY <1>1, FS_Subset
<1>3. IsFiniteSet(low) /\ Cardinality(low) <= Cardinality(high)
      /\ Cardinality(high) # Cardinality(low)
  BY <1>1, <1>2, FS_Subset
<1>4. Cardinality(low) \in Nat /\ Cardinality(high) \in Nat
  BY <1>2, <1>3, FS_CardinalityType
<1> QED
  BY <1>3, <1>4 DEF Rank

\* Every rank from 1 to the number of positions is taken, by one position.
LEMMA RankOnto ==
  ASSUME NEW K \in SUBSET Nat, IsFiniteSet(K), NEW r \in 1..Cardinality(K)
  PROVE  \E i \in K : Rank(K, i) = r
<1> DEFINE n == Cardinality(K)
           f == [i \in K |-> Rank(K, i)]
<1>1. n \in Nat
  BY FS_CardinalityType
<1>2. f \in [K -> 1..n]
  BY RankType
<1>3. \A i, j \in K : i # j => f[i] # f[j]
  <2> SUFFICES ASSUME NEW i \in K, NEW j \in K, i < j
               PROVE  f[i] # f[j]
    OBVIOUS
  <2> QED
    BY RankMonotonic, RankType
<1>4. f \in Injection(K, 1..n)
  BY <1>2, <1>3 DEF Injection, IsInjective
<1>5. IsFiniteSet(1..n) /\ Cardinality(1..n) = n
  BY <1>1, FS_Interval
<1>6. f \in Surjection(K, 1..n)
  BY <1>4, <1>5, FS_Injection
<1> QED
  BY <1>6 DEF Surjection

\* Select keeps the items at the chosen positions and nothing else.
LEMMA SelectKeeps ==
  ASSUME NEW S, NEW q \in Seq(S), NEW K \in SUBSET DOMAIN q
  PROVE  /\ IsFiniteSet(K)
         /\ Cardinality(K) \in Nat
         /\ Select(q, K) \in Seq(S)
         /\ Len(Select(q, K)) = Cardinality(K)
         /\ \A j \in 1..Cardinality(K) : \E i \in K : Select(q, K)[j] = q[i]
<1> DEFINE n == Cardinality(K)
           pos(j) == CHOOSE i \in K : Rank(K, i) = j
<1>1. DOMAIN q = 1..Len(q) /\ Len(q) \in Nat
  BY LenProperties
<1>2. IsFiniteSet(1..Len(q))
  BY <1>1, FS_Interval
<1>3. IsFiniteSet(K) /\ n \in Nat
  BY <1>1, <1>2, FS_Subset, FS_CardinalityType
<1>4. K \in SUBSET Nat
  BY <1>1
<1>5. \A j \in 1..n : pos(j) \in K
  <2> TAKE j \in 1..n
  <2>1. PICK i \in K : Rank(K, i) = j
    BY <1>3, <1>4, RankOnto
  <2> QED
    BY <2>1
<1>6. \A i \in K : q[i] \in S
  BY <1>1, ElementOfSeq
<1>7. Select(q, K) = [j \in 1..n |-> q[pos(j)]]
  BY DEF Select
<1> HIDE DEF pos, n
<1>8. Select(q, K) \in [1..n -> S]
  BY <1>5, <1>6, <1>7
<1>9. Select(q, K) \in Seq(S) /\ Len(Select(q, K)) = n
  BY <1>3, <1>8, SeqDef, LenProperties DEF n
<1> QED
  BY <1>3, <1>5, <1>7, <1>9 DEF n

\* Deleting one position keeps the items at the others.
LEMMA RestType ==
  ASSUME NEW S, NEW q \in Seq(S), NEW k \in DOMAIN q
  PROVE  /\ Rest(q, k) \in Seq(S)
         /\ Len(Rest(q, k)) = Len(q) - 1
<1> DEFINE before == SubSeq(q, 1, k - 1)
           behind == SubSeq(q, k + 1, Len(q))
<1>1. k \in 1..Len(q) /\ Len(q) \in Nat
  BY LenProperties
<1>2. before \in Seq(S) /\ Len(before) = k - 1
  BY <1>1, SubSeqProperties
<1>3. behind \in Seq(S) /\ Len(behind) = Len(q) - k
  BY <1>1, SubSeqProperties
<1>4. Rest(q, k) = before \o behind
  BY DEF Rest, RemoveAt
<1> HIDE DEF before, behind
<1>5. before \o behind \in Seq(S) /\ Len(before \o behind) = Len(before) + Len(behind)
  BY <1>2, <1>3, ConcatProperties
<1>6. Len(before \o behind) = Len(q) - 1
  BY <1>1, <1>2, <1>3, <1>5
<1> QED
  BY <1>4, <1>5, <1>6

\* Moving an item to a position of the queue is a queue of the same items.
LEMMA MoveType ==
  ASSUME NEW S, NEW q \in Seq(S), NEW from \in DOMAIN q, NEW to \in DOMAIN q
  PROVE  Move(q, from, to) \in Seq(S)
<1> DEFINE r == RemoveAt(q, from)
<1>1. /\ r \in Seq(S)
      /\ Len(r) = Len(q) - 1
  BY RestType DEF Rest
<1>2. Len(q) \in Nat /\ to \in 1..Len(q) /\ q[from] \in S
  BY LenProperties, ElementOfSeq
<1>3. <<q[from]>> \in Seq(S)
  BY <1>2
<1> HIDE DEF r
<1>4. SubSeq(r, 1, to - 1) \in Seq(S) /\ SubSeq(r, to, Len(r)) \in Seq(S)
  BY <1>1, <1>2, SubSeqProperties
<1>5. Move(q, from, to) = (SubSeq(r, 1, to - 1) \o <<q[from]>>) \o SubSeq(r, to, Len(r))
  BY DEF Move, InsertAt, r
<1> QED
  BY <1>3, <1>4, <1>5, ConcatProperties

\* What plays next is taken from the queue.
LEMMA NextPositionsPending ==
  ASSUME NEW S, NEW q \in Seq(S), q # <<>>, NEW shuffle
  PROVE  NextPositions(shuffle, q) \subseteq DOMAIN q
<1>1. 1 \in DOMAIN q
  BY LenProperties, EmptySeq
<1> QED
  BY <1>1 DEF NextPositions

\* A drop aims at a position of the queue.
LEMMA DropPositionPending ==
  ASSUME NEW S, NEW q \in Seq(S), NEW from \in DOMAIN q, NEW target \in DOMAIN q,
         from # target, NEW after \in BOOLEAN
  PROVE  DropPosition(q, from, target, after) \in DOMAIN q
<1>1. Len(q) \in Nat /\ from \in 1..Len(q) /\ target \in 1..Len(q) /\ DOMAIN q = 1..Len(q)
  BY LenProperties
<1> QED
  BY <1>1 DEF DropPosition

\* A finite set of numbers has a greatest one: the one of the last rank.
LEMMA FiniteMaximum ==
  ASSUME NEW V \in SUBSET Nat, IsFiniteSet(V), V # {}
  PROVE  \E m \in V : \A v \in V : v <= m
<1>1. Cardinality(V) \in Nat /\ Cardinality(V) # 0
  BY FS_CardinalityType, FS_EmptySet
<1>2. PICK m \in V : Rank(V, m) = Cardinality(V)
  BY <1>1, RankOnto
<1>3. ASSUME NEW v \in V, m < v
      PROVE  FALSE
  <2>1. Rank(V, m) < Rank(V, v)
    BY <1>3, RankMonotonic
  <2> QED
    BY <1>1, <1>2, <2>1, RankType
<1> QED
  BY <1>3

\* A queue holds items.
LEMMA ItemFields ==
  ASSUME NEW q \in Seq(Item), NEW i \in DOMAIN q
  PROVE  /\ q[i] \in Item /\ q[i].prio \in Nat /\ q[i].music \in Tracks
         /\ q[i].by \in Users /\ q[i].id \in Nat
<1>1. i \in 1..Len(q)
  BY LenProperties
<1>2. q[i] \in Item
  BY <1>1, ElementOfSeq
<1> QED
  BY <1>2 DEF Item

\* The priorities a queue has handed out have a greatest one.
LEMMA TopPriority ==
  ASSUME NEW q \in Seq(Item)
  PROVE  \E m \in {0} \cup {q[i].prio : i \in DOMAIN q} :
           \A i \in DOMAIN q : q[i].prio <= m
<1> DEFINE prios == {q[i].prio : i \in DOMAIN q}
           f == [i \in DOMAIN q |-> q[i].prio]
<1>1. DOMAIN q = 1..Len(q) /\ Len(q) \in Nat
  BY LenProperties
<1>2. prios \in SUBSET Nat
  BY ItemFields
<1>3. IsFiniteSet(DOMAIN q)
  BY <1>1, FS_Interval
<1>4. f \in Surjection(DOMAIN q, prios)
  BY DEF Surjection
<1>5. IsFiniteSet(prios)
  BY <1>3, <1>4, FS_Surjection
<1>6. IsFiniteSet(prios \cup {0})
  BY <1>5, FS_AddElement
<1> DEFINE V == prios \cup {0}
<1>7. V \in SUBSET Nat /\ IsFiniteSet(V) /\ V # {}
  BY <1>2, <1>6
<1> HIDE DEF V
<1>8. PICK m \in V : \A v \in V : v <= m
  BY <1>7, FiniteMaximum
<1> QED
  BY <1>8 DEF V

\* Top is a queue again.
LEMMA PrioritiseType ==
  ASSUME NEW q \in Seq(Item), NEW K \in SUBSET DOMAIN q
  PROVE  Prioritise(q, K) \in Seq(Item)
<1> DEFINE top == CHOOSE m \in {0} \cup {q[i].prio : i \in DOMAIN q} :
                    \A i \in DOMAIN q : q[i].prio <= m
           n == Cardinality(K)
           chosen == Select(q, K)
           raised == [i \in 1..n |-> [chosen[i] EXCEPT !.prio = top + n + 1 - i]]
           others == Select(q, DOMAIN q \ K)
<1>1. top \in Nat
  <2>1. top \in {0} \cup {q[i].prio : i \in DOMAIN q}
    BY TopPriority
  <2>2. {0} \cup {q[i].prio : i \in DOMAIN q} \subseteq Nat
    BY ItemFields
  <2> HIDE DEF top
  <2> QED
    BY <2>1, <2>2
<1>2. n \in Nat /\ chosen \in Seq(Item) /\ Len(chosen) = n
  BY SelectKeeps
<1>3. others \in Seq(Item)
  BY SelectKeeps
<1>4. Prioritise(q, K) = raised \o others
  BY DEF Prioritise
<1> HIDE DEF top, n, chosen, others
<1>5. \A i \in 1..n : [chosen[i] EXCEPT !.prio = top + n + 1 - i] \in Item
  <2> TAKE i \in 1..n
  <2>1. chosen[i] \in Item
    BY <1>2, ElementOfSeq
  <2>2. top + n + 1 - i \in Nat
    BY <1>1, <1>2
  <2> QED
    BY <2>1, <2>2 DEF Item
<1>6. raised \in Seq(Item)
  BY <1>2, <1>5, IsASeq
<1> HIDE DEF raised
<1> QED
  BY <1>3, <1>4, <1>6, ConcatProperties

-----------------------------------------------------------------------------
(* Types: the helpers, then every action.                                  *)

\* The fields of a playback state, and its next versions.
LEMMA StateFields ==
  ASSUME NEW s \in State
  PROVE  /\ s.current \in Tracks \cup {None} /\ s.by \in Users \cup {None}
         /\ s.item \in Nat /\ s.paused \in BOOLEAN /\ s.shuffle \in BOOLEAN
         /\ s.likes \in SUBSET Users /\ s.markers \in Nat
         /\ s.epoch \in Nat /\ s.epoch + 1 \in Nat
         /\ s.version \in Nat /\ s.version + 1 \in Nat
BY DEF State

\* Starting an item, or stopping, makes a playback state of one.
LEMMA PlayType ==
  ASSUME NEW s \in State, NEW it \in Item
  PROVE  Play(s, it) \in State
<1>1. it.music \in Tracks /\ it.by \in Users /\ it.id \in Nat
  BY DEF Item
<1> QED
  BY <1>1, StateFields, Zenon DEF Play, State

LEMMA StopType ==
  ASSUME NEW s \in State
  PROVE  Stop(s) \in State
<1>1. 0 \in Nat
  OBVIOUS
<1> QED
  BY <1>1, StateFields, Zenon DEF Stop, State

\* What every write does to the rows, to the count and to the type.
LEMMA CommitType ==
  ASSUME disk \in Disk, cancelled \in Nat, NEW d \in Disk, NEW o, NEW songs,
         Commit(o, songs, d)
  PROVE  disk' \in Disk /\ cancelled' \in Nat
BY DEF Commit

\* Adopting a queue keeps the queue's type.
LEMMA AdoptQueueType ==
  ASSUME queue \in Seq(Item), queueVersion \in Nat, NEW q \in Seq(Item), NEW o,
         AdoptQueue(o, q)
  PROVE  queue' \in Seq(Item) /\ queueVersion' \in Nat
BY DEF AdoptQueue

\* The three rows written in one transaction.
LEMMA CommitRoomStateType ==
  ASSUME disk \in Disk, cancelled \in Nat, NEW q \in Seq(Item), NEW s \in State,
         NEW h \in Seq(Entry), NEW o, CommitRoomState(o, q, s, h)
  PROVE  disk' \in Disk /\ cancelled' \in Nat
<1> DEFINE d == [queue |-> q, state |-> s, history |-> h \o disk.history]
<1>1. disk.history \in Seq(Entry)
  BY DEF Disk
<1>2. h \o disk.history \in Seq(Entry)
  BY <1>1, ConcatProperties
<1>3. d \in Disk
  BY <1>2 DEF Disk
<1> QED
  BY <1>3, CommitType DEF CommitRoomState

LEMMA WindowType ==
  ASSUME NEW h \in Seq(Entry)
  PROVE  /\ Window(h) \in Seq(Entry)
         /\ Len(Window(h)) <= HistorySize
         /\ Len(Window(h)) <= Len(h)
<1> DEFINE n == IF Len(h) > HistorySize THEN HistorySize ELSE Len(h)
<1>1. n \in 0..Len(h) /\ n <= HistorySize /\ n \in Nat
  BY ConstantsAssumption, LenProperties
<1> HIDE DEF n
<1>2. SubSeq(h, 1, n) \in Seq(Entry) /\ Len(SubSeq(h, 1, n)) = n
  BY <1>1, LenProperties, SubSeqProperties
<1> QED
  BY <1>1, <1>2, LenProperties DEF Window, n

-----------------------------------------------------------------------------
(* The commands, one lemma per family.                                     *)

\* The new items of an enqueue extend the queue.
LEMMA EnqueueType ==
  ASSUME TypeOK, NEW u \in Users, NEW n \in 1..MaxBatch, NEW ms \in [1..n -> Tracks],
         NEW o, Enqueue(u, ms, o)
  PROVE  TypeOK'
<1> DEFINE items == [i \in 1..Len(ms) |->
                       [id |-> nextId + i, music |-> ms[i], by |-> u, prio |-> 0]]
           next == queue \o items
<1>1. ms \in Seq(Tracks) /\ Len(ms) = n /\ n \in Nat
  BY SeqDef, LenProperties, ConstantsAssumption
<1>2. \A i \in 1..Len(ms) :
        [id |-> nextId + i, music |-> ms[i], by |-> u, prio |-> 0] \in Item
  BY <1>1 DEF TypeOK, Item
<1>3. items \in Seq(Item) /\ Len(items) = n
  <2>1. items \in [1..n -> Item]
    BY <1>1, <1>2
  <2> HIDE DEF items
  <2> QED
    BY <1>1, <2>1, SeqDef, LenProperties
<1> HIDE DEF items
<1>4. next \in Seq(Item) /\ Len(next) = Len(queue) + n
  BY <1>3, ConcatProperties DEF TypeOK
<1>5. next # <<>>
  BY <1>1, <1>3, <1>4, LenProperties, EmptySeq DEF TypeOK
<1> HIDE DEF next
<1>6. nextId' \in Nat
  BY <1>1 DEF Enqueue, TypeOK
<1>7. UNCHANGED <<loaded, history, skipped, scope, liked, deleted, reloads>>
  BY DEF Enqueue
<1>8. queue' \in Seq(Item) /\ queueVersion' \in Nat /\ state' \in State
      /\ disk' \in Disk /\ cancelled' \in Nat
  <2>1. CASE /\ SynchronizeQueue(o, next)
             /\ AdoptQueue(o, next)
             /\ UNCHANGED state
    <3>1. [disk EXCEPT !.queue = next] \in Disk
      BY <1>4 DEF TypeOK, Disk
    <3>2. disk' \in Disk /\ cancelled' \in Nat
      BY <2>1, <3>1, CommitType DEF SynchronizeQueue, TypeOK
    <3> QED
      BY <2>1, <3>2, <1>4, AdoptQueueType DEF TypeOK
  <2>2. ASSUME NEW k \in NextPositions(state.shuffle, next),
               CommitRoomState(o, Rest(next, k), Play(state, next[k]), <<>>),
               AdoptQueue(o, Rest(next, k)),
               AdoptState(o, Play(state, next[k]))
        PROVE  /\ queue' \in Seq(Item) /\ queueVersion' \in Nat /\ state' \in State
               /\ disk' \in Disk /\ cancelled' \in Nat
    <3>1. k \in DOMAIN next
      BY <1>4, <1>5, NextPositionsPending
    <3>2. Rest(next, k) \in Seq(Item)
      BY <1>4, <3>1, RestType
    <3>3. Play(state, next[k]) \in State
      BY <1>4, <3>1, ItemFields, PlayType DEF TypeOK
    <3>4. <<>> \in Seq(Entry)
      BY EmptySeq
    <3>5. disk' \in Disk /\ cancelled' \in Nat
      BY <2>2, <3>2, <3>3, <3>4, CommitRoomStateType DEF TypeOK
    <3>6. queue' \in Seq(Item) /\ queueVersion' \in Nat
      BY <2>2, <3>2, AdoptQueueType DEF TypeOK
    <3> QED
      BY <2>2, <3>3, <3>5, <3>6 DEF TypeOK, AdoptState
  <2> QED
    BY <2>1, <2>2 DEF Enqueue, next, items
<1> QED
  BY <1>6, <1>7, <1>8 DEF TypeOK

\* A new pending queue, saved and adopted.
LEMMA RearrangeType ==
  ASSUME TypeOK, NEW q \in Seq(Item), NEW o, Rearrange(q, o)
  PROVE  TypeOK'
<1>1. [disk EXCEPT !.queue = q] \in Disk
  BY DEF TypeOK, Disk
<1>2. disk' \in Disk /\ cancelled' \in Nat
  BY <1>1, CommitType DEF Rearrange, SynchronizeQueue, TypeOK
<1>3. queue' \in Seq(Item) /\ queueVersion' \in Nat
  BY AdoptQueueType DEF Rearrange, TypeOK
<1> QED
  BY <1>2, <1>3 DEF Rearrange, TypeOK

\* What was playing becomes at most one history entry.
LEMMA AdvanceType ==
  ASSUME TypeOK, NEW o, Advance(o), loaded' \in BOOLEAN
  PROVE  TypeOK'
<1> DEFINE played == IF state.current = None THEN <<>>
                     ELSE <<[music |-> state.current, by |-> state.by]>>
           Step(q, s) == /\ CommitRoomState(o, q, s, played)
                         /\ AdoptQueue(o, q)
                         /\ AdoptState(o, s)
           Good == /\ queue' \in Seq(Item) /\ queueVersion' \in Nat
                   /\ state' \in State /\ disk' \in Disk /\ cancelled' \in Nat
<1>1. played \in Seq(Entry)
  <2>1. CASE state.current = None
    BY <2>1, EmptySeq
  <2>2. CASE state.current # None
    <3>1. [music |-> state.current, by |-> state.by] \in Entry
      BY <2>2, StateFields DEF TypeOK, Entry
    <3> QED
      BY <2>2, <3>1
  <2> QED
    BY <2>1, <2>2
<1> HIDE DEF played
<1>2. ASSUME NEW q \in Seq(Item), NEW s \in State, Step(q, s)
      PROVE  Good
  <2>1. disk' \in Disk /\ cancelled' \in Nat
    BY <1>1, <1>2, CommitRoomStateType DEF TypeOK
  <2>2. queue' \in Seq(Item) /\ queueVersion' \in Nat
    BY <1>2, AdoptQueueType DEF TypeOK
  <2> QED
    BY <1>2, <2>1, <2>2 DEF TypeOK, AdoptState
<1>3. ASSUME Step(<<>>, Stop(state))
      PROVE  Good
  BY <1>2, <1>3, EmptySeq, StopType DEF TypeOK
<1>4. ASSUME queue # <<>>, NEW k \in NextPositions(state.shuffle, queue),
             Step(Rest(queue, k), Play(state, queue[k]))
      PROVE  Good
  <2>1. k \in DOMAIN queue
    BY <1>4, NextPositionsPending DEF TypeOK
  <2>2. Rest(queue, k) \in Seq(Item)
    BY <2>1, RestType DEF TypeOK
  <2>3. Play(state, queue[k]) \in State
    BY <2>1, ItemFields, PlayType DEF TypeOK
  <2> QED
    BY <1>2, <1>4, <2>2, <2>3
<1> HIDE DEF Good
<1>5. Good
  BY <1>3, <1>4 DEF Advance, played
<1> USE DEF Good
<1>6. history' \in Seq(Entry)
  <2>1. played \o history \in Seq(Entry)
    BY <1>1, ConcatProperties DEF TypeOK
  <2> QED
    BY <2>1, WindowType DEF Advance, TypeOK, played
<1>7. skipped' \in Nat /\ UNCHANGED <<scope, liked, deleted, reloads, nextId>>
  BY DEF Advance, TypeOK
<1> QED
  BY <1>5, <1>6, <1>7 DEF TypeOK

\* One new version of the playback state.
LEMMA MutateStateType ==
  ASSUME TypeOK, NEW s \in State, NEW o, MutateState(o, s)
  PROVE  /\ state' \in State /\ disk' \in Disk /\ cancelled' \in Nat
         /\ UNCHANGED <<loaded, queue, queueVersion, scope, deleted, reloads, nextId>>
<1> DEFINE next == [s EXCEPT !.version = @ + 1]
<1>1. next \in State
  BY StateFields, Zenon DEF State
<1> HIDE DEF next
<1>2. [disk EXCEPT !.state = next] \in Disk
  BY <1>1 DEF TypeOK, Disk
<1>3. Upsert(o, next) /\ AdoptState(o, next)
      /\ UNCHANGED <<loaded, queue, queueVersion, scope, deleted, reloads, nextId>>
  BY DEF MutateState, next
<1>4. disk' \in Disk /\ cancelled' \in Nat
  BY <1>2, <1>3, CommitType DEF Upsert, TypeOK
<1> QED
  BY <1>1, <1>3, <1>4 DEF AdoptState, TypeOK

\* The queue commands.
LEMMA QueueCommandType ==
  ASSUME TypeOK, NEW o, QueueCommand(o)
  PROVE  TypeOK'
<1>1. CASE \E u \in Users, n \in 1..MaxBatch : \E ms \in [1..n -> Tracks] : Enqueue(u, ms, o)
  BY <1>1, EnqueueType
<1>2. ASSUME NEW K \in SUBSET DOMAIN queue, RemoveItems(K, o)
      PROVE  TypeOK'
  <2>1. Select(queue, DOMAIN queue \ K) \in Seq(Item)
    BY SelectKeeps DEF TypeOK
  <2> QED
    BY <1>2, <2>1, RearrangeType DEF RemoveItems
<1>3. ASSUME NEW K \in SUBSET DOMAIN queue, Top(K, o)
      PROVE  TypeOK'
  <2>1. Prioritise(queue, K) \in Seq(Item)
    BY PrioritiseType DEF TypeOK
  <2> QED
    BY <1>3, <2>1, RearrangeType DEF Top
<1>4. ASSUME NEW i \in DOMAIN queue, NEW j \in DOMAIN queue, Reorder(i, j, o)
      PROVE  TypeOK'
  <2>1. Move(queue, i, j) \in Seq(Item)
    BY MoveType DEF TypeOK
  <2> QED
    BY <1>4, <2>1, RearrangeType DEF Reorder
<1>5. ASSUME NEW i \in DOMAIN queue, NEW j \in DOMAIN queue, NEW after \in BOOLEAN,
             ReorderByID(i, j, after, o)
      PROVE  TypeOK'
  <2>1. DropPosition(queue, i, j, after) \in DOMAIN queue
    BY <1>5, DropPositionPending DEF TypeOK, ReorderByID
  <2>2. Move(queue, i, DropPosition(queue, i, j, after)) \in Seq(Item)
    BY <2>1, MoveType DEF TypeOK
  <2> QED
    BY <1>5, <2>2, RearrangeType DEF ReorderByID
<1>6. CASE Clear(o)
  BY <1>6, EmptySeq, RearrangeType DEF Clear
<1> QED
  BY <1>1, <1>2, <1>3, <1>4, <1>5, <1>6 DEF QueueCommand

\* What Previous replays is a playback state again.
LEMMA PreviousState ==
  ASSUME TypeOK, NEW o, Previous(o)
  PROVE  [state EXCEPT !.current = history[skipped + 1].music,
                       !.by = history[skipped + 1].by,
                       !.item = 0, !.paused = FALSE, !.likes = {},
                       !.markers = 0, !.epoch = @ + 1] \in State
<1> DEFINE entry == history[skipped + 1]
<1>1. skipped + 1 \in 1..Len(history)
  BY LenProperties DEF Previous, TypeOK
<1>2. entry \in Entry
  BY <1>1, ElementOfSeq DEF TypeOK
<1>3. entry.music \in Tracks \cup {None} /\ entry.by \in Users \cup {None}
  BY <1>2 DEF Entry
<1>4. 0 \in Nat /\ state \in State
  BY DEF TypeOK
<1> HIDE DEF entry
<1>5. [state EXCEPT !.current = entry.music, !.by = entry.by,
                    !.item = 0, !.paused = FALSE, !.likes = {},
                    !.markers = 0, !.epoch = @ + 1] \in State
  BY <1>3, <1>4, StateFields, Zenon DEF State
<1> QED
  BY <1>5 DEF entry

LEMMA PreviousType ==
  ASSUME TypeOK, NEW o, Previous(o)
  PROVE  TypeOK'
<1> DEFINE s == [state EXCEPT !.current = history[skipped + 1].music,
                              !.by = history[skipped + 1].by,
                              !.item = 0, !.paused = FALSE, !.likes = {},
                              !.markers = 0, !.epoch = @ + 1]
<1>1. s \in State
  BY PreviousState
<1>2. MutateState(o, s) /\ skipped' \in Nat /\ UNCHANGED <<history, liked>>
  BY DEF Previous, TypeOK
<1> HIDE DEF s
<1> QED
  BY <1>1, <1>2, MutateStateType DEF TypeOK

\* A song enters or leaves one personal list.
LEMMA SyncLikedSongsType ==
  ASSUME TypeOK, NEW u \in Users, NEW listed, NEW songs \in SUBSET Tracks,
         SyncLikedSongs(u, listed, songs)
  PROVE  liked' \in [Users -> SUBSET Tracks]
BY DEF TypeOK, SyncLikedSongs

LEMMA LikeType ==
  ASSUME TypeOK, NEW u \in Users, NEW listed, NEW o, Like(u, listed, o)
  PROVE  TypeOK'
<1>1. state \in State /\ state.current \in Tracks
  BY StateFields DEF TypeOK, Like
<1>2. liked[u] \cup {state.current} \in SUBSET Tracks
  BY <1>1 DEF TypeOK
<1>3. liked' \in [Users -> SUBSET Tracks]
  BY <1>2, SyncLikedSongsType DEF Like
<1> DEFINE s == [state EXCEPT !.likes = @ \cup {u}, !.markers = @ + 1]
<1>4. state.likes \cup {u} \in SUBSET Users /\ state.markers + 1 \in Nat
  BY <1>1, StateFields
<1>5. s \in State
  BY <1>1, <1>4, StateFields, Zenon DEF State
<1> HIDE DEF s
<1>6. CASE MutateState(o, s) /\ UNCHANGED <<history, skipped>>
  BY <1>3, <1>5, <1>6, MutateStateType DEF TypeOK
<1>7. CASE UNCHANGED <<loaded, mem, disk, deleted, reloads, nextId, cancelled>>
  BY <1>3, <1>7 DEF TypeOK, mem
<1> QED
  BY <1>6, <1>7 DEF Like, s

LEMMA UnlikeType ==
  ASSUME TypeOK, NEW u \in Users, NEW listed, NEW o, Unlike(u, listed, o)
  PROVE  TypeOK'
<1>1. state \in State
  BY DEF TypeOK
<1>2. liked[u] \ {state.current} \in SUBSET Tracks
  BY DEF TypeOK
<1>3. liked' \in [Users -> SUBSET Tracks]
  BY <1>2, SyncLikedSongsType DEF Unlike
<1> DEFINE left == IF state.markers > 0 THEN state.markers - 1 ELSE 0
           s == [state EXCEPT !.likes = @ \ {u}, !.markers = IF @ > 0 THEN @ - 1 ELSE 0]
           t == [state EXCEPT !.likes = state.likes \ {u}, !.markers = left]
<1>4. state.likes \ {u} \in SUBSET Users /\ left \in Nat
  BY <1>1, StateFields
<1>5. s = t
  OBVIOUS
<1> HIDE DEF left, s
<1>6. t \in State
  BY <1>1, <1>4, StateFields, Zenon DEF State
<1> HIDE DEF t
<1>7. CASE MutateState(o, s) /\ UNCHANGED <<history, skipped>>
  BY <1>3, <1>5, <1>6, <1>7, MutateStateType DEF TypeOK
<1>8. CASE UNCHANGED <<loaded, mem, disk, deleted, reloads, nextId, cancelled>>
  BY <1>3, <1>8 DEF TypeOK, mem
<1> QED
  BY <1>7, <1>8 DEF Unlike, s

LEMMA PlaybackCommandType ==
  ASSUME TypeOK, NEW o, PlaybackCommand(o)
  PROVE  TypeOK'
<1>1. state \in State /\ loaded \in BOOLEAN
  BY DEF TypeOK
<1>2. CASE NextSong(o)
  BY <1>1, <1>2, AdvanceType DEF NextSong
<1>3. CASE Tick(o)
  BY <1>3, AdvanceType DEF Tick
<1>4. CASE TogglePause(o)
  <2>1. [state EXCEPT !.paused = ~@] \in State
    BY <1>1 DEF State
  <2>2. CASE Advance(o) /\ UNCHANGED loaded
    BY <1>1, <2>2, AdvanceType
  <2>3. CASE /\ MutateState(o, [state EXCEPT !.paused = ~@])
             /\ UNCHANGED <<history, skipped, liked>>
    BY <2>1, <2>3, MutateStateType DEF TypeOK
  <2> QED
    BY <1>4, <2>2, <2>3 DEF TogglePause
<1>5. CASE ToggleShuffle(o)
  <2>1. [state EXCEPT !.shuffle = ~@] \in State
    BY <1>1 DEF State
  <2> QED
    BY <1>5, <2>1, MutateStateType DEF ToggleShuffle, TypeOK
<1>6. CASE Previous(o)
  BY <1>6, PreviousType
<1>7. ASSUME NEW u \in Users, NEW admin \in BOOLEAN, Seek(u, admin, o)
      PROVE  TypeOK'
  <2>1. [state EXCEPT !.epoch = @ + 1] \in State
    BY <1>1 DEF State
  <2> QED
    BY <1>7, <2>1, MutateStateType DEF Seek, TypeOK
<1>8. ASSUME NEW u \in Likers, NEW listed \in Outcomes,
             Like(u, listed, o) \/ Unlike(u, listed, o)
      PROVE  TypeOK'
  <2>1. u \in Users
    BY ConstantsAssumption
  <2> QED
    BY <1>8, <2>1, LikeType, UnlikeType
<1> QED
  BY <1>2, <1>3, <1>4, <1>5, <1>6, <1>7, <1>8 DEF PlaybackCommand

\* What is left of a queue or a history is one.
LEMMA KeepType ==
  ASSUME NEW S, NEW q \in Seq(S), NEW gone
  PROVE  Keep(q, gone) \in Seq(S)
BY SelectKeeps DEF Keep

LEMMA LoadType ==
  ASSUME TypeOK, NEW readable \in BOOLEAN, Load(readable)
  PROVE  TypeOK'
<1>1. disk.queue \in Seq(Item) /\ disk.state \in State /\ disk.history \in Seq(Entry)
  BY DEF TypeOK, Disk
<1>2. Window(disk.history) \in Seq(Entry) /\ <<>> \in Seq(Entry)
  BY <1>1, WindowType, EmptySeq
<1> QED
  BY <1>1, <1>2 DEF TypeOK, Load

LEMMA DeleteTrackType ==
  ASSUME TypeOK, NEW t \in LocalTracks, DeleteTrack(t)
  PROVE  TypeOK'
<1> DEFINE q == Keep(disk.queue, {t})
           h == Keep(disk.history, {t})
           s == IF disk.state.current = t
                THEN [disk.state EXCEPT !.current = None] ELSE disk.state
<1>1. disk.queue \in Seq(Item) /\ disk.state \in State /\ disk.history \in Seq(Entry)
  BY DEF TypeOK, Disk
<1>2. q \in Seq(Item) /\ h \in Seq(Entry)
  BY <1>1, KeepType
<1>3. s \in State
  BY <1>1 DEF State
<1> HIDE DEF q, h, s
<1>4. disk' = [queue |-> q, state |-> s, history |-> h]
  BY DEF DeleteTrack, q, h, s
<1>5. disk' \in Disk
  BY <1>2, <1>3, <1>4 DEF Disk
<1>6. /\ deleted' = deleted \cup {t} /\ reloads' \subseteq reloads \cup {t}
      /\ liked' = [u \in Users |-> liked[u] \ {t}]
      /\ UNCHANGED <<loaded, mem, nextId, cancelled>>
  BY DEF DeleteTrack
<1>7. liked' \in [Users -> SUBSET Tracks]
  BY <1>6 DEF TypeOK
<1> QED
  BY <1>5, <1>6, <1>7 DEF TypeOK, mem

\* The history of a runtime that dropped a deleted track, and its cursor.
LEMMA ReloadHistory ==
  ASSUME TypeOK, NEW t, NEW o, ReloadQueue(t, o)
  PROVE  /\ history' \in Seq(Entry) /\ skipped' \in Nat
         /\ skipped' <= Len(history')
         /\ Len(history') <= Len(history)
<1> DEFINE kept == {i \in DOMAIN history : history[i].music # t}
           low == {i \in kept : i <= skipped}
<1>1. history \in Seq(Entry) /\ Len(history) \in Nat
  BY LenProperties DEF TypeOK
<1>2. /\ Select(history, kept) \in Seq(Entry)
      /\ Len(Select(history, kept)) = Cardinality(kept)
      /\ IsFiniteSet(kept) /\ Cardinality(kept) \in Nat
  BY <1>1, SelectKeeps
<1>3. Cardinality(low) <= Cardinality(kept) /\ IsFiniteSet(low)
  BY <1>2, FS_Subset
<1>4. Cardinality(low) \in Nat
  BY <1>3, FS_CardinalityType
<1>5. Cardinality(kept) <= Len(history)
  <2>1. DOMAIN history = 1..Len(history)
    BY <1>1, LenProperties
  <2>2. IsFiniteSet(1..Len(history)) /\ Cardinality(1..Len(history)) = Len(history)
    BY <1>1, FS_Interval
  <2> QED
    BY <2>1, <2>2, FS_Subset
<1>6. history' = Select(history, kept) /\ skipped' = Cardinality(low)
  BY DEF ReloadQueue, CursorAmong
<1> HIDE DEF kept, low
<1> QED
  BY <1>2, <1>3, <1>4, <1>5, <1>6

LEMMA ReloadQueueType ==
  ASSUME TypeOK, NEW t \in LocalTracks, NEW o, ReloadQueue(t, o)
  PROVE  TypeOK'
<1> DEFINE Drop(q, s) == /\ CommitRoomState(o, q, s, <<>>)
                         /\ AdoptQueue(o, q)
                         /\ AdoptState(o, s)
           Good == /\ queue' \in Seq(Item) /\ queueVersion' \in Nat
                   /\ state' \in State /\ disk' \in Disk /\ cancelled' \in Nat
<1>1. disk.queue \in Seq(Item) /\ state \in State
  BY DEF TypeOK, Disk
<1>2. ASSUME NEW q \in Seq(Item), NEW s \in State, Drop(q, s)
      PROVE  Good
  <2>1. disk' \in Disk /\ cancelled' \in Nat
    BY <1>2, EmptySeq, CommitRoomStateType DEF TypeOK
  <2>2. queue' \in Seq(Item) /\ queueVersion' \in Nat
    BY <1>2, AdoptQueueType DEF TypeOK
  <2> QED
    BY <1>2, <2>1, <2>2 DEF TypeOK, AdoptState
<1>3. ASSUME Drop(<<>>, Stop(state))
      PROVE  Good
  BY <1>1, <1>2, <1>3, EmptySeq, StopType
<1>4. ASSUME disk.queue # <<>>, NEW k \in NextPositions(FALSE, disk.queue),
             Drop(Rest(disk.queue, k), Play(state, disk.queue[k]))
      PROVE  Good
  <2>1. k \in DOMAIN disk.queue
    BY <1>1, <1>4, NextPositionsPending
  <2>2. Rest(disk.queue, k) \in Seq(Item)
    BY <1>1, <2>1, RestType
  <2>3. Play(state, disk.queue[k]) \in State
    BY <1>1, <2>1, ItemFields, PlayType
  <2> QED
    BY <1>2, <1>4, <2>2, <2>3
<1>5. ASSUME AdoptQueue(o, disk.queue), UNCHANGED <<state, disk, cancelled>>
      PROVE  Good
  BY <1>1, <1>5, AdoptQueueType DEF TypeOK
<1> HIDE DEF Good
<1>6. Good
  BY <1>3, <1>4, <1>5 DEF ReloadQueue
<1>7. history' \in Seq(Entry) /\ skipped' \in Nat
  BY ReloadHistory
<1>8. /\ reloads' = reloads \ {t}
      /\ UNCHANGED <<loaded, scope, liked, deleted, nextId>>
  BY DEF ReloadQueue
<1> QED
  BY <1>6, <1>7, <1>8 DEF TypeOK, Good

\* Every step keeps every variable in its type.
LEMMA TypeOKStep ==
  ASSUME TypeOK, [Next]_vars
  PROVE  TypeOK'
<1>1. ASSUME NEW o \in Outcomes, QueueCommand(o) \/ PlaybackCommand(o)
      PROVE  TypeOK'
  BY <1>1, QueueCommandType, PlaybackCommandType
<1>2. ASSUME NEW readable \in BOOLEAN, Load(readable)
      PROVE  TypeOK'
  BY <1>2, LoadType
<1>3. CASE Unload
  BY <1>3 DEF Unload, TypeOK, mem
<1>4. CASE UNCHANGED vars
  BY <1>4 DEF TypeOK, vars
<1>5. ASSUME NEW t \in LocalTracks, DeleteTrack(t)
      PROVE  TypeOK'
  BY <1>5, DeleteTrackType
<1>6. ASSUME NEW t \in LocalTracks, SkipReload(t)
      PROVE  TypeOK'
  BY <1>6 DEF SkipReload, TypeOK, mem
<1>7. ASSUME NEW t \in LocalTracks, NEW o \in Outcomes, ReloadQueue(t, o)
      PROVE  TypeOK'
  BY <1>7, ReloadQueueType
<1> QED
  BY <1>1, <1>2, <1>3, <1>4, <1>5, <1>6, <1>7 DEF Next, Answer

\* A room never seen before has the type of every other.
LEMMA TypeOKInit ==
  ASSUME Init
  PROVE  TypeOK
<1>1. NewState \in State
  BY DEF NewState, State
<1>2. <<>> \in Seq(Item) /\ <<>> \in Seq(Entry)
  BY EmptySeq
<1> QED
  BY <1>1, <1>2 DEF Init, TypeOK, Disk

\* Type correctness of the room: every variable keeps its type, whatever the
\* number of members, tracks, versions and cancelled writes.
THEOREM TypeCorrect == Spec => []TypeOK
<1>1. Init => TypeOK
  BY TypeOKInit
<1>2. TypeOK /\ [Next]_vars => TypeOK'
  BY TypeOKStep
<1> QED
  BY <1>1, <1>2, PTL DEF Spec

-----------------------------------------------------------------------------
(* The cursor of Previous.                                                 *)

\* No queue command touches the history, the runtime or the library.
LEMMA QueueCommandFrame ==
  ASSUME NEW o, QueueCommand(o)
  PROVE  UNCHANGED <<loaded, history, skipped, scope, liked, deleted, reloads>>
BY DEF QueueCommand, Enqueue, RemoveItems, Top, Reorder, ReorderByID, Clear, Rearrange

\* Every playback command advances, or walks back one entry, or leaves the
\* history alone.
LEMMA PlaybackHistoryFrame ==
  ASSUME NEW o, PlaybackCommand(o)
  PROVE  \/ Advance(o)
         \/ Previous(o)
         \/ UNCHANGED <<history, skipped>>
BY DEF PlaybackCommand, NextSong, Tick, TogglePause, ToggleShuffle, Seek, Like, Unlike, mem

LEMMA CursorStep ==
  ASSUME TypeOK, CursorInHistory, [Next]_vars
  PROVE  CursorInHistory'
<1>0. /\ skipped \in Nat /\ history \in Seq(Entry) /\ Len(history) \in Nat
      /\ HistorySize \in Nat
  BY LenProperties, ConstantsAssumption DEF TypeOK
<1>1. ASSUME UNCHANGED <<history, skipped>>
      PROVE  CursorInHistory'
  BY <1>1 DEF CursorInHistory
<1>2. ASSUME NEW o, Advance(o)
      PROVE  CursorInHistory'
  <2> DEFINE played == IF state.current = None THEN <<>>
                       ELSE <<[music |-> state.current, by |-> state.by]>>
  <2>1. CASE o # "ok"
    BY <1>1, <1>2, <2>1 DEF Advance
  <2>2. CASE o = "ok"
    <3>1. history' = Window(played \o history) /\ skipped' = 0
      BY <1>2, <2>2 DEF Advance
    <3>2. played \in Seq(Entry)
      <4>1. CASE state.current = None
        BY <4>1, EmptySeq
      <4>2. CASE state.current # None
        <5>1. [music |-> state.current, by |-> state.by] \in Entry
          BY <4>2, StateFields DEF TypeOK, Entry
        <5> QED
          BY <4>2, <5>1
      <4> QED
        BY <4>1, <4>2
    <3> HIDE DEF played
    <3>3. played \o history \in Seq(Entry)
      BY <1>0, <3>2, ConcatProperties
    <3>4. Window(played \o history) \in Seq(Entry)
          /\ Len(Window(played \o history)) <= HistorySize
      BY <3>3, WindowType
    <3>5. Len(Window(played \o history)) \in Nat
      BY <3>4, LenProperties
    <3> QED
      BY <3>1, <3>4, <3>5 DEF CursorInHistory
  <2> QED
    BY <2>1, <2>2
<1>3. ASSUME NEW o, Previous(o)
      PROVE  CursorInHistory'
  BY <1>0, <1>3 DEF Previous, CursorInHistory
<1>4. ASSUME NEW readable \in BOOLEAN, Load(readable)
      PROVE  CursorInHistory'
  <2>1. disk.history \in Seq(Entry)
    BY DEF TypeOK, Disk
  <2>2. Window(disk.history) \in Seq(Entry) /\ Len(Window(disk.history)) <= HistorySize
    BY <2>1, WindowType
  <2>3. Len(Window(disk.history)) \in Nat /\ Len(<<>>) = 0
    BY <2>2, LenProperties, EmptySeq
  <2> QED
    BY <1>0, <1>4, <2>2, <2>3 DEF Load, CursorInHistory
<1>5. ASSUME NEW t \in LocalTracks, NEW o, ReloadQueue(t, o)
      PROVE  CursorInHistory'
  <2>1. history' \in Seq(Entry) /\ skipped' <= Len(history') /\ Len(history') <= Len(history)
    BY <1>5, ReloadHistory
  <2>2. Len(history') \in Nat
    BY <2>1, LenProperties
  <2> QED
    BY <1>0, <2>1, <2>2 DEF CursorInHistory
<1>6. ASSUME NEW o \in Outcomes, QueueCommand(o) \/ PlaybackCommand(o)
      PROVE  CursorInHistory'
  BY <1>1, <1>2, <1>3, <1>6, QueueCommandFrame, PlaybackHistoryFrame
<1>7. CASE Unload \/ UNCHANGED vars \/ \E t \in LocalTracks : DeleteTrack(t) \/ SkipReload(t)
  BY <1>1, <1>7 DEF Unload, vars, mem, DeleteTrack, SkipReload
<1> QED
  BY <1>4, <1>5, <1>6, <1>7 DEF Next, Answer

\* Previous can never read outside the window, however truncations, reloads
\* that drop entries under the cursor, and failed writes interleave.
THEOREM CursorStaysInHistory == Spec => []CursorInHistory
<1>1. Init => TypeOK /\ CursorInHistory
  <2> SUFFICES ASSUME Init PROVE CursorInHistory
    BY TypeOKInit
  <2> QED
    BY ConstantsAssumption, EmptySeq DEF Init, CursorInHistory
<1>2. TypeOK /\ CursorInHistory /\ [Next]_vars => (TypeOK /\ CursorInHistory)'
  BY TypeOKStep, CursorStep
<1> QED
  BY <1>1, <1>2, PTL DEF Spec

-----------------------------------------------------------------------------
(* Tombstones.                                                             *)

\* The tracks that the rows d name.
Named(d) == Songs(d.queue) \cup Songs(d.history) \cup {d.state.current}

\* A transaction that names, besides its checked songs, only what the rows
\* named already leaves no tombstoned track in them.
LEMMA CommitClean ==
  ASSUME TypeOK, TombstonesUnreferenced, UNCHANGED deleted,
         NEW o, NEW songs, NEW d, Commit(o, songs, d),
         Named(d) \subseteq songs \cup Named(disk) \cup {None}
  PROVE  TombstonesUnreferenced'
<1>1. None \notin deleted
  BY ConstantsAssumption DEF TypeOK
<1>2. \/ disk' = disk
      \/ disk' = d /\ songs \cap deleted = {}
  BY DEF Commit
<1> QED
  BY <1>1, <1>2 DEF TombstonesUnreferenced, Named

\* The songs of a concatenation come from its two halves.
LEMMA SongsConcat ==
  ASSUME NEW g \in Seq(Entry), NEW h \in Seq(Entry)
  PROVE  Songs(g \o h) \subseteq Songs(g) \cup Songs(h)
<1>1. /\ g \o h \in Seq(Entry) /\ Len(g \o h) = Len(g) + Len(h)
      /\ \A i \in 1..Len(g) + Len(h) :
           (g \o h)[i] = IF i <= Len(g) THEN g[i] ELSE h[i - Len(g)]
  BY ConcatProperties
<1>2. /\ DOMAIN g = 1..Len(g) /\ DOMAIN h = 1..Len(h)
      /\ DOMAIN (g \o h) = 1..Len(g) + Len(h)
      /\ Len(g) \in Nat /\ Len(h) \in Nat
  BY <1>1, LenProperties
<1>3. ASSUME NEW i \in 1..Len(g) + Len(h)
      PROVE  (g \o h)[i].music \in Songs(g) \cup Songs(h)
  <2>1. CASE i <= Len(g)
    BY <1>1, <1>2, <2>1 DEF Songs
  <2>2. CASE ~(i <= Len(g))
    <3>1. i - Len(g) \in DOMAIN h /\ (g \o h)[i] = h[i - Len(g)]
      BY <1>1, <1>2, <2>2
    <3> QED
      BY <3>1 DEF Songs
  <2> QED
    BY <2>1, <2>2
<1> QED
  BY <1>2, <1>3 DEF Songs

\* What Keep leaves names only tracks that are not gone, and were named before.
LEMMA SongsKeep ==
  ASSUME NEW S, NEW q \in Seq(S), NEW gone
  PROVE  Songs(Keep(q, gone)) \subseteq Songs(q) \ gone
<1> DEFINE K == {i \in DOMAIN q : q[i].music \notin gone}
<1>0. K \in SUBSET DOMAIN q
  OBVIOUS
<1>1. /\ Select(q, K) \in Seq(S) /\ Len(Select(q, K)) = Cardinality(K)
      /\ \A j \in 1..Cardinality(K) : \E i \in K : Select(q, K)[j] = q[i]
  <2> HIDE DEF K
  <2> QED
    BY <1>0, SelectKeeps
<1>2. DOMAIN Select(q, K) = 1..Cardinality(K)
  BY <1>1, LenProperties
<1> QED
  BY <1>1, <1>2 DEF Songs, Keep

\* The three kinds of transaction of the runtime.
LEMMA SynchronizeQueueClean ==
  ASSUME TypeOK, TombstonesUnreferenced, UNCHANGED deleted,
         NEW o, NEW q, SynchronizeQueue(o, q)
  PROVE  TombstonesUnreferenced'
<1> DEFINE d == [disk EXCEPT !.queue = q]
<1>1. d.queue = q /\ d.state = disk.state /\ d.history = disk.history
  BY DEF TypeOK, Disk
<1>2. Named(d) \subseteq Songs(q) \cup Named(disk) \cup {None}
  BY <1>1 DEF Named
<1>3. Commit(o, Songs(q), d)
  BY DEF SynchronizeQueue
<1> HIDE DEF d
<1> QED
  BY <1>2, <1>3, CommitClean

LEMMA UpsertClean ==
  ASSUME TypeOK, TombstonesUnreferenced, UNCHANGED deleted,
         NEW o, NEW s, Upsert(o, s)
  PROVE  TombstonesUnreferenced'
<1> DEFINE d == [disk EXCEPT !.state = s]
<1>1. d.queue = disk.queue /\ d.state = s /\ d.history = disk.history
  BY DEF TypeOK, Disk
<1>2. Named(d) \subseteq ({s.current} \ {None}) \cup Named(disk) \cup {None}
  BY <1>1 DEF Named
<1>3. Commit(o, {s.current} \ {None}, d)
  BY DEF Upsert
<1> HIDE DEF d
<1> QED
  BY <1>2, <1>3, CommitClean

LEMMA CommitRoomStateClean ==
  ASSUME TypeOK, TombstonesUnreferenced, UNCHANGED deleted,
         NEW o, NEW q, NEW s, NEW h \in Seq(Entry), CommitRoomState(o, q, s, h)
  PROVE  TombstonesUnreferenced'
<1> DEFINE d == [queue |-> q, state |-> s, history |-> h \o disk.history]
           songs == Songs(q) \cup Songs(h) \cup ({s.current} \ {None})
<1>1. d.queue = q /\ d.state = s /\ d.history = h \o disk.history
  OBVIOUS
<1>2. disk.history \in Seq(Entry)
  BY DEF TypeOK, Disk
<1>3. Songs(h \o disk.history) \subseteq Songs(h) \cup Songs(disk.history)
  BY <1>2, SongsConcat
<1>4. Named(d) \subseteq songs \cup Named(disk) \cup {None}
  BY <1>1, <1>3 DEF Named
<1>5. Commit(o, songs, d)
  BY DEF CommitRoomState
<1> HIDE DEF d, songs
<1> QED
  BY <1>4, <1>5, CommitClean

\* An advance writes its history entry in the same transaction.
LEMMA AdvanceClean ==
  ASSUME TypeOK, TombstonesUnreferenced, NEW o, Advance(o)
  PROVE  TombstonesUnreferenced'
<1> DEFINE played == IF state.current = None THEN <<>>
                     ELSE <<[music |-> state.current, by |-> state.by]>>
<1>1. played \in Seq(Entry)
  <2>1. CASE state.current = None
    BY <2>1, EmptySeq
  <2>2. CASE state.current # None
    <3>1. [music |-> state.current, by |-> state.by] \in Entry
      BY <2>2, StateFields DEF TypeOK, Entry
    <3> QED
      BY <2>2, <3>1
  <2> QED
    BY <2>1, <2>2
<1>2. UNCHANGED deleted
  BY DEF Advance
<1>3. \E q, s : CommitRoomState(o, q, s, played)
  BY DEF Advance
<1> HIDE DEF played
<1> QED
  BY <1>1, <1>2, <1>3, CommitRoomStateClean

\* Every queue command writes through one of the two.
LEMMA QueueCommandClean ==
  ASSUME TypeOK, TombstonesUnreferenced, NEW o, QueueCommand(o)
  PROVE  TombstonesUnreferenced'
<1>1. UNCHANGED deleted
  BY QueueCommandFrame
<1>2. <<>> \in Seq(Entry)
  BY EmptySeq
<1>3. \/ \E q : SynchronizeQueue(o, q)
      \/ \E q, s : CommitRoomState(o, q, s, <<>>)
  <2>1. CASE \E u \in Users, n \in 1..MaxBatch : \E ms \in [1..n -> Tracks] : Enqueue(u, ms, o)
    BY <2>1 DEF Enqueue
  <2>2. CASE \E q : Rearrange(q, o)
    BY <2>2 DEF Rearrange
  <2> QED
    BY <2>1, <2>2 DEF QueueCommand, RemoveItems, Top, Reorder, ReorderByID, Clear
<1> QED
  BY <1>1, <1>2, <1>3, SynchronizeQueueClean, CommitRoomStateClean

\* So does every playback command that does not advance.
LEMMA PlaybackCommandClean ==
  ASSUME TypeOK, TombstonesUnreferenced, NEW o, PlaybackCommand(o)
  PROVE  TombstonesUnreferenced'
<1>1. \/ Advance(o)
      \/ \E s : MutateState(o, s)
      \/ UNCHANGED <<disk, deleted>>
  BY DEF PlaybackCommand, NextSong, Tick, TogglePause, ToggleShuffle, Seek, Previous,
         Like, Unlike
<1>2. CASE \E s : MutateState(o, s)
  <2>1. UNCHANGED deleted /\ \E s : Upsert(o, s)
    BY <1>2 DEF MutateState
  <2> QED
    BY <2>1, UpsertClean
<1>3. CASE UNCHANGED <<disk, deleted>>
  BY <1>3 DEF TombstonesUnreferenced
<1> QED
  BY <1>1, <1>2, <1>3, AdvanceClean

\* The deletion takes every reference with it, in the transaction that leaves
\* the tombstone.
LEMMA DeleteTrackClean ==
  ASSUME TypeOK, TombstonesUnreferenced, NEW t \in LocalTracks, DeleteTrack(t)
  PROVE  TombstonesUnreferenced'
<1>0. None # t /\ None \notin deleted
  BY ConstantsAssumption DEF TypeOK
<1>1. disk.queue \in Seq(Item) /\ disk.state \in State /\ disk.history \in Seq(Entry)
  BY DEF TypeOK, Disk
<1>2. /\ Songs(Keep(disk.queue, {t})) \subseteq Songs(disk.queue) \ {t}
      /\ Songs(Keep(disk.history, {t})) \subseteq Songs(disk.history) \ {t}
  BY <1>1, SongsKeep
<1>3. /\ disk'.queue = Keep(disk.queue, {t})
      /\ disk'.history = Keep(disk.history, {t})
      /\ disk'.state = IF disk.state.current = t
                       THEN [disk.state EXCEPT !.current = None] ELSE disk.state
      /\ deleted' = deleted \cup {t}
  BY DEF DeleteTrack
<1>4. disk'.state.current \in ({disk.state.current} \ {t}) \cup {None}
  BY <1>1, <1>3 DEF State
<1> QED
  BY <1>0, <1>2, <1>3, <1>4 DEF TombstonesUnreferenced

LEMMA ReloadQueueClean ==
  ASSUME TypeOK, TombstonesUnreferenced, NEW t \in LocalTracks, NEW o, ReloadQueue(t, o)
  PROVE  TombstonesUnreferenced'
<1>1. UNCHANGED deleted
  BY DEF ReloadQueue
<1>2. \/ UNCHANGED disk
      \/ \E q, s : CommitRoomState(o, q, s, <<>>)
  BY DEF ReloadQueue
<1>3. <<>> \in Seq(Entry)
  BY EmptySeq
<1>4. CASE UNCHANGED disk
  BY <1>1, <1>4 DEF TombstonesUnreferenced
<1> QED
  BY <1>1, <1>2, <1>3, <1>4, CommitRoomStateClean

LEMMA TombstonesStep ==
  ASSUME TypeOK, TombstonesUnreferenced, [Next]_vars
  PROVE  TombstonesUnreferenced'
<1>1. ASSUME NEW o \in Outcomes, QueueCommand(o) \/ PlaybackCommand(o)
      PROVE  TombstonesUnreferenced'
  BY <1>1, QueueCommandClean, PlaybackCommandClean
<1>2. ASSUME NEW t \in LocalTracks, DeleteTrack(t)
      PROVE  TombstonesUnreferenced'
  BY <1>2, DeleteTrackClean
<1>3. ASSUME NEW t \in LocalTracks, NEW o, ReloadQueue(t, o)
      PROVE  TombstonesUnreferenced'
  BY <1>3, ReloadQueueClean
<1>4. ASSUME UNCHANGED <<disk, deleted>>
      PROVE  TombstonesUnreferenced'
  BY <1>4 DEF TombstonesUnreferenced
<1>5. CASE \/ \E readable \in BOOLEAN : Load(readable)
           \/ Unload
           \/ UNCHANGED vars
           \/ \E t \in LocalTracks : SkipReload(t)
  BY <1>4, <1>5 DEF Load, Unload, SkipReload, vars
<1> QED
  BY <1>1, <1>2, <1>3, <1>5 DEF Next, Answer

\* A runtime that still remembers a deleted track never writes it back: no row
\* names a tombstoned track, whichever hooks were missed or failed.
THEOREM TombstonesStayUnreferenced == Spec => []TombstonesUnreferenced
<1>1. Init => TypeOK /\ TombstonesUnreferenced
  <2> SUFFICES ASSUME Init PROVE TombstonesUnreferenced
    BY TypeOKInit
  <2> QED
    BY DEF Init, TombstonesUnreferenced
<1>2. TypeOK /\ TombstonesUnreferenced /\ [Next]_vars
        => (TypeOK /\ TombstonesUnreferenced)'
  BY TypeOKStep, TombstonesStep
<1> QED
  BY <1>1, <1>2, PTL DEF Spec

-----------------------------------------------------------------------------
(* Versions and epochs.                                                    *)

\* n supersedes s: a later version, and no other track under the same epoch.
Later(s, n) ==
  /\ n.version > s.version
  /\ n.epoch >= s.epoch
  /\ n.epoch = s.epoch => n.current \in {s.current, None}

\* What a step may do to the state that clients see.
Published == state' = state \/ Later(state, state') \/ state' = disk.state

\* Starting an item or stopping supersedes what was there.
LEMMA PlayLater ==
  ASSUME NEW s \in State, NEW it
  PROVE  Later(s, Play(s, it)) /\ Later(s, Stop(s))
<1>1. /\ Play(s, it).version = s.version + 1 /\ Play(s, it).epoch = s.epoch + 1
      /\ Stop(s).version = s.version + 1 /\ Stop(s).epoch = s.epoch
      /\ Stop(s).current = None
  BY DEF Play, Stop, State
<1> QED
  BY <1>1, StateFields DEF Later

\* Whatever becomes of its write, a superseding state leaves the row in front:
\* adopted, it is what the row holds; cancelled, it waits in the row.
LEMMA AdoptLater ==
  ASSUME RowsNotBehind, UNCHANGED deleted,
         NEW o, NEW songs, NEW d, NEW n, d.state = n,
         Commit(o, songs, d), AdoptState(o, n), Later(state, n)
  PROVE  RowsNotBehind' /\ Published
<1>1. CASE o = "ok"
  <2>1. disk'.state = n /\ state' = n
    BY <1>1 DEF Commit, AdoptState
  <2> QED
    BY <2>1 DEF RowsNotBehind, Published
<1>2. CASE o = "fail"
  <2>1. disk' = disk /\ state' = state
    BY <1>2 DEF Commit, AdoptState
  <2> QED
    BY <2>1 DEF RowsNotBehind, Published
<1>3. CASE o = "unknown"
  <2>1. disk'.state = n /\ state' = state
    BY <1>3 DEF Commit, AdoptState
  <2> QED
    BY <2>1 DEF RowsNotBehind, Published, Later
<1> QED
  BY <1>1, <1>2, <1>3 DEF Commit, Outcomes

\* A write of the queue alone does not touch either state.
LEMMA SynchronizeQueuePublished ==
  ASSUME TypeOK, RowsNotBehind, UNCHANGED <<deleted, state>>,
         NEW o, NEW q, SynchronizeQueue(o, q)
  PROVE  RowsNotBehind' /\ Published
<1> DEFINE d == [disk EXCEPT !.queue = q]
<1>1. d.state = disk.state
  BY DEF TypeOK, Disk
<1>2. disk' = disk \/ disk' = d
  BY DEF SynchronizeQueue, Commit
<1>3. disk'.state = disk.state
  BY <1>1, <1>2
<1> QED
  BY <1>3 DEF RowsNotBehind, Published

LEMMA CommitRoomStatePublished ==
  ASSUME TypeOK, RowsNotBehind, UNCHANGED deleted, NEW o, NEW q, NEW n, NEW h,
         CommitRoomState(o, q, n, h), AdoptState(o, n), Later(state, n)
  PROVE  RowsNotBehind' /\ Published
<1> DEFINE d == [queue |-> q, state |-> n, history |-> h \o disk.history]
<1>1. d.state = n
  OBVIOUS
<1>2. \E songs : Commit(o, songs, d)
  BY DEF CommitRoomState
<1> HIDE DEF d
<1> QED
  BY <1>1, <1>2, AdoptLater

\* One version more, and another epoch with another track.
LEMMA MutateStatePublished ==
  ASSUME TypeOK, RowsNotBehind, NEW o, NEW s \in State, MutateState(o, s),
         s.version = state.version, s.epoch >= state.epoch,
         s.epoch = state.epoch => s.current = state.current
  PROVE  RowsNotBehind' /\ Published
<1> DEFINE n == [s EXCEPT !.version = @ + 1]
           d == [disk EXCEPT !.state = n]
<1>1. n.version = s.version + 1 /\ n.epoch = s.epoch /\ n.current = s.current
  BY DEF State
<1>2. d.state = n
  BY DEF TypeOK, Disk
<1>3. /\ UNCHANGED deleted
      /\ AdoptState(o, n)
      /\ \E songs : Commit(o, songs, d)
  BY DEF MutateState, Upsert
<1> HIDE DEF d, n
<1>4. Later(state, n)
  BY <1>1, StateFields DEF Later, TypeOK
<1> QED
  BY <1>2, <1>3, <1>4, AdoptLater

LEMMA AdvancePublished ==
  ASSUME TypeOK, RowsNotBehind, NEW o, Advance(o)
  PROVE  RowsNotBehind' /\ Published
<1>1. UNCHANGED deleted /\ state \in State
  BY DEF Advance, TypeOK
<1>2. \E q, h, n : /\ CommitRoomState(o, q, n, h) /\ AdoptState(o, n)
                   /\ n = Stop(state) \/ \E it : n = Play(state, it)
  BY DEF Advance
<1> QED
  BY <1>1, <1>2, PlayLater, CommitRoomStatePublished

LEMMA QueueCommandPublished ==
  ASSUME TypeOK, RowsNotBehind, NEW o, QueueCommand(o)
  PROVE  RowsNotBehind' /\ Published
<1>1. UNCHANGED deleted /\ state \in State
  BY QueueCommandFrame DEF TypeOK
<1>2. \/ UNCHANGED state /\ \E q : SynchronizeQueue(o, q)
      \/ \E q, it : /\ CommitRoomState(o, q, Play(state, it), <<>>)
                    /\ AdoptState(o, Play(state, it))
  <2>1. CASE \E u \in Users, n \in 1..MaxBatch : \E ms \in [1..n -> Tracks] : Enqueue(u, ms, o)
    BY <2>1 DEF Enqueue
  <2>2. CASE \E q : Rearrange(q, o)
    BY <2>2 DEF Rearrange
  <2> QED
    BY <2>1, <2>2 DEF QueueCommand, RemoveItems, Top, Reorder, ReorderByID, Clear
<1> QED
  BY <1>1, <1>2, PlayLater, SynchronizeQueuePublished, CommitRoomStatePublished

LEMMA PlaybackCommandPublished ==
  ASSUME TypeOK, RowsNotBehind, NEW o, PlaybackCommand(o)
  PROVE  RowsNotBehind' /\ Published
<1> DEFINE Goal == RowsNotBehind' /\ Published
<1>1. state \in State
  BY DEF TypeOK
<1>2. \A s \in State : MutateState(o, s) /\ s.version = state.version
                       /\ s.epoch = state.epoch /\ s.current = state.current => Goal
  BY <1>1, StateFields, MutateStatePublished
<1>3. \A s \in State : MutateState(o, s) /\ s.version = state.version
                       /\ s.epoch = state.epoch + 1 => Goal
  BY <1>1, StateFields, MutateStatePublished
<1>4. ASSUME UNCHANGED <<deleted, state, disk>>
      PROVE  Goal
  BY <1>4 DEF RowsNotBehind, Published
<1>5. CASE \/ NextSong(o) \/ Tick(o)
           \/ TogglePause(o) /\ Advance(o)
  BY <1>5, AdvancePublished DEF NextSong, Tick
<1>6. CASE TogglePause(o) /\ MutateState(o, [state EXCEPT !.paused = ~@])
  <2> DEFINE s == [state EXCEPT !.paused = ~@]
  <2>1. s \in State /\ s.version = state.version
        /\ s.epoch = state.epoch /\ s.current = state.current
    BY <1>1 DEF State
  <2> QED
    BY <1>2, <1>6, <2>1
<1>7. CASE ToggleShuffle(o)
  <2> DEFINE s == [state EXCEPT !.shuffle = ~@]
  <2>1. s \in State /\ s.version = state.version
        /\ s.epoch = state.epoch /\ s.current = state.current
    BY <1>1 DEF State
  <2>2. MutateState(o, s)
    BY <1>7 DEF ToggleShuffle
  <2> QED
    BY <1>2, <2>1, <2>2
<1>8. CASE \E u \in Users, admin \in BOOLEAN : Seek(u, admin, o)
  <2> DEFINE s == [state EXCEPT !.epoch = @ + 1]
  <2>1. s \in State /\ s.version = state.version /\ s.epoch = state.epoch + 1
    BY <1>1 DEF State
  <2>2. MutateState(o, s)
    BY <1>8 DEF Seek
  <2> QED
    BY <1>3, <2>1, <2>2
<1>9. CASE Previous(o)
  <2> DEFINE entry == history[skipped + 1]
             s == [state EXCEPT !.current = entry.music, !.by = entry.by,
                                !.item = 0, !.paused = FALSE, !.likes = {},
                                !.markers = 0, !.epoch = @ + 1]
  <2>1. s \in State
    BY <1>9, PreviousState
  <2>2. s.version = state.version /\ s.epoch = state.epoch + 1
    BY <1>1 DEF State
  <2>3. MutateState(o, s)
    BY <1>9 DEF Previous
  <2> HIDE DEF s
  <2> QED
    BY <1>3, <2>1, <2>2, <2>3
<1>10. ASSUME NEW u \in Likers, NEW listed, Like(u, listed, o)
       PROVE  Goal
  <2> DEFINE s == [state EXCEPT !.likes = @ \cup {u}, !.markers = @ + 1]
  <2>1. state.likes \cup {u} \in SUBSET Users /\ state.markers + 1 \in Nat
    BY <1>1, StateFields, ConstantsAssumption
  <2>2. s \in State
    BY <1>1, <2>1, StateFields, Zenon DEF State
  <2>3. s.version = state.version /\ s.epoch = state.epoch /\ s.current = state.current
    BY <1>1 DEF State
  <2>4. MutateState(o, s) \/ UNCHANGED <<deleted, state, disk>>
    BY <1>10 DEF Like, mem
  <2> HIDE DEF s
  <2> QED
    BY <1>2, <1>4, <2>2, <2>3, <2>4
<1>11. ASSUME NEW u \in Likers, NEW listed, Unlike(u, listed, o)
       PROVE  Goal
  <2> DEFINE left == IF state.markers > 0 THEN state.markers - 1 ELSE 0
             s == [state EXCEPT !.likes = state.likes \ {u}, !.markers = left]
  <2>1. state.likes \ {u} \in SUBSET Users /\ left \in Nat
    BY <1>1, StateFields
  <2>2. MutateState(o, s) \/ UNCHANGED <<deleted, state, disk>>
    BY <1>11 DEF Unlike, mem
  <2> HIDE DEF left
  <2>3. s \in State
    BY <1>1, <2>1, StateFields, Zenon DEF State
  <2>4. s.version = state.version /\ s.epoch = state.epoch /\ s.current = state.current
    BY <1>1 DEF State
  <2> HIDE DEF s
  <2> QED
    BY <1>2, <1>4, <2>2, <2>3, <2>4
<1> QED
  BY <1>5, <1>6, <1>7, <1>8, <1>9, <1>10, <1>11 DEF PlaybackCommand, TogglePause

LEMMA ReloadQueuePublished ==
  ASSUME TypeOK, RowsNotBehind, NEW t, NEW o, ReloadQueue(t, o)
  PROVE  RowsNotBehind' /\ Published
<1>1. UNCHANGED deleted /\ state \in State
  BY DEF ReloadQueue, TypeOK
<1>2. \/ UNCHANGED <<state, disk>>
      \/ \E q, n : /\ CommitRoomState(o, q, n, <<>>) /\ AdoptState(o, n)
                   /\ n = Stop(state) \/ \E it : n = Play(state, it)
  BY DEF ReloadQueue
<1>3. CASE UNCHANGED <<state, disk>>
  BY <1>1, <1>3 DEF RowsNotBehind, Published
<1> QED
  BY <1>1, <1>2, <1>3, PlayLater, CommitRoomStatePublished

\* A deletion nulls the track in the row and leaves its versions.
LEMMA DeleteTrackPublished ==
  ASSUME TypeOK, RowsNotBehind, NEW t \in LocalTracks, DeleteTrack(t)
  PROVE  RowsNotBehind' /\ Published
<1>0. None # t /\ disk.state \in State /\ state \in State
  BY ConstantsAssumption DEF TypeOK, Disk
<1>1. /\ disk'.state = IF disk.state.current = t
                       THEN [disk.state EXCEPT !.current = None] ELSE disk.state
      /\ deleted' = deleted \cup {t} /\ UNCHANGED state
  BY DEF DeleteTrack, mem
<1>2. CASE disk.state.current # t
  BY <1>1, <1>2 DEF RowsNotBehind, Published
<1>3. CASE disk.state.current = t
  <2> DEFINE n == [disk.state EXCEPT !.current = None]
  <2>1. n.version = disk.state.version /\ n.epoch = disk.state.epoch /\ n.current = None
    BY <1>0 DEF State
  <2>2. disk'.state = n /\ (disk.state = state => n = [state EXCEPT !.current = None])
    BY <1>1, <1>3
  <2>3. ~(disk.state = [state EXCEPT !.current = None])
    BY <1>0, <1>3 DEF State
  <2> HIDE DEF n
  <2> QED
    BY <1>1, <1>3, <2>1, <2>2, <2>3 DEF RowsNotBehind, Published
<1> QED
  BY <1>2, <1>3

\* Every step keeps the row in front and shows clients nothing older.
LEMMA PublishedStep ==
  ASSUME TypeOK, RowsNotBehind, [Next]_vars
  PROVE  RowsNotBehind' /\ Published
<1>1. ASSUME NEW o \in Outcomes, QueueCommand(o) \/ PlaybackCommand(o)
      PROVE  RowsNotBehind' /\ Published
  BY <1>1, QueueCommandPublished, PlaybackCommandPublished
<1>2. ASSUME NEW t \in LocalTracks, DeleteTrack(t)
      PROVE  RowsNotBehind' /\ Published
  BY <1>2, DeleteTrackPublished
<1>3. ASSUME NEW t \in LocalTracks, NEW o, ReloadQueue(t, o)
      PROVE  RowsNotBehind' /\ Published
  BY <1>3, ReloadQueuePublished
<1>4. ASSUME NEW readable \in BOOLEAN, Load(readable)
      PROVE  RowsNotBehind' /\ Published
  <2>1. state' = disk.state /\ disk' = disk
    BY <1>4 DEF Load
  <2> QED
    BY <2>1 DEF RowsNotBehind, Published
<1>5. ASSUME UNCHANGED <<state, disk, deleted>>
      PROVE  RowsNotBehind' /\ Published
  BY <1>5 DEF RowsNotBehind, Published
<1>6. CASE Unload \/ UNCHANGED vars \/ \E t \in LocalTracks : SkipReload(t)
  BY <1>5, <1>6 DEF Unload, SkipReload, vars, mem
<1> QED
  BY <1>1, <1>2, <1>3, <1>4, <1>6 DEF Next, Answer

\* The saved playback state is never older than the one clients saw.
THEOREM RowsStayInFront == Spec => []RowsNotBehind
<1>1. Init => TypeOK /\ RowsNotBehind
  <2> SUFFICES ASSUME Init PROVE RowsNotBehind
    BY TypeOKInit
  <2>1. disk.state = state
    BY DEF Init
  <2> QED
    BY <2>1 DEF RowsNotBehind
<1>2. TypeOK /\ RowsNotBehind /\ [Next]_vars => (TypeOK /\ RowsNotBehind)'
  BY TypeOKStep, PublishedStep
<1> QED
  BY <1>1, <1>2, PTL DEF Spec

\* The playback state never changes under the same stateVersion and neither
\* version goes back: not in a command, a cancelled write, or a restart.
THEOREM PublishedVersioned == Spec => PublishedStateIsVersioned
<1> DEFINE A == state' # state =>
                  \/ state'.version > state.version /\ state'.epoch >= state.epoch
                  \/ state.current \in deleted /\ state' = [state EXCEPT !.current = None]
<1>1. Spec => [](TypeOK /\ RowsNotBehind)
  BY TypeCorrect, RowsStayInFront, PTL
<1>2. TypeOK /\ RowsNotBehind /\ [Next]_vars => [A]_vars
  <2> SUFFICES ASSUME TypeOK, RowsNotBehind, [Next]_vars
               PROVE  A
    OBVIOUS
  <2>1. Published
    BY PublishedStep
  <2> QED
    BY <2>1 DEF Published, Later, RowsNotBehind
<1> QED
  BY <1>1, <1>2, PTL DEF Spec, PublishedStateIsVersioned

\* Under an unchanged epoch the current track can end but not become another.
THEOREM EpochNamesTrack == Spec => EpochNamesOneTrack
<1> DEFINE A == state'.epoch = state.epoch => state'.current \in {state.current, None}
<1>1. Spec => [](TypeOK /\ RowsNotBehind)
  BY TypeCorrect, RowsStayInFront, PTL
<1>2. TypeOK /\ RowsNotBehind /\ [Next]_vars => [A]_vars
  <2> SUFFICES ASSUME TypeOK, RowsNotBehind, [Next]_vars
               PROVE  A
    OBVIOUS
  <2>1. Published
    BY PublishedStep
  <2> QED
    BY <2>1 DEF Published, Later, RowsNotBehind
<1> QED
  BY <1>1, <1>2, PTL DEF Spec, EpochNamesOneTrack
-----------------------------------------------------------------------------
(* Queue versions.                                                         *)

\* The queue is adopted with a new version.
LEMMA AdoptQueueMoves ==
  ASSUME TypeOK, NEW o, NEW q, AdoptQueue(o, q)
  PROVE  queue' = queue \/ queueVersion' > queueVersion
BY DEF AdoptQueue, TypeOK

LEMMA QueueVersionStep ==
  ASSUME TypeOK, [Next]_vars, loaded, queue' # queue
  PROVE  queueVersion' > queueVersion
<1>1. ASSUME NEW o, QueueCommand(o)
      PROVE  \E q : AdoptQueue(o, q)
  BY <1>1 DEF QueueCommand, Enqueue, RemoveItems, Top, Reorder, ReorderByID, Clear, Rearrange
<1>2. ASSUME NEW o, PlaybackCommand(o)
      PROVE  UNCHANGED queue \/ \E q : AdoptQueue(o, q)
  BY <1>2 DEF PlaybackCommand, NextSong, Tick, TogglePause, ToggleShuffle, Seek, Previous,
              Like, Unlike, MutateState, Advance, mem
<1>3. ASSUME NEW t \in LocalTracks, NEW o, ReloadQueue(t, o)
      PROVE  \E q : AdoptQueue(o, q)
  BY <1>3 DEF ReloadQueue
<1>4. ASSUME NEW o \in Outcomes, QueueCommand(o) \/ PlaybackCommand(o)
      PROVE  queueVersion' > queueVersion
  BY <1>1, <1>2, <1>4, AdoptQueueMoves
<1>5. ASSUME NEW t \in LocalTracks, NEW o, ReloadQueue(t, o)
      PROVE  queueVersion' > queueVersion
  BY <1>3, <1>5, AdoptQueueMoves
<1> QED
  BY <1>4, <1>5 DEF Next, Load, Unload, Answer, DeleteTrack, SkipReload, vars, mem

\* No change of the pending queue is hidden from clients, which compare queue
\* versions, by a command, a track that ends or a reload.
THEOREM QueueVersioned == Spec => QueueChangesAreVersioned
<1> DEFINE A == loaded /\ queue' # queue => queueVersion' > queueVersion
<1>1. TypeOK /\ [Next]_vars => [A]_vars
  BY QueueVersionStep
<1> QED
  BY <1>1, TypeCorrect, PTL DEF Spec, QueueChangesAreVersioned

-----------------------------------------------------------------------------
(* Likes and their markers.                                                *)

\* One marker per member who likes the track of the state s.
Marked(s) == IsFiniteSet(s.likes) /\ Cardinality(s.likes) = s.markers
LikesMarked == Marked(state) /\ Marked(disk.state)

\* A new track, or none, has no likes and no markers.
LEMMA PlayMarked ==
  ASSUME NEW s \in State, NEW it
  PROVE  Marked(Play(s, it)) /\ Marked(Stop(s))
<1>1. Play(s, it).likes = {} /\ Play(s, it).markers = 0
  BY DEF Play, State
<1>2. Stop(s).likes = {} /\ Stop(s).markers = 0
  BY DEF Stop, State
<1> QED
  BY <1>1, <1>2, FS_EmptySet DEF Marked

\* A transaction that writes a marked state, or the state that was there,
\* keeps the row's markers.
LEMMA WriteMarked ==
  ASSUME LikesMarked, NEW o, NEW songs, NEW d, Commit(o, songs, d),
         Marked(d.state) \/ d.state = disk.state
  PROVE  Marked(disk'.state)
BY DEF Commit, LikesMarked, Marked

LEMMA CommitRoomStateMarked ==
  ASSUME LikesMarked, NEW o, NEW q, NEW s, NEW h, Marked(s),
         CommitRoomState(o, q, s, h), AdoptState(o, s)
  PROVE  LikesMarked'
<1> DEFINE d == [queue |-> q, state |-> s, history |-> h \o disk.history]
<1>1. d.state = s
  OBVIOUS
<1>2. Commit(o, Songs(q) \cup Songs(h) \cup ({s.current} \ {None}), d)
  BY DEF CommitRoomState
<1> HIDE DEF d
<1>3. Marked(disk'.state)
  BY <1>1, <1>2, WriteMarked
<1> QED
  BY <1>3 DEF LikesMarked, AdoptState, Marked

LEMMA SynchronizeQueueMarked ==
  ASSUME TypeOK, LikesMarked, NEW o, NEW q, SynchronizeQueue(o, q), UNCHANGED state
  PROVE  LikesMarked'
<1> DEFINE d == [disk EXCEPT !.queue = q]
<1>1. d.state = disk.state
  BY DEF TypeOK, Disk
<1>2. Commit(o, Songs(q), d)
  BY DEF SynchronizeQueue
<1> HIDE DEF d
<1>3. Marked(disk'.state)
  BY <1>1, <1>2, WriteMarked
<1> QED
  BY <1>3 DEF LikesMarked, Marked

LEMMA MutateStateMarked ==
  ASSUME TypeOK, LikesMarked, NEW o, NEW s \in State, Marked(s), MutateState(o, s)
  PROVE  LikesMarked'
<1> DEFINE next == [s EXCEPT !.version = @ + 1]
           d == [disk EXCEPT !.state = next]
<1>1. next.likes = s.likes /\ next.markers = s.markers
  BY DEF State
<1>2. d.state = next
  BY DEF TypeOK, Disk
<1>3. Commit(o, {next.current} \ {None}, d) /\ AdoptState(o, next)
  BY DEF MutateState, Upsert
<1> HIDE DEF next, d
<1>4. Marked(next)
  BY <1>1 DEF Marked
<1>5. Marked(disk'.state)
  BY <1>2, <1>3, <1>4, WriteMarked
<1> QED
  BY <1>3, <1>4, <1>5 DEF LikesMarked, AdoptState, Marked

\* Advancing is one transaction with the next item, or without one.
LEMMA AdvanceMarked ==
  ASSUME TypeOK, LikesMarked, NEW o, Advance(o)
  PROVE  LikesMarked'
<1> DEFINE played == IF state.current = None THEN <<>>
                     ELSE <<[music |-> state.current, by |-> state.by]>>
<1>1. \E q, s : /\ \/ s = Stop(state)
                   \/ \E k : s = Play(state, queue[k])
                /\ CommitRoomState(o, q, s, played) /\ AdoptState(o, s)
  BY Zenon DEF Advance
<1> HIDE DEF played
<1>2. \A k : Marked(Play(state, queue[k])) /\ Marked(Stop(state))
  BY PlayMarked DEF TypeOK
<1> QED
  BY <1>1, <1>2, CommitRoomStateMarked

LEMMA QueueCommandMarked ==
  ASSUME TypeOK, LikesMarked, NEW o, QueueCommand(o)
  PROVE  LikesMarked'
<1>1. ASSUME NEW q, Rearrange(q, o)
      PROVE  LikesMarked'
  BY <1>1, SynchronizeQueueMarked DEF Rearrange
<1>2. ASSUME NEW u, NEW ms, Enqueue(u, ms, o)
      PROVE  LikesMarked'
  <2>1. \/ \E q : SynchronizeQueue(o, q) /\ UNCHANGED state
        \/ \E q, it : CommitRoomState(o, q, Play(state, it), <<>>) /\ AdoptState(o, Play(state, it))
    BY <1>2, Zenon DEF Enqueue
  <2>2. \A it : Marked(Play(state, it))
    BY PlayMarked DEF TypeOK
  <2> QED
    BY <2>1, <2>2, SynchronizeQueueMarked, CommitRoomStateMarked
<1> QED
  BY <1>1, <1>2 DEF QueueCommand, RemoveItems, Top, Reorder, ReorderByID, Clear

\* A like adds a member and a marker, its withdrawal removes both.
LEMMA LikeMarked ==
  ASSUME TypeOK, LikesMarked, NEW u \in Likers, NEW listed, NEW o, Like(u, listed, o)
  PROVE  LikesMarked'
<1> DEFINE s == [state EXCEPT !.likes = @ \cup {u}, !.markers = @ + 1]
<1>1. CASE MutateState(o, s)
  <2>1. s.likes = state.likes \cup {u} /\ s.markers = state.markers + 1
    BY DEF TypeOK, State
  <2>2. u \in Users /\ u \notin state.likes
    BY ConstantsAssumption DEF Like
  <2>3. state.likes \cup {u} \in SUBSET Users /\ state.markers + 1 \in Nat /\ state \in State
    BY <2>2, StateFields DEF TypeOK
  <2>4. s \in State
    BY <2>3, StateFields, Zenon DEF State
  <2>5. Marked(s)
    BY <2>1, <2>2, FS_AddElement DEF LikesMarked, Marked
  <2> HIDE DEF s
  <2> QED
    BY <1>1, <2>4, <2>5, MutateStateMarked
<1>2. CASE UNCHANGED <<state, disk>>
  BY <1>2 DEF LikesMarked, Marked
<1> QED
  BY <1>1, <1>2 DEF Like, mem

LEMMA UnlikeMarked ==
  ASSUME TypeOK, LikesMarked, NEW u \in Likers, NEW listed, NEW o, Unlike(u, listed, o)
  PROVE  LikesMarked'
<1> DEFINE s == [state EXCEPT !.likes = @ \ {u}, !.markers = IF @ > 0 THEN @ - 1 ELSE 0]
<1>1. CASE MutateState(o, s)
  <2>1. /\ s.likes = state.likes \ {u}
        /\ s.markers = IF state.markers > 0 THEN state.markers - 1 ELSE 0
    BY DEF TypeOK, State
  <2>2. u \in state.likes /\ state \in State
    BY DEF Unlike, TypeOK
  <2>3. /\ IsFiniteSet(state.likes \ {u})
        /\ Cardinality(state.likes \ {u}) = Cardinality(state.likes) - 1
    BY <2>2, FS_RemoveElement DEF LikesMarked, Marked
  <2>4. Cardinality(state.likes \ {u}) \in Nat
    BY <2>3, FS_CardinalityType
  <2>5. Marked(s)
    <3>1. state.markers = Cardinality(state.likes) /\ state.markers \in Nat
      BY <2>2, StateFields DEF LikesMarked, Marked
    <3>2. s.markers = Cardinality(state.likes \ {u})
      BY <2>1, <2>3, <2>4, <3>1
    <3> QED
      BY <2>1, <2>3, <3>2 DEF Marked
  <2>6. /\ state.likes \ {u} \in SUBSET Users
        /\ (IF state.markers > 0 THEN state.markers - 1 ELSE 0) \in Nat
    BY <2>2, StateFields
  <2>7. s \in State
    BY <2>2, <2>6, StateFields, Zenon DEF State
  <2> HIDE DEF s
  <2> QED
    BY <1>1, <2>5, <2>7, MutateStateMarked
<1>2. CASE UNCHANGED <<state, disk>>
  BY <1>2 DEF LikesMarked, Marked
<1> QED
  BY <1>1, <1>2 DEF Unlike, mem

\* The other playback commands keep the likes, or begin another track.
LEMMA PlaybackCommandMarked ==
  ASSUME TypeOK, LikesMarked, NEW o, PlaybackCommand(o)
  PROVE  LikesMarked'
<1>0. state \in State
  BY DEF TypeOK
<1>1. CASE Advance(o)
  BY <1>1, AdvanceMarked
<1>2. ASSUME NEW s, MutateState(o, s),
             \/ s = [state EXCEPT !.paused = ~@]
             \/ s = [state EXCEPT !.shuffle = ~@]
             \/ s = [state EXCEPT !.epoch = @ + 1]
      PROVE  LikesMarked'
  <2>1. (~state.paused) \in BOOLEAN /\ (~state.shuffle) \in BOOLEAN
    OBVIOUS
  <2>2. s \in State
    BY <1>0, <1>2, <2>1, StateFields, Zenon DEF State
  <2>3. s.likes = state.likes /\ s.markers = state.markers
    BY <1>0, <1>2 DEF State
  <2> QED
    BY <1>2, <2>2, <2>3, MutateStateMarked DEF LikesMarked, Marked
<1>3. CASE Previous(o)
  <2> DEFINE s == [state EXCEPT !.current = history[skipped + 1].music,
                                !.by = history[skipped + 1].by,
                                !.item = 0, !.paused = FALSE, !.likes = {},
                                !.markers = 0, !.epoch = @ + 1]
  <2>1. MutateState(o, s)
    BY <1>3 DEF Previous
  <2>2. s \in State
    BY <1>3, PreviousState
  <2>3. s.likes = {} /\ s.markers = 0
    BY <1>0 DEF State
  <2> HIDE DEF s
  <2> QED
    BY <2>1, <2>2, <2>3, MutateStateMarked, FS_EmptySet DEF Marked
<1>4. ASSUME NEW u \in Likers, NEW listed, Like(u, listed, o) \/ Unlike(u, listed, o)
      PROVE  LikesMarked'
  BY <1>4, LikeMarked, UnlikeMarked
<1> QED
  BY <1>1, <1>2, <1>3, <1>4, Zenon
     DEF PlaybackCommand, NextSong, Tick, TogglePause, ToggleShuffle, Seek

LEMMA ReloadQueueMarked ==
  ASSUME TypeOK, LikesMarked, NEW t, NEW o, ReloadQueue(t, o)
  PROVE  LikesMarked'
<1>1. \/ UNCHANGED <<state, disk>>
      \/ \E q, s : /\ \/ s = Stop(state)
                       \/ \E it : s = Play(state, it)
                    /\ CommitRoomState(o, q, s, <<>>) /\ AdoptState(o, s)
  BY Zenon DEF ReloadQueue
<1>2. \A it : Marked(Play(state, it)) /\ Marked(Stop(state))
  BY PlayMarked DEF TypeOK
<1>3. CASE UNCHANGED <<state, disk>>
  BY <1>3 DEF LikesMarked, Marked
<1> QED
  BY <1>1, <1>2, <1>3, CommitRoomStateMarked

LEMMA MarkedStep ==
  ASSUME TypeOK, LikesMarked, [Next]_vars
  PROVE  LikesMarked'
<1>1. ASSUME NEW t \in LocalTracks, DeleteTrack(t)
      PROVE  LikesMarked'
  <2>1. disk.state \in State
    BY DEF TypeOK, Disk
  <2>2. UNCHANGED state
    BY <1>1 DEF DeleteTrack, mem
  <2>3. disk'.state = IF disk.state.current = t THEN [disk.state EXCEPT !.current = None]
                                                ELSE disk.state
    BY <1>1, Zenon DEF DeleteTrack
  <2>4. disk'.state.likes = disk.state.likes /\ disk'.state.markers = disk.state.markers
    BY <2>1, <2>3 DEF State
  <2> QED
    BY <2>2, <2>4 DEF LikesMarked, Marked
<1>2. ASSUME NEW readable, Load(readable)
      PROVE  LikesMarked'
  BY <1>2 DEF Load, LikesMarked, Marked
<1>3. ASSUME UNCHANGED <<state, disk>>
      PROVE  LikesMarked'
  BY <1>3 DEF LikesMarked, Marked
<1> QED
  BY <1>1, <1>2, <1>3, QueueCommandMarked, PlaybackCommandMarked, ReloadQueueMarked
     DEF Next, Unload, Answer, SkipReload, vars, mem

\* In memory and on disk there is one marker per member who likes the track,
\* over likes, their withdrawal, other tracks, failed writes and restarts.
THEOREM MarkersCountLikes == Spec => []OneMarkerPerLike
<1>1. Init => TypeOK /\ LikesMarked
  <2>1. NewState.likes = {} /\ NewState.markers = 0
    BY DEF NewState
  <2>2. Marked(NewState)
    BY <2>1, FS_EmptySet DEF Marked
  <2>3. Init => state = NewState /\ disk.state = NewState
    BY DEF Init
  <2> QED
    BY <2>2, <2>3, TypeOKInit DEF LikesMarked
<1>2. TypeOK /\ LikesMarked /\ [Next]_vars => (TypeOK /\ LikesMarked)'
  BY TypeOKStep, MarkedStep
<1>3. LikesMarked => OneMarkerPerLike
  BY DEF LikesMarked, Marked, OneMarkerPerLike
<1> QED
  BY <1>1, <1>2, <1>3, PTL DEF Spec
=============================================================================
