--------------------------- MODULE RoomQueue_proofs ---------------------------
(***************************************************************************)
(* Proofs about the items of the room's queue: no operation doubles one,   *)
(* none takes the room or a member over the limits, and a room that plays  *)
(* nothing has nothing pending.  They rest on one relation: p is drawn     *)
(* from q when every position of p shows the item of a position of q of    *)
(* its own.  Then where the items are: memory and rows agree, an item that *)
(* is dropped lands beside its target, and a song leaves the queue only by *)
(* being played in its turn, taken out or deleted.                         *)
(***************************************************************************)
EXTENDS RoomRuntime_proofs

Draws(f, p, q) ==
  /\ f \in [DOMAIN p -> DOMAIN q]
  /\ \A i, j \in DOMAIN p : f[i] = f[j] => i = j
  /\ \A i \in DOMAIN p : p[i].id = q[f[i]].id /\ p[i].by = q[f[i]].by
Drawn(p, q) == \E f : Draws(f, p, q)

-----------------------------------------------------------------------------
(* What the queue operators return is drawn from what they are given.      *)

LEMMA DrawnSelf ==
  ASSUME NEW q
  PROVE  Drawn(q, q)
<1> DEFINE f == [i \in DOMAIN q |-> i]
<1>1. Draws(f, q, q)
  BY DEF Draws
<1> QED
  BY <1>1 DEF Drawn

LEMMA DrawnOfDrawn ==
  ASSUME NEW p, NEW q, NEW r, Drawn(p, q), Drawn(q, r)
  PROVE  Drawn(p, r)
<1>1. PICK f : Draws(f, p, q)
  BY DEF Drawn
<1>2. PICK g : Draws(g, q, r)
  BY DEF Drawn
<1> DEFINE h == [i \in DOMAIN p |-> g[f[i]]]
<1>3. Draws(h, p, r)
  BY <1>1, <1>2 DEF Draws
<1> QED
  BY <1>3 DEF Drawn

\* Select shows the kept positions, each once.
LEMMA SelectPositions ==
  ASSUME NEW S, NEW q \in Seq(S), NEW K \in SUBSET DOMAIN q
  PROVE  \E f \in [1..Cardinality(K) -> K] :
           /\ \A i, j \in 1..Cardinality(K) : f[i] = f[j] => i = j
           /\ \A j \in 1..Cardinality(K) : Select(q, K)[j] = q[f[j]]
<1> DEFINE n == Cardinality(K)
           f == [j \in 1..n |-> CHOOSE i \in K : Rank(K, i) = j]
<1>1. DOMAIN q \in SUBSET Nat
  BY LenProperties
<1>2. IsFiniteSet(K) /\ K \in SUBSET Nat
  BY <1>1, SelectKeeps
<1>3. ASSUME NEW j \in 1..n
      PROVE  f[j] \in K /\ Rank(K, f[j]) = j /\ Select(q, K)[j] = q[f[j]]
  <2>1. \E i \in K : Rank(K, i) = j
    BY <1>2, RankOnto
  <2> QED
    BY <2>1 DEF Select
<1>4. f \in [1..n -> K]
  BY <1>3
<1>5. \A i, j \in 1..n : f[i] = f[j] => i = j
  <2> HIDE DEF f
  <2> QED
    BY <1>3
<1> HIDE DEF f
<1> QED
  BY <1>3, <1>4, <1>5

LEMMA SelectDrawn ==
  ASSUME NEW S, NEW q \in Seq(S), NEW K \in SUBSET DOMAIN q
  PROVE  Drawn(Select(q, K), q)
<1>1. DOMAIN Select(q, K) = 1..Cardinality(K)
  BY DEF Select
<1>2. PICK f \in [1..Cardinality(K) -> K] :
        /\ \A i, j \in 1..Cardinality(K) : f[i] = f[j] => i = j
        /\ \A j \in 1..Cardinality(K) : Select(q, K)[j] = q[f[j]]
  BY SelectPositions
<1>3. Draws(f, Select(q, K), q)
  BY <1>1, <1>2 DEF Draws
<1> QED
  BY <1>3 DEF Drawn

\* Deleting a position leaves the others, in their order.
LEMMA RestItems ==
  ASSUME NEW S, NEW q \in Seq(S), NEW k \in DOMAIN q
  PROVE  /\ Rest(q, k) \in Seq(S)
         /\ Len(Rest(q, k)) = Len(q) - 1
         /\ \A i \in 1..(Len(q) - 1) : Rest(q, k)[i] = IF i < k THEN q[i] ELSE q[i + 1]
<1> DEFINE before == SubSeq(q, 1, k - 1)
           behind == SubSeq(q, k + 1, Len(q))
<1>1. k \in 1..Len(q) /\ Len(q) \in Nat /\ \A i \in 1..Len(q) : q[i] \in S
  BY LenProperties, ElementOfSeq
<1>2. before \in Seq(S) /\ Len(before) = k - 1 /\ \A i \in 1..(k - 1) : before[i] = q[i]
  BY <1>1, SubSeqProperties
<1>3. behind \in Seq(S) /\ Len(behind) = Len(q) - k
      /\ \A i \in 1..(Len(q) - k) : behind[i] = q[k + i]
  <2>1. \A i \in 1..(Len(q) - (k + 1) + 1) : behind[i] = q[(k + 1) + i - 1]
    BY <1>1, SubSeqProperties
  <2> QED
    BY <1>1, <2>1, SubSeqProperties
<1>4. Rest(q, k) = before \o behind
  BY DEF Rest, RemoveAt
<1> HIDE DEF before, behind
<1>5. /\ before \o behind \in Seq(S)
      /\ Len(before \o behind) = Len(before) + Len(behind)
      /\ \A i \in 1..(Len(before) + Len(behind)) :
           (before \o behind)[i] = IF i <= Len(before) THEN before[i] ELSE behind[i - Len(before)]
  BY <1>2, <1>3, ConcatProperties
<1>6. ASSUME NEW i \in 1..(Len(q) - 1)
      PROVE  (before \o behind)[i] = IF i < k THEN q[i] ELSE q[i + 1]
  <2>1. CASE i < k
    BY <1>1, <1>2, <1>3, <1>5, <2>1
  <2>2. CASE ~(i < k)
    <3>1. i - (k - 1) \in 1..(Len(q) - k)
      BY <1>1, <2>2
    <3>2. behind[i - (k - 1)] = q[k + (i - (k - 1))]
      BY <1>3, <3>1
    <3>3. k + (i - (k - 1)) = i + 1 /\ i \in 1..(Len(before) + Len(behind)) /\ ~(i <= Len(before))
      BY <1>1, <1>2, <1>3, <2>2
    <3>4. (before \o behind)[i] = behind[i - (k - 1)]
      BY <1>2, <1>5, <3>3
    <3> QED
      BY <2>2, <3>2, <3>3, <3>4
  <2> QED
    BY <2>1, <2>2
<1>7. Len(before) + Len(behind) = Len(q) - 1
  BY <1>1, <1>2, <1>3
<1>8. before \o behind \in Seq(S) /\ Len(before \o behind) = Len(q) - 1
  BY <1>5, <1>7
<1> DEFINE r == before \o behind
<1>9. r \in Seq(S) /\ Len(r) = Len(q) - 1
      /\ \A i \in 1..(Len(q) - 1) : r[i] = IF i < k THEN q[i] ELSE q[i + 1]
  BY <1>6, <1>8
<1>10. Rest(q, k) = r
  BY <1>4
<1> HIDE DEF r
<1> QED
  BY <1>9, <1>10

\* The rest is drawn from the queue, and not from the deleted position.
LEMMA RestDrawn ==
  ASSUME NEW S, NEW q \in Seq(S), NEW k \in DOMAIN q
  PROVE  \E f : Draws(f, Rest(q, k), q) /\ \A i \in DOMAIN Rest(q, k) : f[i] # k
<1> DEFINE f == [i \in 1..(Len(q) - 1) |-> IF i < k THEN i ELSE i + 1]
<1>1. Len(q) \in Nat /\ k \in 1..Len(q) /\ DOMAIN q = 1..Len(q)
  BY LenProperties
<1>2. DOMAIN Rest(q, k) = 1..(Len(q) - 1)
  BY RestItems, LenProperties
<1>3. f \in [1..(Len(q) - 1) -> 1..Len(q)]
  BY <1>1
<1>4. \A i, j \in 1..(Len(q) - 1) : f[i] = f[j] => i = j
  BY <1>1
<1>5. \A i \in 1..(Len(q) - 1) : Rest(q, k)[i] = q[f[i]] /\ f[i] # k
  BY <1>1, RestItems
<1> HIDE DEF f
<1>6. Draws(f, Rest(q, k), q)
  BY <1>1, <1>2, <1>3, <1>4, <1>5 DEF Draws
<1> QED
  BY <1>2, <1>5, <1>6

\* After a move from one position to another, what each position shows.
Origin(from, to, i) ==
  LET back(k) == IF k < from THEN k ELSE k + 1
  IN IF i = to THEN from ELSE IF i < to THEN back(i) ELSE back(i - 1)

LEMMA MoveItems ==
  ASSUME NEW S, NEW q \in Seq(S), NEW from \in DOMAIN q, NEW to \in DOMAIN q
  PROVE  /\ Move(q, from, to) \in Seq(S)
         /\ Len(Move(q, from, to)) = Len(q)
         /\ \A i \in 1..Len(q) : /\ Origin(from, to, i) \in 1..Len(q)
                                 /\ Move(q, from, to)[i] = q[Origin(from, to, i)]
<1> DEFINE r == RemoveAt(q, from)
           n == Len(q)
           m == Move(q, from, to)
           head == SubSeq(r, 1, to - 1)
           tail == SubSeq(r, to, Len(r))
           back(i) == IF i < from THEN i ELSE i + 1
<1>1. n \in Nat /\ from \in 1..n /\ to \in 1..n /\ DOMAIN q = 1..n /\ q[from] \in S
  BY LenProperties, ElementOfSeq
<1>2. r \in Seq(S) /\ Len(r) = n - 1 /\ \A i \in 1..(n - 1) : r[i] = q[back(i)]
  BY RestItems DEF Rest
<1>3. \A i \in 1..(n - 1) : r[i] \in S
  BY <1>2, ElementOfSeq
<1> HIDE DEF r
<1>4. head \in Seq(S) /\ Len(head) = to - 1 /\ \A i \in 1..(to - 1) : head[i] = r[i]
  BY <1>1, <1>2, <1>3, SubSeqProperties
<1>5. tail \in Seq(S) /\ Len(tail) = n - to /\ \A i \in 1..(n - to) : tail[i] = r[to + i - 1]
  BY <1>1, <1>2, <1>3, SubSeqProperties
<1>6. m = (head \o <<q[from]>>) \o tail
  BY DEF Move, InsertAt, r
<1> HIDE DEF head, tail, m, n
<1>7. <<q[from]>> \in Seq(S) /\ Len(<<q[from]>>) = 1 /\ <<q[from]>>[1] = q[from]
  BY <1>1
<1> DEFINE left == head \o <<q[from]>>
<1>8. /\ left \in Seq(S) /\ Len(left) = to
      /\ \A i \in 1..to : left[i] = IF i <= to - 1 THEN head[i] ELSE <<q[from]>>[i - (to - 1)]
  BY <1>1, <1>4, <1>7, ConcatProperties
<1>9. /\ \A i \in 1..(to - 1) : left[i] = r[i]
      /\ left[to] = q[from]
  BY <1>1, <1>4, <1>7, <1>8
<1> HIDE DEF left
<1>10. /\ m \in Seq(S) /\ Len(m) = n
       /\ \A i \in 1..n : m[i] = IF i <= to THEN left[i] ELSE tail[i - to]
  <2>1. m = left \o tail
    BY <1>6 DEF left
  <2> QED
    BY <1>1, <1>5, <1>8, <2>1, ConcatProperties
<1>11. ASSUME NEW i \in 1..n
       PROVE  m[i] = q[Origin(from, to, i)] /\ Origin(from, to, i) \in 1..n
  <2>1. CASE i < to
    <3>1. i \in 1..(n - 1) /\ i \in 1..(to - 1) /\ i # to
      BY <1>1, <2>1
    <3>2. m[i] = q[back(i)]
      BY <1>1, <1>2, <1>9, <1>10, <2>1, <3>1
    <3>3. Origin(from, to, i) = back(i)
      BY <2>1, <3>1 DEF Origin
    <3>4. back(i) \in 1..n
      BY <1>1, <3>1
    <3> QED
      BY <3>2, <3>3, <3>4
  <2>2. CASE i = to
    BY <1>1, <1>9, <1>10, <2>2 DEF Origin
  <2>3. CASE i > to
    <3>1. i - to \in 1..(n - to) /\ i - 1 \in 1..(n - 1) /\ to + (i - to) - 1 = i - 1 /\ ~(i <= to)
      BY <1>1, <2>3
    <3>2. m[i] = r[i - 1]
      BY <1>5, <1>10, <3>1
    <3>3. m[i] = q[back(i - 1)]
      BY <1>2, <3>1, <3>2
    <3>4. Origin(from, to, i) = back(i - 1)
      BY <1>1, <2>3 DEF Origin
    <3>5. back(i - 1) \in 1..n
      BY <1>1, <3>1
    <3> QED
      BY <3>3, <3>4, <3>5
  <2> QED
    BY <1>1, <2>1, <2>2, <2>3
<1> QED
  BY <1>10, <1>11 DEF m, n

\* A moved item is deleted and put back once.
LEMMA MoveDrawn ==
  ASSUME NEW S, NEW q \in Seq(S), NEW from \in DOMAIN q, NEW to \in DOMAIN q
  PROVE  Drawn(Move(q, from, to), q)
<1> DEFINE m == Move(q, from, to)
           f == [i \in DOMAIN q |-> Origin(from, to, i)]
<1>1. Len(q) \in Nat /\ DOMAIN q = 1..Len(q) /\ from \in 1..Len(q) /\ to \in 1..Len(q)
  BY LenProperties
<1>2. /\ m \in Seq(S) /\ Len(m) = Len(q)
      /\ \A i \in 1..Len(q) : Origin(from, to, i) \in 1..Len(q) /\ m[i] = q[Origin(from, to, i)]
  BY MoveItems
<1>3. DOMAIN m = DOMAIN q
  BY <1>2, LenProperties
<1>4. \A i, j \in 1..Len(q) : Origin(from, to, i) = Origin(from, to, j) => i = j
  BY <1>1 DEF Origin
<1> HIDE DEF m
<1>5. Draws(f, m, q)
  BY <1>1, <1>2, <1>3, <1>4 DEF Draws
<1> QED
  BY <1>5 DEF Drawn, m

\* The chosen items come first, then the others: no position is shown twice.
LEMMA PrioritiseDrawn ==
  ASSUME NEW q \in Seq(Item), NEW K \in SUBSET DOMAIN q
  PROVE  Drawn(Prioritise(q, K), q)
<1> DEFINE n == Cardinality(K)
           O == DOMAIN q \ K
           l == Cardinality(O)
           top == CHOOSE m \in {0} \cup {q[i].prio : i \in DOMAIN q} :
                    \A i \in DOMAIN q : q[i].prio <= m
           chosen == Select(q, K)
           others == Select(q, O)
           raised == [i \in 1..n |-> [chosen[i] EXCEPT !.prio = top + n + 1 - i]]
           p == Prioritise(q, K)
<1>1. n \in Nat /\ chosen \in Seq(Item) /\ Len(chosen) = n
  BY SelectKeeps
<1>2. l \in Nat /\ others \in Seq(Item) /\ Len(others) = l
  BY SelectKeeps
<1>3. PICK f \in [1..n -> K] : /\ \A i, j \in 1..n : f[i] = f[j] => i = j
                               /\ \A j \in 1..n : chosen[j] = q[f[j]]
  BY SelectPositions
<1>4. PICK g \in [1..l -> O] : /\ \A i, j \in 1..l : g[i] = g[j] => i = j
                               /\ \A j \in 1..l : others[j] = q[g[j]]
  <2>1. O \in SUBSET DOMAIN q
    OBVIOUS
  <2> HIDE DEF O
  <2> QED
    BY <2>1, SelectPositions
<1>5. p = raised \o others
  BY DEF Prioritise
<1>6. K \subseteq DOMAIN q /\ O \subseteq DOMAIN q /\ K \cap O = {}
  OBVIOUS
<1>0. raised = [i \in 1..n |-> raised[i]]
  OBVIOUS
<1> HIDE DEF top, chosen, others, n, l, p, O
<1>7. \A i \in 1..n : raised[i].id = chosen[i].id /\ raised[i].by = chosen[i].by
  <2> TAKE i \in 1..n
  <2>1. chosen[i] \in Item
    BY <1>1, ElementOfSeq
  <2> QED
    BY <2>1 DEF Item
<1> DEFINE Values == {raised[i] : i \in 1..n} \cup Item
<1>8. raised \in Seq(Values) /\ Len(raised) = n
  <2>1. \A i \in 1..n : raised[i] \in Values
    OBVIOUS
  <2> HIDE DEF Values, raised
  <2>2. raised \in [1..n -> Values]
    BY <1>0, <2>1
  <2> QED
    BY <1>1, <2>2, SeqDef, LenProperties
<1>9. others \in Seq(Values)
  <2>1. \A i \in 1..l : others[i] \in Values
    BY <1>2, ElementOfSeq
  <2>2. others \in [1..l -> Values]
    BY <1>2, <2>1, LenProperties
  <2> HIDE DEF Values, raised
  <2> QED
    BY <1>2, <2>2, SeqDef
<1> HIDE DEF raised, Values
<1>10. /\ p \in Seq(Values) /\ Len(p) = n + l
       /\ \A i \in 1..(n + l) : p[i] = IF i <= n THEN raised[i] ELSE others[i - n]
  BY <1>2, <1>5, <1>8, <1>9, ConcatProperties
<1>11. DOMAIN p = 1..(n + l)
  BY <1>10, LenProperties
<1> DEFINE h == [i \in 1..(n + l) |-> IF i <= n THEN f[i] ELSE g[i - n]]
<1>12. ASSUME NEW i \in 1..(n + l)
       PROVE  /\ h[i] \in DOMAIN q /\ p[i].id = q[h[i]].id /\ p[i].by = q[h[i]].by
              /\ i <= n => i \in 1..n /\ h[i] = f[i] /\ h[i] \in K
              /\ ~(i <= n) => i - n \in 1..l /\ h[i] = g[i - n] /\ h[i] \in O
  <2>1. CASE i <= n
    <3>1. i \in 1..n /\ h[i] = f[i] /\ f[i] \in K
      BY <1>1, <1>2, <1>3, <2>1
    <3>2. p[i] = raised[i]
      BY <1>10, <2>1
    <3>3. chosen[i] = q[f[i]]
      BY <1>3, <3>1
    <3>4. p[i].id = q[h[i]].id /\ p[i].by = q[h[i]].by
      BY <1>7, <3>1, <3>2, <3>3
    <3> QED
      BY <1>6, <2>1, <3>1, <3>4
  <2>2. CASE ~(i <= n)
    <3>1. i - n \in 1..l
      BY <1>1, <1>2, <2>2
    <3> QED
      BY <1>4, <1>6, <1>10, <2>2, <3>1
  <2> QED
    BY <2>1, <2>2
<1>13. h \in [1..(n + l) -> DOMAIN q]
  BY <1>12
<1> HIDE DEF h
<1>14. ASSUME NEW i \in 1..(n + l), NEW j \in 1..(n + l), h[i] = h[j]
       PROVE  i = j
  <2>1. CASE i <= n /\ j <= n
    <3>1. i \in 1..n /\ j \in 1..n /\ f[i] = f[j]
      BY <1>12, <1>14, <2>1
    <3> QED
      BY <1>3, <3>1
  <2>2. CASE ~(i <= n) /\ ~(j <= n)
    <3>1. i - n = j - n
      BY <1>4, <1>12, <1>14, <2>2
    <3> QED
      BY <1>1, <1>2, <3>1
  <2>3. (i <= n) <=> (j <= n)
    BY <1>6, <1>12, <1>14
  <2> QED
    BY <2>1, <2>2, <2>3
<1>15. Draws(h, p, q)
  BY <1>11, <1>12, <1>13, <1>14 DEF Draws
<1> QED
  BY <1>15 DEF Drawn, p

-----------------------------------------------------------------------------
(* The inductive invariant.  The limits hold of both queues whatever        *)
(* happens.  Ids are unique, and memory and rows agree on what plays, as    *)
(* long as no write committed behind an error; that a silent room has       *)
(* nothing pending needs, besides, that no track was deleted.               *)

Unique(q, item, n) ==
  /\ \A i, j \in DOMAIN q : q[i].id = q[j].id => i = j
  /\ \A i \in DOMAIN q : q[i].id \in 1..n /\ q[i].id # item
  /\ item \in 0..n
Busy(q, s) == s.current = None => q = <<>>

Kept ==
  /\ WithinLimits(queue) /\ WithinLimits(disk.queue)
  /\ ~torn => /\ Unique(queue, state.item, nextId)
              /\ Unique(disk.queue, disk.state.item, nextId)
              /\ disk.state.item = state.item
  /\ ~torn /\ deleted = {} => /\ Busy(queue, state)
                              /\ disk.queue = queue
                              /\ disk.state.current = state.current

-----------------------------------------------------------------------------
(* What a queue drawn from another inherits.                               *)

\* The positions of the songs u added.
Owned(q, u) == {i \in DOMAIN q : q[i].by = u}

LEMMA UpTo ==
  ASSUME NEW n \in Nat
  PROVE  IsFiniteSet(1..n) /\ Cardinality(1..n) = n
<1>1. 1 \in Int /\ n \in Int /\ (1 > n => n = 0)
  OBVIOUS
<1>2. IsFiniteSet(1..n) /\ Cardinality(1..n) = IF 1 > n THEN 0 ELSE n - 1 + 1
  BY <1>1, FS_Interval
<1> QED
  BY <1>1, <1>2

LEMMA DrawnCounts ==
  ASSUME NEW S, NEW p \in Seq(S), NEW q \in Seq(S), Drawn(p, q)
  PROVE  /\ Len(p) <= Len(q)
         /\ \A u : Cardinality(Owned(p, u)) <= Cardinality(Owned(q, u))
<1>1. PICK f : Draws(f, p, q)
  BY DEF Drawn
<1>2. DOMAIN p = 1..Len(p) /\ Len(p) \in Nat /\ DOMAIN q = 1..Len(q) /\ Len(q) \in Nat
  BY LenProperties
<1>3. /\ IsFiniteSet(1..Len(p)) /\ Cardinality(1..Len(p)) = Len(p)
      /\ IsFiniteSet(1..Len(q)) /\ Cardinality(1..Len(q)) = Len(q)
  BY <1>2, UpTo
<1>4. f \in Injection(1..Len(p), 1..Len(q))
  BY <1>1, <1>2 DEF Draws, Injection, IsInjective
<1>5. Len(p) <= Len(q)
  BY <1>3, <1>4, FS_Injection
<1>6. ASSUME NEW u
      PROVE  Cardinality(Owned(p, u)) <= Cardinality(Owned(q, u))
  <2> DEFINE g == [i \in Owned(p, u) |-> f[i]]
  <2>1. IsFiniteSet(Owned(q, u))
    <3>1. Owned(q, u) \in SUBSET (1..Len(q))
      BY <1>2 DEF Owned
    <3> QED
      BY <1>3, <3>1, FS_Subset
  <2>2. g \in Injection(Owned(p, u), Owned(q, u))
    BY <1>1 DEF Draws, Owned, Injection, IsInjective
  <2> QED
    BY <2>1, <2>2, FS_Injection
<1> QED
  BY <1>5, <1>6

\* The limits, of a queue whose members' songs are counted by Owned.
LEMMA Limits ==
  ASSUME NEW q
  PROVE  /\ WithinLimits(q) <=> /\ Len(q) <= MaxSize
                                /\ \A u \in Users : Cardinality(Owned(q, u)) <= MaxUserSongs
         /\ \A u : Fits(u, q) <=> /\ Len(q) <= MaxSize
                                  /\ Cardinality(Owned(q, u)) <= MaxUserSongs
BY Zenon DEF WithinLimits, Fits, Owned

LEMMA CountType ==
  ASSUME NEW S, NEW q \in Seq(S), NEW u
  PROVE  Cardinality(Owned(q, u)) \in Nat
<1>1. DOMAIN q = 1..Len(q) /\ Len(q) \in Nat
  BY LenProperties
<1>2. Owned(q, u) \in SUBSET (1..Len(q))
  BY <1>1 DEF Owned
<1> QED
  BY <1>1, <1>2, UpTo, FS_Subset, FS_CardinalityType

LEMMA DrawnWithin ==
  ASSUME NEW p \in Seq(Item), NEW q \in Seq(Item), Drawn(p, q), WithinLimits(q)
  PROVE  WithinLimits(p)
<1>1. Len(p) \in Nat /\ Len(q) \in Nat /\ MaxSize \in Nat /\ MaxUserSongs \in Nat
  BY LenProperties, ConstantsAssumption
<1>2. Len(p) <= MaxSize
  BY <1>1, DrawnCounts, Limits
<1>3. ASSUME NEW u \in Users
      PROVE  Cardinality(Owned(p, u)) <= MaxUserSongs
  <2>1. Cardinality(Owned(p, u)) \in Nat /\ Cardinality(Owned(q, u)) \in Nat
    BY CountType
  <2>2. Cardinality(Owned(p, u)) <= Cardinality(Owned(q, u))
    BY DrawnCounts
  <2>3. Cardinality(Owned(q, u)) <= MaxUserSongs
    BY Limits
  <2> QED
    BY <1>1, <2>1, <2>2, <2>3
<1> QED
  BY <1>2, <1>3, Limits

LEMMA DrawnUnique ==
  ASSUME NEW p, NEW q, NEW item, NEW n, Drawn(p, q), Unique(q, item, n)
  PROVE  Unique(p, item, n)
<1>1. PICK f : Draws(f, p, q)
  BY DEF Drawn
<1> QED
  BY <1>1 DEF Draws, Unique

\* Only an empty queue is drawn from an empty one.
LEMMA DrawnBusy ==
  ASSUME NEW p \in Seq(Item), NEW q \in Seq(Item), NEW s, Drawn(p, q), Busy(q, s)
  PROVE  Busy(p, s)
<1>1. CASE s.current = None
  <2>1. Len(p) <= Len(q) /\ Len(q) = 0 /\ Len(p) \in Nat
    BY <1>1, DrawnCounts, LenProperties, EmptySeq DEF Busy
  <2>2. Len(p) = 0
    BY <2>1
  <2> QED
    BY <2>2, EmptySeq DEF Busy
<1> QED
  BY <1>1 DEF Busy

\* The empty queue is fine with everything.
LEMMA EmptyKept ==
  ASSUME NEW n \in Nat, NEW s
  PROVE  WithinLimits(<<>>) /\ Unique(<<>>, 0, n) /\ Busy(<<>>, s)
<1>1. DOMAIN << >> = {} /\ Len(<< >>) = 0
  BY EmptySeq, LenProperties
<1>2. \A u : Owned(<<>>, u) = {}
  BY <1>1 DEF Owned
<1>3. 0 <= MaxUserSongs /\ Cardinality({}) = 0
  BY FS_EmptySet, ConstantsAssumption
<1>4. \A u : Cardinality(Owned(<<>>, u)) <= MaxUserSongs
  BY <1>2, <1>3, Zenon
<1>5. Len(<< >>) <= MaxSize
  BY <1>1, ConstantsAssumption
<1>6. WithinLimits(<<>>)
  BY <1>4, <1>5, Limits, Zenon
<1> QED
  BY <1>1, <1>6 DEF Unique, Busy

\* An item that starts leaves the queue.
LEMMA PlayKept ==
  ASSUME NEW q \in Seq(Item), NEW k \in DOMAIN q, NEW s \in State
  PROVE  /\ Rest(q, k) \in Seq(Item) /\ Drawn(Rest(q, k), q)
         /\ Busy(Rest(q, k), Play(s, q[k]))
         /\ \A n : Unique(q, s.item, n) => Unique(Rest(q, k), Play(s, q[k]).item, n)
<1>1. Rest(q, k) \in Seq(Item)
  BY RestItems
<1>2. PICK f : Draws(f, Rest(q, k), q) /\ \A i \in DOMAIN Rest(q, k) : f[i] # k
  BY RestDrawn
<1>3. /\ Play(s, q[k]).current = q[k].music /\ Play(s, q[k]).item = q[k].id
      /\ q[k].music \in Tracks
  BY ItemFields DEF Play, State
<1>4. Busy(Rest(q, k), Play(s, q[k]))
  BY <1>3, ConstantsAssumption DEF Busy
<1>5. ASSUME NEW n, Unique(q, s.item, n)
      PROVE  Unique(Rest(q, k), q[k].id, n)
  <2>1. q[k].id \in 0..n
    BY <1>5 DEF Unique
  <2> QED
    BY <1>2, <1>5, <2>1 DEF Draws, Unique
<1> QED
  BY <1>1, <1>2, <1>3, <1>4, <1>5 DEF Drawn

\* New ids do not hurt.
LEMMA UniqueLater ==
  ASSUME NEW q, NEW item, NEW n \in Nat, NEW m \in Nat, n <= m, Unique(q, item, n)
  PROVE  Unique(q, item, m)
<1>1. 1..n \subseteq 1..m /\ 0..n \subseteq 0..m
  OBVIOUS
<1> QED
  BY <1>1 DEF Unique

-----------------------------------------------------------------------------
(* The writes: memory moves to q and s with the rows, or not at all.       *)

\* What q and s must satisfy to be saved and adopted with the ids 1..n.
Sound(q, s, n) ==
  /\ WithinLimits(q)
  /\ ~torn => Unique(q, s.item, n)
  /\ ~torn /\ deleted = {} => Busy(q, s)

LEMMA WriteKept ==
  ASSUME TypeOK, Kept, nextId' \in Nat, nextId <= nextId', deleted' = deleted,
         NEW q, NEW s, Sound(q, s, nextId'),
         NEW o, NEW songs, NEW d, Commit(o, songs, d), d.queue = q,
         ~torn => d.state.item = s.item,
         ~torn /\ deleted = {} => d.state.current = s.current,
         queue' = IF o = "ok" THEN q ELSE queue,
         state' = IF o = "ok" THEN s ELSE state
  PROVE  Kept'
<1>1. cancelled \in Nat /\ nextId \in Nat
  BY DEF TypeOK
<1>2. CASE o = "ok"
  <2>1. /\ disk' = d /\ cancelled' = cancelled /\ queue' = q /\ state' = s
    BY <1>2 DEF Commit
  <2> QED
    BY <2>1 DEF Kept, Sound, torn
<1>3. CASE o = "fail"
  <2>1. UNCHANGED <<disk, cancelled, queue, state>>
    BY <1>3 DEF Commit
  <2>2. ~torn => Unique(queue, state.item, nextId') /\ Unique(disk.queue, disk.state.item, nextId')
    BY <1>1, UniqueLater DEF Kept
  <2> QED
    BY <2>1, <2>2 DEF Kept, torn
<1>4. CASE o = "unknown"
  <2>1. disk' = d /\ cancelled' = cancelled + 1 /\ queue' = queue
    BY <1>4 DEF Commit
  <2>2. cancelled' > 0
    BY <1>1, <2>1
  <2> QED
    BY <2>1, <2>2 DEF Kept, Sound, torn
<1> QED
  BY <1>2, <1>3, <1>4 DEF Commit, Outcomes

\* The two transactions that write the queue.
LEMMA SynchronizeQueueKept ==
  ASSUME TypeOK, Kept, nextId' \in Nat, nextId <= nextId', deleted' = deleted,
         NEW q, Sound(q, state, nextId'), NEW o,
         SynchronizeQueue(o, q), AdoptQueue(o, q), UNCHANGED state
  PROVE  Kept'
<1> DEFINE d == [disk EXCEPT !.queue = q]
<1>1. d.queue = q /\ d.state = disk.state
  BY DEF TypeOK, Disk
<1>2. Commit(o, Songs(q), d)
  BY DEF SynchronizeQueue
<1>3. queue' = IF o = "ok" THEN q ELSE queue
  BY DEF AdoptQueue
<1>4. state' = IF o = "ok" THEN state ELSE state
  OBVIOUS
<1>5. (~torn => disk.state.item = state.item)
      /\ (~torn /\ deleted = {} => disk.state.current = state.current)
  BY DEF Kept
<1> HIDE DEF d
<1> QED
  BY <1>1, <1>2, <1>3, <1>4, <1>5, WriteKept

LEMMA CommitRoomStateKept ==
  ASSUME TypeOK, Kept, nextId' \in Nat, nextId <= nextId', deleted' = deleted,
         NEW q, NEW s, NEW h, Sound(q, s, nextId'), NEW o,
         CommitRoomState(o, q, s, h), AdoptQueue(o, q), AdoptState(o, s)
  PROVE  Kept'
<1> DEFINE d == [queue |-> q, state |-> s, history |-> h \o disk.history]
           songs == Songs(q) \cup Songs(h) \cup ({s.current} \ {None})
<1>1. d.queue = q /\ d.state = s
  OBVIOUS
<1>2. Commit(o, songs, d)
  BY DEF CommitRoomState
<1>3. queue' = (IF o = "ok" THEN q ELSE queue) /\ state' = (IF o = "ok" THEN s ELSE state)
  BY DEF AdoptQueue, AdoptState
<1> HIDE DEF d, songs
<1> QED
  BY <1>1, <1>2, <1>3, WriteKept

\* A new version of the playback state leaves both queues alone.
LEMMA MutateStateKept ==
  ASSUME TypeOK, Kept, NEW s \in State, s.item \in {state.item, 0},
         s.current = None => state.current = None,
         NEW o, MutateState(o, s)
  PROVE  Kept'
<1> DEFINE next == [s EXCEPT !.version = @ + 1]
<1>1. next.item = s.item /\ next.current = s.current
  BY DEF State
<1>2. Upsert(o, next) /\ AdoptState(o, next) /\ UNCHANGED <<queue, deleted, nextId>>
  BY DEF MutateState
<1> HIDE DEF next
<1> DEFINE d == [disk EXCEPT !.state = next]
<1>3. d.queue = disk.queue /\ d.state = next
  BY DEF TypeOK, Disk
<1>4. Commit(o, {next.current} \ {None}, d)
  BY <1>2 DEF Upsert
<1> HIDE DEF d
<1>5. \A q : \A n \in Nat : Unique(q, state.item, n) => Unique(q, next.item, n)
  <2>1. ASSUME NEW q, NEW n \in Nat, Unique(q, state.item, n)
        PROVE  Unique(q, 0, n)
    <3>1. state.item \in 0..n /\ \A i \in DOMAIN q : q[i].id \in 1..n
      BY <2>1 DEF Unique
    <3>2. state.item \in Nat
      BY StateFields DEF TypeOK
    <3>3. 0 \in 0..n /\ \A i \in DOMAIN q : q[i].id # 0
      BY <3>1, <3>2
    <3> QED
      BY <2>1, <3>1, <3>3 DEF Unique
  <2> QED
    BY <1>1, <2>1
<1>6. cancelled \in Nat
  BY DEF TypeOK
<1>7. CASE o = "ok"
  <2>1. disk' = d /\ cancelled' = cancelled /\ state' = next
    BY <1>2, <1>4, <1>7 DEF Commit, AdoptState
  <2>2. ~torn => /\ Unique(queue, next.item, nextId) /\ Unique(disk.queue, next.item, nextId)
    BY <1>5 DEF Kept, TypeOK
  <2>3. ~torn /\ deleted = {} => Busy(queue, next) /\ disk.queue = queue
    BY <1>1 DEF Kept, Busy
  <2> QED
    BY <1>2, <1>3, <2>1, <2>2, <2>3 DEF Kept, torn
<1>8. CASE o = "fail"
  <2>1. UNCHANGED <<disk, cancelled, state>>
    BY <1>2, <1>4, <1>8 DEF Commit, AdoptState
  <2> QED
    BY <1>2, <2>1 DEF Kept, torn
<1>9. CASE o = "unknown"
  <2>1. disk' = d /\ cancelled' > 0
    BY <1>4, <1>6, <1>9 DEF Commit
  <2> QED
    BY <1>2, <1>3, <2>1 DEF Kept, torn
<1> QED
  BY <1>4, <1>7, <1>8, <1>9 DEF Commit, Outcomes

-----------------------------------------------------------------------------
(* The commands.                                                           *)

\* What is drawn from the room's queue may be saved with its state.
LEMMA DrawnSound ==
  ASSUME TypeOK, Kept, NEW p \in Seq(Item), Drawn(p, queue)
  PROVE  Sound(p, state, nextId)
<1>1. queue \in Seq(Item)
  BY DEF TypeOK
<1> QED
  BY <1>1, DrawnWithin, DrawnUnique, DrawnBusy DEF Kept, Sound

\* One song at the head starts, the rest stays.
LEMMA PlaySound ==
  ASSUME TypeOK, Kept, NEW q \in {queue, disk.queue}, NEW k \in DOMAIN q
  PROVE  Sound(Rest(q, k), Play(state, q[k]), nextId)
<1>1. q \in Seq(Item) /\ state \in State
  BY DEF TypeOK, Disk
<1>2. WithinLimits(q) /\ (~torn => Unique(q, state.item, nextId))
  BY DEF Kept
<1>3. WithinLimits(Rest(q, k))
  BY <1>1, <1>2, PlayKept, DrawnWithin
<1> QED
  BY <1>1, <1>2, <1>3, PlayKept DEF Sound

LEMMA StopSound ==
  ASSUME TypeOK
  PROVE  Sound(<<>>, Stop(state), nextId)
<1>1. Stop(state).item = 0 /\ nextId \in Nat
  BY DEF Stop, State, TypeOK
<1> QED
  BY <1>1, EmptyKept DEF Sound

LEMMA AdvanceKept ==
  ASSUME TypeOK, Kept, NEW o, Advance(o)
  PROVE  Kept'
<1> DEFINE played == IF state.current = None THEN <<>>
                     ELSE <<[music |-> state.current, by |-> state.by]>>
           Step(q, s) == /\ CommitRoomState(o, q, s, played)
                         /\ AdoptQueue(o, q)
                         /\ AdoptState(o, s)
<1>1. nextId' \in Nat /\ nextId <= nextId' /\ deleted' = deleted /\ nextId' = nextId
      /\ queue \in Seq(Item)
  BY DEF Advance, TypeOK
<1>2. ASSUME NEW q, NEW s, Step(q, s), Sound(q, s, nextId)
      PROVE  Kept'
  <2> HIDE DEF played
  <2> QED
    BY <1>1, <1>2, CommitRoomStateKept
<1>3. ASSUME Step(<<>>, Stop(state))
      PROVE  Kept'
  BY <1>2, <1>3, StopSound
<1>4. ASSUME queue # <<>>, NEW k \in NextPositions(state.shuffle, queue),
             Step(Rest(queue, k), Play(state, queue[k]))
      PROVE  Kept'
  <2>1. k \in DOMAIN queue
    BY <1>1, <1>4, NextPositionsPending
  <2>2. Sound(Rest(queue, k), Play(state, queue[k]), nextId)
    BY <2>1, PlaySound
  <2> QED
    BY <1>2, <1>4, <2>2
<1> QED
  BY <1>3, <1>4 DEF Advance

\* A rearranged queue is drawn from the old one.
LEMMA RearrangeKept ==
  ASSUME TypeOK, Kept, NEW q \in Seq(Item), Drawn(q, queue), NEW o, Rearrange(q, o)
  PROVE  Kept'
<1>1. Sound(q, state, nextId)
  BY DrawnSound
<1>2. /\ SynchronizeQueue(o, q) /\ AdoptQueue(o, q)
      /\ UNCHANGED <<state, nextId, deleted>> /\ nextId \in Nat
  BY DEF Rearrange, TypeOK
<1> QED
  BY <1>1, <1>2, SynchronizeQueueKept

\* The queue with the new songs: their ids are new, and u alone owns more.
LEMMA AppendKept ==
  ASSUME TypeOK, Kept, NEW u \in Users, NEW m \in Nat, NEW items \in Seq(Item),
         Len(items) = m,
         \A i \in 1..m : items[i].id = nextId + i /\ items[i].by = u
  PROVE  /\ queue \o items \in Seq(Item)
         /\ ~torn => Unique(queue \o items, state.item, nextId + m)
         /\ \A v \in Users : v # u => Cardinality(Owned(queue \o items, v)) <= MaxUserSongs
<1> DEFINE next == queue \o items
           l == Len(queue)
<1>1. queue \in Seq(Item) /\ l \in Nat /\ DOMAIN queue = 1..l /\ nextId \in Nat
      /\ state.item \in Nat
  BY LenProperties, StateFields DEF TypeOK
<1>2. /\ next \in Seq(Item) /\ Len(next) = l + m
      /\ \A i \in 1..(l + m) : next[i] = IF i <= l THEN queue[i] ELSE items[i - l]
  BY <1>1, ConcatProperties
<1>3. DOMAIN next = 1..(l + m)
  BY <1>2, LenProperties
<1> HIDE DEF next, l
<1>4. \A i \in 1..(l + m) : i <= l => i \in DOMAIN queue /\ next[i] = queue[i]
  BY <1>1, <1>2
<1>5. \A i \in 1..(l + m) : ~(i <= l) => /\ i - l \in 1..m
                                         /\ next[i].id = nextId + (i - l)
                                         /\ next[i].by = u
  BY <1>1, <1>2
<1>6. ASSUME Unique(queue, state.item, nextId)
      PROVE  Unique(next, state.item, nextId + m)
  <2>1. \A i \in 1..(l + m) : i <= l => next[i].id \in 1..nextId /\ next[i].id # state.item
    BY <1>4, <1>6 DEF Unique
  <2>2. state.item \in 0..nextId
    BY <1>6 DEF Unique
  <2>3. \A i \in 1..(l + m) : next[i].id \in 1..(nextId + m) /\ next[i].id # state.item
    BY <1>1, <1>5, <2>1, <2>2
  <2>4. ASSUME NEW i \in 1..(l + m), NEW j \in 1..(l + m), next[i].id = next[j].id
        PROVE  i = j
    <3>1. CASE i <= l /\ j <= l
      BY <1>4, <1>6, <2>4, <3>1 DEF Unique
    <3>2. CASE ~(i <= l) /\ ~(j <= l)
      BY <1>1, <1>5, <2>4, <3>2
    <3>3. (i <= l) <=> (j <= l)
      BY <1>1, <1>5, <2>1, <2>4
    <3> QED
      BY <3>1, <3>2, <3>3
  <2>5. state.item \in 0..(nextId + m)
    BY <1>1, <2>2
  <2> QED
    BY <1>3, <2>3, <2>4, <2>5 DEF Unique
<1>7. ASSUME NEW v \in Users, v # u
      PROVE  Cardinality(Owned(next, v)) <= MaxUserSongs
  <2>1. Owned(next, v) = Owned(queue, v)
    BY <1>1, <1>3, <1>4, <1>5, <1>7 DEF Owned
  <2>2. WithinLimits(queue)
    BY DEF Kept
  <2> QED
    BY <2>1, <2>2, Limits
<1> QED
  BY <1>2, <1>6, <1>7 DEF Kept, next

\* An enqueue checks the room's limit and the acting member's only: nobody
\* else's count has grown.
LEMMA EnqueueKept ==
  ASSUME TypeOK, Kept, NEW u \in Users, NEW n \in 1..MaxBatch, NEW ms \in [1..n -> Tracks],
         NEW o, Enqueue(u, ms, o)
  PROVE  Kept'
<1> DEFINE items == [i \in 1..Len(ms) |->
                       [id |-> nextId + i, music |-> ms[i], by |-> u, prio |-> 0]]
           next == queue \o items
<1>1. ms \in Seq(Tracks) /\ Len(ms) = n /\ n \in Nat /\ n > 0
  BY SeqDef, LenProperties, ConstantsAssumption
<1>2. \A i \in 1..Len(ms) :
        [id |-> nextId + i, music |-> ms[i], by |-> u, prio |-> 0] \in Item
  BY <1>1 DEF TypeOK, Item
<1>3. items \in Seq(Item) /\ Len(items) = n
  <2>1. items \in [1..n -> Item]
    BY <1>1, <1>2
  <2> HIDE DEF items
  <2> QED
    BY <1>1, <2>1, SeqDef, LenProperties
<1>4. \A i \in 1..n : items[i].id = nextId + i /\ items[i].by = u
  BY <1>1
<1> HIDE DEF items
<1>5. /\ next \in Seq(Item)
      /\ ~torn => Unique(next, state.item, nextId + n)
      /\ \A v \in Users : v # u => Cardinality(Owned(next, v)) <= MaxUserSongs
  BY <1>1, <1>3, <1>4, AppendKept
<1>6. next # <<>>
  <2>1. queue \in Seq(Item) /\ Len(queue) \in Nat
    BY LenProperties DEF TypeOK
  <2>2. Len(next) = Len(queue) + n
    BY <1>3, <2>1, ConcatProperties
  <2>3. Len(next) # 0
    BY <1>1, <2>1, <2>2
  <2> QED
    BY <1>5, <2>3, EmptySeq, LenProperties
<1> HIDE DEF next
<1>7. /\ nextId' = nextId + n /\ nextId' \in Nat /\ nextId <= nextId'
      /\ UNCHANGED deleted
  BY <1>1 DEF Enqueue, TypeOK
<1>8. ASSUME NEW q \in Seq(Item), Drawn(q, next), Fits(u, q)
      PROVE  WithinLimits(q)
  <2>1. ASSUME NEW v \in Users, v # u
        PROVE  Cardinality(Owned(q, v)) <= MaxUserSongs
    <3>1. Cardinality(Owned(q, v)) <= Cardinality(Owned(next, v))
      BY <1>5, <1>8, DrawnCounts
    <3>2. Cardinality(Owned(q, v)) \in Nat /\ Cardinality(Owned(next, v)) \in Nat
          /\ MaxUserSongs \in Nat
      BY <1>5, CountType, ConstantsAssumption
    <3> QED
      BY <1>5, <2>1, <3>1, <3>2
  <2>2. Len(q) <= MaxSize /\ Cardinality(Owned(q, u)) <= MaxUserSongs
    BY <1>8, Limits
  <2> QED
    BY <2>1, <2>2, Limits
<1>9. CASE /\ state.current # None
           /\ Fits(u, next)
           /\ SynchronizeQueue(o, next)
           /\ AdoptQueue(o, next)
           /\ UNCHANGED state
  <2>1. Sound(next, state, nextId')
    BY <1>5, <1>7, <1>8, <1>9, DrawnSelf DEF Sound, Busy
  <2> QED
    BY <1>7, <1>9, <2>1, SynchronizeQueueKept
<1>10. ASSUME NEW k \in NextPositions(state.shuffle, next),
              Fits(u, Rest(next, k)),
              CommitRoomState(o, Rest(next, k), Play(state, next[k]), <<>>),
              AdoptQueue(o, Rest(next, k)),
              AdoptState(o, Play(state, next[k]))
       PROVE  Kept'
  <2>1. k \in DOMAIN next
    BY <1>5, <1>6, NextPositionsPending
  <2>2. /\ Rest(next, k) \in Seq(Item) /\ Drawn(Rest(next, k), next)
        /\ Busy(Rest(next, k), Play(state, next[k]))
        /\ ~torn => Unique(Rest(next, k), Play(state, next[k]).item, nextId')
    BY <1>5, <1>7, <2>1, PlayKept DEF TypeOK
  <2>3. Sound(Rest(next, k), Play(state, next[k]), nextId')
    BY <1>8, <1>10, <2>2 DEF Sound
  <2> QED
    BY <1>7, <1>10, <2>3, CommitRoomStateKept
<1> QED
  BY <1>9, <1>10 DEF Enqueue, next, items

LEMMA QueueCommandKept ==
  ASSUME TypeOK, Kept, NEW o, QueueCommand(o)
  PROVE  Kept'
<1>0. queue \in Seq(Item)
  BY DEF TypeOK
<1>1. CASE \E u \in Users, n \in 1..MaxBatch : \E ms \in [1..n -> Tracks] : Enqueue(u, ms, o)
  BY <1>1, EnqueueKept
<1>2. ASSUME NEW K \in SUBSET DOMAIN queue, RemoveItems(K, o)
      PROVE  Kept'
  <2>1. DOMAIN queue \ K \in SUBSET DOMAIN queue
    OBVIOUS
  <2>2. Select(queue, DOMAIN queue \ K) \in Seq(Item)
        /\ Drawn(Select(queue, DOMAIN queue \ K), queue)
    BY <1>0, <2>1, SelectKeeps, SelectDrawn
  <2> QED
    BY <1>2, <2>2, RearrangeKept DEF RemoveItems
<1>3. ASSUME NEW K \in SUBSET DOMAIN queue, Top(K, o)
      PROVE  Kept'
  BY <1>0, <1>3, PrioritiseType, PrioritiseDrawn, RearrangeKept DEF Top
<1>4. ASSUME NEW i \in DOMAIN queue, NEW j \in DOMAIN queue, Reorder(i, j, o)
      PROVE  Kept'
  BY <1>0, <1>4, MoveType, MoveDrawn, RearrangeKept DEF Reorder
<1>5. ASSUME NEW i \in DOMAIN queue, NEW j \in DOMAIN queue, NEW after \in BOOLEAN,
             ReorderByID(i, j, after, o)
      PROVE  Kept'
  <2>1. DropPosition(queue, i, j, after) \in DOMAIN queue
    BY <1>0, <1>5, DropPositionPending DEF ReorderByID
  <2> QED
    BY <1>0, <1>5, <2>1, MoveType, MoveDrawn, RearrangeKept DEF ReorderByID
<1>6. CASE Clear(o)
  <2>1. <<>> = Select(queue, {})
    BY FS_EmptySet DEF Select
  <2>2. <<>> \in Seq(Item) /\ Drawn(<<>>, queue)
    BY <1>0, <2>1, EmptySeq, SelectDrawn
  <2> QED
    BY <1>6, <2>2, RearrangeKept DEF Clear
<1> QED
  BY <1>1, <1>2, <1>3, <1>4, <1>5, <1>6 DEF QueueCommand

\* The playback commands that do not advance keep the current item, or replay
\* a track that is no longer one.
LEMMA PlaybackCommandKept ==
  ASSUME TypeOK, Kept, NEW o, PlaybackCommand(o)
  PROVE  Kept'
<1>0. state \in State /\ state.likes \in SUBSET Users /\ state.markers \in Nat
  BY StateFields DEF TypeOK
<1>1. ASSUME Advance(o)
      PROVE  Kept'
  BY <1>1, AdvanceKept
<1>2. CASE TogglePause(o)
  <2>1. ASSUME MutateState(o, [state EXCEPT !.paused = ~@])
        PROVE  Kept'
    <3> DEFINE s == [state EXCEPT !.paused = ~@]
    <3>1. s \in State /\ s.item = state.item /\ s.current = state.current
      BY <1>0 DEF State
    <3> HIDE DEF s
    <3>2. MutateState(o, s)
      BY <2>1 DEF s
    <3> QED
      BY <3>1, <3>2, MutateStateKept
  <2> QED
    BY <1>1, <1>2, <2>1 DEF TogglePause
<1>3. CASE ToggleShuffle(o)
  <2> DEFINE s == [state EXCEPT !.shuffle = ~@]
  <2>1. s \in State /\ s.item = state.item /\ s.current = state.current
    BY <1>0 DEF State
  <2>2. MutateState(o, s)
    BY <1>3 DEF ToggleShuffle
  <2> HIDE DEF s
  <2> QED
    BY <2>1, <2>2, MutateStateKept
<1>4. ASSUME NEW u \in Users, NEW admin \in BOOLEAN, Seek(u, admin, o)
      PROVE  Kept'
  <2> DEFINE s == [state EXCEPT !.epoch = @ + 1]
  <2>1. s \in State /\ s.item = state.item /\ s.current = state.current
    BY <1>0 DEF State
  <2>2. MutateState(o, s)
    BY <1>4 DEF Seek
  <2> HIDE DEF s
  <2> QED
    BY <2>1, <2>2, MutateStateKept
<1>5. CASE Previous(o)
  <2> DEFINE s == [state EXCEPT !.current = history[skipped + 1].music,
                                !.by = history[skipped + 1].by,
                                !.item = 0, !.paused = FALSE, !.likes = {},
                                !.markers = 0, !.epoch = @ + 1]
  <2>1. s \in State
    BY <1>5, PreviousState
  <2>2. s.item = 0 /\ s.current = history[skipped + 1].music
    BY <1>0 DEF State
  <2>3. history[skipped + 1].music \in Tracks
    <3>1. skipped + 1 \in 1..Len(history)
      BY <1>5, LenProperties DEF Previous, TypeOK
    <3>2. history[skipped + 1] \in Entry
      BY <3>1, ElementOfSeq DEF TypeOK
    <3> QED
      BY <3>2 DEF Entry
  <2>4. MutateState(o, s)
    BY <1>5 DEF Previous
  <2> HIDE DEF s
  <2>5. s.current # None
    BY <2>2, <2>3, ConstantsAssumption
  <2> QED
    BY <2>1, <2>2, <2>4, <2>5, MutateStateKept
<1>6. ASSUME UNCHANGED <<mem, disk, deleted, nextId, cancelled>>
      PROVE  Kept'
  BY <1>6 DEF Kept, mem, torn
<1>7. ASSUME NEW u \in Users, NEW listed, Like(u, listed, o)
      PROVE  Kept'
  <2> DEFINE s == [state EXCEPT !.likes = @ \cup {u}, !.markers = @ + 1]
  <2>1. state.likes \cup {u} \in SUBSET Users /\ state.markers + 1 \in Nat
    BY <1>0
  <2>2. s \in State /\ s.item = state.item /\ s.current = state.current
    BY <1>0, <2>1, StateFields, Zenon DEF State
  <2>3. MutateState(o, s) \/ UNCHANGED <<mem, disk, deleted, nextId, cancelled>>
    BY <1>7 DEF Like
  <2> HIDE DEF s
  <2> QED
    BY <1>6, <2>2, <2>3, MutateStateKept
<1>8. ASSUME NEW u \in Users, NEW listed, Unlike(u, listed, o)
      PROVE  Kept'
  <2> DEFINE left == IF state.markers > 0 THEN state.markers - 1 ELSE 0
             s == [state EXCEPT !.likes = @ \ {u}, !.markers = IF @ > 0 THEN @ - 1 ELSE 0]
             t == [state EXCEPT !.likes = state.likes \ {u}, !.markers = left]
  <2>1. state.likes \ {u} \in SUBSET Users /\ left \in Nat
    BY <1>0
  <2>2. s = t
    OBVIOUS
  <2>3. MutateState(o, s) \/ UNCHANGED <<mem, disk, deleted, nextId, cancelled>>
    BY <1>8 DEF Unlike
  <2> HIDE DEF left, s
  <2>4. t \in State /\ t.item = state.item /\ t.current = state.current
    BY <1>0, <2>1, StateFields, Zenon DEF State
  <2> HIDE DEF t
  <2> QED
    BY <1>6, <2>2, <2>3, <2>4, MutateStateKept
<1>9. \A u \in Likers : u \in Users
  BY ConstantsAssumption
<1> QED
  BY <1>1, <1>2, <1>3, <1>4, <1>5, <1>7, <1>8, <1>9 DEF PlaybackCommand, NextSong, Tick

\* What a deletion leaves of the rows is drawn from them.
LEMMA DeleteTrackKept ==
  ASSUME TypeOK, Kept, NEW t \in LocalTracks, DeleteTrack(t)
  PROVE  Kept'
<1> DEFINE q == Keep(disk.queue, {t})
           s == IF disk.state.current = t
                THEN [disk.state EXCEPT !.current = None] ELSE disk.state
<1>1. disk.queue \in Seq(Item) /\ disk.state \in State
  BY DEF TypeOK, Disk
<1>2. q \in Seq(Item) /\ Drawn(q, disk.queue)
  <2> DEFINE K == {i \in DOMAIN disk.queue : disk.queue[i].music \notin {t}}
  <2>1. K \in SUBSET DOMAIN disk.queue
    OBVIOUS
  <2>2. q = Select(disk.queue, K)
    BY DEF Keep
  <2> HIDE DEF K, q
  <2> QED
    BY <1>1, <2>1, <2>2, SelectKeeps, SelectDrawn
<1>3. s.item = disk.state.item
  BY <1>1 DEF State
<1> HIDE DEF q, s
<1>4. /\ disk'.queue = q /\ disk'.state = s
      /\ UNCHANGED <<queue, state, nextId, cancelled>> /\ deleted' # {}
  BY DEF DeleteTrack, mem, q, s
<1>5. WithinLimits(q)
  BY <1>1, <1>2, DrawnWithin DEF Kept
<1>6. ~torn => Unique(q, s.item, nextId)
  BY <1>2, <1>3, DrawnUnique DEF Kept
<1> QED
  BY <1>3, <1>4, <1>5, <1>6 DEF Kept, torn

\* The hook adopts the rows, or drops the deleted track for the next of them.
LEMMA ReloadQueueKept ==
  ASSUME TypeOK, Kept, NEW t \in LocalTracks, NEW o, ReloadQueue(t, o)
  PROVE  Kept'
<1> DEFINE Drop(q, s) == /\ CommitRoomState(o, q, s, <<>>)
                         /\ AdoptQueue(o, q)
                         /\ AdoptState(o, s)
<1>1. /\ disk.queue \in Seq(Item) /\ nextId' = nextId /\ nextId \in Nat
      /\ deleted' = deleted /\ deleted # {}
  BY DEF TypeOK, Disk, ReloadQueue
<1>2. CASE /\ state.current # t /\ o = "ok"
           /\ AdoptQueue(o, disk.queue)
           /\ UNCHANGED <<state, disk, cancelled>>
  <2>1. queue' = disk.queue
    BY <1>2 DEF AdoptQueue
  <2> QED
    BY <1>1, <1>2, <2>1 DEF Kept, torn
<1>3. ASSUME NEW q, NEW s, Drop(q, s), Sound(q, s, nextId)
      PROVE  Kept'
  <2>1. nextId' \in Nat /\ nextId <= nextId'
    BY <1>1
  <2> QED
    BY <1>1, <1>3, <2>1, CommitRoomStateKept
<1>4. ASSUME Drop(<<>>, Stop(state))
      PROVE  Kept'
  BY <1>3, <1>4, StopSound
<1>5. ASSUME disk.queue # <<>>, NEW k \in NextPositions(FALSE, disk.queue),
             Drop(Rest(disk.queue, k), Play(state, disk.queue[k]))
      PROVE  Kept'
  <2>1. k \in DOMAIN disk.queue
    BY <1>1, <1>5, NextPositionsPending
  <2>2. Sound(Rest(disk.queue, k), Play(state, disk.queue[k]), nextId)
    BY <2>1, PlaySound
  <2> QED
    BY <1>3, <1>5, <2>2
<1> QED
  BY <1>2, <1>4, <1>5 DEF ReloadQueue

-----------------------------------------------------------------------------
LEMMA KeptStep ==
  ASSUME TypeOK, Kept, [Next]_vars
  PROVE  Kept'
<1>1. ASSUME NEW o \in Outcomes, QueueCommand(o) \/ PlaybackCommand(o)
      PROVE  Kept'
  BY <1>1, QueueCommandKept, PlaybackCommandKept
<1>2. ASSUME NEW readable \in BOOLEAN, Load(readable)
      PROVE  Kept'
  BY <1>2 DEF Load, Kept, Busy, torn
<1>3. ASSUME NEW t \in LocalTracks, DeleteTrack(t)
      PROVE  Kept'
  BY <1>3, DeleteTrackKept
<1>4. ASSUME NEW t \in LocalTracks, NEW o, ReloadQueue(t, o)
      PROVE  Kept'
  BY <1>4, ReloadQueueKept
<1>5. ASSUME UNCHANGED <<mem, disk, deleted, nextId, cancelled>>
      PROVE  Kept'
  BY <1>5 DEF Kept, mem, torn
<1>6. CASE \/ Unload
           \/ UNCHANGED vars
           \/ \E t \in LocalTracks : SkipReload(t)
  BY <1>5, <1>6 DEF Unload, SkipReload, vars, mem
<1> QED
  BY <1>1, <1>2, <1>3, <1>4, <1>6 DEF Next, Answer

LEMMA KeptInit == Init => Kept
<1> SUFFICES ASSUME Init PROVE Kept
  OBVIOUS
<1>1. /\ queue = <<>> /\ disk.queue = <<>> /\ nextId = 0
      /\ state.item = 0 /\ disk.state.item = 0
      /\ disk.state.current = state.current
  BY DEF Init, NewState
<1> QED
  BY <1>1, EmptyKept DEF Kept

LEMMA Invariance == Spec => [](TypeOK /\ Kept)
<1>1. Init => TypeOK /\ Kept
  BY TypeOKInit, KeptInit
<1>2. TypeOK /\ Kept /\ [Next]_vars => (TypeOK /\ Kept)'
  BY TypeOKStep, KeptStep
<1> QED
  BY <1>1, <1>2, PTL DEF Spec

\* Neither memory nor the rows ever hold more songs than the room or one member
\* may have: checkQueueCapacity looks at the acting member only, and no other
\* operation lets a count grow.
THEOREM LimitsHold == Spec => []QueueWithinLimits
<1>1. Kept => QueueWithinLimits
  BY DEF Kept, QueueWithinLimits
<1> QED
  BY <1>1, Invariance, PTL

\* As many ids as items: no two positions share one.
LEMMA UniqueCounts ==
  ASSUME NEW q \in Seq(Item), NEW s, NEW n, Unique(q, s.item, n)
  PROVE  NoDuplicates(q, s)
<1> DEFINE f == [i \in DOMAIN q |-> q[i].id]
<1>1. DOMAIN q = 1..Len(q) /\ Len(q) \in Nat
  BY LenProperties
<1>2. f \in Surjection(DOMAIN q, Ids(q))
  BY DEF Surjection, Ids
<1>3. f \in Injection(DOMAIN q, Ids(q))
  BY DEF Injection, IsInjective, Unique, Ids
<1> HIDE DEF f
<1>4. IsFiniteSet(DOMAIN q) /\ Cardinality(DOMAIN q) = Len(q)
  BY <1>1, UpTo
<1>5. Cardinality(Ids(q)) = Len(q)
  BY <1>2, <1>3, <1>4, FS_Surjection
<1>6. s.item \notin Ids(q)
  BY DEF Unique, Ids
<1> QED
  BY <1>5, <1>6 DEF NoDuplicates

\* No queue item is pending twice, or pending while it plays, in memory or in
\* the rows, unless a write committed behind an error.
THEOREM NothingTwice == Spec => []NoItemTwice
<1>1. TypeOK /\ Kept => NoItemTwice
  BY UniqueCounts DEF Kept, NoItemTwice, TypeOK, Disk
<1> QED
  BY <1>1, Invariance, PTL

\* The room is never silent while songs are pending.
THEOREM NeverIdle == Spec => []NeverIdleWithSongs
<1>1. Kept => NeverIdleWithSongs
  BY DEF Kept, Busy, NeverIdleWithSongs
<1> QED
  BY <1>1, Invariance, PTL

-----------------------------------------------------------------------------
(* What deletions leave of a sequence.  Position i of K becomes position     *)
(* Rank(K, i) of Select(q, K), and ranks compose.                            *)

LEMMA SelectAt ==
  ASSUME NEW S, NEW q \in Seq(S), NEW K \in SUBSET DOMAIN q, NEW i \in K
  PROVE  /\ Rank(K, i) \in 1..Cardinality(K)
         /\ Select(q, K)[Rank(K, i)] = q[i]
<1>1. DOMAIN q \in SUBSET Nat
  BY LenProperties
<1>2. IsFiniteSet(K) /\ K \in SUBSET Nat
  BY <1>1, SelectKeeps
<1>3. Rank(K, i) \in 1..Cardinality(K)
  BY <1>2, RankType
<1> DEFINE j == CHOOSE x \in K : Rank(K, x) = Rank(K, i)
<1>4. j \in K /\ Rank(K, j) = Rank(K, i)
  OBVIOUS
<1>5. Select(q, K)[Rank(K, i)] = q[j]
  BY <1>3 DEF Select
<1> HIDE DEF j
<1>6. ~(i < j) /\ ~(j < i)
  <2>1. Rank(K, j) \in Nat /\ Rank(K, i) \in Nat
    BY <1>3, <1>4
  <2> QED
    BY <1>2, <1>4, <2>1, RankMonotonic
<1>7. i \in Nat /\ j \in Nat
  BY <1>2, <1>4
<1>8. i = j
  BY <1>6, <1>7
<1> QED
  BY <1>3, <1>5, <1>8

\* Ranks of an image under a map that keeps the order.
LEMMA RankOfImage ==
  ASSUME NEW K \in SUBSET Nat, IsFiniteSet(K), NEW f \in [K -> Nat],
         \A i, j \in K : i < j => f[i] < f[j]
  PROVE  LET L == {f[i] : i \in K}
         IN  /\ Cardinality(L) = Cardinality(K)
             /\ \A i \in K : Rank(L, f[i]) = Rank(K, i)
<1> DEFINE L == {f[i] : i \in K}
<1>1. \A i, j \in K : f[i] <= f[j] <=> i <= j
  <2> TAKE i, j \in K
  <2>1. i \in Nat /\ j \in Nat /\ f[i] \in Nat /\ f[j] \in Nat
    OBVIOUS
  <2>2. i < j \/ j < i \/ i = j
    BY <2>1
  <2>3. (i < j => f[i] < f[j]) /\ (j < i => f[j] < f[i])
    OBVIOUS
  <2> QED
    BY <2>1, <2>2, <2>3
<1>2. \A i, j \in K : f[i] = f[j] => i = j
  <2> TAKE i, j \in K
  <2>1. i \in Nat /\ j \in Nat /\ f[i] \in Nat /\ f[j] \in Nat
    OBVIOUS
  <2> QED
    BY <1>1, <2>1
<1>3. ASSUME NEW D \in SUBSET K, NEW E, E = {f[i] : i \in D}
      PROVE  Cardinality(E) = Cardinality(D)
  <2> DEFINE g == [i \in D |-> f[i]]
  <2>1. g \in Bijection(D, E)
    BY <1>2, <1>3 DEF Bijection, Injection, Surjection, IsInjective
  <2>2. IsFiniteSet(D)
    BY FS_Subset
  <2> QED
    BY <2>1, <2>2, FS_Bijection DEF ExistsBijection
<1>4. ASSUME NEW i \in K
      PROVE  Rank(L, f[i]) = Rank(K, i)
  <2> DEFINE D == {k \in K : k <= i}
             E == {l \in L : l <= f[i]}
  <2>1. E = {f[k] : k \in D}
    BY <1>1
  <2>2. D \in SUBSET K
    OBVIOUS
  <2> HIDE DEF D, E
  <2>3. Cardinality(E) = Cardinality(D)
    BY <1>3, <2>1, <2>2
  <2> QED
    BY <2>3 DEF Rank, D, E
<1>5. K \in SUBSET K
  OBVIOUS
<1>6. Cardinality(L) = Cardinality(K)
  BY <1>3, <1>5
<1> QED
  BY <1>4, <1>6

\* Selecting from a selection.
LEMMA SelectSelect ==
  ASSUME NEW S, NEW q \in Seq(S), NEW K \in SUBSET DOMAIN q,
         NEW J \in SUBSET DOMAIN q, J \subseteq K,
         NEW L, L = {Rank(K, i) : i \in J}
  PROVE  Select(Select(q, K), L) = Select(q, J)
<1> DEFINE p == Select(q, K)
           f == [i \in J |-> Rank(K, i)]
<1>1. /\ IsFiniteSet(K) /\ IsFiniteSet(J) /\ K \in SUBSET Nat /\ J \in SUBSET Nat
      /\ p \in Seq(S) /\ Len(p) = Cardinality(K) /\ DOMAIN p = 1..Cardinality(K)
  BY SelectKeeps, LenProperties
<1>2. /\ \A i \in J : Rank(K, i) \in 1..Cardinality(K) /\ p[Rank(K, i)] = q[i]
  BY SelectAt
<1> HIDE DEF p
<1>3. L \in SUBSET DOMAIN p
  BY <1>1, <1>2
<1>4. f \in [J -> Nat] /\ L = {f[i] : i \in J}
  BY <1>2
<1>5. \A i, j \in J : i < j => f[i] < f[j]
  BY <1>1, RankMonotonic
<1>6. \A i \in J : f[i] = Rank(K, i)
  OBVIOUS
<1> HIDE DEF f
<1>7. /\ Cardinality(L) = Cardinality(J)
      /\ \A i \in J : Rank(L, f[i]) = Rank(J, i)
  <2> DEFINE M == {f[i] : i \in J}
  <2>1. /\ Cardinality(M) = Cardinality(J)
        /\ \A i \in J : Rank(M, f[i]) = Rank(J, i)
    BY <1>1, <1>4, <1>5, RankOfImage
  <2>2. L = M
    BY <1>4
  <2> QED
    BY <2>1, <2>2
<1>8. ASSUME NEW r \in 1..Cardinality(J)
      PROVE  Select(p, L)[r] = Select(q, J)[r]
  <2>1. PICK i \in J : Rank(J, i) = r
    BY <1>1, RankOnto
  <2>2. Select(q, J)[r] = q[i]
    BY <2>1, SelectAt
  <2>3. Rank(K, i) \in L /\ Rank(L, Rank(K, i)) = r
    BY <1>4, <1>6, <1>7, <2>1
  <2>4. Select(p, L)[r] = p[Rank(K, i)]
    BY <1>1, <1>3, <2>3, SelectAt
  <2> QED
    BY <1>2, <2>2, <2>4
<1>9. /\ Select(p, L) \in Seq(S) /\ Len(Select(p, L)) = Cardinality(J)
      /\ Select(q, J) \in Seq(S) /\ Len(Select(q, J)) = Cardinality(J)
  BY <1>1, <1>3, <1>7, SelectKeeps
<1>10. Select(p, L) = Select(q, J)
  BY <1>8, <1>9, SeqEqual
<1> QED
  BY <1>10 DEF p

\* Deleting some tracks and then others is deleting both.
LEMMA KeepTwice ==
  ASSUME NEW S, NEW q \in Seq(S), NEW gone, NEW more
  PROVE  Keep(Keep(q, gone), more) = Keep(q, gone \cup more)
<1> DEFINE K == {i \in DOMAIN q : q[i].music \notin gone}
           J == {i \in DOMAIN q : q[i].music \notin gone \cup more}
           p == Select(q, K)
           L == {j \in DOMAIN p : p[j].music \notin more}
<1>1. K \in SUBSET DOMAIN q /\ J \in SUBSET DOMAIN q /\ J \subseteq K
      /\ (\A i \in K : i \in J <=> q[i].music \notin more)
  OBVIOUS
<1>2. Keep(Keep(q, gone), more) = Select(p, L) /\ Keep(q, gone \cup more) = Select(q, J)
  BY DEF Keep
<1>3. \A j \in DOMAIN p : j \in L <=> p[j].music \notin more
  OBVIOUS
<1>4. L \subseteq DOMAIN p
  OBVIOUS
<1> HIDE DEF K, J, L
<1>5. /\ IsFiniteSet(K) /\ K \in SUBSET Nat
      /\ DOMAIN p = 1..Cardinality(K)
  BY <1>1, SelectKeeps, LenProperties
<1>6. \A i \in K : Rank(K, i) \in 1..Cardinality(K) /\ p[Rank(K, i)] = q[i]
  BY <1>1, SelectAt
<1> HIDE DEF p
<1>7. ASSUME NEW j
      PROVE  j \in L <=> j \in {Rank(K, i) : i \in J}
  <2>1. ASSUME j \in L
        PROVE  j \in {Rank(K, i) : i \in J}
    <3>1. PICK i \in K : Rank(K, i) = j
      BY <1>4, <1>5, <2>1, RankOnto
    <3>2. i \in J
      BY <1>1, <1>3, <1>4, <1>6, <2>1, <3>1
    <3> QED
      BY <3>1, <3>2
  <2>2. ASSUME NEW i \in J, j = Rank(K, i)
        PROVE  j \in L
    BY <1>1, <1>3, <1>5, <1>6, <2>2
  <2> QED
    BY <2>1, <2>2
<1>8. L = {Rank(K, i) : i \in J}
  BY <1>7
<1>9. Select(p, L) = Select(q, J)
  BY <1>1, <1>8, SelectSelect DEF p
<1> QED
  BY <1>2, <1>9

\* Nothing is lost when nothing is gone.
LEMMA KeepAll ==
  ASSUME NEW S, NEW q \in Seq(S), NEW gone, Songs(q) \cap gone = {}
  PROVE  Keep(q, gone) = q
<1> DEFINE K == {i \in DOMAIN q : q[i].music \notin gone}
<1>1. DOMAIN q = 1..Len(q) /\ Len(q) \in Nat
  BY LenProperties
<1>2. K = DOMAIN q /\ K \in SUBSET DOMAIN q
  BY DEF Songs
<1>3. Keep(q, gone) = Select(q, K)
  BY DEF Keep
<1> HIDE DEF K
<1>4. Cardinality(K) = Len(q)
  BY <1>1, <1>2, UpTo
<1>5. ASSUME NEW i \in 1..Len(q)
      PROVE  Rank(K, i) = i
  <2>1. {k \in K : k <= i} = 1..i
    BY <1>1, <1>2
  <2>2. i \in Nat /\ Cardinality(1..i) = i
    BY UpTo
  <2> QED
    BY <2>1, <2>2 DEF Rank
<1>6. \A i \in 1..Len(q) : Select(q, K)[i] = q[i]
  <2> TAKE i \in 1..Len(q)
  <2>1. i \in K
    BY <1>1, <1>2
  <2> QED
    BY <1>2, <1>5, <2>1, SelectAt
<1>7. Select(q, K) \in Seq(S) /\ Len(Select(q, K)) = Len(q)
  BY <1>2, <1>4, SelectKeeps
<1>8. Select(q, K) = q
  BY <1>6, <1>7, SeqEqual
<1> QED
  BY <1>3, <1>8

-----------------------------------------------------------------------------
(* Prefixes.                                                               *)

LEMMA PrefixItems ==
  ASSUME NEW S, NEW p \in Seq(S), NEW q \in Seq(S)
  PROVE  IsPrefix(p, q) <=> Len(p) <= Len(q) /\ \A i \in 1..Len(p) : p[i] = q[i]
<1>1. Len(p) \in Nat /\ Len(q) \in Nat
      /\ (\A i \in 1..Len(p) : p[i] \in S) /\ (\A i \in 1..Len(q) : q[i] \in S)
  BY LenProperties, ElementOfSeq
<1>2. SubSeq(p, 1, Len(p)) = p
  BY SubSeqFull
<1>3. ASSUME Len(p) <= Len(q)
      PROVE  SubSeq(q, 1, Len(p)) = p <=> \A i \in 1..Len(p) : p[i] = q[i]
  <2> DEFINE n == Len(p)
             u == SubSeq(q, 1, n)
  <2>1. \A i \in 1..n : q[i] \in S
    BY <1>1, <1>3
  <2>2. /\ u \in Seq(S) /\ Len(u) = (IF 1 <= n THEN n - 1 + 1 ELSE 0)
        /\ \A i \in 1..(n - 1 + 1) : u[i] = q[1 + i - 1]
    BY <1>1, <2>1, SubSeqProperties
  <2>3. Len(u) = n /\ \A i \in 1..n : u[i] = q[i]
    BY <1>1, <2>2
  <2> HIDE DEF u
  <2> QED
    BY <2>2, <2>3, SeqEqual DEF u
<1> QED
  BY <1>2, <1>3 DEF IsPrefix

LEMMA PrefixTransitive ==
  ASSUME NEW S, NEW p \in Seq(S), NEW q \in Seq(S), NEW r \in Seq(S),
         IsPrefix(p, q), IsPrefix(q, r)
  PROVE  IsPrefix(p, r)
<1>1. Len(p) \in Nat /\ Len(q) \in Nat /\ Len(r) \in Nat
  BY LenProperties
<1>2. /\ Len(p) <= Len(q) /\ \A i \in 1..Len(p) : p[i] = q[i]
      /\ Len(q) <= Len(r) /\ \A i \in 1..Len(q) : q[i] = r[i]
  BY PrefixItems
<1>3. Len(p) <= Len(r) /\ \A i \in 1..Len(p) : p[i] = r[i]
  BY <1>1, <1>2
<1> QED
  BY <1>3, PrefixItems

\* What is kept of a prefix comes first in what is kept.
LEMMA KeepPrefix ==
  ASSUME NEW S, NEW p \in Seq(S), NEW q \in Seq(S), IsPrefix(p, q), NEW gone
  PROVE  IsPrefix(Keep(p, gone), Keep(q, gone))
<1> DEFINE K == {i \in DOMAIN p : p[i].music \notin gone}
           L == {i \in DOMAIN q : q[i].music \notin gone}
<1>1. /\ DOMAIN p = 1..Len(p) /\ DOMAIN q = 1..Len(q) /\ Len(p) \in Nat /\ Len(q) \in Nat
      /\ Len(p) <= Len(q) /\ \A i \in 1..Len(p) : p[i] = q[i]
  BY LenProperties, PrefixItems
<1>2. /\ K \in SUBSET DOMAIN p /\ L \in SUBSET DOMAIN q /\ K \in SUBSET L
      /\ \A i \in L : i <= Len(p) => i \in K
  BY <1>1
<1>3. Keep(p, gone) = Select(p, K) /\ Keep(q, gone) = Select(q, L)
  BY DEF Keep
<1> HIDE DEF K, L
<1>4. /\ IsFiniteSet(K) /\ IsFiniteSet(L) /\ Cardinality(K) \in Nat
      /\ Select(p, K) \in Seq(S) /\ Len(Select(p, K)) = Cardinality(K)
      /\ Select(q, L) \in Seq(S) /\ Len(Select(q, L)) = Cardinality(L)
  BY <1>2, SelectKeeps
<1>5. Cardinality(K) <= Cardinality(L)
  BY <1>2, <1>4, FS_Subset
<1>6. ASSUME NEW r \in 1..Cardinality(K)
      PROVE  Select(p, K)[r] = Select(q, L)[r]
  <2>1. K \in SUBSET Nat
    BY <1>1, <1>2
  <2>2. PICK i \in K : Rank(K, i) = r
    BY <1>4, <2>1, RankOnto
  <2>3. {k \in K : k <= i} = {k \in L : k <= i}
    BY <1>1, <1>2
  <2>4. Rank(L, i) = r
    BY <2>2, <2>3 DEF Rank
  <2>5. Select(p, K)[r] = p[i] /\ Select(q, L)[r] = q[i]
    BY <1>2, <2>2, <2>4, SelectAt
  <2> QED
    BY <1>1, <1>2, <2>5
<1> QED
  BY <1>3, <1>4, <1>5, <1>6, PrefixItems

\* The window is the beginning of the history.
LEMMA WindowPrefix ==
  ASSUME NEW h \in Seq(Entry)
  PROVE  IsPrefix(Window(h), h)
<1> DEFINE n == IF Len(h) > HistorySize THEN HistorySize ELSE Len(h)
<1>1. n \in 0..Len(h) /\ n \in Nat /\ Len(h) \in Nat
  BY ConstantsAssumption, LenProperties
<1>2. Window(h) = SubSeq(h, 1, n)
  BY DEF Window
<1> HIDE DEF n
<1>3. \A i \in 1..n : h[i] \in Entry
  BY <1>1, ElementOfSeq
<1>4. /\ Window(h) \in Seq(Entry) /\ Len(Window(h)) = (IF 1 <= n THEN n - 1 + 1 ELSE 0)
      /\ \A i \in 1..(n - 1 + 1) : Window(h)[i] = h[1 + i - 1]
  BY <1>1, <1>2, <1>3, SubSeqProperties
<1>5. Len(Window(h)) = n /\ Len(Window(h)) <= Len(h) /\ \A i \in 1..n : Window(h)[i] = h[i]
  BY <1>1, <1>4
<1> QED
  BY <1>4, <1>5, PrefixItems

LEMMA ConcatPrefix ==
  ASSUME NEW S, NEW g \in Seq(S), NEW p \in Seq(S), NEW q \in Seq(S), IsPrefix(p, q)
  PROVE  IsPrefix(g \o p, g \o q)
<1>1. Len(g) \in Nat /\ Len(p) \in Nat /\ Len(q) \in Nat
  BY LenProperties
<1>2. Len(p) <= Len(q) /\ \A i \in 1..Len(p) : p[i] = q[i]
  BY PrefixItems
<1>3. /\ g \o p \in Seq(S) /\ Len(g \o p) = Len(g) + Len(p)
      /\ \A i \in 1..(Len(g) + Len(p)) :
           (g \o p)[i] = IF i <= Len(g) THEN g[i] ELSE p[i - Len(g)]
  BY ConcatProperties
<1>4. /\ g \o q \in Seq(S) /\ Len(g \o q) = Len(g) + Len(q)
      /\ \A i \in 1..(Len(g) + Len(q)) :
           (g \o q)[i] = IF i <= Len(g) THEN g[i] ELSE q[i - Len(g)]
  BY ConcatProperties
<1>5. ASSUME NEW i \in 1..(Len(g) + Len(p))
      PROVE  (g \o p)[i] = (g \o q)[i]
  <2>1. i \in 1..(Len(g) + Len(q)) /\ (~(i <= Len(g)) => i - Len(g) \in 1..Len(p))
    BY <1>1, <1>2
  <2> QED
    BY <1>2, <1>3, <1>4, <2>1
<1>6. Len(g \o p) <= Len(g \o q)
  BY <1>1, <1>2, <1>3, <1>4
<1> QED
  BY <1>3, <1>4, <1>5, <1>6, PrefixItems

\* A new entry whose track was not deleted stays in front.
LEMMA KeepConcat ==
  ASSUME NEW S, NEW e \in S, NEW h \in Seq(S), NEW gone, e.music \notin gone
  PROVE  Keep(<<e>> \o h, gone) = <<e>> \o Keep(h, gone)
<1> DEFINE g == <<e>> \o h
           K == {i \in DOMAIN h : h[i].music \notin gone}
           J == {i \in DOMAIN g : g[i].music \notin gone}
           f == [i \in K |-> i + 1]
           L == {f[i] : i \in K}
<1>1. <<e>> \in Seq(S) /\ Len(<<e>>) = 1 /\ <<e>>[1] = e
  OBVIOUS
<1>2. Len(h) \in Nat /\ DOMAIN h = 1..Len(h) /\ \A i \in 1..Len(h) : h[i] \in S
  BY LenProperties, ElementOfSeq
<1>3. /\ g \in Seq(S) /\ Len(g) = 1 + Len(h)
      /\ \A i \in 1..(1 + Len(h)) : g[i] = IF i <= 1 THEN <<e>>[i] ELSE h[i - 1]
  BY <1>1, <1>2, ConcatProperties
<1>4. DOMAIN g = 1..(1 + Len(h))
  BY <1>2, <1>3, LenProperties
<1> HIDE DEF g
<1>5. 1 \in DOMAIN g /\ g[1] = e /\ \A i \in 1..Len(h) : i + 1 \in DOMAIN g /\ g[i + 1] = h[i]
  <2>1. ASSUME NEW i \in 1..Len(h)
        PROVE  i + 1 \in DOMAIN g /\ g[i + 1] = h[i]
    <3>1. i + 1 \in 1..(1 + Len(h)) /\ ~(i + 1 <= 1) /\ (i + 1) - 1 = i
      BY <1>2
    <3> QED
      BY <1>3, <1>4, <3>1
  <2>2. 1 \in 1..(1 + Len(h))
    BY <1>2
  <2> QED
    BY <1>1, <1>3, <1>4, <2>1, <2>2
<1>6. J = {1} \cup L
  <2>1. ASSUME NEW j \in J
        PROVE  j = 1 \/ j \in L
    <3>1. CASE j # 1
      <4>1. j - 1 \in 1..Len(h) /\ (j - 1) + 1 = j
        BY <1>2, <1>4, <3>1
      <4>2. j - 1 \in K
        BY <1>2, <1>5, <4>1
      <4> QED
        BY <4>1, <4>2
    <3> QED
      BY <3>1
  <2>2. 1 \in J /\ L \subseteq J
    BY <1>2, <1>5
  <2> QED
    BY <2>1, <2>2
<1>7. K \in SUBSET DOMAIN h /\ J \in SUBSET DOMAIN g
  OBVIOUS
<1>8. Keep(h, gone) = Select(h, K) /\ Keep(g, gone) = Select(g, J)
  BY DEF Keep
<1> HIDE DEF K, J
<1>9. /\ IsFiniteSet(K) /\ Cardinality(K) \in Nat /\ IsFiniteSet(J)
      /\ Select(h, K) \in Seq(S) /\ Len(Select(h, K)) = Cardinality(K)
      /\ Select(g, J) \in Seq(S) /\ Len(Select(g, J)) = Cardinality(J)
  BY <1>3, <1>7, SelectKeeps
<1>10. K \in SUBSET Nat /\ f \in [K -> Nat] /\ \A i, j \in K : i < j => f[i] < f[j]
  BY <1>2, <1>7
<1>11. /\ Cardinality(L) = Cardinality(K)
       /\ \A i \in K : Rank(L, f[i]) = Rank(K, i)
  <2> HIDE DEF f
  <2> QED
    BY <1>9, <1>10, RankOfImage
<1>12. \A i \in K : f[i] = i + 1
  OBVIOUS
<1>13. 1 \notin L /\ \A l \in L : 1 <= l
  <2>1. \A i \in K : i \in 1..Len(h) /\ f[i] = i + 1
    BY <1>2, <1>7
  <2> HIDE DEF f
  <2>2. \A i \in K : f[i] # 1 /\ 1 <= f[i]
    BY <1>2, <2>1
  <2> QED
    BY <2>2
<1>14. IsFiniteSet(L)
  BY <1>6, <1>9, FS_Subset
<1> HIDE DEF f, L
<1>15. Cardinality(J) = Cardinality(K) + 1
  <2>1. J = L \cup {1}
    BY <1>6
  <2> QED
    BY <1>11, <1>13, <1>14, <2>1, FS_AddElement
<1>16. Rank(J, 1) = 1
  <2>1. {k \in J : k <= 1} = {1}
    BY <1>4, <1>6, <1>7
  <2> QED
    BY <2>1, FS_Singleton DEF Rank
<1>17. ASSUME NEW i \in K
       PROVE  i + 1 \in J /\ Rank(J, i + 1) = Rank(K, i) + 1
  <2> DEFINE low == {l \in L : l <= i + 1}
  <2>1. i + 1 \in L
    BY <1>12 DEF L
  <2>2. {k \in J : k <= i + 1} = low \cup {1}
    BY <1>6, <1>10, <1>17
  <2>3. low \in SUBSET L /\ 1 \notin low
    BY <1>13
  <2>4. Cardinality(low) = Rank(K, i)
    BY <1>11, <1>12 DEF Rank
  <2>5. IsFiniteSet(low)
    BY <1>14, <2>3, FS_Subset
  <2> HIDE DEF low
  <2>6. Cardinality(low \cup {1}) = Cardinality(low) + 1
    BY <2>3, <2>5, FS_AddElement
  <2> QED
    BY <1>6, <2>1, <2>2, <2>4, <2>6 DEF Rank
<1> DEFINE kept == Select(h, K)
           both == <<e>> \o kept
<1>18. /\ both \in Seq(S) /\ Len(both) = 1 + Cardinality(K)
       /\ \A i \in 1..(1 + Cardinality(K)) : both[i] = IF i <= 1 THEN <<e>>[i] ELSE kept[i - 1]
  BY <1>1, <1>9, ConcatProperties
<1>19. ASSUME NEW r \in 1..(1 + Cardinality(K))
       PROVE  Select(g, J)[r] = both[r]
  <2>1. CASE r = 1
    <3>1. 1 \in J
      BY <1>6
    <3>2. Select(g, J)[1] = e
      BY <1>3, <1>5, <1>7, <1>16, <3>1, SelectAt
    <3> QED
      BY <1>1, <1>18, <2>1, <3>2
  <2>2. CASE r # 1
    <3>1. r - 1 \in 1..Cardinality(K) /\ ~(r <= 1)
      BY <1>9, <2>2
    <3>2. PICK i \in K : Rank(K, i) = r - 1
      BY <1>9, <1>10, <3>1, RankOnto
    <3>3. kept[r - 1] = h[i]
      BY <1>7, <3>2, SelectAt
    <3>4. i + 1 \in J /\ Rank(J, i + 1) = r
      BY <1>17, <3>1, <3>2
    <3>5. Select(g, J)[r] = g[i + 1]
      BY <1>3, <1>7, <3>4, SelectAt
    <3>6. g[i + 1] = h[i]
      BY <1>2, <1>5, <1>7
    <3> HIDE DEF kept, both
    <3> QED
      BY <1>18, <3>1, <3>3, <3>5, <3>6
  <2> QED
    BY <2>1, <2>2
<1> HIDE DEF kept, both
<1>20. Len(both) = Len(Select(g, J))
  BY <1>9, <1>15, <1>18
<1>21. Select(g, J) = both
  BY <1>9, <1>15, <1>18, <1>19, <1>20, SeqEqual
<1> QED
  BY <1>8, <1>21 DEF g, both, kept

-----------------------------------------------------------------------------
(* Memory and rows.  A transaction that succeeds has checked every song it  *)
(* writes against the tombstones, so nothing of it is gone; a deletion       *)
(* leaves in the rows what Keep leaves of memory.                            *)

Agree ==
  /\ disk.queue = Keep(queue, deleted)
  /\ disk.state = IF state.current \in deleted
                  THEN [state EXCEPT !.current = None] ELSE state
  /\ IsPrefix(Keep(history, deleted), disk.history)

LEMMA Agreement ==
  /\ MemoryMatchesDisk <=> (loaded /\ ~torn => Agree)
  /\ MemoryMatchesDisk' <=> (loaded' /\ ~torn' => Agree')
BY DEF MemoryMatchesDisk, Agree

LEMMA SynchronizeQueueAgrees ==
  ASSUME TypeOK, ~torn => Agree, UNCHANGED <<state, history, deleted>>,
         NEW q \in Seq(Item), NEW o, SynchronizeQueue(o, q), AdoptQueue(o, q)
  PROVE  ~torn' => Agree'
<1> DEFINE d == [disk EXCEPT !.queue = q]
<1>1. d.queue = q /\ d.state = disk.state /\ d.history = disk.history
  BY DEF TypeOK, Disk
<1>2. Commit(o, Songs(q), d)
  BY DEF SynchronizeQueue
<1> HIDE DEF d
<1>3. cancelled \in Nat
  BY DEF TypeOK
<1>4. CASE o = "ok"
  <2>1. disk' = d /\ cancelled' = cancelled /\ queue' = q /\ Songs(q) \cap deleted = {}
    BY <1>2, <1>4 DEF Commit, AdoptQueue
  <2>2. q = Keep(q, deleted)
    BY <2>1, KeepAll
  <2> QED
    BY <1>1, <2>1, <2>2 DEF Agree, torn
<1>5. CASE o = "fail"
  <2>1. disk' = disk /\ cancelled' = cancelled /\ queue' = queue
    BY <1>2, <1>5 DEF Commit, AdoptQueue
  <2> QED
    BY <2>1 DEF Agree, torn
<1>6. CASE o = "unknown"
  BY <1>2, <1>3, <1>6 DEF Commit, torn
<1> QED
  BY <1>2, <1>4, <1>5, <1>6 DEF Commit, Outcomes

LEMMA UpsertAgrees ==
  ASSUME TypeOK, ~torn => Agree, UNCHANGED <<queue, history, deleted>>,
         NEW s \in State, NEW o, Upsert(o, s), AdoptState(o, s)
  PROVE  ~torn' => Agree'
<1> DEFINE d == [disk EXCEPT !.state = s]
<1>1. d.queue = disk.queue /\ d.state = s /\ d.history = disk.history
  BY DEF TypeOK, Disk
<1>2. Commit(o, {s.current} \ {None}, d)
  BY DEF Upsert
<1> HIDE DEF d
<1>3. cancelled \in Nat /\ None \notin deleted
  BY ConstantsAssumption DEF TypeOK
<1>4. CASE o = "ok"
  <2>1. disk' = d /\ cancelled' = cancelled /\ state' = s /\ s.current \notin deleted
    BY <1>2, <1>3, <1>4 DEF Commit, AdoptState
  <2> QED
    BY <1>1, <2>1 DEF Agree, torn
<1>5. CASE o = "fail"
  <2>1. disk' = disk /\ cancelled' = cancelled /\ state' = state
    BY <1>2, <1>5 DEF Commit, AdoptState
  <2> QED
    BY <2>1 DEF Agree, torn
<1>6. CASE o = "unknown"
  BY <1>2, <1>3, <1>6 DEF Commit, torn
<1> QED
  BY <1>2, <1>4, <1>5, <1>6 DEF Commit, Outcomes

\* The history of memory follows the entries h that were written, or is cut.
LEMMA CommitRoomStateAgrees ==
  ASSUME TypeOK, ~torn => Agree, UNCHANGED deleted,
         NEW q \in Seq(Item), NEW s \in State, NEW h \in Seq(Entry), NEW o,
         CommitRoomState(o, q, s, h), AdoptQueue(o, q), AdoptState(o, s),
         ~torn /\ o = "ok" /\ Songs(h) \cap deleted = {} =>
           IsPrefix(Keep(history', deleted), h \o disk.history),
         ~torn /\ o = "fail" => IsPrefix(Keep(history', deleted), disk.history)
  PROVE  ~torn' => Agree'
<1> DEFINE d == [queue |-> q, state |-> s, history |-> h \o disk.history]
           songs == Songs(q) \cup Songs(h) \cup ({s.current} \ {None})
<1>1. d.queue = q /\ d.state = s /\ d.history = h \o disk.history
  OBVIOUS
<1>2. Commit(o, songs, d)
  BY DEF CommitRoomState
<1>3. cancelled \in Nat /\ None \notin deleted
  BY ConstantsAssumption DEF TypeOK
<1> HIDE DEF d
<1>4. CASE o = "ok"
  <2>1. /\ disk' = d /\ cancelled' = cancelled /\ queue' = q /\ state' = s
        /\ songs \cap deleted = {}
    BY <1>2, <1>4 DEF Commit, AdoptQueue, AdoptState
  <2>2. Songs(q) \cap deleted = {} /\ Songs(h) \cap deleted = {} /\ s.current \notin deleted
    BY <1>3, <2>1
  <2> HIDE DEF songs
  <2>3. q = Keep(q, deleted)
    BY <2>2, KeepAll
  <2> QED
    BY <1>1, <1>4, <2>1, <2>2, <2>3 DEF Agree, torn
<1>5. CASE o = "fail"
  <2>1. disk' = disk /\ cancelled' = cancelled /\ queue' = queue /\ state' = state
    BY <1>2, <1>5 DEF Commit, AdoptQueue, AdoptState
  <2> QED
    BY <1>5, <2>1 DEF Agree, torn
<1>6. CASE o = "unknown"
  BY <1>2, <1>3, <1>6 DEF Commit, torn
<1> QED
  BY <1>2, <1>4, <1>5, <1>6 DEF Commit, Outcomes

-----------------------------------------------------------------------------
(* The operations.                                                         *)

LEMMA RearrangeAgrees ==
  ASSUME TypeOK, ~torn => Agree, NEW q \in Seq(Item), NEW o, Rearrange(q, o)
  PROVE  ~torn' => Agree'
<1>1. SynchronizeQueue(o, q) /\ AdoptQueue(o, q) /\ UNCHANGED <<state, history, deleted>>
  BY DEF Rearrange
<1> QED
  BY <1>1, SynchronizeQueueAgrees

LEMMA EnqueueAgrees ==
  ASSUME TypeOK, ~torn => Agree, NEW u \in Users, NEW n \in 1..MaxBatch,
         NEW ms \in [1..n -> Tracks], NEW o, Enqueue(u, ms, o)
  PROVE  ~torn' => Agree'
<1> DEFINE items == [i \in 1..Len(ms) |->
                       [id |-> nextId + i, music |-> ms[i], by |-> u, prio |-> 0]]
           next == queue \o items
<1>1. ms \in Seq(Tracks) /\ Len(ms) = n /\ n \in Nat /\ n > 0
  BY SeqDef, LenProperties, ConstantsAssumption
<1>2. \A i \in 1..Len(ms) :
        [id |-> nextId + i, music |-> ms[i], by |-> u, prio |-> 0] \in Item
  BY <1>1 DEF TypeOK, Item
<1>3. items \in Seq(Item) /\ Len(items) = n
  <2>1. items \in [1..n -> Item]
    BY <1>1, <1>2
  <2> HIDE DEF items
  <2> QED
    BY <1>1, <2>1, SeqDef, LenProperties
<1> HIDE DEF items
<1>4. queue \in Seq(Item) /\ Len(queue) \in Nat /\ state \in State /\ disk.history \in Seq(Entry)
  BY LenProperties DEF TypeOK, Disk
<1>5. next \in Seq(Item) /\ next # <<>>
  <2>1. next \in Seq(Item) /\ Len(next) = Len(queue) + n
    BY <1>3, <1>4, ConcatProperties
  <2>2. Len(next) # 0
    BY <1>1, <1>4, <2>1
  <2> QED
    BY <2>1, <2>2, EmptySeq
<1> HIDE DEF next
<1>6. UNCHANGED <<history, deleted>>
  BY DEF Enqueue
<1>7. CASE SynchronizeQueue(o, next) /\ AdoptQueue(o, next) /\ UNCHANGED state
  BY <1>5, <1>6, <1>7, SynchronizeQueueAgrees
<1>8. ASSUME NEW k \in NextPositions(state.shuffle, next),
             CommitRoomState(o, Rest(next, k), Play(state, next[k]), <<>>),
             AdoptQueue(o, Rest(next, k)), AdoptState(o, Play(state, next[k]))
      PROVE  ~torn' => Agree'
  <2>1. k \in DOMAIN next
    BY <1>5, NextPositionsPending
  <2>2. Rest(next, k) \in Seq(Item) /\ Play(state, next[k]) \in State /\ <<>> \in Seq(Entry)
    BY <1>4, <1>5, <2>1, RestItems, ItemFields, PlayType, EmptySeq
  <2>3. <<>> \o disk.history = disk.history
    BY <1>4, ConcatEmptySeq
  <2>4. ~torn => IsPrefix(Keep(history', deleted), disk.history)
    BY <1>6 DEF Agree
  <2> QED
    BY <1>6, <1>8, <2>2, <2>3, <2>4, CommitRoomStateAgrees
<1> QED
  BY <1>7, <1>8 DEF Enqueue, next, items

LEMMA QueueCommandAgrees ==
  ASSUME TypeOK, ~torn => Agree, NEW o, QueueCommand(o)
  PROVE  ~torn' => Agree'
<1>0. queue \in Seq(Item)
  BY DEF TypeOK
<1>1. CASE \E u \in Users, n \in 1..MaxBatch : \E ms \in [1..n -> Tracks] : Enqueue(u, ms, o)
  BY <1>1, EnqueueAgrees
<1>2. ASSUME NEW K \in SUBSET DOMAIN queue, RemoveItems(K, o)
      PROVE  ~torn' => Agree'
  <2>1. DOMAIN queue \ K \in SUBSET DOMAIN queue
    OBVIOUS
  <2>2. Select(queue, DOMAIN queue \ K) \in Seq(Item)
    BY <1>0, <2>1, SelectKeeps
  <2> QED
    BY <1>2, <2>2, RearrangeAgrees DEF RemoveItems
<1>3. ASSUME NEW K \in SUBSET DOMAIN queue, Top(K, o)
      PROVE  ~torn' => Agree'
  BY <1>0, <1>3, PrioritiseType, RearrangeAgrees DEF Top
<1>4. ASSUME NEW i \in DOMAIN queue, NEW j \in DOMAIN queue, Reorder(i, j, o)
      PROVE  ~torn' => Agree'
  BY <1>0, <1>4, MoveType, RearrangeAgrees DEF Reorder
<1>5. ASSUME NEW i \in DOMAIN queue, NEW j \in DOMAIN queue, NEW after \in BOOLEAN,
             ReorderByID(i, j, after, o)
      PROVE  ~torn' => Agree'
  <2>1. DropPosition(queue, i, j, after) \in DOMAIN queue
    BY <1>0, <1>5, DropPositionPending DEF ReorderByID
  <2> QED
    BY <1>0, <1>5, <2>1, MoveType, RearrangeAgrees DEF ReorderByID
<1>6. CASE Clear(o)
  <2>1. <<>> \in Seq(Item)
    BY EmptySeq
  <2> QED
    BY <1>6, <2>1, RearrangeAgrees DEF Clear
<1> QED
  BY <1>1, <1>2, <1>3, <1>4, <1>5, <1>6 DEF QueueCommand

\* An advance that succeeds writes no deleted track into the history, so what
\* it puts in front of the window is in front of the rows.
LEMMA AdvanceAgrees ==
  ASSUME TypeOK, ~torn => Agree, NEW o, Advance(o)
  PROVE  ~torn' => Agree'
<1> DEFINE entry == [music |-> state.current, by |-> state.by]
           played == IF state.current = None THEN <<>> ELSE <<entry>>
           Step(q, s) == /\ CommitRoomState(o, q, s, played)
                         /\ AdoptQueue(o, q)
                         /\ AdoptState(o, s)
<1>1. /\ queue \in Seq(Item) /\ state \in State /\ deleted' = deleted
      /\ history \in Seq(Entry) /\ disk.history \in Seq(Entry)
  BY DEF Advance, TypeOK, Disk
<1>2. state.current # None => entry \in Entry
  BY StateFields DEF TypeOK, Entry
<1>3. played \in Seq(Entry) /\ played \o history \in Seq(Entry) /\ played \o disk.history \in Seq(Entry)
  <2>1. played \in Seq(Entry)
    <3>1. CASE state.current = None
      BY <3>1, EmptySeq
    <3>2. CASE state.current # None
      <4> HIDE DEF entry
      <4> QED
        BY <1>2, <3>2
    <3> QED
      BY <3>1, <3>2
  <2> HIDE DEF played
  <2> QED
    BY <1>1, <2>1, ConcatProperties
<1>4. /\ o = "ok" => history' = Window(played \o history)
      /\ o = "fail" => history' = history
  BY DEF Advance
<1>5. ASSUME ~torn, o = "ok", Songs(played) \cap deleted = {}
      PROVE  IsPrefix(Keep(history', deleted), played \o disk.history)
  <2>1. /\ Keep(history, deleted) \in Seq(Entry)
        /\ Keep(played \o history, deleted) \in Seq(Entry)
        /\ Window(played \o history) \in Seq(Entry)
        /\ Keep(Window(played \o history), deleted) \in Seq(Entry)
    BY <1>1, <1>3, WindowType, KeepType
  <2>2. IsPrefix(Keep(Window(played \o history), deleted), Keep(played \o history, deleted))
    BY <1>3, <2>1, WindowPrefix, KeepPrefix
  <2>3. Keep(played \o history, deleted) = played \o Keep(history, deleted)
    <3>1. CASE state.current = None
      <4>1. played \o history = history /\ played \o Keep(history, deleted) = Keep(history, deleted)
        BY <1>1, <2>1, <3>1, ConcatEmptySeq
      <4> QED
        BY <4>1
    <3>2. CASE state.current # None
      <4>1. played = <<entry>> /\ entry \in Entry
        BY <1>2, <3>2
      <4>2. entry.music \notin deleted
        <5>1. DOMAIN played = {1} /\ played[1] = entry
          BY <4>1
        <5> HIDE DEF played
        <5> QED
          BY <1>5, <5>1 DEF Songs
      <4> HIDE DEF played, entry
      <4> QED
        BY <1>1, <4>1, <4>2, KeepConcat
    <3> QED
      BY <3>1, <3>2
  <2>4. IsPrefix(Keep(history, deleted), disk.history)
    BY <1>5 DEF Agree
  <2> HIDE DEF played
  <2>5. IsPrefix(played \o Keep(history, deleted), played \o disk.history)
    BY <1>1, <1>3, <2>1, <2>4, ConcatPrefix
  <2>6. IsPrefix(Keep(Window(played \o history), deleted), played \o disk.history)
    BY <1>3, <2>1, <2>2, <2>3, <2>5, PrefixTransitive
  <2> QED
    BY <1>4, <1>5, <2>6
<1>6. ~torn /\ o = "fail" => IsPrefix(Keep(history', deleted), disk.history)
  BY <1>4 DEF Agree
<1>7. ASSUME NEW q \in Seq(Item), NEW s \in State, Step(q, s)
      PROVE  ~torn' => Agree'
  <2> HIDE DEF played
  <2> QED
    BY <1>1, <1>3, <1>5, <1>6, <1>7, CommitRoomStateAgrees
<1>8. ASSUME Step(<<>>, Stop(state))
      PROVE  ~torn' => Agree'
  BY <1>1, <1>7, <1>8, StopType, EmptySeq
<1>9. ASSUME queue # <<>>, NEW k \in NextPositions(state.shuffle, queue),
             Step(Rest(queue, k), Play(state, queue[k]))
      PROVE  ~torn' => Agree'
  <2>1. k \in DOMAIN queue
    BY <1>1, <1>9, NextPositionsPending
  <2>2. Rest(queue, k) \in Seq(Item) /\ Play(state, queue[k]) \in State
    BY <1>1, <2>1, RestItems, ItemFields, PlayType
  <2> QED
    BY <1>7, <1>9, <2>2
<1> QED
  BY <1>8, <1>9 DEF Advance

LEMMA MutateStateAgrees ==
  ASSUME TypeOK, ~torn => Agree, NEW s \in State, NEW o, MutateState(o, s), UNCHANGED history
  PROVE  ~torn' => Agree'
<1> DEFINE next == [s EXCEPT !.version = @ + 1]
<1>1. next \in State
  BY StateFields, Zenon DEF State
<1>2. Upsert(o, next) /\ AdoptState(o, next) /\ UNCHANGED <<queue, history, deleted>>
  BY DEF MutateState
<1> HIDE DEF next
<1> QED
  BY <1>1, <1>2, UpsertAgrees

LEMMA PlaybackCommandAgrees ==
  ASSUME TypeOK, ~torn => Agree, NEW o, PlaybackCommand(o)
  PROVE  ~torn' => Agree'
<1>0. state \in State /\ state.likes \in SUBSET Users /\ state.markers \in Nat
  BY StateFields DEF TypeOK
<1>1. ASSUME Advance(o)
      PROVE  ~torn' => Agree'
  BY <1>1, AdvanceAgrees
<1>2. CASE TogglePause(o)
  <2> DEFINE s == [state EXCEPT !.paused = ~@]
  <2>1. s \in State
    BY <1>0, StateFields DEF State
  <2>2. Advance(o) \/ (MutateState(o, s) /\ UNCHANGED history)
    BY <1>2 DEF TogglePause
  <2> HIDE DEF s
  <2> QED
    BY <1>1, <2>1, <2>2, MutateStateAgrees
<1>3. CASE ToggleShuffle(o)
  <2> DEFINE s == [state EXCEPT !.shuffle = ~@]
  <2>1. s \in State
    BY <1>0, StateFields DEF State
  <2>2. MutateState(o, s) /\ UNCHANGED history
    BY <1>3 DEF ToggleShuffle
  <2> HIDE DEF s
  <2> QED
    BY <2>1, <2>2, MutateStateAgrees
<1>4. ASSUME NEW u \in Users, NEW admin \in BOOLEAN, Seek(u, admin, o)
      PROVE  ~torn' => Agree'
  <2> DEFINE s == [state EXCEPT !.epoch = @ + 1]
  <2>1. s \in State
    BY <1>0, StateFields DEF State
  <2>2. MutateState(o, s) /\ UNCHANGED history
    BY <1>4 DEF Seek
  <2> HIDE DEF s
  <2> QED
    BY <2>1, <2>2, MutateStateAgrees
<1>5. CASE Previous(o)
  <2> DEFINE s == [state EXCEPT !.current = history[skipped + 1].music,
                                !.by = history[skipped + 1].by,
                                !.item = 0, !.paused = FALSE, !.likes = {},
                                !.markers = 0, !.epoch = @ + 1]
  <2>1. s \in State
    BY <1>5, PreviousState
  <2>2. MutateState(o, s) /\ UNCHANGED history
    BY <1>5 DEF Previous
  <2> HIDE DEF s
  <2> QED
    BY <2>1, <2>2, MutateStateAgrees
<1>6. ASSUME UNCHANGED <<mem, disk, deleted, cancelled>>
      PROVE  ~torn' => Agree'
  BY <1>6 DEF Agree, mem, torn
<1>7. ASSUME NEW u \in Users, NEW listed, Like(u, listed, o)
      PROVE  ~torn' => Agree'
  <2> DEFINE s == [state EXCEPT !.likes = @ \cup {u}, !.markers = @ + 1]
  <2>1. state.likes \cup {u} \in SUBSET Users /\ state.markers + 1 \in Nat
    BY <1>0
  <2>2. s \in State
    BY <1>0, <2>1, StateFields, Zenon DEF State
  <2>3. (MutateState(o, s) /\ UNCHANGED history) \/ UNCHANGED <<mem, disk, deleted, cancelled>>
    BY <1>7 DEF Like
  <2> HIDE DEF s
  <2> QED
    BY <1>6, <2>2, <2>3, MutateStateAgrees
<1>8. ASSUME NEW u \in Users, NEW listed, Unlike(u, listed, o)
      PROVE  ~torn' => Agree'
  <2> DEFINE left == IF state.markers > 0 THEN state.markers - 1 ELSE 0
             s == [state EXCEPT !.likes = @ \ {u}, !.markers = IF @ > 0 THEN @ - 1 ELSE 0]
             t == [state EXCEPT !.likes = state.likes \ {u}, !.markers = left]
  <2>1. state.likes \ {u} \in SUBSET Users /\ left \in Nat
    BY <1>0
  <2>2. s = t
    OBVIOUS
  <2>3. (MutateState(o, s) /\ UNCHANGED history) \/ UNCHANGED <<mem, disk, deleted, cancelled>>
    BY <1>8 DEF Unlike
  <2> HIDE DEF left, s
  <2>4. t \in State
    BY <1>0, <2>1, StateFields, Zenon DEF State
  <2> HIDE DEF t
  <2> QED
    BY <1>6, <2>2, <2>3, <2>4, MutateStateAgrees
<1>9. \A u \in Likers : u \in Users
  BY ConstantsAssumption
<1> QED
  BY <1>1, <1>2, <1>3, <1>4, <1>5, <1>7, <1>8, <1>9 DEF PlaybackCommand, NextSong, Tick

\* A new runtime shows the rows, which name nothing that is gone.
LEMMA LoadAgrees ==
  ASSUME TypeOK, TombstonesUnreferenced, NEW readable \in BOOLEAN, Load(readable)
  PROVE  Agree'
<1>1. /\ disk.queue \in Seq(Item) /\ disk.history \in Seq(Entry)
      /\ Window(disk.history) \in Seq(Entry) /\ <<>> \in Seq(Entry)
  BY WindowType, EmptySeq DEF TypeOK, Disk
<1>2. /\ Songs(disk.queue) \cap deleted = {} /\ Songs(disk.history) \cap deleted = {}
      /\ disk.state.current \notin deleted
  BY DEF TombstonesUnreferenced
<1>3. Keep(disk.queue, deleted) = disk.queue /\ Keep(disk.history, deleted) = disk.history
  BY <1>1, <1>2, KeepAll
<1>4. /\ queue' = disk.queue /\ state' = disk.state /\ UNCHANGED <<disk, deleted>>
      /\ history' \in {Window(disk.history), <<>>}
  BY DEF Load
<1>5. IsPrefix(Keep(history', deleted), disk.history)
  <2>1. ASSUME history' = Window(disk.history)
        PROVE  IsPrefix(Keep(history', deleted), disk.history)
    BY <1>1, <1>3, <2>1, WindowPrefix, KeepPrefix, Zenon
  <2>2. ASSUME history' = <<>>
        PROVE  IsPrefix(Keep(history', deleted), disk.history)
    <3>1. Songs(<<>>) \cap deleted = {}
      BY DEF Songs
    <3>2. Keep(<<>>, deleted) = <<>>
      BY <1>1, <3>1, KeepAll
    <3>3. IsPrefix(<<>>, disk.history)
      <4>1. Len(<< >>) = 0 /\ Len(disk.history) \in Nat
        BY <1>1, LenProperties, EmptySeq
      <4>2. Len(<< >>) <= Len(disk.history) /\ \A i \in 1..Len(<< >>) : << >>[i] = disk.history[i]
        BY <4>1
      <4> QED
        BY <1>1, <4>2, PrefixItems
    <3> QED
      BY <2>2, <3>2, <3>3
  <2> QED
    BY <1>4, <2>1, <2>2
<1> QED
  BY <1>2, <1>3, <1>4, <1>5 DEF Agree

\* A deletion takes from the rows what memory goes on showing.
LEMMA DeleteTrackAgrees ==
  ASSUME TypeOK, ~torn => Agree, NEW t \in LocalTracks, DeleteTrack(t)
  PROVE  ~torn' => Agree'
<1>1. /\ queue \in Seq(Item) /\ history \in Seq(Entry) /\ disk.history \in Seq(Entry)
      /\ state \in State /\ disk.state \in State /\ t # None
  BY ConstantsAssumption DEF TypeOK, Disk
<1>2. /\ deleted' = deleted \cup {t} /\ UNCHANGED <<queue, state, history, cancelled>>
      /\ disk'.queue = Keep(disk.queue, {t}) /\ disk'.history = Keep(disk.history, {t})
      /\ disk'.state = IF disk.state.current = t
                       THEN [disk.state EXCEPT !.current = None] ELSE disk.state
  BY DEF DeleteTrack, mem
<1> SUFFICES ASSUME ~torn' PROVE Agree'
  OBVIOUS
<1>3. ~torn /\ Agree
  BY <1>2 DEF torn
<1>4. disk'.queue = Keep(queue, deleted')
  BY <1>1, <1>2, <1>3, KeepTwice DEF Agree
<1>5. disk'.state = IF state.current \in deleted'
                    THEN [state EXCEPT !.current = None] ELSE state
  <2>1. disk.state = IF state.current \in deleted
                     THEN [state EXCEPT !.current = None] ELSE state
    BY <1>3 DEF Agree
  <2>2. CASE state.current \in deleted
    <3>1. disk.state = [state EXCEPT !.current = None]
      BY <2>1, <2>2
    <3>2. disk.state.current = None
      BY <1>1, <3>1 DEF State
    <3> QED
      BY <1>1, <1>2, <2>2, <3>1, <3>2
  <2>3. CASE state.current \notin deleted
    BY <1>2, <2>1, <2>3
  <2> QED
    BY <2>2, <2>3
<1>6. IsPrefix(Keep(history, deleted'), disk'.history)
  <2>1. Keep(history, deleted) \in Seq(Entry) /\ IsPrefix(Keep(history, deleted), disk.history)
    BY <1>1, <1>3, KeepType DEF Agree
  <2>2. IsPrefix(Keep(Keep(history, deleted), {t}), Keep(disk.history, {t}))
    BY <1>1, <2>1, KeepPrefix
  <2>3. Keep(Keep(history, deleted), {t}) = Keep(history, deleted \cup {t})
    BY <1>1, KeepTwice
  <2> QED
    BY <1>2, <2>2, <2>3
<1> QED
  BY <1>2, <1>4, <1>5, <1>6 DEF Agree

\* The hook takes out of memory only what was gone from the rows before.
LEMMA ReloadQueueAgrees ==
  ASSUME TypeOK, TombstonesUnreferenced, ~torn => Agree,
         NEW t \in LocalTracks, NEW o, ReloadQueue(t, o)
  PROVE  ~torn' => Agree'
<1> DEFINE Drop(q, s) == /\ CommitRoomState(o, q, s, <<>>)
                         /\ AdoptQueue(o, q)
                         /\ AdoptState(o, s)
<1>1. /\ disk.queue \in Seq(Item) /\ history \in Seq(Entry) /\ disk.history \in Seq(Entry)
      /\ state \in State /\ deleted' = deleted /\ t \in deleted /\ <<>> \in Seq(Entry)
  BY EmptySeq DEF TypeOK, Disk, ReloadQueue
<1>2. history' = Keep(history, {t})
  <2>1. {i \in DOMAIN history : history[i].music # t}
          = {i \in DOMAIN history : history[i].music \notin {t}}
    OBVIOUS
  <2> QED
    BY <2>1 DEF ReloadQueue, Keep
<1>3. Keep(history', deleted) = Keep(history, deleted)
  <2>1. {t} \cup deleted = deleted
    BY <1>1
  <2> QED
    BY <1>1, <1>2, <2>1, KeepTwice
<1>4. ~torn => IsPrefix(Keep(history', deleted), disk.history)
  BY <1>3 DEF Agree
<1>5. CASE AdoptQueue(o, disk.queue) /\ o = "ok" /\ UNCHANGED <<state, disk, cancelled>>
  <2>1. Songs(disk.queue) \cap deleted = {}
    BY DEF TombstonesUnreferenced
  <2>2. Keep(disk.queue, deleted) = disk.queue
    BY <1>1, <2>1, KeepAll
  <2>3. queue' = disk.queue
    BY <1>5 DEF AdoptQueue
  <2> QED
    BY <1>1, <1>4, <1>5, <2>2, <2>3 DEF Agree, torn
<1>6. ASSUME NEW q \in Seq(Item), NEW s \in State, Drop(q, s)
      PROVE  ~torn' => Agree'
  <2>1. <<>> \o disk.history = disk.history
    BY <1>1, ConcatEmptySeq
  <2> QED
    BY <1>1, <1>4, <1>6, <2>1, CommitRoomStateAgrees
<1>7. ASSUME Drop(<<>>, Stop(state))
      PROVE  ~torn' => Agree'
  BY <1>1, <1>6, <1>7, StopType, EmptySeq
<1>8. ASSUME disk.queue # <<>>, NEW k \in NextPositions(FALSE, disk.queue),
             Drop(Rest(disk.queue, k), Play(state, disk.queue[k]))
      PROVE  ~torn' => Agree'
  <2>1. k \in DOMAIN disk.queue
    BY <1>1, <1>8, NextPositionsPending
  <2>2. Rest(disk.queue, k) \in Seq(Item) /\ Play(state, disk.queue[k]) \in State
    BY <1>1, <2>1, RestItems, ItemFields, PlayType
  <2> QED
    BY <1>6, <1>8, <2>2
<1> QED
  BY <1>5, <1>7, <1>8 DEF ReloadQueue

LEMMA AgreementStep ==
  ASSUME TypeOK, TombstonesUnreferenced, MemoryMatchesDisk, [Next]_vars
  PROVE  MemoryMatchesDisk'
<1>0. loaded => (~torn => Agree)
  BY Agreement
<1>1. ASSUME NEW o \in Outcomes, QueueCommand(o) \/ PlaybackCommand(o)
      PROVE  ~torn' => Agree'
  <2>1. loaded
    BY <1>1 DEF QueueCommand, PlaybackCommand, Enqueue, RemoveItems, Top, Reorder, ReorderByID,
                Clear, Rearrange, NextSong, Tick, TogglePause, ToggleShuffle, Seek, Previous,
                Like, Unlike, Advance, MutateState, Live
  <2> QED
    BY <1>0, <1>1, <2>1, QueueCommandAgrees, PlaybackCommandAgrees
<1>2. ASSUME NEW readable \in BOOLEAN, Load(readable)
      PROVE  Agree'
  BY <1>2, LoadAgrees
<1>3. ASSUME NEW t \in LocalTracks, DeleteTrack(t)
      PROVE  loaded' => (~torn' => Agree')
  <2>1. loaded' = loaded
    BY <1>3 DEF DeleteTrack
  <2> QED
    BY <1>0, <1>3, <2>1, DeleteTrackAgrees
<1>4. ASSUME NEW t \in LocalTracks, NEW o, ReloadQueue(t, o)
      PROVE  ~torn' => Agree'
  <2>1. loaded
    BY <1>4 DEF ReloadQueue, Live
  <2> QED
    BY <1>0, <1>4, <2>1, ReloadQueueAgrees
<1>5. ASSUME UNCHANGED <<mem, disk, deleted, cancelled>>, loaded' => loaded
      PROVE  loaded' => (~torn' => Agree')
  BY <1>0, <1>5 DEF Agree, mem, torn
<1>6. ASSUME \/ Unload
             \/ UNCHANGED vars
             \/ \E t \in LocalTracks : SkipReload(t)
      PROVE  loaded' => (~torn' => Agree')
  BY <1>5, <1>6 DEF Unload, SkipReload, vars, mem
<1>7. loaded' => (~torn' => Agree')
  BY <1>1, <1>2, <1>3, <1>4, <1>6 DEF Next, Answer
<1> QED
  BY <1>7, Agreement

\* Between commands the rows are what memory shows without the deleted tracks:
\* memory moves only with a write that succeeded, and a rebuilt runtime, a
\* deletion and a late hook each leave the two in step.
THEOREM RowsAreMemory == Spec => []MemoryMatchesDisk
<1>1. Init => TypeOK /\ TombstonesUnreferenced /\ MemoryMatchesDisk
  <2> SUFFICES ASSUME Init PROVE TombstonesUnreferenced /\ MemoryMatchesDisk
    BY TypeOKInit
  <2> QED
    BY DEF Init, TombstonesUnreferenced, MemoryMatchesDisk
<1>2. TypeOK /\ TombstonesUnreferenced /\ MemoryMatchesDisk /\ [Next]_vars
        => (TypeOK /\ TombstonesUnreferenced /\ MemoryMatchesDisk)'
  BY TypeOKStep, TombstonesStep, AgreementStep
<1> QED
  BY <1>1, <1>2, PTL DEF Spec

-----------------------------------------------------------------------------
(* Where a dropped item lands.                                             *)

LEMMA DropBeside ==
  ASSUME NEW q \in Seq(Item), \A a, b \in DOMAIN q : q[a].id = q[b].id => a = b,
         NEW i \in DOMAIN q, NEW t \in DOMAIN q, i # t, NEW after \in BOOLEAN,
         NEW m, m = Move(q, i, DropPosition(q, i, t, after))
  PROVE  /\ \E at \in DOMAIN m : m[at].id = q[t].id
         /\ \A at \in DOMAIN m : m[at].id = q[t].id =>
              LET beside == IF after THEN at + 1 ELSE at - 1
              IN  beside \in DOMAIN m /\ m[beside].id = q[i].id
<1> DEFINE to == DropPosition(q, i, t, after)
           n == Len(q)
           there == IF after THEN to - 1 ELSE to + 1
<1>1. n \in Nat /\ DOMAIN q = 1..n /\ i \in 1..n /\ t \in 1..n
  BY LenProperties
<1>2. to \in 1..n
  BY <1>1, DropPositionPending
<1>3. there \in 1..n /\ Origin(i, to, there) = t /\ Origin(i, to, to) = i
  <2>1. to = IF after THEN IF i < t THEN t ELSE t + 1
                      ELSE IF i < t THEN t - 1 ELSE t
    BY <1>1 DEF DropPosition
  <2> HIDE DEF to
  <2> QED
    BY <1>1, <2>1 DEF Origin
<1>4. m = Move(q, i, to)
  OBVIOUS
<1> HIDE DEF to
<1>5. /\ DOMAIN m = 1..n
      /\ \A k \in 1..n : Origin(i, to, k) \in 1..n /\ m[k] = q[Origin(i, to, k)]
  <2>1. to \in DOMAIN q
    BY <1>1, <1>2
  <2>2. m \in Seq(Item) /\ Len(m) = Len(q)
    BY <1>4, <2>1, MoveItems
  <2>3. ASSUME NEW k \in 1..Len(q)
        PROVE  Origin(i, to, k) \in 1..Len(q) /\ m[k] = q[Origin(i, to, k)]
    <3>1. \A j \in 1..Len(q) : /\ Origin(i, to, j) \in 1..Len(q)
                               /\ Move(q, i, to)[j] = q[Origin(i, to, j)]
      BY <2>1, MoveItems
    <3>2. Origin(i, to, k) \in 1..Len(q) /\ Move(q, i, to)[k] = q[Origin(i, to, k)]
      BY <3>1
    <3> QED
      BY <1>4, <3>2
  <2> QED
    BY <2>2, <2>3, LenProperties
<1> HIDE DEF n
<1>6. there \in DOMAIN m /\ m[there].id = q[t].id /\ m[to].id = q[i].id
  BY <1>2, <1>3, <1>5
<1>7. ASSUME NEW at \in DOMAIN m, m[at].id = q[t].id
      PROVE  LET beside == IF after THEN at + 1 ELSE at - 1
             IN  beside \in DOMAIN m /\ m[beside].id = q[i].id
  <2>1. Origin(i, to, at) = t
    BY <1>1, <1>5, <1>7
  <2>2. at = there
    BY <1>1, <1>2, <1>3, <1>5, <2>1 DEF Origin
  <2>3. (IF after THEN at + 1 ELSE at - 1) = to
    BY <1>2, <2>2
  <2> QED
    BY <1>2, <1>5, <1>6, <2>3
<1> QED
  BY <1>6, <1>7

\* An item dropped before or after another lands beside it on that side.
THEOREM DropsLand == Spec => []DropLandsBesideTarget
<1>1. TypeOK /\ Kept => DropLandsBesideTarget
  <2> SUFFICES ASSUME TypeOK, Kept, ~torn,
                      NEW i \in DOMAIN queue, NEW t \in DOMAIN queue, NEW after \in BOOLEAN, i # t
               PROVE  LET q == Move(queue, i, DropPosition(queue, i, t, after))
                          at == CHOOSE k \in DOMAIN q : q[k].id = queue[t].id
                          beside == IF after THEN at + 1 ELSE at - 1
                      IN  beside \in DOMAIN q /\ q[beside].id = queue[i].id
    BY DEF DropLandsBesideTarget
  <2>1. queue \in Seq(Item) /\ \A a, b \in DOMAIN queue : queue[a].id = queue[b].id => a = b
    BY DEF TypeOK, Kept, Unique
  <2> QED
    <3> DEFINE m == Move(queue, i, DropPosition(queue, i, t, after))
               at == CHOOSE k \in DOMAIN m : m[k].id = queue[t].id
    <3>1. /\ \E k \in DOMAIN m : m[k].id = queue[t].id
          /\ \A k \in DOMAIN m : m[k].id = queue[t].id =>
               LET beside == IF after THEN k + 1 ELSE k - 1
               IN  beside \in DOMAIN m /\ m[beside].id = queue[i].id
      <4> HIDE DEF m
      <4>1. m = Move(queue, i, DropPosition(queue, i, t, after))
        BY DEF m
      <4> QED
        BY <2>1, <4>1, DropBeside
    <3>2. at \in DOMAIN m /\ m[at].id = queue[t].id
      BY <3>1
    <3> HIDE DEF m, at
    <3>3. LET beside == IF after THEN at + 1 ELSE at - 1
          IN  beside \in DOMAIN m /\ m[beside].id = queue[i].id
      BY <3>1, <3>2
    <3> QED
      BY <3>3 DEF m, at
<1> QED
  BY <1>1, Invariance, PTL

-----------------------------------------------------------------------------
(* Whose turn it is.                                                       *)

\* The item at a position that takeNext may pick has the highest priority.
LEMMA NextOutranks ==
  ASSUME NEW q \in Seq(Item), q # <<>>, NEW shuffle, NEW k \in NextPositions(shuffle, q)
  PROVE  k \in DOMAIN q /\ \A j \in DOMAIN q : q[j].prio <= q[k].prio
<1> DEFINE High(i) == /\ q[i].prio > 0
                      /\ \A j \in DOMAIN q : \/ q[j].prio < q[i].prio
                                             \/ q[j].prio = q[i].prio /\ i <= j
           prioritised == {i \in DOMAIN q : High(i)}
<1>1. k \in DOMAIN q
  BY NextPositionsPending
<1>2. \A i \in DOMAIN q : q[i].prio \in Nat
  BY ItemFields
<1>3. CASE prioritised # {}
  <2>1. k \in prioritised
    BY <1>3 DEF NextPositions
  <2> QED
    BY <1>1, <1>2, <2>1
<1>4. CASE prioritised = {}
  <2>1. PICK top \in {0} \cup {q[i].prio : i \in DOMAIN q} : \A i \in DOMAIN q : q[i].prio <= top
    BY TopPriority
  <2>2. ASSUME top # 0
        PROVE  FALSE
    <3> DEFINE P == {i \in DOMAIN q : q[i].prio = top}
    <3>1. DOMAIN q = 1..Len(q) /\ Len(q) \in Nat
      BY LenProperties
    <3>2. P # {} /\ P \in SUBSET Nat
      BY <2>1, <2>2, <3>1
    <3>3. IsFiniteSet(P)
      BY <3>1, UpTo, FS_Subset
    <3>4. Cardinality(P) \in Nat /\ Cardinality(P) # 0
      BY <3>2, <3>3, FS_CardinalityType, FS_EmptySet
    <3>5. PICK i \in P : Rank(P, i) = 1
      <4>1. 1 \in 1..Cardinality(P)
        BY <3>4
      <4> HIDE DEF P
      <4> QED
        BY <3>2, <3>3, <4>1, RankOnto
    <3>6. \A j \in P : i <= j
      <4> SUFFICES ASSUME NEW j \in P, j < i PROVE FALSE
        BY <3>2
      <4> HIDE DEF P
      <4>1. Rank(P, j) < Rank(P, i) /\ Rank(P, j) \in 1..Cardinality(P)
        BY <3>2, <3>3, RankMonotonic, RankType
      <4> QED
        BY <3>4, <3>5, <4>1
    <3>7. i \in DOMAIN q /\ q[i].prio = top /\ top \in Nat
      BY <1>2, <2>1
    <3>8. High(i)
      BY <1>2, <2>1, <2>2, <3>6, <3>7
    <3> QED
      BY <1>4, <3>7, <3>8
  <2> QED
    BY <1>1, <1>2, <2>1, <2>2
<1> QED
  BY <1>3, <1>4

\* What a step does that starts the item at k of q: nothing but it is missing,
\* and nothing that stays outranks it.
LEMMA Started ==
  ASSUME NEW q \in Seq(Item), q # <<>>, NEW shuffle, NEW k \in NextPositions(shuffle, q)
  PROVE  /\ Ids(q) \subseteq Ids(Rest(q, k)) \cup {q[k].id}
         /\ \A j \in DOMAIN Rest(q, k) : Rest(q, k)[j].prio <= q[k].prio
<1> DEFINE r == Rest(q, k)
<1>1. k \in DOMAIN q /\ \A j \in DOMAIN q : q[j].prio <= q[k].prio
  BY NextOutranks
<1>2. DOMAIN q = 1..Len(q) /\ Len(q) \in Nat
  BY LenProperties
<1>3. /\ DOMAIN r = 1..(Len(q) - 1)
      /\ \A i \in 1..(Len(q) - 1) : r[i] = IF i < k THEN q[i] ELSE q[i + 1]
  BY <1>1, RestItems, LenProperties
<1> HIDE DEF r
<1>4. \A j \in DOMAIN r : r[j].prio <= q[k].prio
  BY <1>1, <1>2, <1>3
<1>5. ASSUME NEW i \in DOMAIN q
      PROVE  q[i].id \in Ids(r) \cup {q[k].id}
  <2>1. CASE i < k
    <3>1. i \in DOMAIN r /\ r[i] = q[i]
      BY <1>1, <1>2, <1>3, <2>1
    <3> QED
      BY <3>1 DEF Ids
  <2>2. CASE i > k
    <3>1. i - 1 \in DOMAIN r /\ r[i - 1] = q[i]
      BY <1>1, <1>2, <1>3, <2>2
    <3> QED
      BY <3>1 DEF Ids
  <2> QED
    BY <1>1, <1>2, <2>1, <2>2
<1>6. Ids(q) \subseteq Ids(r) \cup {q[k].id}
  BY <1>5 DEF Ids
<1> QED
  BY <1>4, <1>6 DEF r

\* A step that starts nothing, and neither changes the state nor adds songs,
\* or leaves the queue alone, takes nobody's turn.
LEMMA NobodyStarts ==
  ASSUME (state' = state /\ nextId' = nextId) \/ queue' = queue,
         state'.item \in {state.item, 0},
         0 \notin Ids(queue)
  PROVE  NoneLost /\ NoneOvertaken
BY DEF NoneLost, NoneOvertaken
\* Rearranging the queue and changing the playback state start nothing.
LEMMA RearrangeInTurn ==
  ASSUME TypeOK, Kept, NEW q, NEW o, Rearrange(q, o), ~torn'
  PROVE  NoneLost /\ NoneOvertaken
<1>1. state' = state /\ nextId' = nextId
  BY DEF Rearrange
<1> QED
  BY <1>1 DEF NoneLost, NoneOvertaken

LEMMA CancelledGrows ==
  ASSUME TypeOK, NEW o, NEW songs, NEW d, Commit(o, songs, d), ~torn'
  PROVE  ~torn /\ o \in {"ok", "fail"}
BY DEF Commit, TypeOK, torn, Outcomes

LEMMA MutateStateInTurn ==
  ASSUME TypeOK, Kept, NEW s \in State, s.item \in {state.item, 0},
         NEW o, MutateState(o, s), ~torn'
  PROVE  NoneLost /\ NoneOvertaken
<1> DEFINE next == [s EXCEPT !.version = @ + 1]
<1>1. next.item = s.item
  BY DEF State
<1>2. Upsert(o, next) /\ AdoptState(o, next) /\ queue' = queue
  BY DEF MutateState
<1>3. state' = next \/ state' = state
  BY <1>2 DEF AdoptState
<1> HIDE DEF next
<1>4. ~torn
  BY <1>2, CancelledGrows DEF Upsert
<1>5. 0 \notin Ids(queue)
  BY <1>4 DEF Kept, Unique, Ids
<1> QED
  BY <1>1, <1>2, <1>3, <1>5, NobodyStarts

\* The pending items of q, the old ones and the new, of which the next starts.
LEMMA StartInTurn ==
  ASSUME TypeOK, Kept, NEW q \in Seq(Item), q # <<>>, NEW shuffle,
         NEW k \in NextPositions(shuffle, q), NEW h, NEW o,
         CommitRoomState(o, Rest(q, k), Play(state, q[k]), h),
         AdoptQueue(o, Rest(q, k)), AdoptState(o, Play(state, q[k])), ~torn',
         \A i \in Ids(queue) \cup (nextId + 1)..nextId' :
           \/ i \in Ids(q)
           \/ \E j \in DOMAIN queue : queue[j].id = i /\ queue[j].music \in deleted,
         ~torn => \A i, j \in DOMAIN q : q[i].id = q[j].id => i = j,
         \A i \in DOMAIN queue :
           (\E j \in DOMAIN q : q[j].id = queue[i].id) =>
              \E j \in DOMAIN q : q[j].id = queue[i].id /\ q[j].prio = queue[i].prio
  PROVE  NoneLost /\ NoneOvertaken
<1>1. ~torn /\ o \in {"ok", "fail"}
  BY CancelledGrows DEF CommitRoomState
<1>2. 0 \notin Ids(queue)
  BY <1>1 DEF Kept, Unique, Ids
<1>3. CASE o = "fail"
  <2>1. queue' = queue /\ state' = state
    BY <1>3 DEF AdoptQueue, AdoptState
  <2> QED
    BY <1>2, <2>1, NobodyStarts
<1>4. CASE o = "ok"
  <2>1. queue' = Rest(q, k) /\ state' = Play(state, q[k])
    BY <1>4 DEF AdoptQueue, AdoptState
  <2>2. state'.item = q[k].id /\ k \in DOMAIN q
    <3>1. Play(state, q[k]).item = q[k].id
      BY DEF Play, State, TypeOK
    <3> QED
      BY <2>1, <3>1, NextOutranks
  <2>3. /\ Ids(q) \subseteq Ids(queue') \cup {state'.item}
        /\ \A j \in DOMAIN queue' : queue'[j].prio <= q[k].prio
    BY <2>1, <2>2, Started
  <2>4. NoneLost
    BY <2>3 DEF NoneLost
  <2>5. ASSUME NEW i \in DOMAIN queue, queue[i].id = state'.item
        PROVE  \A j \in DOMAIN queue' : queue'[j].prio <= queue[i].prio
    <3>1. \E j \in DOMAIN q : q[j].id = queue[i].id
      BY <2>2, <2>5
    <3>2. PICK j \in DOMAIN q : q[j].id = queue[i].id /\ q[j].prio = queue[i].prio
      BY <3>1
    <3>3. j = k
      BY <1>1, <2>2, <2>5, <3>2
    <3> QED
      BY <2>3, <3>2, <3>3
  <2> QED
    BY <2>4, <2>5 DEF NoneOvertaken
<1> QED
  BY <1>1, <1>3, <1>4

LEMMA AdvanceInTurn ==
  ASSUME TypeOK, Kept, NEW o, Advance(o), ~torn'
  PROVE  NoneLost /\ NoneOvertaken
<1> DEFINE played == IF state.current = None THEN <<>>
                     ELSE <<[music |-> state.current, by |-> state.by]>>
           Step(q, s) == /\ CommitRoomState(o, q, s, played)
                         /\ AdoptQueue(o, q)
                         /\ AdoptState(o, s)
<1>1. queue \in Seq(Item) /\ nextId' = nextId /\ nextId \in Nat
  BY DEF TypeOK, Advance
<1>2. ASSUME queue = <<>>, Step(<<>>, Stop(state))
      PROVE  NoneLost /\ NoneOvertaken
  <2>1. queue' = queue /\ state' \in {state, Stop(state)}
    BY <1>2 DEF AdoptQueue, AdoptState
  <2>2. Stop(state).item = 0
    BY DEF Stop, State, TypeOK
  <2>3. 0 \notin Ids(queue)
    <3>1. DOMAIN <<>> = {}
      OBVIOUS
    <3> QED
      BY <1>2, <3>1 DEF Ids
  <2> QED
    BY <2>1, <2>2, <2>3, NobodyStarts
<1>3. ASSUME queue # <<>>, NEW k \in NextPositions(state.shuffle, queue),
             Step(Rest(queue, k), Play(state, queue[k]))
      PROVE  NoneLost /\ NoneOvertaken
  <2>1. (nextId + 1)..nextId' = {}
    BY <1>1
  <2>2. ~torn => \A i, j \in DOMAIN queue : queue[i].id = queue[j].id => i = j
    BY DEF Kept, Unique
  <2> HIDE DEF played
  <2> QED
    BY <1>1, <1>3, <2>1, <2>2, StartInTurn
<1> QED
  BY <1>2, <1>3 DEF Advance

LEMMA EnqueueInTurn ==
  ASSUME TypeOK, Kept, NEW u \in Users, NEW n \in 1..MaxBatch, NEW ms \in [1..n -> Tracks],
         NEW o, Enqueue(u, ms, o), ~torn'
  PROVE  NoneLost /\ NoneOvertaken
<1> DEFINE items == [i \in 1..Len(ms) |->
                       [id |-> nextId + i, music |-> ms[i], by |-> u, prio |-> 0]]
           next == queue \o items
           l == Len(queue)
<1>1. ms \in Seq(Tracks) /\ Len(ms) = n /\ n \in Nat /\ n > 0
  BY SeqDef, LenProperties, ConstantsAssumption
<1>2. \A i \in 1..Len(ms) :
        [id |-> nextId + i, music |-> ms[i], by |-> u, prio |-> 0] \in Item
  BY <1>1 DEF TypeOK, Item
<1>3. items \in Seq(Item) /\ Len(items) = n
  <2>1. items \in [1..n -> Item]
    BY <1>1, <1>2
  <2> HIDE DEF items
  <2> QED
    BY <1>1, <2>1, SeqDef, LenProperties
<1>4. \A i \in 1..n : items[i].id = nextId + i /\ items[i].by = u
  BY <1>1
<1> HIDE DEF items
<1>5. /\ next \in Seq(Item)
      /\ ~torn => Unique(next, state.item, nextId + n)
  BY <1>1, <1>3, <1>4, AppendKept
<1>6. queue \in Seq(Item) /\ l \in Nat /\ DOMAIN queue = 1..l /\ nextId \in Nat
  BY LenProperties DEF TypeOK
<1>7. /\ Len(next) = l + n
      /\ \A i \in 1..(l + n) : next[i] = IF i <= l THEN queue[i] ELSE items[i - l]
  BY <1>3, <1>6, ConcatProperties
<1>8. DOMAIN next = 1..(l + n)
  BY <1>5, <1>7, LenProperties
<1>9. next # <<>>
  <2>1. Len(next) # 0
    BY <1>1, <1>6, <1>7
  <2> QED
    BY <2>1, EmptySeq
<1> HIDE DEF next, l
<1>10. \A i \in DOMAIN queue : i \in DOMAIN next /\ next[i] = queue[i]
  BY <1>1, <1>6, <1>7, <1>8
<1>11. \A i \in 1..n : l + i \in DOMAIN next /\ next[l + i].id = nextId + i
  <2> TAKE i \in 1..n
  <2>1. l + i \in 1..(l + n) /\ ~(l + i <= l) /\ (l + i) - l = i
    BY <1>1, <1>6
  <2> QED
    BY <1>4, <1>7, <1>8, <2>1
<1>12. nextId' = nextId + n
  BY <1>1 DEF Enqueue
<1>13. Ids(queue) \cup (nextId + 1)..nextId' \subseteq Ids(next)
  <2>1. Ids(queue) \subseteq Ids(next)
    BY <1>10 DEF Ids
  <2>2. ASSUME NEW x \in (nextId + 1)..nextId'
        PROVE  x \in Ids(next)
    <3>1. x - nextId \in 1..n /\ nextId + (x - nextId) = x
      BY <1>1, <1>6, <1>12
    <3> QED
      BY <1>11, <3>1 DEF Ids
  <2> QED
    BY <2>1, <2>2
<1>14. CASE SynchronizeQueue(o, next) /\ AdoptQueue(o, next) /\ UNCHANGED state
  <2>1. queue' = next \/ queue' = queue
    BY <1>14 DEF AdoptQueue
  <2>2. NoneLost
    BY <1>13, <2>1 DEF NoneLost
  <2> QED
    BY <1>14, <2>2 DEF NoneOvertaken
<1>15. ASSUME NEW k \in NextPositions(state.shuffle, next),
              CommitRoomState(o, Rest(next, k), Play(state, next[k]), <<>>),
              AdoptQueue(o, Rest(next, k)), AdoptState(o, Play(state, next[k]))
       PROVE  NoneLost /\ NoneOvertaken
  <2>1. ~torn => \A i, j \in DOMAIN next : next[i].id = next[j].id => i = j
    BY <1>5 DEF Unique
  <2>2. \A i \in DOMAIN queue :
          \E j \in DOMAIN next : next[j].id = queue[i].id /\ next[j].prio = queue[i].prio
    BY <1>10
  <2> QED
    BY <1>5, <1>9, <1>13, <1>15, <2>1, <2>2, StartInTurn
<1> QED
  BY <1>14, <1>15 DEF Enqueue, next, items

LEMMA QueueCommandInTurn ==
  ASSUME TypeOK, Kept, NEW o, QueueCommand(o), ~torn'
  PROVE  NoneLost /\ NoneOvertaken
<1>1. CASE \E u \in Users, n \in 1..MaxBatch : \E ms \in [1..n -> Tracks] : Enqueue(u, ms, o)
  BY <1>1, EnqueueInTurn
<1>2. CASE \E q : Rearrange(q, o)
  BY <1>2, RearrangeInTurn
<1> QED
  BY <1>1, <1>2 DEF QueueCommand, RemoveItems, Top, Reorder, ReorderByID, Clear

LEMMA PlaybackCommandInTurn ==
  ASSUME TypeOK, Kept, NEW o, PlaybackCommand(o), ~torn'
  PROVE  NoneLost /\ NoneOvertaken
<1>0. state \in State /\ state.likes \in SUBSET Users /\ state.markers \in Nat
  BY StateFields DEF TypeOK
<1>1. ASSUME Advance(o)
      PROVE  NoneLost /\ NoneOvertaken
  BY <1>1, AdvanceInTurn
<1>2. CASE TogglePause(o)
  <2> DEFINE s == [state EXCEPT !.paused = ~@]
  <2>1. s \in State /\ s.item = state.item
    BY <1>0, StateFields DEF State
  <2>2. Advance(o) \/ MutateState(o, s)
    BY <1>2 DEF TogglePause
  <2> HIDE DEF s
  <2> QED
    BY <1>1, <2>1, <2>2, MutateStateInTurn
<1>3. CASE ToggleShuffle(o)
  <2> DEFINE s == [state EXCEPT !.shuffle = ~@]
  <2>1. s \in State /\ s.item = state.item
    BY <1>0, StateFields DEF State
  <2>2. MutateState(o, s)
    BY <1>3 DEF ToggleShuffle
  <2> HIDE DEF s
  <2> QED
    BY <2>1, <2>2, MutateStateInTurn
<1>4. ASSUME NEW u \in Users, NEW admin \in BOOLEAN, Seek(u, admin, o)
      PROVE  NoneLost /\ NoneOvertaken
  <2> DEFINE s == [state EXCEPT !.epoch = @ + 1]
  <2>1. s \in State /\ s.item = state.item
    BY <1>0, StateFields DEF State
  <2>2. MutateState(o, s)
    BY <1>4 DEF Seek
  <2> HIDE DEF s
  <2> QED
    BY <2>1, <2>2, MutateStateInTurn
<1>5. CASE Previous(o)
  <2> DEFINE s == [state EXCEPT !.current = history[skipped + 1].music,
                                !.by = history[skipped + 1].by,
                                !.item = 0, !.paused = FALSE, !.likes = {},
                                !.markers = 0, !.epoch = @ + 1]
  <2>1. s \in State /\ s.item = 0
    BY <1>0, <1>5, PreviousState DEF State
  <2>2. MutateState(o, s)
    BY <1>5 DEF Previous
  <2> HIDE DEF s
  <2> QED
    BY <2>1, <2>2, MutateStateInTurn
<1>6. ASSUME UNCHANGED <<mem, nextId>>
      PROVE  NoneLost /\ NoneOvertaken
  BY <1>6 DEF NoneLost, NoneOvertaken, mem
<1>7. ASSUME NEW u \in Users, NEW listed, Like(u, listed, o)
      PROVE  NoneLost /\ NoneOvertaken
  <2> DEFINE s == [state EXCEPT !.likes = @ \cup {u}, !.markers = @ + 1]
  <2>1. state.likes \cup {u} \in SUBSET Users /\ state.markers + 1 \in Nat
    BY <1>0
  <2>2. s \in State /\ s.item = state.item
    BY <1>0, <2>1, StateFields, Zenon DEF State
  <2>3. MutateState(o, s) \/ UNCHANGED <<mem, nextId>>
    BY <1>7 DEF Like
  <2> HIDE DEF s
  <2> QED
    BY <1>6, <2>2, <2>3, MutateStateInTurn
<1>8. ASSUME NEW u \in Users, NEW listed, Unlike(u, listed, o)
      PROVE  NoneLost /\ NoneOvertaken
  <2> DEFINE left == IF state.markers > 0 THEN state.markers - 1 ELSE 0
             s == [state EXCEPT !.likes = @ \ {u}, !.markers = IF @ > 0 THEN @ - 1 ELSE 0]
             t == [state EXCEPT !.likes = state.likes \ {u}, !.markers = left]
  <2>1. state.likes \ {u} \in SUBSET Users /\ left \in Nat
    BY <1>0
  <2>2. s = t
    OBVIOUS
  <2>3. MutateState(o, s) \/ UNCHANGED <<mem, nextId>>
    BY <1>8 DEF Unlike
  <2> HIDE DEF left, s
  <2>4. t \in State /\ t.item = state.item
    BY <1>0, <2>1, StateFields, Zenon DEF State
  <2> HIDE DEF t
  <2> QED
    BY <1>6, <2>2, <2>3, <2>4, MutateStateInTurn
<1>9. \A u \in Likers : u \in Users
  BY ConstantsAssumption
<1> QED
  BY <1>1, <1>2, <1>3, <1>4, <1>5, <1>7, <1>8, <1>9 DEF PlaybackCommand, NextSong, Tick

\* The hook replaces a deleted track by the next of the rows, which are what
\* memory holds without the deleted tracks.
LEMMA ReloadInTurn ==
  ASSUME TypeOK, Kept, ~torn => Agree, NEW t \in LocalTracks, NEW o, ReloadQueue(t, o), ~torn'
  PROVE  NoneLost /\ NoneOvertaken
<1> DEFINE Drop(q, s) == /\ CommitRoomState(o, q, s, <<>>)
                         /\ AdoptQueue(o, q)
                         /\ AdoptState(o, s)
<1>1. queue \in Seq(Item) /\ disk.queue \in Seq(Item) /\ nextId' = nextId /\ nextId \in Nat
  BY DEF TypeOK, Disk, ReloadQueue
<1>2. CASE UNCHANGED <<state, disk, cancelled>>
  BY <1>1, <1>2 DEF NoneLost, NoneOvertaken
<1>3. ASSUME ~torn
      PROVE  /\ 0 \notin Ids(queue)
             /\ \A i, j \in DOMAIN queue : queue[i].id = queue[j].id => i = j
             /\ \A i, j \in DOMAIN disk.queue : disk.queue[i].id = disk.queue[j].id => i = j
             /\ \A i \in DOMAIN queue : queue[i].music \in deleted
                  \/ \E j \in DOMAIN disk.queue : disk.queue[j] = queue[i]
             /\ \A j \in DOMAIN disk.queue : \E i \in DOMAIN queue : disk.queue[j] = queue[i]
  <2>1. /\ 0 \notin Ids(queue)
        /\ \A i, j \in DOMAIN queue : queue[i].id = queue[j].id => i = j
        /\ \A i, j \in DOMAIN disk.queue : disk.queue[i].id = disk.queue[j].id => i = j
    BY <1>3 DEF Kept, Unique, Ids
  <2> DEFINE K == {i \in DOMAIN queue : queue[i].music \notin deleted}
  <2>2. disk.queue = Select(queue, K) /\ K \in SUBSET DOMAIN queue
    BY <1>3 DEF Agree, Keep
  <2>3. \A i \in DOMAIN queue : i \in K \/ queue[i].music \in deleted
    OBVIOUS
  <2> HIDE DEF K
  <2>4. DOMAIN disk.queue = 1..Cardinality(K)
    BY <1>1, <2>2, SelectKeeps, LenProperties
  <2>5. \A i \in K : \E j \in DOMAIN disk.queue : disk.queue[j] = queue[i]
    BY <1>1, <2>2, <2>4, SelectAt
  <2>6. \A j \in DOMAIN disk.queue : \E i \in DOMAIN queue : disk.queue[j] = queue[i]
    BY <1>1, <2>2, <2>4, SelectKeeps
  <2> QED
    BY <2>1, <2>3, <2>5, <2>6
<1>4. ASSUME disk.queue = <<>>, Drop(<<>>, Stop(state))
      PROVE  NoneLost /\ NoneOvertaken
  <2>1. ~torn
    BY <1>4, CancelledGrows DEF CommitRoomState
  <2>2. queue' \in {queue, <<>>} /\ state' \in {state, Stop(state)}
    BY <1>4 DEF AdoptQueue, AdoptState
  <2>3. Stop(state).item = 0
    BY DEF Stop, State, TypeOK
  <2>4. NoneOvertaken
    BY <1>3, <2>1, <2>2, <2>3 DEF NoneOvertaken
  <2>5. \A i \in DOMAIN queue : queue[i].music \in deleted
    <3>1. DOMAIN disk.queue = {}
      BY <1>4
    <3> QED
      BY <1>3, <2>1, <3>1
  <2>6. (nextId + 1)..nextId' = {}
    BY <1>1
  <2>7. NoneLost
    BY <2>5, <2>6 DEF NoneLost, Ids
  <2> QED
    BY <2>4, <2>7
<1>5. ASSUME disk.queue # <<>>, NEW k \in NextPositions(FALSE, disk.queue),
             Drop(Rest(disk.queue, k), Play(state, disk.queue[k]))
      PROVE  NoneLost /\ NoneOvertaken
  <2>1. ~torn
    BY <1>5, CancelledGrows DEF CommitRoomState
  <2>2. (nextId + 1)..nextId' = {}
    BY <1>1
  <2>3. \A i \in Ids(queue) :
          \/ i \in Ids(disk.queue)
          \/ \E j \in DOMAIN queue : queue[j].id = i /\ queue[j].music \in deleted
    <3> SUFFICES ASSUME NEW j \in DOMAIN queue
                 PROVE  \/ queue[j].id \in Ids(disk.queue)
                        \/ queue[j].music \in deleted
      BY DEF Ids
    <3> QED
      BY <1>3, <2>1 DEF Ids
  <2>4. ASSUME NEW i \in DOMAIN queue, NEW j \in DOMAIN disk.queue, disk.queue[j].id = queue[i].id
        PROVE  disk.queue[j].prio = queue[i].prio
    <3>1. PICK l \in DOMAIN queue : disk.queue[j] = queue[l]
      BY <1>3, <2>1
    <3>2. l = i
      BY <1>3, <2>1, <2>4, <3>1
    <3> QED
      BY <3>1, <3>2
  <2>5. ~torn => \A i, j \in DOMAIN disk.queue : disk.queue[i].id = disk.queue[j].id => i = j
    BY <1>3
  <2> QED
    BY <1>1, <1>5, <2>2, <2>3, <2>4, <2>5, StartInTurn
<1> QED
  BY <1>2, <1>4, <1>5 DEF ReloadQueue

LEMMA InTurn ==
  ASSUME TypeOK, Kept, MemoryMatchesDisk, [Next]_vars, loaded, loaded', ~torn'
  PROVE  NoneLost /\ NoneOvertaken
<1>1. ASSUME NEW o \in Outcomes, QueueCommand(o) \/ PlaybackCommand(o)
      PROVE  NoneLost /\ NoneOvertaken
  BY <1>1, QueueCommandInTurn, PlaybackCommandInTurn
<1>2. ASSUME NEW t \in LocalTracks, NEW o, ReloadQueue(t, o)
      PROVE  NoneLost /\ NoneOvertaken
  <2>1. ~torn => Agree
    BY Agreement
  <2> QED
    BY <1>2, <2>1, ReloadInTurn
<1>3. ASSUME UNCHANGED <<mem, nextId>>
      PROVE  NoneLost /\ NoneOvertaken
  BY <1>3 DEF NoneLost, NoneOvertaken, mem
<1>4. CASE \/ Unload
           \/ UNCHANGED vars
           \/ \E t \in LocalTracks : DeleteTrack(t) \/ SkipReload(t)
  BY <1>3, <1>4 DEF Unload, DeleteTrack, SkipReload, vars, mem
<1>5. ASSUME NEW readable, Load(readable)
      PROVE  FALSE
  BY <1>5 DEF Load
<1> QED
  BY <1>1, <1>2, <1>4, <1>5 DEF Next, Answer

\* A step that changes what plays, or adds songs, loses none, and the song that
\* starts is one that no pending song outranks.
THEOREM TurnsAreKept == Spec => SongsLeaveInTurn
<1>1. TypeOK /\ Kept /\ MemoryMatchesDisk /\ [Next]_vars
        => [loaded /\ loaded' /\ ~torn' => NoneLost /\ NoneOvertaken]_vars
  BY InTurn
<1> QED
  BY <1>1, Invariance, RowsAreMemory, PTL DEF Spec, SongsLeaveInTurn

=============================================================================
