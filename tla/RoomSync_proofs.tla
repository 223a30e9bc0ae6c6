--------------------------- MODULE RoomSync_proofs ---------------------------
(***************************************************************************)
(* Proofs about what reaches one member's browser: every message and store *)
(* keeps its type; the page never goes back to an older playback state or  *)
(* runtime; and when nothing is on its way it shows the room as it is.     *)
(* The second rests on what is on its way to the page: in one connection   *)
(* no state that waits anywhere is older than what is shown, unless the    *)
(* gate, which has not been reset since, refuses it.  The third rests on   *)
(* what every message says being true of the room (Truthful), and on where *)
(* the newest state is until the page has it (Reaching).                   *)
(***************************************************************************)
EXTENDS RoomSync, SequenceTheorems, WellFoundedInduction, TLAPS

-----------------------------------------------------------------------------
(* Queues stay queues.                                                     *)

LEMMA PositionOf ==
  ASSUME NEW q, NEW s, Has(q, s)
  PROVE  Position(q, s) \in DOMAIN q /\ q[Position(q, s)] = s
BY DEF Has, Position

\* Deleting a position leaves the others, in their order.
LEMMA RemoveItems ==
  ASSUME NEW q \in Queue, NEW k \in DOMAIN q
  PROVE  /\ RemoveAt(q, k) \in Queue
         /\ Len(RemoveAt(q, k)) = Len(q) - 1
         /\ \A i \in 1..(Len(q) - 1) : RemoveAt(q, k)[i] = IF i < k THEN q[i] ELSE q[i + 1]
<1> DEFINE before == SubSeq(q, 1, k - 1)
           behind == SubSeq(q, k + 1, Len(q))
<1>1. k \in 1..Len(q) /\ Len(q) \in Nat /\ \A i \in 1..Len(q) : q[i] \in Songs
  BY LenProperties, ElementOfSeq DEF Queue
<1>2. before \in Queue /\ Len(before) = k - 1 /\ \A i \in 1..(k - 1) : before[i] = q[i]
  BY <1>1, SubSeqProperties DEF Queue
<1>3. behind \in Queue /\ Len(behind) = Len(q) - k
      /\ \A i \in 1..(Len(q) - k) : behind[i] = q[k + i]
  <2>1. \A i \in 1..(Len(q) - (k + 1) + 1) : behind[i] = q[(k + 1) + i - 1]
    BY <1>1, SubSeqProperties
  <2> QED
    BY <1>1, <2>1, SubSeqProperties DEF Queue
<1>4. RemoveAt(q, k) = before \o behind
  BY DEF RemoveAt
<1> HIDE DEF before, behind
<1>5. /\ before \o behind \in Queue
      /\ Len(before \o behind) = Len(before) + Len(behind)
      /\ \A i \in 1..(Len(before) + Len(behind)) :
           (before \o behind)[i] = IF i <= Len(before) THEN before[i] ELSE behind[i - Len(before)]
  BY <1>2, <1>3, ConcatProperties DEF Queue
<1>6. ASSUME NEW i \in 1..(Len(q) - 1)
      PROVE  (before \o behind)[i] = IF i < k THEN q[i] ELSE q[i + 1]
  <2>1. CASE i < k
    BY <1>1, <1>2, <1>3, <1>5, <2>1
  <2>2. CASE ~(i < k)
    <3>1. i - (k - 1) \in 1..(Len(q) - k)
      BY <1>1, <2>2
    <3>2. behind[i - (k - 1)] = q[k + (i - (k - 1))]
      BY <1>3, <3>1
    <3>3. k + (i - (k - 1)) = i + 1 /\ i \in 1..(Len(before) + Len(behind)) /\ ~(i <= Len(before))
      BY <1>1, <1>2, <1>3, <2>2
    <3>4. (before \o behind)[i] = behind[i - (k - 1)]
      BY <1>2, <1>5, <3>3
    <3> QED
      BY <2>2, <3>2, <3>3, <3>4
  <2> QED
    BY <2>1, <2>2
<1>7. Len(before) + Len(behind) = Len(q) - 1
  BY <1>1, <1>2, <1>3
<1> QED
  BY <1>4, <1>5, <1>6, <1>7

LEMMA WithoutType ==
  ASSUME NEW q \in Queue, NEW s
  PROVE  /\ Without(q, s) \in Queue
         /\ \A t : t # s /\ Has(q, t) => Has(Without(q, s), t)
<1>1. CASE ~Has(q, s)
  BY <1>1 DEF Without
<1>2. CASE Has(q, s)
  <2> DEFINE k == Position(q, s)
             r == RemoveAt(q, k)
  <2>1. k \in DOMAIN q /\ q[k] = s
    BY <1>2, PositionOf
  <2>2. DOMAIN q = 1..Len(q) /\ Len(q) \in Nat
    BY LenProperties DEF Queue
  <2>3. /\ r \in Queue /\ DOMAIN r = 1..(Len(q) - 1)
        /\ \A i \in 1..(Len(q) - 1) : r[i] = IF i < k THEN q[i] ELSE q[i + 1]
    BY <2>1, RemoveItems, LenProperties DEF Queue
  <2>4. Without(q, s) = r
    BY <1>2 DEF Without
  <2> HIDE DEF k, r
  <2>5. ASSUME NEW t, t # s, NEW i \in DOMAIN q, q[i] = t
        PROVE  \E j \in DOMAIN r : r[j] = t
    <3>1. CASE i < k
      <4>1. i \in 1..(Len(q) - 1)
        BY <2>1, <2>2, <3>1
      <4> QED
        BY <2>3, <2>5, <3>1, <4>1
    <3>2. CASE ~(i < k)
      <4>1. i - 1 \in 1..(Len(q) - 1) /\ ~(i - 1 < k) /\ (i - 1) + 1 = i
        BY <2>1, <2>2, <2>5, <3>2
      <4>2. r[i - 1] = t
        BY <2>3, <2>5, <4>1
      <4> QED
        BY <2>3, <4>1, <4>2
    <3> QED
      BY <3>1, <3>2
  <2> QED
    BY <2>3, <2>4, <2>5 DEF Has
<1> QED
  BY <1>1, <1>2

LEMMA PlaceType ==
  ASSUME NEW q \in Queue, NEW s \in Songs, NEW t, s # t, Has(q, t)
  PROVE  Place(q, s, t) \in Queue
<1> DEFINE r == Without(q, s)
           k == Position(r, t)
           before == SubSeq(r, 1, k - 1)
           behind == SubSeq(r, k, Len(r))
<1>1. r \in Queue /\ Has(r, t)
  BY WithoutType
<1> HIDE DEF r
<1>2. k \in 1..Len(r) /\ Len(r) \in Nat /\ \A i \in 1..Len(r) : r[i] \in Songs
  BY <1>1, PositionOf, LenProperties, ElementOfSeq DEF Queue
<1> HIDE DEF k
<1>3. before \in Queue /\ behind \in Queue
  BY <1>2, SubSeqProperties DEF Queue
<1>4. <<s>> \in Queue
  BY DEF Queue
<1>5. Place(q, s, t) = (before \o <<s>>) \o behind
  BY DEF Place, InsertAt, r, k
<1> HIDE DEF before, behind
<1> QED
  BY <1>3, <1>4, <1>5, ConcatProperties DEF Queue

LEMMA PatchedType ==
  ASSUME NEW q \in Queue, NEW d \in Patch, d.op # "snapshot"
  PROVE  Patched(q, d) \in Queue \cup {None}
<1>1. CASE d.op = "append"
  <2>1. d.song \in Songs
    BY <1>1 DEF Patch
  <2>2. Append(q, d.song) \in Queue
    BY <2>1, AppendProperties DEF Queue
  <2> QED
    BY <1>1, <2>2 DEF Patched
<1>2. CASE d.op = "remove"
  BY <1>2, WithoutType DEF Patched
<1>3. CASE d.op = "move"
  <2>1. d.song \in Songs /\ d.song # d.target
    BY <1>3 DEF Patch
  <2>2. Has(q, d.target) => Place(q, d.song, d.target) \in Queue
    BY <2>1, PlaceType
  <2>3. Patched(q, d) = IF Has(q, d.song) /\ Has(q, d.target) THEN Place(q, d.song, d.target) ELSE None
    BY <1>3 DEF Patched
  <2> QED
    BY <2>2, <2>3
<1>4. d.op \in {"append", "remove", "move"}
  BY DEF Patch
<1> QED
  BY <1>1, <1>2, <1>3, <1>4

-----------------------------------------------------------------------------
(* The stores of the page keep their types, and only a state from the      *)
(* server moves what tells how far it has come.                            *)

Marks(p) == <<p.epoch, p.sv, p.ts, p.shown, p.retired>>

LEMMA ReplaceKeeps ==
  ASSUME NEW p \in Page, NEW u, u.qv \in Nat, u.queue \in Queue
  PROVE  Replace(p, u) \in Page /\ Marks(Replace(p, u)) = Marks(p)
BY DEF Replace, Page, Marks

LEMMA SetQueueKeeps ==
  ASSUME NEW p \in Page, NEW u \in Update
  PROVE  SetQueue(p, u) \in Page /\ Marks(SetQueue(p, u)) = Marks(p)
<1>1. u.qv \in Nat /\ u.queue \in Queue
  BY DEF Update
<1>2. [p EXCEPT !.deferred = u] \in Page /\ Marks([p EXCEPT !.deferred = u]) = Marks(p)
  BY DEF Page, Marks
<1> QED
  BY <1>1, <1>2, ReplaceKeeps DEF SetQueue

LEMMA PatchFields ==
  ASSUME NEW d \in Patch
  PROVE  /\ d.type = "patch" /\ d.epoch \in 1..2 /\ d.qv \in Nat
         /\ d.op \in {"append", "remove", "snapshot", "move"}
         /\ d.op = "snapshot" => d.queue \in Queue
BY DEF Patch

LEMMA ApplyPatchKeeps ==
  ASSUME NEW p \in Page, NEW d \in Patch
  PROVE  /\ ApplyPatch(p, d) = [page |-> ApplyPatch(p, d).page, resync |-> ApplyPatch(p, d).resync]
         /\ ApplyPatch(p, d).page \in Page /\ ApplyPatch(p, d).resync \in BOOLEAN
         /\ Marks(ApplyPatch(p, d).page) = Marks(p)
<1> DEFINE u == [epoch |-> d.epoch, qv |-> d.qv, queue |-> d.queue]
           held == [p EXCEPT !.deferred = u]
           moved == [p EXCEPT !.queue = Patched(p.queue, d), !.qv = d.qv]
<1>1. /\ d.epoch \in 1..2 /\ d.qv \in Nat /\ p.queue \in Queue
      /\ d.op = "snapshot" => d.queue \in Queue
  BY PatchFields DEF Page
<1>2. d.op = "snapshot" => held \in Page /\ Marks(held) = Marks(p)
  BY <1>1 DEF Page, Marks, Update
<1>3. d.op = "snapshot" => Replace(p, d) \in Page /\ Marks(Replace(p, d)) = Marks(p)
  BY <1>1, ReplaceKeeps
<1>4. d.op # "snapshot" /\ Patched(p.queue, d) # None => Patched(p.queue, d) \in Queue
  BY <1>1, PatchedType
<1>5. d.op # "snapshot" /\ Patched(p.queue, d) # None => moved \in Page /\ Marks(moved) = Marks(p)
  <2> HIDE DEF moved
  <2> SUFFICES ASSUME d.op # "snapshot", Patched(p.queue, d) # None
               PROVE  moved \in Page /\ Marks(moved) = Marks(p)
    OBVIOUS
  <2> DEFINE q == Patched(p.queue, d)
  <2>1. q \in Queue
    BY <1>4
  <2>2. moved = [p EXCEPT !.queue = q, !.qv = d.qv]
    BY DEF moved
  <2> HIDE DEF q
  <2> QED
    BY <1>1, <2>1, <2>2 DEF Page, Marks
<1> DEFINE kept == [page |-> p, resync |-> FALSE]
           gap == [page |-> p, resync |-> TRUE]
<1> DEFINE r == ApplyPatch(p, d)
<1>6. \/ r = kept \/ r = gap
      \/ d.op = "snapshot" /\ r = [page |-> held, resync |-> FALSE]
      \/ d.op = "snapshot" /\ r = [page |-> Replace(p, d), resync |-> FALSE]
      \/ d.op # "snapshot" /\ Patched(p.queue, d) # None /\ r = [page |-> moved, resync |-> FALSE]
  BY DEF ApplyPatch
<1> HIDE DEF held, moved, r
<1>7. ASSUME NEW q \in Page, Marks(q) = Marks(p), NEW b \in BOOLEAN, r = [page |-> q, resync |-> b]
      PROVE  /\ r = [page |-> r.page, resync |-> r.resync]
             /\ r.page \in Page /\ r.resync \in BOOLEAN /\ Marks(r.page) = Marks(p)
  BY <1>7
<1>8. /\ r = [page |-> r.page, resync |-> r.resync]
      /\ r.page \in Page /\ r.resync \in BOOLEAN /\ Marks(r.page) = Marks(p)
  BY <1>2, <1>3, <1>5, <1>6, <1>7
<1> QED
  BY <1>8 DEF r

LEMMA ApplyDeferredKeeps ==
  ASSUME NEW p \in Page
  PROVE  ApplyDeferred(p) \in Page /\ Marks(ApplyDeferred(p)) = Marks(p)
<1>1. CASE p.deferred = None
  BY <1>1 DEF ApplyDeferred
<1>2. CASE p.deferred # None
  <2> DEFINE r == IF p.deferred.epoch = p.epoch THEN Replace(p, p.deferred) ELSE p
  <2>1. p.deferred \in Update
    BY <1>2 DEF Page
  <2>2. p.deferred.qv \in Nat /\ p.deferred.queue \in Queue
    BY <2>1 DEF Update
  <2>3. r \in Page /\ Marks(r) = Marks(p)
    BY <2>2, ReplaceKeeps
  <2>4. ApplyDeferred(p) = [r EXCEPT !.deferred = None]
    BY <1>2 DEF ApplyDeferred
  <2> HIDE DEF r
  <2> QED
    BY <2>3, <2>4 DEF Page, Marks
<1> QED
  BY <1>1, <1>2

LEMMA SettleKeeps ==
  ASSUME NEW p \in Page, NEW id
  PROVE  /\ SettleAck(p, id) \in Page /\ Marks(SettleAck(p, id)) = Marks(p)
         /\ SettleNack(p, id) \in Page /\ Marks(SettleNack(p, id)) = Marks(p)
<1> DEFINE settled == [p EXCEPT !.pending = @ \ {id}]
           refused == [p EXCEPT !.pending = @ \ {id}, !.deferred = None]
<1>1. settled \in Page /\ Marks(settled) = Marks(p)
  BY DEF Page, Marks
<1>2. refused \in Page /\ Marks(refused) = Marks(p)
  BY DEF Page, Marks
<1>3. SettleNack(p, id) \in {p, refused}
  BY DEF SettleNack
<1>4. SettleAck(p, id) \in {settled, ApplyDeferred(settled)}
  BY DEF SettleAck
<1> HIDE DEF settled, refused
<1>5. ApplyDeferred(settled) \in Page /\ Marks(ApplyDeferred(settled)) = Marks(p)
  BY <1>1, ApplyDeferredKeeps
<1> QED
  BY <1>1, <1>2, <1>3, <1>4, <1>5

\* A state starts a generation, is refused, or is shown.
LEMMA SyncStateKeeps ==
  ASSUME NEW p \in Page, NEW s \in State
  PROVE  /\ SyncState(p, s) \in Page
         /\ \/ SyncState(p, s) = p
            \/ /\ SyncState(p, s).epoch = s.epoch
               /\ SyncState(p, s).sv = s.sv /\ SyncState(p, s).shown = s.sv
               /\ s.epoch = p.epoch => s.sv >= p.sv
<1> DEFINE u == [epoch |-> s.epoch, qv |-> s.qv, queue |-> s.queue]
           g == Generation(p, s)
           h == [g EXCEPT !.sv = s.sv, !.ts = s.ts, !.shown = s.sv]
<1>1. /\ s.epoch \in 1..2 /\ s.sv \in Nat /\ s.ts \in Nat /\ s.qv \in Nat /\ s.queue \in Queue
      /\ u \in Update
  BY DEF State, Update
<1>2. g \in Page /\ g.epoch = s.epoch /\ (s.epoch = p.epoch => g = p)
      /\ (s.epoch # p.epoch => g.sv = 0 /\ g.ts = 0)
  <2>1. CASE s.epoch = p.epoch
    BY <2>1 DEF Generation
  <2>2. CASE s.epoch # p.epoch
    <3>1. <<>> \in Queue
      BY EmptySeq DEF Queue
    <3>2. p.retired \cup ({p.epoch} \ {0}) \in SUBSET (1..2)
      BY DEF Page
    <3> DEFINE left == p.retired \cup ({p.epoch} \ {0})
               new == [epoch |-> s.epoch, sv |-> 0, ts |-> 0, qv |-> 0, queue |-> <<>>, shown |-> p.shown,
                       retired |-> left, deferred |-> None, pending |-> {}]
    <3>3. g = [p EXCEPT !.retired = left, !.epoch = s.epoch, !.qv = 0, !.queue = <<>>,
                        !.deferred = None, !.pending = {}, !.sv = 0, !.ts = 0]
      BY <2>2 DEF Generation
    <3> HIDE DEF g, left
    <3>4. g = new
      BY <3>3 DEF Page
    <3>5. new \in Page
      BY <1>1, <3>1, <3>2 DEF Page, left
    <3> QED
      BY <2>2, <3>4, <3>5
  <2> QED
    BY <2>1, <2>2
<1> HIDE DEF g
<1>3. h \in Page /\ h.epoch = s.epoch /\ h.sv = s.sv /\ h.shown = s.sv
  BY <1>1, <1>2 DEF Page
<1>4. SyncState(p, s) = IF s.epoch \in p.retired THEN p
                        ELSE IF s.sv < g.sv \/ (s.sv = g.sv /\ s.ts < g.ts) THEN g
                        ELSE SetQueue(h, u)
  BY DEF SyncState, g
<1> HIDE DEF h, u
<1>5. /\ SetQueue(h, u) \in Page /\ SetQueue(h, u).epoch = s.epoch
      /\ SetQueue(h, u).sv = s.sv /\ SetQueue(h, u).shown = s.sv
  BY <1>1, <1>3, SetQueueKeeps DEF Marks
<1>6. g.sv \in Nat
  BY <1>2 DEF Page
<1>7. CASE s.epoch \in p.retired
  BY <1>4, <1>7
<1>8. CASE s.epoch \notin p.retired /\ (s.sv < g.sv \/ (s.sv = g.sv /\ s.ts < g.ts))
  BY <1>1, <1>2, <1>4, <1>8
<1>9. CASE s.epoch \notin p.retired /\ ~(s.sv < g.sv \/ (s.sv = g.sv /\ s.ts < g.ts))
  <2>1. SyncState(p, s) = SetQueue(h, u)
    BY <1>4, <1>9
  <2>2. s.sv >= g.sv
    BY <1>1, <1>6, <1>9
  <2> QED
    BY <1>2, <1>5, <2>1, <2>2
<1> QED
  BY <1>7, <1>8, <1>9

-----------------------------------------------------------------------------
(* The patches of one frame, one after the other.                          *)

LEMMA LeastNatural ==
  ASSUME NEW T, T \subseteq Nat, T # {}
  PROVE  \E n \in T : \A m \in T : n <= m
<1>1. IsWellFoundedOn(OpToRel(<, Nat), Nat)
  BY NatLessThanWellFounded
<1>2. PICK n \in T : \A m \in T : <<m, n>> \notin OpToRel(<, Nat)
  BY <1>1, WFMin
<1>3. \A i, j \in Nat : i < j => <<i, j>> \in OpToRel(<, Nat)
  BY DEF OpToRel
<1>4. ASSUME NEW m \in T PROVE n <= m
  <2>1. m \in Nat /\ n \in Nat
    OBVIOUS
  <2>2. ~(m < n)
    BY <1>2, <1>3, <2>1
  <2> QED
    BY <2>1, <2>2
<1> QED
  BY <1>4

\* What the first k patches make of the page, one entry after each.
Run(g, p, ds, k) ==
  /\ g = [i \in 0..k |-> g[i]]
  /\ g[0] = [page |-> p, resync |-> FALSE]
  /\ \A i \in 1..k : g[i] = Then(g[i - 1], ds[i])

LEMMA RunExists ==
  ASSUME NEW p, NEW ds, NEW n \in Nat
  PROVE  \E g : Run(g, p, ds, n)
<1> DEFINE T == {k \in Nat : ~ \E g : Run(g, p, ds, k)}
<1> SUFFICES ASSUME T # {} PROVE FALSE
  OBVIOUS
<1>1. PICK k \in T : \A m \in T : k <= m
  BY LeastNatural
<1>2. k # 0
  <2>1. Run([i \in 0..0 |-> [page |-> p, resync |-> FALSE]], p, ds, 0)
    BY DEF Run
  <2> QED
    BY <1>1, <2>1
<1>3. k \in Nat /\ k - 1 \in Nat /\ k - 1 < k
  BY <1>1, <1>2
<1>4. PICK g : Run(g, p, ds, k - 1)
  BY <1>1, <1>3
<1> DEFINE h == [i \in 0..k |-> IF i = k THEN Then(g[k - 1], ds[k]) ELSE g[i]]
<1>5. h = [i \in 0..k |-> h[i]]
  OBVIOUS
<1>6. h[0] = [page |-> p, resync |-> FALSE]
  <2>1. 0 \in 0..k /\ 0 # k
    BY <1>2, <1>3
  <2>2. g[0] = [page |-> p, resync |-> FALSE]
    BY <1>4 DEF Run
  <2> QED
    BY <2>1, <2>2
<1>7. ASSUME NEW i \in 1..k
      PROVE  h[i] = Then(h[i - 1], ds[i])
  <2>1. i - 1 \in 0..k /\ i - 1 # k /\ i \in 0..k
    BY <1>3
  <2>2. h[i - 1] = g[i - 1]
    BY <2>1
  <2>3. CASE i = k
    BY <2>1, <2>2, <2>3
  <2>4. CASE i # k
    <3>1. i \in 1..(k - 1)
      BY <1>3, <2>4
    <3>2. g[i] = Then(g[i - 1], ds[i])
      BY <1>4, <3>1 DEF Run
    <3> QED
      BY <2>1, <2>2, <2>4, <3>2
  <2> QED
    BY <2>3, <2>4
<1> HIDE DEF h
<1>8. Run(h, p, ds, k)
  BY <1>5, <1>6, <1>7 DEF Run
<1> QED
  BY <1>1, <1>8

LEMMA AppliedRun ==
  ASSUME NEW p, NEW ds, Len(ds) \in Nat
  PROVE  \E g : Run(g, p, ds, Len(ds)) /\ Applied(p, ds) = g[Len(ds)]
<1> DEFINE n == Len(ds)
           base == [page |-> p, resync |-> FALSE]
           Is(f) == f = [i \in 0..n |-> IF i = 0 THEN base ELSE Then(f[i - 1], ds[i])]
           after == CHOOSE f : Is(f)
<1>1. Applied(p, ds) = after[n]
  BY DEF Applied
<1>2. PICK g : Run(g, p, ds, n)
  BY RunExists
<1>3. Is(g)
  <2>1. g = [i \in 0..n |-> g[i]]
    BY <1>2 DEF Run
  <2>2. g[0] = base /\ \A i \in 1..n : g[i] = Then(g[i - 1], ds[i])
    BY <1>2 DEF Run
  <2>3. \A i \in 0..n : i # 0 => i \in 1..n
    OBVIOUS
  <2> HIDE DEF base
  <2>4. \A i \in 0..n : g[i] = IF i = 0 THEN base ELSE Then(g[i - 1], ds[i])
    BY <2>2, <2>3
  <2> HIDE DEF n
  <2> QED
    BY <2>1, <2>4
<1>4. Is(after)
  <2> HIDE DEF Is
  <2> QED
    BY <1>3
<1>5. Run(after, p, ds, n)
  <2> HIDE DEF after
  <2>1. after = [i \in 0..n |-> IF i = 0 THEN base ELSE Then(after[i - 1], ds[i])]
    BY <1>4
  <2>2. \A i \in 0..n : after[i] = IF i = 0 THEN base ELSE Then(after[i - 1], ds[i])
    BY <2>1
  <2>3. after = [i \in 0..n |-> after[i]]
    BY <2>1
  <2>4. 0 \in 0..n /\ \A i \in 1..n : i \in 0..n /\ i # 0
    OBVIOUS
  <2> QED
    BY <2>2, <2>3, <2>4 DEF Run
<1> HIDE DEF after, n
<1> QED
  BY <1>1, <1>5 DEF n

\* What holds before, and is kept by each patch, holds after all.
LEMMA AppliedKeeps ==
  ASSUME NEW p \in Page, NEW ds \in Seq(Patch)
  PROVE  /\ Applied(p, ds).page \in Page /\ Applied(p, ds).resync \in BOOLEAN
         /\ Marks(Applied(p, ds).page) = Marks(p)
<1> DEFINE n == Len(ds)
           Fine(a) == a.page \in Page /\ a.resync \in BOOLEAN /\ Marks(a.page) = Marks(p)
<1>1. n \in Nat /\ \A i \in 1..n : ds[i] \in Patch
  BY LenProperties, ElementOfSeq
<1>2. PICK g : Run(g, p, ds, n) /\ Applied(p, ds) = g[n]
  BY <1>1, AppliedRun
<1> DEFINE T == {k \in 0..n : ~Fine(g[k])}
<1>3. T = {}
  <2> SUFFICES ASSUME T # {} PROVE FALSE
    OBVIOUS
  <2>0. T \subseteq Nat
    BY <1>1
  <2>1. PICK k \in T : \A m \in T : k <= m
    <3> HIDE DEF T
    <3> QED
      BY <2>0, LeastNatural
  <2>2. Fine(g[0])
    <3>1. g[0] = [page |-> p, resync |-> FALSE]
      BY <1>2 DEF Run
    <3> QED
      BY <3>1
  <2>3. k \in 1..n /\ k - 1 \in 0..n /\ ~(k <= k - 1)
    BY <1>1, <2>1, <2>2
  <2>4. Fine(g[k - 1])
    BY <2>1, <2>3
  <2>5. g[k] = Then(g[k - 1], ds[k])
    BY <1>2, <2>3 DEF Run
  <2> DEFINE q == g[k - 1].page
             r == ApplyPatch(q, ds[k])
  <2>6. q \in Page /\ ds[k] \in Patch
    BY <1>1, <2>3, <2>4
  <2>7. g[k] = [page |-> r.page, resync |-> g[k - 1].resync \/ r.resync]
    BY <2>5 DEF Then
  <2>8. r.page \in Page /\ r.resync \in BOOLEAN /\ Marks(r.page) = Marks(q)
    BY <2>6, ApplyPatchKeeps
  <2> HIDE DEF q, r
  <2>9. g[k].page = r.page /\ g[k].resync \in BOOLEAN
    BY <2>7, <2>8
  <2>10. Fine(g[k])
    BY <2>4, <2>8, <2>9 DEF q
  <2> QED
    BY <2>1, <2>10
<1> QED
  BY <1>1, <1>2, <1>3

-----------------------------------------------------------------------------
(* The client's queue: what Send puts into it.                             *)

Message == State \cup Patch \cup Answer
Filled(box) == box \in Seq(Message) /\ Len(box) <= Capacity

\* Where the messages of a queue come from.
From(new, old, m) == \A i \in DOMAIN new : new[i] = m \/ \E j \in DOMAIN old : new[i] = old[j]

LEMMA SendFills ==
  ASSUME NEW box, Filled(box), NEW m \in Message, Send(box, m) # None
  PROVE  Filled(Send(box, m)) /\ From(Send(box, m), box, m)
<1> USE DEF Filled
<1>1. Len(box) \in Nat /\ DOMAIN box = 1..Len(box) /\ Capacity \in Nat
  BY LenProperties, SyncAssumption
<1>2. CASE box = None
  BY <1>2 DEF Send
<1>3. CASE box # None /\ m.type = "state" /\ States(box) # {}
  <2> DEFINE k == CHOOSE i \in States(box) : TRUE
  <2>1. k \in 1..Len(box)
    BY <1>1, <1>3 DEF States
  <2>2. Send(box, m) = [box EXCEPT ![k] = m]
    BY <1>3 DEF Send
  <2> HIDE DEF k
  <2>3. /\ [box EXCEPT ![k] = m] \in Seq(Message)
        /\ Len([box EXCEPT ![k] = m]) = Len(box)
        /\ \A j \in 1..Len(box) : [box EXCEPT ![k] = m][j] = IF j = k THEN m ELSE box[j]
    BY <2>1, ExceptSeq
  <2>4. DOMAIN [box EXCEPT ![k] = m] = DOMAIN box
    OBVIOUS
  <2> QED
    BY <1>1, <2>2, <2>3, <2>4 DEF From
<1>4. CASE box # None /\ ~(m.type = "state" /\ States(box) # {})
  <2>1. Send(box, m) = Append(box, m) /\ ~(Len(box) >= Capacity)
    BY <1>4 DEF Send
  <2>2. /\ Append(box, m) \in Seq(Message) /\ Len(Append(box, m)) = Len(box) + 1
        /\ DOMAIN Append(box, m) = 1..(Len(box) + 1)
        /\ \A i \in 1..Len(box) : Append(box, m)[i] = box[i]
        /\ Append(box, m)[Len(box) + 1] = m
    BY <1>1, AppendProperties, LenProperties
  <2>3. \A i \in 1..(Len(box) + 1) : i \in 1..Len(box) \/ i = Len(box) + 1
    BY <1>1
  <2>4. Len(box) + 1 <= Capacity
    BY <1>1, <2>1
  <2> QED
    BY <1>1, <2>1, <2>2, <2>3, <2>4 DEF From
<1> QED
  BY <1>2, <1>3, <1>4

\* What is sent is in the queue; unless it is a state, so is what was there.
LEMMA SendHolds ==
  ASSUME NEW box, Filled(box), NEW m \in Message, Send(box, m) # None
  PROVE  /\ \E i \in DOMAIN Send(box, m) : Send(box, m)[i] = m
         /\ m.type # "state"
              => \A j \in DOMAIN box : \E i \in DOMAIN Send(box, m) : Send(box, m)[i] = box[j]
<1> USE DEF Filled
<1>1. Len(box) \in Nat /\ DOMAIN box = 1..Len(box) /\ box # None
  BY LenProperties DEF Send
<1>2. CASE m.type = "state" /\ States(box) # {}
  <2> DEFINE k == CHOOSE i \in States(box) : TRUE
  <2>1. k \in DOMAIN box
    BY <1>2 DEF States
  <2>2. Send(box, m) = [box EXCEPT ![k] = m]
    BY <1>1, <1>2 DEF Send
  <2> HIDE DEF k
  <2> QED
    BY <1>2, <2>1, <2>2
<1>3. CASE ~(m.type = "state" /\ States(box) # {})
  <2>1. Send(box, m) = Append(box, m)
    BY <1>1, <1>3 DEF Send
  <2>2. /\ DOMAIN Append(box, m) = 1..(Len(box) + 1)
        /\ \A i \in 1..Len(box) : Append(box, m)[i] = box[i]
        /\ Append(box, m)[Len(box) + 1] = m
    BY <1>1, AppendProperties, LenProperties
  <2>3. Len(box) + 1 \in 1..(Len(box) + 1) /\ \A i \in 1..Len(box) : i \in 1..(Len(box) + 1)
    BY <1>1
  <2> QED
    BY <1>1, <2>1, <2>2, <2>3
<1> QED
  BY <1>2, <1>3

LEMMA EmptyIsFilled == Filled(<<>>)
BY EmptySeq, SyncAssumption DEF Filled

\* The browser takes the message at the head; the others keep their order.
LEMMA TakeHead ==
  ASSUME NEW box, Filled(box), box # <<>>
  PROVE  /\ Head(box) \in Message /\ Filled(Tail(box))
         /\ \E j \in DOMAIN box : Head(box) = box[j]
         /\ \A i \in DOMAIN Tail(box) : \E j \in DOMAIN box : Tail(box)[i] = box[j]
<1> USE DEF Filled
<1>1. Len(box) \in Nat \ {0} /\ DOMAIN box = 1..Len(box) /\ Capacity \in Nat
  BY LenProperties, EmptySeq, SyncAssumption
<1>2. /\ Head(box) \in Message /\ Tail(box) \in Seq(Message) /\ Len(Tail(box)) = Len(box) - 1
      /\ \A i \in 1..Len(Tail(box)) : Tail(box)[i] = box[i + 1]
  BY HeadTailProperties
<1>3. DOMAIN Tail(box) = 1..Len(Tail(box))
  BY <1>2, LenProperties
<1>4. Head(box) = box[1] /\ 1 \in DOMAIN box
  BY <1>1
<1>5. \A i \in 1..Len(Tail(box)) : i + 1 \in DOMAIN box
  BY <1>1, <1>2
<1>6. Len(Tail(box)) <= Capacity
  BY <1>1, <1>2
<1> QED
  BY <1>2, <1>3, <1>4, <1>5, <1>6

-----------------------------------------------------------------------------
(* What the room reports.                                                  *)

LEMMA TypeFacts ==
  ASSUME TypeOK
  PROVE  /\ room.epoch \in 1..2 /\ room.sv \in Nat /\ room.qv \in Nat /\ room.queue \in Queue /\ room.n \in Nat
         /\ Filled(outbox)
BY DEF TypeOK, Filled, Message

LEMMA SnapshotIsState ==
  ASSUME TypeOK
  PROVE  /\ Snapshot \in State /\ Snapshot.sv = room.sv /\ Snapshot.epoch = room.epoch
<1> DEFINE half == room.n \div 2
<1>1. half \in Nat
  BY TypeFacts
<1>2. Snapshot = [type |-> "state", epoch |-> room.epoch, sv |-> room.sv, qv |-> room.qv,
                  ts |-> half, queue |-> room.queue, n |-> room.n]
  BY DEF Snapshot
<1> HIDE DEF half
<1> QED
  BY <1>1, <1>2, TypeFacts DEF State

LEMMA EditIsPatch ==
  ASSUME TypeOK
  PROVE  /\ \A s \in Songs : Edit("append", s) \in Patch /\ Edit("remove", s) \in Patch
         /\ \A s, t \in Songs : s # t => Move(s, t) \in Patch
         /\ \A q \in Queue : Whole(q) \in Patch
<1>1. room.epoch \in 1..2 /\ room.qv + 1 \in Nat
  BY TypeFacts
<1>2. ASSUME NEW s \in Songs
      PROVE  Edit("append", s) \in Patch /\ Edit("remove", s) \in Patch
  BY <1>1 DEF Edit, Patch
<1>3. ASSUME NEW s \in Songs, NEW t \in Songs, s # t
      PROVE  Move(s, t) \in Patch
  BY <1>1, <1>3 DEF Move, Patch
<1>4. ASSUME NEW q \in Queue
      PROVE  Whole(q) \in Patch
  BY <1>1 DEF Whole, Patch
<1> QED
  BY <1>2, <1>3, <1>4

LEMMA ClosingKeeps ==
  ASSUME Closing
  PROVE  /\ conn' = "rejected" /\ outbox' = <<>> /\ Filled(outbox')
         /\ inbox' \in Seq(Request) /\ reply' = None
         /\ sender' = [s \in Senders |-> Idle]
<1>1. <<>> \in Seq(Request)
  BY EmptySeq
<1> QED
  BY <1>1, EmptyIsFilled DEF Closing

\* The message of a queue is an earlier one, a patch or the state m.
Carries(new, old, m) ==
  \A i \in DOMAIN new : new[i] = m \/ new[i].type = "patch" \/ \E j \in DOMAIN old : new[i] = old[j]

\* The patch tells of the change, if the queue changed at all.
Fits(q, patch) ==
  IF patch = None THEN q = room.queue
  ELSE /\ patch.epoch = room.epoch /\ patch.qv = room.qv + 1
       /\ patch.op = "snapshot" => patch.queue = q

\* The new state is in the queue, with the patch and what was there at most.
News(new, old, m, patch) ==
  /\ \E i \in DOMAIN new : new[i] = m
  /\ \A i \in DOMAIN new :
       \/ new[i] = m
       \/ patch # None /\ new[i] = patch
       \/ \E j \in DOMAIN old : new[i] = old[j]

Reported(patch) ==
  \/ Closing
  \/ conn = "open" /\ conn' = conn /\ Filled(outbox') /\ News(outbox', outbox, Snapshot', patch)
  \/ conn # "open" /\ conn' = conn /\ outbox' = outbox

LEMMA PublishStep ==
  ASSUME TypeOK, NEW q \in Queue, NEW sv \in {room.sv, room.sv + 1}, NEW patch, patch = None \/ patch \in Patch,
         Publish(q, sv, patch)
  PROVE  /\ room' \in [epoch : 1..2, sv : Nat, qv : Nat, queue : Queue, n : Nat]
         /\ room'.sv = sv /\ room'.epoch = room.epoch /\ overtaken' = FALSE /\ missed' = FALSE
         /\ room'.queue = q /\ room'.n = room.n + 1
         /\ room'.qv = IF patch = None THEN room.qv ELSE room.qv + 1
         /\ Snapshot' \in State /\ Snapshot'.sv = room'.sv /\ Snapshot'.epoch = room.epoch
         /\ Reported(patch)
<1> DEFINE qv == IF patch = None THEN room.qv ELSE room.qv + 1
<1>1. room.epoch \in 1..2 /\ room.sv \in Nat /\ room.qv \in Nat /\ room.n \in Nat /\ Filled(outbox)
  BY TypeFacts
<1>2. sv \in Nat /\ qv \in Nat /\ room.n + 1 \in Nat
  BY <1>1
<1>3. room' = [room EXCEPT !.queue = q, !.sv = sv, !.n = @ + 1, !.qv = IF patch = None THEN @ ELSE @ + 1]
  BY DEF Publish
<1>4. room' \in [epoch : {room.epoch}, sv : {sv}, qv : {qv}, queue : {q}, n : {room.n + 1}]
  <2> DEFINE m == room.n + 1
  <2>1. room \in [epoch : 1..2, sv : Nat, qv : Nat, queue : Queue, n : Nat]
    BY DEF TypeOK
  <2>2. room' = [room EXCEPT !.queue = q, !.sv = sv, !.n = m, !.qv = qv]
    BY <1>3
  <2> HIDE DEF m, qv
  <2>3. [room EXCEPT !.queue = q, !.sv = sv, !.n = m, !.qv = qv]
         \in [epoch : {room.epoch}, sv : {sv}, qv : {qv}, queue : {q}, n : {m}]
    BY <2>1
  <2> QED
    BY <2>2, <2>3 DEF m
<1> HIDE DEF qv
<1>5. /\ room' \in [epoch : 1..2, sv : Nat, qv : Nat, queue : Queue, n : Nat] /\ room'.sv = sv /\ room'.epoch = room.epoch
      /\ room'.queue = q /\ room'.n = room.n + 1 /\ room'.qv = qv
  BY <1>1, <1>2, <1>4
<1>6. Snapshot' \in State /\ Snapshot'.sv = room'.sv /\ Snapshot'.epoch = room.epoch
  <2> DEFINE half == room'.n \div 2
  <2>1. half \in Nat
    BY <1>5
  <2>2. Snapshot' = [type |-> "state", epoch |-> room'.epoch, sv |-> room'.sv, qv |-> room'.qv,
                     ts |-> half, queue |-> room'.queue, n |-> room'.n]
    BY DEF Snapshot
  <2> HIDE DEF half
  <2> QED
    BY <1>5, <2>1, <2>2 DEF State
<1>7. CASE conn # "open"
  <2>1. conn' = conn /\ outbox' = outbox
    BY <1>7 DEF Publish
  <2>2. Reported(patch) /\ overtaken' = FALSE /\ missed' = FALSE
    BY <1>7, <2>1 DEF Publish, Reported
  <2> QED
    BY <1>5, <1>6, <2>2 DEF qv
<1>8. CASE conn = "open"
  <2> DEFINE sent == IF patch = None THEN outbox ELSE Send(outbox, patch)
  <2>1. Deliver(Send(sent, Snapshot'))
    BY <1>8 DEF Publish
  <2>2. sent # None => /\ Filled(sent)
                       /\ \A i \in DOMAIN sent : \/ patch # None /\ sent[i] = patch
                                                \/ \E j \in DOMAIN outbox : sent[i] = outbox[j]
    <3>1. CASE patch = None
      BY <1>1, <3>1
    <3>2. CASE patch # None
      <4>1. patch \in Message /\ patch.type = "patch"
        BY <3>2, PatchFields DEF Message
      <4>2. sent = Send(outbox, patch)
        BY <3>2
      <4>3. sent # None => Filled(sent) /\ From(sent, outbox, patch)
        BY <1>1, <4>1, <4>2, SendFills
      <4> QED
        BY <3>2, <4>3 DEF From
    <3> QED
      BY <3>1, <3>2
  <2> HIDE DEF sent
  <2>3. Snapshot' \in Message
    BY <1>6 DEF Message
  <2>4. CASE Send(sent, Snapshot') = None
    <3>1. Closing
      BY <2>1, <2>4 DEF Deliver
    <3>2. Reported(patch) /\ overtaken' = FALSE /\ missed' = FALSE
      BY <3>1 DEF Publish, Reported
    <3> QED
      BY <1>5, <1>6, <3>2 DEF qv
  <2>5. CASE Send(sent, Snapshot') # None
    <3>1. sent # None
      BY <2>5 DEF Send
    <3>2. /\ Filled(Send(sent, Snapshot')) /\ From(Send(sent, Snapshot'), sent, Snapshot')
          /\ \E i \in DOMAIN Send(sent, Snapshot') : Send(sent, Snapshot')[i] = Snapshot'
      BY <2>2, <2>3, <2>5, <3>1, SendFills, SendHolds
    <3>3. outbox' = Send(sent, Snapshot') /\ conn' = conn
      BY <2>1, <2>5 DEF Deliver
    <3>4. News(outbox', outbox, Snapshot', patch)
      <4> DEFINE new == Send(sent, Snapshot')
      <4>1. outbox' = new
        BY <3>3
      <4>2. /\ \E i \in DOMAIN new : new[i] = Snapshot'
            /\ \A i \in DOMAIN new : new[i] = Snapshot' \/ \E j \in DOMAIN sent : new[i] = sent[j]
        BY <3>2 DEF From
      <4> HIDE DEF new
      <4>3. \A i \in DOMAIN new : \/ new[i] = Snapshot'
                                  \/ patch # None /\ new[i] = patch
                                  \/ \E j \in DOMAIN outbox : new[i] = outbox[j]
        <5>1. \A j \in DOMAIN sent : (patch # None /\ sent[j] = patch) \/ \E k \in DOMAIN outbox : sent[j] = outbox[k]
          BY <2>2, <3>1
        <5> QED
          BY <4>2, <5>1
      <4>4. News(new, outbox, Snapshot', patch)
        BY <4>2, <4>3 DEF News
      <4> QED
        BY <4>1, <4>4
    <3>5. Reported(patch) /\ overtaken' = FALSE /\ missed' = FALSE
      BY <1>8, <3>2, <3>3, <3>4 DEF Publish, Reported
    <3> QED
      BY <1>5, <1>6, <3>5 DEF qv
  <2> QED
    BY <2>4, <2>5
<1> QED
  BY <1>7, <1>8

-----------------------------------------------------------------------------
(* Type correctness, action by action.                                     *)

Publishes == \E q \in Queue, sv \in {room.sv, room.sv + 1}, patch \in Patch \cup {None} :
               Fits(q, patch) /\ Publish(q, sv, patch)

LEMMA ReportsFit ==
  ASSUME TypeOK
  PROVE  /\ \A s \in Songs, q \in Queue : Fits(q, Edit("append", s)) /\ Fits(q, Edit("remove", s))
         /\ \A s, t \in Songs, q \in Queue : s # t => Fits(q, Move(s, t))
         /\ \A q \in Queue : Fits(q, Whole(q))
         /\ Fits(room.queue, None)
<1>1. ASSUME NEW s \in Songs, NEW q \in Queue
      PROVE  Fits(q, Edit("append", s)) /\ Fits(q, Edit("remove", s))
  <2>1. Edit("append", s) # None /\ Edit("remove", s) # None
    BY EditIsPatch, NoneAssumption
  <2> QED
    BY <2>1 DEF Fits, Edit
<1>2. ASSUME NEW s \in Songs, NEW t \in Songs, NEW q \in Queue, s # t
      PROVE  Fits(q, Move(s, t))
  <2>1. Move(s, t) # None
    BY <1>2, EditIsPatch, NoneAssumption
  <2> QED
    BY <2>1 DEF Fits, Move
<1>3. ASSUME NEW q \in Queue
      PROVE  Fits(q, Whole(q))
  <2>1. Whole(q) # None
    BY EditIsPatch, NoneAssumption
  <2> QED
    BY <2>1 DEF Fits, Whole
<1> QED
  BY <1>1, <1>2, <1>3 DEF Fits

LEMMA ChangePublishes ==
  ASSUME TypeOK, Change
  PROVE  Publishes
<1> DEFINE q == room.queue
<1>1. q \in Queue /\ <<>> \in Queue /\ room.sv \in Nat
  BY TypeFacts, EmptySeq DEF Queue
<1>2. \/ \E s \in Songs : \/ Publish(Append(q, s), room.sv, Edit("append", s))
                          \/ Publish(<<>>, room.sv + 1, Edit("append", s))
      \/ \E s \in Songs : Publish(Without(q, s), room.sv, Edit("remove", s))
      \/ \E s, t \in Songs : s # t /\ Has(q, t) /\ Publish(Place(q, s, t), room.sv, Move(s, t))
      \/ Publish(q, room.sv + 1, None)
      \/ q # <<>> /\ Publish(Tail(q), room.sv + 1, Whole(Tail(q)))
  BY DEF Change
<1>8. /\ \A s \in Songs, r \in Queue : Fits(r, Edit("append", s)) /\ Fits(r, Edit("remove", s))
      /\ \A s, t \in Songs, r \in Queue : s # t => Fits(r, Move(s, t))
      /\ \A r \in Queue : Fits(r, Whole(r))
      /\ Fits(q, None)
  BY ReportsFit
<1> HIDE DEF q
<1>3. ASSUME NEW s \in Songs, \/ Publish(Append(q, s), room.sv, Edit("append", s))
                              \/ Publish(<<>>, room.sv + 1, Edit("append", s))
      PROVE  Publishes
  <2>1. Append(q, s) \in Queue
    BY <1>1, AppendProperties DEF Queue
  <2>2. Edit("append", s) \in Patch
    BY EditIsPatch
  <2> QED
    BY <1>1, <1>8, <1>3, <2>1, <2>2 DEF Publishes
<1>4. ASSUME NEW s \in Songs, Publish(Without(q, s), room.sv, Edit("remove", s))
      PROVE  Publishes
  <2>1. Without(q, s) \in Queue
    BY <1>1, WithoutType
  <2>2. Edit("remove", s) \in Patch
    BY EditIsPatch
  <2> QED
    BY <1>8, <1>4, <2>1, <2>2 DEF Publishes
<1>5. ASSUME NEW s \in Songs, NEW t \in Songs, s # t, Has(q, t), Publish(Place(q, s, t), room.sv, Move(s, t))
      PROVE  Publishes
  <2>1. Place(q, s, t) \in Queue
    BY <1>1, <1>5, PlaceType
  <2>2. Move(s, t) \in Patch
    BY <1>5, EditIsPatch
  <2> QED
    BY <1>8, <1>5, <2>1, <2>2 DEF Publishes
<1>6. ASSUME Publish(q, room.sv + 1, None)
      PROVE  Publishes
  BY <1>1, <1>8, <1>6 DEF Publishes
<1>7. ASSUME q # <<>>, Publish(Tail(q), room.sv + 1, Whole(Tail(q)))
      PROVE  Publishes
  <2>1. Tail(q) \in Queue
    BY <1>1, <1>7, HeadTailProperties DEF Queue
  <2>2. Whole(Tail(q)) \in Patch
    BY <2>1, EditIsPatch
  <2> QED
    BY <1>8, <1>7, <2>1, <2>2 DEF Publishes
<1> QED
  BY <1>2, <1>3, <1>4, <1>5, <1>6, <1>7

\* What a published change leaves of the connection.
LEMMA Published ==
  ASSUME TypeOK, Publishes
  PROVE  /\ room' \in [epoch : 1..2, sv : Nat, qv : Nat, queue : Queue, n : Nat]
         /\ room'.sv >= room.sv /\ room'.epoch = room.epoch /\ overtaken' = FALSE /\ missed' = FALSE
         /\ Snapshot'.sv = room'.sv /\ Snapshot'.epoch = room.epoch
         /\ \/ Closing
            \/ conn = "open" /\ conn' = conn /\ Filled(outbox') /\ Carries(outbox', outbox, Snapshot')
            \/ conn # "open" /\ conn' = conn /\ outbox' = outbox
         /\ Filled(outbox') /\ conn' \in {"lost", "open", "rejected"}
         /\ room'.n = room.n + 1
         /\ \E patch \in Patch \cup {None} :
              /\ Fits(room'.queue, patch) /\ room'.qv = IF patch = None THEN room.qv ELSE room.qv + 1
              /\ Reported(patch)
<1>1. PICK q \in Queue, sv \in {room.sv, room.sv + 1}, patch \in Patch \cup {None} :
        Fits(q, patch) /\ Publish(q, sv, patch)
  BY DEF Publishes
<1>2. /\ room' \in [epoch : 1..2, sv : Nat, qv : Nat, queue : Queue, n : Nat]
      /\ room'.sv = sv /\ room'.epoch = room.epoch /\ overtaken' = FALSE /\ missed' = FALSE
      /\ room'.queue = q /\ room'.n = room.n + 1
      /\ room'.qv = IF patch = None THEN room.qv ELSE room.qv + 1
      /\ Snapshot'.sv = room'.sv /\ Snapshot'.epoch = room.epoch
      /\ Reported(patch)
  <2>1. patch = None \/ patch \in Patch
    OBVIOUS
  <2> QED
    BY <1>1, <2>1, PublishStep
<1>3. room.sv \in Nat /\ Filled(outbox) /\ conn \in {"lost", "open", "rejected"}
  BY TypeFacts DEF TypeOK
<1>4. room'.sv >= room.sv
  BY <1>2, <1>3
<1>5. Filled(outbox') /\ conn' \in {"lost", "open", "rejected"}
  BY <1>2, <1>3, ClosingKeeps DEF Reported
<1>6. \/ Closing
      \/ conn = "open" /\ conn' = conn /\ Filled(outbox') /\ Carries(outbox', outbox, Snapshot')
      \/ conn # "open" /\ conn' = conn /\ outbox' = outbox
  <2>1. patch # None => patch.type = "patch"
    BY PatchFields
  <2>2. News(outbox', outbox, Snapshot', patch) => Carries(outbox', outbox, Snapshot')
    BY <2>1 DEF News, Carries
  <2> QED
    BY <1>2, <2>2 DEF Reported
<1> QED
  BY <1>1, <1>2, <1>4, <1>5, <1>6

LEMMA FilledIsBox ==
  ASSUME NEW box, Filled(box)
  PROVE  box \in Seq(State \cup Patch \cup Answer) /\ Len(box) <= Capacity
BY DEF Filled, Message

SenderStates == {Idle, Due} \cup [phase : {"holds"}, snapshot : State, left : 1..2]

LEMMA IdleSenders == [s \in Senders |-> Idle] \in [Senders -> SenderStates]
BY DEF SenderStates

LEMMA ChangeTyped ==
  ASSUME TypeOK, Change
  PROVE  TypeOK'
<1>1. Publishes
  BY ChangePublishes
<1>2. /\ inbox' \in Seq(Request) /\ reply' \in Answer \cup {None}
      /\ sender' \in [Senders -> SenderStates]
  <2>1. CASE Closing
    BY <2>1, ClosingKeeps, IdleSenders
  <2>2. CASE conn' = conn
    BY <2>2 DEF Change, TypeOK, SenderStates
  <2> QED
    BY <1>1, <2>1, <2>2, Published
<1>3. UNCHANGED <<page, frame, patches, drops, reorders>>
  BY DEF Change
<1> QED
  BY <1>1, <1>2, <1>3, Published, FilledIsBox DEF TypeOK, SenderStates

LEMMA RebuildTyped ==
  ASSUME TypeOK, Rebuild
  PROVE  TypeOK'
<1>1. room' \in [epoch : {room.epoch + 1}, sv : {room.sv}, qv : {1}, queue : {room.queue}, n : {room.n}]
  <2> DEFINE e == room.epoch + 1
  <2>1. room \in [epoch : 1..2, sv : Nat, qv : Nat, queue : Queue, n : Nat]
    BY DEF TypeOK
  <2>2. room' = [room EXCEPT !.epoch = e, !.qv = 1]
    BY DEF Rebuild
  <2> HIDE DEF e
  <2>3. [room EXCEPT !.epoch = e, !.qv = 1]
          \in [epoch : {e}, sv : {room.sv}, qv : {1}, queue : {room.queue}, n : {room.n}]
    BY <2>1
  <2> QED
    BY <2>2, <2>3 DEF e
<1>2. room.epoch < 2
  BY DEF Rebuild
<1>3. room.epoch + 1 \in 1..2 /\ room.sv \in Nat /\ 1 \in Nat /\ room.queue \in Queue /\ room.n \in Nat
  BY <1>2, TypeFacts
<1>4. room' \in [epoch : 1..2, sv : Nat, qv : Nat, queue : Queue, n : Nat]
  BY <1>1, <1>3
<1> QED
  BY <1>4 DEF Rebuild, TypeOK

LEMMA TakeTyped ==
  ASSUME TypeOK, NEW s \in Senders, Take(s)
  PROVE  TypeOK'
<1> DEFINE h == [phase |-> "holds", snapshot |-> Snapshot, left |-> IF s = "initial" THEN 1 ELSE 2]
<1>1. h \in SenderStates
  BY SnapshotIsState DEF SenderStates
<1>2. sender' = [sender EXCEPT ![s] = h] /\ sender \in [Senders -> SenderStates]
  BY DEF Take, TypeOK, SenderStates
<1> HIDE DEF h
<1>3. sender' \in [Senders -> SenderStates]
  BY <1>1, <1>2
<1> QED
  BY <1>3 DEF Take, TypeOK, SenderStates

LEMMA TakeFailsTyped ==
  ASSUME TypeOK, NEW s \in Senders, TakeFails(s)
  PROVE  TypeOK'
<1>1. Idle \in SenderStates
  BY DEF SenderStates
<1>2. sender' = [sender EXCEPT ![s] = Idle] /\ sender \in [Senders -> SenderStates]
  BY DEF TakeFails, TypeOK, SenderStates
<1>3. sender' \in [Senders -> SenderStates]
  BY <1>1, <1>2
<1> QED
  BY <1>3 DEF TakeFails, TypeOK, SenderStates

LEMMA SendSnapshotTyped ==
  ASSUME TypeOK, NEW s \in Senders, SendSnapshot(s)
  PROVE  TypeOK'
<1> DEFINE held == sender[s]
           m == held.snapshot
<1>1. held \in [phase : {"holds"}, snapshot : State, left : 1..2]
  BY DEF SendSnapshot, TypeOK, Idle, Due
<1>2. m \in State /\ m \in Message
  BY <1>1 DEF Message
<1>3. overtaken' \in BOOLEAN /\ missed' \in BOOLEAN
  BY DEF SendSnapshot, Overtaking
<1>4. Deliver(Send(outbox, m)) /\ UNCHANGED <<room, page, frame, patches, drops, reorders>>
  BY DEF SendSnapshot
<1>5. CASE Closing
  BY <1>3, <1>4, <1>5, ClosingKeeps, IdleSenders, FilledIsBox DEF TypeOK, SenderStates
<1>6. CASE Send(outbox, m) # None
  <2>1. outbox' = Send(outbox, m) /\ conn' = conn
    BY <1>4, <1>6 DEF Deliver
  <2>2. Filled(outbox')
    BY <1>2, <1>6, <2>1, TypeFacts, SendFills
  <2> DEFINE next == IF held.left = 1 THEN Idle ELSE [held EXCEPT !.left = 1]
  <2>3. sender' = [sender EXCEPT ![s] = next] /\ UNCHANGED <<inbox, reply>>
    BY <2>1 DEF SendSnapshot
  <2>4. next \in SenderStates
    <3> HIDE DEF held
    <3>1. [held EXCEPT !.left = 1] \in [phase : {"holds"}, snapshot : State, left : 1..2]
      BY <1>1
    <3> QED
      BY <3>1 DEF SenderStates
  <2> HIDE DEF next
  <2>5. sender' \in [Senders -> SenderStates]
    BY <2>3, <2>4 DEF TypeOK, SenderStates
  <2> QED
    BY <1>3, <1>4, <2>1, <2>2, <2>3, <2>5, FilledIsBox DEF TypeOK, SenderStates
<1> QED
  BY <1>4, <1>5, <1>6 DEF Deliver

LEMMA RequestFields ==
  ASSUME NEW m \in Request, m.type = "reorder"
  PROVE  m.song \in Songs /\ m.target \in Songs /\ m.song # m.target /\ m.id \in 1..MaxReorders
<1>1. m \notin [type : {"resync"}]
  OBVIOUS
<1> QED
  BY <1>1 DEF Request

LEMMA AskKeeps ==
  ASSUME TypeOK, NEW yes, Ask(yes)
  PROVE  inbox' \in Seq(Request)
<1>1. inbox \in Seq(Request) /\ [type |-> "resync"] \in Request
  BY DEF TypeOK, Request
<1>2. Append(inbox, [type |-> "resync"]) \in Seq(Request)
  BY <1>1, AppendProperties
<1> QED
  BY <1>1, <1>2 DEF Ask

\* A frame is a resync, a reordering that is written, or one that is refused.
DispatchResync == /\ Head(inbox).type = "resync"
                  /\ \E s \in Resyncs : sender[s] = Idle /\ sender' = [sender EXCEPT ![s] = Due]
                  /\ inbox' = Tail(inbox)
                  /\ UNCHANGED <<room, conn, outbox, reply, overtaken, missed>>
DispatchReorder == /\ Head(inbox).type = "reorder"
                   /\ Publishes
                   /\ conn' = conn => /\ reply' = [type |-> "ack", id |-> Head(inbox).id]
                                      /\ inbox' = Tail(inbox)
                                      /\ UNCHANGED sender
DispatchRefuse == /\ Head(inbox).type = "reorder"
                  /\ reply' = [type |-> "nack", id |-> Head(inbox).id]
                  /\ inbox' = Tail(inbox)
                  /\ UNCHANGED <<room, conn, outbox, sender, overtaken, missed>>

LEMMA DispatchCases ==
  ASSUME TypeOK, Dispatch
  PROVE  /\ conn = "open"
         /\ inbox # <<>> /\ Head(inbox) \in Request /\ Tail(inbox) \in Seq(Request)
         /\ DispatchResync \/ DispatchReorder \/ DispatchRefuse
         /\ UNCHANGED <<page, frame, patches, drops, reorders>>
<1> DEFINE m == Head(inbox)
<1>1. inbox \in Seq(Request) /\ inbox # <<>>
  BY DEF TypeOK, Dispatch
<1>2. m \in Request /\ Tail(inbox) \in Seq(Request)
  BY <1>1, HeadTailProperties
<1> HIDE DEF m
<1>3. \/ DispatchResync
      \/ /\ m.type = "reorder" /\ Has(room.queue, m.target)
         /\ Publish(Place(room.queue, m.song, m.target), room.sv, Move(m.song, m.target))
         /\ conn' = conn => /\ reply' = [type |-> "ack", id |-> m.id]
                            /\ inbox' = Tail(inbox)
                            /\ UNCHANGED sender
      \/ DispatchRefuse
  BY DEF Dispatch, DispatchResync, DispatchRefuse, m
<1>4. ASSUME m.type = "reorder", Has(room.queue, m.target),
             Publish(Place(room.queue, m.song, m.target), room.sv, Move(m.song, m.target))
      PROVE  Publishes
  <2>1. m.song \in Songs /\ m.target \in Songs /\ m.song # m.target
    BY <1>2, <1>4, RequestFields
  <2>2. room.queue \in Queue
    BY TypeFacts
  <2>3. Place(room.queue, m.song, m.target) \in Queue
    BY <1>4, <2>1, <2>2, PlaceType
  <2>4. Move(m.song, m.target) \in Patch
    BY <2>1, EditIsPatch
  <2>5. Fits(Place(room.queue, m.song, m.target), Move(m.song, m.target))
    BY <2>1, <2>3, ReportsFit
  <2> QED
    BY <1>4, <2>3, <2>4, <2>5 DEF Publishes
<1>5. DispatchResync \/ DispatchReorder \/ DispatchRefuse
  BY <1>3, <1>4 DEF DispatchReorder, m
<1> QED
  BY <1>1, <1>2, <1>5 DEF Dispatch, m

LEMMA DispatchTyped ==
  ASSUME TypeOK, Dispatch
  PROVE  TypeOK'
<1>1. Head(inbox) \in Request /\ Tail(inbox) \in Seq(Request) /\ UNCHANGED <<page, frame, patches, drops, reorders>>
  BY DispatchCases
<1>2. CASE DispatchResync
  <2>1. PICK s \in Resyncs : sender' = [sender EXCEPT ![s] = Due]
    BY <1>2 DEF DispatchResync
  <2>2. Due \in SenderStates /\ sender \in [Senders -> SenderStates]
    BY DEF SenderStates, TypeOK
  <2>3. sender' \in [Senders -> SenderStates]
    BY <2>1, <2>2
  <2> QED
    BY <1>1, <1>2, <2>3 DEF DispatchResync, TypeOK, SenderStates
<1>3. CASE DispatchReorder
  <2>1. Publishes /\ Head(inbox).type = "reorder"
    BY <1>3 DEF DispatchReorder
  <2>2. Head(inbox).id \in 1..MaxReorders
    BY <1>1, <2>1, RequestFields
  <2>3. [type |-> "ack", id |-> Head(inbox).id] \in Answer
    BY <2>2 DEF Answer
  <2>4. /\ inbox' \in Seq(Request) /\ reply' \in Answer \cup {None}
        /\ sender' \in [Senders -> SenderStates]
    <3>1. CASE Closing
      BY <3>1, ClosingKeeps, IdleSenders
    <3>2. CASE conn' = conn
      BY <1>1, <1>3, <2>3, <3>2 DEF DispatchReorder, TypeOK, SenderStates
    <3> QED
      BY <2>1, <3>1, <3>2, Published
  <2> QED
    BY <1>1, <2>1, <2>4, Published, FilledIsBox DEF TypeOK, SenderStates
<1>4. CASE DispatchRefuse
  <2>1. Head(inbox).id \in 1..MaxReorders
    BY <1>1, <1>4, RequestFields DEF DispatchRefuse
  <2>2. [type |-> "nack", id |-> Head(inbox).id] \in Answer
    BY <2>1 DEF Answer
  <2> QED
    BY <1>1, <1>4, <2>2 DEF DispatchRefuse, TypeOK
<1> QED
  BY <1>2, <1>3, <1>4, DispatchCases

LEMMA AcknowledgeTyped ==
  ASSUME TypeOK, Acknowledge
  PROVE  TypeOK'
<1>1. reply \in Answer /\ reply \in Message
  BY DEF Acknowledge, TypeOK, Message
<1>2. Deliver(Send(outbox, reply)) /\ UNCHANGED <<room, page, frame, patches, overtaken, missed, drops, reorders>>
  BY DEF Acknowledge
<1>3. CASE Closing
  BY <1>2, <1>3, ClosingKeeps, IdleSenders, FilledIsBox DEF TypeOK, SenderStates
<1>4. CASE Send(outbox, reply) # None
  <2>1. outbox' = Send(outbox, reply) /\ conn' = conn
    BY <1>2, <1>4 DEF Deliver
  <2>2. Filled(outbox')
    BY <1>1, <1>4, <2>1, TypeFacts, SendFills
  <2>3. reply' = None /\ UNCHANGED <<inbox, sender>>
    BY <2>1 DEF Acknowledge
  <2> QED
    BY <1>2, <2>1, <2>2, <2>3, FilledIsBox DEF TypeOK
<1> QED
  BY <1>2, <1>3, <1>4 DEF Deliver

LEMMA ConnectTyped ==
  ASSUME TypeOK, Connect
  PROVE  TypeOK'
<1>1. page' \in Page
  <2>1. page \in Page /\ page' = [page EXCEPT !.sv = 0, !.ts = 0]
    BY DEF Connect, TypeOK
  <2> QED
    BY <2>1 DEF Page
<1>2. inbox' \in Seq(Request)
  <2>1. [type |-> "resync"] \in Request
    BY DEF Request
  <2> QED
    BY <2>1 DEF Connect
<1>3. sender' \in [Senders -> SenderStates]
  <2>1. sender \in [Senders -> SenderStates] /\ Due \in SenderStates
    BY DEF TypeOK, SenderStates
  <2> QED
    BY <2>1 DEF Connect
<1> QED
  BY <1>1, <1>2, <1>3 DEF Connect, TypeOK, SenderStates

LEMMA LoseTyped ==
  ASSUME TypeOK, Lose
  PROVE  TypeOK'
<1>1. Filled(outbox') /\ inbox' \in Seq(Request)
  BY EmptySeq, EmptyIsFilled DEF Lose
<1>2. drops' \in 0..MaxDrops
  BY SyncAssumption DEF Lose, TypeOK
<1>3. UNCHANGED <<room, page, frame, patches, overtaken, missed, reorders>> /\ conn' = "lost" /\ reply' = None
      /\ sender' = [s \in Senders |-> Idle]
  BY DEF Lose
<1> QED
  BY <1>1, <1>2, <1>3, IdleSenders, FilledIsBox DEF TypeOK, SenderStates

LEMMA ReceiveTyped ==
  ASSUME TypeOK, Receive
  PROVE  TypeOK'
<1> DEFINE m == Head(outbox)
<1>1. m \in Message /\ Filled(outbox')
  BY TypeFacts, TakeHead DEF Receive
<1>2. UNCHANGED <<room, conn, sender, reply, drops, reorders>>
  BY DEF Receive
<1>3. /\ m.type = "state" => m \in State
      /\ m.type = "patch" => m \in Patch
  BY <1>1 DEF Message, State, Patch, Answer
<1>4. \/ m.type = "state" /\ frame' = m /\ overtaken' \in BOOLEAN /\ UNCHANGED <<patches, page, inbox>>
      \/ m.type = "patch" /\ patches' = Append(patches, m) /\ UNCHANGED <<frame, page, inbox, overtaken, missed>>
      \/ page' = SettleAck(page, m.id) /\ UNCHANGED <<frame, patches, inbox, overtaken, missed>>
      \/ page' = SettleNack(page, m.id) /\ Ask(m.id \in page.pending) /\ UNCHANGED <<frame, patches, overtaken, missed>>
  BY DEF Receive, TypeOK
<1> HIDE DEF m
<1>5. page \in Page /\ patches \in Seq(Patch) /\ frame \in State \cup {None} /\ overtaken \in BOOLEAN /\ inbox \in Seq(Request)
  BY DEF TypeOK
<1>6. page' \in Page /\ patches' \in Seq(Patch) /\ frame' \in State \cup {None} /\ overtaken' \in BOOLEAN /\ inbox' \in Seq(Request)
  <2>1. CASE m.type = "state" /\ frame' = m /\ overtaken' \in BOOLEAN /\ UNCHANGED <<patches, page, inbox>>
    BY <1>3, <1>5, <2>1
  <2>2. CASE m.type = "patch" /\ patches' = Append(patches, m) /\ UNCHANGED <<frame, page, inbox, overtaken, missed>>
    <3>1. Append(patches, m) \in Seq(Patch)
      BY <1>3, <1>5, <2>2, AppendProperties
    <3> QED
      BY <1>5, <2>2, <3>1
  <2>3. CASE page' = SettleAck(page, m.id) /\ UNCHANGED <<frame, patches, inbox, overtaken, missed>>
    BY <1>5, <2>3, SettleKeeps
  <2>4. CASE page' = SettleNack(page, m.id) /\ Ask(m.id \in page.pending) /\ UNCHANGED <<frame, patches, overtaken, missed>>
    BY <1>5, <2>4, SettleKeeps, AskKeeps
  <2> QED
    BY <1>4, <2>1, <2>2, <2>3, <2>4
<1>7. missed' \in BOOLEAN
  BY DEF Receive, TypeOK
<1> QED
  BY <1>1, <1>2, <1>6, <1>7, FilledIsBox DEF TypeOK

LEMMA StateFrameTyped ==
  ASSUME TypeOK, StateFrame
  PROVE  TypeOK'
<1>1. page' \in Page /\ overtaken' \in BOOLEAN
  BY SyncStateKeeps DEF StateFrame, TypeOK
<1> QED
  BY <1>1 DEF StateFrame, TypeOK, server

LEMMA PatchFrameTyped ==
  ASSUME TypeOK, PatchFrame
  PROVE  TypeOK'
<1>1. page' = Applied(page, patches).page /\ Ask(Applied(page, patches).resync /\ conn = "open")
  BY DEF PatchFrame
<1>2. page' \in Page /\ overtaken' \in BOOLEAN
  BY <1>1, AppliedKeeps DEF TypeOK, PatchFrame
<1>3. inbox' \in Seq(Request) /\ <<>> \in Seq(Patch)
  BY <1>1, AskKeeps, EmptySeq
<1> QED
  BY <1>2, <1>3 DEF PatchFrame, TypeOK, server

LEMMA ReorderTyped ==
  ASSUME TypeOK, Reorder
  PROVE  /\ TypeOK'
         /\ Marks(page') = Marks(page)
<1>1. PICK s \in Songs, t \in Songs :
        /\ s # t /\ Has(page.queue, s) /\ Has(page.queue, t)
        /\ page' = [page EXCEPT !.queue = Place(@, s, t), !.pending = @ \cup {reorders + 1}]
        /\ inbox' = Append(inbox, [type |-> "reorder", song |-> s, target |-> t, id |-> reorders + 1])
  BY DEF Reorder
<1>2. reorders + 1 \in 1..MaxReorders /\ reorders' \in 0..MaxReorders /\ reorders' = reorders + 1
  BY SyncAssumption DEF Reorder, TypeOK
<1>3. page \in Page /\ inbox \in Seq(Request)
  BY DEF TypeOK
<1>4. page' \in Page /\ Marks(page') = Marks(page)
  <2> DEFINE q == Place(page.queue, s, t)
             ids == page.pending \cup {reorders + 1}
  <2>1. q \in Queue
    BY <1>1, <1>3, PlaceType DEF Page
  <2>2. ids \in SUBSET (1..MaxReorders)
    BY <1>2, <1>3 DEF Page
  <2>3. page' = [page EXCEPT !.queue = q, !.pending = ids]
    BY <1>1
  <2> HIDE DEF q, ids
  <2> QED
    BY <1>3, <2>1, <2>2, <2>3 DEF Page, Marks
<1>5. inbox' \in Seq(Request)
  <2> DEFINE n == reorders + 1
             r == [type |-> "reorder", song |-> s, target |-> t, id |-> n]
  <2>1. n \in 1..MaxReorders
    BY <1>2
  <2> HIDE DEF n
  <2>2. r \in Request
    BY <1>1, <2>1 DEF Request
  <2>3. inbox' = Append(inbox, r)
    BY <1>1 DEF n
  <2> HIDE DEF r
  <2> QED
    BY <1>3, <2>2, <2>3, AppendProperties
<1> QED
  BY <1>2, <1>4, <1>5 DEF Reorder, TypeOK, server

LEMMA ExpireTyped ==
  ASSUME TypeOK, Expire
  PROVE  /\ TypeOK'
         /\ Marks(page') = Marks(page)
<1>1. PICK id \in page.pending : page' = ApplyDeferred([page EXCEPT !.pending = @ \ {id}])
  BY DEF Expire
<1>2. page \in Page
  BY DEF TypeOK
<1> DEFINE less == [page EXCEPT !.pending = @ \ {id}]
<1>3. less \in Page /\ Marks(less) = Marks(page)
  BY <1>2 DEF Page, Marks
<1>4. page' = ApplyDeferred(less)
  BY <1>1
<1> HIDE DEF less
<1>5. page' \in Page /\ Marks(page') = Marks(page)
  BY <1>3, <1>4, ApplyDeferredKeeps
<1>6. inbox' \in Seq(Request)
  BY AskKeeps DEF Expire
<1> QED
  BY <1>5, <1>6 DEF Expire, TypeOK, server

LEMMA InitTyped ==
  ASSUME Init
  PROVE  TypeOK
<1>1. PICK q \in Starts : room = [epoch |-> 1, sv |-> 1, qv |-> 1, queue |-> q, n |-> 0]
  BY DEF Init
<1>2. q \in Queue
  BY SyncAssumption DEF Queue
<1>3. room \in [epoch : 1..2, sv : Nat, qv : Nat, queue : Queue, n : Nat]
  BY <1>1, <1>2
<1>4. page \in Page
  <2>1. <<>> \in Queue
    BY EmptySeq DEF Queue
  <2> QED
    BY <2>1 DEF Init, Page
<1>5. Filled(outbox) /\ inbox \in Seq(Request) /\ patches \in Seq(Patch)
  BY EmptySeq, EmptyIsFilled DEF Init
<1>6. sender \in [Senders -> SenderStates]
  BY IdleSenders DEF Init
<1>7. 0 \in 0..MaxDrops /\ 0 \in 0..MaxReorders
  BY SyncAssumption
<1>8. conn = "lost" /\ reply = None /\ frame = None /\ overtaken = FALSE /\ missed = FALSE /\ drops = 0 /\ reorders = 0
  BY DEF Init
<1> QED
  BY <1>3, <1>4, <1>5, <1>6, <1>7, <1>8, FilledIsBox DEF TypeOK, SenderStates

LEMMA TypedStep ==
  ASSUME TypeOK, [Next]_vars
  PROVE  TypeOK'
<1>1. CASE UNCHANGED vars
  BY <1>1 DEF vars, TypeOK
<1>2. ASSUME NEW s \in Senders, Take(s) \/ TakeFails(s) \/ SendSnapshot(s)
      PROVE  TypeOK'
  BY <1>2, TakeTyped, TakeFailsTyped, SendSnapshotTyped
<1> QED
  BY <1>1, <1>2, ChangeTyped, RebuildTyped, DispatchTyped, AcknowledgeTyped, ConnectTyped, LoseTyped,
     ReceiveTyped, StateFrameTyped, PatchFrameTyped, ReorderTyped, ExpireTyped
     DEF Next, Quiet

(***************************************************************************)
(* Every message, held snapshot and store of the page is of its kind, the  *)
(* client's queue holds no more than Capacity messages, and the page waits *)
(* only for reorderings it has sent.                                       *)
(***************************************************************************)
THEOREM TypeCorrect == Spec => []TypeOK
<1>1. Init => TypeOK
  BY InitTyped
<1>2. TypeOK /\ [Next]_vars => TypeOK'
  BY TypedStep
<1> QED
  BY <1>1, <1>2, PTL DEF Spec

-----------------------------------------------------------------------------
(* What is on its way is not older than what is shown, or is of the same   *)
(* runtime and behind the gate, which then refuses it.  Connecting resets  *)
(* the gate, when nothing is on its way.                                   *)

Ahead(s, p, r) ==
  /\ s.sv <= r.sv /\ s.epoch <= r.epoch /\ p.epoch <= s.epoch
  /\ s.sv >= p.shown \/ (p.sv = p.shown /\ p.epoch = s.epoch)

Current(s) == Ahead(s, page, room) /\ s.epoch = room.epoch

Detached == outbox = <<>> /\ reply = None /\ sender = [s \in Senders |-> Idle]

Behind ==
  /\ page.shown <= room.sv /\ page.epoch <= room.epoch
  /\ \A i \in States(outbox) : Current(outbox[i])
  /\ \A s \in Senders : sender[s].phase = "holds" => Current(sender[s].snapshot)
  /\ frame # None => Ahead(frame, page, room)
  /\ frame # None /\ conn = "open" => frame.epoch = room.epoch
  /\ conn # "open" => Detached

NumbersOK == /\ room.sv \in Nat /\ room.epoch \in Nat
             /\ page.sv \in Nat /\ page.shown \in Nat /\ page.epoch \in Nat

Room == [epoch : 1..2, sv : Nat, qv : Nat, queue : Queue, n : Nat]

LEMMA WaitingStates ==
  ASSUME NEW box \in Seq(State \cup Patch \cup Answer), NEW i \in States(box)
  PROVE  box[i] \in State
<1>1. i \in 1..Len(box) /\ box[i].type = "state"
  BY LenProperties DEF States
<1>2. box[i] \in State \cup Patch \cup Answer
  BY <1>1, ElementOfSeq
<1> QED
  BY <1>1, <1>2 DEF Patch, Answer

LEMMA StateNumbers ==
  ASSUME NEW s \in State
  PROVE  s.sv \in Nat /\ s.epoch \in Nat /\ s.type = "state"
BY DEF State

\* The server is no further than before, or it is; the page has not moved.
LEMMA AheadStays ==
  ASSUME TypeOK, TypeOK', Marks(page') = Marks(page), room'.sv >= room.sv, room'.epoch >= room.epoch,
         NEW s \in State, Ahead(s, page, room)
  PROVE  Ahead(s, page', room')
<1>1. s.sv \in Nat /\ s.epoch \in Nat
  BY StateNumbers
<1>2. NumbersOK /\ NumbersOK'
  <2>1. room \in Room /\ room' \in Room /\ page \in Page /\ page' \in Page
    BY DEF TypeOK, Room
  <2> QED
    BY <2>1 DEF Page, Room, NumbersOK
<1>3. page'.epoch = page.epoch /\ page'.sv = page.sv /\ page'.shown = page.shown
  BY DEF Marks
<1> QED
  BY <1>1, <1>2, <1>3 DEF Ahead, NumbersOK

LEMMA FreshIsAhead ==
  ASSUME TypeOK, TypeOK', Behind, Marks(page') = Marks(page), room'.sv >= room.sv, room'.epoch = room.epoch,
         NEW s, s.sv = room'.sv, s.epoch = room'.epoch
  PROVE  Ahead(s, page', room')
<1>1. NumbersOK /\ NumbersOK'
  <2>1. room \in Room /\ room' \in Room /\ page \in Page /\ page' \in Page
    BY DEF TypeOK, Room
  <2> QED
    BY <2>1 DEF Page, Room, NumbersOK
<1>2. page'.epoch = page.epoch /\ page'.shown = page.shown /\ page.shown <= room.sv /\ page.epoch <= room.epoch
  BY DEF Marks, Behind
<1> QED
  BY <1>1, <1>2 DEF Ahead, NumbersOK

\* What was on its way, or was taken of the room just now.
Known(s) == Current(s) \/ (s.sv = room'.sv /\ s.epoch = room.epoch)

LEMMA KeptBehind ==
  ASSUME TypeOK, TypeOK', Behind, Marks(page') = Marks(page), room'.sv >= room.sv, room'.epoch = room.epoch,
         \A i \in States(outbox') : Known(outbox'[i]),
         \A s \in Senders : sender'[s].phase = "holds" => Known(sender'[s].snapshot),
         frame' = frame \/ (conn = "open" /\ Current(frame')),
         conn' = "open" => conn = "open",
         conn' # "open" => Detached'
  PROVE  Behind'
<1>1. ASSUME NEW s \in State, Known(s)
      PROVE  Ahead(s, page', room') /\ s.epoch = room'.epoch
  <2>0. room'.epoch >= room.epoch
    BY DEF TypeOK
  <2>1. CASE Current(s)
    BY <2>0, <2>1, AheadStays DEF Current
  <2>2. CASE s.sv = room'.sv /\ s.epoch = room.epoch
    BY <2>2, FreshIsAhead
  <2> QED
    BY <1>1, <2>1, <2>2 DEF Known
<1>2. /\ \A i \in States(outbox') : outbox'[i] \in State
      /\ \A s \in Senders : sender'[s].phase = "holds" => sender'[s].snapshot \in State
      /\ frame' # None => frame' \in State
  <2>1. outbox' \in Seq(State \cup Patch \cup Answer) /\ frame' \in State \cup {None}
    BY DEF TypeOK
  <2>2. \A s \in Senders : sender'[s].phase = "holds" => sender'[s].snapshot \in State
    <3>1. sender' \in [Senders -> SenderStates]
      BY DEF TypeOK, SenderStates
    <3> QED
      BY <3>1 DEF SenderStates, Idle, Due
  <2> QED
    BY <2>1, <2>2, WaitingStates
<1>3. page'.shown <= room'.sv /\ page'.epoch <= room'.epoch
  <2>1. NumbersOK /\ NumbersOK'
    <3>1. room \in Room /\ room' \in Room /\ page \in Page /\ page' \in Page
      BY DEF TypeOK, Room
    <3> QED
      BY <3>1 DEF Page, Room, NumbersOK
  <2>2. page'.epoch = page.epoch /\ page'.shown = page.shown /\ page.shown <= room.sv /\ page.epoch <= room.epoch
    BY DEF Marks, Behind
  <2> QED
    BY <2>1, <2>2 DEF NumbersOK
<1>4. ASSUME frame' # None
      PROVE  Ahead(frame', page', room') /\ (conn' = "open" => frame'.epoch = room'.epoch)
  <2>1. CASE frame' = frame
    <3>1. Ahead(frame, page, room) /\ frame \in State
      BY <1>2, <1>4, <2>1 DEF Behind
    <3>2. room'.epoch >= room.epoch
      BY DEF TypeOK
    <3>3. Ahead(frame', page', room')
      BY <2>1, <3>1, <3>2, AheadStays
    <3> QED
      BY <1>4, <2>1, <3>3 DEF Behind
  <2>2. CASE conn = "open" /\ Current(frame')
    BY <1>1, <1>2, <1>4, <2>2 DEF Known
  <2> QED
    BY <2>1, <2>2
<1>5. \A i \in States(outbox') : Ahead(outbox'[i], page', room') /\ outbox'[i].epoch = room'.epoch
  BY <1>1, <1>2
<1>6. \A s \in Senders : sender'[s].phase = "holds"
        => Ahead(sender'[s].snapshot, page', room') /\ sender'[s].snapshot.epoch = room'.epoch
  BY <1>1, <1>2
<1> QED
  BY <1>3, <1>4, <1>5, <1>6 DEF Behind, Current

LEMMA OpenBox ==
  ASSUME Behind, outbox # <<>> \/ reply # None \/ \E s \in Senders : sender[s] # Idle
  PROVE  conn = "open"
BY DEF Behind, Detached

LEMMA EmptyHasNoStates ==
  ASSUME NEW box, box = <<>>
  PROVE  States(box) = {}
BY DEF States

LEMMA IdleHoldsNothing ==
  ASSUME NEW s \in Senders
  PROVE  [r \in Senders |-> Idle][s].phase # "holds"
BY DEF Idle

\* A publication, whoever causes it.
LEMMA PublishBehind ==
  ASSUME TypeOK, TypeOK', Behind, Publishes, UNCHANGED <<page, frame>>,
         conn' = conn => \A s \in Senders : sender'[s].phase = "holds" => Current(sender'[s].snapshot),
         conn' = conn /\ conn # "open" => sender' = sender /\ reply' = reply
  PROVE  Behind'
<1>1. /\ room'.sv >= room.sv /\ room'.epoch = room.epoch
      /\ Snapshot'.sv = room'.sv /\ Snapshot'.epoch = room.epoch
      /\ \/ Closing
         \/ conn = "open" /\ conn' = conn /\ Filled(outbox') /\ Carries(outbox', outbox, Snapshot')
         \/ conn # "open" /\ conn' = conn /\ outbox' = outbox
  BY Published
<1>2. Marks(page') = Marks(page)
  BY DEF Marks
<1>3. CASE Closing
  <2>1. conn' = "rejected" /\ outbox' = <<>> /\ sender' = [s \in Senders |-> Idle] /\ Detached'
    BY <1>3, ClosingKeeps DEF Detached
  <2>2. States(outbox') = {} /\ \A s \in Senders : sender'[s].phase # "holds"
    BY <2>1, EmptyHasNoStates, IdleHoldsNothing
  <2> QED
    BY <1>1, <1>2, <2>1, <2>2, KeptBehind
<1>4. CASE conn = "open" /\ conn' = conn /\ Filled(outbox') /\ Carries(outbox', outbox, Snapshot')
  <2>1. ASSUME NEW i \in States(outbox')
        PROVE  Known(outbox'[i])
    <3>1. i \in DOMAIN outbox' /\ outbox'[i].type = "state"
      BY <2>1 DEF States
    <3>2. CASE outbox'[i] = Snapshot'
      BY <1>1, <3>2 DEF Known
    <3>3. CASE \E j \in DOMAIN outbox : outbox'[i] = outbox[j]
      BY <3>1, <3>3 DEF Behind, States, Known
    <3> QED
      BY <1>4, <3>1, <3>2, <3>3 DEF Carries
  <2>2. \A s \in Senders : sender'[s].phase = "holds" => Known(sender'[s].snapshot)
    BY <1>4 DEF Known
  <2> QED
    BY <1>1, <1>2, <1>4, <2>1, <2>2, KeptBehind
<1>5. CASE conn # "open" /\ conn' = conn /\ outbox' = outbox
  <2>1. outbox' = <<>> /\ sender' = [s \in Senders |-> Idle] /\ Detached'
    BY <1>5 DEF Behind, Detached
  <2>2. States(outbox') = {} /\ \A s \in Senders : sender'[s].phase # "holds"
    BY <2>1, EmptyHasNoStates, IdleHoldsNothing
  <2> QED
    BY <1>1, <1>2, <1>5, <2>1, <2>2, KeptBehind
<1> QED
  BY <1>1, <1>3, <1>4, <1>5

LEMMA ChangeBehind ==
  ASSUME TypeOK, TypeOK', Behind, Change
  PROVE  Behind'
<1>1. Publishes /\ UNCHANGED <<page, frame>> /\ (conn' = conn => sender' = sender /\ reply' = reply)
  BY ChangePublishes DEF Change
<1> QED
  BY <1>1, PublishBehind DEF Behind

\* dispatch sends nothing old: a new resync has taken no snapshot yet.
LEMMA DispatchBehind ==
  ASSUME TypeOK, TypeOK', Behind, Dispatch
  PROVE  Behind'
<1>1. conn = "open" /\ UNCHANGED <<page, frame>>
  BY DispatchCases
<1>2. Marks(page') = Marks(page) /\ room.sv >= room.sv
  BY <1>1, TypeFacts DEF Marks
<1>3. CASE DispatchReorder
  <2>1. Publishes /\ (conn' = conn => sender' = sender)
    BY <1>3 DEF DispatchReorder
  <2> QED
    BY <1>1, <2>1, PublishBehind DEF Behind
<1>4. CASE DispatchResync \/ DispatchRefuse
  <2>1. UNCHANGED <<room, conn, outbox>>
    BY <1>4 DEF DispatchResync, DispatchRefuse
  <2>2. \A s \in Senders : sender'[s].phase = "holds" => Current(sender'[s].snapshot)
    <3>1. CASE sender' = sender
      BY <3>1 DEF Behind
    <3>2. ASSUME NEW r \in Resyncs, sender' = [sender EXCEPT ![r] = Due]
          PROVE  \A s \in Senders : sender'[s].phase = "holds" => Current(sender'[s].snapshot)
      <4>1. sender \in [Senders -> SenderStates] /\ r \in Senders
        BY DEF TypeOK, SenderStates, Senders
      <4>2. \A s \in Senders : sender'[s] = IF s = r THEN Due ELSE sender[s]
        BY <3>2, <4>1
      <4> QED
        BY <4>2 DEF Due, Behind
    <3> QED
      BY <1>4, <3>1, <3>2 DEF DispatchResync, DispatchRefuse
  <2>3. \A i \in States(outbox') : Known(outbox'[i])
    BY <2>1 DEF Behind, Known
  <2>4. \A s \in Senders : sender'[s].phase = "holds" => Known(sender'[s].snapshot)
    BY <2>2 DEF Known
  <2> QED
    BY <1>1, <1>2, <2>1, <2>3, <2>4, KeptBehind
<1> QED
  BY <1>3, <1>4, DispatchCases

LEMMA TakeBehind ==
  ASSUME TypeOK, TypeOK', Behind, NEW r \in Senders, Take(r)
  PROVE  Behind'
<1>1. UNCHANGED <<room, conn, outbox, page, frame>> /\ sender[r].phase = "due"
  BY DEF Take
<1>2. Marks(page') = Marks(page) /\ room.sv >= room.sv
  BY <1>1, TypeFacts DEF Marks
<1>3. conn = "open"
  BY <1>1, OpenBox DEF Idle
<1> DEFINE h == [phase |-> "holds", snapshot |-> Snapshot, left |-> IF r = "initial" THEN 1 ELSE 2]
<1>4. sender' = [sender EXCEPT ![r] = h] /\ sender \in [Senders -> SenderStates]
  BY DEF Take, TypeOK, SenderStates
<1>5. h.snapshot.sv = room.sv /\ h.snapshot.epoch = room.epoch
  BY SnapshotIsState
<1> HIDE DEF h
<1>6. \A s \in Senders : sender'[s] = IF s = r THEN h ELSE sender[s]
  BY <1>4
<1>7. \A s \in Senders : sender'[s].phase = "holds" => Known(sender'[s].snapshot)
  BY <1>1, <1>5, <1>6 DEF Known, Behind
<1>8. \A i \in States(outbox') : Known(outbox'[i])
  BY <1>1 DEF Known, Behind
<1> QED
  BY <1>1, <1>2, <1>3, <1>7, <1>8, KeptBehind

LEMMA TakeFailsBehind ==
  ASSUME TypeOK, TypeOK', Behind, NEW r \in Senders, TakeFails(r)
  PROVE  Behind'
<1>1. UNCHANGED <<room, conn, outbox, page, frame>> /\ sender[r].phase = "due"
  BY DEF TakeFails
<1>2. Marks(page') = Marks(page) /\ room.sv >= room.sv
  BY <1>1, TypeFacts DEF Marks
<1>3. conn = "open"
  BY <1>1, OpenBox DEF Idle
<1>4. sender' = [sender EXCEPT ![r] = Idle] /\ sender \in [Senders -> SenderStates]
  BY DEF TakeFails, TypeOK, SenderStates
<1>5. \A s \in Senders : sender'[s].phase = "holds" => sender'[s] = sender[s]
  BY <1>4 DEF Idle
<1>6. \A s \in Senders : sender'[s].phase = "holds" => Known(sender'[s].snapshot)
  BY <1>5 DEF Known, Behind
<1>7. \A i \in States(outbox') : Known(outbox'[i])
  BY <1>1 DEF Known, Behind
<1> QED
  BY <1>1, <1>2, <1>3, <1>6, <1>7, KeptBehind

\* What is sent is the snapshot that was held, or no state at all.
LEMMA DeliverBehind ==
  ASSUME TypeOK, TypeOK', Behind, NEW m \in Message, m.type = "state" => Current(m), Deliver(Send(outbox, m)),
         conn = "open", UNCHANGED <<room, page, frame>>,
         conn' = conn => \A s \in Senders : sender'[s].phase = "holds" => Current(sender'[s].snapshot)
  PROVE  Behind'
<1>1. Marks(page') = Marks(page) /\ room'.sv >= room.sv /\ room'.epoch = room.epoch
  BY TypeFacts DEF Marks
<1>2. CASE Closing
  <2>1. conn' = "rejected" /\ outbox' = <<>> /\ sender' = [s \in Senders |-> Idle] /\ Detached'
    BY <1>2, ClosingKeeps DEF Detached
  <2>2. States(outbox') = {} /\ \A s \in Senders : sender'[s].phase # "holds"
    BY <2>1, EmptyHasNoStates, IdleHoldsNothing
  <2> QED
    BY <1>1, <2>1, <2>2, KeptBehind
<1>3. CASE Send(outbox, m) # None
  <2>1. outbox' = Send(outbox, m) /\ conn' = conn
    BY <1>3 DEF Deliver
  <2>2. From(outbox', outbox, m)
    BY <1>3, <2>1, TypeFacts, SendFills
  <2>3. ASSUME NEW i \in States(outbox')
        PROVE  Known(outbox'[i])
    <3>1. i \in DOMAIN outbox' /\ outbox'[i].type = "state"
      BY <2>3 DEF States
    <3>2. CASE outbox'[i] = m
      BY <3>1, <3>2 DEF Known
    <3>3. CASE \E j \in DOMAIN outbox : outbox'[i] = outbox[j]
      BY <3>1, <3>3 DEF Behind, States, Known
    <3> QED
      BY <2>2, <3>1, <3>2, <3>3 DEF From
  <2>4. \A s \in Senders : sender'[s].phase = "holds" => Known(sender'[s].snapshot)
    BY <2>1 DEF Known
  <2> QED
    BY <1>1, <2>1, <2>3, <2>4, KeptBehind
<1> QED
  BY <1>2, <1>3 DEF Deliver

LEMMA SendSnapshotBehind ==
  ASSUME TypeOK, TypeOK', Behind, NEW r \in Senders, SendSnapshot(r)
  PROVE  Behind'
<1> DEFINE m == sender[r].snapshot
<1>1. sender[r].phase = "holds" /\ Deliver(Send(outbox, m)) /\ UNCHANGED <<room, page, frame>>
  BY DEF SendSnapshot
<1>2. sender[r] \in [phase : {"holds"}, snapshot : State, left : 1..2] /\ sender \in [Senders -> SenderStates]
  BY <1>1 DEF TypeOK, SenderStates, Idle, Due
<1>3. m \in Message /\ Current(m)
  BY <1>1, <1>2 DEF Message, Behind
<1>4. conn = "open"
  BY <1>1, OpenBox DEF Idle
<1>5. ASSUME conn' = conn, NEW s \in Senders, sender'[s].phase = "holds"
      PROVE  Current(sender'[s].snapshot)
  <2> DEFINE held == sender[r]
             next == IF held.left = 1 THEN Idle ELSE [held EXCEPT !.left = 1]
  <2>1. sender' = [sender EXCEPT ![r] = next]
    BY <1>5 DEF SendSnapshot
  <2>2. next = Idle \/ next.snapshot = m
    BY <1>2
  <2> HIDE DEF next
  <2>3. sender'[s] = IF s = r THEN next ELSE sender[s]
    BY <1>2, <2>1
  <2>4. CASE s = r
    BY <1>3, <1>5, <2>2, <2>3, <2>4 DEF Idle
  <2>5. CASE s # r
    BY <1>5, <2>3, <2>5 DEF Behind
  <2> QED
    BY <2>4, <2>5
<1> QED
  BY <1>1, <1>3, <1>4, <1>5, DeliverBehind

LEMMA AcknowledgeBehind ==
  ASSUME TypeOK, TypeOK', Behind, Acknowledge
  PROVE  Behind'
<1>1. reply \in Answer /\ reply \in Message
  BY DEF Acknowledge, TypeOK, Message
<1>2. reply.type # "state"
  BY <1>1 DEF Answer
<1>3. Deliver(Send(outbox, reply)) /\ UNCHANGED <<room, page, frame>> /\ (conn' = conn => sender' = sender)
  BY DEF Acknowledge
<1>4. conn = "open"
  BY OpenBox DEF Acknowledge
<1> QED
  BY <1>1, <1>2, <1>3, <1>4, DeliverBehind DEF Behind

LEMMA RebuildBehind ==
  ASSUME TypeOK, TypeOK', Behind, Rebuild
  PROVE  Behind'
<1>1. conn' = "lost" /\ Detached' /\ UNCHANGED <<page, frame>>
  BY DEF Rebuild, Behind, Detached
<1>2. room'.sv = room.sv /\ room'.epoch = room.epoch + 1
  <2>1. room \in Room /\ room' = [room EXCEPT !.epoch = @ + 1, !.qv = 1]
    BY DEF Rebuild, TypeOK, Room
  <2> QED
    BY <2>1 DEF Room
<1>3. NumbersOK
  <2>1. room \in Room /\ page \in Page
    BY DEF TypeOK, Room
  <2> QED
    BY <2>1 DEF NumbersOK, Page, Room
<1>4. room'.sv >= room.sv /\ room'.epoch >= room.epoch
  BY <1>2, <1>3 DEF NumbersOK
<1>5. Marks(page') = Marks(page)
  BY <1>1
<1>6. frame' # None => Ahead(frame', page', room')
  <2>1. frame # None => frame \in State /\ Ahead(frame, page, room)
    BY DEF TypeOK, Behind
  <2> QED
    BY <1>1, <1>4, <1>5, <2>1, AheadStays
<1>7. page'.shown <= room'.sv /\ page'.epoch <= room'.epoch
  BY <1>1, <1>2, <1>3 DEF Behind, NumbersOK
<1>8. States(outbox') = {} /\ \A s \in Senders : sender'[s].phase # "holds"
  BY <1>1, EmptyHasNoStates, IdleHoldsNothing DEF Detached
<1> QED
  BY <1>1, <1>6, <1>7, <1>8 DEF Behind

\* The gate is reset when nothing waits behind it.
LEMMA ConnectBehind ==
  ASSUME TypeOK, TypeOK', Behind, Connect
  PROVE  Behind'
<1>1. /\ conn' = "open" /\ outbox' = <<>> /\ frame' = None /\ room' = room
      /\ sender' = [[s \in Senders |-> Idle] EXCEPT !["initial"] = Due]
  BY DEF Connect, Behind, Detached
<1>2. page'.shown = page.shown /\ page'.epoch = page.epoch
  BY DEF Connect, TypeOK, Page
<1>3. \A s \in Senders : sender'[s] \in {Idle, Due}
  BY <1>1
<1>4. States(outbox') = {} /\ \A s \in Senders : sender'[s].phase # "holds"
  BY <1>1, <1>3, EmptyHasNoStates DEF Idle, Due
<1> QED
  BY <1>1, <1>2, <1>4 DEF Behind

LEMMA LoseBehind ==
  ASSUME TypeOK, TypeOK', Behind, Lose
  PROVE  Behind'
<1>1. conn' = "lost" /\ Detached' /\ UNCHANGED <<room, page, frame>>
  BY DEF Lose, Detached
<1>2. States(outbox') = {} /\ \A s \in Senders : sender'[s].phase # "holds"
  BY <1>1, EmptyHasNoStates, IdleHoldsNothing DEF Detached
<1>3. Marks(page') = Marks(page) /\ room'.sv >= room.sv /\ room'.epoch = room.epoch
  BY <1>1, TypeFacts
<1> QED
  BY <1>1, <1>2, <1>3, KeptBehind

\* The actions of the page that leave the server and the marks alone.
LEMMA PageBehind ==
  ASSUME TypeOK, TypeOK', Behind, Marks(page') = Marks(page), UNCHANGED <<room, conn, sender, reply>>,
         \A i \in States(outbox') : Current(outbox'[i]),
         conn # "open" => outbox' = <<>>,
         frame' = frame \/ (conn = "open" /\ Current(frame'))
  PROVE  Behind'
<1>1. room'.sv >= room.sv /\ room'.epoch = room.epoch
  BY TypeFacts
<1>2. \A i \in States(outbox') : Known(outbox'[i])
  BY DEF Known
<1>3. \A s \in Senders : sender'[s].phase = "holds" => Known(sender'[s].snapshot)
  BY DEF Known, Behind
<1>4. conn' # "open" => Detached'
  BY DEF Behind, Detached
<1> QED
  BY <1>1, <1>2, <1>3, <1>4, KeptBehind

LEMMA ReceiveBehind ==
  ASSUME TypeOK, TypeOK', Behind, Receive
  PROVE  Behind' /\ Marks(page') = Marks(page)
<1> DEFINE m == Head(outbox)
<1>1. Filled(outbox) /\ outbox # <<>> /\ outbox' = Tail(outbox) /\ UNCHANGED <<room, conn, sender, reply>>
  BY TypeFacts DEF Receive
<1>2. /\ \E j \in DOMAIN outbox : m = outbox[j]
      /\ \A i \in DOMAIN outbox' : \E j \in DOMAIN outbox : outbox'[i] = outbox[j]
  BY <1>1, TakeHead
<1>3. conn = "open"
  BY <1>1, OpenBox
<1>4. \A i \in States(outbox') : Current(outbox'[i])
  BY <1>2 DEF Behind, States
<1>5. m.type = "state" => Current(m)
  BY <1>2 DEF Behind, States
<1>6. frame' = frame \/ (m.type = "state" /\ frame' = m)
  BY DEF Receive
<1>7. page' = page \/ page' = SettleAck(page, m.id) \/ page' = SettleNack(page, m.id)
  BY DEF Receive
<1> HIDE DEF m
<1>8. Marks(page') = Marks(page)
  BY <1>7, SettleKeeps DEF TypeOK
<1> QED
  BY <1>1, <1>3, <1>4, <1>5, <1>6, <1>8, PageBehind

LEMMA PatchFrameBehind ==
  ASSUME TypeOK, TypeOK', Behind, PatchFrame
  PROVE  Behind' /\ Marks(page') = Marks(page)
<1>1. page' = Applied(page, patches).page /\ UNCHANGED <<room, conn, sender, reply, outbox, frame>>
  BY DEF PatchFrame, server
<1>2. Marks(page') = Marks(page)
  BY <1>1, AppliedKeeps DEF TypeOK
<1>3. \A i \in States(outbox') : Current(outbox'[i])
  BY <1>1 DEF Behind
<1>4. conn # "open" => outbox' = <<>>
  BY <1>1 DEF Behind, Detached
<1> QED
  BY <1>1, <1>2, <1>3, <1>4, PageBehind

LEMMA ReorderExpireBehind ==
  ASSUME TypeOK, TypeOK', Behind, Reorder \/ Expire
  PROVE  Behind' /\ Marks(page') = Marks(page)
<1>1. UNCHANGED <<room, conn, sender, reply, outbox, frame>>
  BY DEF Reorder, Expire, server
<1>2. Marks(page') = Marks(page)
  BY ReorderTyped, ExpireTyped
<1>3. \A i \in States(outbox') : Current(outbox'[i])
  BY <1>1 DEF Behind
<1>4. conn # "open" => outbox' = <<>>
  BY <1>1 DEF Behind, Detached
<1> QED
  BY <1>1, <1>2, <1>3, <1>4, PageBehind

\* The page moves to the state it shows, past whatever else is on its way.
LEMMA StateFrameBehind ==
  ASSUME TypeOK, TypeOK', Behind, StateFrame
  PROVE  Behind' /\ page'.shown >= page.shown /\ page'.epoch >= page.epoch
<1>1. /\ frame # None /\ conn # "rejected" /\ page' = SyncState(page, frame) /\ frame' = None
      /\ UNCHANGED <<room, conn, sender, reply, outbox>>
  BY DEF StateFrame, server
<1>2. /\ frame \in State /\ page \in Page /\ page' \in Page
      /\ Ahead(frame, page, room) /\ (conn = "open" => frame.epoch = room.epoch)
  BY <1>1 DEF TypeOK, Behind
<1>3. \/ page' = page
      \/ /\ page'.epoch = frame.epoch /\ page'.sv = frame.sv /\ page'.shown = frame.sv
         /\ frame.epoch = page.epoch => frame.sv >= page.sv
  BY <1>1, <1>2, SyncStateKeeps
<1>4. NumbersOK /\ NumbersOK' /\ frame.sv \in Nat /\ frame.epoch \in Nat
  <2>1. room \in Room /\ room' \in Room
    BY DEF TypeOK, Room
  <2> QED
    BY <1>2, <2>1 DEF Page, Room, NumbersOK, State
<1>5. page'.shown >= page.shown /\ page'.epoch >= page.epoch
  BY <1>2, <1>3, <1>4 DEF Ahead, NumbersOK
<1>6. page'.shown <= room'.sv /\ page'.epoch <= room'.epoch
  BY <1>1, <1>2, <1>3, <1>4 DEF Ahead, NumbersOK, Behind
<1>7. ASSUME NEW s, Current(s), conn = "open"
      PROVE  Ahead(s, page', room') /\ s.epoch = room'.epoch
  <2>1. CASE page' = page
    BY <1>1, <1>7, <2>1 DEF Current
  <2>2. CASE page' # page
    <3>1. page'.epoch = s.epoch /\ page'.sv = page'.shown
      BY <1>2, <1>3, <1>7, <2>2 DEF Current
    <3> QED
      BY <1>1, <1>4, <1>7, <3>1 DEF Ahead, Current, NumbersOK
  <2> QED
    BY <2>1, <2>2
<1>8. CASE conn = "open"
  <2>1. \A i \in States(outbox') : Current(outbox'[i])
    BY <1>1 DEF Behind
  <2>2. \A s \in Senders : sender'[s].phase = "holds" => Current(sender'[s].snapshot)
    BY <1>1 DEF Behind
  <2>3. \A i \in States(outbox') : Ahead(outbox'[i], page', room') /\ outbox'[i].epoch = room'.epoch
    BY <1>7, <1>8, <2>1
  <2>4. \A s \in Senders : sender'[s].phase = "holds"
          => Ahead(sender'[s].snapshot, page', room') /\ sender'[s].snapshot.epoch = room'.epoch
    BY <1>7, <1>8, <2>2
  <2>5. frame' = None /\ conn' = "open"
    BY <1>1, <1>8
  <2>6. (\A i \in States(outbox) : Current(outbox[i]))'
    BY <2>3 DEF Current
  <2>7. (\A s \in Senders : sender[s].phase = "holds" => Current(sender[s].snapshot))'
    BY <2>4 DEF Current
  <2> QED
    BY <1>5, <1>6, <2>5, <2>6, <2>7 DEF Behind
<1>9. CASE conn # "open"
  <2>1. Detached /\ Detached'
    BY <1>1, <1>9 DEF Behind, Detached
  <2>2. States(outbox') = {} /\ \A s \in Senders : sender'[s].phase # "holds"
    BY <2>1, EmptyHasNoStates, IdleHoldsNothing DEF Detached
  <2> QED
    BY <1>1, <1>5, <1>6, <1>9, <2>1, <2>2 DEF Behind
<1>10. Behind'
  BY <1>8, <1>9
<1> QED
  BY <1>5, <1>10

LEMMA InitBehind ==
  ASSUME Init
  PROVE  Behind
<1>1. room.sv = 1 /\ room.epoch = 1 /\ page.shown = 0 /\ page.epoch = 0 /\ frame = None
      /\ Detached /\ conn = "lost"
  BY DEF Init, Detached
<1>2. States(outbox) = {} /\ \A s \in Senders : sender[s].phase # "holds"
  BY <1>1, EmptyHasNoStates, IdleHoldsNothing DEF Detached
<1> QED
  BY <1>1, <1>2 DEF Behind

LEMMA BehindStep ==
  ASSUME TypeOK, TypeOK', Behind, [Next]_vars
  PROVE  Behind' /\ page'.shown >= page.shown /\ page'.epoch >= page.epoch
<1>1. page.shown \in Nat /\ page.epoch \in Nat
  <2>1. page \in Page
    BY DEF TypeOK
  <2> QED
    BY <2>1 DEF Page
<1>2. CASE UNCHANGED vars
  <2>1. UNCHANGED <<room, conn, outbox, sender, reply, page, frame>>
    BY <1>2 DEF vars
  <2>2. Behind'
    BY <2>1 DEF Behind, Current, Detached, States
  <2> QED
    BY <1>1, <2>1, <2>2
<1>3. CASE StateFrame
  BY <1>3, StateFrameBehind
<1>4. ASSUME Marks(page') = Marks(page)
      PROVE  page'.shown >= page.shown /\ page'.epoch >= page.epoch
  BY <1>1, <1>4 DEF Marks
<1>5. CASE Change \/ Rebuild \/ Dispatch \/ Acknowledge \/ Lose
  <2>1. UNCHANGED page
    BY <1>5, DispatchCases DEF Change, Rebuild, Acknowledge, Lose
  <2> QED
    BY <1>4, <1>5, <2>1, ChangeBehind, RebuildBehind, DispatchBehind, AcknowledgeBehind, LoseBehind DEF Marks
<1>6. ASSUME NEW s \in Senders, Take(s) \/ TakeFails(s) \/ SendSnapshot(s)
      PROVE  Behind' /\ page'.shown >= page.shown /\ page'.epoch >= page.epoch
  <2>1. UNCHANGED page
    BY <1>6 DEF Take, TakeFails, SendSnapshot
  <2> QED
    BY <1>4, <1>6, <2>1, TakeBehind, TakeFailsBehind, SendSnapshotBehind DEF Marks
<1>7. CASE Connect
  <2>1. page'.shown = page.shown /\ page'.epoch = page.epoch
    BY <1>7 DEF Connect, TypeOK, Page
  <2> QED
    BY <1>1, <1>7, <2>1, ConnectBehind
<1>8. CASE Receive \/ PatchFrame \/ Reorder \/ Expire
  BY <1>4, <1>8, ReceiveBehind, PatchFrameBehind, ReorderExpireBehind
<1> QED
  BY <1>2, <1>3, <1>5, <1>6, <1>7, <1>8 DEF Next, Quiet

(***************************************************************************)
(* The page never shows an older playback state than before, nor one of an *)
(* earlier runtime.                                                        *)
(***************************************************************************)
THEOREM PageMovesForward == Spec => NeverBackwards
<1>1. Init => TypeOK /\ Behind
  BY InitTyped, InitBehind
<1>2. TypeOK /\ Behind /\ [Next]_vars => TypeOK' /\ Behind'
  BY TypedStep, BehindStep
<1>3. TypeOK /\ Behind /\ [Next]_vars => [page'.shown >= page.shown /\ page'.epoch >= page.epoch]_vars
  BY TypedStep, BehindStep
<1> QED
  BY <1>1, <1>2, <1>3, PTL DEF Spec, NeverBackwards

-----------------------------------------------------------------------------
(* What is on its way, or put off, is the room as it was: of the runtime   *)
(* that runs it is no newer than the room, and when it is of the same      *)
(* version it is the same.                                                 *)

AsRoom(u, r) ==
  /\ u.epoch <= r.epoch
  /\ u.epoch = r.epoch => u.qv <= r.qv /\ (u.qv = r.qv => u.queue = r.queue)

StateTruth(s, r) ==
  /\ AsRoom(s, r)
  /\ s.epoch = r.epoch => s.sv <= r.sv
  /\ s.n <= r.n /\ s.ts <= r.n \div 2
  /\ s.n = r.n => s.ts = r.n \div 2
  /\ s.n = r.n /\ s.epoch = r.epoch => s.sv = r.sv /\ s.qv = r.qv

PatchTruth(d, r) ==
  /\ d.epoch <= r.epoch
  /\ d.epoch = r.epoch => d.qv <= r.qv
  /\ d.op = "snapshot" => AsRoom(d, r)

\* k reorderings have been sent.
MessageTruth(m, r, k) ==
  /\ m.type = "state" => StateTruth(m, r)
  /\ m.type = "patch" => PatchTruth(m, r) /\ m.epoch = r.epoch
  /\ m.type \in {"ack", "nack"} => m.id <= k

PageTruth(p, r) ==
  /\ p.deferred # None => AsRoom(p.deferred, r)
  /\ p.epoch = r.epoch => p.qv <= r.qv
  /\ p.sv <= p.shown /\ p.ts <= r.n \div 2
  /\ \A e \in p.retired : e < p.epoch

Truthful ==
  /\ \A i \in DOMAIN outbox : MessageTruth(outbox[i], room, reorders)
  /\ \A s \in Senders : sender[s].phase = "holds" => StateTruth(sender[s].snapshot, room)
  /\ frame # None => StateTruth(frame, room)
  /\ \A i \in DOMAIN patches : /\ PatchTruth(patches[i], room)
                               /\ conn = "open" => patches[i].epoch = room.epoch
  /\ PageTruth(page, room)
  /\ reply # None => reply.id <= reorders
  /\ \A i \in DOMAIN inbox : inbox[i].type = "reorder" => inbox[i].id <= reorders

\* The room has not gone back from r to q.
Later(r, q) ==
  /\ r.n <= q.n /\ r.epoch <= q.epoch
  /\ r.epoch = q.epoch => /\ r.sv <= q.sv /\ r.qv <= q.qv
                          /\ r.qv = q.qv => r.queue = q.queue
                          /\ r.n = q.n => r.sv = q.sv /\ r.qv = q.qv

LEMMA UpdateStays ==
  ASSUME NEW u, u.epoch \in Nat, u.qv \in Nat, NEW r \in Room, NEW q \in Room, Later(r, q), AsRoom(u, r)
  PROVE  AsRoom(u, q)
<1>1. /\ r.epoch \in Nat /\ q.epoch \in Nat /\ r.qv \in Nat /\ q.qv \in Nat
  BY DEF Room
<1>2. u.epoch <= q.epoch
  BY <1>1 DEF Later, AsRoom
<1>3. ASSUME u.epoch = q.epoch
      PROVE  u.qv <= q.qv /\ (u.qv = q.qv => u.queue = q.queue)
  <2>1. u.epoch = r.epoch /\ r.epoch = q.epoch
    BY <1>1, <1>3 DEF Later, AsRoom
  <2>2. u.qv <= r.qv /\ r.qv <= q.qv /\ (r.qv = q.qv => r.queue = q.queue) /\ (u.qv = r.qv => u.queue = r.queue)
    BY <2>1 DEF Later, AsRoom
  <2>3. u.qv <= q.qv /\ (u.qv = q.qv => u.qv = r.qv /\ r.qv = q.qv)
    BY <1>1, <2>2
  <2> QED
    BY <2>2, <2>3
<1> QED
  BY <1>2, <1>3 DEF AsRoom

LEMMA HalfGrows ==
  ASSUME NEW m \in Nat, NEW n \in Nat, m <= n
  PROVE  m \div 2 \in Nat /\ n \div 2 \in Nat /\ m \div 2 <= n \div 2
OBVIOUS

LEMMA StateStays ==
  ASSUME NEW s \in State, NEW r \in Room, NEW q \in Room, Later(r, q), StateTruth(s, r)
  PROVE  StateTruth(s, q)
<1>1. /\ r.epoch \in Nat /\ q.epoch \in Nat /\ r.n \in Nat /\ q.n \in Nat /\ r.sv \in Nat /\ q.sv \in Nat
      /\ s.epoch \in Nat /\ s.qv \in Nat /\ s.sv \in Nat /\ s.n \in Nat /\ s.ts \in Nat
  BY DEF Room, State
<1>2. AsRoom(s, q)
  BY <1>1, UpdateStays DEF StateTruth
<1>3. r.n \div 2 \in Nat /\ q.n \div 2 \in Nat /\ r.n \div 2 <= q.n \div 2 /\ (r.n = q.n => r.n \div 2 = q.n \div 2)
  BY <1>1, HalfGrows DEF Later
<1> DEFINE a == r.n \div 2
           b == q.n \div 2
<1> HIDE DEF a, b
<1>4. a \in Nat /\ b \in Nat /\ a <= b /\ (r.n = q.n => a = b)
  BY <1>3 DEF a, b
<1>5. s.n <= r.n /\ s.ts <= a /\ (s.n = r.n => s.ts = a)
  BY DEF StateTruth, a
<1>6. s.n <= q.n /\ s.ts <= b /\ (s.n = q.n => s.n = r.n /\ r.n = q.n /\ s.ts = b)
  BY <1>1, <1>4, <1>5 DEF Later
<1>7. s.epoch = q.epoch => s.epoch = r.epoch /\ r.epoch = q.epoch
  BY <1>1 DEF StateTruth, AsRoom, Later
<1>8. s.epoch = q.epoch => s.sv <= q.sv
  BY <1>1, <1>7 DEF StateTruth, Later
<1>9. s.n = q.n /\ s.epoch = q.epoch => s.sv = q.sv /\ s.qv = q.qv
  BY <1>6, <1>7 DEF StateTruth, Later
<1> QED
  BY <1>2, <1>6, <1>8, <1>9 DEF StateTruth, b

LEMMA PatchStays ==
  ASSUME NEW d \in Patch, NEW r \in Room, NEW q \in Room, Later(r, q), PatchTruth(d, r)
  PROVE  PatchTruth(d, q)
<1>1. /\ r.epoch \in Nat /\ q.epoch \in Nat /\ r.qv \in Nat /\ q.qv \in Nat /\ d.epoch \in Nat /\ d.qv \in Nat
  BY PatchFields DEF Room
<1>2. d.op = "snapshot" => AsRoom(d, q)
  BY <1>1, UpdateStays DEF PatchTruth
<1>3. d.epoch <= q.epoch /\ (d.epoch = q.epoch => d.epoch = r.epoch /\ r.epoch = q.epoch)
  BY <1>1 DEF PatchTruth, Later
<1>4. d.epoch = q.epoch => d.qv <= q.qv
  BY <1>1, <1>3 DEF PatchTruth, Later
<1> QED
  BY <1>2, <1>3, <1>4 DEF PatchTruth

LEMMA PageStays ==
  ASSUME NEW p \in Page, NEW r \in Room, NEW q \in Room, Later(r, q), p.epoch <= r.epoch, PageTruth(p, r)
  PROVE  PageTruth(p, q)
<1>1. /\ r.epoch \in Nat /\ q.epoch \in Nat /\ r.qv \in Nat /\ q.qv \in Nat /\ r.n \in Nat /\ q.n \in Nat
      /\ p.epoch \in Nat /\ p.qv \in Nat /\ p.ts \in Nat
  BY DEF Room, Page
<1>2. p.deferred # None => AsRoom(p.deferred, q)
  <2>1. p.deferred # None => p.deferred \in Update
    BY DEF Page
  <2>2. p.deferred # None => p.deferred.epoch \in Nat /\ p.deferred.qv \in Nat
    BY <2>1 DEF Update
  <2> QED
    BY <2>2, UpdateStays DEF PageTruth
<1>3. p.epoch = q.epoch => p.epoch = r.epoch /\ r.epoch = q.epoch
  BY <1>1 DEF Later
<1>4. p.epoch = q.epoch => p.qv <= q.qv
  BY <1>1, <1>3 DEF PageTruth, Later
<1>5. p.ts <= q.n \div 2
  <2> DEFINE a == r.n \div 2
             b == q.n \div 2
  <2>1. a \in Nat /\ b \in Nat /\ a <= b
    BY <1>1, HalfGrows DEF Later
  <2>2. p.ts <= a
    BY DEF PageTruth
  <2> HIDE DEF a, b
  <2>3. p.ts <= b
    BY <1>1, <2>1, <2>2
  <2> QED
    BY <2>3 DEF b
<1> QED
  BY <1>2, <1>4, <1>5 DEF PageTruth

-----------------------------------------------------------------------------
(* The page's stores stay truthful.                                        *)

\* The queue is the room's; the update put off is of the room's runtime.
Shown(p, r) == p.qv = r.qv /\ p.queue = r.queue
Held(p, r) == p.pending # {} /\ p.deferred # None /\ p.deferred.epoch = r.epoch

LEMMA ReplaceTruth ==
  ASSUME NEW p \in Page, NEW r \in Room, PageTruth(p, r),
         NEW u, u.qv \in Nat, u.queue \in Queue, AsRoom(u, r), u.epoch = p.epoch
  PROVE  /\ PageTruth(Replace(p, u), r)
         /\ Replace(p, u).pending = p.pending /\ Replace(p, u).deferred = p.deferred
         /\ p.epoch = r.epoch /\ (u.qv = r.qv \/ Shown(p, r)) => Shown(Replace(p, u), r)
<1>1. p.qv \in Nat /\ r.qv \in Nat
  BY DEF Page, Room
<1> DEFINE new == [p EXCEPT !.queue = u.queue, !.qv = u.qv]
<1>2. /\ new.pending = p.pending /\ new.deferred = p.deferred /\ new.queue = u.queue /\ new.qv = u.qv
      /\ new.epoch = p.epoch /\ new.sv = p.sv /\ new.shown = p.shown /\ new.ts = p.ts /\ new.retired = p.retired
  BY DEF Page
<1>3. Replace(p, u) = IF u.qv < p.qv THEN p ELSE new
  BY DEF Replace
<1> HIDE DEF new
<1>4. CASE u.qv < p.qv
  <2>1. Replace(p, u) = p
    BY <1>3, <1>4
  <2>2. p.epoch = r.epoch => p.qv <= r.qv
    BY DEF PageTruth
  <2>3. p.epoch = r.epoch => u.qv # r.qv
    BY <1>1, <1>4, <2>2
  <2> QED
    BY <2>1, <2>3
<1>5. CASE ~(u.qv < p.qv)
  <2>1. Replace(p, u) = new
    BY <1>3, <1>5
  <2>2. PageTruth(new, r)
    BY <1>2 DEF PageTruth, AsRoom
  <2>3. ASSUME p.epoch = r.epoch, u.qv = r.qv \/ Shown(p, r)
        PROVE  Shown(new, r)
    <3>1. u.qv <= r.qv /\ (u.qv = r.qv => u.queue = r.queue)
      BY <2>3 DEF AsRoom
    <3>2. u.qv = r.qv
      BY <1>1, <1>5, <2>3, <3>1 DEF Shown
    <3> QED
      BY <1>2, <3>1, <3>2 DEF Shown
  <2> QED
    BY <1>2, <2>1, <2>2, <2>3
<1> QED
  BY <1>4, <1>5

LEMMA PutOffTruth ==
  ASSUME NEW p \in Page, NEW r \in Room, PageTruth(p, r), NEW u \in Update, AsRoom(u, r)
  PROVE  LET q == [p EXCEPT !.deferred = u]
         IN  PageTruth(q, r) /\ q.pending = p.pending /\ q.deferred = u
<1> DEFINE q == [p EXCEPT !.deferred = u]
<1>1. /\ q.pending = p.pending /\ q.deferred = u /\ q.qv = p.qv
      /\ q.epoch = p.epoch /\ q.sv = p.sv /\ q.shown = p.shown /\ q.ts = p.ts /\ q.retired = p.retired
  BY DEF Page
<1> HIDE DEF q
<1>2. PageTruth(q, r)
  BY <1>1 DEF PageTruth
<1> QED
  BY <1>1, <1>2 DEF q

LEMMA UpdateOfPatch ==
  ASSUME NEW d \in Patch, d.op = "snapshot", NEW r, PatchTruth(d, r)
  PROVE  LET u == [epoch |-> d.epoch, qv |-> d.qv, queue |-> d.queue]
         IN  u \in Update /\ u # None /\ AsRoom(u, r) /\ u.epoch = d.epoch
<1> DEFINE u == [epoch |-> d.epoch, qv |-> d.qv, queue |-> d.queue]
<1>1. u \in Update
  BY PatchFields DEF Update
<1>2. u.epoch = d.epoch /\ u.qv = d.qv /\ u.queue = d.queue
  OBVIOUS
<1> HIDE DEF u
<1>3. AsRoom(u, r)
  BY <1>2 DEF PatchTruth, AsRoom
<1> QED
  BY <1>1, <1>2, <1>3, NoneAssumption DEF u

LEMMA ApplyPatchTruth ==
  ASSUME NEW p \in Page, NEW r \in Room, PageTruth(p, r), NEW d \in Patch, PatchTruth(d, r)
  PROVE  LET q == ApplyPatch(p, d).page
         IN  /\ PageTruth(q, r) /\ q.pending = p.pending
             /\ p.epoch = r.epoch /\ p.pending = {} /\ Shown(p, r) => Shown(q, r)
             /\ d.epoch = r.epoch /\ Held(p, r) => Held(q, r)
<1> DEFINE u == [epoch |-> d.epoch, qv |-> d.qv, queue |-> d.queue]
           held == [p EXCEPT !.deferred = u]
           moved == [p EXCEPT !.queue = Patched(p.queue, d), !.qv = d.qv]
           kept == [page |-> p, resync |-> FALSE]
           gap == [page |-> p, resync |-> TRUE]
           a == ApplyPatch(p, d)
<1>0. d.epoch \in Nat /\ d.qv \in Nat /\ p.qv \in Nat /\ r.qv \in Nat /\ (d.op = "snapshot" => d.queue \in Queue)
  BY PatchFields DEF Page, Room
<1>1. \/ a.page = p
      \/ p.pending # {} /\ d.op = "snapshot" /\ a.page = held
      \/ p.pending = {} /\ d.op = "snapshot" /\ d.epoch = p.epoch /\ a.page = Replace(p, d)
      \/ p.pending = {} /\ d.epoch = p.epoch /\ ~(d.qv <= p.qv) /\ a.page = moved
  BY DEF ApplyPatch
<1> HIDE DEF a
<1>2. CASE a.page = p
  BY <1>2 DEF a
<1>3. CASE p.pending # {} /\ d.op = "snapshot" /\ a.page = held
  <2>1. u \in Update /\ u # None /\ AsRoom(u, r) /\ u.epoch = d.epoch
    BY <1>3, UpdateOfPatch
  <2> HIDE DEF u
  <2>2. PageTruth(held, r) /\ held.pending = p.pending /\ held.deferred = u
    BY <2>1, PutOffTruth
  <2> HIDE DEF held
  <2>3. d.epoch = r.epoch => Held(a.page, r)
    BY <1>3, <2>1, <2>2 DEF Held
  <2> QED
    BY <1>3, <2>2, <2>3 DEF a
<1>4. CASE p.pending = {} /\ d.op = "snapshot" /\ d.epoch = p.epoch /\ a.page = Replace(p, d)
  <2>1. AsRoom(d, r)
    BY <1>4 DEF PatchTruth
  <2>2. /\ PageTruth(a.page, r) /\ a.page.pending = p.pending
        /\ p.epoch = r.epoch /\ Shown(p, r) => Shown(a.page, r)
    BY <1>0, <1>4, <2>1, ReplaceTruth
  <2> QED
    BY <1>4, <2>2 DEF Held, a
<1>5. CASE p.pending = {} /\ d.epoch = p.epoch /\ ~(d.qv <= p.qv) /\ a.page = moved
  <2>1. /\ moved.pending = p.pending /\ moved.deferred = p.deferred /\ moved.qv = d.qv
        /\ moved.epoch = p.epoch /\ moved.sv = p.sv /\ moved.shown = p.shown /\ moved.ts = p.ts
        /\ moved.retired = p.retired
    <3> DEFINE q == Patched(p.queue, d)
    <3>1. moved = [p EXCEPT !.queue = q, !.qv = d.qv]
      OBVIOUS
    <3> HIDE DEF moved, q
    <3> QED
      BY <3>1 DEF Page
  <2> HIDE DEF moved
  <2>2. PageTruth(moved, r)
    BY <1>5, <2>1 DEF PageTruth, PatchTruth
  <2>3. p.epoch = r.epoch => ~Shown(p, r)
    <3>1. p.epoch = r.epoch => d.qv <= r.qv
      BY <1>5 DEF PatchTruth
    <3> QED
      BY <1>0, <1>5, <3>1 DEF Shown
  <2> QED
    BY <1>5, <2>1, <2>2, <2>3 DEF Held, a
<1> QED
  BY <1>1, <1>2, <1>3, <1>4, <1>5

\* A set of pages that every patch of a frame stays in, the frame stays in.
LEMMA AppliedStays ==
  ASSUME NEW P, NEW p \in P, NEW ds, Len(ds) \in Nat,
         \A q \in P, i \in 1..Len(ds) : ApplyPatch(q, ds[i]).page \in P
  PROVE  Applied(p, ds).page \in P
<1> DEFINE n == Len(ds)
<1>1. PICK g : Run(g, p, ds, n) /\ Applied(p, ds) = g[n]
  BY AppliedRun
<1> DEFINE T == {k \in 0..n : g[k].page \notin P}
<1>2. T = {}
  <2> SUFFICES ASSUME T # {} PROVE FALSE
    OBVIOUS
  <2>1. PICK k \in T : \A m \in T : k <= m
    <3>1. T \subseteq Nat
      OBVIOUS
    <3> HIDE DEF T
    <3> QED
      BY <3>1, LeastNatural
  <2>2. g[0].page = p
    BY <1>1 DEF Run
  <2>3. k \in 1..n /\ k - 1 \in 0..n /\ ~(k <= k - 1)
    BY <2>1, <2>2
  <2>4. g[k - 1].page \in P
    BY <2>1, <2>3
  <2>5. g[k] = Then(g[k - 1], ds[k])
    BY <1>1, <2>3 DEF Run
  <2>6. g[k].page = ApplyPatch(g[k - 1].page, ds[k]).page
    BY <2>5 DEF Then
  <2> QED
    BY <2>1, <2>3, <2>4, <2>6
<1> QED
  BY <1>1, <1>2

LEMMA AppliedTruth ==
  ASSUME NEW p \in Page, NEW r \in Room, PageTruth(p, r), NEW ds \in Seq(Patch),
         \A i \in DOMAIN ds : PatchTruth(ds[i], r)
  PROVE  LET q == Applied(p, ds).page
         IN  /\ PageTruth(q, r) /\ q.pending = p.pending /\ Marks(q) = Marks(p)
             /\ p.epoch = r.epoch /\ p.pending = {} /\ Shown(p, r) => Shown(q, r)
             /\ (\A i \in DOMAIN ds : ds[i].epoch = r.epoch) /\ Held(p, r) => Held(q, r)
<1> DEFINE shows == p.epoch = r.epoch /\ p.pending = {} /\ Shown(p, r)
           holds == (\A i \in DOMAIN ds : ds[i].epoch = r.epoch) /\ Held(p, r)
           P == {q \in Page : /\ PageTruth(q, r) /\ q.pending = p.pending /\ Marks(q) = Marks(p)
                              /\ shows => Shown(q, r)
                              /\ holds => Held(q, r)}
<1>1. Len(ds) \in Nat /\ DOMAIN ds = 1..Len(ds) /\ \A i \in 1..Len(ds) : ds[i] \in Patch
  BY LenProperties, ElementOfSeq
<1>2. p \in P
  OBVIOUS
<1>3. ASSUME NEW q \in P, NEW i \in 1..Len(ds)
      PROVE  ApplyPatch(q, ds[i]).page \in P
  <2> DEFINE w == ApplyPatch(q, ds[i]).page
  <2>1. /\ q \in Page /\ PageTruth(q, r) /\ q.pending = p.pending /\ Marks(q) = Marks(p)
        /\ shows => Shown(q, r)
        /\ holds => Held(q, r)
    OBVIOUS
  <2>2. w \in Page /\ Marks(w) = Marks(q)
    BY <1>1, <2>1, ApplyPatchKeeps
  <2>3. /\ PageTruth(w, r) /\ w.pending = q.pending
        /\ q.epoch = r.epoch /\ q.pending = {} /\ Shown(q, r) => Shown(w, r)
        /\ ds[i].epoch = r.epoch /\ Held(q, r) => Held(w, r)
    BY <1>1, <2>1, ApplyPatchTruth
  <2>4. q.epoch = p.epoch
    BY <2>1 DEF Marks
  <2> HIDE DEF w
  <2>5. shows => Shown(w, r)
    BY <2>1, <2>3, <2>4
  <2>6. holds => Held(w, r)
    BY <1>1, <2>1, <2>3
  <2>7. w \in P
    BY <2>1, <2>2, <2>3, <2>5, <2>6
  <2> QED
    BY <2>7 DEF w
<1> HIDE DEF P
<1>4. Applied(p, ds).page \in P
  BY <1>1, <1>2, <1>3, AppliedStays
<1> QED
  BY <1>4 DEF P

\* The update that was put off is the room's queue.
Exact(u, r) == u.epoch = r.epoch /\ u.qv = r.qv /\ u.queue = r.queue

LEMMA ApplyDeferredTruth ==
  ASSUME NEW p \in Page, NEW r \in Room, PageTruth(p, r)
  PROVE  LET q == ApplyDeferred(p)
         IN  /\ PageTruth(q, r) /\ q.pending = p.pending
             /\ p.epoch = r.epoch /\ p.deferred # None /\ Exact(p.deferred, r) => Shown(q, r)
<1>1. CASE p.deferred = None
  BY <1>1 DEF ApplyDeferred
<1>2. CASE p.deferred # None
  <2> DEFINE u == p.deferred
             w == IF u.epoch = p.epoch THEN Replace(p, u) ELSE p
             q == [w EXCEPT !.deferred = None]
  <2>1. u \in Update
    BY <1>2 DEF Page
  <2>2. u.qv \in Nat /\ u.queue \in Queue /\ AsRoom(u, r)
    BY <1>2, <2>1 DEF Update, PageTruth
  <2>3. ApplyDeferred(p) = q
    BY <1>2 DEF ApplyDeferred
  <2>4. w \in Page /\ Marks(w) = Marks(p)
    BY <2>2, ReplaceKeeps
  <2>5. PageTruth(w, r) /\ w.pending = p.pending
    BY <2>2, ReplaceTruth
  <2>6. p.epoch = r.epoch /\ Exact(u, r) => Shown(w, r)
    BY <2>2, ReplaceTruth DEF Exact
  <2> HIDE DEF w
  <2>7. /\ q.pending = w.pending /\ q.deferred = None /\ q.qv = w.qv /\ q.queue = w.queue
        /\ q.epoch = w.epoch /\ q.sv = w.sv /\ q.shown = w.shown /\ q.ts = w.ts /\ q.retired = w.retired
    BY <2>4 DEF Page
  <2> HIDE DEF q
  <2>8. PageTruth(q, r)
    BY <2>5, <2>7 DEF PageTruth
  <2>9. p.epoch = r.epoch /\ Exact(u, r) => Shown(q, r)
    BY <2>6, <2>7 DEF Shown
  <2> QED
    BY <2>3, <2>5, <2>7, <2>8, <2>9
<1> QED
  BY <1>1, <1>2

\* One reordering less: what is pending alone changes.
LEMMA LessPending ==
  ASSUME NEW p \in Page, NEW r \in Room, PageTruth(p, r), NEW id
  PROVE  LET q == [p EXCEPT !.pending = @ \ {id}]
         IN  /\ q \in Page /\ PageTruth(q, r) /\ Marks(q) = Marks(p)
             /\ q.pending = p.pending \ {id} /\ q.deferred = p.deferred /\ q.qv = p.qv /\ q.queue = p.queue
<1> DEFINE q == [p EXCEPT !.pending = @ \ {id}]
<1>1. /\ q \in Page
      /\ q.pending = p.pending \ {id} /\ q.deferred = p.deferred /\ q.qv = p.qv /\ q.queue = p.queue
      /\ q.epoch = p.epoch /\ q.sv = p.sv /\ q.shown = p.shown /\ q.ts = p.ts /\ q.retired = p.retired
  BY DEF Page
<1> HIDE DEF q
<1>2. PageTruth(q, r) /\ Marks(q) = Marks(p)
  BY <1>1 DEF PageTruth, Marks
<1> QED
  BY <1>1, <1>2 DEF q

LEMMA SettleAckTruth ==
  ASSUME NEW p \in Page, NEW r \in Room, PageTruth(p, r), NEW id
  PROVE  LET q == SettleAck(p, id)
         IN  /\ PageTruth(q, r) /\ q.pending = p.pending \ {id}
             /\ p.pending = {} /\ Shown(p, r) => Shown(q, r)
             /\ p.epoch = r.epoch /\ p.pending # {} /\ p.deferred # None /\ Exact(p.deferred, r)
                  => \/ q.pending = {} /\ Shown(q, r)
                     \/ q.pending # {} /\ q.deferred = p.deferred
<1> DEFINE s == [p EXCEPT !.pending = @ \ {id}]
           q == SettleAck(p, id)
<1>1. /\ s \in Page /\ PageTruth(s, r) /\ Marks(s) = Marks(p)
      /\ s.pending = p.pending \ {id} /\ s.deferred = p.deferred /\ s.qv = p.qv /\ s.queue = p.queue
  BY LessPending
<1>2. q = IF id \notin p.pending \/ s.pending # {} THEN s ELSE ApplyDeferred(s)
  BY DEF SettleAck
<1> HIDE DEF s, q
<1>3. CASE id \notin p.pending \/ s.pending # {}
  <2>1. q = s
    BY <1>2, <1>3
  <2>2. p.pending # {} => q.pending # {}
    BY <1>1, <1>3, <2>1
  <2> QED
    BY <1>1, <2>1, <2>2 DEF Shown, q
<1>4. CASE ~(id \notin p.pending \/ s.pending # {})
  <2>1. q = ApplyDeferred(s) /\ s.pending = {} /\ p.pending # {}
    BY <1>2, <1>4
  <2>2. /\ PageTruth(q, r) /\ q.pending = s.pending
        /\ s.epoch = r.epoch /\ s.deferred # None /\ Exact(s.deferred, r) => Shown(q, r)
    BY <1>1, <2>1, ApplyDeferredTruth
  <2>3. s.epoch = p.epoch
    BY <1>1 DEF Marks
  <2> QED
    BY <1>1, <2>1, <2>2, <2>3 DEF q
<1> QED
  BY <1>3, <1>4

LEMMA SettleNackTruth ==
  ASSUME NEW p \in Page, NEW r \in Room, PageTruth(p, r), NEW id
  PROVE  PageTruth(SettleNack(p, id), r)
<1> DEFINE s == [p EXCEPT !.pending = @ \ {id}, !.deferred = None]
<1>1. /\ s.deferred = None /\ s.qv = p.qv
      /\ s.epoch = p.epoch /\ s.sv = p.sv /\ s.shown = p.shown /\ s.ts = p.ts /\ s.retired = p.retired
  BY DEF Page
<1>2. SettleNack(p, id) \in {p, s}
  BY DEF SettleNack
<1> HIDE DEF s
<1>3. PageTruth(s, r)
  BY <1>1 DEF PageTruth
<1> QED
  BY <1>2, <1>3

\* What the page makes of a state: of the newest it takes the queue, or puts
\* it off; a page that has the newest is not led astray by an older one.
LEMMA SetQueueTruth ==
  ASSUME NEW p \in Page, NEW r \in Room, PageTruth(p, r), NEW u \in Update, AsRoom(u, r), u.epoch = p.epoch
  PROVE  LET q == SetQueue(p, u)
         IN  /\ PageTruth(q, r) /\ q.pending = p.pending
             /\ p.pending # {} => q.deferred = u
             /\ p.pending = {} /\ p.epoch = r.epoch /\ (u.qv = r.qv \/ Shown(p, r)) => Shown(q, r)
<1>1. u.qv \in Nat /\ u.queue \in Queue
  BY DEF Update
<1>2. CASE p.pending # {}
  BY <1>2, PutOffTruth DEF SetQueue
<1>3. CASE p.pending = {}
  <2>1. SetQueue(p, u) = Replace(p, u)
    BY <1>3 DEF SetQueue
  <2>2. /\ PageTruth(Replace(p, u), r) /\ Replace(p, u).pending = p.pending
        /\ p.epoch = r.epoch /\ (u.qv = r.qv \/ Shown(p, r)) => Shown(Replace(p, u), r)
    BY <1>1, ReplaceTruth
  <2> QED
    BY <1>3, <2>1, <2>2
<1> QED
  BY <1>2, <1>3

LEMMA GenerationTruth ==
  ASSUME NEW p \in Page, NEW r \in Room, PageTruth(p, r), NEW s \in State, p.epoch <= s.epoch
  PROVE  LET g == Generation(p, s)
         IN  /\ g \in Page /\ PageTruth(g, r) /\ g.epoch = s.epoch
             /\ s.epoch = p.epoch => g = p
<1>1. CASE s.epoch = p.epoch
  BY <1>1 DEF Generation
<1>2. CASE s.epoch # p.epoch
  <2> DEFINE left == p.retired \cup ({p.epoch} \ {0})
             g == Generation(p, s)
             new == [epoch |-> s.epoch, sv |-> 0, ts |-> 0, qv |-> 0, queue |-> <<>>, shown |-> p.shown,
                     retired |-> left, deferred |-> None, pending |-> {}]
  <2>1. g = [p EXCEPT !.retired = left, !.epoch = s.epoch, !.qv = 0, !.queue = <<>>,
                      !.deferred = None, !.pending = {}, !.sv = 0, !.ts = 0]
    BY <1>2 DEF Generation
  <2>2. s.epoch \in 1..2 /\ p.epoch \in 0..2 /\ p.shown \in Nat /\ p.retired \subseteq 1..2
    BY DEF State, Page
  <2>3. left \in SUBSET (1..2) /\ \A e \in left : e < s.epoch
    <3>1. p.epoch < s.epoch
      BY <1>2, <2>2
    <3>2. \A e \in p.retired : e < p.epoch /\ e \in 1..2
      BY <2>2 DEF PageTruth
    <3>3. \A e \in p.retired : e < s.epoch
      BY <2>2, <3>1, <3>2
    <3> QED
      BY <2>2, <3>1, <3>3
  <2> HIDE DEF left, g
  <2>4. g = new
    BY <2>1 DEF Page
  <2>5. <<>> \in Queue
    BY EmptySeq DEF Queue
  <2>6. new \in Page
    BY <2>2, <2>3, <2>5 DEF Page
  <2>7. 0 <= p.shown /\ 0 <= r.n \div 2 /\ 0 <= r.qv
    <3>1. r.n \in Nat /\ r.qv \in Nat
      BY DEF Room
    <3> QED
      BY <2>2, <3>1
  <2>8. PageTruth(new, r)
    BY <2>3, <2>7 DEF PageTruth
  <2> QED
    BY <1>2, <2>4, <2>6, <2>8 DEF g
<1> QED
  BY <1>1, <1>2

LEMMA SyncStateTruth ==
  ASSUME NEW p \in Page, NEW r \in Room, PageTruth(p, r), NEW s \in State, StateTruth(s, r),
         p.epoch <= s.epoch, p.shown <= r.sv
  PROVE  LET q == SyncState(p, s)
         IN  /\ PageTruth(q, r)
             /\ s.n = r.n /\ s.epoch = r.epoch
                  => /\ q.epoch = r.epoch /\ q.sv = r.sv /\ q.shown = r.sv
                     /\ \/ q.pending = {} /\ Shown(q, r)
                        \/ q.pending # {} /\ q.deferred # None /\ Exact(q.deferred, r)
             /\ s.epoch = r.epoch /\ p.epoch = r.epoch /\ p.sv = r.sv /\ p.shown = r.sv
                  => /\ q.epoch = r.epoch /\ q.sv = r.sv /\ q.shown = r.sv /\ q.pending = p.pending
                     /\ p.pending = {} /\ Shown(p, r) => Shown(q, r)
                     /\ Held(p, r) => Held(q, r)
<1> DEFINE u == [epoch |-> s.epoch, qv |-> s.qv, queue |-> s.queue]
           g == Generation(p, s)
           h == [g EXCEPT !.sv = s.sv, !.ts = s.ts, !.shown = s.sv]
           q == SyncState(p, s)
           behind == s.sv < g.sv \/ (s.sv = g.sv /\ s.ts < g.ts)
<1>1. /\ s.epoch \in 1..2 /\ s.sv \in Nat /\ s.ts \in Nat /\ s.qv \in Nat /\ s.queue \in Queue /\ s.n \in Nat
      /\ r.epoch \in 1..2 /\ r.sv \in Nat /\ r.n \in Nat /\ r.qv \in Nat
      /\ p.epoch \in 0..2 /\ p.retired \subseteq 1..2 /\ p.sv \in Nat /\ p.shown \in Nat
  BY DEF State, Room, Page
<1>2. u \in Update /\ AsRoom(u, r) /\ u.epoch = s.epoch /\ u.qv = s.qv /\ u.queue = s.queue /\ u # None
  <2>1. u \in Update /\ u # None
    BY <1>1, NoneAssumption DEF Update
  <2>2. u.epoch = s.epoch /\ u.qv = s.qv /\ u.queue = s.queue
    OBVIOUS
  <2> HIDE DEF u
  <2> QED
    BY <2>1, <2>2 DEF StateTruth, AsRoom
<1>3. /\ g \in Page /\ PageTruth(g, r) /\ g.epoch = s.epoch
      /\ s.epoch = p.epoch => g = p
  BY GenerationTruth
<1>4. s.epoch \notin p.retired
  BY <1>1 DEF PageTruth
<1>5. q = IF behind THEN g ELSE SetQueue(h, u)
  BY <1>4 DEF SyncState
<1> HIDE DEF g, u, q
<1>6. /\ h \in Page /\ h.epoch = s.epoch /\ h.sv = s.sv /\ h.shown = s.sv /\ h.ts = s.ts
      /\ h.pending = g.pending /\ h.deferred = g.deferred /\ h.qv = g.qv /\ h.queue = g.queue /\ h.retired = g.retired
  BY <1>1, <1>3 DEF Page
<1> HIDE DEF h
<1>7. PageTruth(h, r)
  <2>1. s.sv <= s.sv /\ s.ts <= r.n \div 2
    BY <1>1 DEF StateTruth
  <2> QED
    BY <1>3, <1>6, <2>1 DEF PageTruth
<1> DEFINE w == SetQueue(h, u)
<1>8. /\ w.epoch = s.epoch /\ w.sv = s.sv /\ w.shown = s.sv
  BY <1>2, <1>6, SetQueueKeeps DEF Marks
<1>9. /\ PageTruth(w, r) /\ w.pending = g.pending
      /\ g.pending # {} => w.deferred = u
      /\ g.pending = {} /\ s.epoch = r.epoch /\ (u.qv = r.qv \/ Shown(g, r)) => Shown(w, r)
  <2>1. /\ PageTruth(w, r) /\ w.pending = h.pending
        /\ h.pending # {} => w.deferred = u
        /\ h.pending = {} /\ h.epoch = r.epoch /\ (u.qv = r.qv \/ Shown(h, r)) => Shown(w, r)
    BY <1>2, <1>6, <1>7, SetQueueTruth
  <2> QED
    BY <1>6, <2>1 DEF Shown
<1> HIDE DEF w
<1>10. PageTruth(q, r)
  BY <1>3, <1>5, <1>9 DEF w
<1>11. ASSUME s.n = r.n, s.epoch = r.epoch
       PROVE  /\ q.epoch = r.epoch /\ q.sv = r.sv /\ q.shown = r.sv
              /\ \/ q.pending = {} /\ Shown(q, r)
                 \/ q.pending # {} /\ q.deferred # None /\ Exact(q.deferred, r)
  <2> DEFINE half == r.n \div 2
  <2>1. s.sv = r.sv /\ s.qv = r.qv /\ s.queue = r.queue /\ s.ts = half
    BY <1>11 DEF StateTruth, AsRoom
  <2>2. g.sv <= r.sv /\ g.ts <= half
    <3>1. g.sv <= g.shown /\ g.ts <= half /\ g.sv \in Nat /\ g.shown \in Nat
      BY <1>3 DEF PageTruth, Page
    <3>2. CASE s.epoch = p.epoch
      BY <1>1, <1>3, <3>1, <3>2
    <3>3. CASE s.epoch # p.epoch
      <4>1. g.shown = p.shown
        BY <3>3 DEF g, Generation, Page
      <4> QED
        BY <1>1, <3>1, <4>1
    <3> QED
      BY <3>2, <3>3
  <2>3. g.sv \in Nat /\ g.ts \in Nat /\ half \in Nat
    <3>1. g.sv \in Nat /\ g.ts \in Nat
      BY <1>3 DEF Page
    <3> QED
      BY <1>1, <3>1
  <2> HIDE DEF half
  <2>4. ~behind
    BY <1>1, <2>1, <2>2, <2>3
  <2>5. q = w
    BY <1>5, <2>4 DEF w
  <2>6. q.pending # {} => q.deferred # None /\ Exact(q.deferred, r)
    BY <1>2, <1>9, <1>11, <2>1, <2>5 DEF Exact
  <2>7. q.pending = {} => Shown(q, r)
    BY <1>2, <1>9, <1>11, <2>1, <2>5
  <2> QED
    BY <1>8, <1>11, <2>1, <2>5, <2>6, <2>7
<1>12. ASSUME s.epoch = r.epoch, p.epoch = r.epoch, p.sv = r.sv, p.shown = r.sv
       PROVE  /\ q.epoch = r.epoch /\ q.sv = r.sv /\ q.shown = r.sv /\ q.pending = p.pending
              /\ p.pending = {} /\ Shown(p, r) => Shown(q, r)
              /\ Held(p, r) => Held(q, r)
  <2>1. g = p
    BY <1>3, <1>12
  <2>2. CASE behind
    BY <1>5, <1>12, <2>1, <2>2
  <2>3. CASE ~behind
    <3>1. q = w
      BY <1>5, <2>3 DEF w
    <3>2. s.sv = r.sv
      BY <1>1, <1>12, <2>1, <2>3 DEF StateTruth
    <3>3. Held(p, r) => Held(q, r)
      BY <1>2, <1>9, <1>12, <2>1, <3>1 DEF Held
    <3> QED
      BY <1>8, <1>9, <1>12, <2>1, <3>1, <3>2, <3>3
  <2> QED
    BY <2>2, <2>3
<1> QED
  BY <1>10, <1>11, <1>12 DEF q

-----------------------------------------------------------------------------
(* Until the page has the newest state, that state is on its way, or a     *)
(* snapshot or a resync is due that will be it.                            *)

Newest(s) == s.n = room.n

Coming ==
  \/ \E i \in States(outbox) : Newest(outbox[i])
  \/ frame # None /\ Newest(frame)
  \/ \E s \in Senders : sender[s].phase = "due" \/ (sender[s].phase = "holds" /\ Newest(sender[s].snapshot))
  \/ \E i \in DOMAIN inbox : inbox[i].type = "resync"

\* The handler has confirmed a reordering, and the page has yet to hear.
Acked(id) ==
  \/ reply # None /\ reply.type = "ack" /\ reply.id = id
  \/ \E i \in DOMAIN outbox : outbox[i].type = "ack" /\ outbox[i].id = id

\* The page has the newest state; a reordering that is pending will be
\* settled by a resync, or by what was put off meanwhile.
Absorbed ==
  /\ page.epoch = room.epoch /\ page.sv = room.sv /\ page.shown = room.sv
  /\ \/ page.pending = {} /\ Shown(page, room)
     \/ \E id \in page.pending : ~Acked(id)
     \/ page.pending # {} /\ page.deferred # None /\ Exact(page.deferred, room)

Reaching == conn = "open" => overtaken \/ missed \/ Coming \/ Absorbed

Faithful == Truthful /\ Reaching

LEMMA RoomFacts ==
  ASSUME TypeOK
  PROVE  room \in Room /\ page \in Page
BY DEF TypeOK, Room

LEMMA AtRestFollows ==
  ASSUME Reaching
  PROVE  AtRestInSync
<1> SUFFICES ASSUME AtRest, conn = "open", ~overtaken, ~missed
             PROVE  InSync
  BY DEF AtRestInSync
<1>1. ~Coming
  <2>1. States(outbox) = {} /\ DOMAIN inbox = {}
    BY EmptyHasNoStates DEF AtRest
  <2>2. \A s \in Senders : sender[s].phase = "idle"
    BY DEF AtRest, Idle
  <2> QED
    BY <2>1, <2>2 DEF Coming, AtRest
<1>2. Absorbed /\ page.pending = {}
  BY <1>1 DEF Reaching, AtRest
<1> QED
  BY <1>2 DEF Absorbed, InSync, Shown

\* What was true of the room stays true of it, whatever becomes of the rest.
LEMMA TruthStays ==
  ASSUME TypeOK, TypeOK', Behind, Truthful, Later(room, room'), reorders' >= reorders
  PROVE  /\ PageTruth(page, room')
         /\ frame # None => StateTruth(frame, room')
         /\ \A i \in DOMAIN patches : PatchTruth(patches[i], room')
         /\ \A s \in Senders : sender[s].phase = "holds" => StateTruth(sender[s].snapshot, room')
         /\ room'.epoch = room.epoch => \A i \in DOMAIN outbox : MessageTruth(outbox[i], room', reorders')
<1>1. room \in Room /\ room' \in Room /\ page \in Page
  BY RoomFacts DEF TypeOK, Room
<1>2. PageTruth(page, room')
  BY <1>1, PageStays DEF Truthful, Behind
<1>3. frame # None => StateTruth(frame, room')
  <2>1. frame # None => frame \in State
    BY DEF TypeOK
  <2> QED
    BY <1>1, <2>1, StateStays DEF Truthful
<1>4. ASSUME NEW i \in DOMAIN patches
      PROVE  PatchTruth(patches[i], room')
  <2>1. patches \in Seq(Patch)
    BY DEF TypeOK
  <2>2. patches[i] \in Patch
    BY <2>1, LenProperties, ElementOfSeq
  <2> QED
    BY <1>1, <2>2, PatchStays DEF Truthful
<1>5. ASSUME NEW s \in Senders, sender[s].phase = "holds"
      PROVE  StateTruth(sender[s].snapshot, room')
  <2>1. sender[s].snapshot \in State
    <3>1. sender \in [Senders -> SenderStates]
      BY DEF TypeOK, SenderStates
    <3> QED
      BY <1>5, <3>1 DEF SenderStates, Idle, Due
  <2> QED
    BY <1>1, <1>5, <2>1, StateStays DEF Truthful
<1>6. ASSUME room'.epoch = room.epoch, NEW i \in DOMAIN outbox
      PROVE  MessageTruth(outbox[i], room', reorders')
  <2> DEFINE m == outbox[i]
  <2>1. m \in Message /\ MessageTruth(m, room, reorders)
    <3>1. outbox \in Seq(Message)
      BY TypeFacts DEF Filled
    <3> QED
      BY <3>1, LenProperties, ElementOfSeq DEF Truthful
  <2> HIDE DEF m
  <2>2. m.type = "state" => m \in State
    BY <2>1 DEF Message, Patch, Answer
  <2>3. m.type = "patch" => m \in Patch
    BY <2>1 DEF Message, State, Answer
  <2>4. m.type \in {"ack", "nack"} => m \in Answer
    BY <2>1 DEF Message, State, Patch
  <2>5. m.type = "state" => StateTruth(m, room')
    BY <1>1, <2>1, <2>2, StateStays DEF MessageTruth
  <2>6. m.type = "patch" => PatchTruth(m, room') /\ m.epoch = room'.epoch
    BY <1>1, <1>6, <2>1, <2>3, PatchStays DEF MessageTruth
  <2>7. m.type \in {"ack", "nack"} => m.id <= reorders'
    <3>1. reorders \in Nat /\ reorders' \in Nat
      BY SyncAssumption DEF TypeOK
    <3>2. m.type \in {"ack", "nack"} => m.id \in Nat
      BY <2>4, SyncAssumption DEF Answer
    <3> QED
      BY <2>1, <3>1, <3>2 DEF MessageTruth
  <2> QED
    BY <2>5, <2>6, <2>7 DEF MessageTruth, m
<1> QED
  BY <1>2, <1>3, <1>4, <1>5, <1>6

LEMMA SameIsLater ==
  ASSUME TypeOK, UNCHANGED room
  PROVE  Later(room, room')
BY TypeFacts DEF Later

\* Of actions that leave the room alone, what is new must be told.
LEMMA QuietTruth ==
  ASSUME TypeOK, TypeOK', Behind, Truthful, UNCHANGED room, reorders' >= reorders,
         \A i \in DOMAIN outbox' : \/ MessageTruth(outbox'[i], room, reorders')
                                   \/ \E j \in DOMAIN outbox : outbox'[i] = outbox[j],
         \A s \in Senders : sender'[s].phase = "holds"
            => \/ StateTruth(sender'[s].snapshot, room)
               \/ sender[s].phase = "holds" /\ sender'[s].snapshot = sender[s].snapshot,
         frame' # None => frame' = frame \/ StateTruth(frame', room),
         \A i \in DOMAIN patches' : \/ PatchTruth(patches'[i], room) /\ patches'[i].epoch = room.epoch
                                    \/ conn' = conn /\ \E j \in DOMAIN patches : patches'[i] = patches[j]
                                    \/ conn' # "open" /\ \E j \in DOMAIN patches : patches'[i] = patches[j],
         page' = page \/ PageTruth(page', room),
         reply' # None => reply' = reply \/ reply'.id <= reorders',
         \A i \in DOMAIN inbox' : inbox'[i].type = "reorder"
            => inbox'[i].id <= reorders' \/ \E j \in DOMAIN inbox : inbox'[i] = inbox[j]
  PROVE  Truthful'
<1>1. /\ PageTruth(page, room')
      /\ frame # None => StateTruth(frame, room')
      /\ \A i \in DOMAIN patches : PatchTruth(patches[i], room')
      /\ \A s \in Senders : sender[s].phase = "holds" => StateTruth(sender[s].snapshot, room')
      /\ \A i \in DOMAIN outbox : MessageTruth(outbox[i], room', reorders')
  BY SameIsLater, TruthStays
<1>2. \A i \in DOMAIN outbox' : MessageTruth(outbox'[i], room', reorders')
  BY <1>1
<1>3. \A s \in Senders : sender'[s].phase = "holds" => StateTruth(sender'[s].snapshot, room')
  BY <1>1
<1>4. frame' # None => StateTruth(frame', room')
  BY <1>1
<1>5. \A i \in DOMAIN patches' : /\ PatchTruth(patches'[i], room')
                                 /\ conn' = "open" => patches'[i].epoch = room'.epoch
  BY <1>1 DEF Truthful
<1>6. PageTruth(page', room')
  BY <1>1
<1>7. reorders \in Nat /\ reorders' \in Nat
  BY SyncAssumption DEF TypeOK
<1>8. reply' # None => reply'.id <= reorders'
  <2>1. reply # None => reply.id \in Nat /\ reply.id <= reorders
    <3>1. reply # None => reply \in Answer
      BY DEF TypeOK
    <3> QED
      BY <3>1, SyncAssumption DEF Answer, Truthful
  <2> QED
    BY <1>7, <2>1
<1>9. ASSUME NEW i \in DOMAIN inbox', inbox'[i].type = "reorder"
      PROVE  inbox'[i].id <= reorders'
  <2>1. ASSUME NEW j \in DOMAIN inbox, inbox[j].type = "reorder"
        PROVE  inbox[j].id \in Nat /\ inbox[j].id <= reorders
    <3>1. inbox \in Seq(Request)
      BY DEF TypeOK
    <3>2. inbox[j] \in Request
      BY <3>1, LenProperties, ElementOfSeq
    <3> QED
      BY <2>1, <3>2, RequestFields, SyncAssumption DEF Truthful
  <2> QED
    BY <1>7, <1>9, <2>1
<1> QED
  BY <1>2, <1>3, <1>4, <1>5, <1>6, <1>8, <1>9 DEF Truthful

\* A change of the room is reported, as a state and, of the queue, a patch;
\* the client that cannot take them is given up.
LEMMA PublishFaithful ==
  ASSUME TypeOK, TypeOK', Behind, Truthful, Publishes, UNCHANGED <<page, frame, patches, reorders>>,
         conn' = conn =>
            /\ \A s \in Senders : sender'[s].phase = "holds"
                  => sender[s].phase = "holds" /\ sender'[s].snapshot = sender[s].snapshot
            /\ reply' # None => reply' = reply \/ reply'.id <= reorders
            /\ \A i \in DOMAIN inbox' : \E j \in DOMAIN inbox : inbox'[i] = inbox[j]
  PROVE  Faithful'
<1>1. /\ room'.n = room.n + 1 /\ room'.epoch = room.epoch /\ room'.sv >= room.sv /\ overtaken' = FALSE /\ missed' = FALSE
      /\ \E patch \in Patch \cup {None} :
           /\ Fits(room'.queue, patch) /\ room'.qv = IF patch = None THEN room.qv ELSE room.qv + 1
           /\ Reported(patch)
  BY Published
<1>2. PICK patch \in Patch \cup {None} :
           /\ Fits(room'.queue, patch) /\ room'.qv = IF patch = None THEN room.qv ELSE room.qv + 1
           /\ Reported(patch)
  BY <1>1
<1>3. /\ room.n \in Nat /\ room.sv \in Nat /\ room.qv \in Nat /\ room.epoch \in Nat
      /\ room'.n \in Nat /\ room'.sv \in Nat /\ room'.qv \in Nat /\ room'.epoch \in Nat
  BY RoomFacts, TypeFacts DEF TypeOK, Room
<1>4. Later(room, room')
  <2>1. room.qv = room'.qv => room'.queue = room.queue
    BY <1>2, <1>3 DEF Fits
  <2>2. room.qv <= room'.qv /\ room.n <= room'.n /\ room.n # room'.n /\ room.sv <= room'.sv
    BY <1>1, <1>2, <1>3
  <2> QED
    BY <1>1, <1>3, <2>1, <2>2 DEF Later
<1>5. /\ PageTruth(page, room')
      /\ frame # None => StateTruth(frame, room')
      /\ \A i \in DOMAIN patches : PatchTruth(patches[i], room')
      /\ \A s \in Senders : sender[s].phase = "holds" => StateTruth(sender[s].snapshot, room')
      /\ \A i \in DOMAIN outbox : MessageTruth(outbox[i], room', reorders')
  <2>1. reorders' >= reorders
    BY SyncAssumption DEF TypeOK
  <2> QED
    BY <1>1, <1>4, <2>1, TruthStays
<1>6. MessageTruth(Snapshot', room', reorders')
  <2> DEFINE half == room'.n \div 2
             m == [type |-> "state", epoch |-> room'.epoch, sv |-> room'.sv, qv |-> room'.qv,
                   ts |-> half, queue |-> room'.queue, n |-> room'.n]
  <2>1. half \in Nat
    BY <1>3
  <2>2. Snapshot' = m
    BY DEF Snapshot
  <2>3. half <= half
    BY <2>1
  <2>4. StateTruth(m, room')
    BY <1>3, <2>3 DEF StateTruth, AsRoom
  <2> QED
    BY <2>2, <2>4 DEF MessageTruth
<1>7. patch # None => MessageTruth(patch, room', reorders')
  <2> SUFFICES ASSUME patch # None PROVE MessageTruth(patch, room', reorders')
    OBVIOUS
  <2>1. patch.type = "patch"
    BY PatchFields
  <2>2. patch.epoch = room'.epoch /\ patch.qv = room'.qv /\ (patch.op = "snapshot" => patch.queue = room'.queue)
    BY <1>1, <1>2 DEF Fits
  <2>3. PatchTruth(patch, room')
    BY <1>3, <2>2 DEF PatchTruth, AsRoom
  <2> QED
    BY <2>1, <2>2, <2>3 DEF MessageTruth
<1>8. \A i \in DOMAIN outbox' : MessageTruth(outbox'[i], room', reorders')
  <2>1. CASE Closing
    BY <2>1 DEF Closing
  <2>2. CASE outbox' = outbox
    BY <1>5, <2>2
  <2>3. CASE News(outbox', outbox, Snapshot', patch)
    BY <1>5, <1>6, <1>7, <2>3 DEF News
  <2> QED
    BY <1>2, <2>1, <2>2, <2>3 DEF Reported
<1>9. /\ \A s \in Senders : sender'[s].phase = "holds" => StateTruth(sender'[s].snapshot, room')
      /\ reply' # None => reply'.id <= reorders'
      /\ \A i \in DOMAIN inbox' : inbox'[i].type = "reorder" => inbox'[i].id <= reorders'
  <2>1. CASE Closing
    <3>1. \A s \in Senders : sender'[s].phase # "holds"
      BY <2>1, ClosingKeeps, IdleHoldsNothing
    <3> QED
      BY <2>1, <3>1 DEF Closing
  <2>2. CASE conn' = conn
    BY <1>5, <2>2 DEF Truthful
  <2> QED
    BY <1>2, <2>1, <2>2 DEF Reported
<1>10. \A i \in DOMAIN patches' : conn' = "open" => patches'[i].epoch = room'.epoch
  BY <1>1, <1>2, ClosingKeeps DEF Reported, Truthful
<1>11. Truthful'
  BY <1>5, <1>8, <1>9, <1>10 DEF Truthful
<1>12. ASSUME conn' = "open"
       PROVE  Coming'
  <2>1. News(outbox', outbox, Snapshot', patch)
    BY <1>2, <1>12, ClosingKeeps DEF Reported
  <2>2. PICK i \in DOMAIN outbox' : outbox'[i] = Snapshot'
    BY <2>1 DEF News
  <2>3. Snapshot'.type = "state" /\ Snapshot'.n = room'.n
    BY DEF Snapshot
  <2>4. i \in States(outbox') /\ outbox'[i].n = room'.n
    BY <2>2, <2>3 DEF States
  <2> QED
    BY <2>4 DEF Coming, Newest
<1> QED
  BY <1>11, <1>12 DEF Faithful, Reaching

LEMMA ChangeFaithful ==
  ASSUME TypeOK, TypeOK', Behind, Truthful, Change
  PROVE  Faithful'
<1>1. Publishes /\ UNCHANGED <<page, frame, patches, reorders>>
  BY ChangePublishes DEF Change
<1>2. conn' = conn => inbox' = inbox /\ sender' = sender /\ reply' = reply
  BY DEF Change
<1> QED
  BY <1>1, <1>2, PublishFaithful

LEMMA RebuildFaithful ==
  ASSUME TypeOK, TypeOK', Behind, Truthful, Rebuild
  PROVE  Faithful'
<1>1. /\ conn = "lost" /\ room' = [room EXCEPT !.epoch = @ + 1, !.qv = 1]
      /\ UNCHANGED <<conn, outbox, inbox, sender, reply, page, frame, patches, reorders>>
  BY DEF Rebuild
<1>2. room \in Room /\ room'.epoch = room.epoch + 1 /\ room'.n = room.n /\ room.epoch \in Nat /\ room.n \in Nat
  BY <1>1, RoomFacts DEF Room
<1>3. Later(room, room') /\ reorders' >= reorders
  BY <1>1, <1>2, SyncAssumption DEF Later, TypeOK
<1>4. /\ PageTruth(page, room')
      /\ frame # None => StateTruth(frame, room')
      /\ \A i \in DOMAIN patches : PatchTruth(patches[i], room')
      /\ \A s \in Senders : sender[s].phase = "holds" => StateTruth(sender[s].snapshot, room')
  BY <1>3, TruthStays
<1>5. outbox = <<>>
  BY <1>1 DEF Behind, Detached
<1>6. Truthful'
  BY <1>1, <1>4, <1>5 DEF Truthful
<1> QED
  BY <1>1, <1>6 DEF Faithful, Reaching

LEMMA SnapshotTruth ==
  ASSUME TypeOK
  PROVE  StateTruth(Snapshot, room) /\ Snapshot.n = room.n
<1> DEFINE half == room.n \div 2
           m == [type |-> "state", epoch |-> room.epoch, sv |-> room.sv, qv |-> room.qv,
                 ts |-> half, queue |-> room.queue, n |-> room.n]
<1>1. room.n \in Nat /\ room.sv \in Nat /\ room.qv \in Nat /\ room.epoch \in Nat
  BY TypeFacts
<1>2. half \in Nat /\ half <= half
  BY <1>1
<1>3. Snapshot = m
  BY DEF Snapshot
<1>4. StateTruth(m, room)
  BY <1>1, <1>2 DEF StateTruth, AsRoom
<1> QED
  BY <1>3, <1>4

LEMMA TakeFaithful ==
  ASSUME TypeOK, TypeOK', Behind, Truthful, NEW r \in Senders, Take(r)
  PROVE  Faithful'
<1>1. UNCHANGED <<room, conn, outbox, inbox, reply, page, frame, patches, reorders>>
  BY DEF Take
<1> DEFINE h == [phase |-> "holds", snapshot |-> Snapshot, left |-> IF r = "initial" THEN 1 ELSE 2]
<1>2. sender' = [sender EXCEPT ![r] = h] /\ sender \in [Senders -> SenderStates]
  BY DEF Take, TypeOK, SenderStates
<1>3. h.phase = "holds" /\ h.snapshot = Snapshot
  OBVIOUS
<1> HIDE DEF h
<1>4. \A s \in Senders : sender'[s] = IF s = r THEN h ELSE sender[s]
  BY <1>2
<1>5. reorders' >= reorders
  BY <1>1, SyncAssumption DEF TypeOK
<1>6. Truthful'
  BY <1>1, <1>3, <1>4, <1>5, SnapshotTruth, QuietTruth
<1>7. Coming'
  <2>1. sender'[r].phase = "holds" /\ sender'[r].snapshot.n = room'.n
    BY <1>1, <1>3, <1>4, SnapshotTruth
  <2> QED
    BY <2>1 DEF Coming, Newest
<1> QED
  BY <1>6, <1>7 DEF Faithful, Reaching

LEMMA TakeFailsFaithful ==
  ASSUME TypeOK, TypeOK', Behind, Truthful, NEW r \in Senders, TakeFails(r)
  PROVE  Faithful'
<1>1. UNCHANGED <<room, conn, outbox, inbox, reply, page, frame, patches, reorders>> /\ missed' = TRUE
  BY DEF TakeFails
<1>2. sender' = [sender EXCEPT ![r] = Idle] /\ sender \in [Senders -> SenderStates]
  BY DEF TakeFails, TypeOK, SenderStates
<1>3. \A s \in Senders : sender'[s].phase = "holds" => sender'[s] = sender[s]
  BY <1>2 DEF Idle
<1>4. reorders' >= reorders
  BY <1>1, SyncAssumption DEF TypeOK
<1>5. Truthful'
  BY <1>1, <1>3, <1>4, QuietTruth
<1> QED
  BY <1>1, <1>5 DEF Faithful, Reaching

LEMMA ClosedFaithful ==
  ASSUME TypeOK, TypeOK', Behind, Truthful, Closing, UNCHANGED <<room, page, frame, patches, reorders>>
  PROVE  Faithful'
<1>1. outbox' = <<>> /\ inbox' = <<>> /\ reply' = None /\ conn' = "rejected"
      /\ \A s \in Senders : sender'[s].phase # "holds"
  BY ClosingKeeps, IdleHoldsNothing DEF Closing
<1>2. reorders' >= reorders
  BY SyncAssumption DEF TypeOK
<1>3. Truthful'
  BY <1>1, <1>2, QuietTruth
<1> QED
  BY <1>1, <1>3 DEF Faithful, Reaching

\* Nothing that is newer gives way to m: it is the newest, or it overtakes.
LEMMA SendSnapshotFaithful ==
  ASSUME TypeOK, TypeOK', Behind, Faithful, NEW r \in Senders, SendSnapshot(r)
  PROVE  Faithful'
<1> DEFINE held == sender[r]
           m == held.snapshot
<1>1. held.phase = "holds" /\ Overtaking(m) /\ Deliver(Send(outbox, m))
      /\ UNCHANGED <<room, page, frame, patches, drops, reorders>>
  BY DEF SendSnapshot
<1>2. held \in [phase : {"holds"}, snapshot : State, left : 1..2] /\ sender \in [Senders -> SenderStates]
  BY <1>1 DEF TypeOK, SenderStates, Idle, Due
<1>3. m \in State /\ m \in Message /\ StateTruth(m, room) /\ m.type = "state" /\ m.n \in Nat /\ room.n \in Nat
  BY <1>1, <1>2, TypeFacts DEF Message, Faithful, Truthful, State
<1>4. CASE Closing
  BY <1>1, <1>4, ClosedFaithful DEF Faithful
<1>5. CASE Send(outbox, m) # None
  <2> DEFINE next == IF held.left = 1 THEN Idle ELSE [held EXCEPT !.left = 1]
  <2>1. outbox' = Send(outbox, m) /\ conn' = conn
    BY <1>1, <1>5 DEF Deliver
  <2>2. sender' = [sender EXCEPT ![r] = next] /\ UNCHANGED <<inbox, reply>>
    BY <2>1 DEF SendSnapshot
  <2>3. next = Idle \/ next.snapshot = m
    BY <1>2
  <2> HIDE DEF next
  <2>4. \A s \in Senders : sender'[s] = IF s = r THEN next ELSE sender[s]
    BY <1>2, <2>2
  <2> HIDE DEF held
  <2>5. From(outbox', outbox, m) /\ \E i \in DOMAIN outbox' : outbox'[i] = m
    BY <1>3, <1>5, <2>1, TypeFacts, SendFills, SendHolds
  <2>6. Truthful'
    <3>1. reorders' >= reorders
      BY <1>1, SyncAssumption DEF TypeOK
    <3>2. MessageTruth(m, room, reorders')
      BY <1>3 DEF MessageTruth
    <3>3. \A i \in DOMAIN outbox' : \/ MessageTruth(outbox'[i], room, reorders')
                                    \/ \E j \in DOMAIN outbox : outbox'[i] = outbox[j]
      BY <2>5, <3>2 DEF From
    <3>4. \A s \in Senders : sender'[s].phase = "holds"
            => \/ StateTruth(sender'[s].snapshot, room)
               \/ sender[s].phase = "holds" /\ sender'[s].snapshot = sender[s].snapshot
      BY <1>3, <2>3, <2>4 DEF Idle
    <3> QED
      BY <1>1, <2>1, <2>2, <3>1, <3>3, <3>4, QuietTruth DEF Faithful
  <2>7. CASE m.n = room.n
    <3>1. PICK i \in DOMAIN outbox' : outbox'[i] = m
      BY <2>5
    <3>2. i \in States(outbox') /\ outbox'[i].n = room'.n
      BY <1>1, <1>3, <2>7, <3>1 DEF States
    <3> QED
      BY <2>6, <3>2 DEF Faithful, Reaching, Coming, Newest
  <2>8. CASE m.n # room.n
    <3>1. m.n < room.n
      BY <1>3, <2>8 DEF StateTruth
    <3>2. overtaken' = (overtaken \/ Overtaken) /\ missed' = missed
      <4>1. missed' = (missed /\ m.n < room.n) /\ missed \in BOOLEAN
        BY DEF SendSnapshot, TypeOK, held
      <4>2. QED
        BY <1>1, <3>1, <4>1 DEF Overtaking
    <3>3. ASSUME conn' = "open", ~overtaken', ~missed'
          PROVE  Coming' \/ Absorbed'
      <4>1. ~overtaken /\ ~Overtaken /\ (Coming \/ Absorbed)
        BY <2>1, <3>2, <3>3 DEF Faithful, Reaching, TypeOK
      <4>2. ASSUME NEW i \in States(outbox), Newest(outbox[i]) PROVE FALSE
        BY <3>1, <4>1, <4>2 DEF Overtaken, Newest
      <4>3. CASE frame # None /\ Newest(frame)
        BY <1>1, <4>3 DEF Coming, Newest
      <4>4. ASSUME NEW s \in Senders,
                   sender[s].phase = "due" \/ (sender[s].phase = "holds" /\ Newest(sender[s].snapshot))
            PROVE  Coming'
        <5>1. s # r
          BY <1>1, <2>8, <4>4 DEF Newest, held
        <5>2. sender'[s] = sender[s]
          BY <2>4, <5>1
        <5> QED
          BY <1>1, <4>4, <5>2 DEF Coming, Newest
      <4>5. CASE \E i \in DOMAIN inbox : inbox[i].type = "resync"
        BY <2>2, <4>5 DEF Coming
      <4>6. CASE Absorbed
        <5>1. \A id : Acked(id)' => Acked(id)
          BY <1>3, <2>2, <2>5 DEF Acked, From
        <5> QED
          BY <1>1, <4>6, <5>1 DEF Absorbed
      <4> QED
        BY <4>1, <4>2, <4>3, <4>4, <4>5, <4>6 DEF Coming
    <3> QED
      BY <2>6, <3>3 DEF Faithful, Reaching
  <2> QED
    BY <2>7, <2>8
<1> QED
  BY <1>1, <1>4, <1>5 DEF Deliver

\* The frames behind the head are still to come.
LEMMA TailItems ==
  ASSUME NEW S, NEW q \in Seq(S), q # <<>>
  PROVE  /\ \A i \in DOMAIN Tail(q) : \E j \in DOMAIN q : Tail(q)[i] = q[j]
         /\ \A j \in DOMAIN q : q[j] = Head(q) \/ \E i \in DOMAIN Tail(q) : Tail(q)[i] = q[j]
<1>1. Len(q) \in Nat \ {0} /\ DOMAIN q = 1..Len(q)
  BY LenProperties, EmptySeq
<1>2. /\ Tail(q) \in Seq(S) /\ Len(Tail(q)) = Len(q) - 1
      /\ \A i \in 1..Len(Tail(q)) : Tail(q)[i] = q[i + 1]
  BY HeadTailProperties
<1>3. DOMAIN Tail(q) = 1..Len(Tail(q))
  BY <1>2, LenProperties
<1>4. Head(q) = q[1]
  BY <1>1
<1>5. \A i \in 1..Len(Tail(q)) : i + 1 \in DOMAIN q
  BY <1>1, <1>2
<1>6. ASSUME NEW j \in DOMAIN q, j # 1
      PROVE  \E i \in DOMAIN Tail(q) : Tail(q)[i] = q[j]
  <2>1. j - 1 \in 1..Len(Tail(q)) /\ (j - 1) + 1 = j
    BY <1>1, <1>2, <1>6
  <2> QED
    BY <1>2, <1>3, <2>1
<1> QED
  BY <1>2, <1>3, <1>4, <1>5, <1>6

LEMMA DispatchFaithful ==
  ASSUME TypeOK, TypeOK', Behind, Faithful, Dispatch
  PROVE  Faithful'
<1>1. /\ conn = "open" /\ inbox # <<>> /\ Head(inbox) \in Request /\ inbox \in Seq(Request)
      /\ UNCHANGED <<page, frame, patches, drops, reorders>>
  BY DispatchCases DEF TypeOK
<1>2. /\ \A i \in DOMAIN Tail(inbox) : \E j \in DOMAIN inbox : Tail(inbox)[i] = inbox[j]
      /\ \A j \in DOMAIN inbox : inbox[j] = Head(inbox) \/ \E i \in DOMAIN Tail(inbox) : Tail(inbox)[i] = inbox[j]
      /\ \E j \in DOMAIN inbox : Head(inbox) = inbox[j]
  <2>1. Head(inbox) = inbox[1] /\ 1 \in DOMAIN inbox
    BY <1>1, LenProperties, EmptySeq
  <2> QED
    BY <1>1, <2>1, TailItems
<1>3. Head(inbox).type = "reorder" => Head(inbox).id <= reorders
  BY <1>2 DEF Faithful, Truthful
<1>4. reply = None /\ reorders' >= reorders
  BY <1>1, SyncAssumption DEF Dispatch, TypeOK
<1>5. CASE DispatchReorder
  <2>1. /\ Publishes
        /\ conn' = conn => /\ reply' = [type |-> "ack", id |-> Head(inbox).id]
                           /\ inbox' = Tail(inbox) /\ UNCHANGED sender
    BY <1>5 DEF DispatchReorder
  <2>2. conn' = conn => reply'.id <= reorders
    BY <1>3, <1>5, <2>1 DEF DispatchReorder
  <2> QED
    BY <1>1, <1>2, <2>1, <2>2, PublishFaithful DEF Faithful
<1>6. CASE DispatchResync
  <2>1. PICK s \in Resyncs : sender' = [sender EXCEPT ![s] = Due]
    BY <1>6 DEF DispatchResync
  <2>2. inbox' = Tail(inbox) /\ UNCHANGED <<room, conn, outbox, reply, overtaken, missed>>
    BY <1>6 DEF DispatchResync
  <2>3. s \in Senders /\ sender \in [Senders -> SenderStates]
    BY DEF Senders, TypeOK, SenderStates
  <2>4. \A t \in Senders : sender'[t] = IF t = s THEN Due ELSE sender[t]
    BY <2>1, <2>3
  <2>5. \A t \in Senders : sender'[t].phase = "holds" => sender[t].phase = "holds" /\ sender'[t].snapshot = sender[t].snapshot
    BY <2>4 DEF Due
  <2>6. Truthful'
    BY <1>1, <1>2, <1>4, <2>2, <2>5, QuietTruth DEF Faithful
  <2>7. sender'[s].phase = "due"
    BY <2>3, <2>4 DEF Due
  <2> QED
    BY <2>3, <2>6, <2>7 DEF Faithful, Reaching, Coming
<1>7. CASE DispatchRefuse
  <2>1. /\ inbox' = Tail(inbox) /\ UNCHANGED <<room, conn, outbox, sender, overtaken, missed>>
        /\ reply' = [type |-> "nack", id |-> Head(inbox).id] /\ Head(inbox).type = "reorder"
    BY <1>7 DEF DispatchRefuse
  <2>2. Truthful'
    <3>1. reply'.id <= reorders'
      BY <1>1, <1>3, <2>1
    <3> QED
      BY <1>1, <1>2, <1>4, <2>1, <3>1, QuietTruth DEF Faithful
  <2>3. Coming => Coming'
    <3>1. (\E i \in DOMAIN inbox : inbox[i].type = "resync") => \E i \in DOMAIN inbox' : inbox'[i].type = "resync"
      BY <1>2, <2>1
    <3> QED
      BY <1>1, <2>1, <3>1 DEF Coming, Newest
  <2>4. Absorbed => Absorbed'
    <3>1. \A id : Acked(id)' => Acked(id)
      BY <2>1 DEF Acked
    <3> QED
      BY <1>1, <2>1, <3>1 DEF Absorbed
  <2> QED
    BY <2>1, <2>2, <2>3, <2>4 DEF Faithful, Reaching
<1> QED
  BY <1>5, <1>6, <1>7, DispatchCases

LEMMA AcknowledgeFaithful ==
  ASSUME TypeOK, TypeOK', Behind, Faithful, Acknowledge
  PROVE  Faithful'
<1>1. Deliver(Send(outbox, reply)) /\ UNCHANGED <<room, page, frame, patches, overtaken, missed, drops, reorders>>
  BY DEF Acknowledge
<1>2. reply \in Answer /\ reply \in Message /\ reply.type \in {"ack", "nack"} /\ reply # None
  BY DEF Acknowledge, TypeOK, Message, Answer
<1>3. reply.type # "state" /\ reply.type # "patch"
  BY <1>2
<1>4. CASE Closing
  BY <1>1, <1>4, ClosedFaithful DEF Faithful
<1>5. CASE Send(outbox, reply) # None
  <2>1. outbox' = Send(outbox, reply) /\ conn' = conn
    BY <1>1, <1>5 DEF Deliver
  <2>2. reply' = None /\ UNCHANGED <<inbox, sender>>
    BY <2>1 DEF Acknowledge
  <2>3. /\ From(outbox', outbox, reply)
        /\ \A j \in DOMAIN outbox : \E i \in DOMAIN outbox' : outbox'[i] = outbox[j]
    BY <1>2, <1>3, <1>5, <2>1, TypeFacts, SendFills, SendHolds
  <2>4. Truthful'
    <3>1. reorders' >= reorders
      BY <1>1, SyncAssumption DEF TypeOK
    <3>2. MessageTruth(reply, room, reorders')
      BY <1>1, <1>2, <1>3 DEF MessageTruth, Faithful, Truthful
    <3>3. \A i \in DOMAIN outbox' : \/ MessageTruth(outbox'[i], room, reorders')
                                    \/ \E j \in DOMAIN outbox : outbox'[i] = outbox[j]
      BY <2>3, <3>2 DEF From
    <3> QED
      BY <1>1, <2>1, <2>2, <3>1, <3>3, QuietTruth DEF Faithful
  <2>5. Coming => Coming'
    <3>1. \A j \in States(outbox) : \E i \in States(outbox') : outbox'[i] = outbox[j]
      BY <2>3 DEF States
    <3> QED
      BY <1>1, <2>2, <3>1 DEF Coming, Newest
  <2>6. Absorbed => Absorbed'
    <3>1. \A id : Acked(id)' => Acked(id)
      BY <1>2, <2>2, <2>3 DEF Acked, From
    <3> QED
      BY <1>1, <3>1 DEF Absorbed
  <2> QED
    BY <1>1, <2>1, <2>4, <2>5, <2>6 DEF Faithful, Reaching
<1> QED
  BY <1>1, <1>4, <1>5 DEF Deliver

\* A resync that is asked for is on its way, after the other requests.
LEMMA AskItems ==
  ASSUME inbox \in Seq(Request), NEW yes, Ask(yes)
  PROVE  /\ \A j \in DOMAIN inbox : \E i \in DOMAIN inbox' : inbox'[i] = inbox[j]
         /\ \A i \in DOMAIN inbox' : inbox'[i].type = "reorder" => \E j \in DOMAIN inbox : inbox'[i] = inbox[j]
         /\ yes => \E i \in DOMAIN inbox' : inbox'[i].type = "resync"
<1> DEFINE m == [type |-> "resync"]
           box == Append(inbox, m)
<1>1. m \in Request /\ m.type = "resync"
  BY DEF Request
<1>2. inbox' = IF yes THEN box ELSE inbox
  BY DEF Ask
<1> HIDE DEF m
<1>3. /\ DOMAIN box = 1..(Len(inbox) + 1) /\ Len(inbox) \in Nat /\ DOMAIN inbox = 1..Len(inbox)
      /\ \A i \in 1..Len(inbox) : box[i] = inbox[i]
      /\ box[Len(inbox) + 1] = m
  BY <1>1, AppendProperties, LenProperties
<1>4. /\ \A i \in 1..(Len(inbox) + 1) : i \in 1..Len(inbox) \/ i = Len(inbox) + 1
      /\ \A i \in 1..Len(inbox) : i \in 1..(Len(inbox) + 1)
      /\ Len(inbox) + 1 \in 1..(Len(inbox) + 1)
  BY <1>3
<1> HIDE DEF box
<1>5. CASE yes
  BY <1>1, <1>2, <1>3, <1>4, <1>5
<1>6. CASE ~yes
  BY <1>2, <1>6
<1> QED
  BY <1>5, <1>6

\* The put-off update of the room's version is not replaced by an older one.
LEMMA NotPutBack ==
  ASSUME room \in Room, page \in Page, page' \in Page, PageTruth(page', room), ~PutBack,
         page.deferred # None, Exact(page.deferred, room),
         page'.deferred # None, page'.deferred.epoch = room.epoch
  PROVE  Exact(page'.deferred, room)
<1>1. page'.deferred \in Update /\ page.deferred \in Update
  BY DEF Page
<1>2. page'.deferred.qv \in Nat /\ page.deferred.qv \in Nat /\ room.qv \in Nat
  BY <1>1 DEF Update, Room
<1>3. page'.deferred.qv <= room.qv /\ (page'.deferred.qv = room.qv => page'.deferred.queue = room.queue)
  BY DEF PageTruth, AsRoom
<1>4. ~(page'.deferred.qv < page.deferred.qv) /\ page.deferred.qv = room.qv
  BY DEF PutBack, Exact
<1> QED
  BY <1>2, <1>3, <1>4 DEF Exact

LEMMA ConnectFaithful ==
  ASSUME TypeOK, TypeOK', Behind, Truthful, Connect
  PROVE  Faithful'
<1>1. /\ conn = "lost" /\ frame = None /\ patches = <<>> /\ conn' = "open"
      /\ page' = [page EXCEPT !.sv = 0, !.ts = 0] /\ inbox' = <<[type |-> "resync"]>>
      /\ sender' = [sender EXCEPT !["initial"] = Due]
      /\ UNCHANGED <<room, outbox, reply, frame, patches, drops, reorders>>
  BY DEF Connect
<1>2. PageTruth(page', room)
  <2>1. /\ page'.deferred = page.deferred /\ page'.qv = page.qv /\ page'.epoch = page.epoch
        /\ page'.sv = 0 /\ page'.ts = 0 /\ page'.shown = page.shown /\ page'.retired = page.retired
    BY <1>1 DEF TypeOK, Page
  <2>2. page.shown \in Nat
    BY RoomFacts DEF Page
  <2>3. 0 <= page.shown /\ 0 <= room.n \div 2
    BY <2>2, TypeFacts
  <2> QED
    BY <2>1, <2>3 DEF Truthful, PageTruth
<1>3. sender \in [Senders -> SenderStates] /\ "initial" \in Senders
  BY DEF TypeOK, SenderStates, Senders
<1>4. \A s \in Senders : sender'[s] = IF s = "initial" THEN Due ELSE sender[s]
  BY <1>1, <1>3
<1>5. Truthful'
  <2>1. reorders' >= reorders
    BY <1>1, SyncAssumption DEF TypeOK
  <2>2. \A s \in Senders : sender'[s].phase = "holds" => sender[s].phase = "holds" /\ sender'[s].snapshot = sender[s].snapshot
    BY <1>4 DEF Due
  <2>3. DOMAIN patches' = {}
    BY <1>1
  <2>4. \A i \in DOMAIN inbox' : inbox'[i].type # "reorder"
    BY <1>1
  <2> QED
    BY <1>1, <1>2, <2>1, <2>2, <2>3, <2>4, QuietTruth
<1>6. Coming'
  BY <1>3, <1>4 DEF Coming, Due
<1> QED
  BY <1>5, <1>6 DEF Faithful, Reaching

LEMMA LoseFaithful ==
  ASSUME TypeOK, TypeOK', Behind, Truthful, Lose
  PROVE  Faithful'
<1>1. /\ conn' = "lost" /\ outbox' = <<>> /\ inbox' = <<>> /\ reply' = None
      /\ sender' = [s \in Senders |-> Idle]
      /\ UNCHANGED <<room, page, frame, patches, overtaken, missed, reorders>>
  BY DEF Lose
<1>2. \A s \in Senders : sender'[s].phase # "holds"
  BY <1>1, IdleHoldsNothing
<1>3. reorders' >= reorders
  BY <1>1, SyncAssumption DEF TypeOK
<1>4. Truthful'
  BY <1>1, <1>2, <1>3, QuietTruth
<1> QED
  BY <1>1, <1>4 DEF Faithful, Reaching

LEMMA ReceiveFaithful ==
  ASSUME TypeOK, TypeOK', Behind, Faithful, Receive
  PROVE  Faithful'
<1> DEFINE m == Head(outbox)
<1>1. Filled(outbox) /\ outbox # <<>> /\ outbox' = Tail(outbox)
      /\ UNCHANGED <<room, conn, sender, reply, drops, reorders>>
  BY TypeFacts DEF Receive
<1>2. /\ m \in Message /\ (\E j \in DOMAIN outbox : m = outbox[j])
      /\ \A i \in DOMAIN outbox' : \E j \in DOMAIN outbox : outbox'[i] = outbox[j]
      /\ \A j \in DOMAIN outbox : outbox[j] = m \/ \E i \in DOMAIN outbox' : outbox'[i] = outbox[j]
  <2>1. outbox \in Seq(Message)
    BY <1>1 DEF Filled
  <2> QED
    BY <1>1, <2>1, TakeHead, TailItems
<1>3. /\ m.type = "state" => m \in State
      /\ m.type = "patch" => m \in Patch
  BY <1>2 DEF Message, State, Patch, Answer
<1>4. MessageTruth(m, room, reorders)
  BY <1>2 DEF Faithful, Truthful
<1>5. \/ /\ m.type = "state" /\ frame' = m
         /\ overtaken' = (overtaken \/ (frame # None /\ frame.n = room.n /\ m.n < room.n))
         /\ UNCHANGED <<patches, page, inbox>>
      \/ m.type = "patch" /\ patches' = Append(patches, m) /\ UNCHANGED <<frame, page, inbox, overtaken, missed>>
      \/ m.type = "ack" /\ page' = SettleAck(page, m.id) /\ UNCHANGED <<frame, patches, inbox, overtaken, missed>>
      \/ /\ m.type = "nack" /\ page' = SettleNack(page, m.id) /\ Ask(m.id \in page.pending)
         /\ UNCHANGED <<frame, patches, overtaken, missed>>
  BY DEF Receive
<1>6. m.type = "ack" => Acked(m.id)
  BY <1>2 DEF Acked
<1> HIDE DEF m
<1>7. \A id : Acked(id)' => Acked(id)
  BY <1>1, <1>2 DEF Acked
<1>8. room \in Room /\ page \in Page /\ PageTruth(page, room) /\ reorders' >= reorders
  <2>1. reorders' >= reorders
    BY <1>1, SyncAssumption DEF TypeOK
  <2> QED
    BY <2>1, RoomFacts DEF Faithful, Truthful
\* what is not a state leaves the newest on its way
<1>9. m.type # "state" /\ frame' = frame /\ (inbox' = inbox) => (Coming => Coming')
  <2>1. m.type # "state" => \A j \in States(outbox) : \E i \in States(outbox') : outbox'[i] = outbox[j]
    BY <1>2 DEF States
  <2> QED
    BY <1>1, <2>1 DEF Coming, Newest
<1>10. CASE m.type = "state" /\ frame' = m
            /\ overtaken' = (overtaken \/ (frame # None /\ frame.n = room.n /\ m.n < room.n))
            /\ UNCHANGED <<patches, page, inbox>>
  <2>1. m \in State /\ StateTruth(m, room) /\ m # None /\ m.n \in Nat /\ room.n \in Nat
    BY <1>3, <1>4, <1>10, TypeFacts, NoneAssumption DEF MessageTruth, State
  <2>2. Truthful'
    BY <1>1, <1>2, <1>8, <1>10, <2>1, QuietTruth DEF Faithful
  <2>3. ASSUME ~overtaken', Coming
        PROVE  Coming'
    <3>1. CASE m.n = room.n
      BY <1>1, <1>10, <2>1, <3>1 DEF Coming, Newest
    <3>2. CASE m.n # room.n
      <4>1. m.n < room.n
        BY <2>1, <3>2 DEF StateTruth
      <4>2. ~(frame # None /\ Newest(frame))
        BY <1>10, <2>3, <4>1 DEF Newest
      <4>3. \A j \in States(outbox) : Newest(outbox[j]) => \E i \in States(outbox') : outbox'[i] = outbox[j]
        BY <1>2, <3>2 DEF States, Newest
      <4> QED
        BY <1>1, <1>10, <2>3, <4>2, <4>3 DEF Coming, Newest
    <3> QED
      BY <3>1, <3>2
  <2>4. Absorbed => Absorbed'
    BY <1>1, <1>7, <1>10 DEF Absorbed
  <2>5. (~overtaken' => ~overtaken) /\ missed' = missed
    BY <1>10 DEF TypeOK, Receive
  <2> QED
    BY <1>1, <2>2, <2>3, <2>4, <2>5 DEF Faithful, Reaching
<1>11. CASE m.type = "patch" /\ patches' = Append(patches, m) /\ UNCHANGED <<frame, page, inbox, overtaken, missed>>
  <2>1. PatchTruth(m, room) /\ m.epoch = room.epoch
    BY <1>4, <1>11 DEF MessageTruth
  <2>2. \A i \in DOMAIN patches' : patches'[i] = m \/ \E j \in DOMAIN patches : patches'[i] = patches[j]
    <3>1. patches \in Seq(Patch) /\ m \in Patch
      BY <1>3, <1>11 DEF TypeOK
    <3>2. /\ DOMAIN Append(patches, m) = 1..(Len(patches) + 1) /\ Len(patches) \in Nat
          /\ \A i \in 1..Len(patches) : Append(patches, m)[i] = patches[i]
          /\ Append(patches, m)[Len(patches) + 1] = m
          /\ DOMAIN patches = 1..Len(patches)
      BY <3>1, AppendProperties, LenProperties
    <3>3. \A i \in 1..(Len(patches) + 1) : i \in 1..Len(patches) \/ i = Len(patches) + 1
      BY <3>2
    <3> QED
      BY <1>11, <3>2, <3>3
  <2>3. Truthful'
    BY <1>1, <1>2, <1>8, <1>11, <2>1, <2>2, QuietTruth DEF Faithful
  <2>4. Absorbed => Absorbed'
    BY <1>1, <1>7, <1>11 DEF Absorbed
  <2> QED
    BY <1>1, <1>9, <1>11, <2>3, <2>4 DEF Faithful, Reaching
<1>12. CASE m.type = "ack" /\ page' = SettleAck(page, m.id) /\ UNCHANGED <<frame, patches, inbox, overtaken, missed>>
  <2>1. /\ PageTruth(page', room) /\ page'.pending = page.pending \ {m.id}
        /\ page.pending = {} /\ Shown(page, room) => Shown(page', room)
        /\ page.epoch = room.epoch /\ page.pending # {} /\ page.deferred # None /\ Exact(page.deferred, room)
             => \/ page'.pending = {} /\ Shown(page', room)
                \/ page'.pending # {} /\ page'.deferred = page.deferred
    BY <1>8, <1>12, SettleAckTruth
  <2>2. Truthful'
    BY <1>1, <1>2, <1>8, <1>12, <2>1, QuietTruth DEF Faithful
  <2>3. page'.epoch = page.epoch /\ page'.sv = page.sv /\ page'.shown = page.shown
    BY <1>8, <1>12, SettleKeeps DEF Marks
  <2>4. ASSUME Absorbed
        PROVE  Absorbed'
    <3>1. CASE page.pending = {} /\ Shown(page, room)
      BY <1>1, <2>1, <2>3, <2>4, <3>1 DEF Absorbed, Shown
    <3>2. ASSUME NEW id \in page.pending, ~Acked(id)
          PROVE  Absorbed'
      <4>1. id \in page'.pending /\ ~Acked(id)'
        BY <1>6, <1>7, <1>12, <2>1, <3>2
      <4> QED
        BY <1>1, <2>3, <2>4, <4>1 DEF Absorbed
    <3>3. CASE page.pending # {} /\ page.deferred # None /\ Exact(page.deferred, room)
      <4>1. \/ page'.pending = {} /\ Shown(page', room)
            \/ page'.pending # {} /\ page'.deferred = page.deferred
        BY <2>1, <2>4, <3>3 DEF Absorbed
      <4> QED
        BY <1>1, <2>3, <2>4, <3>3, <4>1 DEF Absorbed, Shown, Exact
    <3> QED
      BY <2>4, <3>1, <3>2, <3>3 DEF Absorbed
  <2> QED
    BY <1>1, <1>9, <1>12, <2>2, <2>4 DEF Faithful, Reaching
<1>13. CASE /\ m.type = "nack" /\ page' = SettleNack(page, m.id) /\ Ask(m.id \in page.pending)
            /\ UNCHANGED <<frame, patches, overtaken, missed>>
  <2>1. PageTruth(page', room)
    BY <1>8, <1>13, SettleNackTruth
  <2>2. inbox \in Seq(Request) /\ [type |-> "resync"] \in Request
    BY DEF TypeOK, Request
  <2>3. /\ \A i \in DOMAIN inbox' : inbox'[i].type = "reorder" => \E j \in DOMAIN inbox : inbox'[i] = inbox[j]
        /\ m.id \in page.pending => \E i \in DOMAIN inbox' : inbox'[i].type = "resync"
    BY <1>13, <2>2, AskItems
  <2>4. Truthful'
    BY <1>1, <1>2, <1>8, <1>13, <2>1, <2>3, QuietTruth DEF Faithful
  <2>5. CASE m.id \in page.pending
    BY <2>3, <2>4, <2>5 DEF Faithful, Reaching, Coming
  <2>6. CASE m.id \notin page.pending
    <3>1. page' = page /\ inbox' = inbox
      BY <1>13, <2>6 DEF SettleNack, Ask
    <3>2. Absorbed => Absorbed'
      BY <1>1, <1>7, <3>1 DEF Absorbed
    <3> QED
      BY <1>1, <1>9, <1>13, <2>4, <3>1, <3>2 DEF Faithful, Reaching
  <2> QED
    BY <2>5, <2>6
<1> QED
  BY <1>5, <1>10, <1>11, <1>12, <1>13

LEMMA StateFrameFaithful ==
  ASSUME TypeOK, TypeOK', Behind, Faithful, StateFrame
  PROVE  Faithful'
<1>1. /\ frame # None /\ page' = SyncState(page, frame) /\ frame' = None
      /\ overtaken' = (overtaken \/ PutBack)
      /\ UNCHANGED <<room, outbox, sender, reply, conn, inbox, patches, drops, reorders>>
  BY DEF StateFrame, server
<1>2. room \in Room /\ page \in Page /\ page' \in Page /\ frame \in State /\ PageTruth(page, room) /\ StateTruth(frame, room)
      /\ page.epoch <= frame.epoch /\ page.shown <= room.sv /\ (conn = "open" => frame.epoch = room.epoch)
  BY <1>1, RoomFacts DEF Faithful, Truthful, TypeOK, Behind, Ahead
<1>3. /\ PageTruth(page', room)
      /\ frame.n = room.n /\ frame.epoch = room.epoch
           => /\ page'.epoch = room.epoch /\ page'.sv = room.sv /\ page'.shown = room.sv
              /\ \/ page'.pending = {} /\ Shown(page', room)
                 \/ page'.pending # {} /\ page'.deferred # None /\ Exact(page'.deferred, room)
      /\ frame.epoch = room.epoch /\ page.epoch = room.epoch /\ page.sv = room.sv /\ page.shown = room.sv
           => /\ page'.epoch = room.epoch /\ page'.sv = room.sv /\ page'.shown = room.sv /\ page'.pending = page.pending
              /\ page.pending = {} /\ Shown(page, room) => Shown(page', room)
              /\ Held(page, room) => Held(page', room)
  BY <1>1, <1>2, SyncStateTruth
<1>4. Truthful'
  <2>1. reorders' >= reorders
    BY <1>1, SyncAssumption DEF TypeOK
  <2> QED
    BY <1>1, <1>3, <2>1, QuietTruth DEF Faithful
<1>5. ASSUME conn = "open", Coming
      PROVE  Coming' \/ Absorbed'
  <2>1. CASE Newest(frame)
    BY <1>1, <1>2, <1>3, <1>5, <2>1 DEF Newest, Absorbed, Shown, Exact
  <2>2. CASE ~Newest(frame)
    BY <1>1, <1>5, <2>2 DEF Coming, Newest
  <2> QED
    BY <2>1, <2>2
<1>6. \A id : Acked(id)' => Acked(id)
  BY <1>1 DEF Acked
<1>7. ASSUME conn = "open", Absorbed, ~PutBack
      PROVE  Absorbed'
  <2>1. /\ page'.epoch = room.epoch /\ page'.sv = room.sv /\ page'.shown = room.sv /\ page'.pending = page.pending
        /\ page.pending = {} /\ Shown(page, room) => Shown(page', room)
        /\ Held(page, room) => Held(page', room)
    BY <1>2, <1>3, <1>7 DEF Absorbed
  <2>2. CASE page.pending = {} /\ Shown(page, room)
    BY <1>1, <2>1, <2>2 DEF Absorbed, Shown
  <2>3. CASE \E id \in page.pending : ~Acked(id)
    BY <1>1, <1>6, <2>1, <2>3 DEF Absorbed
  <2>4. CASE page.pending # {} /\ page.deferred # None /\ Exact(page.deferred, room)
    <3>1. Exact(page'.deferred, room) /\ page'.deferred # None
      BY <1>2, <1>3, <1>7, <2>1, <2>4, NotPutBack DEF Held, Exact
    <3> QED
      BY <1>1, <2>1, <2>4, <3>1 DEF Absorbed, Exact
  <2> QED
    BY <1>7, <2>2, <2>3, <2>4 DEF Absorbed
<1>8. (~overtaken' => ~overtaken /\ ~PutBack) /\ missed' = missed
  BY <1>1 DEF TypeOK, StateFrame
<1> QED
  BY <1>1, <1>4, <1>5, <1>7, <1>8 DEF Faithful, Reaching

LEMMA PatchFrameFaithful ==
  ASSUME TypeOK, TypeOK', Behind, Faithful, PatchFrame
  PROVE  Faithful'
<1>1. /\ page' = Applied(page, patches).page /\ Ask(Applied(page, patches).resync /\ conn = "open")
      /\ patches' = <<>> /\ overtaken' = (overtaken \/ PutBack)
      /\ UNCHANGED <<room, outbox, sender, reply, conn, frame, drops, reorders>>
  BY DEF PatchFrame, server
<1>2. /\ room \in Room /\ page \in Page /\ page' \in Page /\ PageTruth(page, room)
      /\ patches \in Seq(Patch) /\ inbox \in Seq(Request)
      /\ \A i \in DOMAIN patches : PatchTruth(patches[i], room)
      /\ conn = "open" => \A i \in DOMAIN patches : patches[i].epoch = room.epoch
  BY RoomFacts DEF Faithful, Truthful, TypeOK
<1>3. /\ PageTruth(page', room) /\ page'.pending = page.pending /\ Marks(page') = Marks(page)
      /\ page.epoch = room.epoch /\ page.pending = {} /\ Shown(page, room) => Shown(page', room)
      /\ (\A i \in DOMAIN patches : patches[i].epoch = room.epoch) /\ Held(page, room) => Held(page', room)
  BY <1>1, <1>2, AppliedTruth
<1>4. /\ \A j \in DOMAIN inbox : \E i \in DOMAIN inbox' : inbox'[i] = inbox[j]
      /\ \A i \in DOMAIN inbox' : inbox'[i].type = "reorder" => \E j \in DOMAIN inbox : inbox'[i] = inbox[j]
  BY <1>1, <1>2, AskItems
<1>5. Truthful'
  <2>1. reorders' >= reorders
    BY <1>1, SyncAssumption DEF TypeOK
  <2>2. DOMAIN patches' = {}
    BY <1>1
  <2> QED
    BY <1>1, <1>3, <1>4, <2>1, <2>2, QuietTruth DEF Faithful
<1>6. Coming => Coming'
  BY <1>1, <1>4 DEF Coming, Newest
<1>7. \A id : Acked(id)' => Acked(id)
  BY <1>1 DEF Acked
<1>8. page'.epoch = page.epoch /\ page'.sv = page.sv /\ page'.shown = page.shown
  BY <1>3 DEF Marks
<1>9. ASSUME conn = "open", Absorbed, ~PutBack
      PROVE  Absorbed'
  <2>1. CASE page.pending = {} /\ Shown(page, room)
    BY <1>1, <1>3, <1>8, <1>9, <2>1 DEF Absorbed, Shown
  <2>2. CASE \E id \in page.pending : ~Acked(id)
    BY <1>1, <1>3, <1>7, <1>8, <1>9, <2>2 DEF Absorbed
  <2>3. CASE page.pending # {} /\ page.deferred # None /\ Exact(page.deferred, room)
    <3>1. Held(page', room)
      BY <1>2, <1>3, <1>9, <2>3 DEF Held, Exact
    <3>2. Exact(page'.deferred, room) /\ page'.deferred # None
      BY <1>2, <1>3, <1>9, <2>3, <3>1, NotPutBack DEF Held
    <3> QED
      BY <1>1, <1>3, <1>8, <1>9, <2>3, <3>2 DEF Absorbed, Exact
  <2> QED
    BY <1>9, <2>1, <2>2, <2>3 DEF Absorbed
<1>10. (~overtaken' => ~overtaken /\ ~PutBack) /\ missed' = missed
  BY <1>1 DEF TypeOK, PatchFrame
<1> QED
  BY <1>1, <1>5, <1>6, <1>9, <1>10 DEF Faithful, Reaching

LEMMA ReorderFaithful ==
  ASSUME TypeOK, TypeOK', Behind, Faithful, Reorder
  PROVE  Faithful'
<1>1. PICK s \in Songs, t \in Songs :
        /\ s # t /\ Has(page.queue, s) /\ Has(page.queue, t)
        /\ page' = [page EXCEPT !.queue = Place(@, s, t), !.pending = @ \cup {reorders + 1}]
        /\ inbox' = Append(inbox, [type |-> "reorder", song |-> s, target |-> t, id |-> reorders + 1])
  BY DEF Reorder
<1>2. reorders' = reorders + 1 /\ UNCHANGED <<room, outbox, sender, reply, conn, frame, patches, overtaken, missed, drops>>
  BY DEF Reorder, server
<1>3. reorders \in Nat /\ reorders' >= reorders /\ ~(reorders + 1 <= reorders)
  BY <1>2, SyncAssumption DEF TypeOK
<1>4. /\ page'.pending = page.pending \cup {reorders + 1} /\ page'.deferred = page.deferred /\ page'.qv = page.qv
      /\ page'.epoch = page.epoch /\ page'.sv = page.sv /\ page'.shown = page.shown /\ page'.ts = page.ts
      /\ page'.retired = page.retired
  <2> DEFINE q == Place(page.queue, s, t)
             n == reorders + 1
  <2>1. page' = [page EXCEPT !.queue = q, !.pending = @ \cup {n}]
    BY <1>1
  <2> HIDE DEF q, n
  <2>2. page \in Page
    BY RoomFacts
  <2>3. page'.pending = page.pending \cup {n}
    BY <2>1, <2>2 DEF Page
  <2> QED
    BY <2>1, <2>2, <2>3 DEF Page, n
<1>5. PageTruth(page', room)
  BY <1>4 DEF PageTruth, Faithful, Truthful
<1>6. /\ \A j \in DOMAIN inbox : \E i \in DOMAIN inbox' : inbox'[i] = inbox[j]
      /\ \A i \in DOMAIN inbox' : \/ inbox'[i].id = reorders + 1
                                  \/ \E j \in DOMAIN inbox : inbox'[i] = inbox[j]
  <2> DEFINE n == reorders + 1
             m == [type |-> "reorder", song |-> s, target |-> t, id |-> n]
  <2>1. m.id = n /\ inbox' = Append(inbox, m) /\ inbox \in Seq(Request)
    BY <1>1 DEF TypeOK
  <2>2. m \in Request \cup {m} /\ inbox \in Seq(Request \cup {m})
    <3> HIDE DEF m
    <3> QED
      BY <2>1, SeqDef
  <2> HIDE DEF m, n
  <2>3. /\ DOMAIN inbox' = 1..(Len(inbox) + 1) /\ Len(inbox) \in Nat /\ DOMAIN inbox = 1..Len(inbox)
        /\ \A i \in 1..Len(inbox) : inbox'[i] = inbox[i]
        /\ inbox'[Len(inbox) + 1] = m
    BY <2>1, <2>2, AppendProperties, LenProperties
  <2>4. /\ \A i \in 1..(Len(inbox) + 1) : i \in 1..Len(inbox) \/ i = Len(inbox) + 1
        /\ \A i \in 1..Len(inbox) : i \in 1..(Len(inbox) + 1)
    BY <2>3
  <2> QED
    BY <2>1, <2>3, <2>4 DEF n
<1>7. Truthful'
  <2>1. \A i \in DOMAIN inbox' : inbox'[i].type = "reorder"
            => inbox'[i].id <= reorders' \/ \E j \in DOMAIN inbox : inbox'[i] = inbox[j]
    BY <1>2, <1>3, <1>6
  <2> QED
    BY <1>2, <1>3, <1>5, <2>1, QuietTruth DEF Faithful
<1>8. Coming => Coming'
  BY <1>2, <1>6 DEF Coming, Newest
<1>9. ASSUME Absorbed
      PROVE  Absorbed'
  <2>1. PICK id : id = reorders + 1
    OBVIOUS
  <2>2. ~Acked(id)'
    <3>1. reply # None => reply.id # id
      BY <1>3, <2>1 DEF Faithful, Truthful
    <3>2. \A i \in DOMAIN outbox : outbox[i].type = "ack" => outbox[i].id # id
      BY <1>3, <2>1 DEF Faithful, Truthful, MessageTruth
    <3> QED
      BY <1>2, <3>1, <3>2 DEF Acked
  <2>3. id \in page'.pending
    BY <1>4, <2>1
  <2> QED
    BY <1>2, <1>4, <1>9, <2>2, <2>3 DEF Absorbed
<1> QED
  BY <1>2, <1>7, <1>8, <1>9 DEF Faithful, Reaching

LEMMA ExpireFaithful ==
  ASSUME TypeOK, TypeOK', Behind, Faithful, Expire
  PROVE  Faithful'
<1>1. PICK id \in page.pending : page' = ApplyDeferred([page EXCEPT !.pending = @ \ {id}])
  BY DEF Expire
<1>2. Ask(conn = "open") /\ inbox \in Seq(Request)
      /\ UNCHANGED <<room, outbox, sender, reply, conn, frame, patches, overtaken, missed, drops, reorders>>
  BY DEF Expire, server, TypeOK
<1>3. room \in Room /\ page \in Page /\ PageTruth(page, room)
  BY RoomFacts DEF Faithful, Truthful
<1>4. PageTruth(page', room)
  <2> DEFINE q == [page EXCEPT !.pending = @ \ {id}]
  <2>1. q \in Page /\ PageTruth(q, room)
    BY <1>3, LessPending
  <2>2. page' = ApplyDeferred(q)
    BY <1>1
  <2> HIDE DEF q
  <2> QED
    BY <1>3, <2>1, <2>2, ApplyDeferredTruth
<1>5. /\ \A i \in DOMAIN inbox' : inbox'[i].type = "reorder" => \E j \in DOMAIN inbox : inbox'[i] = inbox[j]
      /\ conn = "open" => \E i \in DOMAIN inbox' : inbox'[i].type = "resync"
  BY <1>2, AskItems
<1>6. reorders' >= reorders
  BY <1>2, SyncAssumption DEF TypeOK
<1>7. Truthful'
  BY <1>2, <1>4, <1>5, <1>6, QuietTruth DEF Faithful
<1> QED
  BY <1>2, <1>5, <1>7 DEF Faithful, Reaching, Coming

LEMMA InitFaithful ==
  ASSUME Init
  PROVE  Faithful
<1>1. PICK q \in Starts : room = [epoch |-> 1, sv |-> 1, qv |-> 1, queue |-> q, n |-> 0]
  BY DEF Init
<1>2. /\ conn = "lost" /\ outbox = <<>> /\ inbox = <<>> /\ reply = None /\ frame = None /\ patches = <<>>
      /\ sender = [s \in Senders |-> Idle]
      /\ page = [epoch |-> 0, sv |-> 0, ts |-> 0, qv |-> 0, queue |-> <<>>, shown |-> 0,
                 retired |-> {}, deferred |-> None, pending |-> {}]
  BY DEF Init
<1>3. PageTruth(page, room)
  <2>1. 0 <= 0 /\ 0 <= 0 \div 2
    OBVIOUS
  <2>2. page.deferred = None /\ page.epoch = 0 /\ page.sv = 0 /\ page.shown = 0 /\ page.ts = 0 /\ page.retired = {}
    BY <1>2
  <2>3. room.epoch = 1 /\ room.n = 0
    BY <1>1
  <2> QED
    BY <2>1, <2>2, <2>3 DEF PageTruth
<1>4. \A s \in Senders : sender[s].phase # "holds"
  BY <1>2, IdleHoldsNothing
<1> QED
  BY <1>2, <1>3, <1>4 DEF Faithful, Truthful, Reaching

LEMMA FaithfulStep ==
  ASSUME TypeOK, TypeOK', Behind, Faithful, [Next]_vars
  PROVE  Faithful'
<1>1. CASE UNCHANGED vars
  <2>1. UNCHANGED <<room, conn, outbox, inbox, sender, reply, page, frame, patches, overtaken, missed, reorders>>
    BY <1>1 DEF vars
  <2>2. Truthful'
    BY <2>1 DEF Faithful, Truthful
  <2>3. Reaching'
    BY <2>1 DEF Faithful, Reaching, Coming, Absorbed, Acked, Newest, States
  <2> QED
    BY <2>2, <2>3 DEF Faithful
<1>2. ASSUME NEW s \in Senders, Take(s) \/ TakeFails(s) \/ SendSnapshot(s)
      PROVE  Faithful'
  BY <1>2, TakeFaithful, TakeFailsFaithful, SendSnapshotFaithful DEF Faithful
<1> QED
  BY <1>1, <1>2, ChangeFaithful, RebuildFaithful, DispatchFaithful, AcknowledgeFaithful, ConnectFaithful,
     LoseFaithful, ReceiveFaithful, StateFrameFaithful, PatchFrameFaithful, ReorderFaithful, ExpireFaithful
     DEF Next, Quiet, Faithful

(***************************************************************************)
(* When nothing is on its way the page shows the room as it is, unless an  *)
(* older state or update took the place of a newer one: however many       *)
(* songs, resyncs, changes, reorderings and lost connections there are.    *)
(***************************************************************************)
THEOREM RestIsInSync == Spec => []AtRestInSync
<1>1. Init => TypeOK /\ Behind /\ Faithful
  BY InitTyped, InitBehind, InitFaithful
<1>2. TypeOK /\ Behind /\ Faithful /\ [Next]_vars => TypeOK' /\ Behind' /\ Faithful'
  BY TypedStep, BehindStep, FaithfulStep
<1>3. Faithful => AtRestInSync
  BY AtRestFollows DEF Faithful
<1> QED
  BY <1>1, <1>2, <1>3, PTL DEF Spec
==============================================================================
