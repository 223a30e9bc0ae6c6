--------------------------- MODULE MCRoomRuntime ---------------------------
(* Small instances of RoomRuntime for TLC.                                 *)
EXTENDS RoomRuntime, TLC

CONSTANTS u1, u2, a, b

Members == Permutations({u1, u2})

\* Select keeps exactly what SelectSeq keeps, on every small sequence.
ASSUME SelectIsSelectSeq ==
  \A n \in 0..4 : \A q \in [1..n -> 1..3], drop \in SUBSET (1..3) :
    Select(q, {i \in DOMAIN q : q[i] \notin drop})
      = SelectSeq(q, LAMBDA x : x \notin drop)
=============================================================================
