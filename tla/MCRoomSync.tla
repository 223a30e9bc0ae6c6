----------------------------- MODULE MCRoomSync -----------------------------
(* RoomSync for TLC *)
EXTENDS RoomSync, TLC
CONSTANTS s1, s2, r1
MCStarts == {<<>>, <<s1, s2>>, <<s2, s1>>}
SongSymmetry == Permutations({s1, s2})
=============================================================================
