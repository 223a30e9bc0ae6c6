-------------------------- MODULE MCRoomLifecycle --------------------------
(* Small instances of RoomLifecycle for TLC.                               *)
EXTENDS RoomLifecycle, TLC

CONSTANTS r1, r2, c1, c2, h

Identical == Permutations(Runtimes) \cup Permutations(Connections)
=============================================================================
