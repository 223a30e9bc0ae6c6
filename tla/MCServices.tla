----------------------------- MODULE MCServices -----------------------------
(***************************************************************************)
(* Services in small instances for TLC.  The model values u1, u2, t1, t2,  *)
(* t3 and c1, c2 are what a part has several equal ones of (users,         *)
(* addresses or bodies; tokens, keys, items or ids; requests, browsers or  *)
(* workers).                                                               *)
(***************************************************************************)
EXTENDS Services, TLC

CONSTANTS u1, u2, t1, t2, t3, c1, c2

Equal == Permutations({u1, u2}) \cup Permutations({t1, t2, t3}) \cup Permutations({c1, c2})
=============================================================================
