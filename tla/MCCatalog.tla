------------------------------ MODULE MCCatalog ------------------------------
(***************************************************************************)
(* Catalog in small instances for TLC.  Only uploaders of the library are  *)
(* equal; the other model values are what each part needs, shared where    *)
(* the parts do not mind: names or songs or credentials n1 and n2, rooms   *)
(* hall and r1, users a and v, who are policies of music, too.             *)
(***************************************************************************)
EXTENDS Catalog, TLC

CONSTANTS u1, u2

Equal == Permutations({u1, u2})
=============================================================================
