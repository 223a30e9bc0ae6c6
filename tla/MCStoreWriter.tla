--------------------------- MODULE MCStoreWriter ---------------------------
(* Small instances of StoreWriter for TLC.                                 *)
EXTENDS StoreWriter, TLC

CONSTANTS w1, w2, w3

=============================================================================
