--------------------------- MODULE MCPoolManager ---------------------------
(* PoolManager for TLC. *)
EXTENDS PoolManager, TLC
=============================================================================
