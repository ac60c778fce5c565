------------------------------- MODULE MCMain -------------------------------
(* Main for TLC. *)
EXTENDS Main, TLC
=============================================================================
