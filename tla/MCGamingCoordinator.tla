------------------------- MODULE MCGamingCoordinator -------------------------
(* GamingCoordinator for TLC. *)
EXTENDS GamingCoordinator, TLC
=============================================================================
