--------------------------- MODULE MCAuctionEngine ---------------------------
(* AuctionEngine for TLC. *)
EXTENDS AuctionEngine, TLC
=============================================================================
