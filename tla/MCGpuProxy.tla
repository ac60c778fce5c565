----------------------------- MODULE MCGpuProxy -----------------------------
(* GpuProxy for TLC. *)
EXTENDS GpuProxy, TLC
=============================================================================
