----------------------------- MODULE MCSeiMips -----------------------------
(***************************************************************************)
(* Model-checking instance of SeiMips: four aligned words of address       *)
(* space, jumps to an even and an odd address, a COUNT that wraps after    *)
(* three ticks, and the timer as the only interrupt line.                  *)
(***************************************************************************)
EXTENDS SeiMips
=============================================================================
