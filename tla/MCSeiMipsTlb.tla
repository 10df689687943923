---------------------------- MODULE MCSeiMipsTlb ----------------------------
(***************************************************************************)
(* Model-checking instance of SeiMipsTlb: eight pages of four addresses.   *)
(* EntryHi names an even page, and an odd page not by its first address;   *)
(* EntryLo a frame in reach, and one beyond the address space that wraps.  *)
(***************************************************************************)
EXTENDS SeiMipsTlb
=============================================================================
