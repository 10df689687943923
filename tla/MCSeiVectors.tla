---------------------------- MODULE MCSeiVectors ----------------------------
(***************************************************************************)
(* Model-checking instance of SeiVectors: the five scripts as they are,    *)
(* with an oracle that answers for every group and with two that refuse    *)
(* some, and every fault.                                                  *)
(***************************************************************************)
EXTENDS SeiVectors

Groups == { {}, {"wfe", "wfi", "sev"}, {"special2", "vfp"} }
=============================================================================
