------------------------------ MODULE MCSeiArm ------------------------------
(***************************************************************************)
(* A small instance of SeiArm.                                             *)
(***************************************************************************)
EXTENDS SeiArm

\* IT EQ and ITT NE.
MCBlocks == { <<0, 8>>, <<1, 12>> }
\* Supervisor mode in Thumb state, with both interrupts open.
MCPsrs == { [mode |-> "svc", iMask |-> FALSE, fMask |-> FALSE, tbit |-> TRUE] }
=============================================================================
