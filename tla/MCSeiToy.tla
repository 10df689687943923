------------------------------ MODULE MCSeiToy ------------------------------
(***************************************************************************)
(* A small instance of the toy interpreters, all three on one program.  A  *)
(* byte is three bits, so a word has 4096 values: 16 opcodes, two          *)
(* registers, immediates of six bits.  ROM holds five words, RAM one, a    *)
(* status model is ready after one read.                                   *)
(***************************************************************************)
EXTENDS SeiToyAlt, SeiToyPair

MCRegions == { [base |-> 0,  size |-> 20, perms |-> {"r", "x"}],
               [base |-> 20, size |-> 4,  perms |-> {"r", "w"}] }
MCPolicies == { [onRead |-> "default", onWrite |-> "fault"],
                [onRead |-> "fault", onWrite |-> "default"] }

Asm(op, rd, rs, imm) == ((op * 2 + rd) * 2 + rs) * 64 + imm
ASSUME DecodeInvertsAsm ==
  \A op \in 0 .. 15, rd, rs \in 0 .. 1, imm \in {0, 1, 31, 32, 63} :
    Decode(Asm(op, rd, rs, imm)) = [op |-> op, rd |-> rd, rs |-> rs, imm |-> imm, rt |-> imm % 2]

\* The addresses of RAM, the device and nothing, and counters.
First == { Asm(1, 0, 0, 20), Asm(1, 0, 0, 24), Asm(1, 0, 0, 40), Asm(1, 0, 0, 1) }
Middle == { Asm(2, 1, 0, 0), Asm(3, 1, 1, 0), Asm(4, 0, 0, 63), Asm(4, 1, 0, 2),
            Asm(5, 1, 0, 0), Asm(5, 1, 0, 63), Asm(6, 0, 0, 0), Asm(6, 1, 0, 1), Asm(6, 0, 1, 0),
            Asm(7, 0, 0, 63), Asm(7, 0, 1, 2), Asm(8, 0, 0, 2), Asm(8, 0, 0, 62),
            Asm(9, 1, 0, 0), Asm(9, 1, 0, 1), Asm(10, 0, 0, 0), Asm(15, 1, 1, 5), Asm(0, 0, 0, 0) }
MCPrograms == { <<f>> \o m : f \in First, m \in [1 .. 3 -> Middle] }

\* The interpreter over lowered blocks with each of the other two beside it.
ThreeInit == BothInit /\ PairInit
ThreeNext == Next /\ PairNext
ThreeSpec == ThreeInit /\ [][ThreeNext]_<<pairVars, prog, altVars>>
=============================================================================
