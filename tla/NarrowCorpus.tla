---------------------------- MODULE NarrowCorpus ----------------------------
(***************************************************************************)
(* What tools/armgen/narrow_sat_oracle.py asks its oracle about: lists of  *)
(* edge values cut into batches of one quadword, the last batch filled up  *)
(* from the front of the list.                                             *)
(***************************************************************************)
EXTENDS VectorWords, Sequences, FiniteSets

\* "drawn" stands for a value the script draws at random, in range of its list.
Drawn == 12345
S16 == << 0, 1, -1, \h7F, -\h80, \h80, -\h81, \h7FFF, -\h8000, \h100, -\h100, \h200,
          -\h200, \h7F00, -\h7F00, Drawn, Drawn >>
U16 == << 0, 1, \hFF, \h100, \h101, \h180, \h1FF, \h200, \h7FFF, \h8000, \h8001, \hFFFF,
          \hFFFE, Drawn, Drawn >>
S32 == << 0, 1, -1, \h7FFF, -\h8000, \h8000, -\h8001, W(\h7FFF, \hFFFF), W(\h8000, 0),
          \h10000, -\h10000, Drawn, Drawn >>
\* Unsigned words, as the integers they denote in two's complement.
U32 == << 0, 1, \hFFFF, \h10000, \h10001, \h20000, W(\h7FFF, \hFFFF), W(\h8000, 0), -1, -2,
          Drawn, Drawn >>

EncMisc(A, opc2, size, Q) == << \hF3B0 + size * 4 + A, opc2 * 128 + Q * 64 + 2 >>
EncSh(U, imm6, opc) == << \hF280 + U * 256 + imm6, opc * 256 + \h12 >>

Larger(a, b) == IF a < b THEN b ELSE a

\* A vector's S registers are made anew for each batch and stored as they are.
Lanes(b) == Regs("lanes", b)

\* The batches of nIn values: starts step by nIn up to the length of the list, two at
\* least, and the index wraps.
Batches(vals, nIn) ==
  { [i \in 1 .. nIn |-> vals[((k * nIn + i - 1) % Len(vals)) + 1]] :
      k \in 0 .. ((Larger(Len(vals), 2 * nIn) - 1) \div nIn) }

Asked(insn, esizeOut, vals) ==
  { [ group |-> "narrow", insn |-> insn, esize |-> esizeOut, regs |-> Lanes(b), kept |-> "copy" ] :
      b \in Batches(vals, 64 \div esizeOut) }

\* 2-register miscellaneous forms: VQMOVN.s, VQMOVUN, VQMOVN.u.
GenMovn(A, opc2, Q, vals8, vals16) ==
  Asked(EncMisc(A, opc2, 0, Q), 8, vals8) \cup Asked(EncMisc(A, opc2, 1, Q), 16, vals16)

AddShiftNarrow(U, opc, esizeOut, imm6Base, nShifts, vals) ==
  UNION { Asked(EncSh(U, imm6Base + k, opc), esizeOut, vals) : k \in 0 .. nShifts - 1 }

NarrowPlan ==
  << GenMovn(2, 5, 0, S16, S32), GenMovn(2, 4, 1, S16, S32), GenMovn(2, 5, 1, U16, U32),
     AddShiftNarrow(0, 9, 8, \h08, 8, S16), AddShiftNarrow(0, 9, 16, \h10, 8, S32),
     AddShiftNarrow(1, 8, 8, \h08, 8, S16), AddShiftNarrow(1, 8, 16, \h10, 8, S32),
     AddShiftNarrow(1, 9, 8, \h08, 8, U16), AddShiftNarrow(1, 9, 16, \h10, 8, U32),
     AddShiftNarrow(0, 8, 8, \h08, 4, U16), AddShiftNarrow(0, 8, 16, \h10, 4, U32) >>
=============================================================================
