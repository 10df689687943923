---------------------------- MODULE VectorWords ----------------------------
(***************************************************************************)
(* The words of the golden-vector tools. A 32-bit instruction is the pair  *)
(* of its halfwords, high one first, so that fields are packed and read    *)
(* back by arithmetic that stays within TLC's integers. A 32-bit value is  *)
(* the integer it denotes in two's complement.                             *)
(***************************************************************************)
EXTENDS Integers

\* The value whose halfwords are h and l.
W(h, l) == (IF h >= \h8000 THEN h - \h10000 ELSE h) * \h10000 + l

\* a < b, both taken as unsigned.
Below(a, b) == IF (a < 0) = (b < 0) THEN a < b ELSE b < 0

\* Bits lo to lo + n - 1 of a halfword; pow is 2^lo and span is 2^n.
Bits(half, pow, span) == (half \div pow) % span

\* A halfword read as signed.
SignExtend(half) == IF half >= \h8000 THEN half - \h10000 ELSE half

\* A register file: a named file with some registers replaced. What a file that
\* the script draws at random holds is not known here.
Regs(from, over) == [from |-> from, over |-> over]
NoOver == [i \in {} |-> 0]
At(i, val) == [j \in {i} |-> val]
Merge(f, g) == [j \in DOMAIN f \cup DOMAIN g |-> IF j \in DOMAIN f THEN f[j] ELSE g[j]]

\* One entry of a script: the list of register values the caller holds, new or
\* changed in place, and the set of vectors asked for while it holds it.
Fresh(list, asked)   == [new |-> TRUE, list |-> list, asked |-> asked]
Changed(list, asked) == [new |-> FALSE, list |-> list, asked |-> asked]

(***************************************************************************)
(* Words of tools/mipsgen.                                                 *)
(***************************************************************************)

RType(rs, rt, rd, sa, funct, op) ==
  << (op % 64) * 1024 + (rs % 32) * 32 + (rt % 32),
     (rd % 32) * 2048 + (sa % 32) * 64 + (funct % 64) >>

IType(op, rs, rt, imm) ==
  << (op % 64) * 1024 + (rs % 32) * 32 + (rt % 32), imm % \h10000 >>

\* The fields of a MIPS instruction, by their places in the word.
Op(w)    == w[1] \div 1024
Rs(w)    == Bits(w[1], 32, 32)
Rt(w)    == w[1] % 32
Rd(w)    == w[2] \div 2048
Sa(w)    == Bits(w[2], 64, 32)
Funct(w) == w[2] % 64
Imm(w)   == w[2]
=============================================================================
