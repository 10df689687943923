----------------------------- MODULE ArmCorpus -----------------------------
(***************************************************************************)
(* What tools/armgen/gen_vectors.py asks its oracle about. A field that    *)
(* the script draws at random takes the two ends of its range; a register  *)
(* or flag drawn at random is left unknown. Repeated draws are one vector. *)
(***************************************************************************)
EXTENDS VectorWords, Sequences, FiniteSets

CODE   == \h10000
WIN_LO == \h20020                   \* the bytes the oracle seeds and captures
WIN_HI == \h20060
BASE   == \h20040
AL     == 14

Zeros(over) == Regs("zero", over)
Drawn(over) == Regs("drawn", over)

\* A vector: the registers of "regs" are a copy of the caller's list when "kept"
\* says so; "window" says whether memory was seeded and captured.
Vector(group, insn, regs, nzcv) ==
  [ group |-> group, insn |-> insn, regs |-> regs, nzcv |-> nzcv, kept |-> "copy",
    window |-> FALSE, sregs |-> NoOver ]

Clear == <<0, 0, 0, 0>>

\* Mutant: the caller's list itself goes into the vector.
VecAliased(group, insn, regs, nzcv) ==
  [Vector(group, insn, regs, nzcv) EXCEPT !.kept = "list"]

Vec(group, insn, regs, nzcv) == Vector(group, insn, regs, nzcv)
Bvec(insn, regs, nzcv) == Vector("branch", insn, regs, nzcv)
Windowed(group, insn, over) ==
  [Vector(group, insn, Zeros(over), Clear) EXCEPT !.window = TRUE]

-----------------------------------------------------------------------------
\* Data processing.
DpImm(op, s, rn, rd, rot, imm8) ==
  << \hE200 + op * 32 + s * 16 + rn, rd * 4096 + rot * 256 + imm8 >>
DpRegImmShift(op, s, rn, rd, shImm, shType, rm) ==
  << \hE000 + op * 32 + s * 16 + rn, rd * 4096 + shImm * 128 + shType * 32 + rm >>
DpRegRegShift(op, s, rn, rd, rs, shType, rm) ==
  << \hE000 + op * 32 + s * 16 + rn, rd * 4096 + rs * 256 + shType * 32 + 16 + rm >>

\* Opcodes 8 to B without S are the status register instructions, and are left out.
DpForms == { x \in (0 .. 15) \X {0, 1} : ~ (x[1] \in 8 .. 11 /\ x[2] = 0) }

DpFixed(op, s) ==
       { Vec("dp", DpImm(op, s, 1, 0, rot, imm8), Drawn(NoOver), z) :
           rot \in {0, 15}, imm8 \in {0, 255}, z \in {Clear, <<1, 1, 1, 1>>} }
  \cup { Vec("dp", DpRegImmShift(op, s, 1, 0, n, st, 2), Drawn(NoOver), z) :
           n \in {0, 31}, st \in 0 .. 3, z \in {Clear, <<1, 1, 1, 1>>} }

\* The same list again, after regs[3] was drawn from 0 to 40.
ShiftCount == At(3, 40)
DpByRegister(op, s) ==
  { Vec("dp", DpRegRegShift(op, s, 1, 0, 3, st, 2), Drawn(ShiftCount), z) :
      st \in 0 .. 3, z \in {Clear, <<1, 1, 1, 1>>} }

AddIf(cond) == << cond * 4096 + \h200 + 4 * 32 + 1, 2 * 4096 + 5 >>
CondFlags == { <<0, <<0, 1, 0, 0>>, Clear>>, <<1, Clear, <<0, 1, 0, 0>> >>,
               <<2, <<0, 0, 1, 0>>, Clear>>, <<8, <<1, 0, 0, 0>>, Clear>>,
               <<11, <<1, 0, 0, 1>>, Clear>> }
GenCond ==
  LET regsC == Zeros([j \in {1, 2} |-> IF j = 1 THEN W(\hDEAD, \hBEEF) ELSE W(\hCAFE, \hBABE)])
  IN  UNION { { Vec("dp", AddIf(c[1]), regsC, c[2]), Vec("dp", AddIf(c[1]), regsC, c[3]) } :
                c \in CondFlags }

GenVariedRd ==
  { Vec("dp", w, Drawn(NoOver), Clear) :
      w \in { f : f \in UNION { { DpImm(op, 0, 1, rd, 0, \hAA), DpRegImmShift(op, 0, 1, rd, 4, 0, 2) } :
                 op \in {0, 1, 2, 4, 12, 13, 14, 15}, rd \in {2, 4, 7, 11} } } }

-----------------------------------------------------------------------------
\* Load and store, word and byte.
LdstEnc(P, U, B, W1, L, rn, rt, off) ==
  << \hE400 + P * 256 + U * 128 + B * 64 + W1 * 32 + L * 16 + rn, rt * 4096 + (off % 4096) >>
LdstReg(P, U, B, W1, L, rn, rt, rm, shType, shImm) ==
  << \hE600 + P * 256 + U * 128 + B * 64 + W1 * 32 + L * 16 + rn,
     rt * 4096 + shImm * 128 + shType * 32 + (rm % 16) >>

LdstAt(insn, base) ==
  Windowed("ldst", insn, [j \in 0 .. 2 |-> CASE j = 0 -> W(\hCAFE, \hF00D)
                                             [] j = 1 -> base
                                             [] OTHER -> 4])
\* Mutant: the base is left where it is, whatever the offset.
EmitLdstFixed(insn, r1off) == LdstAt(insn, BASE)
EmitLdst(insn, r1off) == LdstAt(insn, BASE + r1off)

EmitLdstRt(insn, rt) ==
  Windowed("ldst", insn, Merge([j \in {1} |-> BASE], [j \in {2, rt} |->
             IF j = rt THEN W(\hDEAD, \hBEEF) ELSE 4]))

\* Post-indexing with W set is the unprivileged form, and is left out.
Indexing == { <<0, 0, 0>>, <<0, 1, 0>>, <<1, 0, 0>>, <<1, 0, 1>>, <<1, 1, 0>>, <<1, 1, 1>> }

LargeOffset(imm) ==
  { EmitLdst(LdstEnc(1, 1, B, 0, L, 1, 0, imm), -imm) : B \in {0, 1}, L \in {0, 1} }
GenLdst ==
       { EmitLdst(LdstEnc(x[1], x[2], B, x[3], L, 1, 0, imm), 0) :
           x \in Indexing, B \in {0, 1}, L \in {0, 1}, imm \in {0, 4, 8, 12, 28} }
  \cup { EmitLdst(LdstReg(x[1], x[2], B, x[3], L, 1, 0, 2, st, 2), 0) :
           x \in Indexing, B \in {0, 1}, L \in {0, 1}, st \in {0, 1} }
  \cup { EmitLdstRt(LdstEnc(1, 1, B, 0, L, 1, rt, 0), rt) :
           rt \in {3, 5, 7, 11}, B \in {0, 1}, L \in {0, 1} }
  \cup UNION { LargeOffset(imm) : imm \in {\h100, \h400, \hFFF, \h7FF} }

-----------------------------------------------------------------------------
\* Multiply.
MulEnc(opc, s, rdHi, rdLo, rs, rm) ==
  << \hE000 + opc * 32 + s * 16 + rdHi, rdLo * 4096 + rs * 256 + \h90 + rm >>
GenMul ==
  { Vec("mul", IF opc < 2 THEN MulEnc(opc, s, 0, 3, 2, 1) ELSE MulEnc(opc, s, 4, 5, 2, 1),
        Drawn([j \in {0} \cup 6 .. 14 |-> 0]), Clear) : opc \in {0, 1, 4, 5, 6, 7}, s \in {0, 1} }

-----------------------------------------------------------------------------
\* Halfword, signed and dual load and store.
XldstEnc(P, U, I, W1, L, rn, rt, op2, imm, rm) ==
  << \hE000 + P * 256 + U * 128 + I * 64 + W1 * 32 + L * 16 + rn,
     rt * 4096 + \h90 + op2 * 32 +
       (IF I = 1 THEN (imm \div 16) * 256 + (imm % 16) ELSE rm % 16) >>
EmitXldst(insn) ==
  Windowed("xldst", insn, [j \in {0, 1, 3, 4} |-> CASE j = 0 -> W(\hBEEF, \hCAFE)
                                                  [] j = 1 -> BASE
                                                  [] j = 3 -> W(\h0BAD, \hF00D)
                                                  [] OTHER -> 4])
EmitXldstRt(insn, rt) ==
  Windowed("xldst", insn, Merge(At(rt, W(\hABCD, \hEF12)),
                                [j \in {1, 4} |-> IF j = 1 THEN BASE ELSE 4]))
GenXldst ==
  LET Forms == { <<1, 1, 0>>, <<1, 2, 0>>, <<1, 3, 0>>, <<0, 1, 0>>, <<0, 2, 2>>, <<0, 3, 2>> }
  IN     { EmitXldst(XldstEnc(x[1], x[2], 1, x[3], f[1], 1, f[3], f[2], imm, 0)) :
             f \in Forms, x \in Indexing, imm \in {0, 2, 4, 8} }
    \cup { EmitXldst(XldstEnc(x[1], x[2], 0, x[3], f[1], 1, f[3], f[2], 0, 4)) :
             f \in Forms, x \in Indexing }
    \cup { EmitXldstRt(XldstEnc(1, 1, 1, 0, f[1], 1, rt, f[2], 0, 0), rt) :
             rt \in {3, 5, 7}, f \in {<<1, 1>>, <<1, 2>>, <<1, 3>>, <<0, 1>>} }

-----------------------------------------------------------------------------
\* Status register and media instructions.
MrsEnc(R, rd) == << \hE10F + R * 64, rd * 4096 >>
MsrRegEnc(R, mask, rm) == << \hE120 + R * 64 + mask, \hF000 + rm >>
MsrImmEnc(R, mask, rot, imm8) == << \hE320 + R * 64 + mask, \hF000 + rot * 256 + imm8 >>
GenMsr ==
       { Vec("msr", MrsEnc(0, rd), Zeros(NoOver), z) :
           rd \in {0, 1, 5}, z \in {Clear, <<1, 1, 1, 1>>, <<1, 0, 1, 0>>, <<0, 1, 0, 1>>} }
  \cup { Vec("msr", MsrRegEnc(0, 8, 1), Zeros(At(1, W(h, 0))), z) :
           h \in {0, \hF000, \h8000, \h3000, \hC000}, z \in {Clear, <<1, 1, 1, 1>>} }
  \cup { Vec("msr", MsrImmEnc(0, 8, 4, imm), Zeros(NoOver), Clear) : imm \in {\hF0, \h80, \h30} }

EmitMedia(insn, r1, rdInit) ==
  Vec("media", insn, Zeros([j \in 0 .. 2 |-> CASE j = 0 -> rdInit [] j = 1 -> r1
                                                [] OTHER -> W(\h5A5A, \h5A5A)]), Clear)
GenMedia ==
  LET Values == { 0, 1, -1, W(\h8000, 0), W(\h4000, 0), \h10000, W(\hDEAD, \hBEEF), \hFF80,
                  W(\h1234, \h5678), \hFF, W(\hABCD, \h1234) }
      Field(op7, width, lsb, op, rn) == << \hE000 + op7 * 32 + width, lsb * 128 + op * 16 + rn >>
  IN     { EmitMedia(w, r1, 0) : w \in {<<\hE16F, \h0F11>>, <<\hE6BF, \h0F31>>, <<\hE6BF, \h0FB1>>},
             r1 \in Values }
    \cup { EmitMedia(<< \hE00F + op * 16, rot * 1024 + \h71 >>, r1, 0) :
             op \in {\h6A, \h6E, \h6B, \h6F}, rot \in 0 .. 3, r1 \in Values }
    \cup { EmitMedia(Field(op7, x[2], x[1], 5, 1), r1, 0) :
             op7 \in {\h3F, \h3D}, r1 \in Values,
             x \in {<<0, 7>>, <<4, 7>>, <<8, 15>>, <<0, 31>>, <<16, 15>>, <<3, 4>>} }
    \cup { EmitMedia(Field(\h3E, x[2], x[1], 1, rn), r1, -1) :
             rn \in {1, 15}, r1 \in Values, x \in {<<0, 7>>, <<8, 15>>, <<4, 12>>, <<0, 31>>} }
-----------------------------------------------------------------------------
\* VFP. A word is a base pattern with its S registers and immediate put in.
Sd(s) == <<(s % 2) * 64, (s \div 2) * 4096>>
Sm(s) == <<0, (s % 2) * 32 + s \div 2>>
Plus(a, b) == <<a[1] + b[1], a[2] + b[2]>>
VmovSR(sn, rt) == << \hEE00 + sn \div 2, rt * 4096 + \hA10 + (sn % 2) * 128 >>
VmovRS(rt, sn) == << \hEE10 + sn \div 2, rt * 4096 + \hA10 + (sn % 2) * 128 >>
TwoReg(h, l, sd, sm) == Plus(<<h, l>>, Plus(Sd(sd), Sm(sm)))
Vldr(sd, rn, imm8) == Plus(<< \hED90 + rn, \hA00 + imm8 >>, Sd(sd))
Vstr(sd, rn, imm8) == Plus(<< \hED80 + rn, \hA00 + imm8 >>, Sd(sd))
Vpush(n) == << \hED2D, \hA00 + n >>
Vpop(n)  == << \hECBD, \hA00 + n >>

VfpRegs == Zeros([j \in {1, 3, 13} |-> CASE j = 1 -> WIN_LO + 16 [] j = 13 -> WIN_LO + 48
                                          [] OTHER -> W(\hA5A5, \hF00D)])
EmitVfp(insn) == Vector("vfp", insn, VfpRegs, Clear)
EmitVfpMem(insn) == [EmitVfp(insn) EXCEPT !.window = TRUE]
EmitVcmp(insn, a, b) ==
  [Vector("vfp", insn, Zeros(NoOver), Clear) EXCEPT
     !.sregs = [j \in 0 .. 31 |-> IF j \in {2, 4} THEN a ELSE IF j \in {3, 5} THEN b ELSE 0]]

GenVfpMove ==
       { EmitVfp(w) : w \in UNION { {VmovSR(sn, 3), VmovRS(2, sn)} : sn \in {0, 1, 5, 8, 15, 31} } }
  \cup { EmitVfp(TwoReg(p[1], p[2], x[1], x[2])) :
           p \in {<<\hEEB0, \hA40>>, <<\hEEB0, \hAC0>>, <<\hEEB1, \hA40>>},
           x \in {<<0, 1>>, <<4, 9>>, <<2, 2>>, <<31, 0>>, <<7, 16>>} }
  \cup { EmitVfpMem(w) : w \in UNION { {Vldr(sd, 1, imm), Vstr(sd, 1, imm)} :
                                         sd \in {0, 1, 6, 15}, imm \in {0, 2, 4, 8} } }
  \cup { EmitVfpMem(w) : w \in UNION { {Vpush(n), Vpop(n)} : n \in {1, 2, 4} } }

FPV == { 0, W(\h8000, 0), W(\h3F80, 0), W(\hBF80, 0), W(\h4049, \h0FDB), W(\hC049, \h0FDB),
         W(\h7F80, 0), W(\hFF80, 0), W(\h7FC0, 0), W(\h0080, 0), W(\h7F7F, \hFFFF) }
GenVcmp ==
  UNION { { EmitVcmp(TwoReg(\hEEB4, \hA40, 2, 3), a, b), EmitVcmp(TwoReg(\hEEB4, \hAC0, 4, 5), a, b),
            EmitVcmp(Plus(<<\hEEB5, \hA40>>, Sd(2)), a, 0) } : a \in FPV, b \in FPV }

VcvtFixed(toF, signed, sx32, fbits, sz) ==
  LET imm == (IF sx32 = 1 THEN 32 ELSE 16) - fbits
  IN  << \hEEB0 + (IF toF = 1 THEN 14 ELSE 10) + (1 - signed),
         4096 + \hA00 + sz * 256 + sx32 * 128 + 64 + (imm % 2) * 32 + ((imm \div 2) % 16) >>

VfpArith ==
       { <<h[1], h[2] + p>> : p \in {\h2A01}, h \in {<<\hEE30, 0>>, <<\hEE30, 64>>, <<\hEE20, 0>>, <<\hEE80, 0>>} }
  \cup { <<\hEEB1, \h2AC1>>, <<\hEE30, \h4B02>>, <<\hEE30, \h4B42>>, <<\hEE20, \h4B02>>,
         <<\hEE80, \h4B02>>, <<\hEEB0, \h4B42>>, <<\hEEB0, \h4BC2>>, <<\hEEB1, \h4B42>>,
         <<\hEEB1, \h4BC2>>, <<\hEEB8, \h1A41>>, <<\hEEB8, \h1AC1>>, <<\hEEBC, \h1AC1>>,
         <<\hEEBD, \h1AC1>>, <<\hEEB7, \h2AC1>>, <<\hEEB7, \h1BC2>>, <<\hEEB8, \h2B41>>,
         <<\hEEB8, \h2BC1>>, <<\hEEBC, \h1BC2>>, <<\hEEBD, \h1BC2>>, <<\hEEBC, \h1A41>>,
         <<\hEEBD, \h1A41>>, <<\hEEBC, \h1B42>>, <<\hEEBD, \h1B42>> }
  \cup { <<h, l>> : h \in {\hEE00, \hEE10}, l \in {\h2A01, \h2A41, \h2B02, \h2B42} }
  \cup { <<\hEE20, \h2A41>>, <<\hEE20, \h2B42>> }
  \cup { <<h, l>> : h \in {\hEEA0, \hEE90}, l \in {\h2A01, \h2A41, \h4B02, \h4B42} }
VfpMoves ==
       { << \hEEB0 + i \div 16, d + (i % 16) >> : i \in 0 .. 255, d \in {\h2A00, \h4B00} }
  \cup { <<h, l>> : h \in {\hEC41, \hEC51}, l \in {\h0B14, \h0A12} }
  \cup { <<h, l>> : h \in {\hEEB2, \hEEB3}, l \in {\h2A41, \h2AC1} }
  \cup { <<\hEEF0, \h2A10>>, <<\hEEE0, \h2A10>> }
  \cup { <<h, \h2B10>> : h \in {\hEE00, \hEE20, \hEE11, \hEE31} }
VfpFixed ==
  { VcvtFixed(x[1], x[2], x[3], x[4], x[5]) :
      x \in { y \in {0, 1} \X {0, 1} \X {0, 1} \X {1, 8, 15, 16, 31, 32} \X {0, 1} :
                y[4] \in IF y[3] = 0 THEN {1, 8, 15, 16} ELSE {1, 16, 31, 32} } }
GenVfpArith ==
       { EmitVfp(w) : w \in VfpArith \cup VfpMoves \cup VfpFixed }
  \cup { EmitVfpMem(w) : w \in {<<\hED91, \h4B00>>, <<\hED81, \h4B00>>, <<\hEC91, \h4B04>>} }
-----------------------------------------------------------------------------
\* Branches and block transfers.
BEnc(cond, link, imm24) ==
  << cond * 4096 + (10 + link) * 256 + imm24 \div \h10000, imm24 % \h10000 >>
BxEnc(cond, rm)  == << cond * 4096 + \h12F, \hFF10 + rm >>
BlxEnc(cond, rm) == << cond * 4096 + \h12F, \hFF30 + rm >>

BranchFlags == { <<0, <<0, 1, 0, 0>>, Clear>>, <<1, Clear, <<0, 1, 0, 0>> >>,
                 <<4, Clear, <<0, 0, 1, 0>> >>, <<5, Clear, <<1, 0, 0, 0>> >>,
                 <<11, <<1, 0, 0, 1>>, Clear>> }
GenBranch ==
       { Bvec(BEnc(AL, 0, imm24), Zeros(NoOver), Clear) : imm24 \in {1, 2, 5, \h20, \hFFFFFE} }
  \cup { Bvec(BEnc(AL, 1, imm24), Zeros(NoOver), Clear) : imm24 \in {1, 4, \h10} }
  \cup { Bvec(BEnc(b[1], 0, imm24), Zeros(NoOver), b[i]) :
           b \in BranchFlags, i \in {2, 3}, imm24 \in {1, 3} }

LdmEnc(P, U, W1, L, rn, rlist) == << \hE800 + P * 256 + U * 128 + W1 * 32 + L * 16 + rn, rlist >>
StoreVals(base) ==
  [j \in 0 .. 7 |-> IF j = 1 THEN base ELSE W((j + 1) * \h1111, (j + 1) * \h1111)]
BvecLdm(insn, over) == Windowed("ldm", insn, over)

GenLdm ==
  LET Modes == { <<0, 1, 0>>, <<0, 1, 1>>, <<1, 1, 1>>, <<1, 0, 1>> }
      Large == { <<\hF4, 0>>, <<\hFC, 0>>, <<\h5554, 0>>, <<\hF4, -16>> }
  IN     { BvecLdm(LdmEnc(p[1], p[2], p[3], 1, 1, rlist), At(1, BASE)) :
             p \in Modes, rlist \in {\h04, \h0C, \h3C, \hFC} }
    \cup { BvecLdm(LdmEnc(p[1], p[2], p[3], 0, 1, rlist), StoreVals(BASE)) :
             p \in Modes, rlist \in {\h04, \h0C, \h3C, \hFC} }
    \cup { BvecLdm(LdmEnc(0, 1, 0, 1, 1, x[1]), At(1, BASE + x[2])) : x \in Large }
    \cup { BvecLdm(LdmEnc(0, 1, 0, 0, 1, x[1]), StoreVals(BASE + x[2])) : x \in Large }
-----------------------------------------------------------------------------

DpPlan ==
  [ i \in 1 .. 64 |->
      LET op == (i - 1) \div 4
          s  == ((i - 1) \div 2) % 2
      IN  IF <<op, s>> \notin DpForms THEN Fresh(Drawn(NoOver), {})
          ELSE IF i % 2 = 1 THEN Fresh(Drawn(NoOver), DpFixed(op, s))
          ELSE Changed(Drawn(ShiftCount), DpByRegister(op, s)) ]

\* BX and BLX: one list for both targets, changed between the calls.
Register(enc, rm) ==
  LET There == Zeros(At(rm, CODE + 8))
      Thumb == Zeros(At(rm, CODE + 9))
  IN  << Fresh(There, {Bvec(enc, There, Clear)}), Changed(Thumb, {Bvec(enc, Thumb, Clear)}) >>

ArmPlan ==
  LET Table(asked) == Fresh(Zeros(NoOver), asked)
  IN  DpPlan
      \o << Table(GenCond), Table(GenVariedRd), Table(GenLdst), Table(GenMul), Table(GenXldst),
            Table(GenMsr), Table(GenMedia), Table(GenVfpMove), Table(GenVcmp),
            Table(GenVfpArith), Table(GenBranch) >>
      \o Register(BxEnc(AL, 2), 2) \o Register(BxEnc(AL, 3), 3) \o Register(BxEnc(AL, 5), 5)
      \o Register(BlxEnc(AL, 2), 2) \o Register(BlxEnc(AL, 4), 4)
      \o << Table(GenLdm) >>
=============================================================================
