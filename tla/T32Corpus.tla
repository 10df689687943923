----------------------------- MODULE T32Corpus -----------------------------
(***************************************************************************)
(* What tools/armgen/t32_gen.py asks its oracle about. An instruction is   *)
(* the pair of its halfwords; a group is a form of the instruction set,    *)
(* where the script has one name for each mnemonic. A list that holds a    *)
(* register drawn at random counts as drawn, but for the values set.       *)
(***************************************************************************)
EXTENDS VectorWords, Sequences

T16 == INSTANCE ThumbCorpus
MEM == T16!MEM
Base(over)  == T16!Base(over)
Drawn(over) == T16!Drawn(over)
Clear == <<0, 0, 0, 0>>
Pair(i, a, j, b) == Merge(At(i, a), At(j, b))

\* The vectors copy the list and the memory; memory is part of some only.
Emit(group, insn, regs, nzcv)  == T16!Emit(group, insn, regs, nzcv, 0)
Plain(group, insn, over)       == Emit(group, insn, Base(over), Clear)
Random(group, insn)            == Emit(group, insn, Drawn(NoOver), Clear)
WithMem(group, insn, over)     == T16!Emit(group, insn, Base(over), Clear, T16!MEMSIZE)

-----------------------------------------------------------------------------
(***************************************************************************)
(* Encodings. An immediate of 12 bits is split over the two halfwords as   *)
(* i:imm3:imm8, one of 5 bits over the second one as imm3:imm2.            *)
(***************************************************************************)
SplitImm(hw1, rd, imm12) ==
  << hw1 + Bits(imm12, 2048, 2) * 1024, Bits(imm12, 256, 8) * 4096 + rd * 256 + (imm12 % 256) >>
SplitShift(hw1, rd, imm5, low) ==
  << hw1, Bits(imm5, 4, 8) * 4096 + rd * 256 + (imm5 % 4) * 64 + low >>

DpImm(op, s, rn, rd, imm12) == SplitImm(\hF000 + op * 32 + s * 16 + rn, rd, imm12)
DpReg(op, s, rn, rd, rm, shift) ==
  SplitShift(\hEA00 + op * 32 + s * 16 + rn, rd, shift[2], shift[1] * 16 + rm)
Wide(op, rd, imm16)         == SplitImm(op + (imm16 \div 4096), rd, imm16)
AddSubW(op, rd, rn, imm12)  == SplitImm(op + rn, rd, imm12)
Extract(op, rd, rn, lsb, width) == SplitShift(op + rn, rd, lsb, width - 1)
Bfi(rd, rn, lsb, width)     == SplitShift(\hF360 + rn, rd, lsb, lsb + width - 1)
Saturate(op, rd, rn, sat, sh, amount) == SplitShift(op + sh * 32 + rn, rd, amount, sat)
Transfer(op, rt, rn, low)   == << op + rn, rt * 4096 + low >>
Block(op, rn, list)         == << op + rn, list >>
Indexed8(op, rt, rn, p, w, imm8) ==
  Transfer(op, rt, rn, \h800 + p * 1024 + 512 + w * 256 + imm8)
Multiply(op, hi, rd, mid, rn, rm) == << op + rn, hi * 4096 + rd * 256 + mid + rm >>
\* The register counted is r0 in the call, but the constant sets bit 11 of its field,
\* and the four high bits that make it a CLZ are missing.
Clz(rd, rm) == << \hFAB0 + rm, rd * 256 + \h0820 + rm >>
Extend(op, rd, rn, rm, rot) == << \hFA00 + op * 16 + rn, \hF080 + rd * 256 + rot * 16 + rm >>
Mrs(rd) == << \hF3EF, rd * 256 + \h8000 >>

\* B.W and BL.W: bits 23 and 22 of the offset are stored inverted unless negative.
LongBranch(op, offset) ==
  LET s     == IF offset < 0 THEN 1 ELSE 0
      off25 == offset % 2 ^ 25
      J(bit) == IF (off25 \div 2 ^ bit) % 2 = s THEN 1 ELSE 0
  IN  << \hF000 + s * 1024 + Bits(off25, 4096, 1024),
         op + J(23) * 8192 + J(22) * 2048 + Bits(off25, 2, 2048) >>
\* The conditional form: the places of bits 19 and 18 are exchanged here.
CondBranch(cond, offset) ==
  LET s     == IF offset < 0 THEN 1 ELSE 0
      off21 == offset % 2 ^ 21
  IN  << \hF000 + s * 1024 + cond * 64 + Bits(off21, 4096, 64),
         \h8000 + Bits(off21, 2 ^ 19, 2) * 8192 + Bits(off21, 2 ^ 18, 2) * 2048
         + Bits(off21, 2, 2048) >>

-----------------------------------------------------------------------------
DP_IMM_OPS == {0, 1, 2, 3, 4, 8, 10, 11, 13, 14}

GenDpImm ==
       { Emit("dp_imm", DpImm(op, s, 1, 0, imm12), Drawn(NoOver), z) :
           op \in DP_IMM_OPS, s \in {0, 1}, imm12 \in {\h00F, \h0FF, \h101, \h201, \h412},
           z \in {Clear, <<1, 0, 1, 0>>, <<0, 1, 0, 0>>} }
  \cup { Random("dp_imm", DpImm(op, 0, r[2], r[1], \h0FF)) :
           op \in DP_IMM_OPS, r \in {<<3, 2>>, <<5, 4>>} }
  \cup { Plain("dp_imm", DpImm(x[1], 1, 15, 0, x[2]), NoOver) :                 \* MOV, MVN
           x \in ({2} \X {\h00F, \h0FF, \h412}) \cup ({3} \X {\h00F, \h0FF}) }
  \cup { Random("dp_imm", DpImm(x[1], 1, 1, 15, x[2])) :                        \* TST to TEQ
           x \in ({0, 8} \X {\h00F, \h0FF}) \cup ({13} \X {\h00F, \h0FF, \h100})
                 \cup ({4} \X {\h00F, \h0FF, \h412, \h201}) }

SHIFTS    == { <<0, 0>>, <<0, 1>>, <<0, 7>>, <<1, 1>>, <<2, 1>>, <<3, 4>> }
GenDpReg ==
       { Emit("dp_reg", DpReg(op, 1, 1, 0, 2, sh), Drawn(NoOver), <<0, 0, 1, 0>>) :
           op \in DP_IMM_OPS, sh \in SHIFTS }
  \cup { Random("dp_reg", DpReg(op, 0, r[2], r[1], r[3], <<0, 0>>)) :
           op \in DP_IMM_OPS, r \in {<<3, 4, 5>>, <<6, 2, 7>>} }
  \cup { Emit("dp_reg", DpReg(2, 1, 15, 0, 2, sh), Drawn(NoOver), <<0, 0, 1, 0>>) :
           sh \in { <<0, 0>>, <<0, 1>>, <<1, 2>>, <<2, 3>>, <<3, 4>> } }
  \cup { Random("dp_reg", DpReg(op, 1, 0, 15, 1, <<0, 0>>)) : op \in {0, 13} }
  \cup { Emit("dp_reg", DpReg(op, 1, 1, 0, 2, <<0, 0>>), Drawn(NoOver), z) :
           op \in {10, 11}, z \in {Clear, <<0, 0, 1, 0>>, <<1, 0, 1, 1>>} }
  \cup { Random("dp_reg", DpReg(4, 1, 0, 15, 1, sh)) :
           sh \in { <<0, 0>>, <<0, 4>>, <<1, 2>>, <<2, 3>> } }

GenPlainImm ==
       { Random(IF op = \hF2C0 THEN "movt" ELSE "movw", Wide(op, 0, imm16)) :
           op \in {\hF240, \hF2C0},
           imm16 \in {0, 1, \h00FF, \h1234, \hABCD, \hFFFF, \h8000} }
  \cup { Random("addw", AddSubW(op, 0, 1, imm12)) :
           op \in {\hF200, \hF2A0}, imm12 \in {0, 1, \hFF, \h100, \h7FF, \hFFF} }
  \cup { Random("addw", AddSubW(x[1], r[1], r[2], x[2])) :
           x \in {<<\hF200, \h100>>, <<\hF2A0, \h80>>}, r \in {<<3, 2>>, <<5, 4>>, <<7, 6>>} }
  \cup { Random("bitfield", Extract(op, 0, 1, x[1], x[2])) :
           op \in {\hF340, \hF3C0},
           x \in {<<0, 8>>, <<8, 8>>, <<0, 16>>, <<16, 16>>, <<24, 8>>, <<1, 7>>, <<4, 12>>} }
  \cup { Random("bitfield", Bfi(0, 1, x[1], x[2])) :
           x \in {<<0, 8>>, <<8, 8>>, <<0, 16>>, <<16, 8>>} }

-----------------------------------------------------------------------------
DEADBEEF == W(\hDEAD, \hBEEF)
CAFEBABE == W(\hCAFE, \hBABE)
ImmForms == {\hF8C0, \hF8D0, \hF880, \hF890, \hF8A0, \hF8B0, \hF990, \hF9B0}
GenImm12 ==
       { WithMem("imm12", Transfer(op, 0, 1, off), Pair(1, MEM, 0, DEADBEEF)) :
           op \in ImmForms, off \in {0, 4, 8, 16, 32} }
  \cup { WithMem("imm12", Transfer(op, rt, 1, off), Pair(1, MEM, rt, DEADBEEF)) :
           op \in ImmForms, rt \in {2, 3, 5}, off \in {0, 8, 16} }
  \cup { WithMem("imm12", Transfer(op, 0, 1, off), Pair(1, MEM, 0, CAFEBABE)) :
           op \in {\hF8C0, \hF8D0}, off \in {\h100, \h200, \h10} }

GenOffset ==
       { WithMem("offset", Transfer(op, 0, 1, shift * 16 + 2),
                 Merge(At(2, 4), Pair(1, MEM, 0, CAFEBABE))) :
           op \in {\hF840, \hF850, \hF800, \hF810, \hF820, \hF830}, shift \in 0 .. 2 }
  \cup { WithMem("offset", Transfer(x[1], rt, 1, x[2] * 16 + 3),
                 Merge(At(3, 4), Pair(1, MEM, rt, W(\hBEEF, \hCAFE)))) :
           x \in ({\hF840, \hF850} \X {0}) \cup ({\hF800, \hF810, \hF820, \hF830} \X {1}),
           rt \in {2, 4, 6} }

GenDual ==
  { WithMem("dual", Transfer(op, 0, 2, 256 + imm8),
            Merge(At(2, MEM), Pair(0, W(\h1122, \h3344), 1, W(\h5566, \h7788)))) :
      op \in {\hE9C0, \hE9D0}, imm8 \in {0, 1, 4, 8} }

\* STMIA, LDMIA from the start of memory, STMDB and LDMDB from its end. The base of
\* the first lists is r3, which is in three of them.
BlockLists == ({3} \X {\h07, \h0F, \h55, \hFF, \h3FF}) \cup ({1} \X {\hEC, \h3EC})
              \cup ({5} \X {\hCF, \h1CF})
GenBlock ==
       { WithMem("block", Block(op, x[1], x[2]), At(x[1], MEM)) :
           op \in {\hE8A0, \hE8B0}, x \in BlockLists }
  \cup { WithMem("block", Block(op, x[1], x[2]), At(x[1], MEM + \h40)) :
           op \in {\hE920, \hE930}, x \in BlockLists }

-----------------------------------------------------------------------------
GenMultiply ==
       { Random("mul", Multiply(\hFB00, x[1], 0, x[2], 1, 2)) :
           x \in {<<0, \hF0>>, <<3, 0>>, <<3, \h10>>, <<15, 0>>} }
  \cup { Plain("mul", Multiply(\hFB00, 0, 0, \hF0, 1, 2), Pair(1, x[1], 2, x[2])) :
           x \in {<<0, 0>>, <<1, -1>>, <<\hFFFF, \h10000>>, <<W(\h8000, 0), 2>>} }
  \cup { Plain("mul", Multiply(\hFB00, 15, 0, 0, 1, 2), Pair(1, x[1], 2, x[2])) :
           x \in {<<0, 1>>, <<1, -1>>, <<\h10000, \h10000>>, <<W(\h8000, 0), 2>>} }
  \cup { Random("mull", Multiply(op, 0, 1, 0, 2, 3)) : op \in {\hFB80, \hFBA0, \hFBC0, \hFBE0} }
  \cup { Plain("mull", Multiply(op, 0, 1, 0, 2, 3), Merge(Pair(0, 0, 1, 0), Pair(2, a, 3, a))) :
           op \in {\hFB80, \hFBA0}, a \in {W(\h7FFF, \hFFFF), -1, W(\h8000, 0)} }

GenDivide ==
  LET Div(op, x) == Plain("div", Multiply(op, 0, 0, \hF0, 1, 2), Pair(1, x[1], 2, x[2]))
  IN     { Div(op, x) : op \in {\hFB90, \hFBB0},
                        x \in {<<10, 3>>, <<100, 7>>, <<-1, 2>>, <<W(\h8000, 0), 1>>, <<0, 5>>,
                               <<5, 0>>, <<1, 1>>} }
    \cup { Div(\hFB90, x) : x \in {<<-10, 3>>, <<10, -3>>, <<-10, -3>>, <<-1, 2>>,
                                   <<W(\h8000, 0), -1>>} }
GenClz ==
  { Plain("clz", Clz(0, 1), At(1, val)) :
      val \in {0, 1, 2, \h80, \hFF, \h8000, \hFFFF, W(\h8000, 0), -1, W(\h4000, 0)} }

GenSaturate ==
       { Plain("ssat", Saturate(\hF300, 0, 1, x[2], sh, sh), At(1, x[1])) : sh \in {0, 1},
           x \in {<<\h7FFF, 15>>, <<\h10000, 15>>, <<-1, 8>>, <<W(\h8000, 0), 31>>, <<5, 3>>,
                  <<\hFF, 7>>} }
  \cup { Plain("ssat", Saturate(\hF300, 0, 1, x[2], x[3], x[4]), At(1, x[1])) :
           x \in {<<\h100, 8, 0, 2>>, <<-1, 16, 1, 1>>, <<\h7F, 4, 0, 1>>,
                  <<W(\h8000, 0), 31, 1, 4>>} }
  \cup { Plain("usat", Saturate(\hF380, 0, 1, x[2], sh, sh), At(1, x[1])) : sh \in {0, 1},
           x \in {<<\h7FFF, 15>>, <<\h10000, 15>>, <<-1, 8>>, <<W(\h8000, 0), 31>>, <<5, 3>>} }
GenExtend ==
       { Random("extend", Extend(op, 0, 15, 1, rot)) : op \in {0, 1, 4, 5}, rot \in 0 .. 3 }
  \cup { Random("extend", Extend(op, 2, 0, 1, rot)) : op \in {0, 1, 4, 5}, rot \in {0, 1} }
  \cup { Random("extend", Extend(op, 0, 15, 1, rot)) : op \in {2, 3}, rot \in {0, 2} }
  \cup { Plain("extend", Extend(op, 0, 15, 1, 0), At(1, val)) : op \in {0, 4},
           val \in {W(\hAABB, \hCCDD), W(\h80FF, \h7F01), -1, W(\h00FF, \h00FF)} }

-----------------------------------------------------------------------------
GenStatus ==
       { Emit("mrs", Mrs(0), Base(NoOver), z) :
           z \in {Clear, <<1, 0, 1, 0>>, <<0, 1, 0, 1>>, <<1, 1, 1, 1>>} }
  \cup { Emit("mrs", Mrs(rd), Base(NoOver), <<1, 0, 1, 0>>) : rd \in {2, 4, 7} }
  \cup { Plain("nop", << \hF3AF, \h8000 >>, NoOver) }
GenBranch ==
       { Plain("b", LongBranch(\h9000, off), NoOver) : off \in {4, 8, 16, 100, -4, -8} }
  \cup { Plain("bl", LongBranch(\hD000, off), NoOver) : off \in {4, 8, 100, -4, -8} }
  \cup { Emit("bcond", CondBranch(cond, 4), Base(NoOver), z) :
           cond \in T16!Conditions, z \in T16!FlagsTried }
GenExclusive ==
       { WithMem("exclusive", Transfer(\hE840, 0, 2, 3 * 256 + off8), Pair(2, MEM, 0, CAFEBABE)) :
           off8 \in {0, 1, 4} }
  \cup { WithMem("exclusive", Transfer(\hE850, 0, 2, \hF00 + off8), At(2, MEM)) :
           off8 \in {0, 1, 4} }

\* The forms with an offset of 8 bits: a word before and after the base moves, then
\* bytes and halfwords with the base kept, moved before and moved after.
GenIndexed8 ==
  LET Store(over, op, rt, p, w, imm8) == WithMem("imm8", Indexed8(op, rt, 1, p, w, imm8), over)
      Word(off, p, data) ==
        { Store(Pair(1, MEM, 0, data), \hF840, 0, p, 1, off),
          Store(At(1, MEM), \hF850, 0, p, 1, off) }
      Data(rt, data) == Pair(1, MEM, rt, data)
  IN     (UNION { Word(off, 1, W(\hDEAD, \hC0DE)) : off \in {0, 4, 8} })
    \cup (UNION { Word(off, 0, W(\hBEEF, \hCAFE)) : off \in {4, 8} })
    \cup { Store(Data(rt, W(\hAABB, \hCCDD)), op, rt, 1, 0, off) :
             rt \in {2, 5}, off \in {0, 8}, op \in {\hF800, \hF810, \hF820, \hF830} }
    \cup { Store(Data(x[1], W(\hDEAD, \hBABE)), x[2], x[1], 1, 1, 4) :
             x \in ({2, 5} \X {\hF800, \hF810}) \cup ({2} \X {\hF820, \hF830}) }
    \cup { Store(Data(rt, W(\hFEED, \hC0DE)), op, rt, 0, 1, 8) :
             rt \in {2, 5}, op \in {\hF800, \hF810} }
-----------------------------------------------------------------------------

T32Plan ==
  LET Table(asked) == Fresh(Base(NoOver), asked)
  IN  << Table(GenDpImm), Table(GenDpReg), Table(GenPlainImm), Table(GenImm12), Table(GenOffset),
         Table(GenDual), Table(GenBlock), Table(GenMultiply), Table(GenDivide), Table(GenClz),
         Table(GenStatus), Table(GenBranch), Table(GenExclusive), Table(GenSaturate),
         Table(GenExtend), Table(GenIndexed8) >>
=============================================================================
