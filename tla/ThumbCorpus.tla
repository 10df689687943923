---------------------------- MODULE ThumbCorpus ----------------------------
(***************************************************************************)
(* What tools/armgen/thumb_gen.py asks its oracle about. An instruction is *)
(* the sequence of its halfwords; a register that the script draws at      *)
(* random makes the whole file "drawn", except for the values it sets.     *)
(***************************************************************************)
EXTENDS VectorWords, Sequences, FiniteSets

CODE    == \h10000
MEM     == \h20000
MEMSIZE == 64

\* Each register holds its own digit eight times, r13 the stack.
BASE_REGS ==
  [i \in 0 .. 14 |-> IF i = 13 THEN MEM + \h100
                     ELSE LET n == IF i = 14 THEN 14 ELSE i + 1 IN W(n * \h1111, n * \h1111)]
Base(over)  == Regs("base", over)
Drawn(over) == Regs("drawn", over)

Clear == <<0, 0, 0, 0>>

\* A vector; "seeded" counts the bytes of memory written before the run, 0 when
\* memory is not part of the vector. Only MEMSIZE bytes are captured.
Emit(group, insn, regs, nzcv, seeded) ==
  [ group |-> group, insn |-> insn, regs |-> regs, nzcv |-> nzcv, kept |-> "copy",
    seeded |-> seeded ]
Plain(group, half, regs) == Emit(group, <<half>>, regs, Clear, 0)
WithMem(group, half, over) == Emit(group, <<half>>, Base(over), Clear, MEMSIZE)

-----------------------------------------------------------------------------
\* Encodings with a register or an immediate in each field of three bits.
Form3(op, a, b, c) == op + a * 64 + b * 8 + c
Form8(op, rd, i8)  == op + rd * 256 + i8

GenShiftImm ==
  { Emit("shift", << Form3(op, imm5, 3, 2) >>, Drawn(NoOver), z, 0) :
      op \in {0, \h0800, \h1000}, imm5 \in {0, 1, 7, 15, 31},
      z \in {Clear, <<1, 0, 1, 0>>, <<0, 1, 0, 0>>} }
GenAddSub ==
       { Emit("addsub", << Form3(op, 4, 3, 2) >>, Drawn(NoOver), z, 0) :
           op \in {\h1800, \h1A00}, z \in {Clear, <<1, 1, 0, 0>>, <<0, 0, 1, 0>>} }
  \cup { Plain("addsub", Form3(op, 2, 1, 0), Base([j \in 2 .. 4 |-> 0])) : op \in {\h1800, \h1A00} }
  \cup { Plain("addsub", Form3(op, i, 3, 2), Drawn(At(2, \hDEAD))) :
           op \in {\h1C00, \h1E00}, i \in 0 .. 7 }
  \cup { Emit("imm8", << Form8(op, 0, imm) >>, Drawn(NoOver), z, 0) :
           op \in {\h2000, \h2800, \h3000, \h3800}, imm \in {0, 1, \h7F, \h80, \hFF},
           z \in {Clear, <<1, 0, 1, 1>>} }
GenAlu ==
       { Emit("alu", << Form3(\h4000, op, 1, 0) >>, Drawn(NoOver), z, 0) :
           op \in 0 .. 15, z \in {Clear, <<1, 1, 1, 1>>} }
  \cup { Emit("alu", << Form3(\h4000, op, 1, 0) >>, Drawn(At(1, sh)), <<0, 0, 1, 0>>, 0) :
           op \in {2, 3, 4, 7}, sh \in {0, 1, 8, 31, 32, 33, 255} }
HighReg(op, dn, rm) == op + (dn \div 8) * 128 + rm * 8 + (dn % 8)
GenHigh ==
       { Plain("high", HighReg(\h4600, 8, src), Drawn(NoOver)) : src \in 0 .. 7 }
  \cup { Plain("high", HighReg(op, 8, 0), Drawn(NoOver)) : op \in {\h4400, \h4500} }

-----------------------------------------------------------------------------
\* mem_regs: the base in r1, the offset in r2, the data in r0.
MemRegs(rn) ==
  [j \in 0 .. 2 |-> CASE j = 0 -> W(\hDEAD, \hBEEF) [] j = 1 -> rn [] OTHER -> 4]
RegisterForms == { \h5000, \h5200, \h5400, \h5600, \h5800, \h5A00, \h5C00, \h5E00 }
GenLoadStore ==
       { WithMem("mem", Form3(op, 2, 1, 0), MemRegs(MEM + 4)) : op \in RegisterForms }
  \cup { WithMem("mem", Form3(op, imm5, 1, 0), MemRegs(MEM)) :
           op \in {\h6000, \h6800, \h8000, \h8800}, imm5 \in {0, 1, 3} }
  \cup { WithMem("mem", Form3(op, imm5, 1, 0), MemRegs(MEM)) :
           op \in {\h7000, \h7800}, imm5 \in {0, 1, 7} }
  \cup { WithMem("mem", Form8(op, 3, imm8),
                 [j \in {3, 13} |-> IF j = 3 THEN W(\hBEEF, \hCAFE) ELSE MEM]) :
           op \in {\h9000, \h9800}, imm8 \in {0, 1, 4} }
GenLoadStoreRt ==
  LET Over(rt, rn) == Merge(At(rt, W(\hAABB, \hCCDD)), [j \in {1, 2} |-> IF j = 1 THEN rn ELSE 0])
      \* r1 is the base of the immediate forms whatever the list said before
      Over2(rt) == Merge(At(1, MEM), Over(rt, MEM + 4))
  IN     { WithMem("mem_rt", Form3(op, 2, 1, rt), Over(rt, MEM + 4)) :
             rt \in {1, 3, 5, 7}, op \in RegisterForms \ {\h5600, \h5E00} }
    \cup { WithMem("mem_rt", Form3(op, 0, 1, rt), Over2(rt)) :
             rt \in {1, 3, 5, 7}, op \in {\h6000, \h6800, \h7000, \h7800, \h8000, \h8800} }

GenSpPc ==
       { Plain("add_sp", Form8(op, 0, imm8), Base(At(13, \h8000))) :
           op \in {\hA000, \hA800}, imm8 \in {0, 1, 4, 63} }
  \cup { Plain("add_sp", op + imm7, Base(At(13, \h8000))) :
           op \in {\hB000, \hB080}, imm7 \in {0, 1, 4, \h7F} }
GenExtend ==
       { Plain("extend", Form3(op, 0, 1, 0), Base(At(1, val))) :
           op \in {\hB200, \hB240, \hB280, \hB2C0}, val \in {\hFF, \h7F, \h80FF, \h8001, -1} }
  \cup { Plain("rev", Form3(op, 0, 1, 0), Base(At(1, val))) :
           op \in {\hBA00, \hBA40, \hBAC0},
           val \in {W(\h1234, \h5678), W(\hDEAD, \hBEEF), W(\h00FF, \h00FF), W(\hFF00, 0)} }

\* PUSH writes below MEM + 256; its vectors seed 260 bytes.
GenPush ==
  { Emit("push", << \hB400 + lr * 256 + rlist >>, Base(At(13, MEM + \h100)), Clear, 260) :
      rlist \in {\h01, \h0F, \h55, \hFF}, lr \in {0, 1} }
GenPop ==
  { WithMem("pop", \hBC00 + rlist, At(13, MEM)) : rlist \in {\h01, \h0F, \h55} }
\* STMIA and then LDMIA, with the base set again in the same list.
GenStmia(rlist) == { WithMem("stmia", \hC000 + rlist, At(0, MEM)) }
GenLdmia(rlist) == { WithMem("ldmia", \hC800 + rlist, At(0, MEM)) }

-----------------------------------------------------------------------------
Conditions == 0 .. 13
\* Mutant: only no flag and all flags.
FlagsTriedEnds == { Clear, <<1, 1, 1, 1>> }
\* The flags a condition is tried with: none, each alone, all.
FlagsTried == { Clear, <<1, 0, 0, 0>>, <<0, 1, 0, 0>>, <<0, 0, 1, 0>>, <<0, 0, 0, 1>>, <<1, 1, 1, 1>> }
GenBcond ==
  { Emit("bcond", << Form8(\hD000, cond, 1) >>, Base(NoOver), z, 0) :
      cond \in Conditions, z \in FlagsTried }
GenB == { Plain("b_uncond", \hE000 + i11, Base(NoOver)) : i11 \in {1, 5, \h7FE, \h7FD} }

\* Only 22 bits of the byte offset are kept, so -4 loses its sign.
BlPair(off) ==
  LET off22 == off % \h400000
  IN  << \hF000 + (off22 \div 4096), \hF800 + ((off22 \div 2) % 2048) >>
\* The list itself goes into the vector here, not a copy.
GenBl(off) == { [Emit("bl", BlPair(off), Base(NoOver), Clear, 0) EXCEPT !.kept = "list"] }

\* The bit for CBNZ is put at bit 3, the lowest bit of the offset field, and not at
\* bit 11: with an offset that is a multiple of 4 it adds 2 to the offset.
Cbz(rn, offset, nz) ==
  LET imm5 == (offset \div 2) % 32
      low  == IF nz = 1 /\ imm5 % 2 = 0 THEN imm5 + 1 ELSE imm5
  IN  \hB100 + (offset \div 64) * 512 + low * 8 + rn
GenCbz ==
  { Plain(IF nz = 1 THEN "cbnz" ELSE "cbz", Cbz(0, x[2], nz), Base(At(0, x[1]))) :
      x \in {<<0, 4>>, <<0, 16>>, <<1, 4>>, <<W(\h1111, \h1111), 4>>}, nz \in {0, 1} }
GenHints == { Plain(h[1], \hBF00 + h[2], Base(NoOver)) :
                h \in {<<"wfe", \h20>>, <<"wfi", \h30>>, <<"sev", \h40>>, <<"nop", 0>>} }
GenBx ==
       { Plain("bx", op + rm * 8, Base(At(rm, CODE + 9))) : op \in {\h4700, \h4780}, rm \in {2, 3, 5} }
  \cup { Plain("bx", \h4700 + rm * 8, Base(At(rm, CODE + 8))) : rm \in {4, 6} }
GenLdrLit ==
  { Plain("ldr_lit", Form8(\h4800, rd, i8), Base(NoOver)) : rd \in {0, 2, 4, 7}, i8 \in {0, 1, 4} }
-----------------------------------------------------------------------------

StmiaLdmia(rlist) ==
  << Fresh(Base(At(0, MEM)), GenStmia(rlist)), Changed(Base(At(0, MEM)), GenLdmia(rlist)) >>

ThumbPlan ==
  LET Table(asked) == Fresh(Base(NoOver), asked)
  IN  << Table(GenShiftImm), Table(GenAddSub), Table(GenAlu), Table(GenHigh),
         Table(GenLoadStore), Table(GenSpPc), Table(GenExtend), Table(GenPush), Table(GenPop) >>
      \o StmiaLdmia(\h07) \o StmiaLdmia(\h0F) \o StmiaLdmia(\h55) \o StmiaLdmia(\hFF)
      \o << Table(GenBcond), Table(GenB), Table(GenBl(8)), Table(GenBl(16)), Table(GenBl(-4)),
            Table(GenCbz), Table(GenHints), Table(GenBx), Table(GenLdrLit),
            Table(GenLoadStoreRt) >>
=============================================================================
