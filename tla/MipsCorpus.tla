----------------------------- MODULE MipsCorpus -----------------------------
(***************************************************************************)
(* What tools/mipsgen/mips_oracle.py asks its oracle about: one set of     *)
(* vectors per generator function. A vector is the instruction, the inputs *)
(* and which outputs its emitter stores.                                   *)
(***************************************************************************)
EXTENDS VectorWords, Sequences

CODE      == \h10000                 \* where the oracle runs the instruction
CODE_VIRT == W(\h8000, 0)            \* where the checker runs it
DATA_PHYS == \h1000
DATA_VIRT == W(\h8000, \h1000)
MEM_BASE  == 28

BASE_REGS ==
  LET r == << 0, 1, -1, W(\h8000, 0), W(\h7FFF, \hFFFF), 100, W(\hDEAD, \hBEEF),
              W(\h1234, \h5678), W(\hABCD, \hEF01), 42, 0, \hFFFF,
              W(\h8000, 1), W(\h7FFF, \hFFFE), W(\h5555, \h5555),
              W(\hAAAA, \hAAAA), \hFFFF, W(\hFFFF, 0), W(\h0101, \h0101),
              W(\hFEFE, \hFEFE), 17, 31, 0, 1, 2, 3, 0, 0, 0, W(\hBFC0, 0), 0, 0 >>
  IN  [i \in 0 .. 31 |-> r[i + 1]]

\* The register files of the script: BASE_REGS, and the first of RAND_REGS_SETS.
Base == Regs("base", NoOver)
MakeRegs(i, val) == Regs("base", [j \in {i} |-> val])
Rand(n) == { Regs(f, NoOver) : f \in IF n = 2 THEN {"rand1", "rand2"}
                                              ELSE {"rand1", "rand2", "rand3"} }

Known(v, i) == i = 0 \/ v.regs.from = "base" \/ i \in DOMAIN v.regs.over
Reg(v, i) == IF i \in DOMAIN v.regs.over THEN v.regs.over[i] ELSE BASE_REGS[i]

\* A vector as the plain emitter leaves it: GPRs, HI and LO are stored.
Vector(group, insn, regs) ==
  [ group |-> group, insn |-> insn, regs |-> regs, kept |-> "copy", acc |-> <<0, 0>>,
    data |-> 0, fprs |-> NoOver, fcsr |-> 0, saved |-> {}, based |-> FALSE, link |-> FALSE ]

Emit(group, insn, regs) == Vector(group, insn, regs)

EmitAcc(group, insn, regs, acc) == [Vector(group, insn, regs) EXCEPT !.acc = acc]

\* Mutant: the return address is left as the oracle has it.
EmitLinkRaw(group, insn, regs) == Vector(group, insn, regs)
EmitLink(group, insn, regs) == [Vector(group, insn, regs) EXCEPT !.link = TRUE]

\* mem_regs puts the oracle's data address into MEM_BASE.
MemRegs(over) ==
  Regs("base", [j \in DOMAIN over \cup {MEM_BASE} |->
                  IF j \in DOMAIN over THEN over[j] ELSE DATA_PHYS])

\* The data word is stored when the caller asks for it.
EmitMem(group, insn, over, data, saved) ==
  [Vector(group, insn, MemRegs(over)) EXCEPT
     !.data = data, !.based = TRUE, !.saved = saved]

\* out_fcr31 is stored when asked for or when the input is not zero.
EmitFp(group, insn, regs, fprs, fcsr, saved) ==
  [Vector(group, insn, regs) EXCEPT
     !.fprs = fprs, !.fcsr = fcsr,
     !.saved = saved \cup (IF fcsr # 0 THEN {"fcr"} ELSE {})]

EmitFpMem(group, insn, fprs, data, saved) ==
  [Vector(group, insn, MemRegs(NoOver)) EXCEPT
     !.fprs = fprs, !.data = data, !.based = TRUE, !.saved = saved]

-----------------------------------------------------------------------------
SHIFT_AMOUNTS == {0, 1, 7, 8, 15, 16, 23, 24, 31}

GenAluR ==
       { Emit("alu-r", RType(t[1], t[2], t[3], 0, f, 0), r) :
           f \in {\h21, \h23, \h24, \h25, \h26, \h27, \h2A, \h2B},
           t \in {<<1, 2, 3>>, <<4, 5, 6>>, <<7, 8, 9>>}, r \in {Base} \cup Rand(3) }
  \cup { Emit("alu-r", RType(0, t[1], t[2], sa, f, 0), r) :
           f \in {0, 2, 3}, t \in {<<1, 3>>, <<4, 6>>, <<7, 9>>},
           sa \in SHIFT_AMOUNTS, r \in {Base, Regs("rand1", NoOver)} }
  \cup { Emit("alu-r", RType(0, rt, 9, sa, f, 0), Base) :
           f \in {0, 2, 3}, rt \in {2, 3, 4}, sa \in {0, 1, 15, 31} }
  \cup { Emit("alu-r", RType(t[1], t[2], t[3], 0, f, 0), r) :
           f \in {4, 6, 7}, t \in {<<20, 1, 3>>, <<21, 4, 6>>, <<1, 7, 9>>, <<9, 3, 5>>},
           r \in {Base, Regs("rand1", NoOver)} }
  \cup { Emit("alu-r", RType(rs, t[1], 9, 0, t[2], 0), Base) :
           rs \in {10, 1, 21, 24}, t \in {<<2, 4>>, <<3, 6>>, <<3, 7>>} }

GenAluI ==
       { Emit("alu-i", IType(op, t[1], t[2], imm), r) :
           op \in {\h09, \h0C, \h0D, \h0E, \h0A, \h0B}, t \in {<<1, 2>>, <<3, 4>>},
           imm \in {0, 1, \h7FFF, \h8000, \hFFFF, 100, \h1234},
           r \in {Base, Regs("rand1", NoOver)} }
  \cup { Emit("alu-i", IType(\h0F, 0, rt, imm), Base) :
           rt \in {1, 3, 5}, imm \in {0, 1, \h7FFF, \h8000, \hFFFF, \h1234} }

\* Mutant: a divisor of zero among them.
DivPairsByZero == { <<5, 24>>, <<5, 0>>, <<2, 1>> }
DivPairs == { <<5, 24>>, <<5, 9>>, <<2, 1>>, <<2, 24>>, <<3, 24>>, <<4, 5>>,
              <<5, 2>>, <<1, 5>>, <<9, 5>> }

GenMulDiv ==
       { Emit("muldiv", RType(p[1], p[2], 0, 0, f, 0), Base) :
           f \in {\h18, \h19},
           p \in { <<1, 5>>, <<4, 1>>, <<3, 1>>, <<2, 24>>, <<4, 24>>, <<3, 24>>,
                   <<2, 2>>, <<3, 3>>, <<5, 9>>, <<6, 7>> } }
  \cup { Emit("muldiv", RType(1, 2, 0, 0, f, 0), r) : f \in {\h18, \h19}, r \in Rand(3) }
  \cup { Emit("muldiv", RType(p[1], p[2], 0, 0, f, 0), Base) :
           f \in {\h1A, \h1B}, p \in DivPairs }
  \cup { EmitAcc("muldiv", RType(0, 0, 3, 0, f, 0), Base, a) :
           f \in {\h10, \h12},
           a \in { <<W(\h1234, \h5678), W(\hDEAD, \hBEEF)>>, <<0, 0>>,
                   <<-1, W(\h8000, 0)>>, <<1, W(\h7FFF, \hFFFF)>>,
                   <<W(\hABCD, \hEF01), 1>> } }
  \cup { Emit("muldiv", RType(rs, 0, 0, 0, f, 0), Base) :
           rs \in {1, 2, 3, 4, 5, 7}, f \in {\h11, \h13} }

GenSpecial2 ==
       { Emit("special2", RType(p[1], p[2], 3, 0, 2, \h1C), Base) :
           p \in { <<1, 5>>, <<4, 24>>, <<3, 24>>, <<2, 2>>, <<5, 9>>, <<6, 7>> } }
  \cup { Emit("special2", RType(1, 2, 3, 0, 2, \h1C), r) : r \in Rand(2) }
  \cup { Emit("special2", RType(rs, rs, 3, 0, f, \h1C), Base) :
           rs \in 1 .. 8, f \in {\h20, \h21} }
  \cup { Emit("special2", RType(1, 1, 3, 0, \h20, \h1C), MakeRegs(1, val)) :
           val \in {0, 1, 2, W(\h8000, 0), W(\h4000, 0), \h10000, -1} }
  \cup { Emit("special2", RType(1, 1, 3, 0, \h21, \h1C), MakeRegs(1, val)) :
           val \in {0, 1, W(\h8000, 0), W(\hC000, 0), W(\hFFFF, 0), -1, -2,
                    W(\h7FFF, \hFFFF)} }

ExtWord(rs, rt, pos, size) == RType(rs, rt, size - 1, pos, 0, \h1F)
InsWord(rs, rt, pos, size) == RType(rs, rt, pos + size - 1, pos, 4, \h1F)

GenSpecial3 ==
       { Emit("special3", ExtWord(c[1], 3, c[2], c[3]), Base) :
           c \in { <<1, 0, 1>>, <<1, 0, 8>>, <<1, 8, 8>>, <<1, 0, 16>>, <<1, 16, 16>>,
                   <<1, 0, 32>>, <<1, 31, 1>>, <<1, 4, 4>>, <<1, 1, 30>>, <<2, 0, 8>>,
                   <<4, 0, 8>>, <<3, 24, 8>>, <<7, 4, 8>>, <<6, 0, 16>> } }
  \cup { Emit("special3", ExtWord(1, 3, p[1], p[2]), MakeRegs(1, val)) :
           val \in {0, W(\h1234, \h5678), W(\hDEAD, \hBEEF), W(\h8000, 0),
                    W(\h7FFF, \hFFFF), -1},
           p \in {<<0, 8>>, <<8, 8>>, <<0, 32>>, <<4, 4>>, <<28, 4>>} }
  \cup { Emit("special3", InsWord(c[1], c[2], c[3], c[4]), Base) :
           c \in { <<1, 3, 0, 1>>, <<1, 3, 0, 8>>, <<1, 3, 8, 8>>, <<1, 3, 0, 16>>,
                   <<1, 3, 16, 16>>, <<1, 3, 4, 4>>, <<2, 5, 0, 8>>, <<4, 5, 16, 8>>,
                   <<7, 8, 4, 8>>, <<5, 6, 0, 32>>, <<1, 3, 31, 1>> } }
  \cup { Emit("special3", InsWord(1, 3, p[1], p[2]),
              Regs("base", [j \in {1, 3} |-> IF j = 1 THEN x[1] ELSE x[2]])) :
           x \in {<<0, -1>>, <<-1, 0>>, <<W(\h1234, \h5678), W(\hDEAD, \hBEEF)>>},
           p \in {<<0, 8>>, <<8, 8>>, <<0, 16>>, <<16, 16>>} }

GenBshfl ==
  LET Bshfl(rt, rd, sa) == RType(0, rt, rd, sa, \h20, \h1F)
  IN     { Emit("bshfl", Bshfl(rt, 9, sa), Base) :
             rt \in {1, 2, 3, 4, 7, 8}, sa \in {\h10, \h18, 2} }
    \cup { Emit("bshfl", Bshfl(1, 3, sa), MakeRegs(1, val)) :
             val \in {0, 1, \h7F, \h80, \hFF, \h7FFF, \h8000, \hFFFF, W(\h1234, \h5678),
                      W(\hDEAD, \hBEEF), W(\hABCD, \hEF01), W(\h8000, 0),
                      W(\h7FFF, \hFFFF), -1},
             sa \in {\h10, \h18, 2} }
-----------------------------------------------------------------------------
GenBranchLikely ==
       { Emit("branch-likely", IType(op, rs, rt, 0), Base) :
           op \in \h14 .. \h17, rs \in {0, 1, 3, 4, 10}, rt \in {0, 1} }
  \cup { Emit("branch-likely", IType(op, 1, 2, 0), r) : op \in \h14 .. \h17, r \in Rand(2) }

GenTrapR ==
       { Emit("trap-r", RType(t[2], t[3], 0, 0, t[1], 0), Base) :
           t \in { <<\h30, 1, 5>>, <<\h30, 9, 5>>, <<\h30, 10, 1>>, <<\h31, 1, 5>>,
                   <<\h31, 9, 5>>, <<\h31, 10, 23>>, <<\h32, 5, 1>>, <<\h32, 5, 9>>,
                   <<\h32, 9, 9>>, <<\h33, 5, 1>>, <<\h33, 5, 9>>, <<\h34, 1, 5>>,
                   <<\h34, 9, 5>>, <<\h34, 2, 3>>, <<\h36, 1, 23>>, <<\h36, 10, 22>>,
                   <<\h36, 10, 10>> } }
  \cup { Emit("trap-r", RType(1, t[1], 0, 0, t[2], 0), r) :
           t \in {<<2, \h34>>, <<1, \h36>>}, r \in Rand(2) }

GenTrapI ==
       { Emit("trap-i", IType(1, t[2], t[1], t[3]), Base) :
           t \in { <<\h08, 1, 100>>, <<\h08, 9, 100>>, <<\h08, 10, 1>>, <<\h09, 1, 100>>,
                   <<\h09, 9, 100>>, <<\h0A, 5, 50>>, <<\h0A, 5, 100>>, <<\h0A, 9, 42>>,
                   <<\h0B, 5, 50>>, <<\h0B, 5, 100>>, <<\h0C, 1, 2>>, <<\h0C, 5, 101>>,
                   <<\h0C, 9, 43>>, <<\h0E, 1, 1>>, <<\h0E, 5, 100>>, <<\h0E, 9, 42>> } }
  \cup { Emit("trap-i", IType(1, 2, op, \hFFFF), Base) : op \in {\h08, \h0C, \h0E} }

LoadWords == { 0, W(\h1234, \h5678), W(\hDEAD, \hBEEF), W(\h8000, 0), W(\h7FFF, \hFFFF),
               W(\hABCD, \hEF01), W(\hFF80, \h8100), W(\h0102, \h0304) }

GenMemLoad ==
  LET Load(op, offset, data) ==
        EmitMem("memload", IType(op, MEM_BASE, 3, offset), NoOver, data, {})
  IN     { Load(op, o, d) : op \in {\h20, \h24}, o \in 0 .. 3, d \in LoadWords }
    \cup { Load(op, o, d) : op \in {\h21, \h25}, o \in {0, 2}, d \in LoadWords }
    \cup { EmitMem("memload", IType(op, MEM_BASE, 3, o), [j \in {3} |-> rt], d, {}) :
             op \in {\h22, \h26}, o \in 0 .. 3, rt \in {0, -1, W(\hAAAA, \hAAAA)},
             d \in {W(\h1234, \h5678), W(\hDEAD, \hBEEF), W(\h8000, 0), -1} }

GenMemStore ==
  LET Store(op, rt, offset, data) ==
        EmitMem("memstore", IType(op, MEM_BASE, rt, offset), NoOver, data, {"mem"})
      DATA_WORDS == {0, -1, W(\hDEAD, \hBEEF)}
  IN     { Store(\h28, rt, o, d) : rt \in {1, 7, 2, 11}, o \in 0 .. 3, d \in DATA_WORDS }
    \cup { Store(\h29, rt, o, d) : rt \in {1, 7, 2, 11}, o \in {0, 2}, d \in DATA_WORDS }
    \cup { Store(op, rt, o, d) :
             op \in {\h2A, \h2E}, rt \in {7, 6, 2}, o \in 0 .. 3, d \in DATA_WORDS }

GenLlSc ==
       { EmitMem("ll-sc", IType(\h30, MEM_BASE, 3, 0), NoOver, d, {}) :
           d \in {W(\h1234, \h5678), W(\hDEAD, \hBEEF), 0, W(\h8000, 0), -1} }
  \cup { EmitMem("ll-sc", IType(\h38, MEM_BASE, rt, 0), NoOver, W(\hABCD, \h1234), {}) :
           rt \in {7, 1, 2} }

GenMadd ==
       { EmitAcc("madd", RType(p[1], p[2], 0, 0, f, \h1C), Base, a) :
           f \in {0, 1, 4, 5},
           p \in {<<1, 2>>, <<4, 5>>, <<7, 8>>, <<3, 9>>, <<2, 14>>, <<4, 15>>},
           a \in {<<0, 0>>, <<0, 100>>, <<-1, -1>>, <<0, W(\h8000, 0)>>} }
  \cup { EmitAcc("madd", RType(1, 2, 0, 0, f, \h1C), r, <<0, 0>>) :
           f \in {0, 1, 4, 5}, r \in Rand(3) }

SignRegs == {1, 2, 3, 4, 10, 5, 9}

GenRegimmLikely ==
       { Emit("regimm", IType(1, rs, op, 0), Base) : op \in {2, 3}, rs \in SignRegs }
  \cup { Emit("regimm", IType(1, 1, op, 0), r) : op \in {2, 3}, r \in Rand(2) }
  \cup { EmitLink("regimm", IType(1, rs, op, 0), Base) : op \in {\h12, \h13}, rs \in SignRegs }
  \cup { EmitLink("regimm", IType(1, 1, op, 0), r) : op \in {\h12, \h13}, r \in Rand(2) }
  \cup { Emit("regimm", IType(1, rs, \h1F, 0), Base) : rs \in {0, 1, 4} }

GenRdhwr ==
  { Emit("rdhwr", RType(0, rt, rd, 0, \h3B, \h1F), Base) :
      rd \in {0, 1, 3, 29}, rt \in {3, 4, 5} }

GenCachePref ==
  { Emit("nop", IType(op, rs, hint, 0), Base) :
      op \in {\h2F, \h33}, rs \in {0, 1}, hint \in {0, 1} }
-----------------------------------------------------------------------------
FP_1_0  == W(\h3F80, 0)
FP_2_0  == W(\h4000, 0)
FP_M1_0 == W(\hBF80, 0)
FP_0_5  == W(\h3F00, 0)
FP_100  == W(\h42C8, 0)
FP_PI   == W(\h4049, \h0FDB)
FP_NEG  == W(\hC2C8, 0)

\* Doubles of the generators have a zero low word; d_val names them by the high one.
D_1_0  == W(\h3FF0, 0)
D_2_0  == W(\h4000, 0)
D_M1_0 == W(\hBFF0, 0)
D_0_5  == W(\h3FE0, 0)

F1(a) == [j \in {2} |-> a]
F2(a, b) == [j \in {2, 4} |-> IF j = 2 THEN a ELSE b]
D1(a) == [j \in {2, 3} |-> IF j = 3 THEN a ELSE 0]
D2(a, b) == [j \in 2 .. 5 |-> CASE j = 3 -> a [] j = 5 -> b [] OTHER -> 0]

Cop1S(fmt, ft, fs, fd, funct) == RType(fmt, ft, fs, fd, funct, \h11)
Cop1D(ft, fs, fd, funct) == Cop1S(\h11, ft, fs, fd, funct)
Cop1W(fs, fd, funct) == Cop1S(\h14, 0, fs, fd, funct)

Fpr == {"fpr"}

GenFpuArith ==
  LET Small == {FP_1_0, FP_2_0, FP_M1_0, FP_0_5}
      Doubles == {D_1_0, D_2_0, D_M1_0}
      Skipped(f, top) == f = 4 /\ top < 0          \* SQRT of a negative number
  IN     { EmitFp("fpu-s", Cop1S(\h10, 4, 2, 6, f), Base, F2(a, b), 0, Fpr) :
             f \in 0 .. 3, a \in Small, b \in Small }
    \cup { EmitFp("fpu-s", Cop1S(\h10, 0, 2, 4, x[1]), Base, F1(x[2]), 0, Fpr) :
             x \in { y \in (4 .. 7) \X (Small \cup {FP_100, FP_PI}) : ~ Skipped(y[1], y[2]) } }
    \cup { EmitFp("fpu-d", Cop1D(4, 2, 6, f), Base, D2(a, b), 0, Fpr) :
             f \in 0 .. 3, a \in Doubles, b \in Doubles }
    \cup { EmitFp("fpu-d", Cop1D(0, 2, 4, x[1]), Base, D1(x[2]), 0, Fpr) :
             x \in { y \in (4 .. 7) \X (Doubles \cup {D_0_5}) : ~ Skipped(y[1], y[2]) } }

GenFpuConvert ==
  LET Singles == { FP_1_0, FP_2_0, FP_M1_0, FP_100, W(\h41F0, 0), W(\h40A0, 0), FP_NEG,
                   W(\h3DCC, \hCCCD), W(\hBDCC, \hCCCD), W(\h3FC0, 0), W(\hBFC0, 0) }
      Ints == {0, 1, -1, 100, 1000000, W(\h7FFF, \hFFFF), W(\h8000, 0)}
      Doubles == {D_1_0, D_2_0, D_M1_0}
  IN     { EmitFp("fpu-cvt", Cop1S(\h10, 0, 2, 4, f), Base, F1(a), 0, Fpr) :
             f \in {\h24, \h0D, \h0C, \h0E, \h0F}, a \in Singles }
    \cup { EmitFp("fpu-cvt", Cop1W(2, 4, f), Base, F1(a), 0, Fpr) :
             f \in {\h20, \h21}, a \in Ints }
    \cup { EmitFp("fpu-cvt", Cop1S(\h10, 0, 2, 4, \h21), Base, F1(a), 0, Fpr) :
             a \in {FP_1_0, FP_2_0, FP_M1_0, FP_PI} }
    \cup { EmitFp("fpu-cvt", Cop1D(0, 2, 4, \h20), Base, D1(a), 0, Fpr) : a \in Doubles }
    \cup { EmitFp("fpu-cvt", Cop1D(0, 2, 4, \h24), Base, D1(a), 0, Fpr) :
             a \in Doubles \cup {W(\h4059, 0)} }

GenFpuCmp ==
       { EmitFp("fpu-cond", Cop1S(\h10, 4, 2, 0, \h30 + cond), Base, F2(p[1], p[2]), 0, {"fcr"}) :
           cond \in 0 .. 15, p \in {<<FP_1_0, FP_1_0>>, <<FP_1_0, FP_2_0>>, <<FP_2_0, FP_1_0>>} }
  \cup { EmitFp("fpu-cond", Cop1D(4, 2, 0, \h30 + cond), Base, D2(p[1], p[2]), 0, {"fcr"}) :
           cond \in {2, 4, 6}, p \in {<<D_1_0, D_1_0>>, <<D_1_0, D_2_0>>, <<D_2_0, D_1_0>>} }

GenFpuMove ==
       { EmitFp("fpu-move", RType(0, 3, 4, 0, 0, \h11), Base, [j \in {4} |-> a], 0, {}) :
           a \in {FP_1_0, FP_2_0, FP_M1_0, W(\hDEAD, \hBEEF)} }
  \cup { EmitFp("fpu-move", RType(4, 3, 4, 0, 0, \h11), MakeRegs(3, a), NoOver, 0, Fpr) :
           a \in {FP_1_0, W(\h1234, \h5678), 0} }
  \cup { EmitFp("fpu-move", RType(2, 3, 31, 0, 0, \h11), Base, NoOver, c, {"fcr"}) :
           c \in {0, W(\h0080, 0), W(\h0100, 0)} }
  \cup { EmitFp("fpu-move", RType(6, 3, 31, 0, 0, \h11), MakeRegs(3, a), NoOver, 0, {"fcr"}) :
           a \in {0, W(\h0080, 0)} }

GenFpuBc ==
  { EmitFp("fpu-bc", IType(\h11, 8, tf, 0), Base, NoOver, c, {}) :
      tf \in {0, 1}, c \in {0, W(\h0080, 0)} }

GenFpuMem ==
  LET Values == {FP_1_0, FP_2_0, 0, W(\hDEAD, \hBEEF), W(\h8000, 0)}
  IN     { EmitFpMem("fpu-mem", IType(\h31, MEM_BASE, 4, 0), NoOver, a, Fpr) : a \in Values }
    \cup { EmitFpMem("fpu-mem", IType(\h39, MEM_BASE, 4, 0), [j \in {4} |-> a], 0, {"mem"}) :
             a \in Values }

\* The generator functions in the order the script calls them. One list of registers,
\* BASE_REGS, is the caller's throughout; make_regs and mem_regs make their own.
MipsPlan ==
  << GenAluR, GenAluI, GenMulDiv, GenSpecial2, GenSpecial3, GenBshfl, GenBranchLikely,
     GenTrapR, GenTrapI, GenMemLoad, GenMemStore, GenLlSc, GenMadd, GenRegimmLikely,
     GenRdhwr, GenCachePref, GenFpuArith, GenFpuConvert, GenFpuCmp, GenFpuMove, GenFpuBc,
     GenFpuMem >>
=============================================================================
