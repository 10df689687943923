--------------------------- MODULE SeiVectorsProofs ---------------------------
(***************************************************************************)
(* Theorems about SeiVectors, for every set of scripts, of refused groups  *)
(* and of faults.                                                          *)
(*                                                                         *)
(* The tables the scripts work from are fixed, so the lemmas on vectors go *)
(* through them group by group; what a script does with its list and its   *)
(* corpus is an inductive invariant of the steps.                          *)
(***************************************************************************)
EXTENDS SeiVectors, SequenceTheorems, FiniteSetTheorems, TLAPS

-----------------------------------------------------------------------------
(* Tables: sequences of entries, joined end to end.                        *)

Entries(p) == { p[i] : i \in 1 .. Len(p) }
\* Every vector of the table keeps a copy of its list.
Clean(p) == p \in Seq(Entries(p)) /\ \A e \in Entries(p) : \A v \in e.asked : v.kept = "copy"

\* An entry may keep its list when the next call makes a new one.
Settled(p) ==
  /\ p \in Seq(Entries(p))
  /\ \A i \in 1 .. Len(p) : \A v \in p[i].asked :
       \/ v.kept = "copy"
       \/ v.regs = p[i].list /\ (i < Len(p) => p[i + 1].new)

\* A table joined to another has the entries of both, in this order.
LEMMA JoinEntries ==
  ASSUME NEW p, NEW q, p \in Seq(Entries(p)), q \in Seq(Entries(q))
  PROVE  /\ p \o q \in Seq(Entries(p \o q))
         /\ Len(p \o q) = Len(p) + Len(q)
         /\ \A i \in 1 .. Len(p) : (p \o q)[i] = p[i]
         /\ \A i \in Len(p) + 1 .. Len(p) + Len(q) : (p \o q)[i] = q[i - Len(p)]
         /\ Entries(p \o q) = Entries(p) \cup Entries(q)
<1> DEFINE S == Entries(p) \cup Entries(q)
<1>1. p \in Seq(S) /\ q \in Seq(S)
  OBVIOUS
<1> HIDE DEF S
<1>2. /\ p \o q \in Seq(S)
      /\ Len(p \o q) = Len(p) + Len(q)
      /\ \A i \in 1 .. Len(p) + Len(q) : (p \o q)[i] = IF i <= Len(p) THEN p[i] ELSE q[i - Len(p)]
  BY <1>1, ConcatProperties
<1>3. Len(p) \in Nat /\ Len(q) \in Nat
  BY <1>1, LenProperties
<1>4. /\ \A i \in 1 .. Len(p) : (p \o q)[i] = p[i]
      /\ \A i \in Len(p) + 1 .. Len(p) + Len(q) : (p \o q)[i] = q[i - Len(p)]
  BY <1>2, <1>3
<1>5. Entries(p \o q) = Entries(p) \cup Entries(q)
  <2>1. ASSUME NEW e \in Entries(p) PROVE e \in Entries(p \o q)
    <3>1. PICK i \in 1 .. Len(p) : e = p[i]
      BY DEF Entries
    <3> QED BY <3>1, <1>2, <1>3, <1>4 DEF Entries
  <2>2. ASSUME NEW e \in Entries(q) PROVE e \in Entries(p \o q)
    <3>1. PICK i \in 1 .. Len(q) : e = q[i]
      BY DEF Entries
    <3>2. Len(p) + i \in Len(p) + 1 .. Len(p) + Len(q) /\ (Len(p) + i) - Len(p) = i
      BY <1>3
    <3>3. (p \o q)[Len(p) + i] = e
      BY <3>1, <3>2, <1>4
    <3>4. Len(p) + i \in 1 .. Len(p \o q)
      BY <3>2, <1>2, <1>3
    <3> QED BY <3>3, <3>4 DEF Entries
  <2>3. ASSUME NEW e \in Entries(p \o q) PROVE e \in Entries(p) \cup Entries(q)
    <3>1. PICK i \in 1 .. Len(p) + Len(q) : e = (p \o q)[i]
      BY <1>2 DEF Entries
    <3>2. CASE i <= Len(p)
      BY <3>1, <3>2, <1>3, <1>4 DEF Entries
    <3>3. CASE ~ (i <= Len(p))
      <4>1. i - Len(p) \in 1 .. Len(q)
        BY <3>3, <1>3
      <4> QED BY <4>1, <3>1, <3>3, <1>3, <1>4 DEF Entries
    <3> QED BY <3>2, <3>3
  <2> QED BY <2>1, <2>2, <2>3
<1>6. p \o q \in Seq(Entries(p \o q))
  BY <1>2, <1>5 DEF S
<1> QED BY <1>2, <1>4, <1>5, <1>6

LEMMA JoinClean ==
  ASSUME NEW p, NEW q, Clean(p), Clean(q)
  PROVE  Clean(p \o q)
BY JoinEntries DEF Clean

\* The entries that keep their list may only be the last part of a table.
LEMMA JoinSettled ==
  ASSUME NEW p, NEW q, Clean(p), Settled(q)
  PROVE  Settled(p \o q)
<1>1. /\ p \in Seq(Entries(p)) /\ q \in Seq(Entries(q))
  BY DEF Clean, Settled
<1>2. Len(p) \in Nat /\ Len(q) \in Nat
  BY <1>1, LenProperties
<1>3. ASSUME NEW i \in 1 .. Len(p \o q), NEW v \in (p \o q)[i].asked, v.kept # "copy"
      PROVE  v.regs = (p \o q)[i].list /\ (i < Len(p \o q) => (p \o q)[i + 1].new)
  <2>1. Len(p \o q) = Len(p) + Len(q)
    BY <1>1, JoinEntries
  <2>2. ~ (i <= Len(p))
    <3> SUFFICES ASSUME i <= Len(p) PROVE FALSE
      OBVIOUS
    <3>1. i \in 1 .. Len(p)
      BY <1>2
    <3>2. (p \o q)[i] = p[i]
      BY <3>1, <1>1, JoinEntries
    <3> QED BY <3>1, <3>2, <1>3 DEF Clean, Entries
  <2>3. i - Len(p) \in 1 .. Len(q) /\ i \in Len(p) + 1 .. Len(p) + Len(q)
    BY <2>1, <2>2, <1>2
  <2>4. (p \o q)[i] = q[i - Len(p)]
    BY <2>3, <1>1, JoinEntries
  <2>5. i < Len(p \o q) =>
          /\ i + 1 \in Len(p) + 1 .. Len(p) + Len(q)
          /\ (i + 1) - Len(p) = (i - Len(p)) + 1
          /\ i - Len(p) < Len(q)
    BY <2>1, <2>3, <1>2
  <2>6. i < Len(p \o q) => (p \o q)[i + 1] = q[(i - Len(p)) + 1]
    BY <2>5, <1>1, JoinEntries
  <2> QED BY <2>3, <2>4, <2>5, <2>6, <1>3 DEF Settled
<1> QED BY <1>1, <1>3, JoinEntries DEF Settled

LEMMA CleanSettled == ASSUME NEW p, Clean(p) PROVE Settled(p)
BY DEF Clean, Settled, Entries

-----------------------------------------------------------------------------
(***************************************************************************)
(* MIPS vectors run at other addresses in the oracle than in the driver:   *)
(* the emitter translates a return address, and a register that holds an   *)
(* address is not compared (mips_oracle.py emit_link and emit_mem).        *)
(***************************************************************************)

Quiet(v) ==
  /\ v.kept = "copy"
  /\ Links(v) => v.link
  /\ Mips!MEM_BASE \in DOMAIN v.regs.over => v.based /\ "base" \notin v.saved
\* No register of the file holds an address.
Apart(regs) == Mips!MEM_BASE \notin DOMAIN regs.over

LEMMA MipsFiles ==
  /\ Apart(Mips!Base)
  /\ \A n : \A r \in Mips!Rand(n) : Apart(r)
  /\ \A from : Apart(Mips!Regs(from, Mips!NoOver))
  /\ \A i, val : i # 28 => Apart(Mips!MakeRegs(i, val))
  /\ \A from, f : 28 \notin DOMAIN f => Apart(Mips!Regs(from, f))
BY DEF Apart, Mips!Base, Mips!Rand, Mips!MakeRegs, Mips!Regs, Mips!NoOver, Mips!MEM_BASE

\* Each emitter leaves nothing behind that depends on where the code ran.
LEMMA MipsEmitters ==
  /\ \A g, w, r : g # "regimm" /\ Apart(r) => Quiet(Mips!Emit(g, w, r))
  /\ \A g, w, r, a : g # "regimm" /\ Apart(r) => Quiet(Mips!EmitAcc(g, w, r, a))
  /\ \A w, r : Rt(w) \notin {\h12, \h13} /\ Apart(r) => Quiet(Mips!Emit("regimm", w, r))
  /\ \A g, w, r : Apart(r) => Quiet(Mips!EmitLink(g, w, r))
  /\ \A g, w, over, data, saved : g # "regimm" /\ "base" \notin saved =>
       Quiet(Mips!EmitMem(g, w, over, data, saved))
  /\ \A g, w, r, fprs, fcsr, saved : g # "regimm" /\ Apart(r) =>
       Quiet(Mips!EmitFp(g, w, r, fprs, fcsr, saved))
  /\ \A g, w, fprs, data, saved : g # "regimm" /\ "base" \notin saved =>
       Quiet(Mips!EmitFpMem(g, w, fprs, data, saved))
BY DEF Quiet, Apart, Links, Mips!Emit, Mips!EmitAcc, Mips!EmitLink, Mips!EmitMem, Mips!EmitFp,
       Mips!EmitFpMem, Mips!Vector

\* So every group of the script, none of whose BLTZALL and BGEZALL leaves its link.
LEMMA QuietAluR == \A v \in Mips!GenAluR : Quiet(v)
BY MipsFiles, MipsEmitters DEF Mips!GenAluR

LEMMA QuietAluI == \A v \in Mips!GenAluI : Quiet(v)
BY MipsFiles, MipsEmitters DEF Mips!GenAluI

LEMMA QuietMulDiv == \A v \in Mips!GenMulDiv : Quiet(v)
BY MipsFiles, MipsEmitters DEF Mips!GenMulDiv

LEMMA QuietSpecial2 == \A v \in Mips!GenSpecial2 : Quiet(v)
BY MipsFiles, MipsEmitters DEF Mips!GenSpecial2

LEMMA QuietBshfl == \A v \in Mips!GenBshfl : Quiet(v)
BY MipsFiles, MipsEmitters DEF Mips!GenBshfl

LEMMA QuietBranchLikely == \A v \in Mips!GenBranchLikely : Quiet(v)
BY MipsFiles, MipsEmitters DEF Mips!GenBranchLikely

LEMMA QuietTrapR == \A v \in Mips!GenTrapR : Quiet(v)
BY MipsFiles, MipsEmitters DEF Mips!GenTrapR

LEMMA QuietTrapI == \A v \in Mips!GenTrapI : Quiet(v)
BY MipsFiles, MipsEmitters DEF Mips!GenTrapI

LEMMA QuietMemLoad == \A v \in Mips!GenMemLoad : Quiet(v)
BY MipsFiles, MipsEmitters DEF Mips!GenMemLoad

LEMMA QuietMemStore == \A v \in Mips!GenMemStore : Quiet(v)
BY MipsFiles, MipsEmitters DEF Mips!GenMemStore

LEMMA QuietLlSc == \A v \in Mips!GenLlSc : Quiet(v)
BY MipsFiles, MipsEmitters DEF Mips!GenLlSc

LEMMA QuietMadd == \A v \in Mips!GenMadd : Quiet(v)
BY MipsFiles, MipsEmitters DEF Mips!GenMadd

LEMMA QuietRdhwr == \A v \in Mips!GenRdhwr : Quiet(v)
BY MipsFiles, MipsEmitters DEF Mips!GenRdhwr

LEMMA QuietCachePref == \A v \in Mips!GenCachePref : Quiet(v)
BY MipsFiles, MipsEmitters DEF Mips!GenCachePref

LEMMA QuietFpuArith == \A v \in Mips!GenFpuArith : Quiet(v)
BY MipsFiles, MipsEmitters DEF Mips!GenFpuArith, Mips!Fpr

LEMMA QuietFpuConvert == \A v \in Mips!GenFpuConvert : Quiet(v)
BY MipsFiles, MipsEmitters DEF Mips!GenFpuConvert

LEMMA QuietFpuCmp == \A v \in Mips!GenFpuCmp : Quiet(v)
BY MipsFiles, MipsEmitters DEF Mips!GenFpuCmp

LEMMA QuietFpuMove == \A v \in Mips!GenFpuMove : Quiet(v)
BY MipsFiles, MipsEmitters DEF Mips!GenFpuMove

LEMMA QuietFpuBc == \A v \in Mips!GenFpuBc : Quiet(v)
BY MipsFiles, MipsEmitters DEF Mips!GenFpuBc

LEMMA QuietFpuMem == \A v \in Mips!GenFpuMem : Quiet(v)
BY MipsFiles, MipsEmitters DEF Mips!GenFpuMem, Mips!Fpr

LEMMA QuietSpecial3 == \A v \in Mips!GenSpecial3 : Quiet(v)
BY MipsFiles, MipsEmitters DEF Mips!GenSpecial3

\* The link of BLTZALL and BGEZALL is translated, the other branches do not link.
LEMMA QuietRegimmLikely == \A v \in Mips!GenRegimmLikely : Quiet(v)
<1>1. \A rs \in 0 .. 31, op \in 0 .. 31 : Rt(Mips!IType(1, rs, op, 0)) = op
  BY DEF Rt, Mips!IType
<1>2. \A rs \in 0 .. 31, op \in {2, 3, \h1F} : \A r :
        Apart(r) => Quiet(Mips!Emit("regimm", Mips!IType(1, rs, op, 0), r))
  BY <1>1, MipsEmitters
<1> QED BY <1>2, MipsFiles, MipsEmitters DEF Mips!GenRegimmLikely, Mips!SignRegs

-----------------------------------------------------------------------------
(* Whose list is copied: of every script but thumb_gen.py, every vector.   *)

Copied(v) == v.kept = "copy"

\* gen_vectors.py vec and bvec copy the list before they call the oracle.
LEMMA ArmEmitters ==
  /\ \A g, w, r, f : Copied(Arm!Vec(g, w, r, f))
  /\ \A w, r, f : Copied(Arm!Bvec(w, r, f))
  /\ \A w : Copied(Arm!EmitVfp(w)) /\ Copied(Arm!EmitVfpMem(w)) /\ Copied(Arm!EmitXldst(w))
  /\ \A w, a, b : Copied(Arm!EmitVcmp(w, a, b)) /\ Copied(Arm!EmitMedia(w, a, b))
  /\ \A w, a : /\ Copied(Arm!EmitLdst(w, a)) /\ Copied(Arm!EmitLdstRt(w, a))
                /\ Copied(Arm!EmitXldstRt(w, a)) /\ Copied(Arm!BvecLdm(w, a))
BY DEF Copied, Arm!Vec, Arm!Bvec, Arm!Windowed, Arm!EmitVfp, Arm!EmitVfpMem, Arm!EmitVcmp,
       Arm!EmitMedia, Arm!Vector, Arm!EmitLdst, Arm!EmitLdstRt, Arm!EmitXldst, Arm!EmitXldstRt,
       Arm!BvecLdm, Arm!LdstAt

LEMMA CopiedDp ==
  \A op, s : \A v \in Arm!DpFixed(op, s) \cup Arm!DpByRegister(op, s) : Copied(v)
BY ArmEmitters DEF Arm!DpFixed, Arm!DpByRegister

LEMMA CopiedVariedRd == \A v \in Arm!GenVariedRd : Copied(v)
<1> DEFINE S == { f : f \in UNION { { Arm!DpImm(op, 0, 1, rd, 0, \hAA),
                                      Arm!DpRegImmShift(op, 0, 1, rd, 4, 0, 2) } :
                    op \in {0, 1, 2, 4, 12, 13, 14, 15}, rd \in {2, 4, 7, 11} } }
<1>1. Arm!GenVariedRd = { Arm!Vec("dp", w, Arm!Drawn(Arm!NoOver), Arm!Clear) : w \in S }
  BY DEF Arm!GenVariedRd
<1> HIDE DEF S
<1> QED BY <1>1, ArmEmitters

LEMMA CopiedCond == \A v \in Arm!GenCond : Copied(v)
<1> DEFINE regs == Arm!Zeros([j \in {1, 2} |-> IF j = 1 THEN W(\hDEAD, \hBEEF)
                                               ELSE W(\hCAFE, \hBABE)])
<1>1. Arm!GenCond = UNION { { Arm!Vec("dp", Arm!AddIf(c[1]), regs, c[2]),
                              Arm!Vec("dp", Arm!AddIf(c[1]), regs, c[3]) } : c \in Arm!CondFlags }
  BY DEF Arm!GenCond, Arm!W, W
<1> HIDE DEF regs
<1> QED BY <1>1, ArmEmitters

LEMMA CopiedLdst == \A v \in Arm!GenLdst : Copied(v)
BY ArmEmitters DEF Arm!GenLdst, Arm!LargeOffset

LEMMA CopiedMul == \A v \in Arm!GenMul : Copied(v)
BY ArmEmitters DEF Arm!GenMul

LEMMA CopiedXldst == \A v \in Arm!GenXldst : Copied(v)
BY ArmEmitters DEF Arm!GenXldst

LEMMA CopiedMsr == \A v \in Arm!GenMsr : Copied(v)
BY ArmEmitters DEF Arm!GenMsr

LEMMA CopiedMedia == \A v \in Arm!GenMedia : Copied(v)
BY ArmEmitters DEF Arm!GenMedia

LEMMA CopiedVfpMove == \A v \in Arm!GenVfpMove : Copied(v)
BY ArmEmitters DEF Arm!GenVfpMove

LEMMA CopiedVcmp == \A v \in Arm!GenVcmp : Copied(v)
BY ArmEmitters DEF Arm!GenVcmp

LEMMA CopiedVfpArith == \A v \in Arm!GenVfpArith : Copied(v)
BY ArmEmitters DEF Arm!GenVfpArith

LEMMA CopiedBranch == \A v \in Arm!GenBranch : Copied(v)
BY ArmEmitters DEF Arm!GenBranch

LEMMA CopiedLdm == \A v \in Arm!GenLdm : Copied(v)
BY ArmEmitters DEF Arm!GenLdm

\* thumb_gen.py does the same outside of BL.
LEMMA ThumbEmitters ==
  /\ \A g, w, r, f, n : Copied(Thumb!Emit(g, w, r, f, n))
  /\ \A g, h, r : Copied(Thumb!Plain(g, h, r)) /\ Copied(Thumb!WithMem(g, h, r))
BY DEF Copied, Thumb!Emit, Thumb!Plain, Thumb!WithMem

LEMMA CopiedArithmetic ==
  \A v \in Thumb!GenShiftImm \cup Thumb!GenAddSub \cup Thumb!GenAlu \cup Thumb!GenHigh : Copied(v)
BY ThumbEmitters DEF Thumb!GenShiftImm, Thumb!GenAddSub, Thumb!GenAlu, Thumb!GenHigh

LEMMA CopiedMemory ==
  /\ \A v \in Thumb!GenLoadStore \cup Thumb!GenSpPc \cup Thumb!GenExtend : Copied(v)
  /\ \A v \in Thumb!GenPush \cup Thumb!GenPop \cup Thumb!GenLoadStoreRt : Copied(v)
  /\ \A rlist : \A v \in Thumb!GenStmia(rlist) \cup Thumb!GenLdmia(rlist) : Copied(v)
<1>1. \A v \in Thumb!GenLoadStore \cup Thumb!GenSpPc \cup Thumb!GenExtend : Copied(v)
  BY ThumbEmitters DEF Thumb!GenLoadStore, Thumb!GenSpPc, Thumb!GenExtend
<1>2. \A v \in Thumb!GenPush \cup Thumb!GenPop : Copied(v)
  BY ThumbEmitters DEF Thumb!GenPush, Thumb!GenPop
<1>3. \A v \in Thumb!GenLoadStoreRt : Copied(v)
  BY ThumbEmitters DEF Thumb!GenLoadStoreRt
<1>4. \A rlist : \A v \in Thumb!GenStmia(rlist) \cup Thumb!GenLdmia(rlist) : Copied(v)
  BY ThumbEmitters DEF Thumb!GenStmia, Thumb!GenLdmia
<1> QED BY <1>1, <1>2, <1>3, <1>4

LEMMA CopiedControl ==
  /\ \A v \in Thumb!GenBcond : Copied(v)
  /\ \A v \in Thumb!GenB \cup Thumb!GenCbz \cup Thumb!GenHints : Copied(v)
  /\ \A v \in Thumb!GenBx \cup Thumb!GenLdrLit : Copied(v)
<1>1. ASSUME NEW v \in Thumb!GenBcond PROVE Copied(v)
  <2>1. PICK cond \in Thumb!Conditions, z \in Thumb!FlagsTried :
          v = Thumb!Emit("bcond", << Thumb!Form8(\hD000, cond, 1) >>,
                         Thumb!Base(Thumb!NoOver), z, 0)
    BY DEF Thumb!GenBcond
  <2> QED BY <2>1, ThumbEmitters
<1>2. \A v \in Thumb!GenB \cup Thumb!GenCbz \cup Thumb!GenHints : Copied(v)
  BY ThumbEmitters DEF Thumb!GenB, Thumb!GenCbz, Thumb!GenHints
<1>3. \A v \in Thumb!GenBx \cup Thumb!GenLdrLit : Copied(v)
  BY ThumbEmitters DEF Thumb!GenBx, Thumb!GenLdrLit
<1> QED BY <1>1, <1>2, <1>3

\* t32_gen.py copies in one place.
LEMMA T32Emitters ==
  /\ \A g, w, r, f : Copied(T32!Emit(g, w, r, f))
  /\ \A g, w, over : Copied(T32!Plain(g, w, over)) /\ Copied(T32!WithMem(g, w, over))
  /\ \A g, w : Copied(T32!Random(g, w))
BY DEF Copied, T32!Emit, T32!Plain, T32!Random, T32!WithMem, T32!T16!Emit

LEMMA CopiedT32DpImm == \A v \in T32!GenDpImm : Copied(v)
BY T32Emitters DEF T32!GenDpImm

LEMMA CopiedT32DpReg == \A v \in T32!GenDpReg : Copied(v)
BY T32Emitters DEF T32!GenDpReg

LEMMA CopiedT32PlainImm == \A v \in T32!GenPlainImm : Copied(v)
BY T32Emitters DEF T32!GenPlainImm

LEMMA CopiedT32Imm12 == \A v \in T32!GenImm12 : Copied(v)
BY T32Emitters DEF T32!GenImm12

LEMMA CopiedT32Offset == \A v \in T32!GenOffset : Copied(v)
BY T32Emitters DEF T32!GenOffset

LEMMA CopiedT32Dual == \A v \in T32!GenDual : Copied(v)
BY T32Emitters DEF T32!GenDual

LEMMA CopiedT32Multiply == \A v \in T32!GenMultiply : Copied(v)
BY T32Emitters DEF T32!GenMultiply

LEMMA CopiedT32Divide == \A v \in T32!GenDivide : Copied(v)
BY T32Emitters DEF T32!GenDivide

LEMMA CopiedT32Clz == \A v \in T32!GenClz : Copied(v)
BY T32Emitters DEF T32!GenClz

LEMMA CopiedT32Status == \A v \in T32!GenStatus : Copied(v)
BY T32Emitters DEF T32!GenStatus

LEMMA CopiedT32Branch == \A v \in T32!GenBranch : Copied(v)
BY T32Emitters DEF T32!GenBranch

LEMMA CopiedT32Exclusive == \A v \in T32!GenExclusive : Copied(v)
BY T32Emitters DEF T32!GenExclusive

LEMMA CopiedT32Saturate == \A v \in T32!GenSaturate : Copied(v)
BY T32Emitters DEF T32!GenSaturate

LEMMA CopiedT32Extend == \A v \in T32!GenExtend : Copied(v)
BY T32Emitters DEF T32!GenExtend

LEMMA CopiedT32Block == \A v \in T32!GenBlock : Copied(v)
BY T32Emitters DEF T32!GenBlock

LEMMA CopiedT32Indexed8 == \A v \in T32!GenIndexed8 : Copied(v)
BY T32Emitters DEF T32!GenIndexed8

LEMMA CopiedNarrow ==
  /\ \A A, opc2, Q, vals8, vals16 : \A v \in Narrow!GenMovn(A, opc2, Q, vals8, vals16) : Copied(v)
  /\ \A U, opc, esize, base, n, vals :
       \A v \in Narrow!AddShiftNarrow(U, opc, esize, base, n, vals) : Copied(v)
<1>1. \A insn, esize, vals : \A v \in Narrow!Asked(insn, esize, vals) : Copied(v)
  BY DEF Narrow!Asked, Copied
<1> QED BY <1>1 DEF Narrow!GenMovn, Narrow!AddShiftNarrow

-----------------------------------------------------------------------------
(* The tables as the scripts run through them.                             *)

Copies(e) == \A v \in e.asked : Copied(v)

LEMMA Tables ==
  /\ \A regs, g : (\A v \in g : Copied(v)) => Copies(Arm!Fresh(regs, g))
  /\ \A regs, g : (\A v \in g : Copied(v)) => Copies(Arm!Changed(regs, g))
  /\ \A regs, g : (\A v \in g : Copied(v)) => Copies(Thumb!Fresh(regs, g))
  /\ \A regs, g : (\A v \in g : Copied(v)) => Copies(Thumb!Changed(regs, g))
  /\ \A regs, g : (\A v \in g : Copied(v)) => Copies(T32!Fresh(regs, g))
  /\ \A regs, g : (\A v \in g : Copied(v)) => Copies(Fresh(regs, g))
BY DEF Copies, Arm!Fresh, Arm!Changed, Thumb!Fresh, Thumb!Changed, T32!Fresh, Fresh

LEMMA CopiesClean ==
  /\ \A a : Copies(a) => Clean(<< a >>)
  /\ \A a, b : Copies(a) /\ Copies(b) => Clean(<< a, b >>)
BY DEF Clean, Entries, Copies, Copied

\* Data processing: 64 calls, those of one operation on a list changed in place.
LEMMA CleanDpPlan == Clean(Arm!DpPlan)
<1> DEFINE E(i) == LET op == (i - 1) \div 4
                       s  == ((i - 1) \div 2) % 2
                   IN  IF <<op, s>> \notin Arm!DpForms THEN Arm!Fresh(Arm!Drawn(Arm!NoOver), {})
                       ELSE IF i % 2 = 1 THEN Arm!Fresh(Arm!Drawn(Arm!NoOver), Arm!DpFixed(op, s))
                       ELSE Arm!Changed(Arm!Drawn(Arm!ShiftCount), Arm!DpByRegister(op, s))
<1>1. \A i : Copies(E(i))
  BY Tables, CopiedDp
<1>2. Arm!DpPlan = [i \in 1 .. 64 |-> E(i)]
  BY DEF Arm!DpPlan
<1> HIDE DEF E
<1>3. Len(Arm!DpPlan) = 64 /\ Arm!DpPlan \in Seq({ E(i) : i \in 1 .. 64 })
  BY <1>2
<1>4. Entries(Arm!DpPlan) = { E(i) : i \in 1 .. 64 }
  BY <1>2, <1>3 DEF Entries
<1> QED BY <1>1, <1>3, <1>4 DEF Clean, Copies, Copied

LEMMA CleanRegister == \A enc, rm : Clean(Arm!Register(enc, rm))
BY Tables, CopiesClean, ArmEmitters DEF Arm!Register

LEMMA CleanArmPlan == Clean(Arm!ArmPlan)
<1> DEFINE T(g) == Arm!Fresh(Arm!Zeros(Arm!NoOver), g)
           mid  == << T(Arm!GenCond), T(Arm!GenVariedRd), T(Arm!GenLdst), T(Arm!GenMul),
                      T(Arm!GenXldst), T(Arm!GenMsr), T(Arm!GenMedia), T(Arm!GenVfpMove),
                      T(Arm!GenVcmp), T(Arm!GenVfpArith), T(Arm!GenBranch) >>
           last == << T(Arm!GenLdm) >>
<1>1. \A g : (\A v \in g : Copied(v)) => Copies(T(g))
  BY Tables
<1>2. Clean(mid)
  <2> HIDE DEF T
  <2> QED BY <1>1, CopiedCond, CopiedVariedRd, CopiedLdst, CopiedMul, CopiedXldst, CopiedMsr,
        CopiedMedia, CopiedVfpMove, CopiedVcmp, CopiedVfpArith, CopiedBranch
        DEF Clean, Entries, Copies, Copied
<1>3. Clean(last)
  BY <1>1, CopiesClean, CopiedLdm
<1>4. Arm!ArmPlan =
        Arm!DpPlan \o mid
          \o Arm!Register(Arm!BxEnc(Arm!AL, 2), 2) \o Arm!Register(Arm!BxEnc(Arm!AL, 3), 3)
          \o Arm!Register(Arm!BxEnc(Arm!AL, 5), 5) \o Arm!Register(Arm!BlxEnc(Arm!AL, 2), 2)
          \o Arm!Register(Arm!BlxEnc(Arm!AL, 4), 4) \o last
  BY DEF Arm!ArmPlan
<1> HIDE DEF mid, last
<1> QED BY <1>2, <1>3, <1>4, CleanDpPlan, CleanRegister, JoinClean

LEMMA CleanT32Plan == Clean(T32!T32Plan)
<1> DEFINE T(g) == T32!Fresh(T32!Base(T32!NoOver), g)
<1>1. \A g : (\A v \in g : Copied(v)) => Copies(T(g))
  BY Tables
<1>2. T32!T32Plan = << T(T32!GenDpImm), T(T32!GenDpReg), T(T32!GenPlainImm), T(T32!GenImm12),
         T(T32!GenOffset), T(T32!GenDual), T(T32!GenBlock), T(T32!GenMultiply), T(T32!GenDivide),
         T(T32!GenClz), T(T32!GenStatus), T(T32!GenBranch), T(T32!GenExclusive),
         T(T32!GenSaturate), T(T32!GenExtend), T(T32!GenIndexed8) >>
  BY DEF T32!T32Plan
<1> HIDE DEF T
<1> QED BY <1>1, <1>2, CopiedT32DpImm, CopiedT32DpReg, CopiedT32PlainImm, CopiedT32Imm12,
      CopiedT32Offset, CopiedT32Dual, CopiedT32Block, CopiedT32Multiply, CopiedT32Divide,
      CopiedT32Clz, CopiedT32Status, CopiedT32Branch, CopiedT32Exclusive, CopiedT32Saturate,
      CopiedT32Extend, CopiedT32Indexed8 DEF Clean, Entries, Copies, Copied

LEMMA CleanStmiaLdmia == \A rlist : Clean(Thumb!StmiaLdmia(rlist))
BY Tables, CopiesClean, CopiedMemory DEF Thumb!StmiaLdmia

\* The three BL keep the list of the call, and each next call makes a new list.
LEMMA SettledThumbPlan == Settled(Thumb!ThumbPlan)
<1> DEFINE T(g) == Thumb!Fresh(Thumb!Base(Thumb!NoOver), g)
           first == << T(Thumb!GenShiftImm), T(Thumb!GenAddSub), T(Thumb!GenAlu), T(Thumb!GenHigh),
                       T(Thumb!GenLoadStore), T(Thumb!GenSpPc), T(Thumb!GenExtend),
                       T(Thumb!GenPush), T(Thumb!GenPop) >>
           last == << T(Thumb!GenBcond), T(Thumb!GenB), T(Thumb!GenBl(8)), T(Thumb!GenBl(16)),
                      T(Thumb!GenBl(-4)), T(Thumb!GenCbz), T(Thumb!GenHints), T(Thumb!GenBx),
                      T(Thumb!GenLdrLit), T(Thumb!GenLoadStoreRt) >>
<1>1. \A g : (\A v \in g : Copied(v)) => Copies(T(g))
  BY Tables
<1>2. \A g : T(g).new /\ T(g).list = Thumb!Base(Thumb!NoOver) /\ T(g).asked = g
  BY DEF Thumb!Fresh
<1>3. \A off : \A v \in Thumb!GenBl(off) : v.regs = Thumb!Base(Thumb!NoOver)
  BY DEF Thumb!GenBl, Thumb!Emit
<1>4. Clean(first)
  <2> HIDE DEF T
  <2> QED BY <1>1, CopiedArithmetic, CopiedMemory DEF Clean, Entries, Copies, Copied
<1>5. Settled(last)
  <2> HIDE DEF T
  <2> SUFFICES ASSUME NEW i \in 1 .. 10, NEW v \in last[i].asked
               PROVE  \/ v.kept = "copy"
                      \/ v.regs = last[i].list /\ (i < 10 => last[i + 1].new)
    BY DEF Settled, Entries
  <2>1. last[i].list = Thumb!Base(Thumb!NoOver) /\ (i < 10 => last[i + 1].new)
    BY <1>2
  <2>2. CASE i \in 3 .. 5
    BY <1>2, <1>3, <2>1, <2>2
  <2>3. CASE i \notin 3 .. 5
    <3>1. Copies(last[i])
      BY <1>1, <2>3, CopiedControl, CopiedMemory
    <3> QED BY <3>1 DEF Copies, Copied
  <2> QED BY <2>2, <2>3
<1>6. Thumb!ThumbPlan = first \o Thumb!StmiaLdmia(\h07) \o Thumb!StmiaLdmia(\h0F)
                          \o Thumb!StmiaLdmia(\h55) \o Thumb!StmiaLdmia(\hFF) \o last
  BY DEF Thumb!ThumbPlan
<1> HIDE DEF first, last
<1> QED BY <1>4, <1>5, <1>6, CleanStmiaLdmia, JoinClean, JoinSettled

\* mips_oracle.py and narrow_gen.py make a list for each group.
LEMMA AlonePlan ==
  ASSUME NEW S, NEW sets \in Seq(S)
  PROVE  /\ Len(Alone(sets)) = Len(sets)
         /\ Alone(sets) \in Seq(Entries(Alone(sets)))
         /\ \A i \in 1 .. Len(sets) : Alone(sets)[i] = Fresh(Mips!Base, sets[i])
<1>1. Len(sets) \in Nat
  OBVIOUS
<1>2. /\ Len(Alone(sets)) = Len(sets)
      /\ \A i \in 1 .. Len(sets) : Alone(sets)[i] = Fresh(Mips!Base, sets[i])
  BY <1>1 DEF Alone
<1>3. Alone(sets) \in Seq({ Fresh(Mips!Base, sets[i]) : i \in 1 .. Len(sets) })
  BY <1>1 DEF Alone
<1>4. Entries(Alone(sets)) = { Fresh(Mips!Base, sets[i]) : i \in 1 .. Len(sets) }
  BY <1>2 DEF Entries
<1> QED BY <1>2, <1>3, <1>4

LEMMA QuietMips ==
  \A i \in 1 .. Len(Mips!MipsPlan) : \A v \in Mips!MipsPlan[i] : Quiet(v)
BY QuietAluR, QuietAluI, QuietMulDiv, QuietSpecial2, QuietSpecial3, QuietBshfl,
   QuietBranchLikely, QuietTrapR, QuietTrapI, QuietMemLoad, QuietMemStore, QuietLlSc, QuietMadd,
   QuietRegimmLikely, QuietRdhwr, QuietCachePref, QuietFpuArith, QuietFpuConvert, QuietFpuCmp,
   QuietFpuMove, QuietFpuBc, QuietFpuMem DEF Mips!MipsPlan

LEMMA CopiedNarrowPlan ==
  \A i \in 1 .. Len(Narrow!NarrowPlan) : \A v \in Narrow!NarrowPlan[i] : Copied(v)
BY CopiedNarrow DEF Narrow!NarrowPlan

LEMMA CleanAlone ==
  ASSUME NEW S, NEW sets \in Seq(S),
         \A i \in 1 .. Len(sets) : \A v \in sets[i] : Copied(v)
  PROVE  Clean(Alone(sets))
<1>1. ASSUME NEW e \in Entries(Alone(sets)), NEW v \in e.asked PROVE v.kept = "copy"
  <2>1. PICK i \in 1 .. Len(sets) : e = Fresh(Mips!Base, sets[i])
    BY AlonePlan DEF Entries
  <2>2. v \in sets[i]
    BY <2>1 DEF Fresh
  <2> QED BY <2>2 DEF Copied
<1> QED BY <1>1, AlonePlan DEF Clean

\* Every script copies the list an entry names, or never changes it again: only BL of
\* thumb_gen.py stores the list itself, and the call after it makes a new one.
THEOREM PlansSettled == \A t \in Tools : Settled(Plan(t))
<1>1. Clean(Plan("mips"))
  <2>1. Mips!MipsPlan \in Seq({ Mips!MipsPlan[i] : i \in 1 .. 22 })
    BY DEF Mips!MipsPlan
  <2> QED BY <2>1, QuietMips, CleanAlone DEF Plan, Quiet, Copied
<1>2. Clean(Plan("narrow"))
  <2>1. Narrow!NarrowPlan \in Seq({ Narrow!NarrowPlan[i] : i \in 1 .. 11 })
    BY DEF Narrow!NarrowPlan
  <2> QED BY <2>1, CopiedNarrowPlan, CleanAlone DEF Plan
<1>3. Clean(Plan("a32")) /\ Clean(Plan("t32")) /\ Settled(Plan("t16"))
  BY CleanArmPlan, CleanT32Plan, SettledThumbPlan DEF Plan
<1> QED BY <1>1, <1>2, <1>3, CleanSettled, ToolsAssumption

-----------------------------------------------------------------------------
(* The inductive invariant.                                                *)

Rows == { Plan(tool)[i].list : i \in 1 .. Len(Plan(tool)) }

\* The script is at one of its calls, and has made one list at most for each.
Progress ==
  /\ tool \in Tools
  /\ dropped \in Dropped
  /\ at \in 0 .. Len(Plan(tool))
  /\ lists \in Seq(Rows)
  /\ Len(lists) <= at

\* An entry that names a list names one that holds its inputs, and if it is the list in use
\* the next call makes a new one: this is what keeps InputsFrozen through an in-place change.
EntriesKept ==
  \A e \in corpus :
    /\ e.list \in 0 .. Len(lists)
    /\ e.list # 0 =>
         /\ lists[e.list] = e.ask.regs
         /\ e.list = Len(lists) => at = Len(Plan(tool)) \/ Plan(tool)[at + 1].new

\* An entry is a vector the script asked for and the oracle answered.
EntriesAsked ==
  \A e \in corpus : Answers(e.ask) /\ \E i \in 1 .. at : e.ask \in Plan(tool)[i].asked

\* What the script asked for so far and the oracle answers has its entry.
AnswersKept ==
  \A i \in 1 .. at : \A v \in Plan(tool)[i].asked : Answers(v) => \E e \in corpus : e.ask = v

\* A verdict is given on the whole corpus.
Verdicts ==
  /\ verdict \in {"none", "pass", "fail"}
  /\ verdict = "none" => fault = Sound
  /\ verdict # "none" => Ended /\ (verdict = "fail" <=> \E e \in corpus : Fails(fault, e))

IInv == Progress /\ EntriesKept /\ EntriesAsked /\ AnswersKept /\ Verdicts

LEMMA PlanSequence ==
  ASSUME NEW t \in Tools
  PROVE  /\ Len(Plan(t)) \in Nat
         /\ Settled(Plan(t))
BY PlansSettled DEF Settled

LEMMA FrozenEntries ==
  ASSUME EntriesKept
  PROVE  InputsFrozen
BY DEF EntriesKept, InputsFrozen, Recorded

\* What MIPS code leaves different at its other address is nowhere compared.
LEMMA MovedUnseen ==
  ASSUME Progress, EntriesAsked, NEW e \in corpus
  PROVE  Moved(e.ask) \cap Compared(e.ask) = {}
<1>2. CASE tool # "mips"
  BY <1>2 DEF Moved
<1>3. CASE tool = "mips"
  <2>1. Quiet(e.ask)
    <3>1. PICK i \in 1 .. at : e.ask \in Plan("mips")[i].asked
      BY <1>3 DEF EntriesAsked
    <3>2. Mips!MipsPlan \in Seq({ Mips!MipsPlan[k] : k \in 1 .. 22 })
      BY DEF Mips!MipsPlan
    <3>3. i \in 1 .. Len(Mips!MipsPlan) /\ Plan("mips")[i] = Fresh(Mips!Base, Mips!MipsPlan[i])
      BY <1>3, <3>2, AlonePlan DEF Plan, Progress
    <3> QED BY <3>1, <3>3, QuietMips DEF Fresh
  <2>2. Compared(e.ask) = MipsCompared(e.ask)
    BY <1>3 DEF Compared
  <2> QED BY <1>3, <2>1, <2>2 DEF Moved, MipsCompared, Quiet
<1> QED BY <1>2, <1>3

\* An entry of the corpus is one of the vectors its script asked for.
LEMMA EntryAsked ==
  ASSUME Progress, EntriesAsked, NEW e \in corpus
  PROVE  \E x \in Entries(Plan(tool)) : e.ask \in x.asked
<1>1. PICK i \in 1 .. at : e.ask \in Plan(tool)[i].asked
  BY DEF EntriesAsked
<1>2. i \in 1 .. Len(Plan(tool))
  BY PlanSequence DEF Progress
<1> QED BY <1>1, <1>2 DEF Entries

LEMMA InitIInv == Init => IInv
<1> SUFFICES ASSUME Init PROVE IInv
  OBVIOUS
<1>1. Len(Plan(tool)) \in Nat
  BY PlanSequence DEF Init
<1> QED BY <1>1 DEF Init, IInv, Progress, EntriesKept, EntriesAsked, AnswersKept,
      Verdicts, Sound

LEMMA GenerateIInv == IInv /\ Generate => IInv'
<1> SUFFICES ASSUME IInv, Generate PROVE IInv'
  OBVIOUS
<1> USE DEF IInv
<1> DEFINE p == Plan(tool)
           entry == p[at + 1]
           held == IF entry.new THEN Append(lists, entry.list)
                                ELSE [lists EXCEPT ![Len(lists)] = entry.list]
<1>0. /\ at # Len(p)
      /\ lists' = held
      /\ corpus' = corpus \cup { Stored(v, held) : v \in { a \in entry.asked : Answers(a) } }
      /\ at' = at + 1
      /\ tool' = tool /\ dropped' = dropped /\ fault' = fault /\ verdict' = verdict
  BY DEF Generate, Ended
<1>1. tool \in Tools /\ at \in Nat /\ Len(p) \in Nat /\ at < Len(p) /\ Len(lists) <= at
      /\ lists \in Seq(Rows) /\ Len(lists) \in Nat
  BY <1>0, PlanSequence DEF Progress
<1>2. p' = p /\ Rows' = Rows
  BY <1>0 DEF Rows
<1>3. entry.list \in Rows
  BY <1>1 DEF Rows
<1>4. at + 1 \in 1 .. Len(p)
  BY <1>1
<1>5. /\ held \in Seq(Rows)
      /\ Len(held) = IF entry.new THEN Len(lists) + 1 ELSE Len(lists)
      /\ Len(held) # 0 => held[Len(held)] = entry.list
      /\ \A i \in 1 .. Len(lists) : i # Len(held) => held[i] = lists[i]
  <2>1. CASE entry.new
    BY <2>1, <1>1, <1>3
  <2>2. CASE ~ entry.new
    <3> DEFINE n == Len(lists)
               row == entry.list
    <3> HIDE DEF entry
    <3>1. n \in Nat /\ lists \in [1 .. n -> Rows] /\ row \in Rows
      BY <1>1, <1>3
    <3>2. held = [i \in 1 .. n |-> IF i = n THEN row ELSE lists[i]]
      BY <2>2, <3>1
    <3> HIDE DEF n, row, held
    <3>3. held \in Seq(Rows) /\ Len(held) = n
      BY <3>1, <3>2
    <3>4. n # 0 => n \in 1 .. n
      BY <3>1
    <3> QED BY <2>2, <3>1, <3>2, <3>3, <3>4 DEF n, row
  <2> QED BY <2>1, <2>2
<1> HIDE DEF held, entry
<1>6. Progress'
  BY <1>0, <1>1, <1>2, <1>5 DEF Progress
<1>7. EntriesKept'
  <2> SUFFICES ASSUME NEW e \in corpus'
               PROVE  /\ e.list \in 0 .. Len(held)
                      /\ e.list # 0 =>
                           /\ held[e.list] = e.ask.regs
                           /\ e.list = Len(held) => at + 1 = Len(p) \/ p[at + 2].new
    BY <1>0, <1>1, <1>2 DEF EntriesKept
  <2>1. CASE e \in corpus
    <3>1. /\ e.list \in 0 .. Len(lists)
          /\ e.list # 0 => lists[e.list] = e.ask.regs /\ (e.list = Len(lists) => entry.new)
      BY <2>1, <1>1 DEF EntriesKept, entry
    <3>2. e.list # 0 => e.list # Len(held)
      BY <3>1, <1>1, <1>5
    <3> QED BY <3>1, <3>2, <1>1, <1>5
  <2>2. CASE e \notin corpus
    <3>1. PICK v \in entry.asked : e = Stored(v, held)
      BY <2>2, <1>0
    <3>2. v.kept = "copy" \/ (v.regs = entry.list /\ (at + 1 < Len(p) => p[at + 2].new))
      <4>1. Settled(p)
        BY <1>1, PlanSequence
      <4>2. (at + 1) + 1 = at + 2
        BY <1>1
      <4> QED BY <4>1, <4>2, <1>4 DEF Settled, entry
    <3>3. e.ask = v /\ e.list = (IF v.kept = "copy" THEN 0 ELSE Len(held))
      BY <3>1 DEF Stored
    <3>4. Len(held) \in Nat
      BY <1>1, <1>5
    <3> QED BY <3>2, <3>3, <3>4, <1>1, <1>5
  <2> QED BY <2>1, <2>2
<1>8. EntriesAsked'
  <2> SUFFICES ASSUME NEW e \in corpus'
               PROVE  Answers(e.ask) /\ \E i \in 1 .. at + 1 : e.ask \in p[i].asked
    BY <1>0, <1>2 DEF EntriesAsked, Answers
  <2>1. CASE e \in corpus
    BY <2>1, <1>1 DEF EntriesAsked
  <2>2. CASE e \notin corpus
    <3>1. PICK v \in entry.asked : e = Stored(v, held) /\ Answers(v)
      BY <2>2, <1>0
    <3> QED BY <3>1, <1>1 DEF Stored, entry
  <2> QED BY <2>1, <2>2
<1>9. AnswersKept'
  <2> SUFFICES ASSUME NEW i \in 1 .. at + 1, NEW v \in p[i].asked, Answers(v)
               PROVE  \E e \in corpus' : e.ask = v
    BY <1>0, <1>2 DEF AnswersKept, Answers
  <2>1. CASE i \in 1 .. at
    BY <1>0, <2>1 DEF AnswersKept
  <2>2. CASE i \notin 1 .. at
    <3>1. v \in entry.asked
      BY <1>1, <2>2 DEF entry
    <3>2. Stored(v, held) \in corpus'
      BY <1>0, <3>1
    <3> QED BY <3>2 DEF Stored
  <2> QED BY <2>1, <2>2
<1>10. Verdicts'
  BY <1>0 DEF Verdicts, Ended
<1> QED BY <1>6, <1>7, <1>8, <1>9, <1>10

LEMMA CheckIInv == IInv /\ Check => IInv'
<1> SUFFICES ASSUME IInv, Check PROVE IInv'
  OBVIOUS
<1>1. /\ tool' = tool /\ dropped' = dropped /\ lists' = lists /\ corpus' = corpus /\ at' = at
      /\ verdict' = IF \E e \in corpus : Fails(fault', e) THEN "fail" ELSE "pass"
      /\ Ended
  BY DEF Check
<1>2. Progress' /\ EntriesKept' /\ EntriesAsked' /\ AnswersKept'
  BY <1>1 DEF IInv, Progress, EntriesKept, EntriesAsked, AnswersKept, Rows, Answers
<1>3. Ended' /\ \A e : Fails(fault', e) <=> Fails(fault, e)'
  BY <1>1 DEF Ended, Fails, Recorded, Moved, Altered, Compared
<1>4. Verdicts'
  BY <1>1, <1>3 DEF Verdicts
<1> QED BY <1>2, <1>4 DEF IInv

LEMMA Inductive == Spec => []IInv
<1>1. IInv /\ UNCHANGED vars => IInv'
  <2> SUFFICES ASSUME IInv, UNCHANGED vars PROVE IInv'
    OBVIOUS
  <2>1. /\ Progress' /\ EntriesKept' /\ EntriesAsked' /\ AnswersKept'
    BY DEF vars, IInv, Progress, EntriesKept, EntriesAsked, AnswersKept, Rows, Answers
  <2>2. Ended' = Ended /\ \A e : Fails(fault, e)' <=> Fails(fault, e)
    BY DEF vars, Ended, Fails, Recorded, Moved, Altered, Compared
  <2>3. Verdicts'
    BY <2>2 DEF vars, IInv, Verdicts
  <2> QED BY <2>1, <2>3 DEF IInv
<1>2. IInv /\ [Next]_vars => IInv'
  BY <1>1, GenerateIInv, CheckIInv DEF Next
<1> QED BY <1>2, InitIInv, PTL DEF Spec

\* What a fault changes in what the driver compares.
Shows(f, v) == Altered(f, v) \cap Compared(v) # {}

\* An entry fails on a fault exactly when the fault changes something it compares.
LEMMA FailsExactly ==
  ASSUME IInv, NEW e \in corpus
  PROVE  Fails(fault, e) <=> Shows(fault, e.ask)
<1>1. Recorded(e) = e.ask.regs
  BY FrozenEntries DEF IInv, InputsFrozen
<1>2. Moved(e.ask) \cap Compared(e.ask) = {}
  BY MovedUnseen DEF IInv
<1> QED BY <1>1, <1>2 DEF Fails, Shows

\* What each variable may hold, for every corpus the scripts can write.
THEOREM TypeCorrect == Spec => []TypeOK
<1>1. IInv => TypeOK
  BY PlanSequence DEF IInv, Progress, EntriesKept, Verdicts, TypeOK
<1> QED BY <1>1, Inductive, PTL

\* The inputs an entry names are those its outputs were computed from, whatever the script
\* did to its list since: a new call may change the list in place, never one an entry names.
THEOREM InputsStayFrozen == Spec => []InputsFrozen
<1>1. IInv => InputsFrozen
  BY FrozenEntries DEF IInv
<1> QED BY <1>1, Inductive, PTL

\* A sound step function passes the corpus of every script, whichever groups the oracle
\* refused: MIPS vectors compare nothing that depends on where the code runs.
THEOREM SoundPasses == Spec => []NoFalseAlarm
<1>1. IInv => NoFalseAlarm
  <2> SUFFICES ASSUME IInv, fault = Sound, verdict = "fail" PROVE FALSE
    BY DEF NoFalseAlarm
  <2>1. PICK e \in corpus : Fails(fault, e)
    BY DEF IInv, Verdicts
  <2>2. Altered(Sound, e.ask) = {}
    BY DEF Altered, Sound
  <2> QED BY <2>1, <2>2, FailsExactly DEF Shows
<1> QED BY <1>1, Inductive, PTL

\* A check fails exactly when the fault shows in a vector that the script asks for and the
\* oracle answers: no entry is lost, none comes from elsewhere, and none hides a fault by
\* naming other inputs.
VerdictExact ==
  verdict # "none" =>
    (verdict = "fail" <=> \E x \in Entries(Plan(tool)) : \E v \in x.asked :
                            Answers(v) /\ Shows(fault, v))

\* The verdict on a fault is decided by the tables of the script and the refusals of the
\* oracle alone: neither the lists changed in place nor the addresses of the driver count.
THEOREM ChecksAreExact == Spec => []VerdictExact
<1>1. IInv => VerdictExact
  <2> SUFFICES ASSUME IInv, verdict # "none"
               PROVE  verdict = "fail" <=> \E x \in Entries(Plan(tool)) : \E v \in x.asked :
                                              Answers(v) /\ Shows(fault, v)
    BY DEF VerdictExact
  <2>1. verdict = "fail" <=> \E e \in corpus : Shows(fault, e.ask)
    BY FailsExactly DEF IInv, Verdicts
  <2>2. ASSUME NEW e \in corpus
        PROVE  \E x \in Entries(Plan(tool)) : e.ask \in x.asked /\ Answers(e.ask)
    BY EntryAsked DEF IInv, EntriesAsked
  <2>3. ASSUME NEW x \in Entries(Plan(tool)), NEW v \in x.asked, Answers(v)
        PROVE  \E e \in corpus : e.ask = v
    <3>1. PICK i \in 1 .. Len(Plan(tool)) : x = Plan(tool)[i]
      BY DEF Entries
    <3>2. i \in 1 .. at
      BY DEF IInv, Verdicts, Ended
    <3> QED BY <2>3, <3>1, <3>2 DEF IInv, AnswersKept
  <2> QED BY <2>1, <2>2, <2>3
<1> QED BY <1>1, Inductive, PTL

\* The MIPS words whose result may be left open, by opcode and function.
-----------------------------------------------------------------------------
(* Results the architecture leaves open: MIPS.                             *)

Delicate(w) ==
  \/ Op(w) = 0 /\ Funct(w) \in {\h1A, \h1B}
  \/ Op(w) = \h1F /\ Funct(w) \in {0, 4}
  \/ Op(w) \in {\h21, \h25, \h29}
  \/ Op(w) = \h11 /\ Rs(w) \in {16, 17} /\ Funct(w) = 4

LEMMA PlainDefined == \A v : ~ Delicate(v.insn) => ~ MipsOpen(v)
BY DEF Delicate, MipsOpen, SpecialR

LEMMA MipsWords ==
  /\ \A g, w, r : Mips!Emit(g, w, r).insn = w /\ Mips!EmitLink(g, w, r).insn = w
  /\ \A g, w, r, a : Mips!EmitAcc(g, w, r, a).insn = w
  /\ \A g, w, o, d, s : Mips!EmitMem(g, w, o, d, s).insn = w
  /\ \A g, w, r, fp, c, s : Mips!EmitFp(g, w, r, fp, c, s).insn = w
  /\ \A g, w, fp, d, s : Mips!EmitFpMem(g, w, fp, d, s).insn = w
BY DEF Mips!Emit, Mips!EmitLink, Mips!EmitAcc, Mips!EmitMem, Mips!EmitFp, Mips!EmitFpMem,
       Mips!Vector

\* Most groups hold none of these words.
LEMMA MipsPlain ==
  /\ \A v \in Mips!GenAluR : ~ Delicate(v.insn)
  /\ \A v \in Mips!GenAluI : ~ Delicate(v.insn)
  /\ \A v \in Mips!GenSpecial2 : ~ Delicate(v.insn)
  /\ \A v \in Mips!GenBshfl : ~ Delicate(v.insn)
  /\ \A v \in Mips!GenBranchLikely : ~ Delicate(v.insn)
  /\ \A v \in Mips!GenTrapR : ~ Delicate(v.insn)
  /\ \A v \in Mips!GenTrapI : ~ Delicate(v.insn)
  /\ \A v \in Mips!GenLlSc : ~ Delicate(v.insn)
  /\ \A v \in Mips!GenMadd : ~ Delicate(v.insn)
  /\ \A v \in Mips!GenRegimmLikely : ~ Delicate(v.insn)
  /\ \A v \in Mips!GenRdhwr : ~ Delicate(v.insn)
  /\ \A v \in Mips!GenCachePref : ~ Delicate(v.insn)
<1> USE MipsWords DEF Delicate, Op, Rs, Rt, Rd, Sa, Funct, Bits, Mips!RType, Mips!IType
<1>1. \A v \in Mips!GenAluR : ~ Delicate(v.insn)
  BY DEF Mips!GenAluR, Mips!SHIFT_AMOUNTS, Mips!Emit, Mips!Vector
<1>2. \A v \in Mips!GenAluI : ~ Delicate(v.insn)
  BY DEF Mips!GenAluI, Mips!Emit, Mips!Vector
<1>3. \A v \in Mips!GenSpecial2 : ~ Delicate(v.insn)
  BY DEF Mips!GenSpecial2, Mips!Emit, Mips!Vector
<1>4. \A v \in Mips!GenBshfl : ~ Delicate(v.insn)
  BY DEF Mips!GenBshfl, Mips!Emit, Mips!Vector
<1>5. \A v \in Mips!GenBranchLikely : ~ Delicate(v.insn)
  BY DEF Mips!GenBranchLikely, Mips!Emit, Mips!Vector
<1>6. \A v \in Mips!GenTrapR : ~ Delicate(v.insn)
  BY DEF Mips!GenTrapR, Mips!Emit, Mips!Vector
<1>7. \A v \in Mips!GenTrapI : ~ Delicate(v.insn)
  BY DEF Mips!GenTrapI, Mips!Emit, Mips!Vector
<1>8. \A v \in Mips!GenLlSc : ~ Delicate(v.insn)
  BY DEF Mips!GenLlSc, Mips!MEM_BASE
<1>9. \A v \in Mips!GenMadd : ~ Delicate(v.insn)
  BY DEF Mips!GenMadd
<1>10. \A v \in Mips!GenRegimmLikely : ~ Delicate(v.insn)
  BY DEF Mips!GenRegimmLikely, Mips!SignRegs
<1>11. \A v \in Mips!GenRdhwr : ~ Delicate(v.insn)
  BY DEF Mips!GenRdhwr, Mips!Emit, Mips!Vector
<1>12. \A v \in Mips!GenCachePref : ~ Delicate(v.insn)
  BY DEF Mips!GenCachePref, Mips!Emit, Mips!Vector
<1> QED BY <1>1, <1>2, <1>3, <1>4, <1>5, <1>6, <1>7, <1>8, <1>9, <1>10, <1>11, <1>12

LEMMA MipsFpuPlain ==
  /\ \A v \in Mips!GenFpuConvert : ~ Delicate(v.insn)
  /\ \A v \in Mips!GenFpuCmp : ~ Delicate(v.insn)
  /\ \A v \in Mips!GenFpuMove : ~ Delicate(v.insn)
  /\ \A v \in Mips!GenFpuBc : ~ Delicate(v.insn)
  /\ \A v \in Mips!GenFpuMem : ~ Delicate(v.insn)
<1> USE MipsWords DEF Delicate, Op, Rs, Rt, Rd, Sa, Funct, Bits, Mips!RType, Mips!IType,
      Mips!Cop1S, Mips!Cop1D, Mips!Cop1W
<1>1. \A v \in Mips!GenFpuConvert : ~ Delicate(v.insn)
  BY DEF Mips!GenFpuConvert
<1>2. \A v \in Mips!GenFpuCmp : ~ Delicate(v.insn)
  BY DEF Mips!GenFpuCmp
<1>3. \A v \in Mips!GenFpuMove : ~ Delicate(v.insn)
  BY DEF Mips!GenFpuMove
<1>4. \A v \in Mips!GenFpuBc : ~ Delicate(v.insn)
  BY DEF Mips!GenFpuBc
<1>5. \A v \in Mips!GenFpuMem : ~ Delicate(v.insn)
  BY DEF Mips!GenFpuMem, Mips!MEM_BASE
<1> QED BY <1>1, <1>2, <1>3, <1>4, <1>5

\* Halfwords are loaded and stored at offsets 0 and 2.
LEMMA HalfwordsAligned ==
  \A v \in Mips!GenMemLoad \cup Mips!GenMemStore : ~ MipsOpen(v)
<1> USE MipsWords DEF Op, Imm, Bits, Mips!IType, Mips!MEM_BASE
<1>1. \A v \in Mips!GenMemLoad : Op(v.insn) \in {\h20, \h21, \h22, \h24, \h25, \h26}
  BY DEF Mips!GenMemLoad
<1>2. \A v \in Mips!GenMemLoad : Op(v.insn) \in {\h21, \h25} => Imm(v.insn) \in {0, 2}
  BY DEF Mips!GenMemLoad
<1>3. \A v \in Mips!GenMemStore : Op(v.insn) \in {\h28, \h29, \h2A, \h2E}
  BY DEF Mips!GenMemStore
<1>4. \A v \in Mips!GenMemStore : Op(v.insn) = \h29 => Imm(v.insn) \in {0, 2}
  BY DEF Mips!GenMemStore
<1> HIDE DEF Op, Imm
<1> QED BY <1>1, <1>2, <1>3, <1>4 DEF MipsOpen, SpecialR

\* No division by zero, nor of the least number by -1.
LEMMA DivisionsDefined == \A v \in Mips!GenMulDiv : ~ MipsOpen(v)
<1>2. \A v \in Mips!GenMulDiv : Op(v.insn) = 0
  BY MipsWords DEF Mips!GenMulDiv, Op, Mips!RType, Mips!DivPairs
<1>3. \A v \in Mips!GenMulDiv : Funct(v.insn) \in {\h1A, \h1B} => v.regs = Mips!Base
  BY MipsWords DEF Mips!GenMulDiv, Funct, Mips!RType, Mips!Emit, Mips!Vector, Mips!DivPairs
<1>4. \A v \in Mips!GenMulDiv : Funct(v.insn) \in {\h1A, \h1B} =>
        /\ Rs(v.insn) \in {1, 2, 3, 4, 5, 9}
        /\ Rt(v.insn) \in {1, 2, 5, 9, 24}
        /\ Rs(v.insn) = 3 => Rt(v.insn) = 24
  BY MipsWords DEF Mips!GenMulDiv, Funct, Rs, Rt, Bits, Mips!RType, Mips!DivPairs
<1>5. /\ Mips!BASE_REGS[1] = 1 /\ Mips!BASE_REGS[2] = -1 /\ Mips!BASE_REGS[3] = W(\h8000, 0)
      /\ Mips!BASE_REGS[4] = W(\h7FFF, \hFFFF)
      /\ Mips!BASE_REGS[5] = 100 /\ Mips!BASE_REGS[9] = 42 /\ Mips!BASE_REGS[24] = 2
  BY DEF Mips!BASE_REGS, W, Mips!W
<1>6. \A v : v.regs = Mips!Base => \A i : Mips!Known(v, i) /\ Mips!Reg(v, i) = Mips!BASE_REGS[i]
  BY DEF Mips!Known, Mips!Reg, Mips!Base, Mips!Regs, Mips!NoOver
<1>7. ASSUME NEW v \in Mips!GenMulDiv, Funct(v.insn) \in {\h1A, \h1B} PROVE ~ MipsOpen(v)
  <2>1. Mips!Known(v, Rt(v.insn)) /\ Mips!Reg(v, Rt(v.insn)) = Mips!BASE_REGS[Rt(v.insn)]
        /\ Mips!Reg(v, Rs(v.insn)) = Mips!BASE_REGS[Rs(v.insn)]
    BY <1>3, <1>6, <1>7
  <2>2. Mips!BASE_REGS[Rt(v.insn)] # 0
    BY <1>4, <1>5, <1>7
  <2>3. Mips!BASE_REGS[Rs(v.insn)] = W(\h8000, 0) => Rs(v.insn) = 3
    BY <1>4, <1>5, <1>7 DEF W
  <2>4. Rs(v.insn) = 3 => Mips!BASE_REGS[Rt(v.insn)] # -1
    BY <1>4, <1>5, <1>7
  <2> QED BY <1>2, <2>1, <2>2, <2>3, <2>4 DEF MipsOpen, SpecialR
<1> QED BY <1>2, <1>7 DEF MipsOpen, SpecialR

\* EXT stays within the word and INS has its ends in order.
LEMMA FieldsDefined == \A v \in Mips!GenSpecial3 : ~ MipsOpen(v)
<1>1. \A v \in Mips!GenSpecial3 : Op(v.insn) = \h1F
  BY MipsWords DEF Mips!GenSpecial3, Mips!ExtWord, Mips!InsWord, Op, Mips!RType
<1>2. \A v \in Mips!GenSpecial3 : Funct(v.insn) = 0 => Sa(v.insn) + Rd(v.insn) <= 31
  BY MipsWords DEF Mips!GenSpecial3, Mips!ExtWord, Mips!InsWord, Sa, Rd, Funct, Bits, Mips!RType
<1>3. \A v \in Mips!GenSpecial3 : Funct(v.insn) = 4 => Sa(v.insn) <= Rd(v.insn)
  BY MipsWords DEF Mips!GenSpecial3, Mips!ExtWord, Mips!InsWord, Sa, Rd, Funct, Bits, Mips!RType
<1>4. \A v \in Mips!GenSpecial3 : Sa(v.insn) \in Int /\ Rd(v.insn) \in Int
  BY MipsWords DEF Mips!GenSpecial3, Mips!ExtWord, Mips!InsWord, Sa, Rd, Bits, Mips!RType
<1> QED BY <1>1, <1>2, <1>3, <1>4 DEF MipsOpen, SpecialR

\* No square root of a negative number.
LEMMA RootsDefined == \A v \in Mips!GenFpuArith : ~ MipsOpen(v)
<1>1. ASSUME NEW v, NEW f \in 0 .. 7, NEW fmt \in {16, 17}, NEW ft \in {0, 4}, NEW fd \in {4, 6},
             v.insn = Mips!RType(fmt, ft, 2, fd, f, \h11),
             f = 4 => ~ (v.fprs[IF fmt = 17 THEN 3 ELSE 2] < 0)
      PROVE  ~ MipsOpen(v)
  <2>1. Op(v.insn) = \h11 /\ Rs(v.insn) = fmt /\ Rd(v.insn) = 2 /\ Funct(v.insn) = f
    BY <1>1 DEF Op, Rs, Rd, Funct, Bits, Mips!RType
  <2> QED BY <1>1, <2>1 DEF MipsOpen, SpecialR
<1>2. \A g, w, r, fp, c, s : Mips!EmitFp(g, w, r, fp, c, s).fprs = fp
  BY DEF Mips!EmitFp, Mips!Vector
<1>3. \A f \in 0 .. 3 : \A r, fp, c, s :
        ~ MipsOpen(Mips!EmitFp("fpu-s", Mips!Cop1S(\h10, 4, 2, 6, f), r, fp, c, s))
  BY <1>1, MipsWords DEF Mips!Cop1S
<1>4. \A f \in 4 .. 7 : \A r, a, c, s : ~ (f = 4 /\ a < 0) =>
        ~ MipsOpen(Mips!EmitFp("fpu-s", Mips!Cop1S(\h10, 0, 2, 4, f), r, Mips!F1(a), c, s))
  BY <1>1, <1>2, MipsWords DEF Mips!Cop1S, Mips!F1
<1>5. \A f \in 0 .. 3 : \A r, fp, c, s :
        ~ MipsOpen(Mips!EmitFp("fpu-d", Mips!Cop1D(4, 2, 6, f), r, fp, c, s))
  BY <1>1, MipsWords DEF Mips!Cop1D, Mips!Cop1S
<1>6. \A f \in 4 .. 7 : \A r, a, c, s : ~ (f = 4 /\ a < 0) =>
        ~ MipsOpen(Mips!EmitFp("fpu-d", Mips!Cop1D(0, 2, 4, f), r, Mips!D1(a), c, s))
  BY <1>1, <1>2, MipsWords DEF Mips!Cop1D, Mips!Cop1S, Mips!D1
<1> QED BY <1>3, <1>4, <1>5, <1>6 DEF Mips!GenFpuArith

LEMMA MipsDefined ==
  \A i \in 1 .. Len(Mips!MipsPlan) : \A v \in Mips!MipsPlan[i] : ~ MipsOpen(v)
BY MipsPlain, MipsFpuPlain, HalfwordsAligned, DivisionsDefined, FieldsDefined, RootsDefined,
   PlainDefined DEF Mips!MipsPlan

-----------------------------------------------------------------------------
(* Narrowing shifts: by the element size at most.                          *)

LEMMA NarrowDefined ==
  \A i \in 1 .. Len(Narrow!NarrowPlan) : \A v \in Narrow!NarrowPlan[i] : ~ NarrowOpen(v)
<1>1. \A insn, esize, vals : \A v \in Narrow!Asked(insn, esize, vals) :
        v.insn = insn /\ v.esize = esize
  BY DEF Narrow!Asked
<1>4. \A A, opc2, Q \in Nat : \A vals8, vals16 :
        \A v \in Narrow!GenMovn(A, opc2, Q, vals8, vals16) : ~ NarrowOpen(v)
  <2> SUFFICES ASSUME NEW A \in Nat, NEW opc2 \in Nat, NEW Q \in Nat, NEW vals8, NEW vals16,
                      NEW v \in Narrow!GenMovn(A, opc2, Q, vals8, vals16)
               PROVE  ~ NarrowOpen(v)
    OBVIOUS
  <2>1. \/ v \in Narrow!Asked(Narrow!EncMisc(A, opc2, 0, Q), 8, vals8)
        \/ v \in Narrow!Asked(Narrow!EncMisc(A, opc2, 1, Q), 16, vals16)
    BY DEF Narrow!GenMovn
  <2>2. \/ v.insn = Narrow!EncMisc(A, opc2, 0, Q)
        \/ v.insn = Narrow!EncMisc(A, opc2, 1, Q)
    BY <2>1, <1>1
  <2>3. /\ Narrow!EncMisc(A, opc2, 0, Q)[2] % 32 = 2
        /\ Narrow!EncMisc(A, opc2, 1, Q)[2] % 32 = 2
    BY DEF Narrow!EncMisc
  <2> QED BY <2>2, <2>3 DEF NarrowOpen
<1>5. \A U \in {0, 1}, opc \in Nat, esize \in {8, 16}, n \in {4, 8} : \A vals :
        \A v \in Narrow!AddShiftNarrow(U, opc, esize, esize, n, vals) : ~ NarrowOpen(v)
  <2> SUFFICES ASSUME NEW U \in {0, 1}, NEW opc \in Nat, NEW esize \in {8, 16}, NEW n \in {4, 8},
                      NEW vals, NEW k \in 0 .. n - 1,
                      NEW v \in Narrow!Asked(Narrow!EncSh(U, esize + k, opc), esize, vals)
               PROVE  ~ NarrowOpen(v)
    BY DEF Narrow!AddShiftNarrow
  <2>1. v.insn = Narrow!EncSh(U, esize + k, opc) /\ v.esize = esize
    BY <1>1
  <2>2. Narrow!EncSh(U, esize + k, opc)[1] % 64 = esize + k
    BY DEF Narrow!EncSh
  <2> QED BY <2>1, <2>2 DEF NarrowOpen
<1> QED BY <1>4, <1>5 DEF Narrow!NarrowPlan

-----------------------------------------------------------------------------
(* T32: groups without memory settle their result.                         *)

LEMMA T32Words ==
  /\ \A g, w, r, f : LET v == T32!Emit(g, w, r, f) IN v.group = g /\ v.insn = w /\ v.seeded = 0
  /\ \A g, w, o : LET v == T32!Plain(g, w, o) IN v.group = g /\ v.insn = w /\ v.seeded = 0
  /\ \A g, w : LET v == T32!Random(g, w) IN v.group = g /\ v.insn = w /\ v.seeded = 0
  /\ \A g, w, o : LET v == T32!WithMem(g, w, o) IN v.group = g /\ v.insn = w /\ v.regs.over = o
BY DEF T32!Emit, T32!Plain, T32!Random, T32!WithMem, T32!T16!Emit, T32!Base, T32!T16!Base,
       T32!T16!Regs
\* No memory, no block and no register in a place the architecture leaves open.
Settles(v) ==
  /\ v.seeded = 0
  /\ v.group \notin {"block", "imm8"}
  /\ v.insn[1] \div 16 # \hE84
  /\ v.group = "mull" => v.insn[2] \div 4096 # T32Rd(v)
  /\ v.group \in {"mul", "mull", "extend", "ssat", "usat", "bitfield"} => T32Rd(v) \notin {13, 15}

LEMMA SettlesT32DpImm == \A v \in T32!GenDpImm : Settles(v)
<1> USE T32Words DEF T32!DP_IMM_OPS, Settles, T32!DpImm, T32!SplitImm, T32!Bits
<1>1. \A op \in T32!DP_IMM_OPS, s \in {0, 1}, imm12 \in {\h00F, \h0FF, \h101, \h201, \h412} : \A z :
        Settles(T32!Emit("dp_imm", T32!DpImm(op, s, 1, 0, imm12), T32!Drawn(T32!NoOver), z))
  OBVIOUS
<1>2. \A op \in T32!DP_IMM_OPS, r \in {<<3, 2>>, <<5, 4>>} :
        Settles(T32!Random("dp_imm", T32!DpImm(op, 0, r[2], r[1], \h0FF)))
  OBVIOUS
<1>3. \A op \in {2, 3}, imm12 \in {\h00F, \h0FF, \h412} :
        Settles(T32!Plain("dp_imm", T32!DpImm(op, 1, 15, 0, imm12), T32!NoOver))
  OBVIOUS
<1>4. \A op \in {0, 4, 8, 13}, imm12 \in {\h00F, \h0FF, \h100, \h201, \h412} :
        Settles(T32!Random("dp_imm", T32!DpImm(op, 1, 1, 15, imm12)))
  OBVIOUS
<1> HIDE DEF T32!DP_IMM_OPS, Settles, T32!DpImm
<1> QED BY <1>1, <1>2, <1>3, <1>4 DEF T32!GenDpImm

LEMMA SettlesT32DpReg == \A v \in T32!GenDpReg : Settles(v)
<1> USE T32Words DEF T32!DP_IMM_OPS, Settles, T32!DpReg, T32!SplitShift
<1>1. \A op \in T32!DP_IMM_OPS : \A sh, z :
        Settles(T32!Emit("dp_reg", T32!DpReg(op, 1, 1, 0, 2, sh), T32!Drawn(T32!NoOver), z))
  OBVIOUS
<1>2. \A op \in T32!DP_IMM_OPS, r \in {<<3, 4, 5>>, <<6, 2, 7>>} :
        Settles(T32!Random("dp_reg", T32!DpReg(op, 0, r[2], r[1], r[3], <<0, 0>>)))
  OBVIOUS
<1>3. \A sh, z :
        Settles(T32!Emit("dp_reg", T32!DpReg(2, 1, 15, 0, 2, sh), T32!Drawn(T32!NoOver), z))
  OBVIOUS
<1>4. \A op \in {0, 4, 13} : \A sh : Settles(T32!Random("dp_reg", T32!DpReg(op, 1, 0, 15, 1, sh)))
  OBVIOUS
<1>5. \A op \in {10, 11} : \A z :
        Settles(T32!Emit("dp_reg", T32!DpReg(op, 1, 1, 0, 2, <<0, 0>>), T32!Drawn(T32!NoOver), z))
  OBVIOUS
<1> HIDE DEF T32!DP_IMM_OPS, Settles, T32!DpReg
<1> QED BY <1>1, <1>2, <1>3, <1>4, <1>5 DEF T32!GenDpReg

LEMMA SettlesT32PlainImm == \A v \in T32!GenPlainImm : Settles(v)
<1> USE T32Words DEF Settles, T32!Wide, T32!AddSubW, T32!SplitImm, T32!Extract, T32!Bfi,
      T32!SplitShift, T32!Bits, Bits, T32Rd
<1>1. \A op \in {\hF240, \hF2C0}, imm16 \in {0, 1, \h00FF, \h1234, \hABCD, \hFFFF, \h8000} :
        \A g : g \in {"movw", "movt"} => Settles(T32!Random(g, T32!Wide(op, 0, imm16)))
  OBVIOUS
<1>2. \A op \in {\hF200, \hF2A0}, imm12 \in {0, 1, \h80, \hFF, \h100, \h7FF, \hFFF},
         rn \in {1, 2, 4, 6} : \A rd : Settles(T32!Random("addw", T32!AddSubW(op, rd, rn, imm12)))
  OBVIOUS
<1>3. \A op \in {\hF340, \hF3C0}, x \in (0 .. 31) \X (1 .. 32) :
        Settles(T32!Random("bitfield", T32!Extract(op, 0, 1, x[1], x[2])))
  OBVIOUS
<1>4. \A x \in (0 .. 31) \X (1 .. 16) : x[1] + x[2] <= 32 =>
        Settles(T32!Random("bitfield", T32!Bfi(0, 1, x[1], x[2])))
  OBVIOUS
<1> HIDE DEF Settles, T32!Wide, T32!AddSubW, T32!Extract, T32!Bfi
<1> QED BY <1>1, <1>2, <1>3, <1>4 DEF T32!GenPlainImm

LEMMA SettlesT32Multiply == \A v \in T32!GenMultiply : Settles(v)
BY T32Words DEF T32!GenMultiply, Settles, T32!Multiply, T32Rd, Bits

LEMMA SettlesT32Divide == \A v \in T32!GenDivide : Settles(v)
BY T32Words DEF T32!GenDivide, Settles, T32!Multiply

LEMMA SettlesT32Clz == \A v \in T32!GenClz : Settles(v)
BY T32Words DEF T32!GenClz, Settles, T32!Clz

LEMMA SettlesT32Saturate == \A v \in T32!GenSaturate : Settles(v)
BY T32Words DEF T32!GenSaturate, Settles, T32!Saturate, T32!SplitShift, T32!Bits, T32Rd, Bits

LEMMA SettlesT32Extend == \A v \in T32!GenExtend : Settles(v)
BY T32Words DEF T32!GenExtend, Settles, T32!Extend, T32Rd, Bits

LEMMA SettlesT32Status == \A v \in T32!GenStatus : Settles(v)
BY T32Words DEF T32!GenStatus, Settles, T32!Mrs

LEMMA SettlesT32Branch == \A v \in T32!GenBranch : Settles(v)
BY T32Words DEF T32!GenBranch, Settles, T32!LongBranch, T32!CondBranch, T32!T16!Conditions, T32!Bits

-----------------------------------------------------------------------------
(***************************************************************************)
(* T32: loads and stores, whose bytes are captured but for those at an     *)
(* offset of 256 and more.                                                 *)
(***************************************************************************)

Within(v) == T32Bytes(v) \subseteq Captured
T32Far(v) == v.group = "imm12" /\ v.insn[2] % 4096 >= 256
\* Defined, and within the bytes captured, whenever the oracle answers.
T32Good(v) == ~ T32Undefined(v) => /\ ~ T32Open(v)
                                   /\ v.seeded > 0 /\ ~ T32Far(v) => Within(v)

LEMMA T32Memory ==
  \A g, w, o : LET v == T32!WithMem(g, w, o)
               IN  v.group = g /\ v.insn = w /\ v.regs.over = o
BY DEF T32!WithMem, T32!T16!Emit, T32!Base, T32!T16!Base, T32!T16!Regs

\* There are sixteen places in a register list.
LEMMA SixteenPlaces == IsFiniteSet(0 .. 15) /\ Cardinality(0 .. 15) = 16
<1> DEFINE lo == 0
           hi == 15
<1>1. lo = 0 /\ hi = 15
  OBVIOUS
<1>2. lo \in Int /\ hi \in Int /\ hi >= lo
  OBVIOUS
<1> HIDE DEF lo, hi
<1>3. IsFiniteSet(lo .. hi) /\ Cardinality(lo .. hi) = hi - lo + 1
  BY <1>2, FS_Interval
<1> QED BY <1>1, <1>3

LEMMA SpanCaptured ==
  \A first, n \in Int : first >= \h20000 /\ first + n <= \h20040 =>
     Span(first, n) \subseteq Captured
BY DEF Span, Captured, Thumb!MEM, Thumb!MEMSIZE

LEMMA Powers == 2 ^ 0 = 1 /\ 2 ^ 1 = 2 /\ 2 ^ 2 = 4 /\ 2 ^ 3 = 8
OBVIOUS

LEMMA Sizes ==
  \A v : Bits(v.insn[1], 32, 4) \in {0, 1, 2} => T32Size(v) \in {1, 2, 4}
BY Powers DEF T32Size

\* A register offset, shifted.
LEMMA OffsetGood ==
  ASSUME NEW op \in {\hF840, \hF850, \hF800, \hF810, \hF820, \hF830}, NEW rt \in {0, 2, 4, 6},
         NEW shift \in {0, 1, 2}, NEW rm \in {2, 3}, NEW over, over[1] = T32!MEM, over[rm] = 4
  PROVE  T32Good(T32!WithMem("offset", T32!Transfer(op, rt, 1, shift * 16 + rm), over))
<1> DEFINE low == shift * 16 + rm
           full == rt * 4096 + low
           v == T32!WithMem("offset", T32!Transfer(op, rt, 1, low), over)
<1>1. v.group = "offset" /\ v.insn = << op + 1, full >> /\ v.regs.over = over
  BY T32Memory DEF T32!Transfer
<1>2. full \in Nat /\ full % 16 = rm /\ Bits(full, 16, 4) = shift
  BY DEF Bits
<1> HIDE DEF v, full, low
<1>3. ~ T32Open(v)
  <2>1. ~ T32Field(v, \hE84)
    BY <1>1 DEF T32Field
  <2> QED BY <1>1, <2>1 DEF T32Open
<1>4. Rn(v.insn) = 1 /\ T32Size(v) \in {1, 2, 4}
  <2>1. Bits(v.insn[1], 32, 4) \in {0, 1, 2}
    BY <1>1 DEF Bits
  <2>2. v.insn[1] % 16 = 1
    BY <1>1
  <2> QED BY <2>1, <2>2, Sizes DEF Rn
<1>5. 2 ^ shift \in {1, 2, 4}
  <2>1. CASE shift = 0
    BY <2>1, Powers
  <2>2. CASE shift = 1
    BY <2>2, Powers
  <2>3. CASE shift = 2
    BY <2>3, Powers
  <2> QED BY <2>1, <2>2, <2>3
<1>6. T32Bytes(v) = Span(over[1] + over[rm] * 2 ^ shift, T32Size(v))
  <2>1. v.insn[2] = full
    BY <1>1
  <2>2. T32Bytes(v) =
          Span(over[Rn(v.insn)] + over[v.insn[2] % 16] * 2 ^ Bits(v.insn[2], 16, 4), T32Size(v))
    BY <1>1 DEF T32Bytes
  <2> QED BY <1>2, <1>4, <2>1, <2>2
<1>7. Within(v)
  BY <1>4, <1>5, <1>6, SpanCaptured DEF Within, T32!MEM, T32!T16!MEM
<1> QED BY <1>3, <1>7 DEF T32Good, v, low

\* LDRD, STRD, LDREX and STREX, with other registers for status, value and address.
LEMMA PairGood ==
  ASSUME NEW g \in {"dual", "exclusive"}, NEW op \in {\hE9C0, \hE9D0, \hE840, \hE850},
         NEW low \in Nat, low < 4096, low % 256 \in {0, 1, 4, 8},
         op = \hE840 => low \div 256 = 3, NEW over, over[2] = T32!MEM
  PROVE  T32Good(T32!WithMem(g, T32!Transfer(op, 0, 2, low), over))
<1> DEFINE v == T32!WithMem(g, T32!Transfer(op, 0, 2, low), over)
<1>1. v.group = g /\ v.insn = << op + 2, low >> /\ v.regs.over = over
  <2>1. T32!Transfer(op, 0, 2, low) = << op + 2, low >>
    BY DEF T32!Transfer
  <2> QED BY <2>1, T32Memory
<1> HIDE DEF v
<1>2. ~ T32Open(v)
  <2>1. T32Field(v, \hE84) => op = \hE840
    BY <1>1 DEF T32Field
  <2>2. op = \hE840 => T32Rd(v) = 3
    BY <1>1 DEF T32Rd, Bits
  <2>3. low \div 4096 = 0 /\ Rn(v.insn) = 2
    BY <1>1 DEF Rn
  <2> QED BY <1>1, <2>1, <2>2, <2>3 DEF T32Open
<1>3. Rn(v.insn) = 2
  BY <1>1 DEF Rn
<1>4. T32Bytes(v) = Span(over[2] + 4 * (low % 256), IF g = "dual" THEN 8 ELSE 4)
  BY <1>1, <1>3 DEF T32Bytes
<1>5. Within(v)
  BY <1>4, SpanCaptured DEF Within, T32!MEM, T32!T16!MEM
<1> QED BY <1>2, <1>5 DEF T32Good, v

\* An offset of 8 bits: before or after, with writeback.
LEMMA Indexed8Good ==
  ASSUME NEW op \in {\hF840, \hF850, \hF800, \hF810, \hF820, \hF830}, NEW rt \in {0, 2, 5},
         NEW p \in {0, 1}, NEW w \in {0, 1}, NEW imm8 \in {0, 4, 8}, NEW over, over[1] = T32!MEM
  PROVE  T32Good(T32!WithMem("imm8", T32!Indexed8(op, rt, 1, p, w, imm8), over))
<1> DEFINE v == T32!WithMem("imm8", T32!Indexed8(op, rt, 1, p, w, imm8), over)
<1>1. v.group = "imm8" /\ v.regs.over = over
        /\ v.insn = << op + 1, rt * 4096 + \h800 + p * 1024 + 512 + w * 256 + imm8 >>
  BY T32Memory DEF T32!Transfer, T32!Indexed8
<1> HIDE DEF v
<1>2. Rn(v.insn) = 1 /\ T32Size(v) \in {1, 2, 4}
  <2>1. Bits(v.insn[1], 32, 4) \in {0, 1, 2}
    BY <1>1 DEF Bits
  <2>2. v.insn[1] % 16 = 1
    BY <1>1
  <2> QED BY <2>1, <2>2, Sizes DEF Rn
<1>3. ~ T32Open(v)
  <2>1. ~ T32Field(v, \hE84)
    BY <1>1 DEF T32Field
  <2>2. v.insn[2] \div 4096 = rt
    BY <1>1
  <2> QED BY <1>1, <1>2, <2>1, <2>2 DEF T32Open
<1>4. v.insn[2] % 256 = imm8 /\ Bits(v.insn[2], 1024, 2) = p
  BY <1>1 DEF Bits
<1>5. T32Bytes(v) = Span(over[1] + p * imm8, T32Size(v))
  BY <1>1, <1>2, <1>4 DEF T32Bytes
<1>6. Within(v)
  BY <1>2, <1>5, SpanCaptured DEF Within, T32!MEM, T32!T16!MEM
<1> QED BY <1>3, <1>6 DEF T32Good, v

\* Block transfers: a list that holds two registers at least and no more than sixteen.
LEMMA ListedCount ==
  ASSUME NEW list, NEW a \in Listed(list), NEW b \in Listed(list), a # b
  PROVE  Cardinality(Listed(list)) \in 2 .. 16
<1>1. IsFiniteSet(0 .. 15) /\ Cardinality(0 .. 15) = 16
  BY SixteenPlaces
<1>2. IsFiniteSet(Listed(list)) /\ Cardinality(Listed(list)) <= 16
  BY <1>1, FS_Subset DEF Listed
<1>3. Cardinality({a, b}) = 2
  <2>1. IsFiniteSet({a}) /\ Cardinality({a}) = 1 /\ {a, b} = {a} \cup {b}
    BY FS_Singleton
  <2> QED BY <2>1, FS_AddElement
<1>4. Cardinality({a, b}) <= Cardinality(Listed(list))
  BY <1>2, FS_Subset
<1> QED BY <1>2, <1>3, <1>4, FS_CardinalityType

\* The lists of t32_gen.py.
LEMMA BlockCounts == \A x \in T32!BlockLists : Cardinality(Listed(x[2])) \in 2 .. 16
<1>1. \A list \in {\h07, \h0F, \h55, \hFF, \h3FF, \hEC, \h3EC, \hCF, \h1CF} :
        2 \in Listed(list) /\ (0 \in Listed(list) \/ 3 \in Listed(list))
  BY DEF Listed
<1>2. \A x \in T32!BlockLists :
        x[2] \in {\h07, \h0F, \h55, \hFF, \h3FF, \hEC, \h3EC, \hCF, \h1CF}
  BY DEF T32!BlockLists
<1> QED BY <1>1, <1>2, ListedCount

\* A block upwards from the base, or downwards from the end of the captured bytes.
LEMMA BlockGood ==
  ASSUME NEW op \in {\hE8A0, \hE8B0, \hE920, \hE930}, NEW x \in T32!BlockLists, NEW over,
         over[x[1]] = IF op \in {\hE920, \hE930} THEN T32!MEM + \h40 ELSE T32!MEM
  PROVE  T32Good(T32!WithMem("block", T32!Block(op, x[1], x[2]), over))
<1> DEFINE v == T32!WithMem("block", T32!Block(op, x[1], x[2]), over)
           n == Cardinality(Listed(x[2]))
<1>1. v.group = "block" /\ v.regs.over = over /\ v.insn = << op + x[1], x[2] >>
  BY T32Memory DEF T32!Block
<1> HIDE DEF v
<1>2. x[1] \in {1, 3, 5}
  BY DEF T32!BlockLists
<1>3. Rn(v.insn) = x[1]
  BY <1>1, <1>2 DEF Rn
<1>4. n \in 2 .. 16
  BY BlockCounts
<1> HIDE DEF n
<1>5. /\ ~ T32Field(v, \hE84)
      /\ (T32Field(v, \hE92) \/ T32Field(v, \hE93)) <=> op \in {\hE920, \hE930}
  BY <1>1, <1>2 DEF T32Field
<1>6. ~ T32Undefined(v) => ~ T32Open(v)
  BY <1>1, <1>4, <1>5 DEF T32Undefined, T32Open, n
<1>7. T32Bytes(v) = Span(IF op \in {\hE920, \hE930} THEN over[x[1]] - 4 * n ELSE over[x[1]], 4 * n)
  BY <1>1, <1>3, <1>5 DEF T32Bytes, n
<1>8. Within(v)
  <2>1. CASE op \in {\hE920, \hE930}
    BY <1>4, <1>7, <2>1, SpanCaptured DEF Within, T32!MEM, T32!T16!MEM
  <2>2. CASE op \notin {\hE920, \hE930}
    BY <1>4, <1>7, <2>2, SpanCaptured DEF Within, T32!MEM, T32!T16!MEM
  <2> QED BY <2>1, <2>2
<1> QED BY <1>6, <1>8 DEF T32Good, v

\* A single transfer.
LEMMA Imm12Good ==
  ASSUME NEW op \in T32!ImmForms, NEW rt \in {0, 2, 3, 5},
         NEW off \in {0, 4, 8, 16, 32, \h100, \h200}, NEW over,
         over[1] = T32!MEM
  PROVE  T32Good(T32!WithMem("imm12", T32!Transfer(op, rt, 1, off), over))
<1> DEFINE v == T32!WithMem("imm12", T32!Transfer(op, rt, 1, off), over)
<1>1. v.group = "imm12" /\ v.insn = << op + 1, rt * 4096 + off >> /\ v.regs.over = over
  BY T32Memory DEF T32!Transfer
<1> HIDE DEF v
<1>2. ~ T32Open(v)
  <2>1. ~ T32Field(v, \hE84)
    BY <1>1 DEF T32Field, T32!ImmForms
  <2> QED BY <1>1, <2>1 DEF T32Open
<1>3. Rn(v.insn) = 1 /\ T32Size(v) \in {1, 2, 4}
  <2>1. Bits(v.insn[1], 32, 4) \in {0, 1, 2}
    BY <1>1 DEF Bits, T32!ImmForms
  <2>2. v.insn[1] % 16 = 1
    BY <1>1 DEF T32!ImmForms
  <2> QED BY <2>1, <2>2, Powers DEF Rn, T32Size
<1>4. v.insn[2] % 4096 = off
  BY <1>1
<1>5. T32Bytes(v) = Span(over[1] + off, T32Size(v))
  BY <1>1, <1>3, <1>4 DEF T32Bytes
<1>6. off <= 32 => Within(v)
  BY <1>3, <1>5, SpanCaptured DEF Within, T32!MEM, T32!T16!MEM
<1> QED BY <1>1, <1>2, <1>4, <1>6 DEF T32Good, T32Far, v
LEMMA PairOver ==
  /\ \A i, a, j, b : T32!Pair(i, a, j, b)[i] = a
  /\ \A i, a, f : T32!Merge(T32!At(i, a), f)[i] = a
  /\ \A i, a, j, b, c, d : i # j /\ i # c =>
        T32!Merge(T32!At(c, d), T32!Pair(i, a, j, b))[i] = a
  /\ \A i, a : T32!At(i, a)[i] = a
BY DEF T32!Pair, T32!Merge, T32!At

\* The groups of the script.
LEMMA GenImm12Good == \A v \in T32!GenImm12 : T32Good(v)
<1>1. \A op \in T32!ImmForms, rt \in {0, 2, 3, 5}, off \in {0, 4, 8, 16, 32, \h100, \h200} : \A x :
        T32Good(T32!WithMem("imm12", T32!Transfer(op, rt, 1, off), T32!Pair(1, T32!MEM, rt, x)))
  BY Imm12Good, PairOver
<1>2. {\hF8C0, \hF8D0} \subseteq T32!ImmForms
  BY DEF T32!ImmForms
<1> QED BY <1>1, <1>2 DEF T32!GenImm12

LEMMA GenOffsetGood == \A v \in T32!GenOffset : T32Good(v)
<1>1. \A op \in {\hF840, \hF850, \hF800, \hF810, \hF820, \hF830}, rt \in {0, 2, 4, 6},
         shift \in {0, 1, 2}, rm \in {2, 3} : \A x :
        T32Good(T32!WithMem("offset", T32!Transfer(op, rt, 1, shift * 16 + rm),
                  T32!Merge(T32!At(rm, 4), T32!Pair(1, T32!MEM, rt, x))))
  BY OffsetGood, PairOver
<1> QED BY <1>1 DEF T32!GenOffset

LEMMA GenDualGood == \A v \in T32!GenDual : T32Good(v)
<1>1. \A op \in {\hE9C0, \hE9D0}, imm8 \in {0, 1, 4, 8} : \A f :
        T32Good(T32!WithMem("dual", T32!Transfer(op, 0, 2, 256 + imm8),
                            T32!Merge(T32!At(2, T32!MEM), f)))
  BY PairGood, PairOver
<1> QED BY <1>1 DEF T32!GenDual

LEMMA GenExclusiveGood == \A v \in T32!GenExclusive : T32Good(v)
<1>1. \A off8 \in {0, 1, 4} : \A x :
        T32Good(T32!WithMem("exclusive", T32!Transfer(\hE840, 0, 2, 3 * 256 + off8),
                            T32!Pair(2, T32!MEM, 0, x)))
  BY PairGood, PairOver
<1>2. \A off8 \in {0, 1, 4} :
        T32Good(T32!WithMem("exclusive", T32!Transfer(\hE850, 0, 2, \hF00 + off8),
                            T32!At(2, T32!MEM)))
  BY PairGood, PairOver
<1> QED BY <1>1, <1>2 DEF T32!GenExclusive

LEMMA GenBlockGood == \A v \in T32!GenBlock : T32Good(v)
<1>1. \A op \in {\hE8A0, \hE8B0}, x \in T32!BlockLists :
        T32Good(T32!WithMem("block", T32!Block(op, x[1], x[2]), T32!At(x[1], T32!MEM)))
  BY BlockGood, PairOver
<1>2. \A op \in {\hE920, \hE930}, x \in T32!BlockLists :
        T32Good(T32!WithMem("block", T32!Block(op, x[1], x[2]), T32!At(x[1], T32!MEM + \h40)))
  BY BlockGood, PairOver
<1> QED BY <1>1, <1>2 DEF T32!GenBlock

LEMMA GenIndexed8Good == \A v \in T32!GenIndexed8 : T32Good(v)
<1>1. \A op \in {\hF840, \hF850, \hF800, \hF810, \hF820, \hF830}, rt \in {0, 2, 5},
         p \in {0, 1}, w \in {0, 1}, imm8 \in {0, 4, 8} : \A x :
        T32Good(T32!WithMem("imm8", T32!Indexed8(op, rt, 1, p, w, imm8),
                             T32!Pair(1, T32!MEM, rt, x)))
  BY Indexed8Good, PairOver
<1>2. \A p \in {0, 1}, imm8 \in {0, 4, 8} :
        T32Good(T32!WithMem("imm8", T32!Indexed8(\hF850, 0, 1, p, 1, imm8), T32!At(1, T32!MEM)))
  BY Indexed8Good, PairOver
<1> QED BY <1>1, <1>2 DEF T32!GenIndexed8

-----------------------------------------------------------------------------
(* A32: what a windowed vector loads or stores is seeded and captured.     *)

InWindow(v) == ArmBytes(v) \subseteq Arm!WIN_LO .. Arm!WIN_HI - 1
ArmGood(v) == ~ ArmOpen(v) /\ (v.window => InWindow(v))

\* Emitters whose vectors touch no memory.
LEMMA ArmGoodEmitters ==
  /\ \A g, w, r, f : g \notin {"dp", "ldst", "xldst", "ldm"} => ArmGood(Arm!Vec(g, w, r, f))
  /\ \A w, r, f : Bits(w[1], 32, 16) \notin 8 .. 11 \/ Bits(w[1], 16, 2) # 0 =>
       ArmGood(Arm!Vec("dp", w, r, f))
  /\ \A w, r, f : ArmGood(Arm!Bvec(w, r, f))
  /\ \A w : ArmGood(Arm!EmitVfp(w))
  /\ \A w, a, b : ArmGood(Arm!EmitVcmp(w, a, b)) /\ ArmGood(Arm!EmitMedia(w, a, b))
BY DEF ArmGood, ArmOpen, Arm!Vec, Arm!Bvec, Arm!EmitVfp, Arm!EmitVcmp, Arm!EmitMedia, Arm!Vector

\* A comparison without S is not an instruction of this kind, and the script skips it.
LEMMA GenDpGood ==
  ASSUME NEW op \in 0 .. 15, NEW s \in {0, 1}, <<op, s>> \in Arm!DpForms
  PROVE  \A v \in Arm!DpFixed(op, s) \cup Arm!DpByRegister(op, s) : ArmGood(v)
<1>1. op \notin 8 .. 11 \/ s # 0
  BY DEF Arm!DpForms
<1>2. \A w, r, f : Bits(w[1], 32, 16) = op /\ Bits(w[1], 16, 2) = s =>
        ArmGood(Arm!Vec("dp", w, r, f))
  BY <1>1, ArmGoodEmitters
<1>3. \A rot, imm8 : LET w == Arm!DpImm(op, s, 1, 0, rot, imm8)
                     IN  Bits(w[1], 32, 16) = op /\ Bits(w[1], 16, 2) = s
  BY DEF Arm!DpImm, Bits
<1>4. \A n, st : LET w == Arm!DpRegImmShift(op, s, 1, 0, n, st, 2)
                 IN  Bits(w[1], 32, 16) = op /\ Bits(w[1], 16, 2) = s
  BY DEF Arm!DpRegImmShift, Bits
<1>5. \A st : LET w == Arm!DpRegRegShift(op, s, 1, 0, 3, st, 2)
              IN  Bits(w[1], 32, 16) = op /\ Bits(w[1], 16, 2) = s
  BY DEF Arm!DpRegRegShift, Bits
<1>6. \A v \in Arm!DpFixed(op, s) : ArmGood(v)
  BY <1>2, <1>3, <1>4 DEF Arm!DpFixed
<1>7. \A v \in Arm!DpByRegister(op, s) : ArmGood(v)
  BY <1>2, <1>5 DEF Arm!DpByRegister
<1> QED BY <1>6, <1>7

LEMMA GenCondGood == \A v \in Arm!GenCond : ArmGood(v)
<1> DEFINE regs == Arm!Zeros([j \in {1, 2} |-> IF j = 1 THEN W(\hDEAD, \hBEEF)
                                               ELSE W(\hCAFE, \hBABE)])
<1>1. Arm!GenCond = UNION { { Arm!Vec("dp", Arm!AddIf(c[1]), regs, c[2]),
                              Arm!Vec("dp", Arm!AddIf(c[1]), regs, c[3]) } : c \in Arm!CondFlags }
  BY DEF Arm!GenCond, Arm!W, W
<1>2. \A c \in Arm!CondFlags : Bits(Arm!AddIf(c[1])[1], 32, 16) = 4
  BY DEF Arm!AddIf, Bits, Arm!CondFlags
<1> HIDE DEF regs
<1>3. \A c \in Arm!CondFlags : \A r, f : ArmGood(Arm!Vec("dp", Arm!AddIf(c[1]), r, f))
  BY <1>2, ArmGoodEmitters
<1> QED BY <1>1, <1>3

LEMMA GenVariedRdGood == \A v \in Arm!GenVariedRd : ArmGood(v)
<1> DEFINE S == { f : f \in UNION { { Arm!DpImm(op, 0, 1, rd, 0, \hAA),
                                      Arm!DpRegImmShift(op, 0, 1, rd, 4, 0, 2) } :
                    op \in {0, 1, 2, 4, 12, 13, 14, 15}, rd \in {2, 4, 7, 11} } }
<1>1. \A w \in S : Bits(w[1], 32, 16) \notin 8 .. 11
  BY DEF Arm!DpImm, Arm!DpRegImmShift, Bits
<1>2. Arm!GenVariedRd = { Arm!Vec("dp", w, Arm!Drawn(Arm!NoOver), Arm!Clear) : w \in S }
  BY DEF Arm!GenVariedRd
<1> HIDE DEF S
<1> QED BY <1>1, <1>2, ArmGoodEmitters

LEMMA GenPlainGood ==
  /\ \A v \in Arm!GenMul : ArmGood(v)
  /\ \A v \in Arm!GenMsr : ArmGood(v)
  /\ \A v \in Arm!GenMedia : ArmGood(v)
  /\ \A v \in Arm!GenVcmp : ArmGood(v)
  /\ \A v \in Arm!GenBranch : ArmGood(v)
<1>1. \A v \in Arm!GenMul : ArmGood(v)
  BY ArmGoodEmitters DEF Arm!GenMul
<1>2. \A v \in Arm!GenMsr : ArmGood(v)
  BY ArmGoodEmitters DEF Arm!GenMsr
<1>3. \A v \in Arm!GenMedia : ArmGood(v)
  BY ArmGoodEmitters DEF Arm!GenMedia
<1>4. \A v \in Arm!GenVcmp : ArmGood(v)
  BY ArmGoodEmitters DEF Arm!GenVcmp
<1>5. \A v \in Arm!GenBranch : ArmGood(v)
  BY ArmGoodEmitters DEF Arm!GenBranch
<1> QED BY <1>1, <1>2, <1>3, <1>4, <1>5

Bit == {0, 1}

LEMMA WindowedFields ==
  \A g, w, o : LET v == Arm!Windowed(g, w, o)
               IN  v.group = g /\ v.insn = w /\ v.regs.over = o
BY DEF Arm!Windowed, Arm!Vector, Arm!Zeros, Arm!Regs

\* The middle of the window.
LEMMA SpanWindow ==
  \A first, n \in Int : first >= \h20020 /\ first + n <= \h20060 =>
     Span(first, n) \subseteq Arm!WIN_LO .. Arm!WIN_HI - 1
BY DEF Span, Arm!WIN_LO, Arm!WIN_HI

\* The base with an offset added, subtracted or ignored.
LEMMA IndexedAt ==
  ASSUME NEW v, NEW base \in Int, NEW off \in Int, v.regs.over[Rn(v.insn)] = base
  PROVE  Indexed(v, off) = IF PBit(v.insn) = 0 THEN base
                           ELSE IF UBit(v.insn) = 1 THEN base + off ELSE base - off
BY DEF Indexed

\* The modes of single transfers: post-indexed ones write back without W.
LEMMA ArmModes ==
  \A x \in Arm!Indexing : x[1] \in Bit /\ x[2] \in Bit /\ x[3] \in Bit /\ (x[1] = 0 => x[3] = 0)
BY DEF Arm!Indexing, Bit

\* A word or byte transfer.
LEMMA LdstGood ==
  ASSUME NEW w, NEW over, NEW base \in Int, NEW off \in Int,
         Rn(w) = 1, over[1] = base, PBit(w) \in Bit, UBit(w) \in Bit, WBit(w) \in Bit,
         PBit(w) = 0 => WBit(w) = 0,
         PBit(w) = 0 \/ WBit(w) = 1 => w[2] \div 4096 # 1,
         \/ Bits(w[1], 512, 2) = 0 /\ w[2] % 4096 = off
         \/ Bits(w[1], 512, 2) = 1
              /\ (IF Bits(w[2], 32, 4) = 0 THEN over[2] * 4 ELSE over[2] \div 4) = off,
         PBit(w) = 0 => base >= \h20020 /\ base <= \h2005C,
         PBit(w) = 1 /\ UBit(w) = 1 => base + off >= \h20020 /\ base + off <= \h2005C,
         PBit(w) = 1 /\ UBit(w) = 0 => base - off >= \h20020 /\ base - off <= \h2005C
  PROVE  ArmGood(Arm!Windowed("ldst", w, over))
<1> DEFINE v == Arm!Windowed("ldst", w, over)
<1>1. v.group = "ldst" /\ v.insn = w /\ v.regs.over = over
  BY WindowedFields
<1> HIDE DEF v
<1>2. ~ ArmOpen(v)
  BY <1>1 DEF ArmOpen
<1>3. ArmBytes(v) = Span(Indexed(v, off), IF Bits(w[1], 64, 2) = 1 THEN 1 ELSE 4)
  BY <1>1 DEF ArmBytes, LdstBytes
<1>4. Indexed(v, off) \in Int /\ Indexed(v, off) >= \h20020 /\ Indexed(v, off) <= \h2005C
  BY <1>1, IndexedAt DEF Bit
<1>5. InWindow(v)
  BY <1>3, <1>4, SpanWindow DEF InWindow
<1> QED BY <1>2, <1>5 DEF ArmGood, v

\* The fields of an encoded transfer are those it was made from.
LEMMA LdstFields ==
  ASSUME NEW P \in Bit, NEW U \in Bit, NEW B \in Bit, NEW W1 \in Bit, NEW L \in Bit,
         NEW off \in {0, 4, 8, 12, 28}
  PROVE  LET w == Arm!LdstEnc(P, U, B, W1, L, 1, 0, off)
         IN  /\ PBit(w) = P /\ UBit(w) = U /\ WBit(w) = W1
             /\ Rn(w) = 1 /\ Bits(w[1], 512, 2) = 0
             /\ w[2] % 4096 = off /\ w[2] \div 4096 = 0
BY DEF Bit, Arm!LdstEnc, PBit, UBit, WBit, Rn, Bits

LEMMA LdstRegFields ==
  ASSUME NEW P \in Bit, NEW U \in Bit, NEW B \in Bit, NEW W1 \in Bit, NEW L \in Bit,
         NEW st \in Bit
  PROVE  LET w == Arm!LdstReg(P, U, B, W1, L, 1, 0, 2, st, 2)
         IN  /\ PBit(w) = P /\ UBit(w) = U /\ WBit(w) = W1
             /\ Rn(w) = 1 /\ Bits(w[1], 512, 2) = 1
             /\ Bits(w[2], 32, 4) = st /\ w[2] \div 4096 = 0
BY DEF Bit, Arm!LdstReg, PBit, UBit, WBit, Rn, Bits

LEMMA GenLdstGood == \A v \in Arm!GenLdst : ArmGood(v)
<1> DEFINE Over(base) == [j \in 0 .. 2 |-> CASE j = 0 -> W(\hCAFE, \hF00D)
                                             [] j = 1 -> base
                                             [] OTHER -> 4]
<1>1. \A w : \A r1off \in Int : Arm!EmitLdst(w, r1off) =
        Arm!Windowed("ldst", w, Over(Arm!BASE + r1off))
  BY DEF Arm!EmitLdst, Arm!LdstAt, Arm!W, W
<1>2. \A base \in Int : Over(base)[1] = base /\ Over(base)[2] = 4
  OBVIOUS
<1> HIDE DEF Over
<1>3. ASSUME NEW x \in Arm!Indexing, NEW B \in {0, 1}, NEW L \in {0, 1},
             NEW imm \in {0, 4, 8, 12, 28}
      PROVE  ArmGood(Arm!EmitLdst(Arm!LdstEnc(x[1], x[2], B, x[3], L, 1, 0, imm), 0))
  <2> DEFINE w == Arm!LdstEnc(x[1], x[2], B, x[3], L, 1, 0, imm)
             base == Arm!BASE + 0
  <2>1. /\ PBit(w) = x[1] /\ UBit(w) = x[2] /\ WBit(w) = x[3] /\ Rn(w) = 1
        /\ Bits(w[1], 512, 2) = 0 /\ w[2] % 4096 = imm /\ w[2] \div 4096 = 0
    BY ArmModes, LdstFields DEF Bit
  <2>2. base = \h20040
    BY DEF Arm!BASE
  <2>3. Over(base)[1] = base
    BY <1>2, <2>2
  <2>4. Arm!EmitLdst(w, 0) = Arm!Windowed("ldst", w, Over(base))
    BY <1>1
  <2> HIDE DEF w, base
  <2>5. ArmGood(Arm!Windowed("ldst", w, Over(base)))
    BY <2>1, <2>2, <2>3, ArmModes, LdstGood DEF Bit
  <2> QED BY <2>4, <2>5 DEF w
<1>4. ASSUME NEW x \in Arm!Indexing, NEW B \in {0, 1}, NEW L \in {0, 1}, NEW st \in {0, 1}
      PROVE  ArmGood(Arm!EmitLdst(Arm!LdstReg(x[1], x[2], B, x[3], L, 1, 0, 2, st, 2), 0))
  <2> DEFINE w == Arm!LdstReg(x[1], x[2], B, x[3], L, 1, 0, 2, st, 2)
             base == Arm!BASE + 0
             off == IF st = 0 THEN 16 ELSE 1
  <2>1. /\ PBit(w) = x[1] /\ UBit(w) = x[2] /\ WBit(w) = x[3] /\ Rn(w) = 1
        /\ Bits(w[1], 512, 2) = 1 /\ Bits(w[2], 32, 4) = st /\ w[2] \div 4096 = 0
    BY ArmModes, LdstRegFields DEF Bit
  <2>2. base = \h20040
    BY DEF Arm!BASE
  <2>3. Over(base)[1] = base /\ Over(base)[2] = 4
    BY <1>2, <2>2
  <2>4. Arm!EmitLdst(w, 0) = Arm!Windowed("ldst", w, Over(base))
    BY <1>1
  <2>5. off \in {1, 16} /\ off = (IF Bits(w[2], 32, 4) = 0 THEN Over(base)[2] * 4
                                                           ELSE Over(base)[2] \div 4)
    BY <2>1, <2>3
  <2> HIDE DEF w, base, off
  <2>6. ArmGood(Arm!Windowed("ldst", w, Over(base)))
    BY <2>1, <2>2, <2>3, <2>5, ArmModes, LdstGood DEF Bit
  <2> QED BY <2>4, <2>6 DEF w
<1>5. ASSUME NEW rt \in {3, 5, 7, 11}, NEW B \in {0, 1}, NEW L \in {0, 1}
      PROVE  ArmGood(Arm!EmitLdstRt(Arm!LdstEnc(1, 1, B, 0, L, 1, rt, 0), rt))
  <2> DEFINE w == Arm!LdstEnc(1, 1, B, 0, L, 1, rt, 0)
             over == Arm!Merge([j \in {1} |-> Arm!BASE],
                               [j \in {2, rt} |-> IF j = rt THEN Arm!W(\hDEAD, \hBEEF) ELSE 4])
  <2>1. /\ PBit(w) = 1 /\ UBit(w) = 1 /\ WBit(w) = 0 /\ Rn(w) = 1
        /\ Bits(w[1], 512, 2) = 0 /\ w[2] % 4096 = 0 /\ w[2] \div 4096 = rt
    BY DEF Bit, Arm!LdstEnc, PBit, UBit, WBit, Rn, Bits
  <2>2. over[1] = \h20040
    BY DEF Arm!Merge, Arm!BASE
  <2>4. Arm!EmitLdstRt(w, rt) = Arm!Windowed("ldst", w, over)
    BY DEF Arm!EmitLdstRt
  <2> HIDE DEF w, over
  <2>5. ArmGood(Arm!Windowed("ldst", w, over))
    BY <2>1, <2>2, LdstGood DEF Bit
  <2> QED BY <2>4, <2>5 DEF w
<1>6. ASSUME NEW imm \in {\h100, \h400, \hFFF, \h7FF}, NEW B \in {0, 1}, NEW L \in {0, 1}
      PROVE  ArmGood(Arm!EmitLdst(Arm!LdstEnc(1, 1, B, 0, L, 1, 0, imm), -imm))
  <2> DEFINE w == Arm!LdstEnc(1, 1, B, 0, L, 1, 0, imm)
             base == Arm!BASE + (-imm)
  <2>1. /\ PBit(w) = 1 /\ UBit(w) = 1 /\ WBit(w) = 0 /\ Rn(w) = 1
        /\ Bits(w[1], 512, 2) = 0 /\ w[2] % 4096 = imm /\ w[2] \div 4096 = 0
    BY DEF Bit, Arm!LdstEnc, PBit, UBit, WBit, Rn, Bits
  <2>2. base \in Int /\ base + imm = \h20040
    BY DEF Arm!BASE
  <2>3. Over(base)[1] = base
    BY <1>2, <2>2
  <2>4. Arm!EmitLdst(w, -imm) = Arm!Windowed("ldst", w, Over(base))
    BY <1>1
  <2> HIDE DEF w, base
  <2>5. ArmGood(Arm!Windowed("ldst", w, Over(base)))
    BY <2>1, <2>2, <2>3, LdstGood DEF Bit
  <2> QED BY <2>4, <2>5 DEF w
<1> QED BY <1>3, <1>4, <1>5, <1>6 DEF Arm!GenLdst, Arm!LargeOffset

\* A halfword, signed or dual transfer.
LEMMA XldstGood ==
  ASSUME NEW w, NEW over, NEW off \in 0 .. 8,
         Rn(w) = 1, over[1] = \h20040, PBit(w) \in Bit, UBit(w) \in Bit,
         PBit(w) = 0 => WBit(w) = 0, w[2] \div 4096 # 1,
         LBit(w) = 0 /\ Bits(w[2], 32, 4) > 1 => (w[2] \div 4096) % 2 # 1,
         \/ Bits(w[1], 64, 2) = 1 /\ Bits(w[2], 256, 16) * 16 + (w[2] % 16) = off
         \/ Bits(w[1], 64, 2) # 1 /\ over[4] = off
  PROVE  ArmGood(Arm!Windowed("xldst", w, over))
<1> DEFINE v == Arm!Windowed("xldst", w, over)
           n == CASE Bits(w[2], 32, 4) = 1 -> 2 [] Bits(w[2], 32, 4) = 2 /\ LBit(w) = 1 -> 1
                  [] Bits(w[2], 32, 4) = 3 /\ LBit(w) = 1 -> 2 [] OTHER -> 8
<1>1. v.group = "xldst" /\ v.insn = w /\ v.regs.over = over
  BY WindowedFields
<1> HIDE DEF v
<1>2. ~ ArmOpen(v)
  BY <1>1 DEF ArmOpen
<1>3. ArmBytes(v) = Span(Indexed(v, off), n)
  BY <1>1 DEF ArmBytes, XldstBytes
<1>4. Indexed(v, off) \in \h20038 .. \h20048
  BY <1>1, IndexedAt DEF Bit
<1>5. n \in {1, 2, 8}
  OBVIOUS
<1> HIDE DEF n
<1>6. InWindow(v)
  BY <1>3, <1>4, <1>5, SpanWindow DEF InWindow
<1> QED BY <1>2, <1>6 DEF ArmGood, v

LEMMA XldstRegFields ==
  ASSUME NEW P \in Bit, NEW U \in Bit, NEW W1 \in Bit, NEW L \in Bit,
         NEW rt \in {0, 2}, NEW op2 \in {1, 2, 3}
  PROVE  LET w == Arm!XldstEnc(P, U, 0, W1, L, 1, rt, op2, 0, 4)
         IN  /\ PBit(w) = P /\ UBit(w) = U /\ WBit(w) = W1 /\ LBit(w) = L
             /\ Rn(w) = 1 /\ Bits(w[1], 64, 2) = 0 /\ Bits(w[2], 32, 4) = op2
             /\ w[2] \div 4096 = rt
BY DEF Bit, Arm!XldstEnc, PBit, UBit, WBit, LBit, Rn, Bits

LEMMA GenXldstGood == \A v \in Arm!GenXldst : ArmGood(v)
<1> DEFINE Forms == { <<1, 1, 0>>, <<1, 2, 0>>, <<1, 3, 0>>, <<0, 1, 0>>, <<0, 2, 2>>, <<0, 3, 2>> }
           over == [j \in {0, 1, 3, 4} |-> CASE j = 0 -> Arm!W(\hBEEF, \hCAFE)
                                              [] j = 1 -> Arm!BASE
                                              [] j = 3 -> Arm!W(\h0BAD, \hF00D)
                                              [] OTHER -> 4]
<1>1. \A w : Arm!EmitXldst(w) = Arm!Windowed("xldst", w, over)
  BY DEF Arm!EmitXldst
<1>2. over[1] = \h20040 /\ over[4] = 4
  BY DEF Arm!BASE
<1>3. \A f \in Forms : /\ f[1] \in Bit /\ f[2] \in {1, 2, 3} /\ f[3] \in {0, 2}
  BY DEF Bit
<1> HIDE DEF over, Forms
<1>4. ASSUME NEW f \in Forms, NEW x \in Arm!Indexing, NEW imm \in {0, 2, 4, 8}
      PROVE  ArmGood(Arm!EmitXldst(Arm!XldstEnc(x[1], x[2], 1, x[3], f[1], 1, f[3], f[2], imm, 0)))
  <2> DEFINE w == Arm!XldstEnc(x[1], x[2], 1, x[3], f[1], 1, f[3], f[2], imm, 0)
  <2>1. /\ PBit(w) = x[1] /\ UBit(w) = x[2] /\ WBit(w) = x[3] /\ LBit(w) = f[1] /\ Rn(w) = 1
        /\ Bits(w[1], 64, 2) = 1 /\ Bits(w[2], 32, 4) = f[2]
        /\ w[2] \div 4096 = f[3] /\ Bits(w[2], 256, 16) * 16 + (w[2] % 16) = imm
    <3>1. \A P, U, W1, L \in Bit, rt \in {0, 2}, op2 \in {1, 2, 3} :
            LET e == Arm!XldstEnc(P, U, 1, W1, L, 1, rt, op2, imm, 0)
            IN  /\ PBit(e) = P /\ UBit(e) = U /\ WBit(e) = W1 /\ LBit(e) = L
                /\ Rn(e) = 1 /\ Bits(e[1], 64, 2) = 1 /\ Bits(e[2], 32, 4) = op2
                /\ e[2] \div 4096 = rt /\ Bits(e[2], 256, 16) * 16 + (e[2] % 16) = imm
      BY DEF Bit, Arm!XldstEnc, PBit, UBit, WBit, LBit, Rn, Bits
    <3> QED BY <3>1, <1>3, ArmModes DEF Bit
  <2> HIDE DEF w
  <2>2. ArmGood(Arm!Windowed("xldst", w, over))
    BY <1>2, <1>3, <2>1, ArmModes, XldstGood
  <2> QED BY <1>1, <2>2 DEF w
<1>5. ASSUME NEW f \in Forms, NEW x \in Arm!Indexing
      PROVE  ArmGood(Arm!EmitXldst(Arm!XldstEnc(x[1], x[2], 0, x[3], f[1], 1, f[3], f[2], 0, 4)))
  <2> DEFINE w == Arm!XldstEnc(x[1], x[2], 0, x[3], f[1], 1, f[3], f[2], 0, 4)
  <2>1. /\ PBit(w) = x[1] /\ UBit(w) = x[2] /\ WBit(w) = x[3] /\ LBit(w) = f[1] /\ Rn(w) = 1
        /\ Bits(w[1], 64, 2) = 0 /\ Bits(w[2], 32, 4) = f[2] /\ w[2] \div 4096 = f[3]
    BY <1>3, ArmModes, XldstRegFields DEF Bit
  <2> HIDE DEF w
  <2>2. ArmGood(Arm!Windowed("xldst", w, over))
    BY <1>2, <1>3, <2>1, ArmModes, XldstGood
  <2> QED BY <1>1, <2>2 DEF w
<1>6. ASSUME NEW rt \in {3, 5, 7}, NEW L \in Bit, NEW op2 \in {1, 2, 3}, L = 0 => op2 = 1
      PROVE  ArmGood(Arm!EmitXldstRt(Arm!XldstEnc(1, 1, 1, 0, L, 1, rt, op2, 0, 0), rt))
  <2> DEFINE w == Arm!XldstEnc(1, 1, 1, 0, L, 1, rt, op2, 0, 0)
             o == Arm!Merge(Arm!At(rt, Arm!W(\hABCD, \hEF12)),
                            [j \in {1, 4} |-> IF j = 1 THEN Arm!BASE ELSE 4])
  <2>1. /\ PBit(w) = 1 /\ UBit(w) = 1 /\ WBit(w) = 0 /\ LBit(w) = L /\ Rn(w) = 1
        /\ Bits(w[1], 64, 2) = 1 /\ Bits(w[2], 32, 4) = op2
        /\ w[2] \div 4096 = rt /\ Bits(w[2], 256, 16) * 16 + (w[2] % 16) = 0
    BY DEF Bit, Arm!XldstEnc, PBit, UBit, WBit, LBit, Rn, Bits
  <2>2. o[1] = \h20040
    BY DEF Arm!Merge, Arm!At, Arm!BASE
  <2>3. Arm!EmitXldstRt(w, rt) = Arm!Windowed("xldst", w, o)
    BY DEF Arm!EmitXldstRt
  <2> HIDE DEF w, o
  <2>4. ArmGood(Arm!Windowed("xldst", w, o))
    BY <1>6, <2>1, <2>2, XldstGood DEF Bit
  <2> QED BY <2>3, <2>4 DEF w
<1>7. \A f \in {<<1, 1>>, <<1, 2>>, <<1, 3>>, <<0, 1>>} :
        f[1] \in Bit /\ f[2] \in {1, 2, 3} /\ (f[1] = 0 => f[2] = 1)
  BY DEF Bit
<1> QED BY <1>4, <1>5, <1>6, <1>7 DEF Arm!GenXldst, Forms

LEMMA AddOne ==
  ASSUME NEW S, NEW x, NEW n \in Nat, IsFiniteSet(S), Cardinality(S) <= n
  PROVE  IsFiniteSet(S \cup {x}) /\ Cardinality(S \cup {x}) <= n + 1
<1>1. Cardinality(S) \in Nat
  BY FS_CardinalityType
<1>2. /\ IsFiniteSet(S \cup {x})
      /\ Cardinality(S \cup {x}) = IF x \in S THEN Cardinality(S) ELSE Cardinality(S) + 1
  BY FS_AddElement
<1> QED BY <1>1, <1>2

\* A set of seven names has seven elements at most.
LEMMA SevenAtMost ==
  ASSUME NEW a, NEW b, NEW c, NEW d, NEW e, NEW f, NEW g
  PROVE  IsFiniteSet({a, b, c, d, e, f, g}) /\ Cardinality({a, b, c, d, e, f, g}) <= 7
<1> DEFINE S1 == {a}
           S2 == S1 \cup {b}
           S3 == S2 \cup {c}
           S4 == S3 \cup {d}
           S5 == S4 \cup {e}
           S6 == S5 \cup {f}
           S7 == S6 \cup {g}
<1>0. 1 + 1 = 2 /\ 2 + 1 = 3 /\ 3 + 1 = 4 /\ 4 + 1 = 5 /\ 5 + 1 = 6 /\ 6 + 1 = 7
  OBVIOUS
<1>1. IsFiniteSet(S1) /\ Cardinality(S1) <= 1
  BY FS_Singleton
<1> HIDE DEF S1
<1>2. IsFiniteSet(S2) /\ Cardinality(S2) <= 1 + 1
  BY <1>1, AddOne
<1> HIDE DEF S2
<1>3. IsFiniteSet(S3) /\ Cardinality(S3) <= 2 + 1
  BY <1>2, <1>0, AddOne
<1> HIDE DEF S3
<1>4. IsFiniteSet(S4) /\ Cardinality(S4) <= 3 + 1
  BY <1>3, <1>0, AddOne
<1> HIDE DEF S4
<1>5. IsFiniteSet(S5) /\ Cardinality(S5) <= 4 + 1
  BY <1>4, <1>0, AddOne
<1> HIDE DEF S5
<1>6. IsFiniteSet(S6) /\ Cardinality(S6) <= 5 + 1
  BY <1>5, <1>0, AddOne
<1> HIDE DEF S6
<1>7. IsFiniteSet(S7) /\ Cardinality(S7) <= 6 + 1
  BY <1>6, <1>0, AddOne
<1>8. {a, b, c, d, e, f, g} = S7
  BY DEF S1, S2, S3, S4, S5, S6, S7
<1> QED BY <1>7, <1>8

\* The register lists of the script, and how many registers they name.
LEMMA ListPlaces ==
  /\ \A r : Listed(r) \subseteq {0, 1, 2, 3, 4, 5, 6, 7, 8, 9, 10, 11, 12, 13, 14, 15}
  /\ \A r \in {\h04, \h0C, \h3C, \hFC, \hF4} :
       /\ 0 \notin Listed(r) /\ 1 \notin Listed(r) /\ 8 \notin Listed(r) /\ 9 \notin Listed(r)
       /\ 10 \notin Listed(r) /\ 11 \notin Listed(r) /\ 12 \notin Listed(r)
       /\ 13 \notin Listed(r) /\ 14 \notin Listed(r) /\ 15 \notin Listed(r)
  /\ LET r == \h5554
     IN  /\ 0 \notin Listed(r) /\ 1 \notin Listed(r) /\ 3 \notin Listed(r) /\ 5 \notin Listed(r)
         /\ 7 \notin Listed(r) /\ 9 \notin Listed(r) /\ 11 \notin Listed(r)
         /\ 13 \notin Listed(r) /\ 15 \notin Listed(r)
<1>1. \A r : Listed(r) \subseteq {0, 1, 2, 3, 4, 5, 6, 7, 8, 9, 10, 11, 12, 13, 14, 15}
  BY DEF Listed
<1>2. \A r \in {\h04, \h0C, \h3C, \hFC, \hF4} :
        /\ 0 \notin Listed(r) /\ 1 \notin Listed(r) /\ 8 \notin Listed(r) /\ 9 \notin Listed(r)
        /\ 10 \notin Listed(r) /\ 11 \notin Listed(r) /\ 12 \notin Listed(r)
        /\ 13 \notin Listed(r) /\ 14 \notin Listed(r) /\ 15 \notin Listed(r)
  BY DEF Listed
<1>3. LET r == \h5554
      IN  /\ 0 \notin Listed(r) /\ 1 \notin Listed(r) /\ 3 \notin Listed(r) /\ 5 \notin Listed(r)
          /\ 7 \notin Listed(r) /\ 9 \notin Listed(r) /\ 11 \notin Listed(r)
          /\ 13 \notin Listed(r) /\ 15 \notin Listed(r)
  BY DEF Listed
<1> QED BY <1>1, <1>2, <1>3

LEMMA ListCounts ==
  \A r \in {\h04, \h0C, \h3C, \hFC, \hF4, \h5554} :
    1 \notin Listed(r) /\ Cardinality(Listed(r)) \in 0 .. 7
<1> DEFINE low  == {2, 3, 4, 5, 6, 7, 8}
           even == {2, 4, 6, 8, 10, 12, 14}
<1>1. \A r \in {\h04, \h0C, \h3C, \hFC, \hF4} : 1 \notin Listed(r) /\ Listed(r) \in SUBSET low
  BY ListPlaces
<1>2. 1 \notin Listed(\h5554) /\ Listed(\h5554) \in SUBSET even
  BY ListPlaces
<1>3. IsFiniteSet(low) /\ Cardinality(low) <= 7 /\ IsFiniteSet(even) /\ Cardinality(even) <= 7
  BY SevenAtMost
<1> HIDE DEF low, even
<1>4. ASSUME NEW S, S \in SUBSET low \/ S \in SUBSET even
      PROVE  Cardinality(S) \in 0 .. 7
  <2>1. IsFiniteSet(S)
    BY <1>3, <1>4, FS_Subset
  <2>2. Cardinality(S) \in Nat /\ Cardinality(low) \in Nat /\ Cardinality(even) \in Nat
    BY <1>3, <2>1, FS_CardinalityType
  <2>3. Cardinality(S) <= Cardinality(low) \/ Cardinality(S) <= Cardinality(even)
    BY <1>3, <1>4, FS_Subset
  <2> QED BY <1>3, <2>2, <2>3
<1> QED BY <1>1, <1>2, <1>4

\* A block transfer of seven registers at most, near the middle of the window.
LEMMA LdmGood ==
  ASSUME NEW w, NEW over, NEW base \in {\h20030, \h20040},
         Rn(w) = 1, over[1] = base, PBit(w) \in Bit, UBit(w) \in Bit,
         w[2] \in {\h04, \h0C, \h3C, \hFC, \hF4, \h5554},
         UBit(w) = 0 => PBit(w) = 1 /\ base = \h20040
  PROVE  ArmGood(Arm!BvecLdm(w, over))
<1> DEFINE v == Arm!Windowed("ldm", w, over)
           n == Cardinality(Listed(w[2]))
<1>1. v.group = "ldm" /\ v.insn = w /\ v.regs.over = over
  BY WindowedFields
<1> HIDE DEF v
<1>2. 1 \notin Listed(w[2]) /\ n \in 0 .. 7
  BY ListCounts
<1>3. ~ ArmOpen(v)
  BY <1>1, <1>2 DEF ArmOpen
<1>4. ArmBytes(v) = LdmBytes(v)
  BY <1>1 DEF ArmBytes
<1>5. LdmBytes(v) =
        Span(IF UBit(w) = 1 THEN base + 4 * PBit(w) ELSE base - 4 * n + 4 * (1 - PBit(w)), 4 * n)
  BY <1>1 DEF LdmBytes
<1> HIDE DEF n
<1>6. CASE UBit(w) = 1
  <2>1. base + 4 * PBit(w) >= \h20020 /\ base + 4 * PBit(w) + 4 * n <= \h20060
    BY <1>2 DEF Bit
  <2>2. InWindow(v)
    BY <1>2, <1>4, <1>5, <1>6, <2>1, SpanWindow DEF InWindow, Bit
  <2> QED BY <1>3, <2>2 DEF ArmGood, Arm!BvecLdm, v
<1>7. CASE UBit(w) = 0
  <2>1. InWindow(v)
    BY <1>2, <1>4, <1>5, <1>7, SpanWindow DEF InWindow
  <2> QED BY <1>3, <2>1 DEF ArmGood, Arm!BvecLdm, v
<1> QED BY <1>6, <1>7 DEF Bit

LEMMA GenLdmGood == \A v \in Arm!GenLdm : ArmGood(v)
<1>1. /\ \A base \in Int : Arm!StoreVals(base)[1] = base
      /\ \A base \in Int : Arm!At(1, base)[1] = base
  BY DEF Arm!StoreVals, Arm!At
<1>2. ASSUME NEW p \in { <<0, 1, 0>>, <<0, 1, 1>>, <<1, 1, 1>>, <<1, 0, 1>> }, NEW L \in Bit,
             NEW rlist \in {\h04, \h0C, \h3C, \hFC, \hF4, \h5554}
      PROVE  LET w == Arm!LdmEnc(p[1], p[2], p[3], L, 1, rlist)
             IN  /\ Rn(w) = 1 /\ PBit(w) = p[1] /\ UBit(w) = p[2] /\ w[2] = rlist
                 /\ p[1] \in Bit /\ p[2] \in Bit /\ (p[2] = 0 => p[1] = 1)
  BY DEF Arm!LdmEnc, Rn, PBit, UBit, Bits, Bit
<1>3. ASSUME NEW p \in { <<0, 1, 0>>, <<0, 1, 1>>, <<1, 1, 1>>, <<1, 0, 1>> }, NEW L \in Bit,
             NEW rlist \in {\h04, \h0C, \h3C, \hFC}, NEW over, over[1] = \h20040
      PROVE  ArmGood(Arm!BvecLdm(Arm!LdmEnc(p[1], p[2], p[3], L, 1, rlist), over))
  <2> DEFINE w == Arm!LdmEnc(p[1], p[2], p[3], L, 1, rlist)
  <2>1. /\ Rn(w) = 1 /\ PBit(w) = p[1] /\ UBit(w) = p[2] /\ w[2] = rlist
        /\ p[1] \in Bit /\ p[2] \in Bit /\ (p[2] = 0 => p[1] = 1)
    BY <1>2
  <2> HIDE DEF w
  <2>2. ArmGood(Arm!BvecLdm(w, over))
    BY <1>3, <2>1, LdmGood
  <2> QED BY <2>2 DEF w
<1>4. ASSUME NEW L \in Bit, NEW x \in { <<\hF4, 0>>, <<\hFC, 0>>, <<\h5554, 0>>, <<\hF4, -16>> },
             NEW over, over[1] = Arm!BASE + x[2]
      PROVE  ArmGood(Arm!BvecLdm(Arm!LdmEnc(0, 1, 0, L, 1, x[1]), over))
  <2> DEFINE w == Arm!LdmEnc(0, 1, 0, L, 1, x[1])
  <2>1. Rn(w) = 1 /\ PBit(w) = 0 /\ UBit(w) = 1 /\ w[2] = x[1]
    BY DEF Arm!LdmEnc, Rn, PBit, UBit, Bits, Bit
  <2>2. over[1] \in {\h20030, \h20040} /\ x[1] \in {\hFC, \hF4, \h5554}
    BY <1>4 DEF Arm!BASE
  <2> HIDE DEF w
  <2>3. ArmGood(Arm!BvecLdm(w, over))
    BY <2>1, <2>2, LdmGood DEF Bit
  <2> QED BY <2>3 DEF w
<1>5. /\ Arm!At(1, Arm!BASE)[1] = \h20040 /\ Arm!StoreVals(Arm!BASE)[1] = \h20040
      /\ \A d \in {0, -16} : /\ Arm!At(1, Arm!BASE + d)[1] = Arm!BASE + d
                             /\ Arm!StoreVals(Arm!BASE + d)[1] = Arm!BASE + d
  BY <1>1 DEF Arm!BASE
<1> QED BY <1>3, <1>4, <1>5 DEF Arm!GenLdm, Bit

\* The words of VFP memory vectors: a single transfer upwards from r1, or a block of
\* four words at most, upwards from r1 and either way from the stack pointer.
InVfp(w) ==
  LET words == w[2] % 256 IN
  /\ Rn(w) \in {1, 13} /\ words \in {0, 1, 2, 4, 8}
  /\ PBit(w) = 1 /\ WBit(w) = 0 => Rn(w) = 1 /\ UBit(w) = 1
  /\ ~ (PBit(w) = 1 /\ WBit(w) = 0) => words <= 4 /\ (Rn(w) = 1 => UBit(w) = 1)

\* From r1 at the middle of the lower half, or from the stack pointer.
LEMMA VfpGood ==
  ASSUME NEW w, InVfp(w)
  PROVE  ArmGood(Arm!EmitVfpMem(w))
<1> DEFINE v == Arm!EmitVfpMem(w)
           words == w[2] % 256
<1>1. v.group = "vfp" /\ v.insn = w /\ v.regs = Arm!VfpRegs
  BY DEF Arm!EmitVfpMem, Arm!EmitVfp, Arm!Vector
<1>2. v.regs.over[1] = \h20030 /\ v.regs.over[13] = \h20050
  BY <1>1 DEF Arm!VfpRegs, Arm!Zeros, Arm!Regs, Arm!WIN_LO
<1> HIDE DEF v
<1>3. ~ ArmOpen(v)
  BY <1>1 DEF ArmOpen
<1>4. ArmBytes(v) = VfpBytes(v)
  BY <1>1 DEF ArmBytes
<1>5. words \in {0, 1, 2, 4, 8}
  BY DEF InVfp
<1>6. CASE PBit(w) = 1 /\ WBit(w) = 0
  <2>1. Indexed(v, 4 * words) = \h20030 + 4 * words
    BY <1>1, <1>2, <1>5, <1>6 DEF Indexed, InVfp
  <2>2. VfpBytes(v) = Span(\h20030 + 4 * words, IF Bits(w[2], 256, 2) = 1 THEN 8 ELSE 4)
    BY <1>1, <1>6, <2>1 DEF VfpBytes
  <2>3. InWindow(v)
    BY <1>4, <1>5, <2>2, SpanWindow DEF InWindow
  <2> QED BY <1>3, <2>3 DEF ArmGood, v
<1>7. CASE ~ (PBit(w) = 1 /\ WBit(w) = 0)
  <2> DEFINE base == v.regs.over[Rn(w)]
  <2>1. VfpBytes(v) = Span(IF UBit(w) = 1 THEN base ELSE base - 4 * words, 4 * words)
    BY <1>1, <1>7 DEF VfpBytes
  <2>2. words <= 4 /\ ((base = \h20030 /\ UBit(w) = 1) \/ base = \h20050)
    BY <1>2, <1>7 DEF InVfp
  <2> HIDE DEF base
  <2>3. InWindow(v)
    BY <1>4, <1>5, <2>1, <2>2, SpanWindow DEF InWindow
  <2> QED BY <1>3, <2>3 DEF ArmGood, v
<1> QED BY <1>6, <1>7

LEMMA GenVfpMoveGood == \A v \in Arm!GenVfpMove : ArmGood(v)
<1> DEFINE Singles == UNION { {Arm!Vldr(sd, 1, imm), Arm!Vstr(sd, 1, imm)} :
                                sd \in {0, 1, 6, 15}, imm \in {0, 2, 4, 8} }
           Stack == UNION { {Arm!Vpush(n), Arm!Vpop(n)} : n \in {1, 2, 4} }
<1>1. \A w \in Singles : InVfp(w)
  BY DEF InVfp, Arm!Vldr, Arm!Vstr, Arm!Plus, Arm!Sd, Rn, PBit, WBit, UBit, Bits
<1>2. \A w \in Stack : InVfp(w)
  BY DEF InVfp, Arm!Vpush, Arm!Vpop, Rn, PBit, WBit, UBit, Bits
<1>3. \A w \in Singles \cup Stack : ArmGood(Arm!EmitVfpMem(w))
  BY <1>1, <1>2, VfpGood
<1>4. \A w : ArmGood(Arm!EmitVfp(w))
  BY ArmGoodEmitters
<1>5. \A v \in Arm!GenVfpMove : (\E w : v = Arm!EmitVfp(w))
                                  \/ \E w \in Singles \cup Stack : v = Arm!EmitVfpMem(w)
  BY DEF Arm!GenVfpMove
<1> HIDE DEF Singles, Stack
<1> QED BY <1>3, <1>4, <1>5

LEMMA GenVfpArithGood == \A v \in Arm!GenVfpArith : ArmGood(v)
<1>1. \A w \in {<<\hED91, \h4B00>>, <<\hED81, \h4B00>>, <<\hEC91, \h4B04>>} : InVfp(w)
  BY DEF InVfp, Rn, PBit, WBit, UBit, Bits
<1>2. \A w \in {<<\hED91, \h4B00>>, <<\hED81, \h4B00>>, <<\hEC91, \h4B04>>} :
        ArmGood(Arm!EmitVfpMem(w))
  BY <1>1, VfpGood
<1>3. \A w : ArmGood(Arm!EmitVfp(w))
  BY ArmGoodEmitters
<1> QED BY <1>2, <1>3 DEF Arm!GenVfpArith

-----------------------------------------------------------------------------
(* T16: STMIA stores within the captured bytes.                            *)

ThumbGood(v) == v.group = "stmia" => ThumbBytes(v) \subseteq Captured

LEMMA ThumbGroups ==
  /\ \A g, w, r, f, n : Thumb!Emit(g, w, r, f, n).group = g
  /\ \A g, h, r : Thumb!Plain(g, h, r).group = g /\ Thumb!WithMem(g, h, r).group = g
BY DEF Thumb!Emit, Thumb!Plain, Thumb!WithMem

\* No other group of thumb_gen.py goes by that name.
LEMMA ThumbOtherGood ==
  /\ \A v \in Thumb!GenShiftImm : ThumbGood(v)
  /\ \A v \in Thumb!GenAddSub : ThumbGood(v)
  /\ \A v \in Thumb!GenAlu : ThumbGood(v)
  /\ \A v \in Thumb!GenHigh : ThumbGood(v)
  /\ \A v \in Thumb!GenLoadStore : ThumbGood(v)
  /\ \A v \in Thumb!GenSpPc : ThumbGood(v)
  /\ \A v \in Thumb!GenExtend : ThumbGood(v)
  /\ \A v \in Thumb!GenPush : ThumbGood(v)
  /\ \A v \in Thumb!GenPop : ThumbGood(v)
  /\ \A rlist : \A v \in Thumb!GenLdmia(rlist) : ThumbGood(v)
  /\ \A v \in Thumb!GenBcond : ThumbGood(v)
  /\ \A v \in Thumb!GenB : ThumbGood(v)
  /\ \A off : \A v \in Thumb!GenBl(off) : ThumbGood(v)
  /\ \A v \in Thumb!GenCbz : ThumbGood(v)
  /\ \A v \in Thumb!GenHints : ThumbGood(v)
  /\ \A v \in Thumb!GenBx : ThumbGood(v)
  /\ \A v \in Thumb!GenLdrLit : ThumbGood(v)
  /\ \A v \in Thumb!GenLoadStoreRt : ThumbGood(v)
<1> USE ThumbGroups DEF ThumbGood
<1>1. \A v \in Thumb!GenShiftImm : ThumbGood(v)
  BY DEF Thumb!GenShiftImm
<1>2. \A v \in Thumb!GenAddSub : ThumbGood(v)
  BY DEF Thumb!GenAddSub
<1>3. \A v \in Thumb!GenAlu : ThumbGood(v)
  BY DEF Thumb!GenAlu
<1>4. \A v \in Thumb!GenHigh : ThumbGood(v)
  BY DEF Thumb!GenHigh
<1>5. \A v \in Thumb!GenLoadStore : ThumbGood(v)
  BY DEF Thumb!GenLoadStore
<1>6. \A v \in Thumb!GenSpPc : ThumbGood(v)
  BY DEF Thumb!GenSpPc
<1>7. \A v \in Thumb!GenExtend : ThumbGood(v)
  BY DEF Thumb!GenExtend
<1>8. \A v \in Thumb!GenPush : ThumbGood(v)
  BY DEF Thumb!GenPush
<1>9. \A v \in Thumb!GenPop : ThumbGood(v)
  BY DEF Thumb!GenPop
<1>10. \A rlist : \A v \in Thumb!GenLdmia(rlist) : ThumbGood(v)
  BY DEF Thumb!GenLdmia
<1>11. \A v \in Thumb!GenBcond : v.group = "bcond"
  <2> TAKE v \in Thumb!GenBcond
  <2>1. PICK cond \in Thumb!Conditions, z \in Thumb!FlagsTried :
          v = Thumb!Emit("bcond", << Thumb!Form8(\hD000, cond, 1) >>,
                         Thumb!Base(Thumb!NoOver), z, 0)
    BY DEF Thumb!GenBcond
  <2> QED BY <2>1
<1>12. \A v \in Thumb!GenB : ThumbGood(v)
  BY DEF Thumb!GenB
<1>13. \A off : \A v \in Thumb!GenBl(off) : v.group = "bl"
  BY DEF Thumb!GenBl, Thumb!Emit
<1>14. \A v \in Thumb!GenCbz : v.group \in {"cbz", "cbnz"}
  BY DEF Thumb!GenCbz
<1>15. \A v \in Thumb!GenHints : v.group \in {"wfe", "wfi", "sev", "nop"}
  BY DEF Thumb!GenHints
<1>16. \A v \in Thumb!GenBx : ThumbGood(v)
  BY DEF Thumb!GenBx
<1>17. \A v \in Thumb!GenLdrLit : ThumbGood(v)
  BY DEF Thumb!GenLdrLit
<1>18. \A v \in Thumb!GenLoadStoreRt : ThumbGood(v)
  BY DEF Thumb!GenLoadStoreRt
<1> QED BY <1>1, <1>2, <1>3, <1>4, <1>5, <1>6, <1>7, <1>8, <1>9, <1>10, <1>11, <1>12, <1>13,
      <1>14, <1>15, <1>16, <1>17, <1>18

LEMMA ThumbStmiaGood == \A rlist \in 0 .. 255 : \A v \in Thumb!GenStmia(rlist) : ThumbGood(v)
<1> TAKE rlist \in 0 .. 255
<1> TAKE v \in Thumb!GenStmia(rlist)
<1>1. v = Thumb!WithMem("stmia", \hC000 + rlist, Thumb!At(0, Thumb!MEM))
  BY DEF Thumb!GenStmia
<1>2. v.group = "stmia" /\ v.insn[1] = \hC000 + rlist /\ v.regs.over[0] = Thumb!MEM
  BY <1>1 DEF Thumb!WithMem, Thumb!Emit, Thumb!Base, Thumb!Regs, Thumb!At
<1>3. v.insn[1] % 256 = rlist
  BY <1>2
<1> DEFINE n == Cardinality(Listed(rlist))
<1>4. n \in 0 .. 16
  <2>1. IsFiniteSet(Listed(rlist)) /\ n <= 16
    BY SixteenPlaces, FS_Subset DEF Listed
  <2> QED BY <2>1, FS_CardinalityType
<1> HIDE DEF n
<1>5. ThumbBytes(v) = Span(Thumb!MEM, 4 * n)
  BY <1>2, <1>3, <1>4 DEF ThumbBytes, n
<1> QED BY <1>4, <1>5, SpanCaptured DEF ThumbGood, Thumb!MEM

-----------------------------------------------------------------------------
(* From the groups to the corpora.                                         *)

ArmAll(p)   == \A e \in Entries(p) : \A v \in e.asked : ArmGood(v)
ThumbAll(p) == \A e \in Entries(p) : \A v \in e.asked : ThumbGood(v)
T32All(p)   == \A e \in Entries(p) : \A v \in e.asked : T32Good(v)

LEMMA JoinGood ==
  ASSUME NEW p, NEW q, Clean(p), q \in Seq(Entries(q))
  PROVE  /\ ArmAll(p) /\ ArmAll(q) => ArmAll(p \o q)
         /\ ThumbAll(p) /\ ThumbAll(q) => ThumbAll(p \o q)
<1>1. Entries(p \o q) = Entries(p) \cup Entries(q)
  BY JoinEntries DEF Clean
<1> QED BY <1>1 DEF ArmAll, ThumbAll

LEMMA ArmAllDp == ArmAll(Arm!DpPlan)
<1> DEFINE E(i) == LET op == (i - 1) \div 4
                       s  == ((i - 1) \div 2) % 2
                   IN  IF <<op, s>> \notin Arm!DpForms THEN Arm!Fresh(Arm!Drawn(Arm!NoOver), {})
                       ELSE IF i % 2 = 1 THEN Arm!Fresh(Arm!Drawn(Arm!NoOver), Arm!DpFixed(op, s))
                       ELSE Arm!Changed(Arm!Drawn(Arm!ShiftCount), Arm!DpByRegister(op, s))
<1>1. ASSUME NEW i \in 1 .. 64, NEW v \in E(i).asked PROVE ArmGood(v)
  <2> DEFINE op == (i - 1) \div 4
             s  == ((i - 1) \div 2) % 2
  <2>1. op \in 0 .. 15 /\ s \in {0, 1}
    OBVIOUS
  <2>2. <<op, s>> \in Arm!DpForms /\ v \in Arm!DpFixed(op, s) \cup Arm!DpByRegister(op, s)
    BY <1>1 DEF Arm!Fresh, Arm!Changed
  <2> HIDE DEF op, s
  <2> QED BY <2>1, <2>2, GenDpGood
<1>2. Arm!DpPlan = [i \in 1 .. 64 |-> E(i)]
  BY DEF Arm!DpPlan
<1> HIDE DEF E
<1>3. Len(Arm!DpPlan) = 64
  BY <1>2
<1>4. Entries(Arm!DpPlan) = { E(i) : i \in 1 .. 64 }
  BY <1>2, <1>3 DEF Entries
<1> QED BY <1>1, <1>4 DEF ArmAll

LEMMA ArmAllRegister == \A enc, rm : ArmAll(Arm!Register(enc, rm))
BY ArmGoodEmitters DEF ArmAll, Entries, Arm!Register, Arm!Fresh, Arm!Changed

LEMMA ArmAllPlan == ArmAll(Arm!ArmPlan)
<1> DEFINE T(g) == Arm!Fresh(Arm!Zeros(Arm!NoOver), g)
           mid  == << T(Arm!GenCond), T(Arm!GenVariedRd), T(Arm!GenLdst), T(Arm!GenMul),
                      T(Arm!GenXldst), T(Arm!GenMsr), T(Arm!GenMedia), T(Arm!GenVfpMove),
                      T(Arm!GenVcmp), T(Arm!GenVfpArith), T(Arm!GenBranch) >>
           last == << T(Arm!GenLdm) >>
<1>1. \A g : T(g).asked = g
  BY DEF Arm!Fresh
<1>2. ArmAll(mid)
  <2> HIDE DEF T
  <2> QED BY <1>1, GenCondGood, GenVariedRdGood, GenLdstGood, GenPlainGood, GenXldstGood,
        GenVfpMoveGood, GenVfpArithGood DEF ArmAll, Entries
<1>3. ArmAll(last)
  BY <1>1, GenLdmGood DEF ArmAll, Entries
<1>4. Clean(mid) /\ Clean(last)
  <2>1. \A g : (\A v \in g : Copied(v)) => Copies(T(g))
    BY Tables
  <2>2. Clean(last)
    BY <2>1, CopiesClean, CopiedLdm
  <2> HIDE DEF T
  <2> QED BY <2>1, <2>2, CopiedCond, CopiedVariedRd, CopiedLdst, CopiedMul, CopiedXldst, CopiedMsr,
        CopiedMedia, CopiedVfpMove, CopiedVcmp, CopiedVfpArith, CopiedBranch
        DEF Clean, Entries, Copies, Copied
<1>5. Arm!ArmPlan =
        Arm!DpPlan \o mid
          \o Arm!Register(Arm!BxEnc(Arm!AL, 2), 2) \o Arm!Register(Arm!BxEnc(Arm!AL, 3), 3)
          \o Arm!Register(Arm!BxEnc(Arm!AL, 5), 5) \o Arm!Register(Arm!BlxEnc(Arm!AL, 2), 2)
          \o Arm!Register(Arm!BlxEnc(Arm!AL, 4), 4) \o last
  BY DEF Arm!ArmPlan
<1> HIDE DEF mid, last
<1>6. \A p, q : Clean(p) /\ ArmAll(p) /\ Clean(q) /\ ArmAll(q) => Clean(p \o q) /\ ArmAll(p \o q)
  BY JoinGood, JoinClean DEF Clean
<1> QED BY <1>2, <1>3, <1>4, <1>5, <1>6, CleanDpPlan, ArmAllDp, CleanRegister, ArmAllRegister

LEMMA T32AllPlan == T32All(T32!T32Plan)
<1> DEFINE T(g) == T32!Fresh(T32!Base(T32!NoOver), g)
<1>1. \A g : T(g).asked = g
  BY DEF T32!Fresh
<1>2. T32!T32Plan = << T(T32!GenDpImm), T(T32!GenDpReg), T(T32!GenPlainImm), T(T32!GenImm12),
         T(T32!GenOffset), T(T32!GenDual), T(T32!GenBlock), T(T32!GenMultiply), T(T32!GenDivide),
         T(T32!GenClz), T(T32!GenStatus), T(T32!GenBranch), T(T32!GenExclusive),
         T(T32!GenSaturate), T(T32!GenExtend), T(T32!GenIndexed8) >>
  BY DEF T32!T32Plan
<1>3. \A v : Settles(v) => T32Good(v)
  BY DEF Settles, T32Good, T32Open, T32Field
<1> HIDE DEF T
<1> QED BY <1>1, <1>2, <1>3, SettlesT32DpImm, SettlesT32DpReg, SettlesT32PlainImm, GenImm12Good,
      GenOffsetGood, GenDualGood, GenBlockGood, SettlesT32Multiply, SettlesT32Divide,
      SettlesT32Clz, SettlesT32Status, SettlesT32Branch, GenExclusiveGood, SettlesT32Saturate,
      SettlesT32Extend, GenIndexed8Good DEF T32All, Entries

LEMMA ThumbAllStmia == \A rlist \in 0 .. 255 : ThumbAll(Thumb!StmiaLdmia(rlist))
BY ThumbStmiaGood, ThumbOtherGood DEF ThumbAll, Entries, Thumb!StmiaLdmia, Thumb!Fresh,
   Thumb!Changed

LEMMA ThumbAllPlan == ThumbAll(Thumb!ThumbPlan)
<1> DEFINE T(g) == Thumb!Fresh(Thumb!Base(Thumb!NoOver), g)
           first == << T(Thumb!GenShiftImm), T(Thumb!GenAddSub), T(Thumb!GenAlu), T(Thumb!GenHigh),
                       T(Thumb!GenLoadStore), T(Thumb!GenSpPc), T(Thumb!GenExtend),
                       T(Thumb!GenPush), T(Thumb!GenPop) >>
           last == << T(Thumb!GenBcond), T(Thumb!GenB), T(Thumb!GenBl(8)), T(Thumb!GenBl(16)),
                      T(Thumb!GenBl(-4)), T(Thumb!GenCbz), T(Thumb!GenHints), T(Thumb!GenBx),
                      T(Thumb!GenLdrLit), T(Thumb!GenLoadStoreRt) >>
<1>1. \A g : T(g).asked = g
  BY DEF Thumb!Fresh
<1>2. ThumbAll(first)
  <2> HIDE DEF T
  <2> QED BY <1>1, ThumbOtherGood DEF ThumbAll, Entries
<1>3. ThumbAll(last)
  <2> HIDE DEF T
  <2> QED BY <1>1, ThumbOtherGood DEF ThumbAll, Entries
<1>4. Clean(first) /\ last \in Seq(Entries(last))
  <2>1. \A g : (\A v \in g : Copied(v)) => Copies(T(g))
    BY Tables
  <2> HIDE DEF T
  <2> QED BY <2>1, CopiedArithmetic, CopiedMemory DEF Clean, Entries, Copies, Copied
<1>5. Thumb!ThumbPlan = first \o Thumb!StmiaLdmia(\h07) \o Thumb!StmiaLdmia(\h0F)
                          \o Thumb!StmiaLdmia(\h55) \o Thumb!StmiaLdmia(\hFF) \o last
  BY DEF Thumb!ThumbPlan
<1> HIDE DEF first, last
<1>6. \A p : Clean(p) /\ ThumbAll(p) => \A rlist \in 0 .. 255 :
         Clean(p \o Thumb!StmiaLdmia(rlist)) /\ ThumbAll(p \o Thumb!StmiaLdmia(rlist))
  BY JoinGood, JoinClean, CleanStmiaLdmia, ThumbAllStmia DEF Clean
<1>7. \A p : Clean(p) /\ ThumbAll(p) => ThumbAll(p \o last)
  BY <1>3, <1>4, JoinGood
<1> QED BY <1>2, <1>4, <1>5, <1>6, <1>7

\* Each entry of a script that makes a list for each group asks for one group.
LEMMA AloneAsked ==
  ASSUME NEW S, NEW sets \in Seq(S), NEW e \in Entries(Alone(sets))
  PROVE  \E i \in 1 .. Len(sets) : e.asked = sets[i]
<1>1. PICK i \in 1 .. Len(sets) : e = Fresh(Mips!Base, sets[i])
  BY AlonePlan DEF Entries
<1> QED BY <1>1 DEF Fresh

\* What the groups have, every entry has, since a script asked for it.
LEMMA EntriesGood ==
  ASSUME Progress, EntriesAsked, NEW e \in corpus
  PROVE  /\ tool = "mips" => ~ MipsOpen(e.ask)
         /\ tool = "narrow" => ~ NarrowOpen(e.ask)
         /\ tool = "a32" => ArmGood(e.ask)
         /\ tool = "t16" => ThumbGood(e.ask)
         /\ tool = "t32" => T32Good(e.ask) /\ ~ T32Undefined(e.ask)
<1>1. PICK x \in Entries(Plan(tool)) : e.ask \in x.asked
  BY EntryAsked
<1>2. ASSUME tool = "mips" PROVE ~ MipsOpen(e.ask)
  <2>1. Mips!MipsPlan \in Seq({ Mips!MipsPlan[i] : i \in 1 .. 22 })
    BY DEF Mips!MipsPlan
  <2>2. PICK i \in 1 .. Len(Mips!MipsPlan) : x.asked = Mips!MipsPlan[i]
    BY <1>1, <1>2, <2>1, AloneAsked DEF Plan
  <2> QED BY <1>1, <2>2, MipsDefined
<1>3. ASSUME tool = "narrow" PROVE ~ NarrowOpen(e.ask)
  <2>1. Narrow!NarrowPlan \in Seq({ Narrow!NarrowPlan[i] : i \in 1 .. 11 })
    BY DEF Narrow!NarrowPlan
  <2>2. PICK i \in 1 .. Len(Narrow!NarrowPlan) : x.asked = Narrow!NarrowPlan[i]
    BY <1>1, <1>3, <2>1, AloneAsked DEF Plan
  <2> QED BY <1>1, <2>2, NarrowDefined
<1>4. tool = "a32" => ArmGood(e.ask)
  BY <1>1, ArmAllPlan DEF Plan, ArmAll
<1>5. tool = "t16" => ThumbGood(e.ask)
  BY <1>1, ThumbAllPlan DEF Plan, ThumbAll
<1>6. tool = "t32" => T32Good(e.ask)
  BY <1>1, T32AllPlan DEF Plan, T32All
<1>7. tool = "t32" => ~ T32Undefined(e.ask)
  BY DEF EntriesAsked, Answers
<1> QED BY <1>2, <1>3, <1>4, <1>5, <1>6, <1>7

\* No entry rests on a result the architecture leaves open: no undefined operand or encoding
\* of the five scripts reaches an oracle that answers it.
THEOREM NothingLeftOpen == Spec => []DefinedResults
<1>1. IInv => DefinedResults
  <2> SUFFICES ASSUME IInv, NEW e \in corpus PROVE ~ Open(e.ask)
    BY DEF DefinedResults
  <2>1. tool \in {"mips", "a32", "t16", "t32", "narrow"}
    BY ToolsAssumption DEF IInv, Progress
  <2> QED BY <2>1, EntriesGood DEF IInv, Open, ArmGood, T32Good
<1> QED BY <1>1, Inductive, PTL

\* What an A32 vector loads or stores is in the window, what STMIA of T16 and the T32 vectors
\* do (but for far offsets) is among the captured bytes: no store is compared nowhere.
THEOREM NoByteUnseen == Spec => []AccessesCaptured
<1>1. IInv => AccessesCaptured
  BY EntriesGood DEF IInv, AccessesCaptured, ArmGood, ThumbGood, T32Good, T32Far, InWindow, Within
<1> QED BY <1>1, Inductive, PTL
===============================================================================
