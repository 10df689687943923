----------------------------- MODULE SeiVectors -----------------------------
(***************************************************************************)
(* The golden vectors: five scripts under tools/ ask an oracle what single *)
(* instructions do and write the answers to a corpus, and three drivers of *)
(* src/Sei/Drivers replay the corpus on SEI's step functions. A script     *)
(* keeps a Python list of register values that it may change between two   *)
(* calls; an oracle that raises makes the script drop the vector; a driver *)
(* compares only what the vector stores.                                   *)
(*                                                                         *)
(* A check is a check of a step function with one fault, so that what the  *)
(* corpus can and cannot tell apart is a question about this module.       *)
(***************************************************************************)
EXTENDS VectorWords, Sequences, FiniteSets

CONSTANTS Tools,           \* the scripts considered
          Dropped,         \* sets of vector groups an oracle may refuse altogether
          FaultNames       \* the kinds of fault considered

Mips   == INSTANCE MipsCorpus
Arm    == INSTANCE ArmCorpus
Thumb  == INSTANCE ThumbCorpus
T32    == INSTANCE T32Corpus
Narrow == INSTANCE NarrowCorpus

ASSUME ToolsAssumption == Tools \subseteq {"mips", "a32", "t16", "t32", "narrow"}

VARIABLES tool,            \* the script that runs
          dropped,         \* the groups its oracle refuses
          lists,           \* the contents of every list the script has made
          corpus,          \* the entries written so far
          at,              \* how many calls of the script have been made
          fault,           \* the fault of the step function checked
          verdict          \* what the driver says of it

vars == <<tool, dropped, lists, corpus, at, fault, verdict>>

Alone(sets) == [i \in 1 .. Len(sets) |-> Fresh(Mips!Base, sets[i])]
Plan(t) == CASE t = "mips"   -> Alone(Mips!MipsPlan)
             [] t = "a32"    -> Arm!ArmPlan
             [] t = "t16"    -> Thumb!ThumbPlan
             [] t = "t32"    -> T32!T32Plan
             [] t = "narrow" -> Alone(Narrow!NarrowPlan)

-----------------------------------------------------------------------------
(***************************************************************************)
(* Conditions and addresses.                                               *)
(***************************************************************************)

\* Whether a condition holds of the flags n, z, c and v.
Holds(cond, f) ==
  LET n == f[1] = 1  z == f[2] = 1  c == f[3] = 1  v == f[4] = 1
      base == CASE cond \div 2 = 0 -> z      [] cond \div 2 = 1 -> c
                [] cond \div 2 = 2 -> n      [] cond \div 2 = 3 -> v
                [] cond \div 2 = 4 -> c /\ ~ z
                [] cond \div 2 = 5 -> n = v  [] cond \div 2 = 6 -> n = v /\ ~ z
                [] OTHER -> TRUE
  IN  IF cond % 2 = 1 /\ cond # 15 THEN ~ base ELSE base

Listed(rlist) == { i \in 0 .. 15 : (rlist \div 2 ^ i) % 2 = 1 }
Span(first, n) == first .. first + n - 1

\* The bits P, U, W and L and the base register of an A32 load or store.
PBit(w) == Bits(w[1], 256, 2)
UBit(w) == Bits(w[1], 128, 2)
WBit(w) == Bits(w[1], 32, 2)
LBit(w) == Bits(w[1], 16, 2)
Rn(w)   == w[1] % 16

\* Where a load or store with this offset starts: the base itself when post-indexed.
Indexed(v, offset) ==
  LET base == v.regs.over[Rn(v.insn)]
  IN  IF PBit(v.insn) = 0 THEN base
      ELSE IF UBit(v.insn) = 1 THEN base + offset ELSE base - offset

\* The bytes a word or byte transfer, a halfword, signed or dual transfer and a block
\* transfer touch.
LdstBytes(v) ==
  LET w == v.insn
      byRegister == Bits(w[1], 512, 2) = 1
      shifted == IF Bits(w[2], 32, 4) = 0 THEN v.regs.over[2] * 4 ELSE v.regs.over[2] \div 4
  IN  Span(Indexed(v, IF byRegister THEN shifted ELSE w[2] % 4096),
           IF Bits(w[1], 64, 2) = 1 THEN 1 ELSE 4)
XldstBytes(v) ==
  LET w == v.insn
      op2 == Bits(w[2], 32, 4)
      offset == IF Bits(w[1], 64, 2) = 1 THEN Bits(w[2], 256, 16) * 16 + (w[2] % 16)
                                         ELSE v.regs.over[4]
  IN  Span(Indexed(v, offset),
           CASE op2 = 1 -> 2 [] op2 = 2 /\ LBit(w) = 1 -> 1 [] op2 = 3 /\ LBit(w) = 1 -> 2
             [] OTHER -> 8)
LdmBytes(v) ==
  LET w == v.insn
      n == Cardinality(Listed(w[2]))
      base == v.regs.over[Rn(w)]
      first == IF UBit(w) = 1 THEN base + 4 * PBit(w) ELSE base - 4 * n + 4 * (1 - PBit(w))
  IN  Span(first, 4 * n)

\* VLDR and VSTR are indexed without writeback; the others move a block of words.
VfpBytes(v) ==
  LET w == v.insn
      words == w[2] % 256
      base == v.regs.over[Rn(w)]
  IN  IF PBit(w) = 1 /\ WBit(w) = 0
      THEN Span(Indexed(v, 4 * words), IF Bits(w[2], 256, 2) = 1 THEN 8 ELSE 4)
      ELSE Span(IF UBit(w) = 1 THEN base ELSE base - 4 * words, 4 * words)

ArmBytes(v) == CASE v.group = "ldst"  -> LdstBytes(v)
                 [] v.group = "xldst" -> XldstBytes(v)
                 [] v.group = "ldm"   -> LdmBytes(v)
                 [] v.group = "vfp"   -> VfpBytes(v)

\* PUSH and STMIA of T16: the words below the stack pointer, the words from the base.
ThumbBytes(v) ==
  LET half == v.insn[1]
      n == Cardinality(Listed(half % 256)) + (IF v.group = "push" THEN (half \div 256) % 2 ELSE 0)
  IN  IF v.group = "push" THEN Span(v.regs.over[13] - 4 * n, 4 * n)
                          ELSE Span(v.regs.over[0], 4 * n)

\* The T32 forms: the base is named in the first halfword, and so is the size of a single
\* transfer. Those with an offset of 8 bits have P and W in the second halfword.
T32Field(v, first) == v.insn[1] \div 16 = first
T32Load(v)         == Bits(v.insn[1], 16, 2) = 1
T32Rd(v)           == Bits(v.insn[2], 256, 16)
T32Size(v)         == 2 ^ Bits(v.insn[1], 32, 4)
InList(v)          == Rn(v.insn) \in Listed(v.insn[2])
T32Bytes(v) ==
  LET low  == v.insn[2]
      base == v.regs.over[Rn(v.insn)]
      words == 4 * Cardinality(Listed(low))
  IN  CASE v.group = "imm12"     -> Span(base + (low % 4096), T32Size(v))
        [] v.group = "offset"    ->
             Span(base + v.regs.over[low % 16] * 2 ^ Bits(low, 16, 4), T32Size(v))
        [] v.group = "imm8"      -> Span(base + Bits(low, 1024, 2) * (low % 256), T32Size(v))
        [] v.group = "dual"      -> Span(base + 4 * (low % 256), 8)
        [] v.group = "exclusive" -> Span(base + 4 * (low % 256), 4)
        [] v.group = "block"     ->
             Span(IF T32Field(v, \hE92) \/ T32Field(v, \hE93) THEN base - words ELSE base, words)

-----------------------------------------------------------------------------
(***************************************************************************)
(* The oracle (external). It refuses what raises an exception or leaves    *)
(* the memory the script mapped, and the groups it does not implement.     *)
(***************************************************************************)

\* The condition of a MIPS trap; registers drawn at random are taken to differ.
TrapTaken(v) ==
  LET w == v.insn
      imm == SignExtend(Imm(w))
      code == IF v.group = "trap-r" THEN Funct(w) - \h30 ELSE Rt(w) - 8
      known == Mips!Known(v, Rs(w)) /\ (v.group = "trap-i" \/ Mips!Known(v, Rt(w)))
      a == Mips!Reg(v, Rs(w))
      b == IF v.group = "trap-r" THEN Mips!Reg(v, Rt(w)) ELSE imm
  IN  IF ~ known THEN code = 6 /\ Rs(w) # Rt(w)
      ELSE CASE code = 0 -> a >= b        [] code = 1 -> ~ Below(a, b)
             [] code = 2 -> a < b         [] code = 3 -> Below(a, b)
             [] code = 4 -> a = b         [] code = 6 -> a # b

\* The base a T16 load or store of "mem_rt" really uses: r1, unless the list was
\* overwritten by the value to store.
ThumbUnmapped(v) ==
  \/ v.group = "mem_rt" /\ v.regs.over[1] = W(\hAABB, \hCCDD)
  \/ v.group = "b_uncond" /\ v.insn[1] % 2048 = \h7FD
  \/ v.group = "bl" /\ v.insn[1] % 2048 >= \h3FF

\* What is no instruction (a MUL, SDIV, UDIV or CLZ without its fixed bits), a block transfer
\* with its base in the list, and a branch to below the code.
T32Undefined(v) ==
  LET low == v.insn[2] IN
  \/ T32Field(v, \hFB0) /\ Bits(low, 16, 16) = 15
  \/ v.group \in {"div", "clz"} /\ low \div 4096 # 15
  \/ v.group = "block" /\ InList(v)
  \/ v.group \in {"b", "bl"} /\ Bits(v.insn[1], 1024, 2) = 1 /\ low % 2048 < \h7FE

Answers(v) ==
  /\ v.group \notin dropped
  /\ tool = "mips" /\ v.group \in {"trap-r", "trap-i"} => ~ TrapTaken(v)
  /\ tool = "t16" => ~ ThumbUnmapped(v)
  /\ tool = "t32" => ~ T32Undefined(v)
-----------------------------------------------------------------------------
(***************************************************************************)
(* What a driver compares. Locations are classes: "base" is the register   *)
(* that holds the address of a MIPS memory vector, "cmp" the flags of      *)
(* FPSCR, "t" the instruction set state.                                   *)
(***************************************************************************)
MipsCompared(v) == {"gpr", "hi", "lo"} \cup v.saved \cup (IF v.based THEN {} ELSE {"base"})
ArmCompared(v) ==
  {"gpr", "pc", "nzcv"} \cup (IF v.window THEN {"mem"} ELSE {})
                        \cup (IF v.group = "vfp" THEN {"fpr", "cmp"} ELSE {})
ThumbCompared(v) == {"gpr", "pc", "nzcv"} \cup (IF v.seeded > 0 THEN {"mem"} ELSE {})
NarrowCompared(v) == {"gpr", "pc", "nzcv", "fpr", "cmp"}

Compared(v) == CASE tool = "mips" -> MipsCompared(v)   [] tool = "a32" -> ArmCompared(v)
                 [] tool \in {"t16", "t32"} -> ThumbCompared(v)
                 [] tool = "narrow" -> NarrowCompared(v)

\* BLTZALL and BGEZALL, which write the return address.
Links(v) == v.group = "regimm" /\ Rt(v.insn) \in {\h12, \h13}

\* What a correct step function leaves different from the oracle, as the two run MIPS
\* code and data at different addresses. The emitter translates a link it knows of.
Moved(v) ==
  IF tool # "mips" THEN {}
  ELSE (IF Links(v) /\ ~ v.link THEN {"gpr"} ELSE {})
       \cup (IF Mips!MEM_BASE \in DOMAIN v.regs.over THEN {"base"} ELSE {})

\* The registers an entry names in the end: its own copy, or what the list now holds.
Recorded(e) == IF e.list = 0 THEN e.ask.regs ELSE lists[e.list]

-----------------------------------------------------------------------------
(***************************************************************************)
(* Faults of the step functions: a name and a condition code. Each changes *)
(* one instruction, and Altered says where the result then differs.        *)
(***************************************************************************)
Never(cond)  == <<"never", cond>>
Always(cond) == <<"always", cond>>
Named(names) == { <<n, 0>> : n \in names }
OfConditions(conds) == { Never(c) : c \in conds } \cup { Always(c) : c \in conds }

\* What Arm.lean itself gets wrong in T32: SDIV divides as Int does, the list of a block
\* transfer has LR once as one of r0 to r14 and once more, and the forms of LDRSB and LDRSH
\* with an offset of 8 bits or a register take the sign from another bit of the opcode.
OwnFaults == Named({ "sdiv_not_truncated", "lr_listed_twice", "ldrs_offset_unsigned" })

FaultsOf(t) ==
  CASE t = "mips" -> Named({ "sll_modulo_16", "sra_logical", "addiu_zero_extends",
                             "mthi_writes_lo", "madd_replaces", "link_missing", "sb_stores_word",
                             "lb_zero_extends", "sw_no_store", "teq_never_traps",
                             "beql_keeps_slot" })
    [] t = "a32"  -> OfConditions(0 .. 13) \cup
                     Named({ "ldmdb_as_ib", "ldmda_as_ia", "writeback_lost", "offset_of_8_bits",
                             "bx_keeps_state", "vcmp_ordered" })
    [] t = "t16"  -> OfConditions(0 .. 13) \cup
                     Named({ "stmia_no_store", "push_no_store", "cbnz_as_cbz", "ldr_lit_rd",
                             "ldr_lit_offset" })
    [] t = "t32"  -> OfConditions(0 .. 13) \cup
                     Named({ "cond_bits_exchanged", "rt_as_rd", "far_store_lost",
                             "ldrs_zero_extends", "imm8_not_subtracted", "moved_base_lost",
                             "block_upward", "listed_base_moved", "strex_unconditional",
                             "mul_adds", "clz_wrong", "udiv_wrong", "shift_by_zero",
                             "imm_not_rotated", "imm_carry_lost", "movt_clears", "usat_as_ssat" })
                     \cup OwnFaults
    [] t = "narrow" -> Named({ "minimum_not_clamped", "short_shift" })

SpecialR(w, funct) == Op(w) = 0 /\ Funct(w) = funct
KnownReg(v, i, val) == Mips!Known(v, i) /\ Mips!Reg(v, i) = val

MipsAltered(name, v) ==
  LET w == v.insn IN
  CASE name = "sll_modulo_16" ->
         IF SpecialR(w, 0) /\ Sa(w) >= 16 /\ KnownReg(v, Rt(w), 1) THEN {"gpr"} ELSE {}
    [] name = "sra_logical" ->
         IF SpecialR(w, 3) /\ Sa(w) > 0 /\ Mips!Known(v, Rt(w)) /\ Mips!Reg(v, Rt(w)) < 0
         THEN {"gpr"} ELSE {}
    [] name = "addiu_zero_extends" -> IF Op(w) = 9 /\ Imm(w) >= \h8000 THEN {"gpr"} ELSE {}
    [] name = "mthi_writes_lo" ->
         IF SpecialR(w, \h11) /\ Mips!Known(v, Rs(w)) /\ Mips!Reg(v, Rs(w)) # 0
         THEN {"hi", "lo"} ELSE {}
    [] name = "madd_replaces" -> IF v.group = "madd" /\ v.acc # <<0, 0>> THEN {"hi", "lo"} ELSE {}
    [] name = "link_missing" -> IF Links(v) THEN {"gpr"} ELSE {}
    [] name = "sb_stores_word" ->
         IF Op(w) = \h28 /\ v.data = 0 /\ KnownReg(v, Rt(w), W(\h1234, \h5678)) THEN {"mem"} ELSE {}
    [] name = "lb_zero_extends" ->
         IF Op(w) = \h20 /\ v.data = W(\hDEAD, \hBEEF) THEN {"gpr"} ELSE {}
    [] name = "sw_no_store" -> IF Op(w) = \h2B THEN {"mem"} ELSE {}
    [] name = "teq_never_traps" ->
         IF v.group = "trap-r" /\ Funct(w) = \h34 /\ TrapTaken(v) THEN {"pc"} ELSE {}
    [] name = "beql_keeps_slot" -> IF Op(w) = \h14 THEN {"pc"} ELSE {}

\* An instruction that a condition decides changes a register or the PC, as the
\* vectors' values are chosen.
Decided(f, cond, v) ==
  cond = f[2] /\ IF f[1] = "never" THEN Holds(cond, v.nzcv) ELSE ~ Holds(cond, v.nzcv)

ArmAltered(f, v) ==
  LET w == v.insn
      name == f[1] IN
  CASE name \in {"never", "always"} ->
         IF Decided(f, w[1] \div 4096, v) THEN {IF v.group = "branch" THEN "pc" ELSE "gpr"} ELSE {}
    [] name = "ldmdb_as_ib" ->
         IF v.group = "ldm" /\ PBit(w) = 1 /\ UBit(w) = 0 THEN {"gpr"} ELSE {}
    [] name = "ldmda_as_ia" ->
         IF v.group = "ldm" /\ PBit(w) = 0 /\ UBit(w) = 0 THEN {"gpr"} ELSE {}
    [] name = "writeback_lost" ->
         IF v.group \in {"ldst", "xldst"} /\ (PBit(w) = 0 \/ WBit(w) = 1) THEN {"gpr"} ELSE {}
    [] name = "offset_of_8_bits" ->
         IF v.group = "ldst" /\ Bits(w[1], 512, 2) = 0 /\ w[2] % 4096 >= 256 /\ LBit(w) = 0
            /\ (Indexed(v, w[2] % 4096) \in Arm!WIN_LO .. Arm!WIN_HI - 1)
         THEN {"mem"} ELSE {}
    [] name = "bx_keeps_state" ->
         IF v.group = "branch" /\ w[2] \div 16 = \hFF1 /\ v.regs.over[w[2] % 16] % 2 = 1
         THEN {"t"} ELSE {}
    [] name = "vcmp_ordered" ->
         IF v.group = "vfp" /\ \E i \in DOMAIN v.sregs : v.sregs[i] = W(\h7FC0, 0)
         THEN {"cmp"} ELSE {}

\* The code page of a T16 vector is zero after the instruction.
Literal(offset) == IF offset < 4 THEN 1 ELSE 0
Captured == Thumb!MEM .. Thumb!MEM + Thumb!MEMSIZE - 1

ThumbAltered(f, v) ==
  LET half == v.insn[1]
      name == f[1] IN
  CASE name \in {"never", "always"} ->
         IF v.group = "bcond" /\ Decided(f, (half \div 256) % 16, v) THEN {"pc"} ELSE {}
    [] name \in {"stmia_no_store", "push_no_store"} ->
         IF /\ half \div 2048 = (IF name = "push_no_store" THEN \h16 ELSE \h18)
            /\ v.group \in {"push", "stmia"} /\ ThumbBytes(v) \cap Captured # {}
         THEN {"mem"} ELSE {}
    [] name = "cbnz_as_cbz" ->
         IF half \div 4096 = 11 /\ (half \div 2048) % 2 = 1 /\ (half \div 256) % 2 = 1
            /\ v.group \in {"cbz", "cbnz"}
         THEN {"pc"} ELSE {}
    [] name = "ldr_lit_rd" -> IF v.group = "ldr_lit" THEN {"gpr"} ELSE {}
    [] name = "ldr_lit_offset" ->
         IF v.group = "ldr_lit" /\ Literal(4 + 4 * (half % 256)) # Literal(8 + 4 * (half % 256))
         THEN {"gpr"} ELSE {}

\* Where the division of Int in Lean, which leaves no negative remainder, and one that
\* truncates differ.
QuotientDiffers(a, b) == a < 0 /\ b # 0 /\ a % (IF b < 0 THEN - b ELSE b) # 0

\* Memory starts as the bytes 0, 1, 2 and so on, and a load is negative by its last byte.
LoadedNegative(v) ==
  (v.regs.over[Rn(v.insn)] + (v.insn[2] % 4096) + T32Size(v) - 1 - Thumb!MEM) % 256 >= 128
T32Stored(v) == IF T32Bytes(v) \cap Captured # {} THEN {"mem"} ELSE {}
T32Altered(f, v) ==
  LET hw1 == v.insn[1]
      low == v.insn[2]
      name == f[1]
      Gpr(cond) == IF cond THEN {"gpr"} ELSE {}
      imm12 == Bits(hw1, 1024, 2) * 2048 + Bits(low, 4096, 8) * 256 + (low % 256)
      shift == Bits(low, 4096, 8) * 4 + Bits(low, 64, 4)
      div == v.group = "div"
  IN
  CASE name \in {"never", "always"} ->
         IF v.group = "bcond" /\ Decided(f, Bits(hw1, 64, 16), v) THEN {"pc"} ELSE {}
    [] name = "cond_bits_exchanged" ->
         IF v.group = "bcond" /\ Bits(low, 8192, 2) # Bits(low, 2048, 2) THEN {"pc"} ELSE {}
    [] name = "rt_as_rd" ->
         IF v.group = "imm12" /\ low \div 4096 # T32Rd(v)
         THEN IF T32Load(v) THEN {"gpr"} ELSE T32Stored(v)
         ELSE {}
    [] name = "far_store_lost" ->
         IF v.group = "imm12" /\ ~ T32Load(v) /\ low % 4096 >= 256 THEN T32Stored(v) ELSE {}
    [] name = "ldrs_zero_extends" ->
         Gpr(v.group = "imm12" /\ hw1 \div 256 = \hF9 /\ LoadedNegative(v))
    [] name = "imm8_not_subtracted" -> Gpr(v.group = "imm8" /\ Bits(low, 512, 2) = 0)
    [] name = "moved_base_lost" ->
         Gpr(v.group = "imm8" /\ Bits(low, 256, 2) = 1 /\ low % 256 # 0)
    [] name = "block_upward" -> Gpr(T32Field(v, \hE92) \/ T32Field(v, \hE93))
    [] name = "listed_base_moved" -> Gpr(v.group = "block" /\ InList(v))
    [] name = "strex_unconditional" -> IF T32Field(v, \hE84) THEN {"gpr", "mem"} ELSE {}
    [] name = "mul_adds" -> Gpr(T32Field(v, \hFB0) /\ low \div 4096 = 15)
    [] name = "clz_wrong" -> Gpr(v.group = "clz")
    [] name = "udiv_wrong" -> Gpr(div /\ T32Field(v, \hFBB))
    [] name = "sdiv_not_truncated" ->
         Gpr(div /\ T32Field(v, \hFB9) /\ QuotientDiffers(v.regs.over[1], v.regs.over[2]))
    [] name = "lr_listed_twice" -> Gpr(v.group = "block" /\ 14 \in Listed(low))
    [] name = "ldrs_offset_unsigned" -> Gpr(v.group \in {"imm8", "offset"} /\ hw1 \div 256 = \hF9)
    [] name = "shift_by_zero" -> Gpr(v.group = "dp_reg" /\ Bits(low, 16, 4) # 0 /\ shift = 0)
    [] name = "imm_not_rotated" -> Gpr(v.group = "dp_imm" /\ imm12 >= \h400 /\ T32Rd(v) # 15)
    [] name = "imm_carry_lost" ->
         IF v.group = "dp_imm" /\ imm12 \div 128 = 8
            /\ Bits(hw1, 16, 2) = 1 /\ Bits(hw1, 32, 16) < 5 /\ v.nzcv[3] = 0
         THEN {"nzcv"} ELSE {}
    [] name = "movt_clears" -> Gpr(v.group = "movt")
    [] name = "usat_as_ssat" -> Gpr(v.group = "usat" /\ v.regs.over[1] < 0)

\* VQMOVN to a signed result, and the immediate shifts: the amount is 32 less the field.
NarrowAltered(name, v) ==
  CASE name = "minimum_not_clamped" ->
         IF v.insn[2] = Narrow!EncMisc(2, 5, 0, 0)[2]
            /\ \E i \in DOMAIN v.regs.over : v.regs.over[i] < - (2 ^ (v.esize - 1))
         THEN {"fpr"} ELSE {}
    [] name = "short_shift" ->
         IF v.insn[2] % 32 = \h12 /\ v.esize = 16 /\ 32 - (v.insn[1] % 64) <= 8
         THEN {"fpr"} ELSE {}

Altered(f, v) ==
  IF f[1] = "none" THEN {}
  ELSE CASE tool = "mips" -> MipsAltered(f[1], v)  [] tool = "a32" -> ArmAltered(f, v)
         [] tool = "t16" -> ThumbAltered(f, v)     [] tool = "t32" -> T32Altered(f, v)
         [] tool = "narrow" -> NarrowAltered(f[1], v)

\* A comparison of an entry fails on another input than the oracle's, on a result that
\* differs though both are right, and on a fault.
Fails(f, e) ==
  \/ Recorded(e) # e.ask.regs
  \/ (Moved(e.ask) \cup Altered(f, e.ask)) \cap Compared(e.ask) # {}

-----------------------------------------------------------------------------
Sound == <<"none", 0>>
Ended == at = Len(Plan(tool))

Init ==
  /\ tool \in Tools
  /\ dropped \in Dropped
  /\ lists = <<>>
  /\ corpus = {}
  /\ at = 0
  /\ fault = Sound
  /\ verdict = "none"

\* Mutant: the entry names a list one past the last.
StoredNext(v, held) == [ask |-> v, list |-> IF v.kept = "copy" THEN 0 ELSE Len(held) + 1]

\* An entry keeps a copy of the list, or the list itself.
Stored(v, held) == [ask |-> v, list |-> IF v.kept = "copy" THEN 0 ELSE Len(held)]

\* The script's next call: its list, made or changed in place, and what the oracle
\* answers. What the oracle refuses leaves no trace.
Generate ==
  /\ ~ Ended
  /\ LET entry == Plan(tool)[at + 1]
         held  == IF entry.new THEN Append(lists, entry.list)
                               ELSE [lists EXCEPT ![Len(lists)] = entry.list]
     IN  /\ lists' = held
         /\ corpus' = corpus \cup { Stored(v, held) : v \in { a \in entry.asked : Answers(a) } }
  /\ at' = at + 1
  /\ UNCHANGED <<tool, dropped, fault, verdict>>

\* A driver replays the whole corpus on a step function.
Check ==
  /\ Ended
  /\ \E f \in {Sound} \cup { g \in FaultsOf(tool) : g[1] \in FaultNames } :
       /\ fault' = f
       /\ verdict' = IF \E e \in corpus : Fails(f, e) THEN "fail" ELSE "pass"
  /\ UNCHANGED <<tool, dropped, lists, corpus, at>>

Next == Generate \/ Check
Spec == Init /\ [][Next]_vars
-----------------------------------------------------------------------------
(***************************************************************************)
(* Properties.                                                             *)
(***************************************************************************)

\* What each variable may hold.
TypeOK ==
  /\ tool \in Tools
  /\ dropped \in Dropped
  /\ at \in Nat
  /\ Len(lists) <= at
  /\ \A e \in corpus : e.list \in 0 .. Len(lists)
  /\ verdict \in {"none", "pass", "fail"}

\* The inputs an entry names in the corpus are the inputs its outputs were computed from,
\* however the script changed its list since (gen_vectors.py vec and bvec copy the list
\* before they call the oracle; thumb_gen.py's BL keeps the list itself).
InputsFrozen == \A e \in corpus : Recorded(e) = e.ask.regs

\* A sound step function never fails its check, although MIPS vectors run at other
\* addresses there than in the oracle (mips_oracle.py emit_link and emit_mem).
NoFalseAlarm == fault = Sound => verdict # "fail"

\* The faults no vector shows. BEQL, and a trap that is taken, only move the PC, which
\* MIPS vectors do not hold; the oracle refuses the trap besides. No vector is an SW, an
\* LDMDA, a CBNZ or a shift of words by 8 or less. PUSH stores outside the bytes captured,
\* LDR (literal) reads only zeros, and the T bit of a BX is not stored. Of T32, every
\* multiplication with four bits set too many, division, CLZ and base in a list is refused;
\* no list has LR and no signed load a register or a short offset;
\* conditional branches are of one length, far stores fall beside the bytes captured, every
\* byte loaded is below 128, no offset is negative and no shift by zero asks for a type.
Unseen(t) ==
  CASE t = "mips" -> Named({"sw_no_store", "teq_never_traps", "beql_keeps_slot"})
    [] t = "a32"  -> { Never(c) : c \in {3, 4} \cup 6 .. 13 } \cup
                     { Always(c) : c \in {3, 6, 7, 9, 10, 12, 13} } \cup
                     Named({"ldmda_as_ia", "bx_keeps_state"})
    [] t = "t16"  -> Named({"push_no_store", "cbnz_as_cbz", "ldr_lit_offset"})
    [] t = "t32"  -> Named({"cond_bits_exchanged", "far_store_lost", "ldrs_zero_extends",
                            "imm8_not_subtracted", "listed_base_moved", "clz_wrong",
                            "udiv_wrong", "shift_by_zero"}) \cup OwnFaults
    [] t = "narrow" -> Named({"short_shift"})

\* When the oracle answers for every group, a check fails on exactly the faults that the
\* choice of instructions, operands and flags in the scripts makes visible.
FaultsFound ==
  verdict # "none" /\ dropped = {} /\ fault # Sound =>
    (verdict = "fail" <=> fault \notin Unseen(tool))

\* README.md:73: "Every implemented instruction is covered by Unicorn-generated test vectors".
\* If it were, a check would show what the core gets wrong.
OwnFaultsShown == verdict # "none" /\ fault \in OwnFaults => verdict = "fail"

\* What the architectures leave open: the oracle's answer would be its own choice.
MipsOpen(v) ==
  LET w == v.insn
      rs == Mips!Reg(v, Rs(w))  rt == Mips!Reg(v, Rt(w)) IN
  \/ /\ SpecialR(w, \h1A) \/ SpecialR(w, \h1B)              \* DIV, DIVU
     /\ \/ ~ Mips!Known(v, Rt(w)) \/ rt = 0
        \/ Funct(w) = \h1A /\ rs = W(\h8000, 0) /\ rt = -1
  \/ Op(w) = \h1F /\ Funct(w) = 0 /\ Sa(w) + Rd(w) > 31     \* EXT
  \/ Op(w) = \h1F /\ Funct(w) = 4 /\ Rd(w) < Sa(w)          \* INS
  \/ Op(w) \in {\h21, \h25, \h29} /\ Imm(w) % 2 # 0         \* halfwords
  \/ Op(w) = \h11 /\ Rs(w) \in {16, 17} /\ Funct(w) = 4     \* SQRT of a negative number
     /\ v.fprs[IF Rs(w) = 17 THEN Rd(w) + 1 ELSE Rd(w)] < 0
ArmOpen(v) ==
  LET w == v.insn IN
  \/ v.group = "dp" /\ Bits(w[1], 32, 16) \in 8 .. 11 /\ Bits(w[1], 16, 2) = 0
  \/ v.group \in {"ldst", "xldst"} /\ PBit(w) = 0 /\ WBit(w) = 1
  \/ v.group \in {"ldst", "xldst"} /\ (PBit(w) = 0 \/ WBit(w) = 1) /\ w[2] \div 4096 = Rn(w)
  \/ v.group = "xldst" /\ LBit(w) = 0 /\ Bits(w[2], 32, 4) > 1 /\ (w[2] \div 4096) % 2 = 1
  \/ v.group = "ldm" /\ WBit(w) = 1 /\ Rn(w) \in Listed(w[2])
T32Open(v) ==
  \/ v.group = "block" /\ (InList(v) \/ Cardinality(Listed(v.insn[2])) < 2)
  \/ v.group = "imm8" /\ Bits(v.insn[2], 256, 2) = 1 /\ v.insn[2] \div 4096 = Rn(v.insn)
  \/ v.group = "mull" /\ v.insn[2] \div 4096 = T32Rd(v)
  \/ T32Field(v, \hE84) /\ T32Rd(v) \in {v.insn[2] \div 4096, Rn(v.insn)}
  \/ v.group \in {"mul", "mull", "extend", "ssat", "usat", "bitfield"} /\ T32Rd(v) \in {13, 15}
NarrowOpen(v) ==
  v.insn[2] % 32 = \h12 /\ ~ (v.insn[1] % 64 \in v.esize .. 2 * v.esize - 1)
Open(v) == CASE tool = "mips" -> MipsOpen(v) [] tool = "a32" -> ArmOpen(v)
             [] tool = "t32" -> T32Open(v)  [] tool = "narrow" -> NarrowOpen(v) [] OTHER -> FALSE

\* No entry rests on a result the architecture leaves open.
DefinedResults == Ended => \A e \in corpus : ~ Open(e.ask)

\* Every byte an A32 vector loads or stores is one the script seeds and captures, and
\* every byte T16 STMIA stores is captured, and every byte a T32 vector loads or stores but
\* for those at an offset of 256 and more: no store is compared nowhere.
AccessesCaptured ==
  Ended => \A e \in corpus :
    /\ tool = "a32" /\ e.ask.window => ArmBytes(e.ask) \subseteq Arm!WIN_LO .. Arm!WIN_HI - 1
    /\ tool = "t16" /\ e.ask.group = "stmia" => ThumbBytes(e.ask) \subseteq Captured
    /\ tool = "t32" /\ e.ask.seeded > 0 /\ ~ (e.ask.group = "imm12" /\ e.ask.insn[2] % 4096 >= 256)
         => T32Bytes(e.ask) \subseteq Captured
=============================================================================
