----------------------------- MODULE SeiToyAlt ------------------------------
(***************************************************************************)
(* The independent interpreter of the toy ISA (Sei/Isa/ToyAlt.lean), over  *)
(* natural numbers and a flat program, beside SeiToyIR: both run the same  *)
(* program with the same fuel, one instruction each at a time, and their   *)
(* canonical logs are compared as Sei/Drivers/ToyEquiv.lean does.  It has  *)
(* no memory: it prints a store, and stops at a load.                      *)
(***************************************************************************)
EXTENDS SeiToyIR

VARIABLES
  prog,     \* the program both run
  altPc, altRegs, altHalted,
  log,      \* the lines printed
  altFuel

\* The comparison's machine, whose code is a ROM at the bottom of memory: code
\* is not written, and lies further from the top of memory than a jump back
\* reaches below zero.  Register numbers are words.
ASSUME FlatAssumption ==
  /\ RegCount <= Modulus
  /\ \A r \in Regions : "x" \in r.perms =>
       "w" \notin r.perms /\ r.base + r.size <= Modulus - 2 * ImmMod

altVars == <<altPc, altRegs, altHalted, log, altFuel>>
allVars == <<vars, prog, altVars>>

Line(kind, at, val) == [line |-> kind, at |-> at, val |-> val]

-----------------------------------------------------------------------------
AltWord == IF altPc \div 4 < Len(prog) THEN prog[altPc \div 4 + 1] ELSE 0
AltInst == Decode(AltWord)
\* Mutant: a negative immediate is added as if it were positive.
AddImmUnsigned(base, imm) == (base + imm) % Modulus
AddImm(base, imm) ==
  (base + (IF 2 * imm >= ImmMod THEN Modulus - ImmMod + imm ELSE imm)) % Modulus
\* Subtraction of naturals stops at zero.
Back(from, by) == IF by > from THEN 0 ELSE from - by
AltTarget(imm) == IF 2 * imm >= ImmMod THEN Back(altPc, (ImmMod - imm) * 4) ELSE altPc + imm * 4

AltRunning == ~altHalted /\ altFuel > 0

Prints(lines) ==
  log' = log \o <<Line("F", altPc, AltWord), Line("X", 0, AltInst.op)>> \o lines
AltWrite(v) ==
  /\ altRegs' = [altRegs EXCEPT ![AltInst.rd] = v]
  /\ Prints(<<Line("R", AltInst.rd, v)>>)
  /\ altPc' = altPc + 4
  /\ UNCHANGED altHalted
AltJump(to) == altPc' = to /\ Prints(<<>>) /\ UNCHANGED <<altRegs, altHalted>>

AltStep ==
  LET i == AltInst
      x == altRegs[i.rs]
      y == altRegs[i.rt]
  IN
  /\ AltRunning /\ altFuel' = altFuel - 1
  /\ \/ i.op = 1 /\ AltWrite(i.imm)
     \/ i.op = 2 /\ AltWrite((x + y) % Modulus)
     \/ i.op = 3 /\ AltWrite((x + (Modulus - (y % Modulus))) % Modulus)
     \/ i.op = 4 /\ AltWrite(AddImm(x, i.imm))
     \/ /\ i.op = 6
        /\ Prints(<<Line("W", AddImm(x, i.imm), altRegs[i.rd])>>)
        /\ altPc' = altPc + 4
        /\ UNCHANGED <<altRegs, altHalted>>
     \/ i.op = 7 /\ AltJump(IF x # 0 THEN AltTarget(i.imm) ELSE altPc + 4)
     \/ i.op = 8 /\ AltJump(AltTarget(i.imm))
     \/ /\ i.op \notin {1, 2, 3, 4, 6, 7, 8}
        /\ altHalted' = TRUE
        /\ altPc' = altPc + 4
        /\ Prints(<<>>)
        /\ UNCHANGED altRegs

-----------------------------------------------------------------------------
AltInit ==
  /\ altPc = 0
  /\ altRegs = [i \in RegIdx |-> 0]
  /\ altHalted = FALSE
  /\ log = <<>>
  /\ altFuel = MaxFuel

BothInit ==
  /\ prog \in Programs
  /\ \E policy \in Policies : mach = Loaded(prog, policy)
  /\ Init
  /\ AltInit

\* Each takes a step as long as it runs.
Next ==
  /\ UNCHANGED prog
  /\ \/ Step /\ AltStep
     \/ Step /\ ~AltRunning /\ UNCHANGED altVars
     \/ (halted \/ fuel = 0) /\ UNCHANGED vars /\ AltStep

BothSpec == BothInit /\ [][Next]_allVars

-----------------------------------------------------------------------------
(* Properties.                                                             *)

\* What each variable may hold.
TypeOK ==
  /\ pc \in Word /\ regs \in [RegIdx -> Word] /\ halted \in BOOLEAN
  /\ mach.mem \in [Mapped -> Byte] /\ mach.reads \in Nat /\ mach.icount \in 0 .. MaxFuel
  /\ mach.trace \in Seq([kind : Kinds \ {"ill_typed"}, at : Word, n : 0 .. 4, val : Word])
  /\ mach.policy \in Policies
  /\ fuel \in 0 .. MaxFuel /\ altFuel \in 0 .. MaxFuel
  /\ ended \in {"no", "fetch", "halt", "load", "store", "undefined"}
  /\ altPc \in Nat /\ altRegs \in [RegIdx -> Word] /\ altHalted \in BOOLEAN
  /\ log \in Seq([line : {"F", "X", "R", "W"}, at : Nat, val : Word])

\* The canonical line of an event that has one, and the lines of a trace in
\* which every event has, so that none is dropped: a run that fetched from its
\* program only, loaded nothing and stored to memory only.
CanonKinds == {"fetch", "exec", "reg", "memWrite"}
Canon(e) == CASE e.kind = "fetch"    -> Line("F", e.at, e.val)
              [] e.kind = "exec"     -> Line("X", 0, e.val)
              [] e.kind = "reg"      -> Line("R", e.at, e.val)
              [] e.kind = "memWrite" -> Line("W", e.at, e.val)
Plain(t) == \A k \in DOMAIN t : t[k].kind \in CanonKinds
CanonLines(t) == [k \in DOMAIN t |-> Canon(t[k])]

\* On a plain run the two interpreters, one in words that wrap and one in
\* natural numbers with a subtraction that stops at zero, print the same
\* lines and stop together.
SameLog ==
  Plain(mach.trace) => log = CanonLines(mach.trace) /\ altHalted = halted
=============================================================================
