------------------------------- MODULE SeiToy -------------------------------
(***************************************************************************)
(* The direct interpreter of the toy ISA (Sei/Isa/Toy.lean, step and       *)
(* runToy), one action per instruction and outcome.  It is the reference   *)
(* that the interpreter over lowered code (SeiToyIR) has to follow.        *)
(***************************************************************************)
EXTENDS ToyMachine

VARIABLES
  pc,      \* Cpu.pc
  regs,    \* Cpu.regs
  halted,  \* Cpu.halted
  mach,    \* the Machine: memory, device, trace, icount, policies
  fuel     \* steps the run may still take

vars == <<pc, regs, halted, mach, fuel>>

Init ==
  /\ pc = 0
  /\ regs = [i \in RegIdx |-> 0]
  /\ halted = FALSE
  /\ mach \in Boot
  /\ fuel = MaxFuel

Fetched == Load(mach, pc, 4, "x")
Inst    == Decode(Fetched.val)
Begun   == Emit(Fetched.mach, Event("exec", pc, 0, Inst.op))
Address == Plus(regs[Inst.rs], SignExtend(Inst.imm))

Running    == ~halted /\ fuel > 0 /\ fuel' = fuel - 1
Decodes(op) == Running /\ Fetched.ok /\ Inst.op = op

GoOn == pc' = Plus(pc, 4) /\ UNCHANGED halted
\* rd takes v after the machine has got to m.
Write(m, v) ==
  /\ regs' = [regs EXCEPT ![Inst.rd] = v]
  /\ mach' = Retired(Emit(m, Event("reg", Inst.rd, 0, v)))
  /\ GoOn
JumpTo(target) ==
  /\ pc' = target
  /\ mach' = Retired(Begun)
  /\ UNCHANGED <<regs, halted>>
\* The program stops where it is, the machine having got to m.
StopAt(m) == halted' = TRUE /\ mach' = m /\ UNCHANGED <<pc, regs>>

FetchFault == Running /\ ~Fetched.ok /\ StopAt(Note(Fetched.mach, "fetch_fault"))

Halt ==
  /\ Decodes(0)
  /\ halted' = TRUE
  /\ pc' = Plus(pc, 4)
  /\ mach' = Retired(Begun)
  /\ UNCHANGED regs

Movi == Decodes(1) /\ Write(Begun, Inst.imm)
Add  == Decodes(2) /\ Write(Begun, Plus(regs[Inst.rs], regs[Inst.rt]))
Sub  == Decodes(3) /\ Write(Begun, Minus(regs[Inst.rs], regs[Inst.rt]))
Addi == Decodes(4) /\ Write(Begun, Address)

\* LDR loads four bytes, LDRB one.  A load that aborts is not counted.
LoadOf(op, n) ==
  LET got == Load(Begun, Address, n, "r") IN
  /\ Decodes(op)
  /\ \/ got.ok /\ Write(got.mach, got.val)
     \/ ~got.ok /\ StopAt(Note(got.mach, "data_abort"))

Ldr  == LoadOf(5, 4)
Ldrb == LoadOf(9, 1)

\* A store that aborts is counted.
Str ==
  LET got == Store(Begun, Address, 4, regs[Inst.rd]) IN
  /\ Decodes(6)
  /\ \/ got.ok /\ mach' = Retired(got.mach) /\ GoOn /\ UNCHANGED regs
     \/ ~got.ok /\ StopAt(Retired(Note(got.mach, "data_abort")))

Bnz ==
  /\ Decodes(7)
  /\ JumpTo(IF regs[Inst.rs] # 0 THEN BranchTo(pc, Inst.imm) ELSE Plus(pc, 4))

Branch == Decodes(8) /\ JumpTo(BranchTo(pc, Inst.imm))

Undefined ==
  /\ Running /\ Fetched.ok /\ Inst.op > 9
  /\ StopAt(Emit(Begun, Event("unsupported", pc, 0, Inst.op)))

Next == \/ FetchFault \/ Halt \/ Movi \/ Add \/ Sub \/ Addi
        \/ Ldr \/ Ldrb \/ Str \/ Bnz \/ Branch \/ Undefined

Spec == Init /\ [][Next]_vars
=============================================================================
