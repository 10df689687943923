----------------------------- MODULE SeiToyPair -----------------------------
(***************************************************************************)
(* The direct interpreter of the toy ISA beside the one over lowered       *)
(* blocks, as Sei/Drivers/IRExp.lean runs them: each has a copy of the     *)
(* machine and the same fuel. One instruction of each at a time.           *)
(***************************************************************************)
EXTENDS SeiToyIR

VARIABLES directPc, directRegs, directHalted, directMach, directFuel

directVars == <<directPc, directRegs, directHalted, directMach, directFuel>>
pairVars   == <<vars, directVars>>

Direct == INSTANCE SeiToy WITH
  pc <- directPc, regs <- directRegs, halted <- directHalted,
  mach <- directMach, fuel <- directFuel

Stopped       == halted \/ fuel = 0
DirectStopped == directHalted \/ directFuel = 0

PairInit == Init /\ directMach = mach /\ Direct!Init

\* Each takes a step as long as it runs.
PairNext ==
  /\ IF Stopped THEN UNCHANGED vars ELSE Step
  /\ IF DirectStopped THEN UNCHANGED directVars ELSE Direct!Next

PairSpec == PairInit /\ [][PairNext]_pairVars

-----------------------------------------------------------------------------
(* Properties.                                                             *)

\* The direct interpreter has recorded an event of this kind.
Recorded(kind) == \E k \in DOMAIN directMach.trace : directMach.trace[k].kind = kind

\* What step (Toy.lean:35) and stepIR (IR.lean:152) agree on after the same number of
\* instructions, whatever the program, the memory map and the policies for unknown
\* accesses: registers, memory, device reads, whether the program has stopped and, with
\* every instruction defined, the events in their order. With every access served too
\* they are at one place and have counted the same instructions.
SameRun ==
  /\ regs = directRegs /\ halted = directHalted /\ fuel = directFuel
  /\ mach.mem = directMach.mem /\ mach.reads = directMach.reads
  /\ ~ Recorded("unsupported") => mach.trace = directMach.trace
  /\ ~ Recorded("unsupported") /\ ~ Recorded("data_abort") =>
       pc = directPc /\ mach.icount = directMach.icount

\* IR.lean:6-7: the interpreter "emits the SAME typed `Effect` alphabet as the direct ISA
\* interpreters - so direct and IR execution produce identical event logs".
EventLogsIdentical == Stopped /\ DirectStopped => mach.trace = directMach.trace
=============================================================================
