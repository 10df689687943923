------------------------------- MODULE SeiArm -------------------------------
(***************************************************************************)
(* Exceptions, register banking, IT blocks and runs of the ARM core        *)
(* (src/Sei/Isa/Arm.lean), with the stop reasons of the runner and the     *)
(* checkpoints of sei_cli. The firmware is any sequence of instructions:   *)
(* one action per kind of instruction that touches this state.             *)
(*                                                                         *)
(* r0 to r12 and the flags but Z are left out, and so is memory. The modes *)
(* are those entered by an exception the firmware can meet.                *)
(***************************************************************************)
EXTENDS Integers, Sequences, FiniteSets

CONSTANTS AddrMod,     \* code addresses wrap here
          ThumbSizes,  \* the sizes of a Thumb instruction, of 2 and 4
          Targets,     \* where a branch may go
          Sps,         \* values of a stack pointer
          Kinds,       \* the exceptions that occur
          Blocks,      \* the IT instructions: first condition and mask
          Psrs,        \* what the firmware writes to the control field of the CPSR
          Fuel,        \* bound: instructions of all runs together
          MaxRuns,     \* bound: runs of the program
          MaxDepth     \* bound: exceptions on the frame stack

\* "zero" is none of the architecture's: the mode in an SPSR never written.
Modes == {"svc", "und", "abt", "irq", "fiq", "zero"}

ASSUME BoundsAssumption ==
  /\ AddrMod \in Nat /\ AddrMod > 28                        \* the vectors are addresses
  /\ Fuel \in Nat /\ MaxRuns \in Nat \ {0} /\ MaxDepth \in Nat
  /\ Targets \subseteq 0 .. AddrMod - 1 /\ ThumbSizes \subseteq {2, 4}
  /\ Kinds \subseteq {"undef", "swi", "dabt", "irq", "fiq"}
  /\ Blocks \subseteq (0 .. 15) \X (0 .. 15)
  /\ Psrs \subseteq [mode : Modes \ {"zero"}, iMask : BOOLEAN, fMask : BOOLEAN, tbit : BOOLEAN]

VARIABLES cpu,         \* the Cpu record
          unknown,     \* Machine.hasUnknown
          trace,       \* the kinds of event in the run's trace that stop reasons look at
          fuel,        \* instructions left of the bound
          report,      \* the stop reason of the last run, "none" while it runs
          file,        \* the checkpoint on disk
          runs,        \* how many runs there were
          frames,      \* history: what each exception interrupted, the latest first
          arch,        \* history: ITSTATE as the architecture has it
          astray,      \* history: the IT state left the architecture's way
          kept,        \* history: the state when the checkpoint was written
          prior        \* history: the reason last reported of the state this run started in

run  == <<report, runs, prior>>
hist == <<frames, arch, astray>>
disk == <<file, kept>>
vars == <<cpu, unknown, trace, fuel, report, file, runs, frames, arch, astray, kept,
          prior>>

None == [none |-> TRUE]

-----------------------------------------------------------------------------
(***************************************************************************)
(* The Cpu record.                                                         *)
(***************************************************************************)

ModeOf(kind) == CASE kind = "undef" -> "und" [] kind = "swi" -> "svc" [] kind = "dabt" -> "abt"
                  [] kind = "irq" -> "irq"   [] kind = "fiq" -> "fiq"
Vector(kind) == CASE kind = "undef" -> 4 [] kind = "swi" -> 8 [] kind = "dabt" -> 16
                  [] kind = "irq" -> 24  [] kind = "fiq" -> 28

Psr == [mode : Modes, iMask : BOOLEAN, fMask : BOOLEAN, tbit : BOOLEAN, z : BOOLEAN]
ZeroPsr == [mode |-> "zero", iMask |-> FALSE, fMask |-> FALSE, tbit |-> FALSE, z |-> FALSE]

\* IT[7:0]: the first condition and the mask.
NoIT == <<0, 0>>

\* Mutant: code addresses do not wrap.
PlusUnbounded(a, n) == a + n
Plus(a, n) == (a + n) % AddrMod

Reset(thumb) ==
  [ mode |-> "svc", iMask |-> TRUE, fMask |-> TRUE, tbit |-> thumb, z |-> FALSE, it |-> NoIT,
    pc |-> 0, sp |-> 0, lr |-> 0, bank |-> [m \in Modes |-> [sp |-> 0, lr |-> 0]],
    spsr |-> [m \in Modes |-> ZeroPsr], irq |-> FALSE, fiq |-> FALSE, halted |-> FALSE,
    blocked |-> FALSE, excl |-> FALSE ]

\* The outgoing mode's r13 and r14 are banked and the incoming mode's restored.
SwitchMode(c, mode) ==
  IF mode = c.mode THEN c
  ELSE [c EXCEPT !.bank[c.mode] = [sp |-> c.sp, lr |-> c.lr],
                 !.sp = c.bank[mode].sp, !.lr = c.bank[mode].lr, !.mode = mode]

PackCpsr(c) == [ mode |-> c.mode, iMask |-> c.iMask, fMask |-> c.fMask, tbit |-> c.tbit, z |-> c.z ]
UnpackCpsr(c, s) ==
  [SwitchMode(c, s.mode) EXCEPT !.iMask = s.iMask, !.fMask = s.fMask, !.tbit = s.tbit, !.z = s.z]

\* Mutant: the SPSR is saved when the interrupts are masked already.
TakeExceptionSavedLate(c, kind, ret) ==
  LET mode == ModeOf(kind)
      masked == [c EXCEPT !.iMask = TRUE, !.fMask = (kind = "fiq") \/ c.fMask]
  IN  [SwitchMode([masked EXCEPT !.spsr[mode] = PackCpsr(masked)], mode) EXCEPT
         !.lr = ret, !.pc = Vector(kind), !.tbit = FALSE]

\* Mutant: FIQ is masked and IRQ is not.
TakeExceptionUnmasked(c, kind, ret) ==
  LET mode == ModeOf(kind)
      saved == [c EXCEPT !.spsr[mode] = PackCpsr(c)]
  IN  [SwitchMode(saved, mode) EXCEPT
         !.lr = ret, !.fMask = (kind = "fiq") \/ c.fMask, !.pc = Vector(kind), !.tbit = FALSE]

\* Neither the IT state nor the exclusive monitor is saved or cleared.
TakeException(c, kind, ret) ==
  LET mode == ModeOf(kind)
      saved == [c EXCEPT !.spsr[mode] = PackCpsr(c)]
  IN  [SwitchMode(saved, mode) EXCEPT
         !.lr = ret, !.iMask = TRUE, !.fMask = (kind = "fiq") \/ c.fMask,
         !.pc = Vector(kind), !.tbit = FALSE]

\* The IT state: the condition of the next instruction and the state after it.
Holds(c, cond) == IF cond % 2 = 0 THEN c.z ELSE ~ c.z          \* EQ and NE
Cond(it) == IF it[2] >= 8 THEN it[1] ELSE IF it[1] % 2 = 0 THEN it[1] + 1 ELSE it[1] - 1
\* Mutant: the mask is not shifted.
NextITUnshifted(it) == IF it[2] % 8 = 0 THEN NoIT ELSE it

NextIT(it) == IF it[2] % 8 = 0 THEN NoIT ELSE <<it[1], (it[2] * 2) % 16>>

-----------------------------------------------------------------------------
(***************************************************************************)
(* The histories. A frame is what an exception interrupted. It is intact   *)
(* while nothing overwrites the registers that hold it, still while        *)
(* nothing touches the IT state, and masked until a CPS unmasks IRQ.       *)
(***************************************************************************)
Context(c) == [ psr |-> PackCpsr(c), sp |-> c.sp, lr |-> c.lr ]

\* What writing SP, or LR and SPSR, of a mode does to the frames.
SpWritten(fs, mode) ==
  [i \in DOMAIN fs |-> [fs[i] EXCEPT !.intact = @ /\ fs[i].ctx.psr.mode # mode]]
LrWritten(fs, mode) ==
  [i \in DOMAIN fs |-> [fs[i] EXCEPT !.intact = @ /\ mode \notin {fs[i].mode, fs[i].ctx.psr.mode}]]

\* The architecture moves the mask into the low bit of the condition.
ArchNext(it) ==
  IF it[2] % 8 = 0 THEN NoIT
  ELSE << (it[1] \div 2) * 2 + it[2] \div 8, (it[2] * 2) % 16 >>

\* The blocks whose conditions the code takes as the architecture does: one instruction,
\* or all "then" under a condition with its low bit set.
Faithful(b) == b[2] = 8 \/ (b[1] % 2 = 1 /\ b[2] \in {12, 14, 15})

\* The frames fs with that of a new exception that finds the processor as c, and overwrites
\* its mode's LR and SPSR.
Pushed(fs, c, kind, resume, it, ait) ==
  << [ kind |-> kind, mode |-> ModeOf(kind), ctx |-> Context(c), resume |-> resume, it |-> it,
       ait |-> ait, intact |-> TRUE, still |-> TRUE, masked |-> TRUE ] >>
  \o LrWritten(fs, ModeOf(kind))

-----------------------------------------------------------------------------
(***************************************************************************)
(* The runner: a run has as much fuel as its user gives it, and its stop   *)
(* reason is computed when it ends.                                        *)
(***************************************************************************)
Init ==
  /\ cpu \in { Reset(t) : t \in BOOLEAN }
  /\ unknown = FALSE
  /\ trace = {}
  /\ fuel = Fuel
  /\ report = "none"
  /\ file = None
  /\ runs = 1
  /\ frames = <<>>
  /\ arch = NoIT
  /\ astray = FALSE
  /\ kept = None
  /\ prior = "none"

Running == report = "none" /\ fuel > 0 /\ ~ cpu.halted
Spend == fuel' = fuel - 1 /\ UNCHANGED <<report, runs, prior>>

FiqDue == cpu.fiq /\ ~ cpu.fMask
IrqDue == cpu.irq /\ ~ cpu.iMask

\* An interrupt is taken between two instructions, FIQ first.
Interrupt(kind) ==
  /\ Running
  /\ kind \in Kinds
  /\ Len(frames) < MaxDepth
  /\ kind = (IF FiqDue THEN "fiq" ELSE "irq")
  /\ FiqDue \/ IrqDue
  /\ cpu' = TakeException(IF kind = "fiq" THEN [cpu EXCEPT !.fiq = FALSE]
                                          ELSE [cpu EXCEPT !.irq = FALSE],
                          kind, Plus(cpu.pc, 4))
  /\ frames' = Pushed(frames, cpu, kind, cpu.pc, cpu.it, arch)
  /\ arch' = NoIT
  /\ Spend
  /\ UNCHANGED <<unknown, trace, astray, disk>>

\* An instruction is fetched; in Thumb state an IT block may make it a skip.
Fetches == Running /\ ~ FiqDue /\ ~ IrqDue
InBlock == cpu.tbit /\ cpu.it[2] # 0
Skips == InBlock /\ ~ Holds(cpu, Cond(cpu.it))
Executes == Fetches /\ ~ Skips

\* Thumb instructions have 2 or 4 bytes, A32 instructions 4.
Sizes == IF cpu.tbit THEN ThumbSizes ELSE {4}

\* A handler in Thumb state meets the IT state of what it interrupted.
Stale == cpu.tbit /\ frames # <<>> /\ (cpu.it = NoIT) # (arch = NoIT)
ThumbRan(fs) == IF cpu.tbit THEN [i \in DOMAIN fs |-> [fs[i] EXCEPT !.still = FALSE]] ELSE fs

Skip ==
  /\ Fetches
  /\ Skips
  /\ \E n \in Sizes : cpu' = [cpu EXCEPT !.pc = Plus(@, n), !.it = NextIT(@)]
  /\ frames' = ThumbRan(frames)
  /\ arch' = ArchNext(arch)
  /\ astray' = (astray \/ Stale)
  /\ Spend
  /\ UNCHANGED <<unknown, trace, disk>>

\* What every executed instruction leaves: in a block the IT state moves on, unless the
\* instruction changed it.
Advanced(c) == IF InBlock /\ c.it = cpu.it THEN [c EXCEPT !.it = NextIT(@)] ELSE c
ArchAdvanced == IF cpu.tbit THEN ArchNext(arch) ELSE arch

\* An instruction that takes no exception: the registers it leaves, its events, what it
\* does to the frames, and the IT state the architecture gives.
Commit(c, events, fs, it, strays) ==
  /\ cpu' = Advanced(c)
  /\ trace' = trace \cup events
  /\ frames' = ThumbRan(fs)
  /\ arch' = it
  /\ astray' = (astray \/ Stale \/ strays)
  /\ Spend
  /\ UNCHANGED disk
Ordinary(c, fs) == Commit(c, {}, fs, ArchAdvanced, FALSE) /\ UNCHANGED unknown

-----------------------------------------------------------------------------
(***************************************************************************)
(* Instructions.                                                           *)
(***************************************************************************)

\* Arithmetic, loads and stores of r0 to r12; a conditional instruction not executed. A T16
\* block transfer whose accesses fault is no different: it goes on.
Straight ==
  /\ Executes
  /\ \E n \in Sizes, z \in BOOLEAN :
       Ordinary([cpu EXCEPT !.pc = Plus(@, n), !.z = z], frames)

SetSp ==
  /\ Executes
  /\ \E n \in Sizes, v \in Sps :
       Ordinary([cpu EXCEPT !.pc = Plus(@, n), !.sp = v], SpWritten(frames, cpu.mode))

\* LR, and SP with it when both are popped.
SetLr ==
  /\ Executes
  /\ \E n \in Sizes, v \in Targets, sp \in Sps \cup {cpu.sp} :
       Ordinary([cpu EXCEPT !.pc = Plus(@, n), !.lr = v, !.sp = sp],
                LrWritten(frames, cpu.mode))

\* A load or store where nothing is mapped, under the default-value policy.
UnknownAccess ==
  /\ Executes
  /\ \E n \in Sizes :
       Commit([cpu EXCEPT !.pc = Plus(@, n)], {"unknown"}, frames, ArchAdvanced, FALSE)
  /\ unknown' = TRUE

\* MRC of A32 from a coprocessor the core does not have: an event, no exception.
CoprocessorRead ==
  /\ Executes
  /\ ~ cpu.tbit
  /\ Commit([cpu EXCEPT !.pc = Plus(@, 4)], {"unsupported"}, frames, ArchAdvanced, FALSE)
  /\ UNCHANGED unknown

\* BL, and BX or BLX to either state. Bit 0 of a Thumb return address is set.
BranchLink ==
  /\ Executes
  /\ \E n \in Sizes, t \in Targets, thumb \in BOOLEAN :
       /\ t # cpu.pc
       /\ Ordinary([cpu EXCEPT !.pc = t, !.tbit = thumb,
                               !.lr = Plus(cpu.pc, n + (IF cpu.tbit THEN 1 ELSE 0))],
                   LrWritten(frames, cpu.mode))
Interwork ==
  /\ Executes
  /\ \E t \in Targets, thumb \in BOOLEAN :
       t # cpu.pc /\ Ordinary([cpu EXCEPT !.pc = t, !.tbit = thumb], frames)

\* A branch to itself is the frontier of the run.
SelfBranch ==
  /\ Executes
  /\ \/ Ordinary([cpu EXCEPT !.halted = TRUE, !.blocked = TRUE], frames)
     \/ Ordinary([cpu EXCEPT !.halted = TRUE, !.blocked = TRUE,
                             !.lr = Plus(cpu.pc, IF cpu.tbit THEN 5 ELSE 4)],       \* BL
                 LrWritten(frames, cpu.mode))

\* No instruction can be fetched: the processor halts, and the trace has a note.
FetchFault ==
  /\ Fetches
  /\ cpu' = IF Skips THEN [cpu EXCEPT !.halted = TRUE] ELSE Advanced([cpu EXCEPT !.halted = TRUE])
  /\ frames' = ThumbRan(frames)
  /\ astray' = (astray \/ InBlock)
  /\ Spend
  /\ UNCHANGED <<unknown, trace, arch, disk>>

IfThen ==
  /\ Executes
  /\ cpu.tbit
  /\ \E b \in Blocks :
       Commit([cpu EXCEPT !.pc = Plus(@, 2), !.it = b], {}, frames, b,
              \/ ~ Faithful(b)
              \/ InBlock                                    \* an IT in an IT block
              \/ \E i \in DOMAIN frames : frames[i].ait # NoIT)
  /\ UNCHANGED unknown

\* CPS of T16 sets one of the masks, both to the same value, or none.
Cps ==
  /\ Executes
  /\ cpu.tbit
  /\ \E i \in BOOLEAN, f \in BOOLEAN :
       /\ i = cpu.iMask \/ f = cpu.fMask \/ i = f
       /\ Ordinary([cpu EXCEPT !.pc = Plus(@, 2), !.iMask = i, !.fMask = f],
                   [j \in DOMAIN frames |-> [frames[j] EXCEPT !.masked = @ /\ i]])

\* MSR CPSR_c of A32. The firmware may go anywhere from here: the frames are given up.
Msr ==
  /\ Executes
  /\ ~ cpu.tbit
  /\ \E s \in Psrs :
       /\ cpu' = [SwitchMode(cpu, s.mode) EXCEPT
                    !.iMask = s.iMask, !.fMask = s.fMask, !.tbit = s.tbit, !.pc = Plus(@, 4)]
  /\ frames' = <<>>
  /\ astray' = (astray \/ \E i \in DOMAIN frames : frames[i].ait # NoIT \/ cpu.it # NoIT)
  /\ Spend
  /\ UNCHANGED <<unknown, trace, arch, disk>>

\* The exclusive monitor of T32: a load opens it, a store that succeeds closes it.
Ldrex ==
  /\ Executes
  /\ cpu.tbit
  /\ Ordinary([cpu EXCEPT !.pc = Plus(@, 4), !.excl = TRUE], frames)
Strex ==
  /\ Executes
  /\ cpu.tbit
  /\ Ordinary([cpu EXCEPT !.pc = Plus(@, 4), !.excl = FALSE], frames)

-----------------------------------------------------------------------------
(***************************************************************************)
(* Exceptions and returns.                                                 *)
(***************************************************************************)

\* SVC returns behind itself; an undefined instruction of A32 leaves an event and does
\* too. A data abort of A32 leaves the address of the instruction plus 8, and one of
\* Thumb the address of the next instruction. The exception finds the processor as c.
Raise(c, fs, kind, ret, resume, events, ait) ==
  /\ Executes
  /\ kind \in Kinds
  /\ Len(frames) < MaxDepth
  /\ cpu' = Advanced(TakeException(c, kind, ret))
  /\ frames' = Pushed(ThumbRan(fs), c, kind, resume,
                       IF InBlock THEN NextIT(cpu.it) ELSE cpu.it, ait)
  /\ trace' = trace \cup events
  /\ arch' = NoIT
  /\ astray' = (astray \/ Stale \/ (kind = "dabt" /\ InBlock))
  /\ Spend
  /\ UNCHANGED <<unknown, disk>>

Svc ==
  LET next == Plus(cpu.pc, IF cpu.tbit THEN 2 ELSE 4)
  IN  Raise(cpu, frames, "swi", next, next, {}, ArchAdvanced)
Undefined ==
  \/ /\ ~ cpu.tbit
     /\ Raise(cpu, frames, "undef", Plus(cpu.pc, 4), Plus(cpu.pc, 4), {"unsupported"}, arch)
  \/ /\ Executes
     /\ cpu.tbit
     /\ Commit([cpu EXCEPT !.halted = TRUE], {"unsupported"}, frames, ArchAdvanced, FALSE)
     /\ UNCHANGED unknown
  \/ /\ cpu.tbit                                                                     \* UDF
     /\ Raise(cpu, frames, "undef", Plus(cpu.pc, 2), Plus(cpu.pc, 2), {}, ArchAdvanced)

\* A block transfer of A32 that faults has written its base back and loaded what it could,
\* SP and LR among them.
Abort ==
  \/ \E n \in Sizes :
       Raise(cpu, frames, "dabt", Plus(cpu.pc, IF cpu.tbit THEN n ELSE 8), cpu.pc, {}, arch)
  \/ /\ ~ cpu.tbit
     /\ \E sp \in Sps : Raise([cpu EXCEPT !.sp = sp], SpWritten(frames, cpu.mode),
                              "dabt", Plus(cpu.pc, 8), cpu.pc, {}, arch)
  \/ /\ ~ cpu.tbit
     /\ \E sp \in Sps \cup {cpu.sp}, v \in Targets :
          Raise([cpu EXCEPT !.sp = sp, !.lr = v], LrWritten(frames, cpu.mode),
                "dabt", Plus(cpu.pc, 8), cpu.pc, {}, arch)

\* SUBS pc, lr, #n and LDM ..., pc}^ of A32: the CPSR is restored from the mode's SPSR. A
\* handler that lost its exception's registers goes astray: the frames are given up.
Return(n) ==
  /\ Executes
  /\ ~ cpu.tbit
  /\ cpu' = [UnpackCpsr(cpu, cpu.spsr[cpu.mode]) EXCEPT !.pc = Plus(cpu.lr, AddrMod - n)]
  /\ frames' = IF frames = <<>> THEN <<>> ELSE IF Head(frames).intact THEN Tail(frames) ELSE <<>>
  /\ arch' = IF frames = <<>> THEN NoIT ELSE Head(frames).ait
  /\ astray' = (astray \/ IF frames = <<>> THEN cpu.it # NoIT
                          ELSE ~ Head(frames).intact \/ Head(frames).it # cpu.it)
  /\ Spend
  /\ UNCHANGED <<unknown, trace, disk>>

-----------------------------------------------------------------------------
(***************************************************************************)
(* Runs, drivers and checkpoints.                                          *)
(***************************************************************************)

\* Mutant: an unknown access counts only when this process's trace has it.
StopReasonOfTrace ==
  CASE "unsupported" \in trace -> "unsupportedInstr"
    [] OTHER -> CASE cpu.blocked -> "blockedFrontier" [] ~ cpu.blocked /\ cpu.halted -> "halted"
                  [] ~ cpu.blocked /\ ~ cpu.halted /\ "unknown" \in trace -> "unknownMmio"
                  [] OTHER -> "fuelExhausted"

\* An unsupported instruction anywhere in the run's trace decides; then the flags do.
StopReason ==
  CASE "unsupported" \in trace -> "unsupportedInstr"
    [] OTHER -> CASE cpu.blocked -> "blockedFrontier" [] ~ cpu.blocked /\ cpu.halted -> "halted"
                  [] ~ cpu.blocked /\ ~ cpu.halted /\ unknown -> "unknownMmio"
                  [] OTHER -> "fuelExhausted"

\* The run's fuel is used up, or the processor halted and the rest of it does nothing.
End ==
  /\ report = "none"
  /\ report' = StopReason
  /\ UNCHANGED <<cpu, unknown, trace, fuel, runs, prior, hist, disk>>

\* A driver (external) runs the machine it holds again, with interrupts pending and,
\* outside a handler, unmasked.
Rerun ==
  /\ report # "none"
  /\ file = None                       \* a process that writes a checkpoint ends there
  /\ runs < MaxRuns
  /\ \E i \in BOOLEAN, f \in BOOLEAN, open \in BOOLEAN :
       /\ open => frames = <<>>
       /\ cpu' = [cpu EXCEPT !.irq = i, !.fiq = f, !.iMask = @ /\ ~ open, !.fMask = @ /\ ~ open]
  /\ prior' = report
  /\ report' = "none"
  /\ runs' = runs + 1
  /\ UNCHANGED <<unknown, trace, fuel, hist, disk>>

\* Mutant: the saved CPSRs are not written either.
SerialisedBare(c) ==
  [c EXCEPT !.it = NoIT, !.excl = FALSE, !.spsr = [m \in Modes |-> ZeroPsr]]

\* What a checkpoint holds of the processor, read back: neither the IT state nor the
\* exclusive monitor. The trace is not saved, that an access was unknown is.
Serialised(c) == [c EXCEPT !.it = NoIT, !.excl = FALSE]
Now == [ cpu |-> cpu, unknown |-> unknown, frames |-> frames, arch |-> arch,
         astray |-> astray, report |-> report ]
Save ==
  /\ report # "none"
  /\ file' = [cpu |-> Serialised(cpu), unknown |-> unknown]
  /\ kept' = Now
  /\ UNCHANGED <<cpu, unknown, trace, fuel, run, hist>>

\* Another process resumes the checkpoint, however far this one went on.
Resume ==
  /\ file # None
  /\ report # "none"
  /\ runs < MaxRuns
  /\ cpu' = file.cpu
  /\ unknown' = file.unknown
  /\ trace' = {}
  /\ report' = "none"
  /\ runs' = runs + 1
  /\ prior' = kept.report
  /\ frames' = [i \in DOMAIN kept.frames |->
                  [kept.frames[i] EXCEPT !.still = @ /\ kept.cpu.it = NoIT]]
  /\ arch' = kept.arch
  /\ astray' = (kept.astray \/ kept.cpu.it # NoIT)
  /\ UNCHANGED <<fuel, disk>>

Instruction ==
  \/ Skip \/ Straight \/ SetSp \/ SetLr \/ UnknownAccess \/ BranchLink \/ Interwork \/ SelfBranch
  \/ CoprocessorRead \/ FetchFault
  \/ IfThen \/ Cps \/ Msr \/ Ldrex \/ Strex \/ Svc \/ Undefined \/ Abort
  \/ \E n \in {0, 4, 8} : Return(n)

Next ==
  \/ Instruction
  \/ \E kind \in {"irq", "fiq"} : Interrupt(kind)
  \/ End \/ Rerun \/ Save \/ Resume

Spec == Init /\ [][Next]_vars

-----------------------------------------------------------------------------
(***************************************************************************)
(* Properties.                                                             *)
(***************************************************************************)
Address == 0 .. AddrMod - 1
Stack == Sps \cup {0}
ITState == (0 .. 15) \X (0 .. 15)
Bank == [sp : Stack, lr : Address]
Cpu == [ mode : Modes, iMask : BOOLEAN, fMask : BOOLEAN, tbit : BOOLEAN, z : BOOLEAN,
         it : ITState, pc : Address, sp : Stack, lr : Address, bank : [Modes -> Bank],
         spsr : [Modes -> Psr], irq : BOOLEAN, fiq : BOOLEAN, halted : BOOLEAN,
         blocked : BOOLEAN, excl : BOOLEAN ]
Reasons == {"unsupportedInstr", "blockedFrontier", "halted", "unknownMmio", "fuelExhausted"}

Frame == [ kind : Kinds, mode : Modes, ctx : [psr : Psr, sp : Stack, lr : Address],
           resume : Address, it : ITState, ait : ITState, intact : BOOLEAN, still : BOOLEAN,
           masked : BOOLEAN ]
Kept == [ cpu : Cpu, unknown : BOOLEAN, frames : Seq(Frame), arch : ITState,
          astray : BOOLEAN, report : Reasons ]

\* Every variable has its type. A processor that is blocked is halted, and an unknown
\* access in the trace is remembered.
TypeOK ==
  /\ cpu \in Cpu /\ (cpu.blocked => cpu.halted)
  /\ unknown \in BOOLEAN
  /\ trace \subseteq {"unsupported", "unknown"} /\ ("unknown" \in trace => unknown)
  /\ fuel \in 0 .. Fuel
  /\ report \in Reasons \cup {"none"}
  /\ prior \in Reasons \cup {"none"}
  /\ runs \in 1 .. MaxRuns
  /\ frames \in Seq(Frame)
  /\ arch \in ITState
  /\ astray \in BOOLEAN
  /\ \/ file = None /\ kept = None
     \/ /\ kept \in Kept /\ (kept.cpu.blocked => kept.cpu.halted)
        /\ file = [cpu |-> Serialised(kept.cpu), unknown |-> kept.unknown]

\* How far behind LR the architecture puts the instruction to resume at.
Offset(kind) == CASE kind \in {"irq", "fiq"} -> 4 [] kind = "dabt" -> 8 [] OTHER -> 0

\* Whatever ran in between, exceptions nested in it included, a handler that keeps the
\* registers of the exception and returns with the architecture's offset resumes what
\* was interrupted: the same address, mode, masks, state and Z, the SP and LR of that
\* mode and, after a handler in A32 state, its IT state. (Not so for a data abort taken
\* in Thumb state, which leaves the next instruction's address in LR: Arm.lean:882. The SP
\* and LR are those the exception found: a block transfer that aborts has written its base
\* back by then, Arm.lean:1951, and is run again from there.)
ReturnRestores ==
  [][ \A kind \in Kinds :
        LET f == Head(frames) IN
        ( /\ frames # <<>> /\ f.kind = kind /\ f.intact
          /\ ~ (kind = "dabt" /\ f.ctx.psr.tbit)
          /\ Return(Offset(kind)) )
        => /\ PackCpsr(cpu') = f.ctx.psr
           /\ cpu'.pc = f.resume
           /\ cpu'.sp = f.ctx.sp
           /\ f.mode # f.ctx.psr.mode => cpu'.lr = f.ctx.lr
           /\ f.still => cpu'.it = f.it ]_vars

\* An IRQ handler is entered again only after its firmware has unmasked IRQ, whatever
\* other exceptions it takes and returns from.
NoReentry ==
  \A i, j \in DOMAIN frames :
    i < j /\ frames[i].kind = "irq" /\ frames[j].kind = "irq" => ~ frames[j].masked

\* Through exceptions, skips, branches and other changes of state, the blocks the code
\* reads as the architecture does end where the architecture ends them and give each
\* instruction the condition it has there.
ITFollowsArchitecture ==
  ~ astray /\ frames = <<>> /\ cpu.tbit =>
    /\ (cpu.it = NoIT) = (arch = NoIT)
    /\ cpu.it # NoIT => Cond(cpu.it) = arch[1]

\* A run resumed from a checkpoint taken outside IT blocks, with the exclusive monitor
\* closed, starts in the state the checkpoint was taken in.
ResumeTransparent ==
  [][ Resume /\ kept.cpu.it = NoIT /\ ~ kept.cpu.excl
      => cpu' = kept.cpu /\ unknown' = kept.unknown ]_vars

\* A verdict stands when the state it was given for is run again, in the same process or
\* from a checkpoint: a stop remains that stop, and an unknown access is never forgotten.
\* (A checkpoint has no trace: resumed, an unsupported instruction is any other stop.)
VerdictStands ==
  report # "none" =>
    /\ prior \in {"halted", "blockedFrontier"} => report = prior
    /\ prior = "unknownMmio" => report # "fuelExhausted"
    /\ prior = "unsupportedInstr" => report = prior \/ "unsupported" \notin trace

\* "Save/load the full emulator state (Cpu + Machine) as a single JSON file, enabling
\* resumption" (Checkpoint.lean:2): a resumed run starts with the processor as it was.
ResumesWhereLeftOff == [][Resume => cpu' = kept.cpu]_vars
=============================================================================
