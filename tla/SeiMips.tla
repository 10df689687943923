------------------------------ MODULE SeiMips ------------------------------
(***************************************************************************)
(* Control flow, exceptions, timer and load-linked state of the MIPS core  *)
(* (Sei/Isa/Mips.lean), MIPS32 and MIPS16e, under the most general         *)
(* firmware: which instruction is fetched, what its operands are, whether  *)
(* translation hits and whether the bus answers are arbitrary, so that     *)
(* each way an instruction can leave step and step16 is one action.        *)
(* General registers, memory, the FPU and the TLB (SeiMipsTlb) are left    *)
(* out; CP0 is kept as far as the core itself reads it, with EPC and BD.   *)
(*                                                                         *)
(* Assumed of the firmware: no jump is placed in the delay slot of another *)
(* one, which the architecture declares unpredictable.                     *)
(***************************************************************************)
EXTENDS Integers

CONSTANTS
  AddrSpace,  \* addresses are below this (2^32 in the code)
  VECTOR,     \* EXC_VECTOR
  Reset,      \* addresses execution may start at
  Target,     \* addresses jumps and writes to EPC may name
  CountMod,   \* COUNT wraps here (2^32 in the code)
  CountWrite, \* values the firmware may write to COUNT and COMPARE
  Lines,      \* interrupt lines: bits 8 to 15 of STATUS and CAUSE
  Timer,      \* the line of the timer, IP7
  None

VARIABLES
  pc, npc,  \* Cpu.pc and Cpu.npc; an odd pc is MIPS16e mode
  llbit,    \* Cpu.llbit
  count, compare,
  status,   \* CP0 STATUS: IE, EXL and the interrupt mask
  cause,    \* CP0 CAUSE: the pending lines and BD
  epc,
  halted,
  slotOf,   \* history: the jump in whose delay slot pc is, None elsewhere
  since,    \* history: which of a link, a trap or neither came last
  timerSet  \* history: the last step wrote COUNT, COMPARE or CAUSE

timerVars == <<count, compare>>
vars == <<pc, npc, llbit, timerVars, status, cause, epc, halted, slotOf, since, timerSet>>

Address == 0 .. AddrSpace - 1
Counts  == 0 .. CountMod - 1

Status == [ie : BOOLEAN, exl : BOOLEAN, im : SUBSET Lines]
Cause  == [ip : SUBSET Lines, bd : BOOLEAN]

ASSUME MipsAssumption ==
  /\ AddrSpace \in Nat /\ AddrSpace > 8 /\ AddrSpace % 4 = 0
  /\ VECTOR \in Address /\ VECTOR % 2 = 0
  /\ Reset \subseteq Address /\ \A a \in Reset : a % 2 = 0
  /\ Target \subseteq Address
  /\ CountMod \in Nat \ {0} /\ CountWrite \subseteq Counts
  /\ Timer \in Lines
  /\ None \notin Address

-----------------------------------------------------------------------------
Plus(a, k)  == IF a + k < AddrSpace THEN a + k ELSE a + k - AddrSpace
Minus(a, k) == IF a >= k THEN a - k ELSE a - k + AddrSpace

ModeInc(a) == IF a % 2 = 0 THEN 4 ELSE 2

Wide   == ~halted /\ pc % 2 = 0
Narrow == ~halted /\ pc % 2 = 1

\* enterException.  The slot is recognised by npc.
InDelay == npc # Plus(pc, 4)

\* Mutant: EPC is the faulting instruction, in a delay slot too.
EpcOfSlot == pc
EpcOfTrap == IF InDelay THEN Minus(pc, 4) ELSE pc

\* Mutant: an exception does not break the link of a load-linked.
EnterExceptionLinked(ip) ==
  /\ epc' = EpcOfTrap
  /\ cause' = [ip |-> ip, bd |-> InDelay]
  /\ status' = [status EXCEPT !.exl = TRUE]
  /\ pc' = VECTOR /\ npc' = Plus(VECTOR, 4)
  /\ slotOf' = None /\ since' = "trap"
  /\ UNCHANGED <<llbit, halted>>

EnterException(ip) ==
  /\ llbit' = FALSE
  /\ epc' = EpcOfTrap
  /\ cause' = [ip |-> ip, bd |-> InDelay]
  /\ status' = [status EXCEPT !.exl = TRUE]
  /\ pc' = VECTOR /\ npc' = Plus(VECTOR, 4)
  /\ slotOf' = None /\ since' = "trap"
  /\ UNCHANGED halted

\* timerAndIrq: COUNT and the pending lines after the tick of this step.
\* Mutants: COUNT is not truncated; COUNT stands still with interrupts off.
TickedWide == count + 1
TickedEnabled == IF status.ie THEN (count + 1) % CountMod ELSE count
Ticked == (count + 1) % CountMod

Raised == IF compare # 0 /\ Ticked = compare THEN cause.ip \cup {Timer} ELSE cause.ip

Fires == status.ie /\ ~status.exl /\ Raised \cap status.im # {}

Tick == count' = Ticked /\ UNCHANGED compare /\ timerSet' = FALSE

\* The next instruction in sequence, or the target after a slot.
Advance == /\ pc' = npc
           /\ npc' = Plus(npc, ModeInc(npc))
           /\ slotOf' = None
           /\ UNCHANGED halted

-----------------------------------------------------------------------------
(* MIPS32.  Every step ticks first, and may then take an interrupt.        *)

Interrupt == /\ Wide /\ Fires
             /\ Tick
             /\ EnterException(Raised)

Step == Wide /\ ~Fires

\* Only the pending lines of CP0 change.
Latch == cause' = [cause EXCEPT !.ip = Raised] /\ UNCHANGED <<status, epc>>

\* Arithmetic, loads and stores that succeed, SYNC, CACHE, WAIT, MFC0, TLB
\* instructions, branches not taken, traps whose condition is false, and SC
\* without a link.
Plain == Step /\ Tick /\ Latch /\ Advance /\ UNCHANGED <<llbit, since>>

\* SYSCALL, BREAK, overflow, conditional traps, translation misses of fetch,
\* load and store, and stores the bus refuses.
Trap == Step /\ Tick /\ EnterException(Raised)

\* A fetch or load the bus refuses, and reserved instructions.
Halt == /\ Step /\ Tick /\ Latch
        /\ halted' = TRUE
        /\ UNCHANGED <<pc, npc, llbit, slotOf, since>>

\* Jumps, taken branches and taken likely branches.
Branch(t) == /\ Step /\ Tick /\ Latch
             /\ slotOf = None
             /\ pc' = npc /\ npc' = t
             /\ slotOf' = IF t = Plus(npc, 4) THEN None ELSE pc
             /\ UNCHANGED <<llbit, halted, since>>

\* A likely branch that is not taken: the slot is skipped.
Annul == /\ Step /\ Tick /\ Latch
         /\ slotOf = None
         /\ pc' = Plus(npc, ModeInc(npc))
         /\ npc' = Plus(pc', ModeInc(pc'))
         /\ UNCHANGED <<llbit, halted, slotOf, since>>

LoadLinked == /\ Step /\ Tick /\ Latch /\ Advance
              /\ llbit' = TRUE /\ since' = "link"

\* A store-conditional that stores.
StoreConditional == /\ Step /\ Tick /\ Latch /\ Advance
                    /\ llbit
                    /\ llbit' = FALSE /\ since' = "none"

WriteStatus == /\ Step /\ Tick /\ Advance
               /\ status' \in Status
               /\ cause' = [cause EXCEPT !.ip = Raised]
               /\ UNCHANGED <<llbit, epc, since>>

WriteCause == /\ Step /\ Advance
              /\ cause' \in Cause
              /\ count' = Ticked /\ timerSet' = TRUE
              /\ UNCHANGED <<compare, llbit, status, epc, since>>

WriteEpc == /\ Step /\ Tick /\ Advance
            /\ epc' \in Target
            /\ cause' = [cause EXCEPT !.ip = Raised]
            /\ UNCHANGED <<llbit, status, since>>

WriteCount == /\ Step /\ Latch /\ Advance
              /\ count' \in CountWrite /\ timerSet' = TRUE
              /\ UNCHANGED <<compare, llbit, since>>

\* Writing COMPARE acknowledges the timer.
WriteCompare == /\ Step /\ Advance
                /\ count' = Ticked /\ compare' \in CountWrite /\ timerSet' = TRUE
                /\ cause' = [cause EXCEPT !.ip = Raised \ {Timer}]
                /\ UNCHANGED <<llbit, status, epc, since>>

\* ERET always expects MIPS32 code behind EPC and leaves the link alone.
Eret == /\ Step /\ Tick
        /\ status' = [status EXCEPT !.exl = FALSE]
        /\ cause' = [cause EXCEPT !.ip = Raised]
        /\ pc' = epc /\ npc' = Plus(epc, 4)
        /\ slotOf' = None
        /\ UNCHANGED <<llbit, epc, halted, since>>

Step32 == \/ Interrupt \/ Plain \/ Trap \/ Halt \/ Annul
          \/ \E t \in Target : Branch(t)
          \/ LoadLinked \/ StoreConditional
          \/ WriteStatus \/ WriteCause \/ WriteEpc \/ WriteCount \/ WriteCompare
          \/ Eret

-----------------------------------------------------------------------------
(* MIPS16e: no tick, no interrupt and no CP0 instructions.                 *)

NoTick == UNCHANGED timerVars /\ timerSet' = FALSE

Untouched == NoTick /\ UNCHANGED <<llbit, status, cause, epc, since>>

Plain16 == Narrow /\ Advance /\ Untouched

\* Translation misses of fetch, load and store, and refused loads and stores.
Trap16 == Narrow /\ EnterException(cause.ip) /\ NoTick

Halt16 == /\ Narrow /\ Untouched
          /\ halted' = TRUE
          /\ UNCHANGED <<pc, npc, slotOf>>

\* Branches, JRC, JALRC and RESTORE have no slot.
Branch16(t) == /\ Narrow /\ Untouched
               /\ pc' = t /\ npc' = Plus(t, ModeInc(t))
               /\ slotOf' = None
               /\ UNCHANGED halted

\* JR has one.
JumpRegister16(t) == /\ Narrow /\ Untouched
                     /\ slotOf = None
                     /\ pc' = npc /\ npc' = t
                     /\ slotOf' = pc
                     /\ UNCHANGED halted

\* JAL and JALX, two halfwords and a slot; so does an extended JR.
JumpLink16(t) == /\ Narrow /\ Untouched
                 /\ slotOf = None
                 /\ pc' = Plus(pc, 4) /\ npc' = t
                 /\ slotOf' = pc
                 /\ UNCHANGED halted

\* An instruction with EXTEND prefix goes on behind itself, slot or not.
Extended16 == /\ Narrow /\ Untouched
              /\ pc' = Plus(pc, 4)
              /\ npc' = Plus(pc', ModeInc(pc'))
              /\ slotOf' = None
              /\ UNCHANGED halted

Step16 == \/ Plain16 \/ Trap16 \/ Halt16 \/ Extended16
          \/ \E t \in Target : Branch16(t) \/ JumpRegister16(t) \/ JumpLink16(t)

-----------------------------------------------------------------------------
Init == /\ pc \in Reset /\ npc = Plus(pc, 4)
        /\ llbit = FALSE
        /\ count = 0 /\ compare = 0
        /\ status = [ie |-> FALSE, exl |-> FALSE, im |-> {}]
        /\ cause = [ip |-> {}, bd |-> FALSE]
        /\ epc = 0
        /\ halted = FALSE
        /\ slotOf = None /\ since = "none" /\ timerSet = FALSE

Next == Step32 \/ Step16

\* runMips steps the core until it halts.
Spec == Init /\ [][Next]_vars /\ WF_vars(Next)

-----------------------------------------------------------------------------
(* Properties.                                                             *)

\* Every variable keeps its type.
TypeOK == /\ pc \in Address /\ npc \in Address /\ epc \in Address
          /\ llbit \in BOOLEAN /\ halted \in BOOLEAN
          /\ count \in Counts /\ compare \in Counts
          /\ status \in Status /\ cause \in Cause
          /\ slotOf \in Address \cup {None}
          /\ since \in {"none", "link", "trap"} /\ timerSet \in BOOLEAN

\* The two program counters, EPC and BD implement precise exceptions: a trap
\* or interrupt in a delay slot restarts the branch, everywhere else it
\* restarts the instruction itself, and ERET resumes there.
InSlot == slotOf # None /\ pc % 2 = 0

Flow == INSTANCE PreciseFlow WITH
  Vector <- VECTOR, Nowhere <- None,
  at   <- IF InSlot THEN slotOf ELSE pc,
  dest <- IF InSlot THEN npc ELSE None,
  ret  <- epc,
  slot <- cause.bd

ImplementsPreciseFlow == Flow!Spec

\* A store-conditional stores only when a load-linked came after the last
\* exception: no exception entry, of whichever kind, leaves a link alive.
LinkedStore == [][StoreConditional => since = "link"]_vars

\* While MIPS32 code runs and leaves the timer alone, a timer that is set
\* does raise its line, whatever else happens and whether interrupts are
\* enabled or not, and the line stays pending until the firmware acknowledges.
TimerFires ==
  <>[](pc % 2 = 0 /\ ~halted /\ compare # 0 /\ ~timerSet) => <>[](Timer \in cause.ip)

\* MIPS16e code has no delay slots but those of JR and JAL (the documentation
\* says none at all): outside of them an exception does not set BD and records
\* the instruction itself.
PreciseIn16 == [][Trap16 /\ slotOf = None => epc' = pc /\ ~cause'.bd]_vars
=============================================================================
