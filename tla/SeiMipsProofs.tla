--------------------------- MODULE SeiMipsProofs ---------------------------
(***************************************************************************)
(* Theorems about SeiMips, for every size of the address space and every   *)
(* set of jump targets: types, the links that a store-conditional uses,    *)
(* and the implementation of PreciseFlow.                                  *)
(***************************************************************************)
EXTENDS SeiMips, TLAPS

\* Where the two program counters stand: npc differs from pc + 4 in a MIPS32
\* slot and only there, and the branch of that slot is just before it.
Counters ==
  /\ pc % 2 = 0 /\ slotOf = None => npc = Plus(pc, 4)
  /\ pc % 2 = 0 /\ slotOf # None =>
       slotOf % 2 = 0 /\ pc = Plus(slotOf, 4) /\ npc # Plus(pc, 4)
  /\ pc % 2 = 1 /\ slotOf = None => npc % 2 = 1

\* A link is alive only when nothing but its load-linked came last.
Linked == llbit => since = "link"

IInv == TypeOK /\ Counters /\ Linked

-----------------------------------------------------------------------------
(* Address arithmetic.                                                     *)

LEMMA Parity ==
  ASSUME NEW a \in Nat
  PROVE  a % 2 = 0 \/ a % 2 = 1
OBVIOUS

LEMMA PlusAddress ==
  ASSUME MipsAssumption, NEW a \in Address
  PROVE  /\ Plus(a, 2) \in Address /\ Plus(a, 2) % 2 = a % 2
         /\ Plus(a, 4) \in Address /\ Plus(a, 4) % 2 = a % 2
BY DEF MipsAssumption, Address, Plus

LEMMA MinusAddress ==
  ASSUME MipsAssumption, NEW a \in Address
  PROVE  Minus(a, 4) \in Address /\ Minus(Plus(a, 4), 4) = a
BY DEF MipsAssumption, Address, Plus, Minus

LEMMA PlusTwice ==
  ASSUME MipsAssumption, NEW a \in Address
  PROVE  Plus(Plus(a, 4), 4) = Plus(a, 8)
BY DEF MipsAssumption, Address, Plus

LEMMA ModeAddress ==
  ASSUME MipsAssumption, NEW a \in Address
  PROVE  /\ Plus(a, ModeInc(a)) \in Address
         /\ Plus(a, ModeInc(a)) % 2 = a % 2
         /\ a % 2 = 0 => Plus(a, ModeInc(a)) = Plus(a, 4)
BY PlusAddress DEF ModeInc

LEMMA TickedCount ==
  ASSUME MipsAssumption, count \in Counts
  PROVE  Ticked \in Counts
BY DEF MipsAssumption, Counts, Ticked

-----------------------------------------------------------------------------
(* The effects that several actions share.                                 *)

\* The variables that control flow consists of.
FlowType == /\ pc \in Address /\ npc \in Address
            /\ slotOf \in Address \cup {None} /\ halted \in BOOLEAN

LEMMA RaisedType ==
  ASSUME MipsAssumption, TypeOK
  PROVE  Raised \in SUBSET Lines
BY DEF MipsAssumption, TypeOK, Cause, Raised

\* An exception from anywhere leads to the first instruction of the handler.
LEMMA ExceptionEffect ==
  ASSUME MipsAssumption, TypeOK, NEW ip \in SUBSET Lines, EnterException(ip)
  PROVE  /\ FlowType' /\ Counters' /\ Linked'
         /\ llbit' \in BOOLEAN /\ epc' \in Address
         /\ status' \in Status /\ cause' \in Cause
         /\ since' \in {"none", "link", "trap"}
<1>1. VECTOR \in Address /\ VECTOR % 2 = 0 /\ None \notin Address
  BY DEF MipsAssumption
<1>2. Plus(VECTOR, 4) \in Address
  BY <1>1, PlusAddress
<1>3. FlowType' /\ Counters'
  BY <1>1, <1>2 DEF EnterException, FlowType, Counters, TypeOK
<1>4. epc' \in Address
  BY MinusAddress DEF EnterException, EpcOfTrap, TypeOK
<1>5. InDelay \in BOOLEAN
  BY DEF InDelay
<1>6. status' \in Status /\ cause' \in Cause
  BY <1>5 DEF EnterException, TypeOK, Status, Cause
<1> QED
  BY <1>3, <1>4, <1>6 DEF EnterException, Linked

\* Going on in sequence keeps the counters in step, into a slot, out of one
\* and across a change of mode.
LEMMA AdvanceEffect ==
  ASSUME MipsAssumption, TypeOK, Advance
  PROVE  FlowType' /\ Counters'
<1>1. npc \in Address /\ npc \in Nat
  BY DEF TypeOK, Address
<1>2. /\ Plus(npc, ModeInc(npc)) \in Address
      /\ Plus(npc, ModeInc(npc)) % 2 = npc % 2
      /\ npc % 2 = 0 => Plus(npc, ModeInc(npc)) = Plus(npc, 4)
  BY <1>1, ModeAddress
<1> QED
  BY <1>1, <1>2 DEF Advance, FlowType, Counters, TypeOK

\* What the instructions of MIPS32 that are no exceptions do to the rest.
LEMMA LatchType ==
  ASSUME MipsAssumption, TypeOK, Latch
  PROVE  status' \in Status /\ cause' \in Cause /\ epc' \in Address
BY RaisedType DEF Latch, TypeOK, Cause

LEMMA TickType ==
  ASSUME MipsAssumption, TypeOK, Tick
  PROVE  count' \in Counts /\ compare' \in Counts /\ timerSet' \in BOOLEAN
BY TickedCount DEF Tick, TypeOK

\* Type correctness, split as the effects are.
LEMMA TypeParts ==
  ASSUME FlowType', epc' \in Address, llbit' \in BOOLEAN,
         count' \in Counts, compare' \in Counts, status' \in Status,
         cause' \in Cause, since' \in {"none", "link", "trap"}, timerSet' \in BOOLEAN
  PROVE  TypeOK'
BY DEF FlowType, TypeOK

-----------------------------------------------------------------------------
(* The invariant.                                                          *)

LEMMA IInvInit ==
  ASSUME MipsAssumption, Init
  PROVE  IInv
<1>1. pc \in Address /\ pc % 2 = 0 /\ 0 \in Address /\ 0 \in Counts
  BY DEF MipsAssumption, Init, Address, Counts
<1>2. npc \in Address
  BY <1>1, PlusAddress DEF Init
<1>3. TypeOK
  BY <1>1, <1>2 DEF Init, TypeOK, Status, Cause
<1>4. pc % 2 # 1
  BY <1>1
<1> QED
  BY <1>1, <1>3, <1>4 DEF Init, IInv, Counters, Linked

\* MIPS32 steps that end in an exception.
LEMMA IInvException ==
  ASSUME MipsAssumption, IInv, Interrupt \/ Trap \/ Trap16
  PROVE  IInv'
<1>1. TypeOK
  BY DEF IInv
<1>2. Raised \in SUBSET Lines /\ cause.ip \in SUBSET Lines
  BY <1>1, RaisedType DEF TypeOK, Cause
<1>3. PICK ip \in SUBSET Lines : EnterException(ip)
  BY <1>2 DEF Interrupt, Trap, Trap16
<1>4. count' \in Counts /\ compare' \in Counts /\ timerSet' \in BOOLEAN
  BY <1>1, TickType DEF Interrupt, Trap, Trap16, NoTick, timerVars, TypeOK
<1> QED
  BY <1>1, <1>3, <1>4, ExceptionEffect, TypeParts DEF IInv

\* MIPS32 steps that go on in sequence.
LEMMA IInvSequence ==
  ASSUME MipsAssumption, IInv, Step, Advance,
         \/ Plain \/ LoadLinked \/ StoreConditional
         \/ WriteStatus \/ WriteCause \/ WriteEpc \/ WriteCount \/ WriteCompare
  PROVE  IInv'
<1>1. TypeOK /\ Linked
  BY DEF IInv
<1>2. FlowType' /\ Counters'
  BY <1>1, AdvanceEffect
<1>3. Raised \in SUBSET Lines /\ Ticked \in Counts
  BY <1>1, RaisedType, TickedCount DEF TypeOK
<1>4. count' \in Counts /\ compare' \in Counts /\ timerSet' \in BOOLEAN
  <2>1. CASE Tick
    BY <1>1, <2>1, TickType
  <2>2. CASE WriteCause \/ WriteCount \/ WriteCompare
    <3>1. CountWrite \subseteq Counts
      BY DEF MipsAssumption
    <3>2. compare \in Counts
      BY <1>1 DEF TypeOK
    <3> QED
      BY <1>3, <2>2, <3>1, <3>2 DEF WriteCause, WriteCount, WriteCompare
  <2> QED
    BY <2>1, <2>2 DEF Plain, LoadLinked, StoreConditional, WriteStatus, WriteEpc
<1>5. status' \in Status /\ cause' \in Cause /\ epc' \in Address
  <2>1. CASE Latch
    BY <1>1, <2>1, LatchType
  <2>2. CASE WriteStatus \/ WriteCause \/ WriteEpc \/ WriteCompare
    BY <1>1, <1>3, <2>2 DEF WriteStatus, WriteCause, WriteEpc, WriteCompare,
       MipsAssumption, TypeOK, Cause
  <2> QED
    BY <2>1, <2>2 DEF Plain, LoadLinked, StoreConditional, WriteCount
<1>6. llbit' \in BOOLEAN /\ since' \in {"none", "link", "trap"} /\ Linked'
  <2>1. CASE LoadLinked
    BY <2>1 DEF LoadLinked, Linked
  <2>2. CASE StoreConditional
    BY <2>2 DEF StoreConditional, Linked
  <2>3. CASE UNCHANGED <<llbit, since>>
    BY <1>1, <2>3 DEF TypeOK, Linked
  <2> QED
    BY <2>1, <2>2, <2>3 DEF Plain, WriteStatus, WriteCause, WriteEpc, WriteCount, WriteCompare
<1> QED
  BY <1>2, <1>4, <1>5, <1>6, TypeParts DEF IInv

\* MIPS32 steps that go somewhere else, and the halt.
LEMMA IInvControl ==
  ASSUME MipsAssumption, IInv,
         \/ Halt \/ Annul \/ (\E t \in Target : Branch(t)) \/ Eret
  PROVE  IInv'
<1>1. TypeOK /\ Counters /\ Linked
  BY DEF IInv
<1>2. count' \in Counts /\ compare' \in Counts /\ timerSet' \in BOOLEAN
  BY <1>1, TickType DEF Halt, Annul, Branch, Eret
<1>3. status' \in Status /\ cause' \in Cause /\ epc' \in Address
  <2>1. CASE Latch
    BY <1>1, <2>1, LatchType
  <2>2. CASE Eret
    BY <1>1, <2>2, RaisedType DEF Eret, TypeOK, Status, Cause
  <2> QED
    BY <2>1, <2>2 DEF Halt, Annul, Branch
<1>4. llbit' \in BOOLEAN /\ since' \in {"none", "link", "trap"} /\ Linked'
  <2>1. UNCHANGED <<llbit, since>>
    BY DEF Halt, Annul, Branch, Eret
  <2> QED
    BY <1>1, <2>1 DEF TypeOK, Linked
<1>5. /\ npc \in Address /\ pc \in Address /\ epc \in Address
      /\ npc \in Nat /\ pc \in Nat /\ epc \in Nat
      /\ Target \subseteq Address /\ None \notin Address
  BY <1>1 DEF TypeOK, Address, MipsAssumption
<1>6. FlowType' /\ Counters'
  <2>1. CASE Halt
    BY <1>1, <2>1 DEF Halt, FlowType, Counters, TypeOK
  <2>2. CASE Annul
    <3> DEFINE next == Plus(npc, ModeInc(npc))
    <3>1. next \in Address /\ next \in Nat
      BY <1>5, ModeAddress DEF Address
    <3>2. /\ Plus(next, ModeInc(next)) \in Address
          /\ Plus(next, ModeInc(next)) % 2 = next % 2
          /\ next % 2 = 0 => Plus(next, ModeInc(next)) = Plus(next, 4)
      BY <3>1, ModeAddress
    <3>3. pc' = next /\ npc' = Plus(next, ModeInc(next)) /\ slotOf' = None
          /\ halted' = halted
      BY <2>2 DEF Annul
    <3> QED
      BY <1>1, <3>1, <3>2, <3>3 DEF FlowType, Counters, TypeOK
  <2>3. ASSUME NEW t \in Target, Branch(t)
        PROVE  FlowType' /\ Counters'
    <3>1. pc % 2 = 0 /\ slotOf = None
      BY <2>3 DEF Branch, Step, Wide
    <3>2. npc = Plus(pc, 4)
      BY <1>1, <3>1 DEF Counters
    <3>3. npc % 2 = 0 /\ npc % 2 # 1
      BY <1>5, <3>1, <3>2, PlusAddress
    <3>4. /\ pc' = npc /\ npc' = t /\ halted' = halted
          /\ slotOf' = IF t = Plus(npc, 4) THEN None ELSE pc
      BY <2>3 DEF Branch
    <3> QED
      BY <1>1, <1>5, <3>1, <3>2, <3>3, <3>4 DEF FlowType, Counters, TypeOK
  <2>4. CASE Eret
    <3>1. Plus(epc, 4) \in Address /\ Plus(epc, 4) % 2 = epc % 2
      BY <1>5, PlusAddress
    <3>2. pc' = epc /\ npc' = Plus(epc, 4) /\ slotOf' = None /\ halted' = halted
      BY <2>4 DEF Eret
    <3> QED
      BY <1>1, <1>5, <3>1, <3>2 DEF FlowType, Counters, TypeOK
  <2> QED
    BY <2>1, <2>2, <2>3, <2>4
<1> QED
  BY <1>2, <1>3, <1>4, <1>6, TypeParts DEF IInv

\* MIPS16e steps other than exceptions.
LEMMA IInvNarrow ==
  ASSUME MipsAssumption, IInv,
         \/ Plain16 \/ Halt16 \/ Extended16
         \/ \E t \in Target : Branch16(t) \/ JumpRegister16(t) \/ JumpLink16(t)
  PROVE  IInv'
<1>1. TypeOK /\ Counters /\ Linked
  BY DEF IInv
<1>2. Narrow /\ Untouched
  BY DEF Plain16, Halt16, Extended16, Branch16, JumpRegister16, JumpLink16
<1>3. /\ count' \in Counts /\ compare' \in Counts /\ timerSet' \in BOOLEAN
      /\ status' \in Status /\ cause' \in Cause /\ epc' \in Address
      /\ since' \in {"none", "link", "trap"}
  BY <1>1, <1>2 DEF Untouched, NoTick, timerVars, TypeOK
<1>4. llbit' \in BOOLEAN /\ Linked'
  <2>1. UNCHANGED <<llbit, since>>
    BY <1>2 DEF Untouched
  <2> QED
    BY <1>1, <2>1 DEF TypeOK, Linked
<1>5. /\ npc \in Address /\ pc \in Address /\ npc \in Nat /\ pc \in Nat
      /\ Target \subseteq Address /\ None \notin Address
  BY <1>1 DEF TypeOK, Address, MipsAssumption
<1>6. pc % 2 = 1 /\ Plus(pc, 4) \in Address /\ Plus(pc, 4) % 2 = 1 /\ Plus(pc, 4) \in Nat
  BY <1>2, <1>5, PlusAddress DEF Narrow, Address
<1>7. FlowType' /\ Counters'
  <2>1. CASE Plain16
    BY <1>1, <2>1, AdvanceEffect DEF Plain16
  <2>2. CASE Halt16
    BY <1>1, <2>2 DEF Halt16, FlowType, Counters, TypeOK
  <2>3. CASE Extended16
    <3>1. /\ Plus(Plus(pc, 4), ModeInc(Plus(pc, 4))) \in Address
          /\ Plus(Plus(pc, 4), ModeInc(Plus(pc, 4))) % 2 = 1
      BY <1>6, ModeAddress
    <3>2. /\ pc' = Plus(pc, 4) /\ npc' = Plus(Plus(pc, 4), ModeInc(Plus(pc, 4)))
          /\ slotOf' = None /\ halted' = halted
      BY <2>3 DEF Extended16
    <3> QED
      BY <1>1, <1>6, <3>1, <3>2 DEF FlowType, Counters, TypeOK
  <2>4. ASSUME NEW t \in Target, Branch16(t)
        PROVE  FlowType' /\ Counters'
    <3>1. t \in Address /\ t \in Nat
      BY <1>5 DEF Address
    <3>2. /\ Plus(t, ModeInc(t)) \in Address
          /\ Plus(t, ModeInc(t)) % 2 = t % 2
          /\ t % 2 = 0 => Plus(t, ModeInc(t)) = Plus(t, 4)
      BY <3>1, ModeAddress
    <3>3. pc' = t /\ npc' = Plus(t, ModeInc(t)) /\ slotOf' = None /\ halted' = halted
      BY <2>4 DEF Branch16
    <3> QED
      BY <1>1, <3>1, <3>2, <3>3 DEF FlowType, Counters, TypeOK
  <2>5. ASSUME NEW t \in Target, JumpRegister16(t)
        PROVE  FlowType' /\ Counters'
    <3>1. /\ slotOf = None /\ pc' = npc /\ npc' = t /\ slotOf' = pc /\ halted' = halted
      BY <2>5 DEF JumpRegister16
    <3>2. npc % 2 = 1 /\ npc % 2 # 0
      BY <1>1, <1>6, <3>1 DEF Counters
    <3>3. pc # None /\ t \in Address
      BY <1>5
    <3> QED
      BY <1>1, <1>5, <3>1, <3>2, <3>3 DEF FlowType, Counters, TypeOK
  <2>6. ASSUME NEW t \in Target, JumpLink16(t)
        PROVE  FlowType' /\ Counters'
    <3>1. pc' = Plus(pc, 4) /\ npc' = t /\ slotOf' = pc /\ halted' = halted
      BY <2>6 DEF JumpLink16
    <3>2. pc # None /\ t \in Address /\ Plus(pc, 4) % 2 # 0
      BY <1>5, <1>6
    <3> QED
      BY <1>1, <1>5, <1>6, <3>1, <3>2 DEF FlowType, Counters, TypeOK
  <2> QED
    BY <2>1, <2>2, <2>3, <2>4, <2>5, <2>6
<1> QED
  BY <1>3, <1>4, <1>7, TypeParts DEF IInv

LEMMA IInvStep ==
  ASSUME MipsAssumption, IInv, [Next]_vars
  PROVE  IInv'
<1>1. CASE Interrupt \/ Trap \/ Trap16
  BY <1>1, IInvException
<1>2. CASE \/ Plain \/ LoadLinked \/ StoreConditional
           \/ WriteStatus \/ WriteCause \/ WriteEpc \/ WriteCount \/ WriteCompare
  <2>1. Step /\ Advance
    BY <1>2 DEF Plain, LoadLinked, StoreConditional, WriteStatus, WriteCause,
                WriteEpc, WriteCount, WriteCompare
  <2> QED
    BY <1>2, <2>1, IInvSequence
<1>3. CASE Halt \/ Annul \/ (\E t \in Target : Branch(t)) \/ Eret
  BY <1>3, IInvControl
<1>4. CASE \/ Plain16 \/ Halt16 \/ Extended16
           \/ \E t \in Target : Branch16(t) \/ JumpRegister16(t) \/ JumpLink16(t)
  BY <1>4, IInvNarrow
<1>5. CASE UNCHANGED vars
  BY <1>5 DEF vars, timerVars, IInv, TypeOK, Counters, Linked
<1> QED
  BY <1>1, <1>2, <1>3, <1>4, <1>5 DEF Next, Step32, Step16

LEMMA Invariance == Spec => []IInv
<1>1. Init => IInv
  BY MipsAssumption, IInvInit
<1>2. IInv /\ [Next]_vars => IInv'
  BY MipsAssumption, IInvStep
<1> QED
  BY <1>1, <1>2, PTL DEF Spec

\* Every reachable state has the right types, for every address space, set of
\* jump targets and set of interrupt lines.
THEOREM MipsTypeCorrect == Spec => []TypeOK
<1>1. IInv => TypeOK
  BY DEF IInv
<1> QED
  BY <1>1, Invariance, PTL

\* A store-conditional stores only when no exception came after the link.
THEOREM LinksBreak == Spec => LinkedStore
<1>1. IInv => (StoreConditional => since = "link")
  BY DEF IInv, Linked, StoreConditional
<1> QED
  BY <1>1, Invariance, PTL DEF LinkedStore

-----------------------------------------------------------------------------
(* The counters implement the precise flow.                                *)

At   == IF InSlot THEN slotOf ELSE pc
Dest == IF InSlot THEN npc ELSE None

\* What the abstract flow sees of a state: a slot belongs to the branch before
\* it, and outside of slots the counters are consecutive.
LEMMA FlowState ==
  ASSUME MipsAssumption, IInv
  PROVE  /\ At \in Address /\ At % 2 = pc % 2
         /\ pc % 2 = 0 => EpcOfTrap = At /\ InDelay = (Dest # None)
         /\ InSlot => pc = Plus(At, 4) /\ Dest = npc /\ Dest \in Address
         /\ ~InSlot => At = pc /\ Dest = None
         /\ pc % 2 = 0 /\ ~InSlot => npc = Plus(At, 4)
<1>1. /\ pc \in Address /\ npc \in Address /\ slotOf \in Address \cup {None}
      /\ None \notin Address /\ Counters
  BY DEF IInv, TypeOK, MipsAssumption
<1>2. CASE InSlot
  <2>1. slotOf \in Address /\ slotOf % 2 = 0 /\ pc = Plus(slotOf, 4) /\ npc # Plus(pc, 4)
    BY <1>1, <1>2 DEF InSlot, Counters
  <2>2. Minus(pc, 4) = slotOf
    BY <2>1, MinusAddress
  <2>3. npc # None /\ pc % 2 = 0
    BY <1>1, <1>2 DEF InSlot
  <2> QED
    BY <1>1, <1>2, <2>1, <2>2, <2>3 DEF At, Dest, EpcOfTrap, InDelay
<1>3. CASE ~InSlot
  <2>1. pc % 2 = 0 => slotOf = None /\ npc = Plus(pc, 4)
    BY <1>1, <1>3 DEF InSlot, Counters
  <2> QED
    BY <1>1, <1>3, <2>1 DEF At, Dest, EpcOfTrap, InDelay
<1> QED
  BY <1>2, <1>3

\* An exception, as the flow sees it.
LEMMA FlowTrap ==
  ASSUME MipsAssumption, IInv, Interrupt \/ Trap
  PROVE  Flow!Trap
<1>1. pc % 2 = 0
  BY DEF Interrupt, Trap, Step, Wide
<1>2. At % 2 = 0 /\ EpcOfTrap = At /\ InDelay = (Dest # None)
  BY <1>1, FlowState
<1>3. PICK ip : EnterException(ip)
  BY DEF Interrupt, Trap
<1>4. At' = VECTOR /\ Dest' = None
  BY <1>3 DEF EnterException, At, Dest, InSlot
<1>5. epc' = At
  BY <1>2, <1>3 DEF EnterException
<1>6. cause'.bd = (Dest # None)
  <2>1. cause'.bd = InDelay
    BY <1>3 DEF EnterException
  <2> QED
    BY <1>2, <2>1
<1> QED
  BY <1>2, <1>4, <1>5, <1>6 DEF Flow!Trap, Flow!Wide, At, Dest

\* An instruction that writes at most one of EPC and CAUSE, and goes on in
\* sequence, completes the branch whose slot it is in.
LEMMA FlowSequence ==
  ASSUME MipsAssumption, IInv, Step, Advance, Flow!Registers
  PROVE  Flow!Instruction
<1>1. pc % 2 = 0
  BY DEF Step, Wide
<1>2. At % 2 = 0
  BY <1>1, FlowState
<1>3. At' = npc /\ Dest' = None
  BY DEF Advance, At, Dest, InSlot
<1>4. CASE InSlot
  <2>1. Dest = npc /\ Dest # None
    BY <1>4, FlowState DEF MipsAssumption
  <2> QED
    BY <1>2, <1>3, <2>1 DEF Flow!Instruction, Flow!Wide, Flow!Complete, At, Dest
<1>5. CASE ~InSlot
  <2>1. npc = Plus(At, 4) /\ Dest = None
    BY <1>1, <1>5, FlowState
  <2> QED
    BY <1>2, <1>3, <2>1 DEF Flow!Instruction, Flow!Wide, Flow!Straight, Flow!Plus, Plus, At, Dest
<1> QED
  BY <1>4, <1>5

LEMMA FlowRegisters ==
  ASSUME MipsAssumption, IInv,
         Latch \/ WriteStatus \/ WriteCause \/ WriteEpc \/ WriteCompare
  PROVE  Flow!Registers
<1>1. cause \in Cause /\ Target \subseteq Address
  BY DEF IInv, TypeOK, MipsAssumption
<1>2. CASE WriteCause
  BY <1>2 DEF WriteCause, Cause, Flow!Registers
<1>3. CASE WriteEpc
  <2>1. cause'.bd = cause.bd
    BY <1>1, <1>3 DEF WriteEpc, Cause
  <2>2. epc' \in Flow!Address
    BY <1>1, <1>3 DEF WriteEpc, Address, Flow!Address
  <2> QED
    BY <2>1, <2>2 DEF Flow!Registers
<1>4. CASE Latch \/ WriteStatus \/ WriteCompare
  BY <1>1, <1>4 DEF Latch, WriteStatus, WriteCompare, Cause, Flow!Registers
<1> QED
  BY <1>2, <1>3, <1>4

LEMMA FlowBranch ==
  ASSUME MipsAssumption, IInv, NEW t \in Target, Branch(t)
  PROVE  Flow!Instruction
<1>1. Flow!Registers
  BY FlowRegisters DEF Branch
<1>2. pc % 2 = 0 /\ ~InSlot /\ slotOf = None /\ Latch
  BY DEF Branch, Step, Wide, InSlot
<1>3. At = pc /\ Dest = None /\ At % 2 = 0 /\ At \in Address /\ npc = Plus(At, 4)
  BY <1>2, FlowState
<1>4. /\ pc' = Plus(At, 4) /\ pc' % 2 = 0 /\ npc' = t
      /\ slotOf' = IF t = Plus(At, 8) THEN None ELSE At
  BY <1>3, PlusAddress, PlusTwice DEF Branch
<1>5. At # None /\ t \in Address
  BY <1>3 DEF MipsAssumption
<1>6. CASE t = Plus(At, 8)
  <2>1. At' = Plus(At, 4) /\ Dest' = None
    BY <1>4, <1>6 DEF At, Dest, InSlot
  <2> QED
    BY <1>1, <1>3, <2>1 DEF Flow!Instruction, Flow!Wide, Flow!Straight, Flow!Plus, Plus, At, Dest
<1>7. CASE t # Plus(At, 8)
  <2>1. InSlot'
    BY <1>4, <1>5, <1>7 DEF InSlot
  <2>2. At' = At /\ Dest' = t
    BY <1>4, <1>7, <2>1 DEF At, Dest
  <2>3. t \in Flow!Address /\ t # Flow!Plus(At, 8)
    BY <1>5, <1>7 DEF Flow!Address, Address, Flow!Plus, Plus
  <2> QED
    BY <1>1, <1>3, <2>2, <2>3 DEF Flow!Instruction, Flow!Wide, Flow!Decide, At, Dest
<1> QED
  BY <1>6, <1>7

LEMMA FlowAnnul ==
  ASSUME MipsAssumption, IInv, Annul
  PROVE  Flow!Instruction
<1>1. Flow!Registers
  BY FlowRegisters DEF Annul
<1>2. pc % 2 = 0 /\ ~InSlot /\ slotOf = None
  BY DEF Annul, Step, Wide, InSlot
<1>3. At = pc /\ Dest = None /\ At % 2 = 0 /\ At \in Address /\ npc = Plus(At, 4)
  BY <1>2, FlowState
<1>4. npc \in Address /\ npc % 2 = 0
  BY <1>3, PlusAddress
<1>5. pc' = Plus(At, 8) /\ slotOf' = None
  BY <1>2, <1>3, <1>4, ModeAddress, PlusTwice DEF Annul
<1>6. At' = Plus(At, 8) /\ Dest' = None
  BY <1>5 DEF At, Dest, InSlot
<1> QED
  BY <1>1, <1>3, <1>6 DEF Flow!Instruction, Flow!Wide, Flow!Annul, Flow!Plus, Plus, At, Dest

LEMMA FlowReturn ==
  ASSUME MipsAssumption, IInv, Eret
  PROVE  Flow!Return
<1>1. pc % 2 = 0
  BY DEF Eret, Step, Wide
<1>2. At % 2 = 0
  BY <1>1, FlowState
<1>3. cause'.bd = cause.bd /\ epc' = epc
  BY DEF Eret, IInv, TypeOK, Cause
<1>4. At' = epc /\ Dest' = None
  BY DEF Eret, At, Dest, InSlot
<1> QED
  BY <1>2, <1>3, <1>4 DEF Flow!Return, Flow!Wide, At, Dest

\* MIPS16e code promises nothing but where its exceptions lead.
LEMMA FlowNarrow ==
  ASSUME MipsAssumption, IInv, IInv', Step16
  PROVE  Flow!Compressed \/ Flow!CompressedTrap
<1>1. pc % 2 = 1 /\ pc % 2 # 0
  BY DEF Step16, Plain16, Trap16, Halt16, Extended16, Branch16, JumpRegister16,
         JumpLink16, Narrow
<1>2. At = pc /\ At % 2 # 0
  BY <1>1 DEF At, InSlot
<1>3. CASE Trap16
  <2>1. At' = VECTOR /\ Dest' = None
    BY <1>3 DEF Trap16, EnterException, At, Dest, InSlot
  <2>2. epc' \in Flow!Address /\ cause'.bd \in BOOLEAN
    BY DEF IInv, TypeOK, Cause, Address, Flow!Address
  <2> QED
    BY <1>2, <2>1, <2>2 DEF Flow!CompressedTrap, Flow!Wide, At, Dest
<1>4. CASE ~Trap16
  <2>1. epc' = epc /\ cause' = cause
    BY <1>4 DEF Step16, Plain16, Halt16, Extended16, Branch16, JumpRegister16,
         JumpLink16, Untouched
  <2>2. slotOf' = None \/ pc' % 2 = 1
    <3>1. pc \in Address /\ npc \in Address /\ Counters
      BY DEF IInv, TypeOK
    <3>2. Plus(pc, 4) % 2 = 1
      BY <1>1, <3>1, PlusAddress
    <3>3. slotOf = None => npc % 2 = 1
      BY <1>1, <3>1 DEF Counters
    <3> QED
      BY <1>1, <1>4, <3>2, <3>3
         DEF Step16, Plain16, Halt16, Extended16, Branch16, JumpRegister16,
             JumpLink16, Advance
  <2>3. At' = pc' /\ Dest' = None
    BY <2>2 DEF At, Dest, InSlot
  <2>4. pc' \in Flow!Address
    BY DEF IInv, TypeOK, Address, Flow!Address
  <2> QED
    BY <1>2, <2>1, <2>3, <2>4 DEF Flow!Compressed, Flow!Wide, At, Dest
<1> QED
  BY <1>3, <1>4

LEMMA FlowStep ==
  ASSUME MipsAssumption, IInv, IInv', [Next]_vars
  PROVE  [Flow!Next]_Flow!vars
<1>1. CASE Interrupt \/ Trap
  BY <1>1, FlowTrap DEF Flow!Next
<1>2. CASE \/ Plain \/ LoadLinked \/ StoreConditional
           \/ WriteStatus \/ WriteCause \/ WriteEpc \/ WriteCount \/ WriteCompare
  <2>1. Step /\ Advance
    BY <1>2 DEF Plain, LoadLinked, StoreConditional, WriteStatus, WriteCause,
                WriteEpc, WriteCount, WriteCompare
  <2>2. Latch \/ WriteStatus \/ WriteCause \/ WriteEpc \/ WriteCompare
    BY <1>2 DEF Plain, LoadLinked, StoreConditional, WriteCount
  <2> QED
    BY <2>1, <2>2, FlowSequence, FlowRegisters DEF Flow!Next
<1>3. CASE Halt
  <2>1. cause'.bd = cause.bd /\ UNCHANGED <<pc, npc, slotOf, epc>>
    BY <1>3 DEF Halt, Latch, IInv, TypeOK, Cause
  <2> QED
    BY <2>1 DEF Flow!vars, InSlot
<1>4. CASE Annul
  BY <1>4, FlowAnnul DEF Flow!Next
<1>5. ASSUME NEW t \in Target, Branch(t)
      PROVE  [Flow!Next]_Flow!vars
  BY <1>5, FlowBranch DEF Flow!Next
<1>6. CASE Eret
  BY <1>6, FlowReturn DEF Flow!Next
<1>7. CASE Step16
  BY <1>7, FlowNarrow DEF Flow!Next
<1>8. CASE UNCHANGED vars
  BY <1>8 DEF vars, timerVars, Flow!vars, InSlot
<1> QED
  BY <1>1, <1>2, <1>3, <1>4, <1>5, <1>6, <1>7, <1>8 DEF Next, Step32

LEMMA FlowInit ==
  ASSUME MipsAssumption, IInv, Init
  PROVE  Flow!Init
<1>1. At = pc /\ Dest = None
  BY DEF Init, At, Dest, InSlot
<1>2. pc \in Flow!Address /\ epc \in Flow!Address /\ cause.bd \in BOOLEAN
  BY DEF IInv, TypeOK, Address, Flow!Address, Cause
<1> QED
  BY <1>1, <1>2 DEF Flow!Init, At, Dest

\* The core implements the precise flow: an exception between a branch and its
\* slot restarts the branch, everywhere else in MIPS32 code the instruction,
\* and ERET goes on there, for every address space and every jump target.
THEOREM ExceptionsArePrecise == Spec => ImplementsPreciseFlow
<1>1. Init => IInv
  BY MipsAssumption, IInvInit
<1>2. IInv /\ [Next]_vars => IInv'
  BY MipsAssumption, IInvStep
<1>3. IInv /\ Init => Flow!Init
  BY MipsAssumption, FlowInit
<1>4. IInv /\ IInv' /\ [Next]_vars => [Flow!Next]_Flow!vars
  BY MipsAssumption, FlowStep
<1> QED
  BY <1>1, <1>2, <1>3, <1>4, PTL DEF Spec, ImplementsPreciseFlow, Flow!Spec
=============================================================================
