---------------------------- MODULE SeiArmProofs ----------------------------
(***************************************************************************)
(* Proofs about SeiArm: types; checkpoints and verdicts; what the frames   *)
(* of the exception stack hold (FramesInv), from which follow that handlers*)
(* nest only when unmasked and that returns restore; and the IT states of  *)
(* the code and of the architecture (ITInv).                               *)
(***************************************************************************)
EXTENDS SeiArm, TLAPS

-----------------------------------------------------------------------------
(***************************************************************************)
(* Types of the operators.                                                 *)
(***************************************************************************)

LEMMA PlusType ==
  ASSUME NEW a \in Int, NEW n \in Int
  PROVE  Plus(a, n) \in Address
  BY BoundsAssumption DEF Plus, Address

LEMMA ITTypes ==
  ASSUME NEW it \in ITState
  PROVE  NextIT(it) \in ITState /\ ArchNext(it) \in ITState
  BY SMTT(30) DEF NextIT, ArchNext, ITState, NoIT

LEMMA KindTypes ==
  ASSUME NEW kind \in Kinds
  PROVE  ModeOf(kind) \in Modes \ {"zero"} /\ Vector(kind) \in Address
  BY BoundsAssumption DEF ModeOf, Vector, Modes, Address

\* Switching modes banks SP and LR of the mode left and brings back those of the other.
LEMMA SwitchModeType ==
  ASSUME NEW c \in Cpu, NEW m \in Modes
  PROVE  SwitchMode(c, m) \in Cpu
<1> DEFINE b == [sp |-> c.sp, lr |-> c.lr]
           d == [c EXCEPT !.bank[c.mode] = b, !.sp = c.bank[m].sp, !.lr = c.bank[m].lr,
                          !.mode = m]
<1>1. c.mode \in Modes /\ c.bank \in [Modes -> Bank] /\ c.sp \in Stack /\ c.lr \in Address
  BY DEF Cpu
<1>2. b \in Bank /\ c.bank[m] \in Bank
  BY <1>1 DEF Bank
<1>3. c.bank[m].sp \in Stack /\ c.bank[m].lr \in Address
  BY <1>2 DEF Bank
<1>4. [c.bank EXCEPT ![c.mode] = b] \in [Modes -> Bank]
  BY <1>1, <1>2
<1> HIDE DEF b
<1>5. d \in Cpu
  BY <1>1, <1>3, <1>4, ZenonT(60) DEF Cpu
<1> QED
  BY <1>5 DEF SwitchMode, b

LEMMA PackCpsrType ==
  ASSUME NEW c \in Cpu
  PROVE  PackCpsr(c) \in Psr
  BY DEF Cpu, Psr, PackCpsr

LEMMA ContextType ==
  ASSUME NEW c \in Cpu
  PROVE  Context(c) \in [psr : Psr, sp : Stack, lr : Address]
  BY PackCpsrType DEF Cpu, Context

LEMMA UnpackCpsrType ==
  ASSUME NEW c \in Cpu, NEW s \in Psr
  PROVE  UnpackCpsr(c, s) \in Cpu
<1> DEFINE d == SwitchMode(c, s.mode)
<1>1. d \in Cpu
  BY SwitchModeType DEF Psr
<1>2. UnpackCpsr(c, s) = [d EXCEPT !.iMask = s.iMask, !.fMask = s.fMask, !.tbit = s.tbit, !.z = s.z]
  BY DEF UnpackCpsr
<1>3. s.iMask \in BOOLEAN /\ s.fMask \in BOOLEAN /\ s.tbit \in BOOLEAN /\ s.z \in BOOLEAN
  BY DEF Psr
<1> HIDE DEF d
<1> QED
  BY <1>1, <1>2, <1>3, ZenonT(60) DEF Cpu

LEMMA TakeExceptionType ==
  ASSUME NEW c \in Cpu, NEW kind \in Kinds, NEW ret \in Address
  PROVE  TakeException(c, kind, ret) \in Cpu
<1> DEFINE mode  == ModeOf(kind)
           saved == [c EXCEPT !.spsr[mode] = PackCpsr(c)]
           d     == SwitchMode(saved, mode)
           f     == (kind = "fiq") \/ c.fMask
<1>1. mode \in Modes /\ Vector(kind) \in Address
  BY KindTypes
<1>2. c.spsr \in [Modes -> Psr] /\ c.fMask \in BOOLEAN
  BY DEF Cpu
<1>3. [c.spsr EXCEPT ![mode] = PackCpsr(c)] \in [Modes -> Psr]
  BY <1>1, <1>2, PackCpsrType
<1>4. saved \in Cpu
  <2> HIDE DEF mode
  <2> QED BY <1>3, ZenonT(60) DEF Cpu
<1>5. d \in Cpu
  BY <1>1, <1>4, SwitchModeType
<1>6. f \in BOOLEAN
  BY <1>2
<1>7. TakeException(c, kind, ret)
        = [d EXCEPT !.lr = ret, !.iMask = TRUE, !.fMask = f, !.pc = Vector(kind), !.tbit = FALSE]
  BY DEF TakeException
<1> HIDE DEF d, f
<1> QED
  BY <1>1, <1>5, <1>6, <1>7, ZenonT(60) DEF Cpu

LEMMA AdvancedType ==
  ASSUME cpu \in Cpu, NEW c \in Cpu
  PROVE  Advanced(c) \in Cpu /\ Advanced(c).blocked = c.blocked /\ Advanced(c).halted = c.halted
<1>1. NextIT(c.it) \in ITState
  BY ITTypes DEF Cpu
<1>2. [c EXCEPT !.it = NextIT(@)] \in Cpu
  BY <1>1, ZenonT(60) DEF Cpu
<1>3. /\ [c EXCEPT !.it = NextIT(@)].blocked = c.blocked
      /\ [c EXCEPT !.it = NextIT(@)].halted = c.halted
  BY DEF Cpu
<1> QED
  BY <1>2, <1>3 DEF Advanced

-----------------------------------------------------------------------------
(***************************************************************************)
(* The frames.                                                             *)
(***************************************************************************)

LEMMA FrameUpdate ==
  ASSUME NEW f \in Frame, NEW b \in BOOLEAN
  PROVE  /\ [f EXCEPT !.intact = b] \in Frame
         /\ [f EXCEPT !.still = b] \in Frame
         /\ [f EXCEPT !.masked = b] \in Frame
  BY ZenonT(60) DEF Frame

\* A sequence of frames with the same length.
LEMMA FramesType ==
  ASSUME NEW fs \in Seq(Frame), NEW gs,
         gs = [i \in DOMAIN fs |-> gs[i]],
         \A i \in DOMAIN fs : gs[i] \in Frame
  PROVE  gs \in Seq(Frame) /\ DOMAIN gs = DOMAIN fs
<1>1. Len(fs) \in Nat /\ DOMAIN fs = 1 .. Len(fs)
  OBVIOUS
<1>2. gs \in [1 .. Len(fs) -> Frame]
  BY <1>1
<1> QED
  BY <1>1, <1>2 

LEMMA ThumbRanType ==
  ASSUME cpu \in Cpu, NEW fs \in Seq(Frame)
  PROVE  ThumbRan(fs) \in Seq(Frame)
<1> DEFINE gs == [i \in DOMAIN fs |-> [fs[i] EXCEPT !.still = FALSE]]
<1>1. \A i \in DOMAIN fs : gs[i] \in Frame
  <2> TAKE i \in DOMAIN fs
  <2>1. fs[i] \in Frame
    OBVIOUS
  <2> QED BY <2>1, FrameUpdate
<1>2. gs \in Seq(Frame)
  <2>1. gs = [i \in DOMAIN fs |-> gs[i]]
    OBVIOUS
  <2> HIDE DEF gs
  <2> QED BY <1>1, <2>1, FramesType
<1> QED
  BY <1>2 DEF ThumbRan

LEMMA SpWrittenType ==
  ASSUME NEW fs \in Seq(Frame), NEW m
  PROVE  SpWritten(fs, m) \in Seq(Frame)
<1> DEFINE gs == SpWritten(fs, m)
<1>1. \A i \in DOMAIN fs : gs[i] \in Frame
  <2> TAKE i \in DOMAIN fs
  <2> DEFINE b == fs[i].intact /\ fs[i].ctx.psr.mode # m
  <2>1. fs[i] \in Frame /\ gs[i] = [fs[i] EXCEPT !.intact = b]
    BY DEF SpWritten
  <2>2. b \in BOOLEAN
    OBVIOUS
  <2> HIDE DEF b, gs
  <2> QED BY <2>1, <2>2, FrameUpdate
<1>2. gs = [i \in DOMAIN fs |-> gs[i]]
  BY DEF SpWritten
<1> HIDE DEF gs
<1> QED BY <1>1, <1>2, FramesType DEF gs

LEMMA LrWrittenType ==
  ASSUME NEW fs \in Seq(Frame), NEW m
  PROVE  LrWritten(fs, m) \in Seq(Frame)
<1> DEFINE gs == LrWritten(fs, m)
<1>1. \A i \in DOMAIN fs : gs[i] \in Frame
  <2> TAKE i \in DOMAIN fs
  <2> DEFINE b == fs[i].intact /\ m \notin {fs[i].mode, fs[i].ctx.psr.mode}
  <2>1. fs[i] \in Frame /\ gs[i] = [fs[i] EXCEPT !.intact = b]
    BY DEF LrWritten
  <2>2. b \in BOOLEAN
    OBVIOUS
  <2> HIDE DEF b, gs
  <2> QED BY <2>1, <2>2, FrameUpdate
<1>2. gs = [i \in DOMAIN fs |-> gs[i]]
  BY DEF LrWritten
<1> HIDE DEF gs
<1> QED BY <1>1, <1>2, FramesType DEF gs

LEMMA PushedType ==
  ASSUME NEW c \in Cpu, NEW fs \in Seq(Frame), NEW kind \in Kinds, NEW resume \in Address,
         NEW it \in ITState, NEW ait \in ITState
  PROVE  Pushed(fs, c, kind, resume, it, ait) \in Seq(Frame)
<1> DEFINE f == [ kind |-> kind, mode |-> ModeOf(kind), ctx |-> Context(c), resume |-> resume,
                  it |-> it, ait |-> ait, intact |-> TRUE, still |-> TRUE, masked |-> TRUE ]
<1>1. f \in Frame
  BY KindTypes, ContextType DEF Frame
<1>2. LrWritten(fs, ModeOf(kind)) \in Seq(Frame)
  BY LrWrittenType
<1>3. Pushed(fs, c, kind, resume, it, ait) = <<f>> \o LrWritten(fs, ModeOf(kind))
  BY DEF Pushed
<1> HIDE DEF f
<1> QED
  BY <1>1, <1>2, <1>3

-----------------------------------------------------------------------------
(***************************************************************************)
(* Type correctness.                                                       *)
(***************************************************************************)
Events == {"unsupported", "unknown"}

\* What an action that neither ends a run nor touches the checkpoint has to establish.
LEMMA StepType ==
  ASSUME TypeOK, Running, Spend, UNCHANGED disk,
         cpu' \in Cpu, cpu'.blocked => cpu'.halted, unknown' \in BOOLEAN,
         trace' \subseteq Events, "unknown" \in trace' => unknown',
         frames' \in Seq(Frame), arch' \in ITState, astray' \in BOOLEAN
  PROVE  TypeOK'
<1>1. fuel' \in 0 .. Fuel
  BY BoundsAssumption DEF TypeOK, Running, Spend
<1>2. (file = None /\ kept = None) \/ (/\ kept \in Kept /\ (kept.cpu.blocked => kept.cpu.halted)
         /\ file = [cpu |-> Serialised(kept.cpu), unknown |-> kept.unknown])
  BY DEF TypeOK
<1>3. file' = file /\ kept' = kept
  BY DEF disk
<1>4. report' = report /\ runs' = runs /\ prior' = prior
  BY DEF Spend
<1>5. (file' = None /\ kept' = None) \/ (/\ kept' \in Kept /\ (kept'.cpu.blocked => kept'.cpu.halted)
         /\ file' = [cpu |-> Serialised(kept'.cpu), unknown |-> kept'.unknown])
  BY <1>2, <1>3
<1>6. report' \in Reasons \cup {"none"} /\ runs' \in 1 .. MaxRuns /\ prior' \in Reasons \cup {"none"}
  BY <1>4 DEF TypeOK
<1> QED
  BY <1>1, <1>5, <1>6, Zenon DEF TypeOK, Events, Serialised

LEMMA CommitType ==
  ASSUME TypeOK, Executes, NEW c \in Cpu, c.blocked => c.halted,
         NEW events \in SUBSET Events, NEW fs \in Seq(Frame), NEW it \in ITState,
         NEW strays \in BOOLEAN, Commit(c, events, fs, it, strays),
         unknown' \in BOOLEAN, unknown => unknown', "unknown" \in events => unknown'
  PROVE  TypeOK'
<1>1. cpu' \in Cpu /\ (cpu'.blocked => cpu'.halted)
  BY AdvancedType DEF Commit, TypeOK
<1>2. frames' \in Seq(Frame)
  BY ThumbRanType DEF Commit, TypeOK
<1>3. astray' \in BOOLEAN
  BY Zenon DEF Commit
<1>4. trace' \subseteq Events /\ ("unknown" \in trace' => unknown')
  BY DEF Commit, TypeOK, Events
<1>5. Running /\ Spend /\ UNCHANGED disk /\ arch' \in ITState
  BY DEF Commit, Executes, Fetches
<1> QED
  BY <1>1, <1>2, <1>3, <1>4, <1>5, StepType

LEMMA OrdinaryType ==
  ASSUME TypeOK, Executes, NEW c \in Cpu, c.blocked => c.halted,
         NEW fs \in Seq(Frame), Ordinary(c, fs)
  PROVE  TypeOK'
<1>1. ArchAdvanced \in ITState
  BY ITTypes DEF TypeOK, ArchAdvanced
<1>2. Commit(c, {}, fs, ArchAdvanced, FALSE) /\ unknown' = unknown
  BY DEF Ordinary
<1>3. unknown' \in BOOLEAN /\ (unknown => unknown')
  BY <1>2 DEF TypeOK
<1>4. {} \in SUBSET Events /\ FALSE \in BOOLEAN /\ "unknown" \notin {}
  OBVIOUS
<1> QED
  BY <1>1, <1>2, <1>3, <1>4, CommitType, Zenon

LEMMA RaiseType ==
  ASSUME TypeOK, NEW found \in Cpu, found.blocked => found.halted, NEW fs \in Seq(Frame),
         NEW kind, NEW ret \in Address, NEW resume \in Address,
         NEW events \in SUBSET {"unsupported"}, NEW ait \in ITState,
         Raise(found, fs, kind, ret, resume, events, ait)
  PROVE  TypeOK'
<1> DEFINE it == IF InBlock THEN NextIT(cpu.it) ELSE cpu.it
           c  == TakeException(found, kind, ret)
<1>1. kind \in Kinds /\ cpu \in Cpu /\ cpu.it \in ITState
  BY DEF Raise, TypeOK, Cpu
<1>2. c \in Cpu
  BY <1>1, TakeExceptionType
<1>3. c.blocked = found.blocked /\ c.halted = found.halted
  BY <1>1, Zenon DEF TakeException, SwitchMode, Cpu
<1>4. cpu' \in Cpu /\ (cpu'.blocked => cpu'.halted)
  BY <1>1, <1>2, <1>3, AdvancedType DEF Raise, TypeOK
<1>5. it \in ITState
  BY <1>1, ITTypes
<1>6. ThumbRan(fs) \in Seq(Frame)
  BY <1>1, ThumbRanType DEF TypeOK
<1>7. frames' \in Seq(Frame)
  BY <1>1, <1>5, <1>6, PushedType DEF Raise
<1>8. astray' \in BOOLEAN
  BY Zenon DEF Raise
<1>9. trace' \subseteq Events /\ unknown' \in BOOLEAN /\ ("unknown" \in trace' => unknown')
  BY DEF Raise, TypeOK, Events
<1>10. Running /\ Spend /\ UNCHANGED disk /\ arch' \in ITState
  BY DEF Raise, Executes, Fetches, NoIT, ITState
<1> QED
  BY <1>4, <1>7, <1>8, <1>9, <1>10, StepType

\* The parts of the state that the actions build on.
LEMMA Parts ==
  ASSUME TypeOK
  PROVE  /\ cpu \in Cpu /\ (cpu.blocked => cpu.halted)
         /\ cpu.pc \in Int /\ cpu.it \in ITState /\ cpu.mode \in Modes
         /\ cpu.iMask \in BOOLEAN /\ cpu.fMask \in BOOLEAN
         /\ unknown \in BOOLEAN /\ astray \in BOOLEAN /\ arch \in ITState
         /\ frames \in Seq(Frame)
         /\ trace \subseteq Events /\ ("unknown" \in trace => unknown)
         /\ ArchAdvanced \in ITState
  BY ITTypes DEF TypeOK, Cpu, Address, Events, ArchAdvanced

LEMMA SizesInt ==
  ASSUME NEW n \in Sizes
  PROVE  n \in Int
  BY BoundsAssumption DEF Sizes

LEMMA PcType ==
  ASSUME TypeOK, NEW n \in Int
  PROVE  Plus(cpu.pc, n) \in Address
  BY Parts, PlusType

LEMMA SkipType ==
  ASSUME TypeOK, Skip
  PROVE  TypeOK'
<1>1. PICK n \in Sizes : cpu' = [cpu EXCEPT !.pc = Plus(@, n), !.it = NextIT(@)]
  BY DEF Skip
<1>2. NextIT(cpu.it) \in ITState /\ ArchNext(arch) \in ITState
  BY Parts, ITTypes
<1>3. Plus(cpu.pc, n) \in Address
  BY SizesInt, PcType
<1>4. cpu' \in Cpu
  BY <1>1, <1>2, <1>3, Parts, ZenonT(30) DEF Cpu
<1>5. cpu'.blocked => cpu'.halted
  BY <1>1, Parts DEF Cpu
<1>6. frames' \in Seq(Frame)
  BY Parts, ThumbRanType DEF Skip
<1>7. astray' \in BOOLEAN
  BY Zenon DEF Skip
<1>8. arch' \in ITState /\ unknown' = unknown /\ trace' = trace
  BY <1>2 DEF Skip
<1>9. Running /\ Spend /\ UNCHANGED disk
  BY DEF Skip, Fetches
<1> QED
  BY <1>4, <1>5, <1>6, <1>7, <1>8, <1>9, Parts, StepType

LEMMA StraightType ==
  ASSUME TypeOK, Straight
  PROVE  TypeOK'
<1>1. PICK n \in Sizes, z \in BOOLEAN : Ordinary([cpu EXCEPT !.pc = Plus(@, n), !.z = z], frames)
  BY Zenon DEF Straight
<1> DEFINE c == [cpu EXCEPT !.pc = Plus(@, n), !.z = z]
<1>2. Plus(cpu.pc, n) \in Address
  BY SizesInt, PcType
<1>3. c \in Cpu
  BY <1>2, Parts, ZenonT(30) DEF Cpu
<1>4. c.blocked => c.halted
  BY Parts DEF Cpu
<1>5. frames \in Seq(Frame)
  BY Parts
<1>6. Executes
  BY Zenon DEF Straight
<1> HIDE DEF c
<1> QED
  BY <1>1, <1>3, <1>4, <1>5, <1>6, OrdinaryType DEF c

LEMMA SetSpType ==
  ASSUME TypeOK, SetSp
  PROVE  TypeOK'
<1>1. PICK n \in Sizes, v \in Sps : 
        Ordinary([cpu EXCEPT !.pc = Plus(@, n), !.sp = v], SpWritten(frames, cpu.mode))
  BY Zenon DEF SetSp
<1> DEFINE c == [cpu EXCEPT !.pc = Plus(@, n), !.sp = v]
<1>2. Plus(cpu.pc, n) \in Address
  BY SizesInt, PcType
<1>3. v \in Stack
  BY DEF Stack
<1>4. c \in Cpu
  BY <1>2, <1>3, Parts, ZenonT(30) DEF Cpu
<1>5. c.blocked => c.halted
  BY Parts DEF Cpu
<1>6. SpWritten(frames, cpu.mode) \in Seq(Frame)
  BY Parts, SpWrittenType
<1>7. Executes
  BY Zenon DEF SetSp
<1> HIDE DEF c
<1> QED
  BY <1>1, <1>4, <1>5, <1>6, <1>7, OrdinaryType DEF c

LEMMA SetLrType ==
  ASSUME TypeOK, SetLr
  PROVE  TypeOK'
<1>1. PICK n \in Sizes, v \in Targets, sp \in Sps \cup {cpu.sp} :
        Ordinary([cpu EXCEPT !.pc = Plus(@, n), !.lr = v, !.sp = sp],
                 LrWritten(frames, cpu.mode))
  BY Zenon DEF SetLr
<1> DEFINE c == [cpu EXCEPT !.pc = Plus(@, n), !.lr = v, !.sp = sp]
<1>2. Plus(cpu.pc, n) \in Address
  BY SizesInt, PcType
<1>3. sp \in Stack /\ v \in Address
  BY Parts, BoundsAssumption DEF Stack, Address, Cpu
<1>4. c \in Cpu
  BY <1>2, <1>3, Parts, ZenonT(30) DEF Cpu
<1>5. c.blocked => c.halted
  BY Parts DEF Cpu
<1>6. LrWritten(frames, cpu.mode) \in Seq(Frame)
  BY Parts, LrWrittenType
<1>7. Executes
  BY Zenon DEF SetLr
<1> HIDE DEF c
<1> QED
  BY <1>1, <1>4, <1>5, <1>6, <1>7, OrdinaryType DEF c

LEMMA BranchLinkType ==
  ASSUME TypeOK, BranchLink
  PROVE  TypeOK'
<1>1. PICK n \in Sizes, t \in Targets, thumb \in BOOLEAN : 
        Ordinary([cpu EXCEPT !.pc = t, !.tbit = thumb,
                             !.lr = Plus(cpu.pc, n + (IF cpu.tbit THEN 1 ELSE 0))],
                 LrWritten(frames, cpu.mode))
  BY Zenon DEF BranchLink
<1> DEFINE c == [cpu EXCEPT !.pc = t, !.tbit = thumb,
                            !.lr = Plus(cpu.pc, n + (IF cpu.tbit THEN 1 ELSE 0))]
<1>2. n + (IF cpu.tbit THEN 1 ELSE 0) \in Int
  BY SizesInt
<1>3. Plus(cpu.pc, n + (IF cpu.tbit THEN 1 ELSE 0)) \in Address
  BY <1>2, PcType
<1>4. t \in Address
  BY BoundsAssumption DEF Address
<1>5. c \in Cpu
  BY <1>2, <1>3, <1>4, Parts, ZenonT(30) DEF Cpu
<1>6. c.blocked => c.halted
  BY Parts DEF Cpu
<1>7. LrWritten(frames, cpu.mode) \in Seq(Frame)
  BY Parts, LrWrittenType
<1>8. Executes
  BY Zenon DEF BranchLink
<1> HIDE DEF c
<1> QED
  BY <1>1, <1>5, <1>6, <1>7, <1>8, OrdinaryType DEF c

LEMMA InterworkType ==
  ASSUME TypeOK, Interwork
  PROVE  TypeOK'
<1>1. PICK t \in Targets, thumb \in BOOLEAN : Ordinary([cpu EXCEPT !.pc = t, !.tbit = thumb], frames)
  BY Zenon DEF Interwork
<1> DEFINE c == [cpu EXCEPT !.pc = t, !.tbit = thumb]
<1>2. t \in Address
  BY BoundsAssumption DEF Address
<1>3. c \in Cpu
  BY <1>2, Parts, ZenonT(30) DEF Cpu
<1>4. c.blocked => c.halted
  BY Parts DEF Cpu
<1>5. frames \in Seq(Frame)
  BY Parts
<1>6. Executes
  BY Zenon DEF Interwork
<1> HIDE DEF c
<1> QED
  BY <1>1, <1>3, <1>4, <1>5, <1>6, OrdinaryType DEF c

LEMMA LdrexType ==
  ASSUME TypeOK, Ldrex
  PROVE  TypeOK'
<1> DEFINE c == [cpu EXCEPT !.pc = Plus(@, 4), !.excl = TRUE]
<1>1. Ordinary(c, frames)
  BY Zenon DEF Ldrex
<1>2. Plus(cpu.pc, 4) \in Address
  BY PcType
<1>3. TRUE \in BOOLEAN
  OBVIOUS
<1>4. c \in Cpu
  BY <1>2, <1>3, Parts, ZenonT(30) DEF Cpu
<1>5. c.blocked => c.halted
  BY Parts DEF Cpu
<1>6. frames \in Seq(Frame)
  BY Parts
<1>7. Executes
  BY Zenon DEF Ldrex
<1> HIDE DEF c
<1> QED
  BY <1>1, <1>4, <1>5, <1>6, <1>7, OrdinaryType

LEMMA StrexType ==
  ASSUME TypeOK, Strex
  PROVE  TypeOK'
<1> DEFINE c == [cpu EXCEPT !.pc = Plus(@, 4), !.excl = FALSE]
<1>1. Ordinary(c, frames)
  BY Zenon DEF Strex
<1>2. Plus(cpu.pc, 4) \in Address
  BY PcType
<1>3. FALSE \in BOOLEAN
  OBVIOUS
<1>4. c \in Cpu
  BY <1>2, <1>3, Parts, ZenonT(30) DEF Cpu
<1>5. c.blocked => c.halted
  BY Parts DEF Cpu
<1>6. frames \in Seq(Frame)
  BY Parts
<1>7. Executes
  BY Zenon DEF Strex
<1> HIDE DEF c
<1> QED
  BY <1>1, <1>4, <1>5, <1>6, <1>7, OrdinaryType

LEMMA UnknownAccessType ==
  ASSUME TypeOK, UnknownAccess
  PROVE  TypeOK'
<1>1. PICK n \in Sizes :
        Commit([cpu EXCEPT !.pc = Plus(@, n)], {"unknown"}, frames, ArchAdvanced, FALSE)
  BY Zenon DEF UnknownAccess
<1> DEFINE c == [cpu EXCEPT !.pc = Plus(@, n)]
<1>2. Plus(cpu.pc, n) \in Address
  BY SizesInt, PcType
<1>3. c \in Cpu
  BY <1>2, Parts, ZenonT(30) DEF Cpu
<1>4. c.blocked => c.halted
  BY Parts DEF Cpu
<1>5. {"unknown"} \in SUBSET Events /\ FALSE \in BOOLEAN
  BY DEF Events
<1>6. unknown' \in BOOLEAN /\ unknown'
  BY DEF UnknownAccess
<1>7. Executes
  BY DEF UnknownAccess
<1> HIDE DEF c
<1> QED
  BY <1>1, <1>3, <1>4, <1>5, <1>6, <1>7, Parts, CommitType, Zenon DEF c

LEMMA CoprocessorReadType ==
  ASSUME TypeOK, CoprocessorRead
  PROVE  TypeOK'
<1> DEFINE c == [cpu EXCEPT !.pc = Plus(@, 4)]
<1>1. Executes /\ unknown' = unknown
      /\ Commit(c, {"unsupported"}, frames, ArchAdvanced, FALSE)
  BY DEF CoprocessorRead
<1>2. Plus(cpu.pc, 4) \in Address
  BY PcType
<1>3. c \in Cpu
  BY <1>2, Parts, ZenonT(30) DEF Cpu
<1>4. c.blocked => c.halted
  BY Parts DEF Cpu
<1>5. {"unsupported"} \in SUBSET Events /\ FALSE \in BOOLEAN /\ "unknown" \notin {"unsupported"}
  BY DEF Events
<1>6. unknown' \in BOOLEAN /\ (unknown => unknown')
  BY <1>1, Parts
<1> HIDE DEF c
<1> QED
  BY <1>1, <1>3, <1>4, <1>5, <1>6, Parts, CommitType, Zenon

LEMMA SelfBranchType ==
  ASSUME TypeOK, SelfBranch
  PROVE  TypeOK'
<1> DEFINE c == [cpu EXCEPT !.halted = TRUE, !.blocked = TRUE]
           n == IF cpu.tbit THEN 5 ELSE 4
           d == [cpu EXCEPT !.halted = TRUE, !.blocked = TRUE, !.lr = Plus(cpu.pc, n)]
<1>1. Executes
  BY DEF SelfBranch
<1>2. TRUE \in BOOLEAN /\ Plus(cpu.pc, n) \in Address
  BY PcType
<1>3. c \in Cpu
  BY <1>2, Parts, ZenonT(30) DEF Cpu
<1>4. d \in Cpu
  <2> HIDE DEF n
  <2> QED BY <1>2, Parts, ZenonT(30) DEF Cpu
<1>5. c.halted /\ d.halted
  BY Parts DEF Cpu
<1>6. Ordinary(c, frames) \/ Ordinary(d, LrWritten(frames, cpu.mode))
  BY DEF SelfBranch
<1>7. LrWritten(frames, cpu.mode) \in Seq(Frame)
  BY Parts, LrWrittenType
<1> HIDE DEF c, d
<1> QED
  BY <1>1, <1>3, <1>4, <1>5, <1>6, <1>7, Parts, OrdinaryType

LEMMA FetchFaultType ==
  ASSUME TypeOK, FetchFault
  PROVE  TypeOK'
<1> DEFINE c == [cpu EXCEPT !.halted = TRUE]
<1>1. TRUE \in BOOLEAN
  OBVIOUS
<1>2. c \in Cpu
  BY <1>1, Parts, ZenonT(30) DEF Cpu
<1>3. c.halted
  BY Parts DEF Cpu
<1>4. cpu' = IF Skips THEN c ELSE Advanced(c)
  BY DEF FetchFault
<1> HIDE DEF c
<1>5. cpu' \in Cpu /\ cpu'.halted
  BY <1>2, <1>3, <1>4, Parts, AdvancedType
<1>6. astray' \in BOOLEAN
  BY Zenon DEF FetchFault
<1>7. Running /\ Spend /\ UNCHANGED <<unknown, trace, arch, disk>>
  BY DEF FetchFault, Fetches
<1>8. frames' \in Seq(Frame)
  BY Parts, ThumbRanType DEF FetchFault
<1> QED
  BY <1>5, <1>6, <1>7, <1>8, Parts, StepType

LEMMA IfThenType ==
  ASSUME TypeOK, IfThen
  PROVE  TypeOK'
<1>1. PICK b \in Blocks :
        /\ cpu' = Advanced([cpu EXCEPT !.pc = Plus(@, 2), !.it = b])
        /\ trace' = trace \cup {}
        /\ frames' = ThumbRan(frames)
        /\ arch' = b
        /\ astray' = (astray \/ Stale \/ (\/ ~ Faithful(b) \/ InBlock
                                        \/ \E i \in DOMAIN frames : frames[i].ait # NoIT))
        /\ Spend
        /\ UNCHANGED disk
  BY Zenon DEF IfThen, Commit
<1> DEFINE c == [cpu EXCEPT !.pc = Plus(@, 2), !.it = b]
<1>2. b \in ITState /\ Plus(cpu.pc, 2) \in Address
  BY BoundsAssumption, PcType DEF ITState
<1>3. c \in Cpu
  BY <1>2, Parts, ZenonT(30) DEF Cpu
<1>4. c.blocked => c.halted
  BY Parts DEF Cpu
<1>5. cpu' = Advanced(c)
  BY <1>1
<1> HIDE DEF c
<1>6. cpu' \in Cpu /\ (cpu'.blocked => cpu'.halted)
  BY <1>3, <1>4, <1>5, Parts, AdvancedType
<1>7. astray' \in BOOLEAN
  BY <1>1, Zenon
<1>8. frames' \in Seq(Frame)
  BY <1>1, Parts, ThumbRanType
<1>9. Running /\ unknown' = unknown /\ Spend /\ UNCHANGED disk /\ trace' = trace
  BY <1>1 DEF IfThen, Executes, Fetches
<1> QED
  BY <1>1, <1>2, <1>6, <1>7, <1>8, <1>9, Parts, StepType

LEMMA MaskedType ==
  ASSUME NEW fs \in Seq(Frame), NEW i \in BOOLEAN
  PROVE  [j \in DOMAIN fs |-> [fs[j] EXCEPT !.masked = @ /\ i]] \in Seq(Frame)
<1> DEFINE gs == [j \in DOMAIN fs |-> [fs[j] EXCEPT !.masked = @ /\ i]]
<1>1. \A j \in DOMAIN fs : gs[j] \in Frame
  <2> TAKE j \in DOMAIN fs
  <2> DEFINE b == fs[j].masked /\ i
  <2>1. fs[j] \in Frame /\ gs[j] = [fs[j] EXCEPT !.masked = b]
    OBVIOUS
  <2>2. b \in BOOLEAN
    OBVIOUS
  <2> HIDE DEF b, gs
  <2> QED BY <2>1, <2>2, FrameUpdate
<1>2. gs = [j \in DOMAIN fs |-> gs[j]]
  OBVIOUS
<1> HIDE DEF gs
<1>3. gs \in Seq(Frame)
  BY <1>1, <1>2, FramesType
<1> QED BY <1>3 DEF gs

LEMMA CpsType ==
  ASSUME TypeOK, Cps
  PROVE  TypeOK'
<1>1. PICK i \in BOOLEAN, f \in BOOLEAN :
        Ordinary([cpu EXCEPT !.pc = Plus(@, 2), !.iMask = i, !.fMask = f],
                 [j \in DOMAIN frames |-> [frames[j] EXCEPT !.masked = @ /\ i]])
  BY Zenon DEF Cps
<1> DEFINE c == [cpu EXCEPT !.pc = Plus(@, 2), !.iMask = i, !.fMask = f]
           gs == [j \in DOMAIN frames |-> [frames[j] EXCEPT !.masked = @ /\ i]]
<1>2. Plus(cpu.pc, 2) \in Address
  BY PcType
<1>3. c \in Cpu
  BY <1>2, Parts, ZenonT(30) DEF Cpu
<1>4. c.blocked => c.halted
  BY Parts DEF Cpu
<1>5. gs \in Seq(Frame)
  BY Parts, MaskedType
<1>6. Executes /\ Ordinary(c, gs)
  BY <1>1 DEF Cps
<1> HIDE DEF c, gs
<1> QED
  BY <1>3, <1>4, <1>5, <1>6, OrdinaryType

LEMMA MsrType ==
  ASSUME TypeOK, Msr
  PROVE  TypeOK'
<1>1. PICK s \in Psrs :
        cpu' = [SwitchMode(cpu, s.mode) EXCEPT
                  !.iMask = s.iMask, !.fMask = s.fMask, !.tbit = s.tbit, !.pc = Plus(@, 4)]
  BY Zenon DEF Msr
<1> DEFINE d == SwitchMode(cpu, s.mode)
<1>2. /\ s.mode \in Modes /\ s.iMask \in BOOLEAN /\ s.fMask \in BOOLEAN /\ s.tbit \in BOOLEAN
  BY BoundsAssumption
<1>3. d \in Cpu
  BY <1>2, Parts, SwitchModeType
<1>4. d.blocked = cpu.blocked /\ d.halted = cpu.halted
  BY Parts, Zenon DEF SwitchMode, Cpu
<1>5. cpu' = [d EXCEPT !.iMask = s.iMask, !.fMask = s.fMask, !.tbit = s.tbit, !.pc = Plus(@, 4)]
  BY <1>1
<1> HIDE DEF d
<1>6. Plus(d.pc, 4) \in Address
  <2>1. d.pc \in Int /\ 4 \in Int
    BY <1>3 DEF Cpu, Address
  <2> QED BY <2>1, PlusType
<1>7. cpu' \in Cpu
  BY <1>2, <1>3, <1>5, <1>6, ZenonT(30) DEF Cpu
<1>8. cpu'.blocked => cpu'.halted
  BY <1>3, <1>4, <1>5, Parts DEF Cpu
<1>9. astray' \in BOOLEAN
  BY Zenon DEF Msr
<1>10. /\ Running /\ Spend /\ UNCHANGED disk
       /\ unknown' = unknown /\ trace' = trace /\ arch' = arch /\ frames' = <<>>
  BY DEF Msr, Executes, Fetches
<1> QED
  BY <1>7, <1>8, <1>9, <1>10, Parts, StepType

LEMMA SvcType ==
  ASSUME TypeOK, Svc
  PROVE  TypeOK'
<1> DEFINE next == Plus(cpu.pc, IF cpu.tbit THEN 2 ELSE 4)
<1>1. next \in Address
  BY PcType
<1>2. Raise(cpu, frames, "swi", next, next, {}, ArchAdvanced)
  BY DEF Svc
<1>3. {} \in SUBSET {"unsupported"}
  OBVIOUS
<1> HIDE DEF next
<1> QED
  BY <1>1, <1>2, <1>3, Parts, RaiseType, Zenon

LEMMA UndefinedType ==
  ASSUME TypeOK, Undefined
  PROVE  TypeOK'
<1>1. CASE Raise(cpu, frames, "undef", Plus(cpu.pc, 4), Plus(cpu.pc, 4), {"unsupported"}, arch)
  <2>1. Plus(cpu.pc, 4) \in Address /\ {"unsupported"} \in SUBSET {"unsupported"}
    BY PcType
  <2> QED BY <1>1, <2>1, Parts, RaiseType, Zenon
<1>2. CASE /\ Executes
           /\ Commit([cpu EXCEPT !.halted = TRUE], {"unsupported"}, frames, ArchAdvanced, FALSE)
           /\ UNCHANGED unknown
  <2> DEFINE c == [cpu EXCEPT !.halted = TRUE]
  <2>1. TRUE \in BOOLEAN
    OBVIOUS
  <2>2. c \in Cpu
    BY <2>1, Parts, ZenonT(30) DEF Cpu
  <2>3. c.halted
    BY Parts DEF Cpu
  <2>4. {"unsupported"} \in SUBSET Events /\ FALSE \in BOOLEAN /\ "unknown" \notin {"unsupported"}
    BY DEF Events
  <2>5. unknown' \in BOOLEAN /\ (unknown => unknown')
    BY <1>2, Parts
  <2> HIDE DEF c
  <2> QED BY <1>2, <2>2, <2>3, <2>4, <2>5, Parts, CommitType, Zenon DEF c
<1>3. CASE Raise(cpu, frames, "undef", Plus(cpu.pc, 2), Plus(cpu.pc, 2), {}, ArchAdvanced)
  <2>1. Plus(cpu.pc, 2) \in Address /\ {} \in SUBSET {"unsupported"}
    BY PcType
  <2> QED BY <1>3, <2>1, Parts, RaiseType, Zenon
<1> QED
  BY <1>1, <1>2, <1>3, Zenon DEF Undefined

\* What a block transfer that aborts has done to SP and LR.
LEMMA PartialType ==
  ASSUME TypeOK, NEW sp \in Stack, NEW lr \in Address
  PROVE  LET c == [cpu EXCEPT !.sp = sp]
             d == [cpu EXCEPT !.sp = sp, !.lr = lr]
         IN  /\ c \in Cpu /\ (c.blocked => c.halted)
             /\ d \in Cpu /\ (d.blocked => d.halted)
<1> DEFINE c == [cpu EXCEPT !.sp = sp]
           d == [cpu EXCEPT !.sp = sp, !.lr = lr]
<1>1. c \in Cpu
  BY Parts, ZenonT(30) DEF Cpu
<1>2. d \in Cpu
  BY Parts, ZenonT(30) DEF Cpu
<1>3. (c.blocked => c.halted) /\ (d.blocked => d.halted)
  BY Parts DEF Cpu
<1> QED
  BY <1>1, <1>2, <1>3

LEMMA AbortType ==
  ASSUME TypeOK, Abort
  PROVE  TypeOK'
<1>1. cpu.pc \in Address /\ {} \in SUBSET {"unsupported"} /\ Plus(cpu.pc, 8) \in Address
  BY Parts, PcType DEF Cpu
<1>2. CASE \E n \in Sizes :
             Raise(cpu, frames, "dabt", Plus(cpu.pc, IF cpu.tbit THEN n ELSE 8), cpu.pc, {}, arch)
  <2>1. PICK n \in Sizes :
          Raise(cpu, frames, "dabt", Plus(cpu.pc, IF cpu.tbit THEN n ELSE 8), cpu.pc, {}, arch)
    BY <1>2, Zenon
  <2>2. Plus(cpu.pc, IF cpu.tbit THEN n ELSE 8) \in Address
    BY SizesInt, PcType
  <2> QED
    BY <1>1, <2>1, <2>2, Parts, RaiseType, Zenon
<1>3. CASE \E sp \in Sps : Raise([cpu EXCEPT !.sp = sp], SpWritten(frames, cpu.mode),
                                  "dabt", Plus(cpu.pc, 8), cpu.pc, {}, arch)
  <2>1. PICK sp \in Sps : Raise([cpu EXCEPT !.sp = sp], SpWritten(frames, cpu.mode),
                                "dabt", Plus(cpu.pc, 8), cpu.pc, {}, arch)
    BY <1>3, Zenon
  <2> DEFINE c == [cpu EXCEPT !.sp = sp]
  <2>2. sp \in Stack
    BY DEF Stack
  <2>3. c \in Cpu /\ (c.blocked => c.halted)
    BY <1>1, <2>2, PartialType
  <2>4. SpWritten(frames, cpu.mode) \in Seq(Frame)
    BY Parts, SpWrittenType
  <2> HIDE DEF c
  <2> QED
    BY <1>1, <2>1, <2>3, <2>4, Parts, RaiseType, Zenon DEF c
<1>4. CASE \E sp \in Sps \cup {cpu.sp}, v \in Targets :
             Raise([cpu EXCEPT !.sp = sp, !.lr = v], LrWritten(frames, cpu.mode),
                   "dabt", Plus(cpu.pc, 8), cpu.pc, {}, arch)
  <2>1. PICK sp \in Sps \cup {cpu.sp}, v \in Targets :
             Raise([cpu EXCEPT !.sp = sp, !.lr = v], LrWritten(frames, cpu.mode),
                   "dabt", Plus(cpu.pc, 8), cpu.pc, {}, arch)
    BY <1>4, Zenon
  <2> DEFINE c == [cpu EXCEPT !.sp = sp, !.lr = v]
  <2>2. sp \in Stack /\ v \in Address
    BY Parts, BoundsAssumption DEF Stack, Address, Cpu
  <2>3. c \in Cpu /\ (c.blocked => c.halted)
    BY <2>2, PartialType
  <2>4. LrWritten(frames, cpu.mode) \in Seq(Frame)
    BY Parts, LrWrittenType
  <2> HIDE DEF c
  <2> QED
    BY <1>1, <2>1, <2>3, <2>4, Parts, RaiseType, Zenon DEF c
<1> QED
  BY <1>2, <1>3, <1>4, Zenon DEF Abort

\* Frames from the second on, when there are two.
LEMMA TailFrames ==
  ASSUME NEW fs \in Seq(Frame), fs # <<>>
  PROVE  /\ Tail(fs) \in Seq(Frame) /\ Head(fs) \in Frame /\ Head(fs) = fs[1]
         /\ 1 \in DOMAIN fs
         /\ \A i \in DOMAIN Tail(fs) : i + 1 \in DOMAIN fs /\ Tail(fs)[i] = fs[i + 1]
  OBVIOUS

LEMMA ReturnType ==
  ASSUME TypeOK, NEW n \in {0, 4, 8}, Return(n)
  PROVE  TypeOK'
<1> DEFINE s == cpu.spsr[cpu.mode]
           d == UnpackCpsr(cpu, s)
<1>1. s \in Psr
  BY Parts DEF Cpu
<1>2. d \in Cpu
  BY <1>1, Parts, UnpackCpsrType
<1>3. d.blocked = cpu.blocked /\ d.halted = cpu.halted
  <2> HIDE DEF s
  <2> QED BY Parts, Zenon DEF UnpackCpsr, SwitchMode, Cpu
<1>4. Plus(cpu.lr, AddrMod - n) \in Address
  <2>1. cpu.lr \in Int /\ AddrMod - n \in Int
    BY Parts, BoundsAssumption DEF Cpu, Address
  <2> QED BY <2>1, PlusType
<1>5. cpu' = [d EXCEPT !.pc = Plus(cpu.lr, AddrMod - n)]
  BY DEF Return
<1> HIDE DEF d
<1>6. cpu' \in Cpu
  BY <1>2, <1>4, <1>5, ZenonT(30) DEF Cpu
<1>7. cpu'.blocked => cpu'.halted
  BY <1>2, <1>3, <1>5, Parts DEF Cpu
<1>8. frames' \in Seq(Frame) /\ arch' \in ITState
  <2>1. frames # <<>> => Tail(frames) \in Seq(Frame) /\ Head(frames).ait \in ITState
    BY Parts, TailFrames DEF Frame
  <2>2. NoIT \in ITState
    BY DEF NoIT, ITState
  <2> QED BY <2>1, <2>2 DEF Return
<1>9. astray' \in BOOLEAN
  BY Zenon DEF Return
<1>10. Running /\ Spend /\ UNCHANGED disk /\ unknown' = unknown /\ trace' = trace
  BY DEF Return, Executes, Fetches
<1> QED
  BY <1>6, <1>7, <1>8, <1>9, <1>10, Parts, StepType

LEMMA InterruptType ==
  ASSUME TypeOK, NEW kind, Interrupt(kind)
  PROVE  TypeOK'
<1> DEFINE c == IF kind = "fiq" THEN [cpu EXCEPT !.fiq = FALSE] ELSE [cpu EXCEPT !.irq = FALSE]
           d == TakeException(c, kind, Plus(cpu.pc, 4))
<1>1. kind \in Kinds /\ FALSE \in BOOLEAN
  BY DEF Interrupt
<1>2. c \in Cpu
  BY <1>1, Parts, ZenonT(30) DEF Cpu
<1>3. c.blocked = cpu.blocked /\ c.halted = cpu.halted
  BY Parts DEF Cpu
<1>4. cpu' = d
  BY DEF Interrupt
<1> HIDE DEF c
<1>5. d \in Cpu
  BY <1>1, <1>2, PcType, TakeExceptionType
<1>6. d.blocked = c.blocked /\ d.halted = c.halted
  BY <1>2, Zenon DEF TakeException, SwitchMode, Cpu
<1>7. frames' = Pushed(frames, cpu, kind, cpu.pc, cpu.it, arch)
  BY DEF Interrupt
<1>8. frames' \in Seq(Frame)
  BY <1>1, <1>7, Parts, PushedType DEF Cpu
<1>9. /\ Running /\ Spend /\ UNCHANGED disk /\ arch' \in ITState
      /\ unknown' = unknown /\ trace' = trace /\ astray' = astray
  BY DEF Interrupt, NoIT, ITState
<1> HIDE DEF d
<1>10. cpu' \in Cpu /\ (cpu'.blocked => cpu'.halted)
  BY <1>3, <1>4, <1>5, <1>6, Parts
<1> QED
  BY <1>8, <1>9, <1>10, Parts, StepType

\* What the checkpoint file is, given what was kept of the state it was written in.
FileOK ==
  \/ file = None /\ kept = None
  \/ /\ kept \in Kept /\ (kept.cpu.blocked => kept.cpu.halted)
     /\ file = [cpu |-> Serialised(kept.cpu), unknown |-> kept.unknown]

LEMMA FileKept ==
  ASSUME TypeOK, UNCHANGED disk
  PROVE  FileOK'
<1>1. FileOK
  BY DEF TypeOK, FileOK
<1>2. file' = file /\ kept' = kept
  BY DEF disk
<1> QED
  BY <1>1, <1>2 DEF FileOK

LEMMA ReasonType ==
  StopReason \in Reasons
  BY DEF StopReason, Reasons

LEMMA EndType ==
  ASSUME TypeOK, End
  PROVE  TypeOK'
<1>1. report' \in Reasons \cup {"none"}
  BY ReasonType DEF End
<1>2. FileOK'
  BY FileKept DEF End
<1>3. /\ cpu' = cpu /\ unknown' = unknown /\ trace' = trace /\ fuel' = fuel
      /\ runs' = runs /\ prior' = prior /\ frames' = frames /\ arch' = arch /\ astray' = astray
  BY DEF End, hist
<1> QED
  BY <1>1, <1>2, <1>3, Zenon DEF TypeOK, FileOK

LEMMA RerunType ==
  ASSUME TypeOK, Rerun
  PROVE  TypeOK'
<1>1. PICK i \in BOOLEAN, f \in BOOLEAN, open \in BOOLEAN :
        cpu' = [cpu EXCEPT !.irq = i, !.fiq = f, !.iMask = @ /\ ~ open, !.fMask = @ /\ ~ open]
  BY Zenon DEF Rerun
<1> DEFINE im == cpu.iMask /\ ~ open
           fm == cpu.fMask /\ ~ open
<1>2. im \in BOOLEAN /\ fm \in BOOLEAN
  BY Zenon
<1>3. cpu' = [cpu EXCEPT !.irq = i, !.fiq = f, !.iMask = im, !.fMask = fm]
  BY <1>1
<1> HIDE DEF im, fm
<1>4. cpu' \in Cpu
  BY <1>2, <1>3, Parts, ZenonT(30) DEF Cpu
<1>5. cpu'.blocked => cpu'.halted
  BY <1>3, Parts DEF Cpu
<1>6. FileOK'
  BY FileKept DEF Rerun
<1>7. /\ unknown' = unknown /\ trace' = trace /\ fuel' = fuel /\ report' = "none"
      /\ prior' = report /\ frames' = frames /\ arch' = arch /\ astray' = astray
  BY DEF Rerun, hist
<1>8. runs' \in 1 .. MaxRuns
  BY BoundsAssumption DEF TypeOK, Rerun
<1>9. report' \in Reasons \cup {"none"} /\ prior' \in Reasons \cup {"none"}
  BY <1>7 DEF TypeOK
<1> QED
  BY <1>4, <1>5, <1>6, <1>7, <1>8, <1>9, Zenon DEF TypeOK, FileOK

LEMMA SerialisedType ==
  ASSUME NEW c \in Cpu
  PROVE  /\ Serialised(c) \in Cpu
         /\ Serialised(c).blocked = c.blocked /\ Serialised(c).halted = c.halted
<1>1. NoIT \in ITState /\ FALSE \in BOOLEAN
  BY DEF NoIT, ITState
<1>2. Serialised(c) \in Cpu
  BY <1>1, ZenonT(30) DEF Serialised, Cpu
<1> QED
  BY <1>2 DEF Serialised, Cpu

LEMMA SaveType ==
  ASSUME TypeOK, Save
  PROVE  TypeOK'
<1>1. /\ kept' = Now /\ file' = [cpu |-> Serialised(cpu), unknown |-> unknown]
      /\ report \in Reasons
  BY DEF Save, TypeOK
<1>2. Now \in Kept
  BY <1>1, Parts, Zenon DEF Now, Kept
<1>3. Now.cpu = cpu /\ Now.unknown = unknown
  BY DEF Now
<1>4. FileOK'
  BY <1>1, <1>2, <1>3, Parts DEF FileOK
<1>5. /\ cpu' = cpu /\ unknown' = unknown /\ trace' = trace /\ fuel' = fuel /\ report' = report
      /\ runs' = runs /\ prior' = prior /\ frames' = frames /\ arch' = arch /\ astray' = astray
  BY DEF Save, run, hist
<1> QED
  BY <1>4, <1>5, Zenon DEF TypeOK, FileOK

LEMMA ResumeType ==
  ASSUME TypeOK, Resume
  PROVE  TypeOK'
<1>1. FileOK /\ file # None
  BY DEF TypeOK, FileOK, Resume
<1>2. /\ kept \in Kept /\ (kept.cpu.blocked => kept.cpu.halted)
      /\ file.cpu = Serialised(kept.cpu) /\ file.unknown = kept.unknown
  BY <1>1 DEF FileOK
<1>3. /\ kept.cpu \in Cpu /\ kept.unknown \in BOOLEAN /\ kept.frames \in Seq(Frame)
      /\ kept.arch \in ITState /\ kept.astray \in BOOLEAN /\ kept.report \in Reasons
  BY <1>2 DEF Kept
<1>4. cpu' \in Cpu /\ (cpu'.blocked => cpu'.halted)
  BY <1>2, <1>3, SerialisedType DEF Resume
<1> DEFINE fs == kept.frames
           e  == kept.cpu.it = NoIT
           gs == [i \in DOMAIN fs |-> [fs[i] EXCEPT !.still = @ /\ e]]
<1>5. frames' = gs
  BY DEF Resume
<1>6. \A i \in DOMAIN fs : gs[i] \in Frame
  <2> TAKE i \in DOMAIN fs
  <2> DEFINE b == fs[i].still /\ e
  <2>1. fs[i] \in Frame /\ gs[i] = [fs[i] EXCEPT !.still = b]
    BY <1>3
  <2>2. b \in BOOLEAN
    BY Zenon
  <2> HIDE DEF b, gs, fs, e
  <2> QED BY <2>1, <2>2, FrameUpdate
<1>7. gs = [i \in DOMAIN fs |-> gs[i]]
  OBVIOUS
<1> HIDE DEF gs
<1>8. frames' \in Seq(Frame)
  BY <1>3, <1>5, <1>6, <1>7, FramesType
<1>9. FileOK'
  BY FileKept DEF Resume
<1>10. unknown' \in BOOLEAN /\ arch' \in ITState /\ trace' = {} /\ fuel' = fuel
  BY <1>2, <1>3 DEF Resume
<1>11. astray' \in BOOLEAN
  BY Zenon DEF Resume
<1>12. report' = "none" /\ prior' \in Reasons
  BY <1>3 DEF Resume
<1>13. runs' \in 1 .. MaxRuns /\ fuel' \in 0 .. Fuel
  BY <1>10, BoundsAssumption DEF TypeOK, Resume
<1>14. report' \in Reasons \cup {"none"} /\ prior' \in Reasons \cup {"none"}
  BY <1>12
<1>15. trace' \subseteq {"unsupported", "unknown"} /\ ("unknown" \in trace' => unknown')
  BY <1>10
<1> QED
  BY <1>4, <1>8, <1>9, <1>10, <1>11, <1>13, <1>14, <1>15, Zenon DEF TypeOK, FileOK

LEMMA InitType ==
  ASSUME Init
  PROVE  TypeOK
<1>1. PICK t \in BOOLEAN : cpu = Reset(t)
  BY DEF Init
<1>2. /\ 0 \in Address /\ 0 \in Stack /\ NoIT \in ITState /\ "svc" \in Modes
      /\ TRUE \in BOOLEAN /\ FALSE \in BOOLEAN
  BY BoundsAssumption DEF Address, Stack, NoIT, ITState, Modes
<1>3. [m \in Modes |-> [sp |-> 0, lr |-> 0]] \in [Modes -> Bank]
  BY <1>2 DEF Bank
<1>4. [m \in Modes |-> ZeroPsr] \in [Modes -> Psr]
  BY DEF ZeroPsr, Psr, Modes
<1>5. cpu \in Cpu
  BY <1>1, <1>2, <1>3, <1>4, ZenonT(30) DEF Reset, Cpu
<1>6. ~ cpu.blocked
  BY <1>1 DEF Reset
<1>7. fuel \in 0 .. Fuel /\ runs \in 1 .. MaxRuns
  BY BoundsAssumption DEF Init
<1>8. frames \in Seq(Frame) /\ trace = {} /\ arch \in ITState
  BY <1>2 DEF Init
<1>9. /\ unknown \in BOOLEAN /\ astray \in BOOLEAN
      /\ report \in Reasons \cup {"none"} /\ prior \in Reasons \cup {"none"}
  BY DEF Init
<1>10. file = None /\ kept = None
  BY DEF Init
<1> QED
  BY <1>5, <1>6, <1>7, <1>8, <1>9, <1>10 DEF TypeOK

LEMMA StutterType ==
  ASSUME TypeOK, UNCHANGED vars
  PROVE  TypeOK'
<1>1. FileOK'
  BY FileKept DEF vars, disk
<1>2. /\ cpu' = cpu /\ unknown' = unknown /\ trace' = trace /\ fuel' = fuel /\ report' = report
      /\ runs' = runs /\ prior' = prior /\ frames' = frames /\ arch' = arch /\ astray' = astray
  BY DEF vars
<1> QED
  BY <1>1, <1>2, Zenon DEF TypeOK, FileOK

\* Whatever firmware runs, in however many runs and resumed processes, every variable
\* keeps its type: the registers, the banked ones and those of a checkpoint too.
THEOREM TypeCorrect == Spec => []TypeOK
<1>1. Init => TypeOK
  BY InitType
<1>2. TypeOK /\ [Next]_vars => TypeOK'
  <2> SUFFICES ASSUME TypeOK, [Next]_vars
               PROVE  TypeOK'
    OBVIOUS
  <2>1. CASE Instruction
    BY <2>1, SkipType, StraightType, SetSpType, SetLrType, UnknownAccessType, BranchLinkType,
       CoprocessorReadType, InterworkType, SelfBranchType, FetchFaultType, IfThenType, CpsType, MsrType, LdrexType,
       StrexType, SvcType, UndefinedType, AbortType, ReturnType, Zenon DEF Instruction
  <2>2. CASE \E kind \in {"irq", "fiq"} : Interrupt(kind)
    BY <2>2, InterruptType, Zenon
  <2>3. CASE End \/ Rerun \/ Save \/ Resume
    BY <2>3, EndType, RerunType, SaveType, ResumeType
  <2>4. CASE UNCHANGED vars
    BY <2>4, StutterType
  <2> QED
    BY <2>1, <2>2, <2>3, <2>4, Zenon DEF Next
<1> QED
  BY <1>1, <1>2, PTL DEF Spec

-----------------------------------------------------------------------------
(***************************************************************************)
(* Checkpoints and stop reasons.                                           *)
(***************************************************************************)

\* Between IT blocks and with the monitor closed nothing of the processor is lost.
LEMMA SerialisedSame ==
  ASSUME NEW c \in Cpu, c.it = NoIT, ~ c.excl
  PROVE  Serialised(c) = c
<1>1. c.excl = FALSE
  BY DEF Cpu
<1> QED
  BY <1>1, ZenonT(30) DEF Serialised, Cpu

\* A run resumed from a checkpoint taken outside IT blocks, with the exclusive monitor
\* closed, starts in the state the checkpoint was taken in: everything else of the
\* processor goes through the file, whatever this process did since.
THEOREM ResumeIsTransparent == Spec => ResumeTransparent
<1>1. TypeOK /\ [Next]_vars
        => [ Resume /\ kept.cpu.it = NoIT /\ ~ kept.cpu.excl
             => cpu' = kept.cpu /\ unknown' = kept.unknown ]_vars
  <2> SUFFICES ASSUME TypeOK, Resume, kept.cpu.it = NoIT, ~ kept.cpu.excl
               PROVE  cpu' = kept.cpu /\ unknown' = kept.unknown
    OBVIOUS
  <2>1. FileOK /\ file # None
    BY DEF TypeOK, FileOK, Resume
  <2>2. kept.cpu \in Cpu /\ file.cpu = Serialised(kept.cpu) /\ file.unknown = kept.unknown
    BY <2>1 DEF FileOK, Kept
  <2> QED
    BY <2>2, SerialisedSame DEF Resume
<1> QED
  BY <1>1, TypeCorrect, PTL DEF Spec, ResumeTransparent

\* What a stop reason says of the processor and of the unknown accesses.
Bears(reason, c, u) ==
  /\ reason = "halted" => c.halted /\ ~ c.blocked
  /\ reason = "blockedFrontier" => c.blocked
  /\ reason = "unknownMmio" => u

\* The state a run starts in, and the one a checkpoint was taken in, bear the verdict
\* they were given. A halted processor executes nothing, so no event joins the trace.
VerdictInv ==
  /\ Bears(prior, cpu, unknown)
  /\ prior \in {"halted", "blockedFrontier"} => "unsupported" \notin trace
  /\ kept # None => Bears(kept.report, kept.cpu, kept.unknown)
  /\ report # "none" => report = StopReason

\* What every instruction and interrupt leaves alone; an unknown access is not forgotten.
Steps == Running /\ Spend /\ UNCHANGED disk /\ (unknown => unknown')

LEMMA OrdinarySteps ==
  ASSUME Executes, NEW c, NEW fs, Ordinary(c, fs)
  PROVE  Steps
  BY DEF Steps, Ordinary, Commit, Executes, Fetches

LEMMA CommitSteps ==
  ASSUME Executes, NEW c, NEW events, NEW fs, NEW it, NEW strays,
         Commit(c, events, fs, it, strays), unknown => unknown'
  PROVE  Steps
  BY DEF Steps, Commit, Executes, Fetches

LEMMA RaiseSteps ==
  ASSUME NEW found, NEW fs, NEW kind, NEW ret, NEW resume, NEW events, NEW ait,
         Raise(found, fs, kind, ret, resume, events, ait)
  PROVE  Steps
  BY DEF Steps, Raise, Executes, Fetches

LEMMA StepFacts ==
  ASSUME Instruction \/ \E kind \in {"irq", "fiq"} : Interrupt(kind)
  PROVE  Steps
<1>1. CASE \E kind \in {"irq", "fiq"} : Interrupt(kind)
  BY <1>1 DEF Interrupt, Steps
<1>2. CASE Skip
  BY <1>2 DEF Skip, Steps, Fetches
<1>3. CASE FetchFault
  BY <1>3 DEF FetchFault, Steps, Fetches
<1>4. CASE Msr
  BY <1>4 DEF Msr, Steps, Executes, Fetches
<1>5. CASE Straight \/ SetSp \/ SetLr \/ BranchLink \/ Interwork
  BY <1>5, OrdinarySteps, Zenon DEF Straight, SetSp, SetLr, BranchLink, Interwork
<1>6. CASE SelfBranch \/ Cps \/ Ldrex \/ Strex
  BY <1>6, OrdinarySteps, Zenon DEF SelfBranch, Cps, Ldrex, Strex
<1>7. CASE UnknownAccess \/ CoprocessorRead
  <2>1. CASE UnknownAccess
    BY <2>1, CommitSteps, Zenon DEF UnknownAccess
  <2>2. CASE CoprocessorRead
    <3>1. unknown => unknown'
      BY <2>2 DEF CoprocessorRead
    <3> QED
      BY <2>2, <3>1, CommitSteps, Zenon DEF CoprocessorRead
  <2> QED
    BY <1>7, <2>1, <2>2
<1>8. CASE IfThen
  BY <1>8, CommitSteps, Zenon DEF IfThen
<1>9. CASE Svc \/ Abort
  BY <1>9, RaiseSteps, Zenon DEF Svc, Abort
<1>10. CASE Undefined
  <2>1. CASE \E ret, events, ait : Raise(cpu, frames, "undef", ret, ret, events, ait)
    BY <2>1, RaiseSteps, Zenon
  <2>2. CASE /\ Executes /\ unknown' = unknown
             /\ \E c, it : Commit(c, {"unsupported"}, frames, it, FALSE)
    BY <2>2, CommitSteps, Zenon
  <2> QED
    BY <1>10, <2>1, <2>2, Zenon DEF Undefined
<1>11. CASE \E n \in {0, 4, 8} : Return(n)
  BY <1>11 DEF Return, Steps, Executes, Fetches
<1> QED
  BY <1>1, <1>2, <1>3, <1>4, <1>5, <1>6, <1>7, <1>8, <1>9, <1>10, <1>11, Zenon DEF Instruction

LEMMA StepVerdict ==
  ASSUME TypeOK, VerdictInv, Running, Spend, UNCHANGED disk, unknown => unknown'
  PROVE  VerdictInv'
<1>1. ~ cpu.halted /\ ~ cpu.blocked
  BY DEF Running, TypeOK
<1>2. prior \notin {"halted", "blockedFrontier"}
  BY <1>1 DEF VerdictInv, Bears
<1>3. prior' = prior /\ report' = "none" /\ kept' = kept
  BY DEF Running, Spend, disk
<1>4. prior' = "unknownMmio" => unknown'
  BY <1>3 DEF VerdictInv, Bears
<1>5. kept' # None => Bears(kept'.report, kept'.cpu, kept'.unknown)
  BY <1>3, Zenon DEF VerdictInv
<1> QED
  BY <1>2, <1>3, <1>4, <1>5, Zenon DEF VerdictInv, Bears

\* A reason just computed is borne by the state it was computed of.
LEMMA ReasonBears ==
  /\ Bears(StopReason, cpu, unknown)
  /\ StopReason \in {"halted", "blockedFrontier"} => "unsupported" \notin trace
  BY DEF StopReason, Bears

LEMMA RunVerdict ==
  ASSUME TypeOK, VerdictInv, End \/ Rerun \/ Save \/ Resume \/ UNCHANGED vars
  PROVE  VerdictInv'
<1>1. CASE End
  <2>1. /\ cpu' = cpu /\ unknown' = unknown /\ trace' = trace /\ prior' = prior
        /\ kept' = kept /\ report' = StopReason
    BY <1>1 DEF End, disk
  <2>2. StopReason' = StopReason
    BY <2>1 DEF StopReason
  <2> QED
    BY <2>1, <2>2, Zenon DEF VerdictInv
<1>2. CASE Rerun
  <2>1. PICK i \in BOOLEAN, f \in BOOLEAN, open \in BOOLEAN :
          cpu' = [cpu EXCEPT !.irq = i, !.fiq = f, !.iMask = @ /\ ~ open, !.fMask = @ /\ ~ open]
    BY <1>2, Zenon DEF Rerun
  <2>2. cpu'.halted = cpu.halted /\ cpu'.blocked = cpu.blocked
    BY <2>1, Parts DEF Cpu
  <2>3. /\ unknown' = unknown /\ trace' = trace /\ prior' = report /\ kept' = kept
        /\ report' = "none" /\ report = StopReason
    BY <1>2 DEF Rerun, disk, VerdictInv
  <2>4. Bears(prior', cpu', unknown')
    BY <2>2, <2>3, ReasonBears DEF Bears
  <2>5. prior' \in {"halted", "blockedFrontier"} => "unsupported" \notin trace'
    BY <2>3, ReasonBears
  <2> QED
    BY <2>3, <2>4, <2>5, Zenon DEF VerdictInv
<1>3. CASE Save
  <2>1. /\ cpu' = cpu /\ unknown' = unknown /\ trace' = trace /\ prior' = prior
        /\ kept' = Now /\ report' = report /\ report = StopReason
    BY <1>3 DEF Save, run, VerdictInv
  <2>2. Now.report = report /\ Now.cpu = cpu /\ Now.unknown = unknown
    BY DEF Now
  <2>3. Bears(Now.report, Now.cpu, Now.unknown)
    BY <2>1, <2>2, ReasonBears
  <2>4. StopReason' = StopReason
    BY <2>1 DEF StopReason
  <2> QED
    BY <2>1, <2>3, <2>4, Zenon DEF VerdictInv
<1>4. CASE Resume
  <2>1. FileOK /\ file # None
    BY <1>4 DEF TypeOK, FileOK, Resume
  <2>2. /\ kept # None /\ kept \in Kept
        /\ file.cpu = Serialised(kept.cpu) /\ file.unknown = kept.unknown
    <3>1. kept \in Kept /\ file.cpu = Serialised(kept.cpu) /\ file.unknown = kept.unknown
      BY <2>1 DEF FileOK
    <3>2. kept # None
      BY <3>1 DEF Kept, None
    <3> QED BY <3>1, <3>2
  <2>3. /\ cpu'.halted = kept.cpu.halted /\ cpu'.blocked = kept.cpu.blocked
        /\ unknown' = kept.unknown
    BY <1>4, <2>2, SerialisedType DEF Resume, Kept
  <2>4. trace' = {} /\ prior' = kept.report /\ kept' = kept /\ report' = "none"
    BY <1>4 DEF Resume, disk
  <2>5. Bears(prior', cpu', unknown')
    BY <2>2, <2>3, <2>4 DEF VerdictInv, Bears
  <2> QED
    BY <2>4, <2>5 DEF VerdictInv
<1>5. CASE UNCHANGED vars
  <2>1. /\ cpu' = cpu /\ unknown' = unknown /\ trace' = trace /\ prior' = prior
        /\ kept' = kept /\ report' = report
    BY <1>5 DEF vars, run, disk
  <2>2. StopReason' = StopReason
    BY <2>1 DEF StopReason
  <2> QED
    BY <2>1, <2>2, Zenon DEF VerdictInv
<1> QED
  BY <1>1, <1>2, <1>3, <1>4, <1>5

\* A verdict stands when the state it was given for is run again, in the same process or
\* from a checkpoint, whatever happened to this process and the file in between.
THEOREM VerdictsStand == Spec => []VerdictStands
<1>1. Init => VerdictInv
  BY DEF Init, VerdictInv, Bears
<1>2. TypeOK /\ VerdictInv /\ [Next]_vars => VerdictInv'
  BY StepFacts, StepVerdict, RunVerdict, Zenon DEF Next, Steps
<1>3. TypeOK /\ VerdictInv => VerdictStands
  BY DEF TypeOK, VerdictInv, Bears, VerdictStands, StopReason
<1> QED
  BY <1>1, <1>2, <1>3, TypeCorrect, PTL DEF Spec

-----------------------------------------------------------------------------
(***************************************************************************)
(* What the frames say of the processor.                                   *)
(***************************************************************************)
SpOf(c, m) == IF m = c.mode THEN c.sp ELSE c.bank[m].sp
LrOf(c, m) == IF m = c.mode THEN c.lr ELSE c.bank[m].lr

\* The registers of an intact frame hold what its handler's return needs.
Holding(c, f) ==
  /\ c.spsr[f.mode] = f.ctx.psr
  /\ ~ (f.kind = "dabt" /\ f.ctx.psr.tbit) => LrOf(c, f.mode) = Plus(f.resume, Offset(f.kind))
  /\ SpOf(c, f.ctx.psr.mode) = f.ctx.sp
  /\ f.mode # f.ctx.psr.mode => LrOf(c, f.ctx.psr.mode) = f.ctx.lr

\* The frames are nested: each handler runs in the mode its exception entered. An IRQ was
\* taken with IRQ unmasked, and while its handler has not unmasked it, it is masked now
\* and was at every exception since.
FramesHold(c, fs) ==
  /\ 1 \in DOMAIN fs => fs[1].mode = c.mode
  /\ \A i \in DOMAIN fs : i + 1 \in DOMAIN fs => fs[i].ctx.psr.mode = fs[i + 1].mode
  /\ \A i \in DOMAIN fs : fs[i].intact => Holding(c, fs[i])
  /\ \A i \in DOMAIN fs : fs[i].intact /\ fs[i].still => c.it = fs[i].it
  /\ \A i \in DOMAIN fs : fs[i].kind = "irq" => ~ fs[i].ctx.psr.iMask
  /\ \A i \in DOMAIN fs : fs[i].kind = "irq" /\ fs[i].masked =>
       c.iMask /\ \A j \in DOMAIN fs : j < i => fs[j].ctx.psr.iMask

\* A frame that says no more than another.
Weaker(g, f) ==
  /\ g.kind = f.kind /\ g.mode = f.mode /\ g.ctx = f.ctx /\ g.resume = f.resume /\ g.it = f.it
  /\ g.intact => f.intact
  /\ g.still => f.still
  /\ g.masked => f.masked

\* A step from c and fs to d and gs that keeps the mode and marks what it touches; the
\* IT state may change under a frame that is not still.
Marks(c, fs, d, gs) ==
  /\ d.mode = c.mode /\ d.bank = c.bank /\ d.spsr = c.spsr
  /\ DOMAIN gs = DOMAIN fs
  /\ \A i \in DOMAIN fs :
       /\ Weaker(gs[i], fs[i])
       /\ d.sp = c.sp \/ (gs[i].intact => fs[i].ctx.psr.mode # c.mode)
       /\ d.lr = c.lr \/ (gs[i].intact => c.mode \notin {fs[i].mode, fs[i].ctx.psr.mode})
       /\ (c.iMask => d.iMask) \/ ~ gs[i].masked
KeepsIT(c, d, gs) == d.it = c.it \/ \A i \in DOMAIN gs : ~ gs[i].still

LEMMA HoldingKept ==
  ASSUME NEW c, NEW d, NEW f, NEW g, Weaker(g, f), Holding(c, f),
         d.mode = c.mode, d.bank = c.bank, d.spsr = c.spsr,
         d.sp = c.sp \/ f.ctx.psr.mode # c.mode,
         d.lr = c.lr \/ c.mode \notin {f.mode, f.ctx.psr.mode}
  PROVE  Holding(d, g)
  BY DEF Weaker, Holding, SpOf, LrOf

LEMMA FramesMarked ==
  ASSUME NEW c, NEW fs, NEW d, NEW gs, FramesHold(c, fs), Marks(c, fs, d, gs),
         KeepsIT(c, d, gs)
  PROVE  FramesHold(d, gs)
<1>1. \A i \in DOMAIN fs : Weaker(gs[i], fs[i])
  BY DEF Marks
<1>2. DOMAIN gs = DOMAIN fs /\ d.mode = c.mode
  BY DEF Marks
<1>3. \A i \in DOMAIN fs : gs[i].intact => Holding(d, gs[i])
  <2> TAKE i \in DOMAIN fs
  <2> HAVE gs[i].intact
  <2>1. Holding(c, fs[i])
    BY <1>1 DEF Weaker, FramesHold
  <2> QED
    BY <1>1, <2>1, HoldingKept, Zenon DEF Marks
<1>4. 1 \in DOMAIN gs => gs[1].mode = d.mode
  BY <1>1, <1>2 DEF FramesHold, Weaker
<1>5. \A i \in DOMAIN gs : i + 1 \in DOMAIN gs => gs[i].ctx.psr.mode = gs[i + 1].mode
  BY <1>1, <1>2 DEF FramesHold, Weaker
<1>6. \A i \in DOMAIN gs : gs[i].intact /\ gs[i].still => d.it = gs[i].it
  <2> TAKE i \in DOMAIN gs
  <2> QED BY <1>1, <1>2 DEF FramesHold, Weaker, KeepsIT
<1>7. \A i \in DOMAIN gs : gs[i].kind = "irq" => ~ gs[i].ctx.psr.iMask
  <2> TAKE i \in DOMAIN gs
  <2> QED BY <1>1, <1>2, Zenon DEF FramesHold, Weaker
<1>8. \A i \in DOMAIN gs : gs[i].kind = "irq" /\ gs[i].masked =>
        d.iMask /\ \A j \in DOMAIN gs : j < i => gs[j].ctx.psr.iMask
  <2> TAKE i \in DOMAIN gs
  <2> HAVE gs[i].kind = "irq" /\ gs[i].masked
  <2>1. fs[i].kind = "irq" /\ fs[i].masked
    BY <1>1, <1>2 DEF Weaker
  <2>2. c.iMask /\ \A j \in DOMAIN fs : j < i => fs[j].ctx.psr.iMask
    BY <1>2, <2>1 DEF FramesHold
  <2>3. d.iMask
    BY <1>2, <2>2 DEF Marks
  <2>4. \A j \in DOMAIN gs : j < i => gs[j].ctx.psr.iMask
    <3> TAKE j \in DOMAIN gs
    <3>1. gs[j].ctx = fs[j].ctx
      BY <1>1, <1>2 DEF Weaker
    <3> QED BY <1>2, <2>2, <3>1
  <2> QED BY <2>3, <2>4
<1> QED
  BY <1>2, <1>3, <1>4, <1>5, <1>6, <1>7, <1>8 DEF FramesHold

\* Switching modes changes which copy of SP and LR a mode uses, and no value.
LEMMA SwitchModeKeeps ==
  ASSUME NEW c \in Cpu, NEW m \in Modes
  PROVE  LET d == SwitchMode(c, m) IN
         /\ d.mode = m /\ d.spsr = c.spsr /\ d.it = c.it /\ d.iMask = c.iMask
         /\ \A x \in Modes : SpOf(d, x) = SpOf(c, x) /\ LrOf(d, x) = LrOf(c, x)
<1>1. c.mode \in Modes /\ c.bank \in [Modes -> Bank]
  BY DEF Cpu
<1>2. CASE m = c.mode
  BY <1>2 DEF SwitchMode
<1>3. CASE m # c.mode
  <2> DEFINE b == [sp |-> c.sp, lr |-> c.lr]
             d == [c EXCEPT !.bank[c.mode] = b, !.sp = c.bank[m].sp, !.lr = c.bank[m].lr,
                            !.mode = m]
  <2>1. SwitchMode(c, m) = d
    BY <1>3 DEF SwitchMode
  <2>2. /\ d.mode = m /\ d.spsr = c.spsr /\ d.it = c.it /\ d.iMask = c.iMask
        /\ d.sp = c.bank[m].sp /\ d.lr = c.bank[m].lr
        /\ d.bank = [c.bank EXCEPT ![c.mode] = b]
    <3> HIDE DEF b
    <3> QED BY DEF Cpu
  <2> HIDE DEF d
  <2>3. \A x \in Modes : SpOf(d, x) = SpOf(c, x) /\ LrOf(d, x) = LrOf(c, x)
    BY <1>1, <1>3, <2>2 DEF SpOf, LrOf
  <2> QED
    BY <2>1, <2>2, <2>3
<1> QED
  BY <1>2, <1>3

\* What taking an exception leaves of every mode's registers.
Took(c, d, m, ret) ==
  /\ d.mode = m /\ d.iMask = TRUE /\ d.it = c.it
  /\ d.spsr = [c.spsr EXCEPT ![m] = PackCpsr(c)]
  /\ LrOf(d, m) = ret
  /\ \A x \in Modes : SpOf(d, x) = SpOf(c, x) /\ (x # m => LrOf(d, x) = LrOf(c, x))

LEMMA TakeExceptionKeeps ==
  ASSUME NEW c \in Cpu, NEW kind \in Kinds, NEW ret \in Address
  PROVE  Took(c, TakeException(c, kind, ret), ModeOf(kind), ret)
<1> DEFINE m == ModeOf(kind)
           d == TakeException(c, kind, ret)
           s == [c EXCEPT !.spsr[m] = PackCpsr(c)]
           e == SwitchMode(s, m)
           f == (kind = "fiq") \/ c.fMask
<1>1. m \in Modes
  BY KindTypes
<1>2. /\ s.spsr = [c.spsr EXCEPT ![m] = PackCpsr(c)] /\ s.it = c.it /\ s.mode = c.mode
      /\ s.bank = c.bank /\ s.sp = c.sp /\ s.lr = c.lr
  <2> HIDE DEF m
  <2> QED BY DEF Cpu
<1>3. s \in Cpu
  <2>1. [c.spsr EXCEPT ![m] = PackCpsr(c)] \in [Modes -> Psr]
    BY PackCpsrType DEF Cpu
  <2> HIDE DEF m
  <2> QED BY <2>1, ZenonT(60) DEF Cpu
<1>4. \A x \in Modes : SpOf(s, x) = SpOf(c, x) /\ LrOf(s, x) = LrOf(c, x)
  BY <1>2 DEF SpOf, LrOf
<1> HIDE DEF s
<1>5. /\ e \in Cpu /\ e.mode = m /\ e.spsr = s.spsr /\ e.it = s.it
      /\ \A x \in Modes : SpOf(e, x) = SpOf(s, x) /\ LrOf(e, x) = LrOf(s, x)
  BY <1>1, <1>3, SwitchModeKeeps, SwitchModeType
<1>6. d = [e EXCEPT !.lr = ret, !.iMask = TRUE, !.fMask = f, !.pc = Vector(kind), !.tbit = FALSE]
  BY DEF TakeException, s
<1> HIDE DEF e, d, f, m
<1>7. /\ d.mode = e.mode /\ d.spsr = e.spsr /\ d.it = e.it /\ d.iMask = TRUE /\ d.lr = ret
      /\ d.sp = e.sp /\ d.bank = e.bank
  BY <1>5, <1>6 DEF Cpu
<1>8. LrOf(d, m) = ret /\ \A x \in Modes : SpOf(d, x) = SpOf(e, x) /\ (x # m => LrOf(d, x) = LrOf(e, x))
  BY <1>5, <1>7 DEF SpOf, LrOf
<1>9. /\ d.mode = m /\ d.iMask = TRUE /\ d.it = c.it
      /\ d.spsr = [c.spsr EXCEPT ![m] = PackCpsr(c)]
      /\ \A x \in Modes : SpOf(d, x) = SpOf(c, x) /\ (x # m => LrOf(d, x) = LrOf(c, x))
  BY <1>2, <1>4, <1>5, <1>7, <1>8
<1> QED
  BY <1>8, <1>9 DEF d, m, Took

\* The frame f of an exception goes on the frames fs of the state c it was taken in.
LEMMA FramesPushed ==
  ASSUME NEW c \in Cpu, NEW d, NEW fs \in Seq(Frame), NEW f \in Frame, NEW m \in Modes,
         f.mode = m, f.ctx = Context(c), f.it = d.it, FramesHold(c, fs),
         d.mode = m, d.iMask = TRUE, d.spsr = [c.spsr EXCEPT ![m] = PackCpsr(c)],
         \/ LrOf(d, m) = Plus(f.resume, Offset(f.kind))
         \/ f.kind = "dabt" /\ c.tbit,
         \A x \in Modes : SpOf(d, x) = SpOf(c, x) /\ (x # m => LrOf(d, x) = LrOf(c, x)),
         f.kind = "irq" => ~ c.iMask,
         d.it = c.it \/ \A i \in DOMAIN fs : ~ fs[i].still
  PROVE  FramesHold(d, <<f>> \o LrWritten(fs, m))
<1> DEFINE ws == LrWritten(fs, m)
           gs == <<f>> \o ws
<1>1. /\ ws \in Seq(Frame) /\ DOMAIN ws = DOMAIN fs
      /\ \A i \in DOMAIN fs : Weaker(ws[i], fs[i])
                              /\ (ws[i].intact => m \notin {fs[i].mode, fs[i].ctx.psr.mode})
  <2>1. ws \in Seq(Frame) /\ DOMAIN ws = DOMAIN fs
    BY LrWrittenType DEF LrWritten
  <2>2. ASSUME NEW i \in DOMAIN fs
        PROVE  Weaker(ws[i], fs[i]) /\ (ws[i].intact => m \notin {fs[i].mode, fs[i].ctx.psr.mode})
    <3>1. fs[i] \in Frame
      OBVIOUS
    <3>2. ws[i] = [fs[i] EXCEPT !.intact = @ /\ m \notin {fs[i].mode, fs[i].ctx.psr.mode}]
      BY DEF LrWritten
    <3> HIDE DEF ws
    <3> QED BY <3>1, <3>2 DEF Weaker, Frame
  <2> QED BY <2>1, <2>2
<1> HIDE DEF ws
<1>2. gs[1] = f /\ 1 \in DOMAIN gs
  BY <1>1
<1>3. \A k \in DOMAIN gs : k = 1 \/ (k - 1 \in DOMAIN fs /\ gs[k] = ws[k - 1] /\ k \in Nat /\ k > 1)
  BY <1>1
<1>4. \A k \in DOMAIN gs : k \in Nat /\ k >= 1 /\ (k # 1 => 1 \in DOMAIN fs)
  BY <1>1
<1> HIDE DEF gs
<1>5. /\ f.ctx.psr.mode = c.mode /\ f.ctx.psr.iMask = c.iMask /\ f.ctx.psr.tbit = c.tbit
      /\ f.ctx.psr = PackCpsr(c) /\ f.ctx.sp = c.sp /\ f.ctx.lr = c.lr
  BY DEF Context, PackCpsr
<1>6. c.mode \in Modes /\ c.spsr \in [Modes -> Psr]
  BY DEF Cpu
<1>7. Holding(d, f)
  <2>1. d.spsr[m] = PackCpsr(c)
    BY <1>6
  <2>2. SpOf(d, c.mode) = c.sp
    BY <1>6 DEF SpOf
  <2>3. m # c.mode => LrOf(d, c.mode) = c.lr
    BY <1>6 DEF LrOf
  <2> QED
    BY <1>5, <2>1, <2>2, <2>3 DEF Holding
<1>8. ASSUME NEW i \in DOMAIN fs, ws[i].intact
      PROVE  Holding(d, ws[i]) /\ (ws[i].still => d.it = ws[i].it)
  <2>1. Holding(c, fs[i]) /\ (ws[i].still => c.it = ws[i].it)
    BY <1>1, <1>8 DEF FramesHold, Weaker
  <2>2. /\ fs[i].mode \in Modes /\ fs[i].ctx.psr.mode \in Modes
        /\ fs[i].mode # m /\ fs[i].ctx.psr.mode # m
    <3>1. fs[i] \in Frame
      OBVIOUS
    <3> QED BY <1>1, <1>8, <3>1 DEF Frame, Psr
  <2>3. d.spsr[fs[i].mode] = c.spsr[fs[i].mode]
    BY <1>6, <2>2
  <2>4. Holding(d, fs[i])
    BY <2>1, <2>2, <2>3 DEF Holding
  <2>5. Holding(d, ws[i])
    BY <1>1, <2>4 DEF Weaker, Holding
  <2>6. ws[i].still => d.it = c.it
    BY <1>1 DEF Weaker
  <2> QED
    BY <2>1, <2>5, <2>6
<1>9. \A k \in DOMAIN gs : gs[k].intact => Holding(d, gs[k]) /\ (gs[k].still => d.it = gs[k].it)
  <2> TAKE k \in DOMAIN gs
  <2>1. CASE k = 1
    BY <1>2, <1>7, <2>1
  <2>2. CASE k # 1
    BY <1>3, <1>8, <2>2
  <2> QED BY <2>1, <2>2
<1>10. \A k \in DOMAIN gs : k + 1 \in DOMAIN gs => gs[k].ctx.psr.mode = gs[k + 1].mode
  <2> SUFFICES ASSUME NEW k \in DOMAIN gs, k + 1 \in DOMAIN gs
               PROVE  gs[k].ctx.psr.mode = gs[k + 1].mode
    OBVIOUS
  <2>1. k \in DOMAIN fs /\ gs[k + 1] = ws[k] /\ gs[k + 1].mode = fs[k].mode
    <3>1. k \in Nat /\ k >= 1 /\ (k + 1) - 1 = k /\ k + 1 # 1
      BY <1>4
    <3>2. k \in DOMAIN fs /\ gs[k + 1] = ws[k]
      BY <1>3, <3>1
    <3> QED BY <1>1, <3>2 DEF Weaker
  <2>2. CASE k = 1
    BY <1>2, <1>5, <2>1, <2>2 DEF FramesHold
  <2>3. CASE k # 1
    <3>1. k - 1 \in DOMAIN fs /\ gs[k].ctx = fs[k - 1].ctx
      BY <1>1, <1>3, <2>3 DEF Weaker
    <3>2. (k - 1) + 1 = k
      BY <1>4
    <3>3. fs[k - 1].ctx.psr.mode = fs[k].mode
      BY <2>1, <3>1, <3>2 DEF FramesHold
    <3> QED BY <2>1, <3>1, <3>3
  <2> QED BY <2>2, <2>3
<1>11. \A k \in DOMAIN gs : gs[k].kind = "irq" => ~ gs[k].ctx.psr.iMask
  <2> TAKE k \in DOMAIN gs
  <2>1. CASE k = 1
    BY <1>2, <1>5, <2>1
  <2>2. CASE k # 1
    BY <1>1, <1>3, <2>2 DEF FramesHold, Weaker
  <2> QED BY <2>1, <2>2
<1>12. \A k \in DOMAIN gs : gs[k].kind = "irq" /\ gs[k].masked =>
         d.iMask /\ \A j \in DOMAIN gs : j < k => gs[j].ctx.psr.iMask
  <2> SUFFICES ASSUME NEW k \in DOMAIN gs, gs[k].kind = "irq", gs[k].masked,
                      NEW j \in DOMAIN gs, j < k
               PROVE  gs[j].ctx.psr.iMask
    OBVIOUS
  <2>1. k # 1
    BY <1>4
  <2>2. k - 1 \in DOMAIN fs /\ fs[k - 1].kind = "irq" /\ fs[k - 1].masked
    BY <1>1, <1>3, <2>1 DEF Weaker
  <2>3. c.iMask /\ \A i \in DOMAIN fs : i < k - 1 => fs[i].ctx.psr.iMask
    BY <2>2 DEF FramesHold
  <2>4. CASE j = 1
    BY <1>2, <1>5, <2>3, <2>4
  <2>5. CASE j # 1
    <3>1. j - 1 \in DOMAIN fs /\ gs[j].ctx = fs[j - 1].ctx /\ j - 1 < k - 1
      BY <1>1, <1>3, <1>4, <2>5 DEF Weaker
    <3> QED BY <2>3, <3>1
  <2> QED BY <2>4, <2>5
<1>13. FramesHold(d, gs)
  BY <1>2, <1>9, <1>10, <1>11, <1>12 DEF FramesHold
<1> QED
  BY <1>13 DEF gs, ws

\* A return takes the frame of its exception off.
LEMMA FramesPopped ==
  ASSUME NEW c, NEW d, NEW fs \in Seq(Frame), fs # <<>>, FramesHold(c, fs),
         d.mode = fs[1].ctx.psr.mode, d.iMask = fs[1].ctx.psr.iMask,
         d.spsr = c.spsr, d.it = c.it,
         \A x \in Modes : SpOf(d, x) = SpOf(c, x) /\ LrOf(d, x) = LrOf(c, x)
  PROVE  FramesHold(d, Tail(fs))
<1> DEFINE gs == Tail(fs)
<1>1. /\ gs \in Seq(Frame) /\ 1 \in DOMAIN fs
      /\ \A i \in DOMAIN gs : i \in Nat /\ i >= 1 /\ i + 1 \in DOMAIN fs /\ gs[i] = fs[i + 1]
                              /\ fs[i + 1] \in Frame
  OBVIOUS
<1> HIDE DEF gs
<1>2. 1 \in DOMAIN gs => gs[1].mode = d.mode
  BY <1>1 DEF FramesHold
<1>3. \A i \in DOMAIN gs : i + 1 \in DOMAIN gs => gs[i].ctx.psr.mode = gs[i + 1].mode
  BY <1>1 DEF FramesHold
<1>4. \A i \in DOMAIN gs : gs[i].intact => Holding(d, gs[i])
  <2> SUFFICES ASSUME NEW i \in DOMAIN gs, gs[i].intact
               PROVE  Holding(d, gs[i])
    OBVIOUS
  <2>1. Holding(c, gs[i])
    BY <1>1 DEF FramesHold
  <2>2. gs[i].mode \in Modes /\ gs[i].ctx.psr.mode \in Modes
    BY <1>1 DEF Frame, Psr
  <2> QED
    BY <2>1, <2>2 DEF Holding
<1>5. \A i \in DOMAIN gs : gs[i].intact /\ gs[i].still => d.it = gs[i].it
  BY <1>1 DEF FramesHold
<1>6. \A i \in DOMAIN gs : gs[i].kind = "irq" => ~ gs[i].ctx.psr.iMask
  BY <1>1 DEF FramesHold
<1>7. \A i \in DOMAIN gs : gs[i].kind = "irq" /\ gs[i].masked =>
        d.iMask /\ \A j \in DOMAIN gs : j < i => gs[j].ctx.psr.iMask
  <2> SUFFICES ASSUME NEW i \in DOMAIN gs, gs[i].kind = "irq", gs[i].masked
               PROVE  d.iMask /\ \A j \in DOMAIN gs : j < i => gs[j].ctx.psr.iMask
    OBVIOUS
  <2>1. \A j \in DOMAIN fs : j < i + 1 => fs[j].ctx.psr.iMask
    BY <1>1 DEF FramesHold
  <2> QED
    BY <1>1, <2>1
<1>8. FramesHold(d, gs)
  BY <1>2, <1>3, <1>4, <1>5, <1>6, <1>7 DEF FramesHold
<1> QED
  BY <1>8 DEF gs

-----------------------------------------------------------------------------
(***************************************************************************)
(* The actions keep what the frames say.                                   *)
(***************************************************************************)

\* What a Thumb instruction does to the frames, and what IT state it leaves.
LEMMA ThumbRanMarks ==
  ASSUME TypeOK, NEW c, NEW d, NEW fs, NEW gs \in Seq(Frame), Marks(c, fs, d, gs)
  PROVE  /\ Marks(c, fs, d, ThumbRan(gs))
         /\ cpu.tbit => \A i \in DOMAIN ThumbRan(gs) : ~ ThumbRan(gs)[i].still
<1> DEFINE hs == ThumbRan(gs)
<1>1. DOMAIN hs = DOMAIN gs /\ DOMAIN gs = DOMAIN fs
  BY DEF ThumbRan, Marks
<1>2. ASSUME NEW i \in DOMAIN gs
      PROVE  /\ Weaker(hs[i], gs[i]) /\ (cpu.tbit => ~ hs[i].still)
  <2>1. gs[i] \in Frame
    OBVIOUS
  <2>2. CASE cpu.tbit
    <3>1. hs[i] = [gs[i] EXCEPT !.still = FALSE]
      BY <2>2 DEF ThumbRan
    <3> HIDE DEF hs
    <3> QED BY <2>1, <3>1 DEF Weaker, Frame
  <2>3. CASE ~ cpu.tbit
    BY <2>3 DEF ThumbRan, Weaker
  <2> QED BY <2>2, <2>3
<1> HIDE DEF hs
<1>3. ASSUME NEW i \in DOMAIN fs
      PROVE  /\ Weaker(hs[i], fs[i])
             /\ d.sp = c.sp \/ (hs[i].intact => fs[i].ctx.psr.mode # c.mode)
             /\ d.lr = c.lr \/ (hs[i].intact => c.mode \notin {fs[i].mode, fs[i].ctx.psr.mode})
             /\ (c.iMask => d.iMask) \/ ~ hs[i].masked
  <2>1. Weaker(hs[i], gs[i])
    BY <1>1, <1>2
  <2>2. /\ Weaker(gs[i], fs[i])
        /\ d.sp = c.sp \/ (gs[i].intact => fs[i].ctx.psr.mode # c.mode)
        /\ d.lr = c.lr \/ (gs[i].intact => c.mode \notin {fs[i].mode, fs[i].ctx.psr.mode})
        /\ (c.iMask => d.iMask) \/ ~ gs[i].masked
    BY DEF Marks
  <2>3. Weaker(hs[i], fs[i])
    BY <2>1, <2>2 DEF Weaker
  <2>4. (hs[i].intact => gs[i].intact) /\ (hs[i].masked => gs[i].masked)
    BY <2>1 DEF Weaker
  <2> QED
    BY <2>2, <2>3, <2>4
<1>4. Marks(c, fs, d, hs)
  BY <1>1, <1>3 DEF Marks
<1>5. cpu.tbit => \A i \in DOMAIN hs : ~ hs[i].still
  BY <1>1, <1>2
<1> QED
  BY <1>4, <1>5 DEF hs

\* The IT state moves on under the frames.
LEMMA AdvancedFrames ==
  ASSUME TypeOK, FramesHold(cpu, frames), NEW c, DOMAIN c = DOMAIN cpu,
         NEW fs \in Seq(Frame), Marks(cpu, frames, c, fs), c.it = cpu.it \/ cpu.tbit
  PROVE  FramesHold(Advanced(c), ThumbRan(fs))
<1> DEFINE d == Advanced(c)
           gs == ThumbRan(fs)
<1>2. /\ d.mode = c.mode /\ d.bank = c.bank /\ d.spsr = c.spsr /\ d.sp = c.sp /\ d.lr = c.lr
      /\ d.iMask = c.iMask /\ (d.it = c.it \/ cpu.tbit)
  <2>1. CASE d = [c EXCEPT !.it = NextIT(@)] /\ InBlock
    <3>1. cpu.tbit
      BY <2>1 DEF InBlock
    <3>2. {"mode", "bank", "spsr", "sp", "lr", "iMask"} \subseteq DOMAIN c
      BY Parts DEF Cpu
    <3> HIDE DEF d
    <3> QED BY <2>1, <3>1, <3>2
  <2>2. CASE d = c
    BY <2>2
  <2> QED BY <2>1, <2>2 DEF Advanced
<1> HIDE DEF d
<1>3. Marks(cpu, frames, d, fs)
  BY <1>2 DEF Marks
<1>4. Marks(cpu, frames, d, gs) /\ (cpu.tbit => \A i \in DOMAIN gs : ~ gs[i].still)
  BY <1>3, ThumbRanMarks
<1>5. KeepsIT(cpu, d, gs)
  BY <1>2, <1>4 DEF KeepsIT
<1> QED
  BY <1>4, <1>5, FramesMarked DEF d

\* An instruction that takes no exception.
LEMMA CommitFrames ==
  ASSUME TypeOK, FramesHold(cpu, frames), NEW c, DOMAIN c = DOMAIN cpu,
         NEW fs \in Seq(Frame), NEW events, NEW it, NEW strays,
         Marks(cpu, frames, c, fs), c.it = cpu.it \/ cpu.tbit, Commit(c, events, fs, it, strays)
  PROVE  FramesHold(cpu', frames')
<1>1. cpu' = Advanced(c) /\ frames' = ThumbRan(fs)
  BY DEF Commit
<1> QED
  BY <1>1, AdvancedFrames

\* An instruction that touches none of the registers frames are held in.
LEMMA PlainMarks ==
  ASSUME NEW c, c.mode = cpu.mode, c.bank = cpu.bank, c.spsr = cpu.spsr, c.sp = cpu.sp,
         c.lr = cpu.lr, c.iMask = cpu.iMask
  PROVE  Marks(cpu, frames, c, frames)
  BY DEF Marks, Weaker

LEMMA SpMarks ==
  ASSUME TypeOK, NEW c, c.mode = cpu.mode, c.bank = cpu.bank, c.spsr = cpu.spsr,
         c.lr = cpu.lr, c.iMask = cpu.iMask
  PROVE  Marks(cpu, frames, c, SpWritten(frames, cpu.mode))
<1> DEFINE gs == SpWritten(frames, cpu.mode)
<1>1. DOMAIN gs = DOMAIN frames
  BY DEF SpWritten
<1>2. ASSUME NEW i \in DOMAIN frames
      PROVE  Weaker(gs[i], frames[i]) /\ (gs[i].intact => frames[i].ctx.psr.mode # cpu.mode)
  <2>1. frames[i] \in Frame
    BY Parts
  <2>2. gs[i] = [frames[i] EXCEPT !.intact = @ /\ frames[i].ctx.psr.mode # cpu.mode]
    BY DEF SpWritten
  <2> HIDE DEF gs
  <2> QED BY <2>1, <2>2 DEF Frame, Weaker
<1> HIDE DEF gs
<1>3. Marks(cpu, frames, c, gs)
  BY <1>1, <1>2 DEF Marks
<1> QED
  BY <1>3 DEF gs

LEMMA LrMarks ==
  ASSUME TypeOK, NEW c, c.mode = cpu.mode, c.bank = cpu.bank, c.spsr = cpu.spsr,
         c.iMask = cpu.iMask
  PROVE  Marks(cpu, frames, c, LrWritten(frames, cpu.mode))
<1> DEFINE gs == LrWritten(frames, cpu.mode)
<1>1. DOMAIN gs = DOMAIN frames
  BY DEF LrWritten
<1>2. ASSUME NEW i \in DOMAIN frames
      PROVE  /\ Weaker(gs[i], frames[i])
             /\ gs[i].intact => cpu.mode \notin {frames[i].mode, frames[i].ctx.psr.mode}
  <2>1. frames[i] \in Frame
    BY Parts
  <2>2. gs[i] = [frames[i] EXCEPT
                   !.intact = @ /\ cpu.mode \notin {frames[i].mode, frames[i].ctx.psr.mode}]
    BY DEF LrWritten
  <2> HIDE DEF gs
  <2> QED BY <2>1, <2>2 DEF Frame, Weaker
<1> HIDE DEF gs
<1>3. Marks(cpu, frames, c, gs)
  BY <1>1, <1>2 DEF Marks
<1> QED
  BY <1>3 DEF gs

LEMMA MaskMarks ==
  ASSUME TypeOK, NEW c, NEW i \in BOOLEAN, c.mode = cpu.mode, c.bank = cpu.bank,
         c.spsr = cpu.spsr, c.sp = cpu.sp, c.lr = cpu.lr, c.iMask = i
  PROVE  Marks(cpu, frames, c, [j \in DOMAIN frames |-> [frames[j] EXCEPT !.masked = @ /\ i]])
<1> DEFINE gs == [j \in DOMAIN frames |-> [frames[j] EXCEPT !.masked = @ /\ i]]
<1>1. DOMAIN gs = DOMAIN frames
  OBVIOUS
<1>2. ASSUME NEW j \in DOMAIN frames
      PROVE  Weaker(gs[j], frames[j]) /\ (gs[j].masked => i)
  <2>1. frames[j] \in Frame
    BY Parts
  <2>2. gs[j] = [frames[j] EXCEPT !.masked = @ /\ i]
    OBVIOUS
  <2> HIDE DEF gs
  <2> QED BY <2>1, <2>2 DEF Frame, Weaker
<1> HIDE DEF gs
<1>3. Marks(cpu, frames, c, gs)
  BY <1>1, <1>2 DEF Marks
<1> QED
  BY <1>3 DEF gs

LEMMA OrdinaryFrames ==
  ASSUME TypeOK, FramesHold(cpu, frames), NEW c, DOMAIN c = DOMAIN cpu,
         NEW fs \in Seq(Frame), Marks(cpu, frames, c, fs), c.it = cpu.it, Ordinary(c, fs)
  PROVE  FramesHold(cpu', frames')
<1>1. Commit(c, {}, fs, ArchAdvanced, FALSE)
  BY DEF Ordinary
<1> QED
  BY <1>1, CommitFrames, Zenon

\* Instructions that touch none of the registers a frame is held in.
LEMMA PlainFrames ==
  ASSUME TypeOK, FramesHold(cpu, frames), NEW c, DOMAIN c = DOMAIN cpu, c.it = cpu.it,
         c.mode = cpu.mode, c.bank = cpu.bank, c.spsr = cpu.spsr, c.sp = cpu.sp,
         c.lr = cpu.lr, c.iMask = cpu.iMask, NEW events, NEW it, NEW strays,
         Commit(c, events, frames, it, strays)
  PROVE  FramesHold(cpu', frames')
<1>1. Marks(cpu, frames, c, frames)
  BY PlainMarks
<1> QED
  BY <1>1, Parts, CommitFrames, Zenon

LEMMA PlainActions ==
  ASSUME TypeOK, FramesHold(cpu, frames),
         Straight \/ UnknownAccess \/ CoprocessorRead \/ Interwork \/ Ldrex \/ Strex
  PROVE  FramesHold(cpu', frames')
<1>1. CASE Straight
  <2>1. PICK n \in Sizes, z \in BOOLEAN :
          Commit([cpu EXCEPT !.pc = Plus(@, n), !.z = z], {}, frames, ArchAdvanced, FALSE)
    BY <1>1, Zenon DEF Straight, Ordinary
  <2> DEFINE c == [cpu EXCEPT !.pc = Plus(@, n), !.z = z]
  <2>2. /\ DOMAIN c = DOMAIN cpu /\ c.it = cpu.it /\ c.mode = cpu.mode /\ c.bank = cpu.bank
        /\ c.spsr = cpu.spsr /\ c.sp = cpu.sp /\ c.lr = cpu.lr /\ c.iMask = cpu.iMask
    BY Parts DEF Cpu
  <2> HIDE DEF c
  <2> QED BY <2>1, <2>2, PlainFrames, Zenon DEF c
<1>2. CASE UnknownAccess
  <2>1. PICK n \in Sizes :
          Commit([cpu EXCEPT !.pc = Plus(@, n)], {"unknown"}, frames, ArchAdvanced, FALSE)
    BY <1>2, Zenon DEF UnknownAccess
  <2> DEFINE c == [cpu EXCEPT !.pc = Plus(@, n)]
  <2>2. /\ DOMAIN c = DOMAIN cpu /\ c.it = cpu.it /\ c.mode = cpu.mode /\ c.bank = cpu.bank
        /\ c.spsr = cpu.spsr /\ c.sp = cpu.sp /\ c.lr = cpu.lr /\ c.iMask = cpu.iMask
    BY Parts DEF Cpu
  <2> HIDE DEF c
  <2> QED BY <2>1, <2>2, PlainFrames, Zenon DEF c
<1>3. CASE Interwork
  <2>1. PICK t \in Targets, thumb \in BOOLEAN :
          Commit([cpu EXCEPT !.pc = t, !.tbit = thumb], {}, frames, ArchAdvanced, FALSE)
    BY <1>3, Zenon DEF Interwork, Ordinary
  <2> DEFINE c == [cpu EXCEPT !.pc = t, !.tbit = thumb]
  <2>2. /\ DOMAIN c = DOMAIN cpu /\ c.it = cpu.it /\ c.mode = cpu.mode /\ c.bank = cpu.bank
        /\ c.spsr = cpu.spsr /\ c.sp = cpu.sp /\ c.lr = cpu.lr /\ c.iMask = cpu.iMask
    BY Parts DEF Cpu
  <2> HIDE DEF c
  <2> QED BY <2>1, <2>2, PlainFrames, Zenon DEF c
<1>4. CASE Ldrex \/ Strex
  <2>1. PICK e \in BOOLEAN :
          Commit([cpu EXCEPT !.pc = Plus(@, 4), !.excl = e], {}, frames, ArchAdvanced, FALSE)
    BY <1>4, Zenon DEF Ldrex, Strex, Ordinary
  <2> DEFINE c == [cpu EXCEPT !.pc = Plus(@, 4), !.excl = e]
  <2>2. /\ DOMAIN c = DOMAIN cpu /\ c.it = cpu.it /\ c.mode = cpu.mode /\ c.bank = cpu.bank
        /\ c.spsr = cpu.spsr /\ c.sp = cpu.sp /\ c.lr = cpu.lr /\ c.iMask = cpu.iMask
    BY Parts DEF Cpu
  <2> HIDE DEF c
  <2> QED BY <2>1, <2>2, PlainFrames, Zenon DEF c
<1>5. CASE CoprocessorRead
  <2> DEFINE c == [cpu EXCEPT !.pc = Plus(@, 4)]
  <2>1. Commit(c, {"unsupported"}, frames, ArchAdvanced, FALSE)
    BY <1>5, Zenon DEF CoprocessorRead
  <2>2. /\ DOMAIN c = DOMAIN cpu /\ c.it = cpu.it /\ c.mode = cpu.mode /\ c.bank = cpu.bank
        /\ c.spsr = cpu.spsr /\ c.sp = cpu.sp /\ c.lr = cpu.lr /\ c.iMask = cpu.iMask
    BY Parts DEF Cpu
  <2> HIDE DEF c
  <2> QED BY <2>1, <2>2, PlainFrames, Zenon
<1> QED
  BY <1>1, <1>2, <1>3, <1>4, <1>5

LEMMA SetSpFrames ==
  ASSUME TypeOK, FramesHold(cpu, frames), SetSp
  PROVE  FramesHold(cpu', frames')
<1>1. PICK n \in Sizes, v \in Sps :
        Ordinary([cpu EXCEPT !.pc = Plus(@, n), !.sp = v], SpWritten(frames, cpu.mode))
  BY Zenon DEF SetSp
<1> DEFINE c == [cpu EXCEPT !.pc = Plus(@, n), !.sp = v]
<1>2. /\ DOMAIN c = DOMAIN cpu /\ c.it = cpu.it /\ c.mode = cpu.mode /\ c.bank = cpu.bank
      /\ c.spsr = cpu.spsr /\ c.lr = cpu.lr /\ c.iMask = cpu.iMask
  BY Parts DEF Cpu
<1> HIDE DEF c
<1>3. Marks(cpu, frames, c, SpWritten(frames, cpu.mode))
  BY <1>2, SpMarks
<1>4. SpWritten(frames, cpu.mode) \in Seq(Frame)
  BY Parts, SpWrittenType
<1> QED
  BY <1>1, <1>2, <1>3, <1>4, OrdinaryFrames, Zenon DEF c

LEMMA SetLrFrames ==
  ASSUME TypeOK, FramesHold(cpu, frames), SetLr
  PROVE  FramesHold(cpu', frames')
<1>1. PICK n \in Sizes, v \in Targets, sp \in Sps \cup {cpu.sp} :
        Ordinary([cpu EXCEPT !.pc = Plus(@, n), !.lr = v, !.sp = sp],
                 LrWritten(frames, cpu.mode))
  BY Zenon DEF SetLr
<1> DEFINE c == [cpu EXCEPT !.pc = Plus(@, n), !.lr = v, !.sp = sp]
<1>2. /\ DOMAIN c = DOMAIN cpu /\ c.it = cpu.it /\ c.mode = cpu.mode /\ c.bank = cpu.bank
      /\ c.spsr = cpu.spsr /\ c.iMask = cpu.iMask
  BY Parts DEF Cpu
<1> HIDE DEF c
<1>3. Marks(cpu, frames, c, LrWritten(frames, cpu.mode))
  BY <1>2, LrMarks
<1>4. LrWritten(frames, cpu.mode) \in Seq(Frame)
  BY Parts, LrWrittenType
<1> QED
  BY <1>1, <1>2, <1>3, <1>4, OrdinaryFrames, Zenon DEF c

LEMMA BranchLinkFrames ==
  ASSUME TypeOK, FramesHold(cpu, frames), BranchLink
  PROVE  FramesHold(cpu', frames')
<1>1. PICK n \in Sizes, t \in Targets, thumb \in BOOLEAN :
        Ordinary([cpu EXCEPT !.pc = t, !.tbit = thumb,
                             !.lr = Plus(cpu.pc, n + (IF cpu.tbit THEN 1 ELSE 0))],
                 LrWritten(frames, cpu.mode))
  BY Zenon DEF BranchLink
<1> DEFINE l == Plus(cpu.pc, n + (IF cpu.tbit THEN 1 ELSE 0))
           c == [cpu EXCEPT !.pc = t, !.tbit = thumb, !.lr = l]
<1> HIDE DEF l
<1>2. /\ DOMAIN c = DOMAIN cpu /\ c.it = cpu.it /\ c.mode = cpu.mode /\ c.bank = cpu.bank
      /\ c.spsr = cpu.spsr /\ c.sp = cpu.sp /\ c.iMask = cpu.iMask
  BY Parts DEF Cpu
<1>3. Ordinary(c, LrWritten(frames, cpu.mode))
  BY <1>1 DEF l
<1> HIDE DEF c
<1>4. Marks(cpu, frames, c, LrWritten(frames, cpu.mode))
  BY <1>2, LrMarks
<1>5. LrWritten(frames, cpu.mode) \in Seq(Frame)
  BY Parts, LrWrittenType
<1> QED
  BY <1>2, <1>3, <1>4, <1>5, OrdinaryFrames, Zenon

LEMMA SelfBranchFrames ==
  ASSUME TypeOK, FramesHold(cpu, frames), SelfBranch
  PROVE  FramesHold(cpu', frames')
<1> DEFINE l == Plus(cpu.pc, IF cpu.tbit THEN 5 ELSE 4)
           c == [cpu EXCEPT !.halted = TRUE, !.blocked = TRUE]
           d == [cpu EXCEPT !.halted = TRUE, !.blocked = TRUE, !.lr = l]
<1>1. Ordinary(c, frames) \/ Ordinary(d, LrWritten(frames, cpu.mode))
  BY DEF SelfBranch
<1> HIDE DEF l
<1>2. /\ DOMAIN c = DOMAIN cpu /\ c.it = cpu.it /\ c.mode = cpu.mode /\ c.bank = cpu.bank
      /\ c.spsr = cpu.spsr /\ c.sp = cpu.sp /\ c.lr = cpu.lr /\ c.iMask = cpu.iMask
  BY Parts DEF Cpu
<1>3. /\ DOMAIN d = DOMAIN cpu /\ d.it = cpu.it /\ d.mode = cpu.mode /\ d.bank = cpu.bank
      /\ d.spsr = cpu.spsr /\ d.sp = cpu.sp /\ d.iMask = cpu.iMask
  BY Parts DEF Cpu
<1> HIDE DEF c, d
<1>4. Marks(cpu, frames, c, frames) /\ Marks(cpu, frames, d, LrWritten(frames, cpu.mode))
  BY <1>2, <1>3, PlainMarks, LrMarks
<1>5. LrWritten(frames, cpu.mode) \in Seq(Frame) /\ frames \in Seq(Frame)
  BY Parts, LrWrittenType
<1> QED
  BY <1>1, <1>2, <1>3, <1>4, <1>5, OrdinaryFrames, Zenon

LEMMA CpsFrames ==
  ASSUME TypeOK, FramesHold(cpu, frames), Cps
  PROVE  FramesHold(cpu', frames')
<1>1. PICK i \in BOOLEAN, f \in BOOLEAN :
        Ordinary([cpu EXCEPT !.pc = Plus(@, 2), !.iMask = i, !.fMask = f],
                 [j \in DOMAIN frames |-> [frames[j] EXCEPT !.masked = @ /\ i]])
  BY Zenon DEF Cps
<1> DEFINE c  == [cpu EXCEPT !.pc = Plus(@, 2), !.iMask = i, !.fMask = f]
           gs == [j \in DOMAIN frames |-> [frames[j] EXCEPT !.masked = @ /\ i]]
<1>2. /\ DOMAIN c = DOMAIN cpu /\ c.it = cpu.it /\ c.mode = cpu.mode /\ c.bank = cpu.bank
      /\ c.spsr = cpu.spsr /\ c.sp = cpu.sp /\ c.lr = cpu.lr /\ c.iMask = i
  BY Parts DEF Cpu
<1> HIDE DEF c
<1>3. Marks(cpu, frames, c, gs)
  BY <1>2, MaskMarks
<1>4. gs \in Seq(Frame)
  BY Parts, MaskedType
<1> HIDE DEF gs
<1> QED
  BY <1>1, <1>2, <1>3, <1>4, OrdinaryFrames, Zenon DEF c, gs

LEMMA IfThenFrames ==
  ASSUME TypeOK, FramesHold(cpu, frames), IfThen
  PROVE  FramesHold(cpu', frames')
<1>1. PICK b \in Blocks : \E strays :
        Commit([cpu EXCEPT !.pc = Plus(@, 2), !.it = b], {}, frames, b, strays)
  BY Zenon DEF IfThen
<1> DEFINE c == [cpu EXCEPT !.pc = Plus(@, 2), !.it = b]
<1>2. /\ DOMAIN c = DOMAIN cpu /\ c.mode = cpu.mode /\ c.bank = cpu.bank
      /\ c.spsr = cpu.spsr /\ c.sp = cpu.sp /\ c.lr = cpu.lr /\ c.iMask = cpu.iMask
  BY Parts DEF Cpu
<1>3. cpu.tbit
  BY DEF IfThen
<1> HIDE DEF c
<1>4. Marks(cpu, frames, c, frames)
  BY <1>2, PlainMarks
<1> QED
  BY <1>1, <1>2, <1>3, <1>4, Parts, CommitFrames, Zenon DEF c

LEMMA SkipFrames ==
  ASSUME TypeOK, FramesHold(cpu, frames), Skip
  PROVE  FramesHold(cpu', frames')
<1>1. PICK n \in Sizes : cpu' = [cpu EXCEPT !.pc = Plus(@, n), !.it = NextIT(@)]
  BY Zenon DEF Skip
<1> DEFINE c == [cpu EXCEPT !.pc = Plus(@, n), !.it = NextIT(@)]
<1>2. /\ c.mode = cpu.mode /\ c.bank = cpu.bank /\ c.spsr = cpu.spsr /\ c.sp = cpu.sp
      /\ c.lr = cpu.lr /\ c.iMask = cpu.iMask
  BY Parts DEF Cpu
<1>3. cpu.tbit /\ frames' = ThumbRan(frames) /\ cpu' = c
  BY <1>1 DEF Skip, Skips, InBlock
<1> HIDE DEF c
<1>4. Marks(cpu, frames, c, frames)
  BY <1>2, PlainMarks
<1>5. Marks(cpu, frames, c, ThumbRan(frames)) /\ KeepsIT(cpu, c, ThumbRan(frames))
  BY <1>3, <1>4, Parts, ThumbRanMarks DEF KeepsIT
<1> QED
  BY <1>3, <1>5, FramesMarked

LEMMA FetchFaultFrames ==
  ASSUME TypeOK, FramesHold(cpu, frames), FetchFault
  PROVE  FramesHold(cpu', frames')
<1> DEFINE c == [cpu EXCEPT !.halted = TRUE]
<1>1. /\ DOMAIN c = DOMAIN cpu /\ c.it = cpu.it /\ c.mode = cpu.mode /\ c.bank = cpu.bank
      /\ c.spsr = cpu.spsr /\ c.sp = cpu.sp /\ c.lr = cpu.lr /\ c.iMask = cpu.iMask
  BY Parts DEF Cpu
<1>2. (cpu' = c \/ cpu' = Advanced(c)) /\ frames' = ThumbRan(frames)
  BY DEF FetchFault
<1> HIDE DEF c
<1>3. Marks(cpu, frames, c, frames)
  BY <1>1, PlainMarks
<1>4. CASE cpu' = c
  <2>1. Marks(cpu, frames, c, ThumbRan(frames)) /\ KeepsIT(cpu, c, ThumbRan(frames))
    BY <1>1, <1>3, Parts, ThumbRanMarks DEF KeepsIT
  <2> QED
    BY <1>2, <1>4, <2>1, FramesMarked
<1>5. CASE cpu' = Advanced(c)
  BY <1>1, <1>2, <1>3, <1>5, Parts, AdvancedFrames
<1> QED
  BY <1>2, <1>4, <1>5

LEMMA MsrFrames ==
  ASSUME Msr
  PROVE  FramesHold(cpu', frames')
<1>1. frames' = <<>>
  BY DEF Msr
<1> QED
  BY <1>1 DEF FramesHold

LEMMA ThumbRanHold ==
  ASSUME TypeOK, FramesHold(cpu, frames), NEW c, c.it = cpu.it, NEW fs \in Seq(Frame),
         Marks(cpu, frames, c, fs)
  PROVE  /\ FramesHold(c, ThumbRan(fs)) /\ ThumbRan(fs) \in Seq(Frame)
         /\ cpu.tbit => \A i \in DOMAIN ThumbRan(fs) : ~ ThumbRan(fs)[i].still
<1>1. /\ Marks(cpu, frames, c, ThumbRan(fs))
      /\ cpu.tbit => \A i \in DOMAIN ThumbRan(fs) : ~ ThumbRan(fs)[i].still
  BY ThumbRanMarks
<1>2. KeepsIT(cpu, c, ThumbRan(fs))
  BY DEF KeepsIT
<1>3. ThumbRan(fs) \in Seq(Frame)
  BY Parts, ThumbRanType
<1> QED
  BY <1>1, <1>2, <1>3, FramesMarked

LEMMA RaiseFrames ==
  ASSUME TypeOK, FramesHold(cpu, frames), NEW c \in Cpu, c.it = cpu.it, c.tbit = cpu.tbit,
         NEW gs \in Seq(Frame), Marks(cpu, frames, c, gs),
         NEW kind, kind # "irq", NEW ret \in Address,
         NEW resume \in Address, NEW events, NEW ait \in ITState,
         Raise(c, gs, kind, ret, resume, events, ait),
         ret = Plus(resume, Offset(kind)) \/ (kind = "dabt" /\ cpu.tbit)
  PROVE  FramesHold(cpu', frames')
<1> DEFINE it == IF InBlock THEN NextIT(cpu.it) ELSE cpu.it
           m == ModeOf(kind)
           e == TakeException(c, kind, ret)
           d == Advanced(e)
           fs == ThumbRan(gs)
           f == [ kind |-> kind, mode |-> m, ctx |-> Context(c), resume |-> resume,
                  it |-> it, ait |-> ait, intact |-> TRUE, still |-> TRUE, masked |-> TRUE ]
<1>1. kind \in Kinds /\ m \in Modes
  BY KindTypes DEF Raise
<1>2. cpu' = d /\ frames' = <<f>> \o LrWritten(fs, m)
  BY DEF Raise, Pushed
<1>3. /\ e.mode = m /\ e.iMask = TRUE /\ e.it = cpu.it
      /\ e.spsr = [c.spsr EXCEPT ![m] = PackCpsr(c)]
      /\ LrOf(e, m) = ret
      /\ \A x \in Modes : SpOf(e, x) = SpOf(c, x) /\ (x # m => LrOf(e, x) = LrOf(c, x))
  <2>1. Took(c, e, m, ret)
    BY <1>1, TakeExceptionKeeps
  <2> HIDE DEF e, m
  <2> QED BY <2>1 DEF Took
<1>4. e \in Cpu
  BY <1>1, TakeExceptionType
<1>5. f \in Frame
  <2>1. it \in ITState
    BY Parts, ITTypes
  <2> HIDE DEF it, m
  <2> QED BY <1>1, <2>1, ContextType DEF Frame
<1>6. /\ f.mode = m /\ f.ctx = Context(c) /\ f.it = it /\ f.kind = kind /\ f.resume = resume
  OBVIOUS
<1> HIDE DEF e, f, m
<1>7. /\ d.mode = e.mode /\ d.iMask = e.iMask /\ d.spsr = e.spsr /\ d.it = it
      /\ d.bank = e.bank /\ d.sp = e.sp /\ d.lr = e.lr
  <2>1. CASE InBlock
    <3>1. d = [e EXCEPT !.it = NextIT(@)]
      BY <1>3, <2>1 DEF Advanced
    <3> HIDE DEF d
    <3> QED BY <1>3, <1>4, <2>1, <3>1 DEF Cpu
  <2>2. CASE ~ InBlock
    BY <1>3, <2>2 DEF Advanced
  <2> QED BY <2>1, <2>2
<1>8. \A x : SpOf(d, x) = SpOf(e, x) /\ LrOf(d, x) = LrOf(e, x)
  BY <1>7 DEF SpOf, LrOf
<1>9. /\ FramesHold(c, fs) /\ fs \in Seq(Frame)
      /\ cpu.tbit => \A i \in DOMAIN fs : ~ fs[i].still
  BY ThumbRanHold
<1>10. d.it = c.it \/ cpu.tbit
  BY <1>7 DEF InBlock
<1>11. LrOf(d, m) = Plus(f.resume, Offset(f.kind)) \/ (f.kind = "dabt" /\ c.tbit)
  BY <1>3, <1>6, <1>8
<1> HIDE DEF d, it, fs
<1>12. d.it = c.it \/ \A i \in DOMAIN fs : ~ fs[i].still
  BY <1>9, <1>10
<1>13. /\ d.mode = m /\ d.iMask = TRUE /\ d.spsr = [c.spsr EXCEPT ![m] = PackCpsr(c)]
       /\ \A x \in Modes : SpOf(d, x) = SpOf(c, x) /\ (x # m => LrOf(d, x) = LrOf(c, x))
  BY <1>3, <1>7, <1>8
<1>14. FramesHold(d, <<f>> \o LrWritten(fs, m))
  BY <1>1, <1>5, <1>6, <1>7, <1>9, <1>11, <1>12, <1>13, FramesPushed
<1> QED
  BY <1>2, <1>14 DEF fs, f, m

\* Resuming at the address an exception without an offset left.
LEMMA NoOffset ==
  ASSUME NEW a \in Address
  PROVE  Plus(a, 0) = a
  BY BoundsAssumption DEF Plus, Address

LEMMA OffsetAdds ==
  ASSUME NEW kind, NEW n \in Int
  PROVE  /\ Offset("swi") = 0 /\ Offset("undef") = 0 /\ Offset("dabt") = 8
         /\ Offset("irq") = 4 /\ Offset("fiq") = 4
  BY DEF Offset

LEMMA AbortFrames ==
  ASSUME TypeOK, FramesHold(cpu, frames), Abort
  PROVE  FramesHold(cpu', frames')
<1>1. arch \in ITState /\ cpu.pc \in Address /\ Plus(cpu.pc, 8) \in Address
  BY Parts, PcType DEF Cpu
<1>2. Plus(cpu.pc, 8) = Plus(cpu.pc, Offset("dabt"))
  BY DEF Offset
<1>3. CASE \E n \in Sizes :
             Raise(cpu, frames, "dabt", Plus(cpu.pc, IF cpu.tbit THEN n ELSE 8), cpu.pc, {}, arch)
  <2>1. PICK n \in Sizes :
          Raise(cpu, frames, "dabt", Plus(cpu.pc, IF cpu.tbit THEN n ELSE 8), cpu.pc, {}, arch)
    BY <1>3, Zenon
  <2> DEFINE ret == Plus(cpu.pc, IF cpu.tbit THEN n ELSE 8)
  <2>2. ret \in Address
    BY SizesInt, PcType
  <2>3. ret = Plus(cpu.pc, Offset("dabt")) \/ cpu.tbit
    BY DEF Offset
  <2>4. Marks(cpu, frames, cpu, frames)
    BY PlainMarks
  <2> HIDE DEF ret
  <2> QED
    BY <1>1, <2>1, <2>2, <2>3, <2>4, Parts, RaiseFrames DEF ret
<1>4. CASE \E sp \in Sps : Raise([cpu EXCEPT !.sp = sp], SpWritten(frames, cpu.mode),
                                  "dabt", Plus(cpu.pc, 8), cpu.pc, {}, arch)
  <2>1. PICK sp \in Sps : Raise([cpu EXCEPT !.sp = sp], SpWritten(frames, cpu.mode),
                                "dabt", Plus(cpu.pc, 8), cpu.pc, {}, arch)
    BY <1>4, Zenon
  <2> DEFINE c == [cpu EXCEPT !.sp = sp]
  <2>2. c \in Cpu
    BY <1>1, PartialType DEF Stack
  <2>3. /\ c.it = cpu.it /\ c.tbit = cpu.tbit /\ c.mode = cpu.mode /\ c.bank = cpu.bank
        /\ c.spsr = cpu.spsr /\ c.lr = cpu.lr /\ c.iMask = cpu.iMask
    BY Parts DEF Cpu
  <2> HIDE DEF c
  <2>4. Marks(cpu, frames, c, SpWritten(frames, cpu.mode))
    BY <2>3, SpMarks
  <2>5. SpWritten(frames, cpu.mode) \in Seq(Frame)
    BY Parts, SpWrittenType
  <2>6. Raise(c, SpWritten(frames, cpu.mode), "dabt", Plus(cpu.pc, 8), cpu.pc, {}, arch)
    BY <2>1 DEF c
  <2> QED
    BY <1>1, <1>2, <2>2, <2>3, <2>4, <2>5, <2>6, RaiseFrames
<1>5. CASE \E sp \in Sps \cup {cpu.sp}, v \in Targets :
             Raise([cpu EXCEPT !.sp = sp, !.lr = v], LrWritten(frames, cpu.mode),
                   "dabt", Plus(cpu.pc, 8), cpu.pc, {}, arch)
  <2>1. PICK sp \in Sps \cup {cpu.sp}, v \in Targets :
             Raise([cpu EXCEPT !.sp = sp, !.lr = v], LrWritten(frames, cpu.mode),
                   "dabt", Plus(cpu.pc, 8), cpu.pc, {}, arch)
    BY <1>5, Zenon
  <2> DEFINE c == [cpu EXCEPT !.sp = sp, !.lr = v]
  <2>a. sp \in Stack /\ v \in Address
    BY Parts, BoundsAssumption DEF Stack, Address, Cpu
  <2>2. c \in Cpu
    BY <2>a, PartialType
  <2>3. /\ c.it = cpu.it /\ c.tbit = cpu.tbit /\ c.mode = cpu.mode /\ c.bank = cpu.bank
        /\ c.spsr = cpu.spsr /\ c.iMask = cpu.iMask
    BY Parts DEF Cpu
  <2> HIDE DEF c
  <2>4. Marks(cpu, frames, c, LrWritten(frames, cpu.mode))
    BY <2>3, LrMarks
  <2>5. LrWritten(frames, cpu.mode) \in Seq(Frame)
    BY Parts, LrWrittenType
  <2>6. Raise(c, LrWritten(frames, cpu.mode), "dabt", Plus(cpu.pc, 8), cpu.pc, {}, arch)
    BY <2>1 DEF c
  <2> QED
    BY <1>1, <1>2, <2>2, <2>3, <2>4, <2>5, <2>6, RaiseFrames
<1> QED
  BY <1>3, <1>4, <1>5, Zenon DEF Abort

LEMMA ExceptionFrames ==
  ASSUME TypeOK, FramesHold(cpu, frames), Svc \/ Undefined \/ Abort
  PROVE  FramesHold(cpu', frames')
<1>1. ArchAdvanced \in ITState /\ arch \in ITState /\ cpu.pc \in Address
  BY Parts DEF Cpu
<1>2. ASSUME NEW kind \in {"swi", "undef"}, NEW a \in Address, NEW events, NEW ait \in ITState,
             Raise(cpu, frames, kind, a, a, events, ait)
      PROVE  FramesHold(cpu', frames')
  <2>1. a = Plus(a, Offset(kind)) /\ kind # "irq"
    BY OffsetAdds, NoOffset
  <2>2. Marks(cpu, frames, cpu, frames)
    BY PlainMarks
  <2> QED
    BY <1>2, <2>1, <2>2, Parts, RaiseFrames, Zenon
<1>3. CASE Abort
  BY <1>3, AbortFrames
<1>4. CASE /\ Executes
           /\ Commit([cpu EXCEPT !.halted = TRUE], {"unsupported"}, frames, ArchAdvanced, FALSE)
  <2> DEFINE c == [cpu EXCEPT !.halted = TRUE]
  <2>1. /\ DOMAIN c = DOMAIN cpu /\ c.it = cpu.it /\ c.mode = cpu.mode /\ c.bank = cpu.bank
        /\ c.spsr = cpu.spsr /\ c.sp = cpu.sp /\ c.lr = cpu.lr /\ c.iMask = cpu.iMask
    BY Parts DEF Cpu
  <2> HIDE DEF c
  <2> QED BY <1>4, <2>1, PlainFrames, Zenon DEF c
<1>5. /\ Plus(cpu.pc, 2) \in Address /\ Plus(cpu.pc, 4) \in Address
      /\ Plus(cpu.pc, IF cpu.tbit THEN 2 ELSE 4) \in Address
  BY PcType
<1>6. CASE Svc
  <2>1. \E a \in Address : Raise(cpu, frames, "swi", a, a, {}, ArchAdvanced)
    BY <1>5, <1>6 DEF Svc
  <2>2. "swi" \in {"swi", "undef"}
    OBVIOUS
  <2> QED BY <1>1, <1>2, <2>1, <2>2, Zenon
<1>7. CASE Undefined
  <2>1. \/ Raise(cpu, frames, "undef", Plus(cpu.pc, 4), Plus(cpu.pc, 4), {"unsupported"}, arch)
        \/ Raise(cpu, frames, "undef", Plus(cpu.pc, 2), Plus(cpu.pc, 2), {}, ArchAdvanced)
        \/ /\ Executes
           /\ Commit([cpu EXCEPT !.halted = TRUE], {"unsupported"}, frames, ArchAdvanced, FALSE)
    BY <1>7, Zenon DEF Undefined
  <2>2. "undef" \in {"swi", "undef"}
    OBVIOUS
  <2> QED BY <1>1, <1>2, <1>4, <1>5, <2>1, <2>2, Zenon
<1> QED
  BY <1>3, <1>6, <1>7

LEMMA InterruptFrames ==
  ASSUME TypeOK, FramesHold(cpu, frames), NEW kind \in {"irq", "fiq"}, Interrupt(kind)
  PROVE  FramesHold(cpu', frames')
<1> DEFINE c == IF kind = "fiq" THEN [cpu EXCEPT !.fiq = FALSE] ELSE [cpu EXCEPT !.irq = FALSE]
           m == ModeOf(kind)
           d == TakeException(c, kind, Plus(cpu.pc, 4))
           f == [ kind |-> kind, mode |-> m, ctx |-> Context(cpu), resume |-> cpu.pc,
                  it |-> cpu.it, ait |-> arch, intact |-> TRUE, still |-> TRUE, masked |-> TRUE ]
<1>1. kind \in Kinds /\ m \in Modes /\ FALSE \in BOOLEAN /\ Plus(cpu.pc, 4) \in Address
  BY KindTypes, PcType DEF Interrupt
<1>2. cpu' = d /\ frames' = <<f>> \o LrWritten(frames, m)
  BY DEF Interrupt, Pushed
<1>3. kind = "irq" => ~ cpu.iMask
  BY DEF Interrupt, IrqDue, FiqDue
<1>4. c \in Cpu
  BY <1>1, Parts, ZenonT(30) DEF Cpu
<1>5. /\ c.it = cpu.it /\ c.mode = cpu.mode /\ c.bank = cpu.bank /\ c.spsr = cpu.spsr
      /\ c.sp = cpu.sp /\ c.lr = cpu.lr /\ c.iMask = cpu.iMask /\ c.fMask = cpu.fMask
      /\ c.tbit = cpu.tbit /\ c.z = cpu.z
  BY Parts DEF Cpu
<1>6. f \in Frame
  <2> HIDE DEF m
  <2> QED BY <1>1, Parts, ContextType DEF Frame, Cpu
<1>7. f.mode = m /\ f.ctx = Context(cpu) /\ f.it = cpu.it /\ f.kind = kind /\ f.resume = cpu.pc
  OBVIOUS
<1> HIDE DEF c, f
<1>8. /\ d.mode = m /\ d.iMask = TRUE /\ d.it = c.it
      /\ d.spsr = [c.spsr EXCEPT ![m] = PackCpsr(c)]
      /\ LrOf(d, m) = Plus(cpu.pc, 4)
      /\ \A x \in Modes : SpOf(d, x) = SpOf(c, x) /\ (x # m => LrOf(d, x) = LrOf(c, x))
  <2>1. Took(c, d, m, Plus(cpu.pc, 4))
    BY <1>1, <1>4, TakeExceptionKeeps
  <2> HIDE DEF d, m
  <2> QED BY <2>1 DEF Took
<1> HIDE DEF d, m
<1>9. PackCpsr(c) = PackCpsr(cpu)
  BY <1>5 DEF PackCpsr
<1>10. \A x : SpOf(c, x) = SpOf(cpu, x) /\ LrOf(c, x) = LrOf(cpu, x)
  BY <1>5 DEF SpOf, LrOf
<1>11. LrOf(d, m) = Plus(f.resume, Offset(f.kind))
  BY <1>7, <1>8 DEF Offset
<1>12. /\ d.mode = m /\ d.iMask = TRUE /\ d.spsr = [cpu.spsr EXCEPT ![m] = PackCpsr(cpu)]
       /\ \A x \in Modes : SpOf(d, x) = SpOf(cpu, x) /\ (x # m => LrOf(d, x) = LrOf(cpu, x))
       /\ f.it = d.it /\ d.it = cpu.it
  BY <1>5, <1>7, <1>8, <1>9, <1>10
<1>13. FramesHold(d, <<f>> \o LrWritten(frames, m))
  BY <1>1, <1>3, <1>6, <1>7, <1>11, <1>12, Parts, FramesPushed
<1> QED
  BY <1>2, <1>13 DEF f, m

\* A return whose exception's registers are intact is to what the exception interrupted.
LEMMA ReturnKeeps ==
  ASSUME TypeOK, FramesHold(cpu, frames), NEW n, Return(n), frames # <<>>, Head(frames).intact
  PROVE  /\ cpu'.mode = frames[1].ctx.psr.mode /\ PackCpsr(cpu') = frames[1].ctx.psr
         /\ cpu'.spsr = cpu.spsr /\ cpu'.it = cpu.it
         /\ cpu'.pc = Plus(cpu.lr, AddrMod - n)
         /\ \A x \in Modes : SpOf(cpu', x) = SpOf(cpu, x) /\ LrOf(cpu', x) = LrOf(cpu, x)
<1> DEFINE f == frames[1]
           s == cpu.spsr[cpu.mode]
           e == SwitchMode(cpu, s.mode)
<1>1. 1 \in DOMAIN frames /\ f \in Frame /\ Head(frames) = f
  BY Parts, TailFrames
<1>2. f.mode = cpu.mode /\ Holding(cpu, f)
  BY <1>1 DEF FramesHold
<1>3. s = f.ctx.psr
  BY <1>2 DEF Holding
<1>4. s \in Psr /\ s.mode \in Modes /\ cpu \in Cpu
  BY Parts DEF Cpu, Psr
<1>5. /\ e.mode = s.mode /\ e.spsr = cpu.spsr /\ e.it = cpu.it
      /\ \A x \in Modes : SpOf(e, x) = SpOf(cpu, x) /\ LrOf(e, x) = LrOf(cpu, x)
  BY <1>4, SwitchModeKeeps, Zenon
<1>6. e \in Cpu
  BY <1>4, SwitchModeType
<1>7. cpu' = [[e EXCEPT !.iMask = s.iMask, !.fMask = s.fMask, !.tbit = s.tbit, !.z = s.z]
                EXCEPT !.pc = Plus(cpu.lr, AddrMod - n)]
  BY DEF Return, UnpackCpsr
<1> HIDE DEF e, s, f
<1>8. /\ cpu'.mode = s.mode /\ cpu'.spsr = e.spsr /\ cpu'.it = e.it
      /\ cpu'.pc = Plus(cpu.lr, AddrMod - n)
      /\ cpu'.iMask = s.iMask /\ cpu'.fMask = s.fMask /\ cpu'.tbit = s.tbit /\ cpu'.z = s.z
      /\ cpu'.bank = e.bank /\ cpu'.sp = e.sp /\ cpu'.lr = e.lr
  BY <1>5, <1>6, <1>7 DEF Cpu
<1>9. PackCpsr(cpu') = s
  BY <1>4, <1>8 DEF PackCpsr, Psr
<1>10. \A x : SpOf(cpu', x) = SpOf(e, x) /\ LrOf(cpu', x) = LrOf(e, x)
  BY <1>5, <1>8 DEF SpOf, LrOf
<1> QED
  BY <1>3, <1>5, <1>8, <1>9, <1>10 DEF f

LEMMA ReturnFrames ==
  ASSUME TypeOK, FramesHold(cpu, frames), NEW n, Return(n)
  PROVE  FramesHold(cpu', frames')
<1>1. CASE frames' = <<>>
  BY <1>1 DEF FramesHold
<1>2. CASE frames # <<>> /\ Head(frames).intact /\ frames' = Tail(frames)
  <2>1. /\ cpu'.mode = frames[1].ctx.psr.mode /\ PackCpsr(cpu') = frames[1].ctx.psr
        /\ cpu'.spsr = cpu.spsr /\ cpu'.it = cpu.it
        /\ \A x \in Modes : SpOf(cpu', x) = SpOf(cpu, x) /\ LrOf(cpu', x) = LrOf(cpu, x)
    BY <1>2, ReturnKeeps
  <2>2. cpu'.iMask = frames[1].ctx.psr.iMask
    BY <2>1 DEF PackCpsr
  <2>3. FramesHold(cpu', Tail(frames))
    BY <1>2, <2>1, <2>2, Parts, FramesPopped
  <2> QED BY <1>2, <2>3
<1> QED
  BY <1>1, <1>2 DEF Return

LEMMA InstructionFrames ==
  ASSUME TypeOK, FramesHold(cpu, frames),
         Instruction \/ \E kind \in {"irq", "fiq"} : Interrupt(kind)
  PROVE  FramesHold(cpu', frames')
<1>1. CASE Skip \/ FetchFault \/ Msr
  BY <1>1, SkipFrames, FetchFaultFrames, MsrFrames
<1>2. CASE Straight \/ UnknownAccess \/ CoprocessorRead \/ Interwork \/ Ldrex \/ Strex
  BY <1>2, PlainActions
<1>3. CASE SetSp \/ SetLr \/ BranchLink \/ SelfBranch \/ IfThen \/ Cps
  BY <1>3, SetSpFrames, SetLrFrames, BranchLinkFrames, SelfBranchFrames, IfThenFrames, CpsFrames
<1>4. CASE Svc \/ Undefined \/ Abort
  BY <1>4, ExceptionFrames
<1>5. CASE \E n \in {0, 4, 8} : Return(n)
  BY <1>5, ReturnFrames, Zenon
<1>6. CASE \E kind \in {"irq", "fiq"} : Interrupt(kind)
  BY <1>6, InterruptFrames, Zenon
<1> QED
  BY <1>1, <1>2, <1>3, <1>4, <1>5, <1>6, Zenon DEF Instruction

LEMMA RerunFrames ==
  ASSUME TypeOK, FramesHold(cpu, frames), Rerun
  PROVE  FramesHold(cpu', frames')
<1>1. PICK i \in BOOLEAN, f \in BOOLEAN, open \in BOOLEAN :
        /\ open => frames = <<>>
        /\ cpu' = [cpu EXCEPT !.irq = i, !.fiq = f, !.iMask = @ /\ ~ open, !.fMask = @ /\ ~ open]
  BY Zenon DEF Rerun
<1>2. frames' = frames
  BY DEF Rerun, hist
<1>3. CASE frames = <<>>
  BY <1>2, <1>3 DEF FramesHold
<1>4. CASE frames # <<>>
  <2>1. ~ open
    BY <1>1, <1>4
  <2>2. /\ cpu'.mode = cpu.mode /\ cpu'.bank = cpu.bank /\ cpu'.spsr = cpu.spsr
        /\ cpu'.sp = cpu.sp /\ cpu'.lr = cpu.lr /\ cpu'.it = cpu.it
        /\ (cpu.iMask => cpu'.iMask)
    BY <1>1, <2>1, Parts DEF Cpu
  <2>3. Marks(cpu, frames, cpu', frames)
    BY <2>2 DEF Marks, Weaker
  <2>4. KeepsIT(cpu, cpu', frames)
    BY <2>2 DEF KeepsIT
  <2> QED
    BY <1>2, <2>3, <2>4, FramesMarked
<1> QED
  BY <1>3, <1>4

LEMMA ResumeFrames ==
  ASSUME TypeOK, kept # None => FramesHold(kept.cpu, kept.frames), Resume
  PROVE  FramesHold(cpu', frames')
<1> DEFINE c == kept.cpu
           d == Serialised(c)
           fs == kept.frames
           gs == [i \in DOMAIN fs |-> [fs[i] EXCEPT !.still = @ /\ c.it = NoIT]]
<1>1. FileOK /\ file # None
  BY DEF TypeOK, FileOK, Resume
<1>2. kept \in Kept /\ file.cpu = d
  BY <1>1 DEF FileOK
<1>3. c \in Cpu /\ fs \in Seq(Frame) /\ kept # None
  <2>1. kept # None
    BY <1>2 DEF Kept, None
  <2> QED BY <1>2, <2>1 DEF Kept
<1>4. FramesHold(c, fs)
  BY <1>3
<1>5. cpu' = d /\ frames' = gs
  BY <1>2 DEF Resume
<1> HIDE DEF c
<1>6. /\ d.mode = c.mode /\ d.bank = c.bank /\ d.spsr = c.spsr /\ d.sp = c.sp /\ d.lr = c.lr
      /\ d.iMask = c.iMask /\ d.it = NoIT
  BY <1>3 DEF Serialised, Cpu
<1>7. DOMAIN gs = DOMAIN fs
  OBVIOUS
<1> HIDE DEF fs
<1>8. ASSUME NEW i \in DOMAIN fs
      PROVE  Weaker(gs[i], fs[i]) /\ (gs[i].still => c.it = NoIT)
  <2>1. fs[i] \in Frame
    BY <1>3
  <2>2. gs[i] = [fs[i] EXCEPT !.still = @ /\ c.it = NoIT]
    OBVIOUS
  <2> HIDE DEF gs
  <2> QED BY <2>1, <2>2 DEF Frame, Weaker
<1> HIDE DEF d, gs
<1>9. Marks(c, fs, d, gs)
  BY <1>6, <1>7, <1>8 DEF Marks
<1>10. KeepsIT(c, d, gs)
  BY <1>6, <1>7, <1>8 DEF KeepsIT
<1> QED
  BY <1>4, <1>5, <1>9, <1>10, FramesMarked

\* The frames of this process and those the checkpoint was written with are true.
FramesInv ==
  /\ FramesHold(cpu, frames)
  /\ kept # None => FramesHold(kept.cpu, kept.frames)

LEMMA FramesTrue ==
  Spec => []FramesInv
<1>1. Init => FramesInv
  BY DEF Init, FramesInv, FramesHold
<1>2. TypeOK /\ FramesInv /\ [Next]_vars => FramesInv'
  <2> SUFFICES ASSUME TypeOK, FramesInv, [Next]_vars
               PROVE  FramesInv'
    OBVIOUS
  <2>1. FramesHold(cpu, frames) /\ (kept # None => FramesHold(kept.cpu, kept.frames))
    BY DEF FramesInv
  <2>2. CASE Instruction \/ \E kind \in {"irq", "fiq"} : Interrupt(kind)
    <3>1. FramesHold(cpu', frames')
      BY <2>1, <2>2, InstructionFrames
    <3>2. kept' = kept
      BY <2>2, StepFacts DEF Steps, disk
    <3> QED BY <2>1, <3>1, <3>2, Zenon DEF FramesInv
  <2>3. CASE Save
    <3>1. cpu' = cpu /\ frames' = frames /\ kept'.cpu = cpu /\ kept'.frames = frames
      BY <2>3 DEF Save, hist, Now
    <3> QED BY <2>1, <3>1, Zenon DEF FramesInv
  <2>4. CASE Rerun \/ Resume
    <3>1. FramesHold(cpu', frames')
      BY <2>1, <2>4, RerunFrames, ResumeFrames
    <3>2. kept' = kept
      BY <2>4 DEF Rerun, Resume, disk
    <3> QED BY <2>1, <3>1, <3>2, Zenon DEF FramesInv
  <2>5. CASE End \/ UNCHANGED vars
    <3>1. cpu' = cpu /\ frames' = frames /\ kept' = kept
      BY <2>5 DEF End, vars, hist, disk
    <3> QED BY <2>1, <3>1, Zenon DEF FramesInv
  <2> QED
    BY <2>2, <2>3, <2>4, <2>5, Zenon DEF Next
<1> QED
  BY <1>1, <1>2, TypeCorrect, PTL DEF Spec

\* An IRQ handler is entered again only after its firmware has unmasked IRQ: an IRQ
\* frame was taken unmasked, so every masked IRQ frame below it would have kept it out.
THEOREM IrqsNestOnlyUnmasked == Spec => []NoReentry
<1>1. TypeOK /\ FramesInv => NoReentry
  <2> SUFFICES ASSUME TypeOK, FramesInv, NEW i \in DOMAIN frames, NEW j \in DOMAIN frames,
                      i < j, frames[i].kind = "irq", frames[j].kind = "irq", frames[j].masked
               PROVE  FALSE
    BY Zenon DEF NoReentry
  <2>1. frames[i].ctx.psr.iMask
    BY DEF FramesInv, FramesHold
  <2>2. ~ frames[i].ctx.psr.iMask
    BY DEF FramesInv, FramesHold
  <2> QED BY <2>1, <2>2
<1> QED
  BY <1>1, TypeCorrect, FramesTrue, PTL

\* Subtracting what was added, in the address space.
LEMMA ComesBack ==
  ASSUME NEW a \in Address, NEW n \in 0 .. 8
  PROVE  Plus(Plus(a, n), AddrMod - n) = a
<1>1. AddrMod \in Nat /\ AddrMod > 28 /\ a \in Nat /\ a < AddrMod /\ n \in Nat /\ n <= 8
  BY BoundsAssumption DEF Address
<1>2. CASE a + n < AddrMod
  <2>1. (a + n) % AddrMod = a + n
    BY <1>1, <1>2
  <2>2. (a + n + (AddrMod - n)) % AddrMod = a
    BY <1>1, SMTT(30)
  <2> QED BY <2>1, <2>2 DEF Plus
<1>3. CASE a + n >= AddrMod
  <2>1. (a + n) % AddrMod = a + n - AddrMod
    BY <1>1, <1>3, SMTT(30)
  <2>2. (a + n - AddrMod + (AddrMod - n)) % AddrMod = a
    BY <1>1
  <2> QED BY <2>1, <2>2 DEF Plus
<1> QED
  BY <1>1, <1>2, <1>3

\* A handler that keeps its exception's registers and returns with the architecture's
\* offset resumes what was interrupted, whatever ran in between, exceptions nested in it
\* and checkpoints included.
THEOREM ReturnsRestore == Spec => ReturnRestores
<1> DEFINE Good(kind) ==
      LET f == Head(frames) IN
      ( /\ frames # <<>> /\ f.kind = kind /\ f.intact
        /\ ~ (kind = "dabt" /\ f.ctx.psr.tbit)
        /\ Return(Offset(kind)) )
      => /\ PackCpsr(cpu') = f.ctx.psr
         /\ cpu'.pc = f.resume
         /\ cpu'.sp = f.ctx.sp
         /\ f.mode # f.ctx.psr.mode => cpu'.lr = f.ctx.lr
         /\ f.still => cpu'.it = f.it
<1>1. ASSUME TypeOK, FramesInv, NEW kind \in Kinds
      PROVE  Good(kind)
  <2> DEFINE f == frames[1]
  <2> SUFFICES ASSUME frames # <<>>, f.kind = kind, f.intact,
                      ~ (kind = "dabt" /\ f.ctx.psr.tbit), Return(Offset(kind))
               PROVE  /\ PackCpsr(cpu') = f.ctx.psr
                      /\ cpu'.pc = f.resume
                      /\ cpu'.sp = f.ctx.sp
                      /\ f.mode # f.ctx.psr.mode => cpu'.lr = f.ctx.lr
                      /\ f.still => cpu'.it = f.it
    BY <1>1, Parts, TailFrames
  <2>1. f \in Frame /\ Head(frames) = f /\ 1 \in DOMAIN frames
    BY <1>1, Parts, TailFrames
  <2>2. f.mode = cpu.mode /\ Holding(cpu, f) /\ (f.still => cpu.it = f.it)
    BY <1>1, <2>1 DEF FramesInv, FramesHold
  <2>3. /\ cpu'.mode = f.ctx.psr.mode /\ PackCpsr(cpu') = f.ctx.psr /\ cpu'.it = cpu.it
        /\ cpu'.pc = Plus(cpu.lr, AddrMod - Offset(kind))
        /\ \A x \in Modes : SpOf(cpu', x) = SpOf(cpu, x) /\ LrOf(cpu', x) = LrOf(cpu, x)
    BY <1>1, <2>1, ReturnKeeps DEF FramesInv
  <2> HIDE DEF f
  <2>4. f.ctx.psr.mode \in Modes /\ f.resume \in Address
    BY <2>1 DEF Frame, Psr
  <2>5. cpu'.sp = f.ctx.sp /\ (f.mode # f.ctx.psr.mode => cpu'.lr = f.ctx.lr)
    <3>1. cpu'.sp = SpOf(cpu', f.ctx.psr.mode) /\ cpu'.lr = LrOf(cpu', f.ctx.psr.mode)
      BY <2>3 DEF SpOf, LrOf
    <3> QED BY <2>2, <2>3, <2>4, <3>1 DEF Holding
  <2>6. cpu.lr = Plus(f.resume, Offset(kind))
    BY <2>2 DEF Holding, LrOf
  <2>7. Offset(kind) \in 0 .. 8
    BY DEF Offset
  <2>8. cpu'.pc = f.resume
    BY <2>3, <2>4, <2>6, <2>7, ComesBack
  <2> QED
    BY <2>2, <2>3, <2>5, <2>8
<1>2. TypeOK /\ FramesInv /\ [Next]_vars => [\A kind \in Kinds : Good(kind)]_vars
  BY <1>1, Zenon
<1> QED
  BY <1>2, TypeCorrect, FramesTrue, PTL DEF Spec, ReturnRestores

-----------------------------------------------------------------------------
(***************************************************************************)
(* The IT state. While it has not gone astray, the processor's IT state is *)
(* none or one the code moves on as the architecture does, and the         *)
(* architecture's is the same, or none in a handler; so was it at every    *)
(* exception whose frame is on the stack, the outermost without a handler  *)
(* around it.                                                              *)
(***************************************************************************)
Sound(it) == it = NoIT \/ Faithful(it)
Linked(it, a, handler) == Sound(it) /\ (a = it \/ (a = NoIT /\ handler))
Aligned(it, a, fs) ==
  /\ Linked(it, a, 1 \in DOMAIN fs)
  /\ \A i \in DOMAIN fs : Linked(fs[i].it, fs[i].ait, i + 1 \in DOMAIN fs)

\* Frames that hold the same IT states.
SameIT(gs, fs) ==
  /\ DOMAIN gs = DOMAIN fs
  /\ \A i \in DOMAIN fs : gs[i].it = fs[i].it /\ gs[i].ait = fs[i].ait

\* An IT state the code and the architecture agree on stays one when both move on.
LEMMA SoundMoves ==
  ASSUME NEW it \in ITState, Sound(it)
  PROVE  /\ Sound(NextIT(it)) /\ ArchNext(it) = NextIT(it)
         /\ NextIT(NoIT) = NoIT /\ ArchNext(NoIT) = NoIT
         /\ it[2] = 0 => it = NoIT
<1>1. PICK b \in 0 .. 15, m \in 0 .. 15 : it = <<b, m>>
  BY DEF ITState
<1>2. it[1] = b /\ it[2] = m
  BY <1>1
<1>3. NextIT(NoIT) = NoIT /\ ArchNext(NoIT) = NoIT
  BY DEF NextIT, ArchNext, NoIT
<1>4. CASE it = NoIT
  BY <1>3, <1>4 DEF Sound
<1>5. CASE m = 8
  <2>1. NextIT(it) = NoIT /\ ArchNext(it) = NoIT /\ it[2] # 0
    BY <1>2, <1>5 DEF NextIT, ArchNext
  <2> QED
    BY <1>3, <2>1 DEF Sound
<1>6. CASE b % 2 = 1 /\ m \in {12, 14, 15}
  <2>1. (b \div 2) * 2 + 1 = b
    BY <1>6
  <2>2. /\ m % 8 # 0 /\ m \div 8 = 1
        /\ (m * 2) % 16 = IF m = 12 THEN 8 ELSE IF m = 14 THEN 12 ELSE 14
    BY <1>6
  <2>3. NextIT(it) = <<b, (m * 2) % 16>> /\ ArchNext(it) = <<b, (m * 2) % 16>>
    BY <1>2, <2>1, <2>2 DEF NextIT, ArchNext
  <2>4. Faithful(<<b, (m * 2) % 16>>)
    BY <1>6, <2>2 DEF Faithful
  <2> QED
    BY <1>2, <1>3, <1>6, <2>3, <2>4 DEF Sound
<1>7. it = NoIT \/ m = 8 \/ (b % 2 = 1 /\ m \in {12, 14, 15})
  BY <1>2 DEF Sound, Faithful
<1>8. it[2] = 0 => it = NoIT
  BY <1>2, <1>7
<1> QED
  BY <1>3, <1>4, <1>5, <1>6, <1>7, <1>8

\* So do an IT state and the architecture's.
LEMMA LinkedMoves ==
  ASSUME NEW it \in ITState, NEW a, NEW handler, Linked(it, a, handler)
  PROVE  /\ Linked(NextIT(it), ArchNext(a), handler)
         /\ it[2] = 0 => Linked(it, ArchNext(a), handler)
<1>1. /\ Sound(NextIT(it)) /\ ArchNext(it) = NextIT(it) /\ ArchNext(NoIT) = NoIT
      /\ NextIT(NoIT) = NoIT
      /\ it[2] = 0 => it = NoIT
  BY SoundMoves DEF Linked
<1> QED
  BY <1>1, Zenon DEF Linked, Sound

\* Marking frames changes no IT state they hold.
LEMMA MarkedSame ==
  ASSUME NEW fs \in Seq(Frame)
  PROVE  /\ SameIT(ThumbRan(fs), fs)
         /\ \A m : SameIT(SpWritten(fs, m), fs) /\ SameIT(LrWritten(fs, m), fs)
<1>1. ASSUME NEW i \in DOMAIN fs, NEW b
      PROVE  /\ [fs[i] EXCEPT !.still = b].it = fs[i].it
             /\ [fs[i] EXCEPT !.still = b].ait = fs[i].ait
             /\ [fs[i] EXCEPT !.intact = b].it = fs[i].it
             /\ [fs[i] EXCEPT !.intact = b].ait = fs[i].ait
  <2>1. fs[i] \in Frame
    OBVIOUS
  <2> QED BY <2>1 DEF Frame
<1>2. SameIT(ThumbRan(fs), fs)
  BY <1>1 DEF SameIT, ThumbRan
<1>3. ASSUME NEW m
      PROVE  SameIT(SpWritten(fs, m), fs)
  BY <1>1, Zenon DEF SameIT, SpWritten
<1>4. ASSUME NEW m
      PROVE  SameIT(LrWritten(fs, m), fs)
  BY <1>1, Zenon DEF SameIT, LrWritten
<1> QED
  BY <1>2, <1>3, <1>4

\* Frames with the same IT states are as aligned.
LEMMA AlignedSame ==
  ASSUME NEW it, NEW a, NEW fs, NEW gs, SameIT(gs, fs), Aligned(it, a, fs)
  PROVE  Aligned(it, a, gs)
  BY Zenon DEF Aligned, SameIT

\* What an instruction that takes no exception leaves.
LEMMA CommitAligned ==
  ASSUME TypeOK, ~ astray => Aligned(cpu.it, arch, frames), Executes,
         NEW c, DOMAIN c = DOMAIN cpu, c.it = cpu.it, NEW events,
         NEW fs \in Seq(Frame), SameIT(fs, frames), NEW strays,
         Commit(c, events, fs, ArchAdvanced, strays)
  PROVE  ~ astray' => Aligned(cpu'.it, arch', frames')
<1> SUFFICES ASSUME ~ astray'
             PROVE  Aligned(cpu'.it, arch', frames')
  OBVIOUS
<1>1. ~ astray
  BY DEF Commit
<1>2. Aligned(cpu.it, arch, frames)
  BY <1>1
<1>3. SameIT(frames', frames)
  <2>1. SameIT(ThumbRan(fs), fs)
    BY MarkedSame
  <2>2. SameIT(ThumbRan(fs), frames)
    BY <2>1, Zenon DEF SameIT
  <2> QED BY <2>2 DEF Commit
<1>4. /\ InBlock => cpu'.it = NextIT(cpu.it)
      /\ ~ InBlock => cpu'.it = cpu.it
  <2>1. "it" \in DOMAIN c
    BY Parts DEF Cpu
  <2> QED BY <2>1 DEF Commit, Advanced
<1>5. arch' = IF cpu.tbit THEN ArchNext(arch) ELSE arch
  BY Zenon DEF Commit, ArchAdvanced
<1>6. Linked(cpu'.it, arch', 1 \in DOMAIN frames)
  <2>1. Linked(cpu.it, arch, 1 \in DOMAIN frames) /\ cpu.it \in ITState
    BY <1>2, Parts DEF Aligned
  <2>2. /\ Linked(NextIT(cpu.it), ArchNext(arch), 1 \in DOMAIN frames)
        /\ cpu.it[2] = 0 => Linked(cpu.it, ArchNext(arch), 1 \in DOMAIN frames)
    BY <2>1, LinkedMoves, Zenon
  <2> QED BY <1>4, <1>5, <2>1, <2>2, Zenon DEF InBlock
<1>7. Aligned(cpu'.it, arch', frames)
  BY <1>2, <1>6 DEF Aligned
<1> QED
  BY <1>3, <1>7, AlignedSame

\* Switching modes and taking an exception leave the IT state as it is.
LEMMA ITUntouched ==
  ASSUME NEW c \in Cpu, NEW m
  PROVE  /\ SwitchMode(c, m).it = c.it /\ DOMAIN SwitchMode(c, m) = DOMAIN c
         /\ \A kind, ret : /\ TakeException(c, kind, ret).it = c.it
                           /\ DOMAIN TakeException(c, kind, ret) = DOMAIN c
<1>1. ASSUME NEW d, DOMAIN d = DOMAIN c, NEW n
      PROVE  SwitchMode(d, n).it = d.it /\ DOMAIN SwitchMode(d, n) = DOMAIN c
  <2>1. "it" \in DOMAIN d
    BY <1>1 DEF Cpu
  <2> QED BY <1>1, <2>1 DEF SwitchMode
<1>2. ASSUME NEW kind, NEW ret
      PROVE  /\ TakeException(c, kind, ret).it = c.it
             /\ DOMAIN TakeException(c, kind, ret) = DOMAIN c
  <2> DEFINE mode == ModeOf(kind)
             saved == [c EXCEPT !.spsr[mode] = PackCpsr(c)]
             d == SwitchMode(saved, mode)
             f == (kind = "fiq") \/ c.fMask
  <2>1. DOMAIN saved = DOMAIN c /\ saved.it = c.it
    <3> HIDE DEF mode
    <3> QED BY DEF Cpu
  <2> HIDE DEF saved
  <2>2. d.it = c.it /\ DOMAIN d = DOMAIN c /\ "it" \in DOMAIN c
    <3>1. "it" \in DOMAIN c
      BY DEF Cpu
    <3> QED BY <1>1, <2>1, <3>1
  <2>3. TakeException(c, kind, ret)
          = [d EXCEPT !.lr = ret, !.iMask = TRUE, !.fMask = f, !.pc = Vector(kind), !.tbit = FALSE]
    BY DEF TakeException, saved
  <2> HIDE DEF d, f
  <2> QED BY <2>2, <2>3
<1> QED
  BY <1>1, <1>2

\* A new exception: what the code and the architecture had is on top, and the handler
\* starts with the IT state of what it interrupted and none of the architecture's.
LEMMA PushedAligned ==
  ASSUME NEW fs \in Seq(Frame), NEW hs, SameIT(fs, hs), NEW it0, NEW a0, Aligned(it0, a0, hs),
         NEW c, NEW kind, NEW resume, NEW it, NEW ait, Linked(it, ait, 1 \in DOMAIN hs),
         NEW now, Sound(now)
  PROVE  Aligned(now, NoIT, Pushed(fs, c, kind, resume, it, ait))
<1> DEFINE f == [ kind |-> kind, mode |-> ModeOf(kind), ctx |-> Context(c), resume |-> resume,
                  it |-> it, ait |-> ait, intact |-> TRUE, still |-> TRUE, masked |-> TRUE ]
           ls == LrWritten(fs, ModeOf(kind))
           gs == <<f>> \o ls
<1>1. SameIT(ls, fs) /\ ls \in Seq(Frame)
  BY MarkedSame, LrWrittenType
<1>2. SameIT(ls, hs)
  BY <1>1, Zenon DEF SameIT
<1>3. f.it = it /\ f.ait = ait
  OBVIOUS
<1> HIDE DEF f, ls
<1>4. /\ DOMAIN gs = 1 .. Len(ls) + 1 /\ DOMAIN ls = 1 .. Len(ls) /\ Len(ls) \in Nat
      /\ gs[1] = f /\ \A i \in 1 .. Len(ls) : gs[i + 1] = ls[i]
  BY <1>1
<1>5. Aligned(it0, a0, ls)
  BY <1>2, AlignedSame
<1>6. \A i \in 1 .. Len(ls) : Linked(ls[i].it, ls[i].ait, i + 1 \in DOMAIN ls)
  BY <1>4, <1>5 DEF Aligned
<1>7. ASSUME NEW k \in DOMAIN gs
      PROVE  Linked(gs[k].it, gs[k].ait, k + 1 \in DOMAIN gs)
  <2>1. CASE k = 1
    <3>1. (k + 1 \in DOMAIN gs) <=> (1 \in DOMAIN hs)
      BY <1>2, <1>4, <2>1 DEF SameIT
    <3> QED BY <1>3, <1>4, <2>1, <3>1 DEF Linked
  <2>2. CASE k # 1
    <3> DEFINE i == k - 1
    <3>1. /\ i \in 1 .. Len(ls) /\ i + 1 = k
          /\ (k + 1 \in DOMAIN gs) <=> (i + 1 \in DOMAIN ls)
      BY <1>4, <2>2
    <3>2. gs[k] = ls[i]
      BY <1>4, <3>1
    <3> HIDE DEF i
    <3> QED BY <1>6, <3>1, <3>2 DEF Linked
  <2> QED BY <2>1, <2>2
<1>8. 1 \in DOMAIN gs
  BY <1>4
<1>9. Linked(now, NoIT, 1 \in DOMAIN gs)
  BY <1>8 DEF Linked
<1> HIDE DEF gs
<1>10. Aligned(now, NoIT, gs)
  BY <1>7, <1>9 DEF Aligned
<1> QED
  BY <1>10 DEF Pushed, gs, f, ls

\* An exception an instruction takes. In a block the architecture moves on first, and an
\* abort, which it takes before, goes astray.
LEMMA RaiseAligned ==
  ASSUME TypeOK, ~ astray => Aligned(cpu.it, arch, frames),
         NEW c \in Cpu, c.it = cpu.it, NEW fs \in Seq(Frame), SameIT(fs, frames),
         NEW kind, NEW ret, NEW resume, NEW events, NEW ait,
         \/ ait = ArchAdvanced
         \/ ait = arch /\ (kind = "dabt" \/ ~ cpu.tbit),
         Raise(c, fs, kind, ret, resume, events, ait)
  PROVE  ~ astray' => Aligned(cpu'.it, arch', frames')
<1> DEFINE it == IF InBlock THEN NextIT(cpu.it) ELSE cpu.it
           gs == ThumbRan(fs)
<1> SUFFICES ASSUME ~ astray'
             PROVE  Aligned(cpu'.it, arch', frames')
  OBVIOUS
<1>1. ~ astray /\ ~ (kind = "dabt" /\ InBlock)
  BY DEF Raise
<1>2. Aligned(cpu.it, arch, frames)
  BY <1>1
<1>3. /\ arch' = NoIT
      /\ frames' = Pushed(gs, c, kind, resume, it, ait)
      /\ cpu' = Advanced(TakeException(c, kind, ret))
  BY DEF Raise
<1>4. gs \in Seq(Frame) /\ SameIT(gs, frames)
  <2>1. gs \in Seq(Frame) /\ SameIT(gs, fs)
    BY MarkedSame, ThumbRanType, Parts
  <2> HIDE DEF gs
  <2> QED BY <2>1, Zenon DEF SameIT
<1>5. cpu'.it = it
  <2>1. TakeException(c, kind, ret).it = cpu.it /\ DOMAIN TakeException(c, kind, ret) = DOMAIN c
    BY ITUntouched
  <2>2. "it" \in DOMAIN c
    BY DEF Cpu
  <2> QED BY <1>3, <2>1, <2>2 DEF Advanced
<1>6. /\ Linked(cpu.it, arch, 1 \in DOMAIN frames) /\ cpu.it \in ITState
      /\ Linked(NextIT(cpu.it), ArchNext(arch), 1 \in DOMAIN frames)
      /\ cpu.it[2] = 0 => Linked(cpu.it, ArchNext(arch), 1 \in DOMAIN frames)
  <2>1. Linked(cpu.it, arch, 1 \in DOMAIN frames) /\ cpu.it \in ITState
    BY <1>2, Parts DEF Aligned
  <2> QED BY <2>1, LinkedMoves, Zenon
<1>7. Linked(it, ait, 1 \in DOMAIN frames)
  <2>1. CASE InBlock
    <3>1. ait = ArchNext(arch)
      BY <1>1, <2>1 DEF InBlock, ArchAdvanced
    <3> QED BY <1>6, <2>1, <3>1
  <2>2. CASE ~ InBlock
    BY <1>6, <2>2, Zenon DEF InBlock, ArchAdvanced
  <2> QED BY <2>1, <2>2
<1>8. Sound(it)
  BY <1>7 DEF Linked
<1> HIDE DEF it, gs
<1> QED
  BY <1>2, <1>3, <1>4, <1>5, <1>7, <1>8, PushedAligned

\* Instructions that change no IT state of their own.
LEMMA OrdinaryAligned ==
  ASSUME TypeOK, ~ astray => Aligned(cpu.it, arch, frames),
         \/ Straight \/ SetSp \/ SetLr \/ UnknownAccess \/ BranchLink \/ Interwork
         \/ CoprocessorRead \/ SelfBranch \/ Cps \/ Ldrex \/ Strex
  PROVE  ~ astray' => Aligned(cpu'.it, arch', frames')
<1> DEFINE Same(c) == DOMAIN c = DOMAIN cpu /\ c.it = cpu.it
<1>1. ASSUME NEW c, Same(c), NEW events, NEW fs \in Seq(Frame), SameIT(fs, frames),
             Executes, Commit(c, events, fs, ArchAdvanced, FALSE)
      PROVE  ~ astray' => Aligned(cpu'.it, arch', frames')
  BY <1>1, CommitAligned
<1>2. /\ frames \in Seq(Frame) /\ SameIT(frames, frames)
      /\ SpWritten(frames, cpu.mode) \in Seq(Frame)
      /\ SameIT(SpWritten(frames, cpu.mode), frames)
      /\ LrWritten(frames, cpu.mode) \in Seq(Frame)
      /\ SameIT(LrWritten(frames, cpu.mode), frames)
  BY Parts, MarkedSame, SpWrittenType, LrWrittenType DEF SameIT
<1>3. cpu \in Cpu
  BY Parts
<1>4. CASE Straight
  <2>1. PICK n \in Sizes, z \in BOOLEAN :
          Executes /\ Ordinary([cpu EXCEPT !.pc = Plus(@, n), !.z = z], frames)
    BY <1>4, Zenon DEF Straight
  <2> DEFINE c == [cpu EXCEPT !.pc = Plus(@, n), !.z = z]
  <2>2. Same(c)
    BY <1>3 DEF Cpu
  <2> HIDE DEF c, Same
  <2> QED BY <1>1, <1>2, <2>1, <2>2, Zenon DEF c, Ordinary
<1>5. CASE SetSp
  <2>1. PICK n \in Sizes, v \in Sps :
          /\ Executes
          /\ Ordinary([cpu EXCEPT !.pc = Plus(@, n), !.sp = v], SpWritten(frames, cpu.mode))
    BY <1>5, Zenon DEF SetSp
  <2> DEFINE c == [cpu EXCEPT !.pc = Plus(@, n), !.sp = v]
  <2>2. Same(c)
    BY <1>3 DEF Cpu
  <2> HIDE DEF c, Same
  <2> QED BY <1>1, <1>2, <2>1, <2>2, Zenon DEF c, Ordinary
<1>6. CASE SetLr
  <2>1. PICK n \in Sizes, v \in Targets, sp \in Sps \cup {cpu.sp} :
          /\ Executes
          /\ Ordinary([cpu EXCEPT !.pc = Plus(@, n), !.lr = v, !.sp = sp],
                      LrWritten(frames, cpu.mode))
    BY <1>6, Zenon DEF SetLr
  <2> DEFINE c == [cpu EXCEPT !.pc = Plus(@, n), !.lr = v, !.sp = sp]
  <2>2. Same(c)
    BY <1>3 DEF Cpu
  <2> HIDE DEF c, Same
  <2> QED BY <1>1, <1>2, <2>1, <2>2, Zenon DEF c, Ordinary
<1>7. CASE UnknownAccess
  <2>1. PICK n \in Sizes :
          /\ Executes
          /\ Commit([cpu EXCEPT !.pc = Plus(@, n)], {"unknown"}, frames, ArchAdvanced, FALSE)
    BY <1>7, Zenon DEF UnknownAccess
  <2> DEFINE c == [cpu EXCEPT !.pc = Plus(@, n)]
  <2>2. Same(c)
    BY <1>3 DEF Cpu
  <2> HIDE DEF c, Same
  <2> QED BY <1>1, <1>2, <2>1, <2>2, Zenon DEF c
<1>8. CASE BranchLink
  <2>1. PICK n \in Sizes, t \in Targets, thumb \in BOOLEAN :
          /\ Executes
          /\ Ordinary([cpu EXCEPT !.pc = t, !.tbit = thumb,
                                  !.lr = Plus(cpu.pc, n + (IF cpu.tbit THEN 1 ELSE 0))],
                      LrWritten(frames, cpu.mode))
    BY <1>8, Zenon DEF BranchLink
  <2> DEFINE ret == Plus(cpu.pc, n + (IF cpu.tbit THEN 1 ELSE 0))
             c == [cpu EXCEPT !.pc = t, !.tbit = thumb, !.lr = ret]
  <2> HIDE DEF ret
  <2>2. Same(c)
    BY <1>3 DEF Cpu
  <2> HIDE DEF c, Same
  <2> QED BY <1>1, <1>2, <2>1, <2>2, Zenon DEF c, ret, Ordinary
<1>9. CASE Interwork
  <2>1. PICK t \in Targets, thumb \in BOOLEAN :
          Executes /\ Ordinary([cpu EXCEPT !.pc = t, !.tbit = thumb], frames)
    BY <1>9, Zenon DEF Interwork
  <2> DEFINE c == [cpu EXCEPT !.pc = t, !.tbit = thumb]
  <2>2. Same(c)
    BY <1>3 DEF Cpu
  <2> HIDE DEF c, Same
  <2> QED BY <1>1, <1>2, <2>1, <2>2, Zenon DEF c, Ordinary
<1>10. CASE SelfBranch
  <2> DEFINE c == [cpu EXCEPT !.halted = TRUE, !.blocked = TRUE]
             ret == Plus(cpu.pc, IF cpu.tbit THEN 5 ELSE 4)
             d == [cpu EXCEPT !.halted = TRUE, !.blocked = TRUE, !.lr = ret]
  <2>1. Executes /\ (Ordinary(c, frames) \/ Ordinary(d, LrWritten(frames, cpu.mode)))
    BY <1>10, Zenon DEF SelfBranch
  <2> HIDE DEF ret
  <2>2. Same(c) /\ Same(d)
    BY <1>3 DEF Cpu
  <2> HIDE DEF c, d, Same
  <2> QED BY <1>1, <1>2, <2>1, <2>2, Zenon DEF Ordinary
<1>11. CASE Cps
  <2>1. PICK i \in BOOLEAN, f \in BOOLEAN :
          /\ Executes
          /\ Ordinary([cpu EXCEPT !.pc = Plus(@, 2), !.iMask = i, !.fMask = f],
                      [j \in DOMAIN frames |-> [frames[j] EXCEPT !.masked = @ /\ i]])
    BY <1>11, Zenon DEF Cps
  <2> DEFINE c == [cpu EXCEPT !.pc = Plus(@, 2), !.iMask = i, !.fMask = f]
             fs == [j \in DOMAIN frames |-> [frames[j] EXCEPT !.masked = @ /\ i]]
  <2>2. Same(c)
    BY <1>3 DEF Cpu
  <2>3. ASSUME NEW j \in DOMAIN frames
        PROVE  fs[j] \in Frame /\ fs[j].it = frames[j].it /\ fs[j].ait = frames[j].ait
    <3>1. frames[j] \in Frame
      BY <1>2
    <3>2. fs[j] = [frames[j] EXCEPT !.masked = frames[j].masked /\ i]
      OBVIOUS
    <3>3. (frames[j].masked /\ i) \in BOOLEAN
      OBVIOUS
    <3> HIDE DEF fs
    <3>4. fs[j] \in Frame
      BY <3>1, <3>2, <3>3, FrameUpdate
    <3>5. fs[j].it = frames[j].it /\ fs[j].ait = frames[j].ait
      BY <3>1, <3>2 DEF Frame
    <3> QED BY <3>4, <3>5
  <2>4. fs = [j \in DOMAIN frames |-> fs[j]]
    OBVIOUS
  <2> HIDE DEF c, fs, Same
  <2>5. fs \in Seq(Frame) /\ SameIT(fs, frames)
    BY <1>2, <2>3, <2>4, FramesType DEF SameIT
  <2> QED BY <1>1, <2>1, <2>2, <2>5, Zenon DEF c, fs, Ordinary
<1>12. CASE Ldrex \/ Strex
  <2>1. PICK e \in BOOLEAN :
          Executes /\ Ordinary([cpu EXCEPT !.pc = Plus(@, 4), !.excl = e], frames)
    BY <1>12, Zenon DEF Ldrex, Strex
  <2> DEFINE c == [cpu EXCEPT !.pc = Plus(@, 4), !.excl = e]
  <2>2. Same(c)
    BY <1>3 DEF Cpu
  <2> HIDE DEF c, Same
  <2> QED BY <1>1, <1>2, <2>1, <2>2, Zenon DEF c, Ordinary
<1>13. CASE CoprocessorRead
  <2> DEFINE c == [cpu EXCEPT !.pc = Plus(@, 4)]
  <2>1. Executes /\ Commit(c, {"unsupported"}, frames, ArchAdvanced, FALSE)
    BY <1>13, Zenon DEF CoprocessorRead
  <2>2. Same(c)
    BY <1>3 DEF Cpu
  <2> HIDE DEF c, Same
  <2> QED BY <1>1, <1>2, <2>1, <2>2, Zenon
<1> QED
  BY <1>4, <1>5, <1>6, <1>7, <1>8, <1>9, <1>10, <1>11, <1>12, <1>13

\* A skipped instruction moves both IT states on.
LEMMA SkipAligned ==
  ASSUME TypeOK, ~ astray => Aligned(cpu.it, arch, frames), Skip
  PROVE  ~ astray' => Aligned(cpu'.it, arch', frames')
<1> SUFFICES ASSUME ~ astray'
             PROVE  Aligned(cpu'.it, arch', frames')
  OBVIOUS
<1>1. ~ astray /\ arch' = ArchNext(arch) /\ frames' = ThumbRan(frames)
  BY DEF Skip
<1>2. PICK n \in Sizes : cpu' = [cpu EXCEPT !.pc = Plus(@, n), !.it = NextIT(@)]
  BY Zenon DEF Skip
<1>3. cpu'.it = NextIT(cpu.it)
  BY <1>2, Parts DEF Cpu
<1>4. SameIT(frames', frames)
  BY <1>1, Parts, MarkedSame
<1>5. Aligned(cpu.it, arch, frames) /\ cpu.it \in ITState
  BY <1>1, Parts
<1>6. Linked(cpu'.it, arch', 1 \in DOMAIN frames)
  BY <1>1, <1>3, <1>5, LinkedMoves DEF Aligned
<1>7. Aligned(cpu'.it, arch', frames)
  BY <1>5, <1>6 DEF Aligned
<1> QED
  BY <1>4, <1>7, AlignedSame

\* In a block a fetch that faults goes astray; outside, it leaves both IT states.
LEMMA FetchFaultAligned ==
  ASSUME TypeOK, ~ astray => Aligned(cpu.it, arch, frames), FetchFault
  PROVE  ~ astray' => Aligned(cpu'.it, arch', frames')
<1> DEFINE c == [cpu EXCEPT !.halted = TRUE]
<1> SUFFICES ASSUME ~ astray'
             PROVE  Aligned(cpu'.it, arch', frames')
  OBVIOUS
<1>1. ~ astray /\ ~ InBlock /\ arch' = arch /\ frames' = ThumbRan(frames)
  BY DEF FetchFault
<1>2. cpu' = c
  BY <1>1 DEF FetchFault, Skips, Advanced
<1>3. c.it = cpu.it
  BY Parts DEF Cpu
<1>4. SameIT(frames', frames)
  BY <1>1, Parts, MarkedSame
<1>5. Aligned(cpu'.it, arch', frames)
  BY <1>1, <1>2, <1>3
<1> QED
  BY <1>4, <1>5, AlignedSame

\* A faithful block is the IT state of both.
LEMMA IfThenAligned ==
  ASSUME TypeOK, ~ astray => Aligned(cpu.it, arch, frames), IfThen
  PROVE  ~ astray' => Aligned(cpu'.it, arch', frames')
<1> SUFFICES ASSUME ~ astray'
             PROVE  Aligned(cpu'.it, arch', frames')
  OBVIOUS
<1>1. PICK b \in Blocks :
        /\ cpu' = Advanced([cpu EXCEPT !.pc = Plus(@, 2), !.it = b])
        /\ frames' = ThumbRan(frames)
        /\ arch' = b
        /\ astray' = (astray \/ Stale \/ (\/ ~ Faithful(b) \/ InBlock
                                        \/ \E i \in DOMAIN frames : frames[i].ait # NoIT))
  BY Zenon DEF IfThen, Commit
<1> DEFINE c == [cpu EXCEPT !.pc = Plus(@, 2), !.it = b]
<1>2. ~ astray /\ Faithful(b) /\ ~ InBlock
  BY <1>1
<1>3. c.it = b
  BY Parts DEF Cpu
<1>4. cpu' = c
  BY <1>1, <1>2 DEF Advanced
<1> HIDE DEF c
<1>5. SameIT(frames', frames)
  BY <1>1, Parts, MarkedSame
<1>6. Linked(cpu'.it, arch', 1 \in DOMAIN frames)
  BY <1>1, <1>2, <1>3, <1>4 DEF Linked, Sound
<1>7. Aligned(cpu'.it, arch', frames)
  BY <1>2, <1>6 DEF Aligned
<1> QED
  BY <1>5, <1>7, AlignedSame

\* Nothing is aligned with no frames but equal IT states.
LEMMA AlignedAlone ==
  ASSUME NEW it, Sound(it)
  PROVE  Aligned(it, it, <<>>)
  BY DEF Aligned, Linked

\* Firmware that leaves a handler with MSR has no IT state, or goes astray.
LEMMA MsrAligned ==
  ASSUME TypeOK, ~ astray => Aligned(cpu.it, arch, frames), Msr
  PROVE  ~ astray' => Aligned(cpu'.it, arch', frames')
<1> SUFFICES ASSUME ~ astray'
             PROVE  Aligned(cpu'.it, arch', frames')
  OBVIOUS
<1>1. /\ ~ astray /\ arch' = arch /\ frames' = <<>>
      /\ \A i \in DOMAIN frames : cpu.it = NoIT
  BY Zenon DEF Msr
<1>2. PICK s \in Psrs :
        cpu' = [SwitchMode(cpu, s.mode) EXCEPT
                  !.iMask = s.iMask, !.fMask = s.fMask, !.tbit = s.tbit, !.pc = Plus(@, 4)]
  BY Zenon DEF Msr
<1> DEFINE c == SwitchMode(cpu, s.mode)
<1>3. c.it = cpu.it /\ DOMAIN c = DOMAIN cpu /\ "it" \in DOMAIN cpu
  BY Parts, ITUntouched DEF Cpu
<1> HIDE DEF c
<1>4. cpu'.it = cpu.it
  BY <1>2, <1>3 DEF c
<1>5. Linked(cpu.it, arch, 1 \in DOMAIN frames)
  BY <1>1 DEF Aligned
<1>6. arch = cpu.it /\ Sound(cpu.it)
  BY <1>1, <1>5, Zenon DEF Linked
<1> QED
  BY <1>1, <1>4, <1>6, AlignedAlone

\* An abort is taken before the architecture moves on.
LEMMA AbortAligned ==
  ASSUME TypeOK, ~ astray => Aligned(cpu.it, arch, frames), Abort
  PROVE  ~ astray' => Aligned(cpu'.it, arch', frames')
<1>1. ASSUME NEW c \in Cpu, c.it = cpu.it, NEW fs \in Seq(Frame), SameIT(fs, frames), NEW ret,
             Raise(c, fs, "dabt", ret, cpu.pc, {}, arch)
      PROVE  ~ astray' => Aligned(cpu'.it, arch', frames')
  BY <1>1, RaiseAligned
<1>2. /\ frames \in Seq(Frame) /\ SameIT(frames, frames)
      /\ SpWritten(frames, cpu.mode) \in Seq(Frame)
      /\ SameIT(SpWritten(frames, cpu.mode), frames)
      /\ LrWritten(frames, cpu.mode) \in Seq(Frame)
      /\ SameIT(LrWritten(frames, cpu.mode), frames)
  BY Parts, MarkedSame, SpWrittenType, LrWrittenType DEF SameIT
<1>3. CASE \E n \in Sizes :
             Raise(cpu, frames, "dabt", Plus(cpu.pc, IF cpu.tbit THEN n ELSE 8), cpu.pc, {}, arch)
  <2>1. \E ret : Raise(cpu, frames, "dabt", ret, cpu.pc, {}, arch)
    BY <1>3, Zenon
  <2>2. cpu \in Cpu
    BY Parts
  <2> QED BY <1>1, <1>2, <2>1, <2>2, Zenon
<1>4. CASE \E sp \in Sps : Raise([cpu EXCEPT !.sp = sp], SpWritten(frames, cpu.mode),
                                  "dabt", Plus(cpu.pc, 8), cpu.pc, {}, arch)
  <2>1. PICK sp \in Sps : Raise([cpu EXCEPT !.sp = sp], SpWritten(frames, cpu.mode),
                                "dabt", Plus(cpu.pc, 8), cpu.pc, {}, arch)
    BY <1>4, Zenon
  <2> DEFINE c == [cpu EXCEPT !.sp = sp]
  <2>2. sp \in Stack /\ cpu.lr \in Address
    BY Parts DEF Stack, Cpu
  <2>3. c \in Cpu
    BY <2>2, PartialType
  <2>4. c.it = cpu.it
    BY Parts DEF Cpu
  <2> HIDE DEF c
  <2> QED BY <1>1, <1>2, <2>1, <2>3, <2>4, Zenon DEF c
<1>5. CASE \E sp \in Sps \cup {cpu.sp}, v \in Targets :
             Raise([cpu EXCEPT !.sp = sp, !.lr = v], LrWritten(frames, cpu.mode),
                   "dabt", Plus(cpu.pc, 8), cpu.pc, {}, arch)
  <2>1. PICK sp \in Sps \cup {cpu.sp}, v \in Targets :
             Raise([cpu EXCEPT !.sp = sp, !.lr = v], LrWritten(frames, cpu.mode),
                   "dabt", Plus(cpu.pc, 8), cpu.pc, {}, arch)
    BY <1>5, Zenon
  <2> DEFINE c == [cpu EXCEPT !.sp = sp, !.lr = v]
  <2>2. sp \in Stack /\ v \in Address
    BY Parts, BoundsAssumption DEF Stack, Address, Cpu
  <2>3. c \in Cpu
    BY <2>2, PartialType
  <2>4. c.it = cpu.it
    BY Parts DEF Cpu
  <2> HIDE DEF c
  <2> QED BY <1>1, <1>2, <2>1, <2>3, <2>4, Zenon DEF c
<1> QED
  BY <1>3, <1>4, <1>5, Zenon DEF Abort

\* SVC and undefined instructions are taken after it moved on.
LEMMA ExceptionAligned ==
  ASSUME TypeOK, ~ astray => Aligned(cpu.it, arch, frames), Svc \/ Undefined
  PROVE  ~ astray' => Aligned(cpu'.it, arch', frames')
<1>1. ASSUME NEW kind, NEW a, NEW events, NEW ait,
             ait = ArchAdvanced \/ (ait = arch /\ ~ cpu.tbit),
             Raise(cpu, frames, kind, a, a, events, ait)
      PROVE  ~ astray' => Aligned(cpu'.it, arch', frames')
  <2>1. cpu \in Cpu /\ frames \in Seq(Frame) /\ SameIT(frames, frames)
    BY Parts DEF SameIT
  <2>2. ait = ArchAdvanced \/ (ait = arch /\ (kind = "dabt" \/ ~ cpu.tbit))
    BY <1>1
  <2> QED BY <1>1, <2>1, <2>2, RaiseAligned
<1>2. CASE Svc
  <2>1. \E a : Raise(cpu, frames, "swi", a, a, {}, ArchAdvanced)
    BY <1>2, Zenon DEF Svc
  <2> QED BY <1>1, <2>1, Zenon
<1>3. CASE /\ Executes
           /\ Commit([cpu EXCEPT !.halted = TRUE], {"unsupported"}, frames, ArchAdvanced, FALSE)
  <2> DEFINE c == [cpu EXCEPT !.halted = TRUE]
  <2>1. DOMAIN c = DOMAIN cpu /\ c.it = cpu.it
    BY Parts DEF Cpu
  <2>2. frames \in Seq(Frame) /\ SameIT(frames, frames)
    BY Parts DEF SameIT
  <2> HIDE DEF c
  <2>3. Commit(c, {"unsupported"}, frames, ArchAdvanced, FALSE)
    BY <1>3 DEF c
  <2> QED BY <1>3, <2>1, <2>2, <2>3, CommitAligned
<1>4. CASE Undefined
  <2>1. \/ /\ ~ cpu.tbit
           /\ Raise(cpu, frames, "undef", Plus(cpu.pc, 4), Plus(cpu.pc, 4), {"unsupported"}, arch)
        \/ Raise(cpu, frames, "undef", Plus(cpu.pc, 2), Plus(cpu.pc, 2), {}, ArchAdvanced)
        \/ /\ Executes
           /\ Commit([cpu EXCEPT !.halted = TRUE], {"unsupported"}, frames, ArchAdvanced, FALSE)
    BY <1>4, Zenon DEF Undefined
  <2> QED BY <1>1, <1>3, <2>1, Zenon
<1> QED
  BY <1>2, <1>4

\* An interrupt is taken between two instructions: both IT states go on the stack.
LEMMA InterruptAligned ==
  ASSUME TypeOK, ~ astray => Aligned(cpu.it, arch, frames),
         NEW kind \in {"irq", "fiq"}, Interrupt(kind)
  PROVE  ~ astray' => Aligned(cpu'.it, arch', frames')
<1> DEFINE c == IF kind = "fiq" THEN [cpu EXCEPT !.fiq = FALSE] ELSE [cpu EXCEPT !.irq = FALSE]
<1> SUFFICES ASSUME ~ astray'
             PROVE  Aligned(cpu'.it, arch', frames')
  OBVIOUS
<1>1. /\ astray' = astray /\ arch' = NoIT
      /\ frames' = Pushed(frames, cpu, kind, cpu.pc, cpu.it, arch)
      /\ cpu' = TakeException(c, kind, Plus(cpu.pc, 4))
  BY DEF Interrupt
<1>2. c \in Cpu
  BY Parts, ZenonT(30) DEF Cpu
<1>3. c.it = cpu.it
  BY Parts DEF Cpu
<1> HIDE DEF c
<1>4. cpu'.it = cpu.it
  BY <1>1, <1>2, <1>3, ITUntouched
<1>5. Aligned(cpu.it, arch, frames) /\ frames \in Seq(Frame) /\ SameIT(frames, frames)
  BY <1>1, Parts DEF SameIT
<1>6. Linked(cpu.it, arch, 1 \in DOMAIN frames) /\ Sound(cpu.it)
  BY <1>5 DEF Aligned, Linked
<1> QED
  BY <1>1, <1>4, <1>5, <1>6, PushedAligned

\* A return that does not go astray goes back to the IT states that were interrupted.
LEMMA ReturnAligned ==
  ASSUME TypeOK, ~ astray => Aligned(cpu.it, arch, frames), NEW n, Return(n)
  PROVE  ~ astray' => Aligned(cpu'.it, arch', frames')
<1> SUFFICES ASSUME ~ astray'
             PROVE  Aligned(cpu'.it, arch', frames')
  OBVIOUS
<1> DEFINE s == cpu.spsr[cpu.mode]
           c == SwitchMode(cpu, s.mode)
<1>1. cpu'.it = cpu.it
  <2>1. c.it = cpu.it /\ DOMAIN c = DOMAIN cpu /\ "it" \in DOMAIN cpu
    BY Parts, ITUntouched DEF Cpu
  <2>2. cpu' = [UnpackCpsr(cpu, s) EXCEPT !.pc = Plus(cpu.lr, AddrMod - n)]
    BY DEF Return
  <2> HIDE DEF s
  <2>3. UnpackCpsr(cpu, s)
          = [c EXCEPT !.iMask = s.iMask, !.fMask = s.fMask, !.tbit = s.tbit, !.z = s.z]
    BY DEF UnpackCpsr
  <2> HIDE DEF c
  <2> QED BY <2>1, <2>2, <2>3
<1>2. ~ astray /\ Aligned(cpu.it, arch, frames)
  BY DEF Return
<1>3. CASE frames = <<>>
  <2>1. cpu.it = NoIT /\ arch' = NoIT /\ frames' = <<>>
    BY <1>3 DEF Return
  <2> QED BY <1>1, <2>1, AlignedAlone DEF Sound
<1>4. CASE frames # <<>>
  <2>1. Head(frames).it = cpu.it /\ arch' = Head(frames).ait /\ frames' = Tail(frames)
    BY <1>4 DEF Return
  <2>2. /\ Head(frames) = frames[1] /\ 1 \in DOMAIN frames /\ frames \in Seq(Frame)
        /\ \A i \in DOMAIN Tail(frames) : i + 1 \in DOMAIN frames /\ Tail(frames)[i] = frames[i + 1]
    BY <1>4, Parts, TailFrames
  <2>3. \A i \in Nat : (i \in DOMAIN Tail(frames)) <=> (i # 0 /\ i + 1 \in DOMAIN frames)
    BY <1>4, <2>2
  <2>4. Linked(cpu.it, arch', 1 \in DOMAIN Tail(frames))
    <3>1. Linked(frames[1].it, frames[1].ait, 1 + 1 \in DOMAIN frames)
      BY <1>2, <2>2, Zenon DEF Aligned
    <3>2. (1 \in DOMAIN Tail(frames)) <=> (1 + 1 \in DOMAIN frames)
      BY <2>3
    <3> QED BY <2>1, <2>2, <3>1, <3>2 DEF Linked
  <2>5. ASSUME NEW i \in DOMAIN Tail(frames)
        PROVE  Linked(Tail(frames)[i].it, Tail(frames)[i].ait, i + 1 \in DOMAIN Tail(frames))
    <3>1. i \in Nat /\ i + 1 \in DOMAIN frames /\ Tail(frames)[i] = frames[i + 1]
      BY <1>4, <2>2
    <3>2. Linked(frames[i + 1].it, frames[i + 1].ait, i + 1 + 1 \in DOMAIN frames)
      BY <1>2, <3>1, Zenon DEF Aligned
    <3>3. (i + 1 \in DOMAIN Tail(frames)) <=> (i + 1 + 1 \in DOMAIN frames)
      BY <2>3, <3>1
    <3> QED BY <3>1, <3>2, <3>3 DEF Linked
  <2> QED BY <1>1, <2>1, <2>4, <2>5 DEF Aligned
<1> QED
  BY <1>3, <1>4

\* A driver that runs the machine again touches the interrupts only.
LEMMA RerunAligned ==
  ASSUME TypeOK, ~ astray => Aligned(cpu.it, arch, frames), Rerun
  PROVE  ~ astray' => Aligned(cpu'.it, arch', frames')
<1>1. PICK i \in BOOLEAN, f \in BOOLEAN, open \in BOOLEAN :
        cpu' = [cpu EXCEPT !.irq = i, !.fiq = f, !.iMask = @ /\ ~ open, !.fMask = @ /\ ~ open]
  BY Zenon DEF Rerun
<1>2. cpu'.it = cpu.it
  BY <1>1, Parts DEF Cpu
<1>3. arch' = arch /\ frames' = frames /\ astray' = astray
  BY DEF Rerun, hist
<1> QED
  BY <1>2, <1>3

\* A checkpoint taken in a block resumes astray; any other resumes aligned.
LEMMA ResumeAligned ==
  ASSUME TypeOK, kept # None => (~ kept.astray => Aligned(kept.cpu.it, kept.arch, kept.frames)),
         Resume
  PROVE  ~ astray' => Aligned(cpu'.it, arch', frames')
<1> DEFINE c == kept.cpu
           d == Serialised(c)
           fs == kept.frames
           gs == [i \in DOMAIN fs |-> [fs[i] EXCEPT !.still = @ /\ c.it = NoIT]]
<1> SUFFICES ASSUME ~ astray'
             PROVE  Aligned(cpu'.it, arch', frames')
  OBVIOUS
<1>1. FileOK /\ file # None
  BY DEF TypeOK, FileOK, Resume
<1>2. kept \in Kept /\ file.cpu = d
  BY <1>1 DEF FileOK
<1>3. c \in Cpu /\ fs \in Seq(Frame) /\ kept # None
  <2>1. kept # None
    BY <1>2 DEF Kept, None
  <2> QED BY <1>2, <2>1 DEF Kept
<1>4. cpu' = d /\ frames' = gs /\ arch' = kept.arch /\ ~ kept.astray /\ c.it = NoIT
  BY <1>2 DEF Resume
<1>5. Aligned(c.it, kept.arch, fs)
  BY <1>3, <1>4
<1> HIDE DEF c
<1>6. d.it = NoIT
  BY <1>3 DEF Serialised, Cpu
<1>7. DOMAIN gs = DOMAIN fs
  OBVIOUS
<1> HIDE DEF fs
<1>8. ASSUME NEW i \in DOMAIN fs
      PROVE  gs[i].it = fs[i].it /\ gs[i].ait = fs[i].ait
  <2>1. fs[i] \in Frame
    BY <1>3
  <2>2. gs[i] = [fs[i] EXCEPT !.still = @ /\ c.it = NoIT]
    OBVIOUS
  <2> HIDE DEF gs
  <2> QED BY <2>1, <2>2 DEF Frame
<1> HIDE DEF d, gs
<1>9. SameIT(gs, fs)
  BY <1>7, <1>8 DEF SameIT
<1>10. Aligned(cpu'.it, arch', fs)
  BY <1>4, <1>5, <1>6
<1> QED
  BY <1>4, <1>9, <1>10, AlignedSame

\* The IT states of this process and those the checkpoint was written with are aligned.
ITInv ==
  /\ ~ astray => Aligned(cpu.it, arch, frames)
  /\ kept # None => (~ kept.astray => Aligned(kept.cpu.it, kept.arch, kept.frames))

LEMMA InstructionAligned ==
  ASSUME TypeOK, ~ astray => Aligned(cpu.it, arch, frames),
         Instruction \/ \E kind \in {"irq", "fiq"} : Interrupt(kind)
  PROVE  ~ astray' => Aligned(cpu'.it, arch', frames')
<1>1. CASE Skip \/ FetchFault \/ IfThen \/ Msr
  BY <1>1, SkipAligned, FetchFaultAligned, IfThenAligned, MsrAligned
<1>2. CASE \/ Straight \/ SetSp \/ SetLr \/ UnknownAccess \/ BranchLink \/ Interwork
           \/ CoprocessorRead \/ SelfBranch \/ Cps \/ Ldrex \/ Strex
  BY <1>2, OrdinaryAligned
<1>3. CASE Svc \/ Undefined \/ Abort
  BY <1>3, ExceptionAligned, AbortAligned
<1>4. CASE \E n \in {0, 4, 8} : Return(n)
  BY <1>4, ReturnAligned, Zenon
<1>5. CASE \E kind \in {"irq", "fiq"} : Interrupt(kind)
  BY <1>5, InterruptAligned, Zenon
<1> QED
  BY <1>1, <1>2, <1>3, <1>4, <1>5, Zenon DEF Instruction

\* ITInv is inductive.
LEMMA ITStaysAligned ==
  Spec => []ITInv
<1>1. Init => ITInv
  <2> SUFFICES ASSUME Init
               PROVE  ITInv
    OBVIOUS
  <2>1. PICK t \in BOOLEAN : cpu = Reset(t)
    BY DEF Init
  <2>2. cpu.it = NoIT
    BY <2>1 DEF Reset
  <2>3. arch = NoIT /\ frames = <<>> /\ kept = None
    BY DEF Init
  <2> QED BY <2>2, <2>3, AlignedAlone DEF ITInv, Sound
<1>2. TypeOK /\ ITInv /\ [Next]_vars => ITInv'
  <2> SUFFICES ASSUME TypeOK, ITInv, [Next]_vars
               PROVE  ITInv'
    OBVIOUS
  <2>1. /\ ~ astray => Aligned(cpu.it, arch, frames)
        /\ kept # None => (~ kept.astray => Aligned(kept.cpu.it, kept.arch, kept.frames))
    BY DEF ITInv
  <2>2. CASE Instruction \/ \E kind \in {"irq", "fiq"} : Interrupt(kind)
    <3>1. ~ astray' => Aligned(cpu'.it, arch', frames')
      BY <2>1, <2>2, InstructionAligned
    <3>2. kept' = kept
      BY <2>2, StepFacts DEF Steps, disk
    <3> QED BY <2>1, <3>1, <3>2, Zenon DEF ITInv
  <2>3. CASE Save
    <3>1. /\ cpu' = cpu /\ frames' = frames /\ arch' = arch /\ astray' = astray
          /\ kept'.cpu = cpu /\ kept'.frames = frames /\ kept'.arch = arch
          /\ kept'.astray = astray
      BY <2>3 DEF Save, hist, Now
    <3> QED BY <2>1, <3>1, Zenon DEF ITInv
  <2>4. CASE Rerun \/ Resume
    <3>1. ~ astray' => Aligned(cpu'.it, arch', frames')
      BY <2>1, <2>4, RerunAligned, ResumeAligned
    <3>2. kept' = kept
      BY <2>4 DEF Rerun, Resume, disk
    <3> QED BY <2>1, <3>1, <3>2, Zenon DEF ITInv
  <2>5. CASE End \/ UNCHANGED vars
    <3>1. /\ cpu' = cpu /\ frames' = frames /\ arch' = arch /\ astray' = astray
          /\ kept' = kept
      BY <2>5 DEF End, vars, hist, disk
    <3> QED BY <2>1, <3>1, Zenon DEF ITInv
  <2> QED
    BY <2>2, <2>3, <2>4, <2>5, Zenon DEF Next
<1> QED
  BY <1>1, <1>2, TypeCorrect, PTL DEF Spec

\* Through exceptions, returns, skips, changes of state and checkpoints, the blocks the
\* code reads as the architecture does end where the architecture ends them and give each
\* instruction its condition: outside a handler nothing is on the stack to differ by.
THEOREM BlocksFollowArchitecture == Spec => []ITFollowsArchitecture
<1>1. ITInv => ITFollowsArchitecture
  <2> SUFFICES ASSUME ITInv, ~ astray, frames = <<>>
               PROVE  /\ (cpu.it = NoIT) = (arch = NoIT)
                      /\ cpu.it # NoIT => Cond(cpu.it) = arch[1]
    BY DEF ITFollowsArchitecture
  <2>1. Linked(cpu.it, arch, 1 \in DOMAIN frames) /\ 1 \notin DOMAIN frames
    BY DEF ITInv, Aligned
  <2>2. arch = cpu.it /\ Sound(cpu.it)
    BY <2>1 DEF Linked
  <2>3. CASE cpu.it # NoIT
    <3>1. cpu.it[2] >= 8
      BY <2>2, <2>3 DEF Sound, Faithful
    <3> QED BY <2>2, <3>1 DEF Cond
  <2> QED BY <2>2, <2>3
<1> QED
  BY <1>1, ITStaysAligned, PTL
=============================================================================
