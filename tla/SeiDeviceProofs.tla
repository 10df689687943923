-------------------------- MODULE SeiDeviceProofs --------------------------
(***************************************************************************)
(* Proofs about SeiDevice for every device, word size and access: devices  *)
(* keep their type, every access changes every bit of every register by    *)
(* that bit's access policy, and every answer is the one the contract of   *)
(* its kind of device derives from the whole history of accesses.  The     *)
(* invariant HistoryInv says how the state a device keeps, a counter, a    *)
(* position, an address, sums that history up.                             *)
(***************************************************************************)
EXTENDS SeiDevice, SequenceTheorems, FiniteSetTheorems, WellFoundedInduction, TLAPS

\* What TypeOK says of the device.
DevOK == dev \in Behavior /\ dev.kind = first.kind

\* Every non-empty set of naturals has a least member, which FirstOf picks.
LEMMA LeastOf ==
  ASSUME NEW S \in SUBSET Nat, S # {}
  PROVE  FirstOf(S) \in S
<1> DEFINE Less == {p \in Nat \X Nat : p[1] < p[2]}
<1>1. IsWellFoundedOn(Less, Nat)
  BY NatLessThanWellFounded DEF OpToRel
<1>2. PICK x \in S : \A y \in S : ~ (<<y, x>> \in Less)
  <2> HIDE DEF Less
  <2> QED BY <1>1, WFMin
<1>3. ASSUME NEW j \in S
      PROVE  x <= j
  <2>1. /\ <<j, x>> \in Nat \X Nat
        /\ <<j, x>>[1] = j /\ <<j, x>>[2] = x
    OBVIOUS
  <2>2. ~ (j < x)
    BY <2>1, <1>2, Zenon
  <2>3. QED BY <2>2
<1>4. QED BY <1>3, Zenon DEF FirstOf

-----------------------------------------------------------------------------
(* Registers.                                                              *)

\* A write changes each bit by its policy, for all masks, overlapping or not,
\* and all written values.
LEMMA RegWriteBits ==
  ASSUME NEW c \in Cell, NEW v \in SUBSET Bit, NEW b \in Bit
  PROVE  b \in RegWrite(c, v) <=>
           BitAfter(c, b, b \in c.value, [op |-> "write", off |-> c.offset, val |-> v])
BY DEF RegWrite, BitAfter, Cell

\* Registers stay registers, at their offset, when written or cleared by a read.
LEMMA CellTypes ==
  ASSUME NEW c \in Cell, NEW v \in SUBSET Bit
  PROVE  /\ Updated(c, v) \in Cell /\ Updated(c, v).value = RegWrite(c, v)
         /\ ClearedOnRead(c) \in Cell /\ ClearedOnRead(c).value = c.value \ c.cor
         /\ Updated(c, v).offset = c.offset /\ ClearedOnRead(c).offset = c.offset
<1>1. RegWrite(c, v) \in SUBSET Bit
  BY DEF RegWrite, Cell
<1>2. QED
  BY <1>1 DEF Updated, ClearedOnRead, Cell

\* The cells of a register file after a read or a write.
LEMMA RegFileRead ==
  ASSUME NEW d \in RegFile, NEW off \in Offset
  PROVE  /\ ReadRegFile(d, off).dev \in RegFile
         /\ DOMAIN ReadRegFile(d, off).dev.cells = DOMAIN d.cells
         /\ \A i \in DOMAIN d.cells :
              ReadRegFile(d, off).dev.cells[i] =
                IF d.cells[i].offset = off THEN ClearedOnRead(d.cells[i]) ELSE d.cells[i]
<1> DEFINE cs == [i \in DOMAIN d.cells |-> IF i \in CellsAt(d, off)
                                           THEN ClearedOnRead(d.cells[i]) ELSE d.cells[i]]
<1>1. d.cells \in Seq(Cell) /\ DOMAIN d.cells = 1 .. Len(d.cells) /\ Len(d.cells) \in Nat
  BY LenProperties DEF RegFile
<1>2. \A i \in 1 .. Len(d.cells) : d.cells[i] \in Cell
  BY <1>1, ElementOfSeq
<1>3. \A i \in 1 .. Len(d.cells) : cs[i] \in Cell
  BY <1>1, <1>2, CellTypes
<1>4. cs \in Seq(Cell)
  <2>1. cs \in [1 .. Len(d.cells) -> Cell]
    BY <1>1, <1>3
  <2>2. QED
    BY <1>1, <2>1, SeqDef
<1>5. ReadRegFile(d, off).dev = [d EXCEPT !.cells = cs]
  BY Zenon DEF ReadRegFile
<1>6. \A i \in DOMAIN d.cells :
        cs[i] = IF d.cells[i].offset = off THEN ClearedOnRead(d.cells[i]) ELSE d.cells[i]
  BY DEF CellsAt
<1>7. DOMAIN cs = DOMAIN d.cells
  OBVIOUS
<1> HIDE DEF cs
<1>8. [d EXCEPT !.cells = cs] \in RegFile /\ [d EXCEPT !.cells = cs].cells = cs
  BY <1>4 DEF RegFile
<1>9. QED
  BY <1>5, <1>6, <1>7, <1>8

\* A write updates every register at its offset and no other.
LEMMA RegFileWrite ==
  ASSUME NEW d \in RegFile, NEW off \in Offset, NEW v \in SUBSET Bit
  PROVE  /\ WriteRegFile(d, off, v) \in RegFile
         /\ DOMAIN WriteRegFile(d, off, v).cells = DOMAIN d.cells
         /\ \A i \in DOMAIN d.cells :
              WriteRegFile(d, off, v).cells[i] =
                IF d.cells[i].offset = off THEN Updated(d.cells[i], v) ELSE d.cells[i]
<1> DEFINE cs == [i \in DOMAIN d.cells |-> IF i \in CellsAt(d, off)
                                           THEN Updated(d.cells[i], v) ELSE d.cells[i]]
<1>1. d.cells \in Seq(Cell) /\ DOMAIN d.cells = 1 .. Len(d.cells) /\ Len(d.cells) \in Nat
  BY LenProperties DEF RegFile
<1>2. \A i \in 1 .. Len(d.cells) : d.cells[i] \in Cell
  BY <1>1, ElementOfSeq
<1>3. \A i \in 1 .. Len(d.cells) : cs[i] \in Cell
  BY <1>1, <1>2, CellTypes
<1>4. cs \in Seq(Cell)
  <2>1. cs \in [1 .. Len(d.cells) -> Cell]
    BY <1>1, <1>3
  <2>2. QED
    BY <1>1, <2>1, SeqDef
<1>5. WriteRegFile(d, off, v) = [d EXCEPT !.cells = cs]
  BY Zenon DEF WriteRegFile
<1>6. \A i \in DOMAIN d.cells :
        cs[i] = IF d.cells[i].offset = off THEN Updated(d.cells[i], v) ELSE d.cells[i]
  BY DEF CellsAt
<1>7. DOMAIN cs = DOMAIN d.cells
  OBVIOUS
<1> HIDE DEF cs
<1>8. [d EXCEPT !.cells = cs] \in RegFile /\ [d EXCEPT !.cells = cs].cells = cs
  BY <1>4 DEF RegFile
<1>9. QED
  BY <1>5, <1>6, <1>7, <1>8

-----------------------------------------------------------------------------
(* Types.                                                                  *)

\* Reading a device leaves a device of the same kind, for every kind.
LEMMA ReadType ==
  ASSUME DeviceAssumption, NEW d \in Behavior, NEW off \in Offset
  PROVE  ReadReg(d, off).dev \in Behavior /\ ReadReg(d, off).dev.kind = d.kind
<1>1. CASE d \in StatusModel
  <2>1. ReadReg(d, off) = ReadStatusModel(d)
    BY <1>1 DEF ReadReg, StatusModel
  <2>2. ReadStatusModel(d).dev \in StatusModel
    BY <1>1 DEF ReadStatusModel, StatusModel
  <2>3. QED
    BY <1>1, <2>1, <2>2 DEF Behavior, StatusModel
<1>2. CASE d \in RegFile
  <2>1. ReadReg(d, off) = ReadRegFile(d, off)
    BY <1>2 DEF ReadReg, RegFile
  <2>2. ReadRegFile(d, off).dev \in RegFile
    BY <1>2, RegFileRead
  <2>3. QED
    BY <1>2, <2>1, <2>2 DEF Behavior, RegFile
<1>3. CASE d \in TraceReplay
  <2>1. ReadReg(d, off) = ReadTraceReplay(d, off)
    BY <1>3 DEF ReadReg, TraceReplay
  <2>2. ReadTraceReplay(d, off).dev \in TraceReplay
    BY <1>3 DEF ReadTraceReplay, TraceReplay
  <2>3. QED
    BY <1>3, <2>1, <2>2 DEF Behavior, TraceReplay
<1>4. CASE d \in External
  <2>1. ReadReg(d, off) = ReadExternal(d)
    BY <1>4 DEF ReadReg, External
  <2>2. (d.counter + d.incr) % Modulus \in Data
    BY <1>4 DEF DeviceAssumption, External, Data
  <2>3. ReadExternal(d).dev \in External
    BY <1>4, <2>2 DEF ReadExternal, External
  <2>4. QED
    BY <1>4, <2>1, <2>3 DEF Behavior, External
<1>5. CASE d \in Flash
  <2>1. ReadReg(d, off) = ReadFlash(d, off)
    BY <1>5 DEF ReadReg, Flash
  <2>2. ReadFlash(d, off).dev \in {d, [d EXCEPT !.addr = @ + 1]}
    BY <1>5 DEF ReadFlash, Flash
  <2>3. ReadFlash(d, off).dev \in Flash
    BY <1>5, <2>2 DEF Flash
  <2>4. QED
    BY <1>5, <2>1, <2>3 DEF Behavior, Flash
<1>6. CASE d \in Watchdog
  <2>1. ReadReg(d, off) = ReadWatchdog(d, off)
    BY <1>6 DEF ReadReg, Watchdog
  <2>2. ReadWatchdog(d, off).dev \in Watchdog
    BY <1>6 DEF ReadWatchdog, Watchdog
  <2>3. QED
    BY <1>6, <2>1, <2>2 DEF Behavior, Watchdog
<1>7. QED
  BY <1>1, <1>2, <1>3, <1>4, <1>5, <1>6 DEF Behavior

\* So does writing one.
LEMMA WriteType ==
  ASSUME DeviceAssumption, NEW d \in Behavior, NEW off \in Offset, NEW v \in Input(d, off)
  PROVE  WriteReg(d, off, v) \in Behavior /\ WriteReg(d, off, v).kind = d.kind
<1>1. CASE d.kind \in {"statusModel", "traceReplay", "external"}
  BY <1>1 DEF WriteReg
<1>2. CASE d \in RegFile
  <2>1. WriteReg(d, off, v) = WriteRegFile(d, off, v) /\ v \in SUBSET Bit
    BY <1>2 DEF WriteReg, RegFile, Input
  <2>2. WriteRegFile(d, off, v) \in RegFile
    BY <1>2, <2>1, RegFileWrite
  <2>3. QED
    BY <1>2, <2>1, <2>2 DEF Behavior, RegFile
<1>3. CASE d \in Flash
  <2>1. WriteReg(d, off, v) = WriteFlash(d, off, v)
    BY <1>3 DEF WriteReg, Flash
  <2>2. WriteFlash(d, off, v) \in Flash
    <3>1. CASE off = CMD
      <4>1. v \in Command
        <5>1. d.kind = "flash" /\ d.kind # "regfile"
          BY <1>3 DEF Flash
        <5>2. Input(d, off) = Command
          BY <5>1, <3>1 DEF Input, CMD, ADDR
        <5>3. QED
          BY <5>2
      <4>2. WriteFlash(d, off, v) = [d EXCEPT !.cmd = v,
                  !.xip = v = "ENTER_XIP" \/ (@ /\ v # "EXIT_XIP")]
        BY <3>1 DEF WriteFlash, CMD, ADDR
      <4>3. (v = "ENTER_XIP" \/ (d.xip /\ v # "EXIT_XIP")) \in BOOLEAN
        OBVIOUS
      <4>4. QED
        BY <1>3, <4>1, <4>2, <4>3 DEF Flash
    <3>2. CASE off = ADDR
      <4>1. v \in Nat
        BY <1>3, <3>2 DEF Input, Flash, CMD, ADDR, Data
      <4>2. WriteFlash(d, off, v) = [d EXCEPT !.addr = v]
        BY <3>2 DEF WriteFlash, CMD, ADDR
      <4>3. QED
        BY <1>3, <4>1, <4>2 DEF Flash
    <3>3. CASE off # CMD /\ off # ADDR
      BY <1>3, <3>3 DEF WriteFlash
    <3>4. QED
      BY <3>1, <3>2, <3>3
  <2>3. QED
    BY <1>3, <2>1, <2>2 DEF Behavior, Flash
<1>4. CASE d \in Watchdog
  <2>1. WriteReg(d, off, v) = WriteWatchdog(d, off)
    BY <1>4 DEF WriteReg, Watchdog
  <2>2. WriteWatchdog(d, off) \in Watchdog
    BY <1>4 DEF WriteWatchdog, Watchdog
  <2>3. QED
    BY <1>4, <2>1, <2>2 DEF Behavior, Watchdog
<1>5. QED
  BY <1>1, <1>2, <1>3, <1>4 DEF Behavior, StatusModel, TraceReplay, External

\* Every device keeps its kind and its type under every access.
THEOREM DevicesKeepType == Spec => []DevOK
<1>1. Init => DevOK
  BY DeviceAssumption DEF Init, DevOK, DeviceAssumption
<1>2. ASSUME DevOK, [Next]_vars
      PROVE  DevOK'
  <2>1. ASSUME NEW off \in Offset, Read(off)
        PROVE  DevOK'
    BY <1>2, <2>1, DeviceAssumption, ReadType DEF Read, DevOK
  <2>2. ASSUME NEW off \in Offset, Write(off)
        PROVE  DevOK'
    BY <1>2, <2>2, DeviceAssumption, WriteType DEF Write, DevOK
  <2>3. CASE UNCHANGED vars
    BY <1>2, <2>3 DEF DevOK, vars
  <2>4. QED
    BY <1>2, <2>1, <2>2, <2>3 DEF Next
<1>3. DevOK /\ [Next]_vars => DevOK'
  BY <1>2
<1>4. QED
  BY <1>1, <1>3, PTL DEF Spec

-----------------------------------------------------------------------------
(* The policy of every bit.                                                *)

\* The step extends the history by an access that changed every bit of every
\* register as the bit's policy says.
BitsFollowPolicy ==
  dev.kind = "regfile" =>
    \E access \in [op : {"read", "write"}, off : Offset, val : SUBSET Bit] :
      /\ past' = Append(past, access)
      /\ \A i \in DOMAIN dev.cells, b \in Bit :
           b \in dev'.cells[i].value <=>
             BitAfter(dev.cells[i], b, b \in dev.cells[i].value, access)

\* Every access to a register file changes every bit by its access policy.
THEOREM EveryBitByPolicy == Spec => [][BitsFollowPolicy]_vars
<1>1. ASSUME DevOK, NEW off \in Offset, Read(off), dev.kind = "regfile"
      PROVE  BitsFollowPolicy
  <2> DEFINE r == ReadRegFile(dev, off)
             access == [op |-> "read", off |-> off, val |-> r.val]
  <2>1. dev \in RegFile
    BY <1>1 DEF DevOK, Behavior, StatusModel, TraceReplay, External, Flash, Watchdog
  <2>2. dev' = r.dev /\ past' = Append(past, access)
    BY <1>1 DEF Read, ReadReg
  <2>3. \A i \in DOMAIN dev.cells : dev.cells[i] \in Cell
    BY <2>1, LenProperties, ElementOfSeq DEF RegFile
  <2>4. r.val \in SUBSET Bit
    <3>1. CASE CellsAt(dev, off) = {}
      BY <3>1 DEF ReadRegFile
    <3>2. CASE CellsAt(dev, off) # {}
      <4>1. CellsAt(dev, off) \in SUBSET Nat
        BY <2>1, LenProperties DEF CellsAt, RegFile
      <4>2. FirstOf(CellsAt(dev, off)) \in CellsAt(dev, off)
        BY <3>2, <4>1, LeastOf
      <4>3. dev.cells[FirstOf(CellsAt(dev, off))] \in Cell
        BY <4>2, <2>3 DEF CellsAt
      <4>4. QED
        BY <3>2, <4>3 DEF ReadRegFile, RegRead, Cell
    <3>3. QED
      BY <3>1, <3>2
  <2> HIDE DEF r
  <2>5. access \in [op : {"read", "write"}, off : Offset, val : SUBSET Bit]
    BY <2>4
  <2>6. ASSUME NEW i \in DOMAIN dev.cells, NEW b \in Bit
        PROVE  b \in dev'.cells[i].value <=>
                 BitAfter(dev.cells[i], b, b \in dev.cells[i].value, access)
    <3>1. dev'.cells[i] = IF dev.cells[i].offset = off
                          THEN ClearedOnRead(dev.cells[i]) ELSE dev.cells[i]
      BY <2>1, <2>2, RegFileRead DEF r
    <3>2. ClearedOnRead(dev.cells[i]).value = dev.cells[i].value \ dev.cells[i].cor
      BY <2>3, CellTypes
    <3>3. QED
      BY <3>1, <3>2 DEF BitAfter
  <2> HIDE DEF access
  <2>7. QED
    BY <2>2, <2>5, <2>6 DEF BitsFollowPolicy
<1>2. ASSUME DevOK, NEW off \in Offset, Write(off), dev.kind = "regfile"
      PROVE  BitsFollowPolicy
  <2>1. dev \in RegFile
    BY <1>2 DEF DevOK, Behavior, StatusModel, TraceReplay, External, Flash, Watchdog
  <2>2. PICK v \in SUBSET Bit :
          /\ dev' = WriteRegFile(dev, off, v)
          /\ past' = Append(past, [op |-> "write", off |-> off, val |-> v])
    BY <1>2 DEF Write, WriteReg, Input
  <2> DEFINE access == [op |-> "write", off |-> off, val |-> v]
  <2>3. \A i \in DOMAIN dev.cells : dev.cells[i] \in Cell
    BY <2>1, LenProperties, ElementOfSeq DEF RegFile
  <2>4. access \in [op : {"read", "write"}, off : Offset, val : SUBSET Bit]
    OBVIOUS
  <2>5. ASSUME NEW i \in DOMAIN dev.cells, NEW b \in Bit
        PROVE  b \in dev'.cells[i].value <=>
                 BitAfter(dev.cells[i], b, b \in dev.cells[i].value, access)
    <3> DEFINE c == dev.cells[i]
    <3>1. dev'.cells[i] = IF c.offset = off THEN Updated(c, v) ELSE c
      BY <2>1, <2>2, RegFileWrite
    <3>2. Updated(c, v).value = RegWrite(c, v) /\ c \in Cell
      BY <2>3, CellTypes
    <3>3. CASE c.offset = off
      <4>1. b \in RegWrite(c, v) <=> BitAfter(c, b, b \in c.value, access)
        BY <3>2, <3>3, RegWriteBits
      <4>2. QED
        BY <3>1, <3>2, <3>3, <4>1
    <3>4. CASE c.offset # off
      BY <3>1, <3>4 DEF BitAfter
    <3>5. QED
      BY <3>3, <3>4
  <2> HIDE DEF access
  <2>6. QED
    BY <2>2, <2>4, <2>5 DEF BitsFollowPolicy, access
<1>3. ASSUME DevOK, [Next]_vars
      PROVE  [BitsFollowPolicy]_vars
  <2>1. CASE dev.kind = "regfile"
    BY <1>1, <1>2, <1>3, <2>1 DEF Next
  <2>2. CASE dev.kind # "regfile"
    BY <2>2 DEF BitsFollowPolicy
  <2>3. QED
    BY <2>1, <2>2
<1>4. DevOK /\ [Next]_vars => [BitsFollowPolicy]_vars
  BY <1>3
<1>5. QED
  BY <1>4, DevicesKeepType, PTL DEF Spec

-----------------------------------------------------------------------------
(* Histories.  An access a extends a history h of n accesses to Append(h,  *)
(* a): the sets of accesses of a kind gain n + 1 or nothing, and what was  *)
(* the case before any of the earlier accesses stays so.                   *)

Word   == Data \cup {Frontier} \cup (SUBSET Bit) \cup Command \cup {0}
Access == [op : {"read", "write"}, off : Offset, val : Word]

\* The parts of a history after one more access.
LEMMA OneMore ==
  ASSUME NEW h \in Seq(Access), NEW a \in Access
  PROVE  /\ Len(h) \in Nat /\ DOMAIN h = 1 .. Len(h)
         /\ Append(h, a) \in Seq(Access) /\ Append(h, a) # <<>>
         /\ Len(Append(h, a)) = Len(h) + 1
         /\ DOMAIN Append(h, a) = 1 .. Len(h) + 1
         /\ \A k \in 1 .. Len(h) : Append(h, a)[k] = h[k] /\ h[k] \in Access
         /\ Append(h, a)[Len(h) + 1] = a
<1>1. Len(h) \in Nat /\ DOMAIN h = 1 .. Len(h) /\ Append(h, a) \in Seq(Access)
  BY LenProperties, AppendProperties
<1>2. /\ Len(Append(h, a)) = Len(h) + 1 /\ Append(h, a) # <<>>
      /\ Append(h, a)[Len(h) + 1] = a
      /\ \A k \in 1 .. Len(h) : Append(h, a)[k] = h[k]
  BY AppendProperties
<1>3. DOMAIN Append(h, a) = 1 .. Len(h) + 1
  BY <1>1, <1>2, LenProperties
<1>4. \A k \in 1 .. Len(h) : h[k] \in Access
  BY ElementOfSeq
<1>5. QED
  BY <1>1, <1>2, <1>3, <1>4

\* The sets of accesses that the contracts count, after one more access.
LEMMA SetsGrow ==
  ASSUME NEW h \in Seq(Access), NEW a \in Access
  PROVE  /\ Reads(h) \in SUBSET (1 .. Len(h))
         /\ Reads(Append(h, a)) =
              Reads(h) \cup IF a.op = "read" THEN {Len(h) + 1} ELSE {}
         /\ Served(h) \in SUBSET (1 .. Len(h))
         /\ Served(Append(h, a)) =
              Served(h) \cup IF a.op = "read" /\ a.val # Frontier THEN {Len(h) + 1} ELSE {}
         /\ Modes(h) \in SUBSET (1 .. Len(h))
         /\ Modes(Append(h, a)) =
              Modes(h) \cup IF /\ a.op = "write" /\ a.off = CMD
                               /\ a.val \in {"ENTER_XIP", "EXIT_XIP"}
                            THEN {Len(h) + 1} ELSE {}
         /\ \A op, off :
              /\ Accesses(h, op, off) \in SUBSET (1 .. Len(h))
              /\ Accesses(Append(h, a), op, off) =
                   Accesses(h, op, off)
                     \cup IF a.op = op /\ a.off = off THEN {Len(h) + 1} ELSE {}
<1> DEFINE g == Append(h, a)
           n == Len(h)
<1>1. /\ n \in Nat /\ DOMAIN h = 1 .. n /\ DOMAIN g = 1 .. n + 1
      /\ \A k \in 1 .. n : g[k] = h[k]
      /\ g[n + 1] = a
  BY OneMore
<1>2. \A k \in DOMAIN g : k \in DOMAIN h \/ k = n + 1
  BY <1>1
<1>3. n + 1 \in DOMAIN g /\ n + 1 \notin DOMAIN h /\ DOMAIN h \subseteq DOMAIN g
  BY <1>1
<1> HIDE DEF g, n
<1>4. /\ Reads(h) \in SUBSET (1 .. n)
      /\ Reads(g) = Reads(h) \cup IF a.op = "read" THEN {n + 1} ELSE {}
  BY <1>1, <1>2, <1>3 DEF Reads
<1>5. /\ Served(h) \in SUBSET (1 .. n)
      /\ Served(g) = Served(h) \cup IF a.op = "read" /\ a.val # Frontier THEN {n + 1} ELSE {}
  BY <1>1, <1>2, <1>3 DEF Reads, Served
<1>6. /\ Modes(h) \in SUBSET (1 .. n)
      /\ Modes(g) = Modes(h) \cup IF /\ a.op = "write" /\ a.off = CMD
                                     /\ a.val \in {"ENTER_XIP", "EXIT_XIP"}
                                  THEN {n + 1} ELSE {}
  BY <1>1, <1>2, <1>3 DEF Accesses, Modes
<1>7. ASSUME NEW op, NEW off
      PROVE  /\ Accesses(h, op, off) \in SUBSET (1 .. n)
             /\ Accesses(g, op, off) =
                  Accesses(h, op, off) \cup IF a.op = op /\ a.off = off THEN {n + 1} ELSE {}
  BY <1>1, <1>2, <1>3 DEF Accesses
<1>8. QED
  BY <1>4, <1>5, <1>6, <1>7 DEF g, n

\* Latest is the greatest of a set of accesses that has one.
LEMMA LatestIs ==
  ASSUME NEW S \in SUBSET Nat, NEW m \in S, \A i \in S : i <= m
  PROVE  Latest(S) = m
<1> DEFINE P(j) == \A i \in S : i <= j
<1>1. \A j \in S : P(j) => j = m
  OBVIOUS
<1>2. (CHOOSE j \in S : P(j)) = m
  <2>1. \E j \in S : P(j)
    OBVIOUS
  <2> HIDE DEF P
  <2>2. (CHOOSE j \in S : P(j)) \in S /\ P(CHOOSE j \in S : P(j))
    BY <2>1
  <2>3. QED
    BY <2>2, <1>1
<1>3. QED
  BY <1>2 DEF Latest

\* Of a non-empty set of positions, Latest is the greatest.
LEMMA LatestIn ==
  ASSUME NEW n \in Nat, NEW S \in SUBSET (1 .. n), S # {}
  PROVE  Latest(S) \in S /\ \A i \in S : i <= Latest(S)
<1> DEFINE Less == {p \in Nat \X Nat : p[1] < p[2]}
           T    == {k \in 0 .. n : n - k \in S}
<1>1. IsWellFoundedOn(Less, Nat)
  BY NatLessThanWellFounded DEF OpToRel
<1>2. T \in SUBSET Nat /\ T # {}
  <2>1. PICK j \in S : TRUE
    OBVIOUS
  <2>2. j \in 1 .. n /\ n - j \in 0 .. n /\ n - (n - j) = j
    OBVIOUS
  <2>3. n - j \in T
    BY <2>2
  <2>4. T \in SUBSET Nat
    OBVIOUS
  <2>5. QED
    BY <2>3, <2>4
<1>3. PICK x \in T : \A y \in T : ~ (<<y, x>> \in Less)
  <2> HIDE DEF Less, T
  <2> QED BY <1>1, <1>2, WFMin
<1>4. \A i \in S : i <= n - x
  <2>1. SUFFICES ASSUME NEW i \in S PROVE i <= n - x
    OBVIOUS
  <2>2. i \in 1 .. n /\ n - i \in Nat /\ n - (n - i) = i
    OBVIOUS
  <2>3. n - i \in T
    BY <2>2
  <2>4. /\ <<n - i, x>> \in Nat \X Nat
        /\ <<n - i, x>>[1] = n - i /\ <<n - i, x>>[2] = x
    BY <2>2
  <2>5. ~ (n - i < x)
    <3> HIDE DEF T
    <3> QED BY <2>3, <2>4, <1>3, Zenon
  <2>6. QED
    BY <2>2, <2>5
<1>5. n - x \in S /\ S \in SUBSET Nat
  OBVIOUS
<1>6. QED
  BY <1>4, <1>5, LatestIs

\* What came last before an access does not change with later accesses.
LEMMA LastGrows ==
  ASSUME NEW n \in Nat, NEW A \in SUBSET (1 .. n), NEW B,
         B = A \/ B = A \cup {n + 1}
  PROVE  /\ \A k \in 0 .. n + 1 : /\ LastBefore(B, k) = LastBefore(A, k)
                                  /\ LastBefore(A, k) \in 0 .. n
                                  /\ LastBefore(A, k) = 0 \/ LastBefore(A, k) \in A
         /\ LastBefore(B, n + 2) = IF B = A THEN LastBefore(A, n + 1) ELSE n + 1
<1>1. ASSUME NEW k \in 0 .. n + 1
      PROVE  /\ LastBefore(B, k) = LastBefore(A, k)
             /\ LastBefore(A, k) \in 0 .. n
             /\ LastBefore(A, k) = 0 \/ LastBefore(A, k) \in A
  <2> DEFINE S == {j \in A : j < k}
  <2>0. /\ k \in Int /\ ~ (n + 1 < k)
        /\ \A j \in A : j \in 1 .. n
        /\ \A j \in B : j \in A \/ j = n + 1
        /\ \A j \in A : j \in B
    BY <1>1
  <2>1. {j \in B : j < k} = S /\ S \in SUBSET (1 .. n)
    BY <2>0
  <2>2. LastBefore(A, k) = Latest(S) /\ LastBefore(B, k) = Latest(S)
    BY <2>1, Zenon DEF LastBefore
  <2>3. Latest(S) = 0 \/ Latest(S) \in S
    <3> HIDE DEF S
    <3>1. CASE S = {}
      BY <3>1 DEF Latest
    <3>2. CASE S # {}
      BY <2>1, <3>2, LatestIn
    <3>3. QED
      BY <3>1, <3>2
  <2>4. S \subseteq A
    OBVIOUS
  <2> HIDE DEF S
  <2>5. Latest(S) \in 0 .. n
    <3>1. \A j \in S : j \in 0 .. n
      BY <2>1
    <3>2. QED
      BY <2>3, <3>1
  <2>6. QED
    BY <2>2, <2>3, <2>4, <2>5
<1>2. CASE B = A
  <2>1. {j \in A : j < n + 2} = {j \in A : j < n + 1}
    <3>1. \A j \in A : j \in Int /\ j < n + 2 /\ j < n + 1
      OBVIOUS
    <3>2. QED
      BY <3>1
  <2>2. QED
    BY <1>1, <1>2, <2>1 DEF LastBefore
<1>3. CASE B = A \cup {n + 1} /\ B # A
  <2> DEFINE S == {j \in B : j < n + 2}
  <2>0. \A i \in B : i \in 1 .. n + 1
    BY <1>3
  <2>1. S \in SUBSET Nat /\ n + 1 \in S /\ \A i \in S : i <= n + 1
    <3>1. \A i \in B : i \in Nat /\ i <= n + 1
      BY <2>0
    <3>2. n + 1 \in B /\ n + 1 < n + 2
      BY <1>3
    <3>3. QED
      BY <3>1, <3>2
  <2>2. Latest(S) = n + 1
    <3> HIDE DEF S
    <3> QED BY <2>1, LatestIs
  <2>3. QED
    BY <1>1, <1>3, <2>2 DEF LastBefore
<1>4. QED
  BY <1>2, <1>3, <1>1

\* The number of accesses since the j-th, and after one more.
LEMMA BetweenGrows ==
  ASSUME NEW n \in Nat, NEW A \in SUBSET (1 .. n), NEW B,
         B = A \/ B = A \cup {n + 1},
         NEW j \in 0 .. n
  PROVE  /\ Between(A, j, n) \in Nat
         /\ Between(B, j, n) = Between(A, j, n)
         /\ B = A => Between(B, j, n + 1) = Between(A, j, n)
         /\ B # A => Between(B, j, n + 1) = Between(A, j, n) + 1
         /\ Between(B, n + 1, n + 1) = 0
<1> DEFINE S == {i \in A : j < i /\ i <= n}
<1>0. /\ \A i \in A : i \in 1 .. n
      /\ \A i \in B : i \in A \/ i = n + 1
      /\ \A i \in A : i \in B
  OBVIOUS
<1>1. IsFiniteSet(S)
  <2>1. S \in SUBSET (1 .. n) /\ IsFiniteSet(1 .. n)
    <3>1. n \in Int /\ 1 \in Int
      OBVIOUS
    <3>2. S \in SUBSET (1 .. n)
      BY <1>0
    <3>3. QED
      BY <3>1, <3>2, FS_Interval
  <2> HIDE DEF S
  <2>2. QED
    BY <2>1, FS_Subset
<1>2. Between(A, j, n) \in Nat
  BY <1>1, FS_CardinalityType DEF Between
<1>3. {i \in B : j < i /\ i <= n} = S
  BY <1>0
<1>4. Between(B, j, n) = Between(A, j, n)
  BY <1>3 DEF Between
<1>5. {i \in B : n + 1 < i /\ i <= n + 1} = {} /\ Cardinality({}) = 0
  <2>1. \A i \in B : ~ (n + 1 < i /\ i <= n + 1)
    <3>1. SUFFICES ASSUME NEW i \in B, n + 1 < i, i <= n + 1
                   PROVE  FALSE
      OBVIOUS
    <3>2. CASE i \in A
      BY <1>0, <3>1, <3>2
    <3>3. CASE i = n + 1
      BY <3>1, <3>3
    <3>4. QED
      BY <1>0, <3>2, <3>3
  <2>2. QED
    BY <2>1, FS_EmptySet
<1>6. Between(B, n + 1, n + 1) = 0
  BY <1>5 DEF Between
<1>7. CASE B = A
  <2>1. {i \in A : j < i /\ i <= n + 1} = S
    <3>1. \A i \in A : i <= n + 1 <=> i <= n
      BY <1>0
    <3>2. QED
      BY <3>1
  <2>2. Between(B, j, n + 1) = Between(A, j, n)
    BY <1>7, <2>1 DEF Between
  <2>3. QED
    BY <1>2, <1>4, <1>6, <1>7, <2>2
<1>8. CASE B # A
  <2>1. B = A \cup {n + 1} /\ n + 1 \notin S
    BY <1>8
  <2>2. {i \in B : j < i /\ i <= n + 1} = S \cup {n + 1}
    <3>1. \A i \in A : i <= n + 1 <=> i <= n
      BY <1>0
    <3>2. j < n + 1 /\ n + 1 <= n + 1
      OBVIOUS
    <3>3. QED
      BY <2>1, <3>1, <3>2
  <2>3. Cardinality(S \cup {n + 1}) = Cardinality(S) + 1
    <3> HIDE DEF S
    <3> QED BY <1>1, <2>1, FS_AddElement
  <2>4. Between(B, j, n + 1) = Between(A, j, n) + 1
    BY <2>2, <2>3 DEF Between
  <2>5. QED
    BY <1>2, <1>4, <1>6, <1>8, <2>4
<1>9. QED
  BY <1>7, <1>8

\* The number of reads after one more access.
LEMMA ReadsGrow ==
  ASSUME NEW h \in Seq(Access), NEW a \in Access
  PROVE  /\ Cardinality(Reads(h)) \in Nat
         /\ Cardinality(Reads(Append(h, a))) =
              Cardinality(Reads(h)) + IF a.op = "read" THEN 1 ELSE 0
<1>1. Len(h) \in Nat /\ Reads(h) \in SUBSET (1 .. Len(h))
  BY OneMore, SetsGrow
<1>2. IsFiniteSet(Reads(h))
  <2>1. IsFiniteSet(1 .. Len(h))
    BY <1>1, FS_Interval
  <2>2. QED
    BY <1>1, <2>1, FS_Subset
<1>3. Cardinality(Reads(h)) \in Nat
  BY <1>2, FS_CardinalityType
<1>4. Reads(Append(h, a)) = Reads(h) \cup IF a.op = "read" THEN {Len(h) + 1} ELSE {}
  BY SetsGrow
<1>5. CASE a.op = "read"
  <2>1. Len(h) + 1 \notin Reads(h) /\ Reads(Append(h, a)) = Reads(h) \cup {Len(h) + 1}
    BY <1>1, <1>4, <1>5
  <2>2. QED
    BY <1>2, <1>3, <1>5, <2>1, FS_AddElement
<1>6. CASE a.op # "read"
  <2>1. Reads(Append(h, a)) = Reads(h)
    BY <1>4, <1>6
  <2>2. QED
    BY <1>3, <1>6, <2>1
<1>7. QED
  BY <1>5, <1>6

-----------------------------------------------------------------------------
(* Arithmetic of the external counter.                                     *)

\* A number is its quotient times m, and its remainder.
LEMMA Divided ==
  ASSUME NEW m \in Nat \ {0}, NEW x \in Int
  PROVE  x = m * (x \div m) + (x % m) /\ x % m \in 0 .. m - 1 /\ x \div m \in Int
OBVIOUS

\* Two remainders that differ by a multiple of m are the same.
LEMMA OneRemainder ==
  ASSUME NEW m \in Nat \ {0}, NEW r \in 0 .. m - 1, NEW s \in 0 .. m - 1,
         NEW q \in Int, r = s + m * q
  PROVE  r = s
<1>1. CASE q = 0
  BY <1>1
<1>2. CASE q >= 1
  <2>1. m * q >= m
    BY <1>2
  <2>2. QED
    BY <2>1
<1>3. CASE q <= -1
  <2>1. m * q <= -m
    BY <1>3
  <2>2. QED
    BY <2>1
<1>4. QED
  BY <1>1, <1>2, <1>3

\* Adding to a remainder is adding to the number.
LEMMA AddRemainder ==
  ASSUME NEW m \in Nat \ {0}, NEW x \in Int, NEW y \in Int
  PROVE  ((x % m) + y) % m = (x + y) % m
<1> DEFINE u == x % m
           a == x \div m
           b == (u + y) \div m
           c == (x + y) \div m
           r == (u + y) % m
           s == (x + y) % m
<1>1. x = m * a + u /\ u \in 0 .. m - 1 /\ a \in Int
  BY Divided
<1>2. u + y = m * b + r /\ r \in 0 .. m - 1 /\ b \in Int
  <2>1. u + y \in Int
    BY <1>1
  <2> HIDE DEF u
  <2>2. QED
    BY <2>1, Divided
<1>3. x + y = m * c + s /\ s \in 0 .. m - 1 /\ c \in Int
  <2>1. x + y \in Int
    OBVIOUS
  <2>2. QED
    BY <2>1, Divided
<1> HIDE DEF u, a, b, c, r, s
<1>4. r = s + m * (c - a - b) /\ c - a - b \in Int
  <2>1. m * (c - a - b) = m * c - m * a - m * b
    BY <1>1, <1>2, <1>3
  <2>2. m * a \in Int /\ m * b \in Int /\ m * c \in Int
    BY <1>1, <1>2, <1>3
  <2>3. QED
    BY <1>1, <1>2, <1>3, <2>1, <2>2
<1>5. r = s
  <2> DEFINE q == c - a - b
  <2>1. r = s + m * q /\ q \in Int
    BY <1>4
  <2> HIDE DEF q
  <2>2. QED
    BY <1>2, <1>3, <2>1, OneRemainder
<1>6. QED
  BY <1>5 DEF r, s, u

-----------------------------------------------------------------------------
(* Types of histories.                                                     *)

\* What a device answers has the type of its answers.
LEMMA AnswerType ==
  ASSUME DeviceAssumption, NEW d \in Behavior, NEW off \in Offset
  PROVE  ReadReg(d, off).val \in Output(d)
<1>1. 0 \in Data /\ 1 \in Data /\ FlashId \in Data
  BY DEF DeviceAssumption, Data
<1>2. CASE d \in StatusModel
  BY <1>1, <1>2 DEF ReadReg, ReadStatusModel, Output, StatusModel
<1>3. CASE d \in RegFile
  <2>1. ReadReg(d, off) = ReadRegFile(d, off) /\ Output(d) = SUBSET Bit
    BY <1>3 DEF ReadReg, Output, RegFile
  <2>2. CASE CellsAt(d, off) = {}
    BY <2>1, <2>2 DEF ReadRegFile
  <2>3. CASE CellsAt(d, off) # {}
    <3>1. CellsAt(d, off) \in SUBSET Nat
      BY <1>3, LenProperties DEF CellsAt, RegFile
    <3>2. FirstOf(CellsAt(d, off)) \in CellsAt(d, off)
      BY <2>3, <3>1, LeastOf
    <3>3. d.cells[FirstOf(CellsAt(d, off))] \in Cell
      BY <1>3, <3>2, LenProperties, ElementOfSeq DEF CellsAt, RegFile
    <3>4. QED
      BY <2>1, <2>3, <3>3 DEF ReadRegFile, RegRead, Cell
  <2>4. QED
    BY <2>2, <2>3
<1>4. CASE d \in TraceReplay
  <2>1. ReadReg(d, off) = ReadTraceReplay(d, off) /\ Output(d) = Data \cup {Frontier}
    BY <1>4 DEF ReadReg, Output, TraceReplay
  <2> DEFINE Response == [offset : Offset, value : Data]
  <2>2. \A j \in DOMAIN d.script : d.script[j].value \in Data
    <3>1. d.script \in Seq(Response)
      BY <1>4 DEF TraceReplay
    <3>2. \A j \in DOMAIN d.script : d.script[j] \in Response
      <4> HIDE DEF Response
      <4> QED BY <3>1, LenProperties, ElementOfSeq
    <3>3. QED
      BY <3>2
  <2>3. QED
    BY <2>1, <2>2 DEF ReadTraceReplay
<1>5. CASE d \in External
  BY <1>5 DEF ReadReg, ReadExternal, Output, External
<1>6. CASE d \in Flash
  <2>1. ReadReg(d, off) = ReadFlash(d, off) /\ Output(d) = Data \cup {Frontier}
    BY <1>6 DEF ReadReg, Output, Flash
  <2>2. \A j \in DOMAIN d.backing : d.backing[j] \in Data
    BY <1>6, LenProperties, ElementOfSeq DEF Flash
  <2>3. FlashWord(d) \in Data
    BY <1>1, <2>2 DEF FlashWord
  <2>4. ReadFlash(d, off).val \in {0, FlashWord(d), FlashId, 1, Frontier}
    BY <1>6 DEF ReadFlash, Flash
  <2>5. QED
    BY <1>1, <2>1, <2>3, <2>4
<1>7. CASE d \in Watchdog
  BY <1>1, <1>7 DEF ReadReg, ReadWatchdog, Output, Watchdog
<1>8. QED
  BY <1>2, <1>3, <1>4, <1>5, <1>6, <1>7 DEF Behavior

\* What the firmware may write depends on the device's kind only.
LEMMA InputOfKind ==
  ASSUME NEW d, NEW e, d.kind = e.kind
  PROVE  /\ Output(d) = Output(e) /\ \A off : Input(d, off) = Input(e, off)
         /\ Output(d) \subseteq Word /\ \A off : Input(d, off) \subseteq Word
<1>1. Output(d) = Output(e) /\ Output(d) \subseteq Word
  BY DEF Output, Word
<1>2. ASSUME NEW off
      PROVE  Input(d, off) = Input(e, off) /\ Input(d, off) \subseteq Word
  BY DEF Input, Word, CMD, ADDR
<1>3. QED
  BY <1>1, <1>2

\* One access a: a read with its answer, or a write.
Accessed(a) ==
  /\ past' = Append(past, a) /\ first' = first
  /\ \/ a.op = "read" /\ a.val = ReadReg(dev, a.off).val /\ dev' = ReadReg(dev, a.off).dev
     \/ a.op = "write" /\ a.val \in Input(dev, a.off) /\ dev' = WriteReg(dev, a.off, a.val)

\* The history is one of accesses that such a device can be given and answer.
TypeInv ==
  /\ DevOK /\ first \in Behavior /\ past \in Seq(Access)
  /\ TypeOK

\* Every step is one access, or changes nothing.
LEMMA StepIsAccess ==
  ASSUME DeviceAssumption, TypeInv, Next
  PROVE  \E a \in Access :
           Accessed(a) /\ a.val \in IF a.op = "read" THEN Output(first)
                                    ELSE Input(first, a.off)
<1>1. dev \in Behavior /\ dev.kind = first.kind
  BY DEF TypeInv, DevOK
<1>2. /\ Output(dev) = Output(first) /\ Output(dev) \subseteq Word
      /\ \A off : Input(dev, off) = Input(first, off) /\ Input(dev, off) \subseteq Word
  BY <1>1, InputOfKind
<1>3. ASSUME NEW off \in Offset, Read(off)
      PROVE  \E a \in Access : Accessed(a) /\ a.op = "read" /\ a.val \in Output(first)
  <2> DEFINE v == ReadReg(dev, off).val
             a == [op |-> "read", off |-> off, val |-> v]
  <2>1. v \in Output(dev)
    BY <1>1, AnswerType
  <2>2. v \in Output(first) /\ v \in Word
    BY <1>2, <2>1
  <2>3. past' = Append(past, a) /\ dev' = ReadReg(dev, off).dev /\ first' = first
    BY <1>3 DEF Read
  <2>4. v = ReadReg(dev, off).val
    OBVIOUS
  <2> HIDE DEF v
  <2>5. a \in Access /\ a.op = "read" /\ a.val = v /\ a.off = off
    BY <2>2 DEF Access
  <2> HIDE DEF a
  <2>6. QED
    BY <2>2, <2>3, <2>4, <2>5 DEF Accessed
<1>4. ASSUME NEW off \in Offset, Write(off)
      PROVE  \E a \in Access : Accessed(a) /\ a.op = "write" /\ a.val \in Input(first, a.off)
  <2>1. PICK v \in Input(dev, off) :
          /\ dev' = WriteReg(dev, off, v) /\ first' = first
          /\ past' = Append(past, [op |-> "write", off |-> off, val |-> v])
    BY <1>4 DEF Write
  <2> DEFINE a == [op |-> "write", off |-> off, val |-> v]
  <2>2. a \in Access /\ a.op = "write" /\ a.val = v /\ a.off = off
    BY <1>2 DEF Access
  <2>3. past' = Append(past, a)
    BY <2>1
  <2> HIDE DEF a
  <2>4. QED
    BY <1>2, <2>1, <2>2, <2>3 DEF Accessed
<1>5. QED
  <2>1. PICK off \in Offset : Read(off) \/ Write(off)
    BY DEF Next
  <2>2. CASE Read(off)
    BY <1>3, <2>2
  <2>3. CASE Write(off)
    <3>1. PICK a \in Access : Accessed(a) /\ a.op = "write" /\ a.val \in Input(first, a.off)
      BY <1>4, <2>3
    <3>2. a.op # "read"
      BY <3>1
    <3>3. QED
      BY <3>1, <3>2
  <2>4. QED
    BY <2>1, <2>2, <2>3

\* The device and the history keep their types.
LEMMA TypeStep ==
  ASSUME DeviceAssumption, TypeInv, Next
  PROVE  TypeInv'
<1>1. PICK a \in Access :
        Accessed(a) /\ a.val \in IF a.op = "read" THEN Output(first) ELSE Input(first, a.off)
  BY StepIsAccess
<1>2. dev \in Behavior /\ dev.kind = first.kind /\ first \in Behavior /\ past \in Seq(Access)
  BY DEF TypeInv, DevOK
<1>3. a.off \in Offset /\ a.op \in {"read", "write"}
  BY DEF Access
<1>4. dev' \in Behavior /\ dev'.kind = dev.kind /\ first' = first /\ past' = Append(past, a)
  BY <1>1, <1>2, <1>3, ReadType, WriteType DEF Accessed
<1>5. /\ past' \in Seq(Access) /\ DOMAIN past = 1 .. Len(past) /\ Len(past) \in Nat
      /\ DOMAIN past' = 1 .. Len(past) + 1
      /\ \A k \in 1 .. Len(past) : past'[k] = past[k]
      /\ past'[Len(past) + 1] = a
  BY <1>2, <1>4, OneMore
<1>6. ASSUME NEW j \in DOMAIN past'
      PROVE  /\ past'[j].op \in {"read", "write"} /\ past'[j].off \in Offset
             /\ past'[j].val \in IF past'[j].op = "read" THEN Output(first)
                                 ELSE Input(first, past'[j].off)
  <2>1. CASE j \in DOMAIN past
    BY <1>5, <2>1 DEF TypeInv, TypeOK
  <2>2. CASE j = Len(past) + 1
    BY <1>1, <1>3, <1>5, <2>2
  <2>3. QED
    BY <1>5, <2>1, <2>2
<1>7. Output(first') = Output(first) /\ \A off : Input(first', off) = Input(first, off)
  BY <1>4
<1>8. TypeOK'
  BY <1>2, <1>4, <1>6, <1>7 DEF TypeOK
<1>9. QED
  BY <1>2, <1>4, <1>5, <1>8 DEF TypeInv, DevOK

\* Before the first access.
LEMMA TypeInit ==
  ASSUME DeviceAssumption, Init
  PROVE  TypeInv
<1>1. dev \in Behavior /\ dev = first /\ past = <<>>
  BY DEF DeviceAssumption, Init
<1>2. past \in Seq(Access) /\ DOMAIN past = {}
  BY <1>1
<1>3. QED
  BY <1>1, <1>2 DEF TypeInv, TypeOK, DevOK

\* Devices keep their kind and type, and every answer and every written value
\* of the history is of the type of its register.
THEOREM TypeCorrect == Spec => []TypeOK
<1>1. TypeInv /\ [Next]_vars => TypeInv'
  <2>1. SUFFICES ASSUME TypeInv, [Next]_vars PROVE TypeInv'
    OBVIOUS
  <2>2. CASE UNCHANGED vars
    BY <2>1, <2>2 DEF vars, TypeInv, TypeOK, DevOK, Output, Input
  <2>3. QED
    BY <2>1, <2>2, TypeStep, DeviceAssumption
<1>2. Init => TypeInv
  BY TypeInit, DeviceAssumption
<1>3. TypeInv => TypeOK
  BY DEF TypeInv
<1>4. QED
  BY <1>1, <1>2, <1>3, PTL DEF Spec

-----------------------------------------------------------------------------
(* The contracts.  For each kind of device an invariant says what the      *)
(* device holds as a function of the device at power-on and the history;   *)
(* it is inductive, and the answer to the next access follows from it.     *)

\* A device of a kind has the fields of that kind.
LEMMA KindOf ==
  ASSUME NEW d \in Behavior
  PROVE  /\ d.kind = "statusModel" => d \in StatusModel
         /\ d.kind = "regfile" => d \in RegFile
         /\ d.kind = "traceReplay" => d \in TraceReplay
         /\ d.kind = "external" => d \in External
         /\ d.kind = "flash" => d \in Flash
         /\ d.kind = "watchdog" => d \in Watchdog
BY DEF Behavior, StatusModel, RegFile, TraceReplay, External, Flash, Watchdog

\* What one access leaves of the history.
LEMMA AfterAccess ==
  ASSUME TypeInv, NEW a \in Access, Accessed(a)
  PROVE  /\ first' = first /\ first \in Behavior /\ dev \in Behavior /\ dev.kind = first.kind
         /\ past \in Seq(Access) /\ Len(past) \in Nat
         /\ past' = Append(past, a)
         /\ Len(past') = Len(past) + 1 /\ Last' = Len(past) + 1 /\ past'[Last'] = a
         /\ \A k \in 1 .. Len(past) : past'[k] = past[k]
         /\ \A kind : Answered(kind)' <=> first.kind = kind /\ a.op = "read"
<1>1. /\ first' = first /\ first \in Behavior /\ dev \in Behavior /\ dev.kind = first.kind
      /\ past \in Seq(Access) /\ past' = Append(past, a)
  BY DEF TypeInv, DevOK, Accessed
<1>2. /\ Len(past) \in Nat /\ Len(past') = Len(past) + 1 /\ past'[Len(past) + 1] = a
      /\ \A k \in 1 .. Len(past) : past'[k] = past[k]
      /\ past' # <<>>
  BY <1>1, OneMore
<1>3. Last' = Len(past) + 1
  BY <1>2 DEF Last
<1>4. \A kind : Answered(kind)' <=> first.kind = kind /\ a.op = "read"
  BY <1>1, <1>2 DEF Answered
<1>5. QED
  BY <1>1, <1>2, <1>3, <1>4

\* A status model has counted the reads, an external counter has advanced once
\* for each.
CountFollows ==
  /\ first.kind = "statusModel" =>
       dev = [first EXCEPT !.count = first.count + Cardinality(Reads(past))]
  /\ first.kind = "external" =>
       dev = [first EXCEPT !.counter =
                (first.counter + Cardinality(Reads(past)) * first.incr) % Modulus]

\* A status model: one more read advances the counter by one more increment,
\* modulo the word size, and every other access leaves it.
LEMMA CountStep ==
  ASSUME DeviceAssumption, TypeInv, CountFollows, NEW a \in Access, Accessed(a)
  PROVE  CountFollows' /\ PollContract'
<1> DEFINE m == Cardinality(Reads(past))
           w == Cardinality(Reads(past'))
<1>1. /\ first' = first /\ first \in Behavior /\ past' = Append(past, a)
      /\ past'[Last'] = a /\ past \in Seq(Access)
      /\ \A kind : Answered(kind)' <=> first.kind = kind /\ a.op = "read"
  BY AfterAccess
<1>2. m \in Nat /\ w = m + IF a.op = "read" THEN 1 ELSE 0
  BY <1>1, ReadsGrow
<1> HIDE DEF m, w
<1>3. a.op = "read" \/ (a.op = "write" /\ a.op # "read")
  BY DEF Access
<1>4. ASSUME first.kind = "statusModel"
      PROVE  /\ dev' = [first EXCEPT !.count = first.count + w]
             /\ a.op = "read" =>
                  a.val = IF first.readyAfter # Never /\ first.count + w > first.readyAfter
                          THEN first.readyValue ELSE 0
  <2>1. first \in StatusModel
    BY <1>1, <1>4, KindOf
  <2>2. dev = [first EXCEPT !.count = first.count + m]
    BY <1>4 DEF CountFollows, m
  <2>3. /\ dev.kind = "statusModel" /\ dev.count = first.count + m /\ first.count \in Nat
        /\ dev.readyAfter = first.readyAfter /\ dev.readyValue = first.readyValue
    BY <2>1, <2>2 DEF StatusModel
  <2>4. CASE a.op = "read"
    <3>1. a.val = ReadStatusModel(dev).val /\ dev' = ReadStatusModel(dev).dev
      BY <1>3, <2>3, <2>4 DEF Accessed, ReadReg
    <3>2. dev.count + 1 = first.count + w
      BY <1>2, <2>3, <2>4
    <3>3. dev' = [dev EXCEPT !.count = first.count + w]
      BY <3>1, <3>2 DEF ReadStatusModel
    <3>4. QED
      BY <2>1, <2>2, <2>3, <3>1, <3>2, <3>3 DEF ReadStatusModel, StatusModel
  <2>5. CASE a.op = "write" /\ a.op # "read"
    <3>1. dev' = dev
      BY <2>3, <2>5 DEF Accessed, WriteReg
    <3>2. QED
      BY <1>2, <2>2, <2>5, <3>1
  <2>6. QED
    BY <1>3, <2>4, <2>5
<1>5. ASSUME first.kind = "external"
      PROVE  /\ dev' = [first EXCEPT !.counter = (first.counter + w * first.incr) % Modulus]
             /\ a.op = "read" => a.val = (first.counter + (w - 1) * first.incr) % Modulus
  <2>1. first \in External
    BY <1>1, <1>5, KindOf
  <2> DEFINE x == first.counter + m * first.incr
  <2>2. dev = [first EXCEPT !.counter = x % Modulus]
    BY <1>5 DEF CountFollows, m
  <2>3. /\ first.counter \in Int /\ first.incr \in Int /\ Modulus \in Nat \ {0}
        /\ x \in Int
    BY <1>2, <2>1 DEF External, Data, DeviceAssumption
  <2>4. dev.kind = "external" /\ dev.counter = x % Modulus /\ dev.incr = first.incr
    BY <2>1, <2>2 DEF External
  <2>5. CASE a.op = "read"
    <3>1. a.val = dev.counter /\ dev' = [dev EXCEPT !.counter = (@ + dev.incr) % Modulus]
      BY <1>3, <2>4, <2>5 DEF Accessed, ReadReg, ReadExternal
    <3>2. w = m + 1 /\ w - 1 = m
      BY <1>2, <2>5
    <3>3. first.counter + w * first.incr = x + first.incr
      <4>1. \A i \in Int : (m + 1) * i = m * i + i /\ m * i \in Int
        BY <1>2
      <4>2. w * first.incr = m * first.incr + first.incr /\ m * first.incr \in Int
        <5>1. /\ (m + 1) * first.incr = m * first.incr + first.incr
              /\ m * first.incr \in Int
          BY <2>3, <4>1
        <5>2. w * first.incr = (m + 1) * first.incr
          BY <3>2
        <5>3. QED
          BY <5>1, <5>2, Zenon
      <4>3. first.counter + (m * first.incr + first.incr)
              = (first.counter + m * first.incr) + first.incr
        <5> DEFINE u == m * first.incr
        <5>1. u \in Int
          BY <4>2
        <5> HIDE DEF u
        <5>2. first.counter + (u + first.incr) = (first.counter + u) + first.incr
          BY <2>3, <5>1
        <5>3. QED
          BY <5>2 DEF u
      <4>4. QED
        BY <4>2, <4>3, Zenon
    <3>4. (dev.counter + dev.incr) % Modulus = (first.counter + w * first.incr) % Modulus
      <4> HIDE DEF x
      <4> QED BY <2>3, <2>4, <3>3, AddRemainder
    <3> HIDE DEF x
    <3>5. dev' = [first EXCEPT !.counter = (first.counter + w * first.incr) % Modulus]
      BY <2>1, <2>2, <3>1, <3>4 DEF External
    <3>6. QED
      BY <2>4, <3>1, <3>2, <3>5 DEF x
  <2>6. CASE a.op = "write" /\ a.op # "read"
    <3>1. dev' = dev
      BY <2>4, <2>6 DEF Accessed, WriteReg
    <3>2. QED
      BY <1>2, <2>2, <2>6, <3>1
  <2>7. QED
    BY <1>3, <2>5, <2>6
<1>6. CountFollows'
  BY <1>1, <1>4, <1>5 DEF CountFollows, w
<1>7. PollContract'
  BY <1>1, <1>4, <1>5 DEF PollContract, w
<1>8. QED
  BY <1>6, <1>7

\* The watchdog's restarts and its count, after one more access.
LEMMA PollsGrow ==
  ASSUME NEW h \in Seq(Access), NEW a \in Access, NEW d, d.count \in Nat
  PROVE  LET n    == Len(h)
             g    == Append(h, a)
             kick == d.policy = "serviced" /\ a.op = "write" /\ a.off = SERVICE
             poll == a.op = "read" /\ a.off = STATUS
         IN /\ Polls(d, h, n + 1) \in Nat
            /\ Polls(d, g, n + 1) = Polls(d, h, n + 1)
            /\ Polls(d, g, n + 2) = IF kick THEN 0
                                    ELSE Polls(d, h, n + 1) + IF poll THEN 1 ELSE 0
<1> DEFINE n == Len(h)
           g == Append(h, a)
           W == Accesses(h, "write", SERVICE)
           V == Accesses(g, "write", SERVICE)
           R == Accesses(h, "read", STATUS)
           Q == Accesses(g, "read", STATUS)
           kick == a.op = "write" /\ a.off = SERVICE
           poll == a.op = "read" /\ a.off = STATUS
           j == Kick(d, h, n + 1)
<1>1. /\ n \in Nat /\ W \in SUBSET (1 .. n) /\ R \in SUBSET (1 .. n)
      /\ V = W \cup IF kick THEN {n + 1} ELSE {}
      /\ Q = R \cup IF poll THEN {n + 1} ELSE {}
  <2>1. \A op, off : /\ Accesses(h, op, off) \in SUBSET (1 .. n)
                     /\ Accesses(g, op, off) = Accesses(h, op, off)
                          \cup IF a.op = op /\ a.off = off THEN {n + 1} ELSE {}
    BY SetsGrow, Zenon
  <2>2. n \in Nat
    BY OneMore
  <2> HIDE DEF n, g
  <2>3. QED
    BY <2>1, <2>2, Zenon
<1> HIDE DEF n, g, W, V, R, Q
<1>2. /\ kick => ~ poll
      /\ ~ kick => V = W
      /\ ~ poll => Q = R
  BY <1>1
<1>3. V = W \/ V = W \cup {n + 1}
  BY <1>1
<1>4. Q = R \/ Q = R \cup {n + 1}
  BY <1>1
<1>5. n \in Nat /\ W \in SUBSET (1 .. n) /\ R \in SUBSET (1 .. n)
  BY <1>1
<1>6. /\ poll => Q # R
      /\ kick => V # W
  <2>1. n + 1 \notin W /\ n + 1 \notin R
    BY <1>1
  <2>2. QED
    BY <1>1, <2>1
<1> HIDE DEF kick, poll
<1>7. /\ LastBefore(V, n + 1) = LastBefore(W, n + 1)
      /\ LastBefore(W, n + 1) \in 0 .. n
      /\ LastBefore(V, n + 2) = IF V = W THEN LastBefore(W, n + 1) ELSE n + 1
  <2>1. /\ \A k \in 0 .. n + 1 : /\ LastBefore(V, k) = LastBefore(W, k)
                                 /\ LastBefore(W, k) \in 0 .. n
                                 /\ LastBefore(W, k) = 0 \/ LastBefore(W, k) \in W
        /\ LastBefore(V, n + 2) = IF V = W THEN LastBefore(W, n + 1) ELSE n + 1
    BY <1>3, <1>5, LastGrows, ZenonT(40)
  <2>2. n + 1 \in 0 .. n + 1
    BY <1>1
  <2>3. QED
    BY <2>1, <2>2, Zenon
<1>8. /\ j \in 0 .. n /\ Kick(d, g, n + 1) = j
      /\ Kick(d, g, n + 2) = IF d.policy = "serviced" /\ kick THEN n + 1 ELSE j
  BY <1>1, <1>2, <1>6, <1>7 DEF Kick, W, V
<1>9. j \in 0 .. n
  BY <1>8
<1> HIDE DEF j
<1>10. /\ Between(R, j, n) \in Nat
       /\ Between(Q, j, n) = Between(R, j, n)
       /\ Q = R => Between(Q, j, n + 1) = Between(R, j, n)
       /\ Q # R => Between(Q, j, n + 1) = Between(R, j, n) + 1
       /\ Between(Q, n + 1, n + 1) = 0
  BY <1>9, <1>4, <1>5, BetweenGrows, Zenon
<1> DEFINE base == IF j = 0 THEN d.count ELSE 0
<1>11. base \in Nat
  OBVIOUS
<1>12. (n + 1) - 1 = n /\ (n + 2) - 1 = n + 1 /\ n + 1 # 0
  BY <1>1
<1>13. Polls(d, h, n + 1) = Between(R, j, n) + base
  BY <1>12 DEF Polls, R, j
<1>14. Polls(d, g, n + 1) = Between(Q, j, n) + base
  BY <1>8, <1>12 DEF Polls, Q
<1>15. Polls(d, g, n + 2) =
         IF d.policy = "serviced" /\ kick THEN Between(Q, n + 1, n + 1)
         ELSE Between(Q, j, n + 1) + base
  <2>1. CASE d.policy = "serviced" /\ kick
    <3>1. Polls(d, g, n + 2) = Between(Q, n + 1, n + 1) + 0
      BY <1>8, <1>12, <2>1 DEF Polls, Q
    <3>2. QED
      BY <1>10, <2>1, <3>1
  <2>2. CASE ~ (d.policy = "serviced" /\ kick)
    BY <1>8, <1>12, <2>2 DEF Polls, Q
  <2>3. QED
    BY <2>1, <2>2
<1> HIDE DEF base
<1>16. /\ Polls(d, h, n + 1) \in Nat
       /\ Polls(d, g, n + 1) = Polls(d, h, n + 1)
       /\ Polls(d, g, n + 2) = IF d.policy = "serviced" /\ kick THEN 0
                               ELSE Polls(d, h, n + 1) + IF poll THEN 1 ELSE 0
  BY <1>2, <1>6, <1>10, <1>11, <1>13, <1>14, <1>15
<1>17. QED
  BY <1>16 DEF n, g, kick, poll

\* A watchdog has counted the STATUS reads since its last accepted SERVICE.
WatchFollows ==
  first.kind = "watchdog" =>
    dev = [first EXCEPT !.count = Polls(first, past, Len(past) + 1)]

\* A watchdog: its count is the number of status polls since the last kick.
LEMMA WatchStep ==
  ASSUME DeviceAssumption, TypeInv, WatchFollows, NEW a \in Access, Accessed(a)
  PROVE  WatchFollows' /\ WatchdogContract'
<1> DEFINE n == Len(past)
<1>1. /\ first' = first /\ first \in Behavior /\ past' = Append(past, a)
      /\ Last' = n + 1 /\ Len(past') = n + 1 /\ n \in Nat
      /\ past'[Last'] = a /\ past \in Seq(Access)
      /\ \A kind : Answered(kind)' <=> first.kind = kind /\ a.op = "read"
  BY AfterAccess
<1>2. CASE first.kind # "watchdog"
  BY <1>1, <1>2 DEF WatchFollows, WatchdogContract
<1>3. CASE first.kind = "watchdog"
  <2> DEFINE m == Polls(first, past, n + 1)
             w == Polls(first, past', n + 2)
             kick == first.policy = "serviced" /\ a.op = "write" /\ a.off = SERVICE
             poll == a.op = "read" /\ a.off = STATUS
  <2>1. first \in Watchdog
    BY <1>1, <1>3, KindOf
  <2>2. /\ m \in Nat /\ Polls(first, past', n + 1) = m
        /\ w = IF kick THEN 0 ELSE m + IF poll THEN 1 ELSE 0
    BY <1>1, <2>1, PollsGrow DEF Watchdog
  <2>3. dev = [first EXCEPT !.count = m]
    BY <1>3 DEF WatchFollows
  <2> HIDE DEF m, w
  <2>4. /\ dev.kind = "watchdog" /\ dev.count = m /\ dev.policy = first.policy
        /\ dev.timeout = first.timeout
    BY <2>1, <2>3 DEF Watchdog
  <2>5. a.op = "read" \/ (a.op = "write" /\ a.op # "read")
    BY DEF Access
  <2>6. CASE a.op = "read"
    <3>1. a.val = ReadWatchdog(dev, a.off).val /\ dev' = ReadWatchdog(dev, a.off).dev
      BY <2>4, <2>5, <2>6 DEF Accessed, ReadReg
    <3>2. dev' = IF a.off = STATUS THEN [dev EXCEPT !.count = m + 1] ELSE dev
      BY <2>4, <3>1 DEF ReadWatchdog
    <3>3. w = IF a.off = STATUS THEN m + 1 ELSE m
      BY <2>2, <2>6
    <3>4. dev' = [first EXCEPT !.count = w]
      BY <2>1, <2>3, <3>2, <3>3 DEF Watchdog
    <3>5. a.val = IF /\ a.off = STATUS /\ first.policy # "disabled"
                     /\ m + 1 > first.timeout
                  THEN 1 ELSE 0
      BY <2>4, <3>1 DEF ReadWatchdog
    <3>6. (n + 1) + 1 = n + 2
      BY <1>1
    <3>7. WatchFollows'
      BY <1>1, <3>4, <3>6 DEF WatchFollows, w
    <3>8. WatchdogContract'
      BY <1>1, <2>2, <3>5 DEF WatchdogContract
    <3>9. QED
      BY <3>7, <3>8
  <2>7. CASE a.op = "write" /\ a.op # "read"
    <3>1. dev' = WriteWatchdog(dev, a.off)
      BY <2>4, <2>7 DEF Accessed, WriteReg
    <3>2. dev' = IF kick THEN [dev EXCEPT !.count = 0] ELSE dev
      BY <2>4, <2>7, <3>1 DEF WriteWatchdog
    <3>3. w = IF kick THEN 0 ELSE m
      BY <2>2, <2>7
    <3>4. dev' = [first EXCEPT !.count = w]
      BY <2>1, <2>3, <3>2, <3>3 DEF Watchdog
    <3>5. (n + 1) + 1 = n + 2
      BY <1>1
    <3>6. WatchFollows'
      BY <1>1, <3>4, <3>5 DEF WatchFollows, w
    <3>7. WatchdogContract'
      BY <1>1, <2>7 DEF WatchdogContract
    <3>8. QED
      BY <3>6, <3>7
  <2>8. QED
    BY <2>5, <2>6, <2>7
<1>4. QED
  BY <1>2, <1>3

\* A replayed trace stands after the responses it has given.
TraceFollows ==
  first.kind = "traceReplay" =>
    dev = [first EXCEPT !.pos = first.pos + Between(Served(past), 0, Len(past))]

\* A trace replay: its position is the number of words served.
LEMMA TraceStep ==
  ASSUME DeviceAssumption, TypeInv, TraceFollows, NEW a \in Access, Accessed(a)
  PROVE  TraceFollows' /\ ReplayContract'
<1> DEFINE n == Len(past)
<1>1. /\ first' = first /\ first \in Behavior /\ past' = Append(past, a)
      /\ Last' = n + 1 /\ Len(past') = n + 1 /\ n \in Nat
      /\ past'[Last'] = a /\ past \in Seq(Access)
      /\ \A kind : Answered(kind)' <=> first.kind = kind /\ a.op = "read"
  BY AfterAccess
<1>2. CASE first.kind # "traceReplay"
  BY <1>1, <1>2 DEF TraceFollows, ReplayContract
<1>3. CASE first.kind = "traceReplay"
  <2> DEFINE S == Served(past)
             T == Served(past')
             m == Between(S, 0, n)
             w == Between(T, 0, n + 1)
             given == a.op = "read" /\ a.val # Frontier
             next  == first.pos + m + 1
             match == next \in DOMAIN first.script /\ first.script[next].offset = a.off
  <2>1. first \in TraceReplay
    BY <1>1, <1>3, KindOf
  <2>2. S \in SUBSET (1 .. n) /\ T = S \cup IF given THEN {n + 1} ELSE {}
    BY <1>1, SetsGrow
  <2>3. n \in Nat /\ 0 \in 0 .. n
    BY <1>1
  <2> HIDE DEF n, S, T, given, m, w
  <2>4. T = S \/ T = S \cup {n + 1}
    BY <2>2
  <2>5. given => T # S
    <3>1. n + 1 \notin S
      BY <2>2, <2>3
    <3>2. QED
      BY <2>2, <3>1
  <2>6. ~ given => T = S
    BY <2>2
  <2>7. S \in SUBSET (1 .. n)
    BY <2>2
  <2>8. /\ m \in Nat /\ Between(T, 0, n) = m
        /\ T = S => w = m
        /\ T # S => w = m + 1
    <3>1. \A j \in 0 .. n :
            /\ Between(S, j, n) \in Nat
            /\ Between(T, j, n) = Between(S, j, n)
            /\ T = S => Between(T, j, n + 1) = Between(S, j, n)
            /\ T # S => Between(T, j, n + 1) = Between(S, j, n) + 1
      <4>1. CASE T = S
        BY <2>3, <2>7, <4>1, BetweenGrows
      <4>2. CASE T = S \cup {n + 1}
        BY <2>3, <2>7, <4>2, BetweenGrows
      <4>3. QED
        BY <2>4, <4>1, <4>2
    <3>2. QED
      BY <2>3, <3>1 DEF m, w
  <2>9. dev = [first EXCEPT !.pos = first.pos + m]
    BY <1>3 DEF TraceFollows, S, n, m
  <2>10. /\ dev.kind = "traceReplay" /\ dev.pos = first.pos + m /\ dev.script = first.script
         /\ first.pos \in Nat /\ dev.pos + 1 = next
    BY <2>1, <2>8, <2>9 DEF TraceReplay
  <2>11. a.op = "read" \/ (a.op = "write" /\ a.op # "read")
    BY DEF Access
  <2>12. ASSUME a.op = "read"
         PROVE  /\ a.val = IF match THEN first.script[next].value ELSE Frontier
                /\ dev' = IF match THEN [dev EXCEPT !.pos = @ + 1] ELSE dev
    <3>1. a.val = ReadTraceReplay(dev, a.off).val /\ dev' = ReadTraceReplay(dev, a.off).dev
      BY <2>10, <2>11, <2>12 DEF Accessed, ReadReg
    <3>2. QED
      BY <2>10, <3>1 DEF ReadTraceReplay
  <2>13. dev' = [first EXCEPT !.pos = first.pos + w]
    <3>1. CASE a.op = "read" /\ match
      <4> DEFINE Response == [offset : Offset, value : Data]
      <4>1. first.script \in Seq(Response)
        BY <2>1 DEF TraceReplay
      <4>2. first.script[next] \in Response
        <5> HIDE DEF Response, next
        <5> QED BY <3>1, <4>1, LenProperties, ElementOfSeq
      <4>3. a.val # Frontier
        BY <2>12, <3>1, <4>2 DEF DeviceAssumption
      <4>4. w = m + 1
        BY <2>5, <2>8, <3>1, <4>3 DEF given
      <4>5. dev' = [dev EXCEPT !.pos = first.pos + w]
        BY <2>8, <2>10, <2>12, <3>1, <4>4
      <4>6. QED
        BY <2>1, <2>9, <4>5 DEF TraceReplay
    <3>2. CASE a.op = "read" /\ ~ match
      <4>1. w = m
        BY <2>6, <2>8, <2>12, <3>2 DEF given
      <4>2. QED
        BY <2>9, <2>12, <3>2, <4>1
    <3>3. CASE a.op = "write" /\ a.op # "read"
      <4>1. dev' = dev
        BY <2>10, <3>3 DEF Accessed, WriteReg
      <4>2. w = m
        BY <2>6, <2>8, <3>3 DEF given
      <4>3. QED
        BY <2>9, <4>1, <4>2
    <3>4. QED
      BY <2>11, <3>1, <3>2, <3>3
  <2>14. TraceFollows'
    BY <1>1, <2>13 DEF TraceFollows, w, T, n
  <2>15. ReplayContract'
    <3>1. (n + 1) - 1 = n
      BY <2>3
    <3>2. Between(Served(past'), 0, Last' - 1) = m
      BY <1>1, <2>8, <3>1 DEF T, n
    <3>3. SUFFICES ASSUME Answered("traceReplay")'
                   PROVE  past'[Last'].val =
                            IF match THEN first.script[next].value ELSE Frontier
      BY <1>1, <3>2 DEF ReplayContract
    <3>4. QED
      BY <1>1, <2>12, <3>3
  <2>16. QED
    BY <2>14, <2>15
<1>4. QED
  BY <1>2, <1>3

\* What the flash controller held when an earlier access came, and what it
\* holds after one more.
LEMMA CmdGrows ==
  ASSUME NEW h \in Seq(Access), NEW a \in Access, NEW d
  PROVE  LET n == Len(h)
             g == Append(h, a)
         IN /\ \A k \in 0 .. n + 1 : CmdAt(d, g, k) = CmdAt(d, h, k)
            /\ CmdAt(d, g, n + 2) = IF a.op = "write" /\ a.off = CMD THEN a.val
                                    ELSE CmdAt(d, h, n + 1)
<1> DEFINE n == Len(h)
           g == Append(h, a)
           A == Accesses(h, "write", CMD)
           B == Accesses(g, "write", CMD)
           here == a.op = "write" /\ a.off = CMD
<1>1. /\ n \in Nat /\ n + 1 # 0 /\ g[n + 1] = a
      /\ \A k \in 1 .. n : g[k] = h[k]
  BY OneMore
<1>2. A \in SUBSET (1 .. n) /\ B = A \cup IF here THEN {n + 1} ELSE {}
  BY SetsGrow
<1> HIDE DEF n, g, A, B, here
<1>3. /\ B = A \/ B = A \cup {n + 1}
      /\ here <=> B # A
  <2>1. n + 1 \notin A
    BY <1>1, <1>2
  <2>2. QED
    BY <1>2, <2>1
<1>4. /\ \A k \in 0 .. n + 1 : LastBefore(B, k) = LastBefore(A, k)
      /\ \A k \in 0 .. n + 1 : LastBefore(A, k) \in 0 .. n
      /\ B = A => LastBefore(B, n + 2) = LastBefore(A, n + 1)
      /\ B # A => LastBefore(B, n + 2) = n + 1
  <2>1. n \in Nat /\ A \in SUBSET (1 .. n)
    BY <1>1, <1>2
  <2>2. B = A \/ B = A \cup {n + 1}
    BY <1>3
  <2>3. /\ \A k \in 0 .. n + 1 : /\ LastBefore(B, k) = LastBefore(A, k)
                                 /\ LastBefore(A, k) \in 0 .. n
                                 /\ LastBefore(A, k) = 0 \/ LastBefore(A, k) \in A
        /\ LastBefore(B, n + 2) = IF B = A THEN LastBefore(A, n + 1) ELSE n + 1
    BY <2>1, <2>2, LastGrows, ZenonT(40)
  <2>4. QED
    BY <2>3
<1>5. ASSUME NEW k \in 0 .. n + 1
      PROVE  CmdAt(d, g, k) = CmdAt(d, h, k)
  <2>1. LastBefore(B, k) = LastBefore(A, k) /\ LastBefore(A, k) \in 0 .. n
    BY <1>4
  <2>2. LastBefore(A, k) # 0 => g[LastBefore(A, k)] = h[LastBefore(A, k)]
    BY <1>1, <2>1
  <2>3. QED
    BY <2>1, <2>2 DEF CmdAt, A, B
<1>6. CmdAt(d, g, n + 2) = IF here THEN a.val ELSE CmdAt(d, h, n + 1)
  <2>1. CASE here
    BY <1>1, <1>3, <1>4, <2>1 DEF CmdAt, B
  <2>2. CASE ~ here
    <3>1. n + 1 \in 0 .. n + 1
      BY <1>1
    <3>2. LastBefore(A, n + 1) \in 0 .. n /\ LastBefore(B, n + 2) = LastBefore(A, n + 1)
      BY <1>3, <1>4, <2>2, <3>1
    <3>3. LastBefore(A, n + 1) # 0 => g[LastBefore(A, n + 1)] = h[LastBefore(A, n + 1)]
      BY <1>1, <3>2
    <3>4. QED
      BY <2>2, <3>2, <3>3 DEF CmdAt, A, B
  <2>3. QED
    BY <2>1, <2>2
<1>7. QED
  BY <1>5, <1>6 DEF n, g, here

\* An access at the end changes the execute-in-place mode from then on, and only
\* if it is one of the two mode commands.
LEMMA XipGrows ==
  ASSUME NEW h \in Seq(Access), NEW a \in Access, NEW d
  PROVE  LET n    == Len(h)
             g    == Append(h, a)
             mode == /\ a.op = "write" /\ a.off = CMD
                     /\ a.val \in {"ENTER_XIP", "EXIT_XIP"}
         IN /\ \A k \in 0 .. n + 1 : XipAt(d, g, k) = XipAt(d, h, k)
            /\ XipAt(d, g, n + 2) = IF mode THEN a.val = "ENTER_XIP"
                                    ELSE XipAt(d, h, n + 1)
<1> DEFINE n == Len(h)
           g == Append(h, a)
           A == Modes(h)
           B == Modes(g)
           here == /\ a.op = "write" /\ a.off = CMD
                   /\ a.val \in {"ENTER_XIP", "EXIT_XIP"}
<1>1. /\ n \in Nat /\ n + 1 # 0 /\ g[n + 1] = a
      /\ \A k \in 1 .. n : g[k] = h[k]
  BY OneMore
<1>2. A \in SUBSET (1 .. n) /\ B = A \cup IF here THEN {n + 1} ELSE {}
  BY SetsGrow
<1> HIDE DEF n, g, A, B, here
<1>3. /\ B = A \/ B = A \cup {n + 1}
      /\ here <=> B # A
  <2>1. n + 1 \notin A
    BY <1>1, <1>2
  <2>2. QED
    BY <1>2, <2>1
<1>4. /\ \A k \in 0 .. n + 1 : LastBefore(B, k) = LastBefore(A, k)
      /\ \A k \in 0 .. n + 1 : LastBefore(A, k) \in 0 .. n
      /\ B = A => LastBefore(B, n + 2) = LastBefore(A, n + 1)
      /\ B # A => LastBefore(B, n + 2) = n + 1
  <2>1. n \in Nat /\ A \in SUBSET (1 .. n)
    BY <1>1, <1>2
  <2>2. B = A \/ B = A \cup {n + 1}
    BY <1>3
  <2>3. /\ \A k \in 0 .. n + 1 : /\ LastBefore(B, k) = LastBefore(A, k)
                                 /\ LastBefore(A, k) \in 0 .. n
                                 /\ LastBefore(A, k) = 0 \/ LastBefore(A, k) \in A
        /\ LastBefore(B, n + 2) = IF B = A THEN LastBefore(A, n + 1) ELSE n + 1
    BY <2>1, <2>2, LastGrows, ZenonT(40)
  <2>4. QED
    BY <2>3
<1>5. ASSUME NEW k \in 0 .. n + 1
      PROVE  XipAt(d, g, k) = XipAt(d, h, k)
  <2>1. LastBefore(B, k) = LastBefore(A, k) /\ LastBefore(A, k) \in 0 .. n
    BY <1>4
  <2>2. LastBefore(A, k) # 0 => g[LastBefore(A, k)] = h[LastBefore(A, k)]
    BY <1>1, <2>1
  <2>3. QED
    BY <2>1, <2>2 DEF XipAt, A, B
<1>6. XipAt(d, g, n + 2) = IF here THEN a.val = "ENTER_XIP" ELSE XipAt(d, h, n + 1)
  <2>1. CASE here
    BY <1>1, <1>3, <1>4, <2>1 DEF XipAt, B
  <2>2. CASE ~ here
    <3>1. n + 1 \in 0 .. n + 1
      BY <1>1
    <3>2. LastBefore(A, n + 1) \in 0 .. n /\ LastBefore(B, n + 2) = LastBefore(A, n + 1)
      BY <1>3, <1>4, <2>2, <3>1
    <3>3. LastBefore(A, n + 1) # 0 => g[LastBefore(A, n + 1)] = h[LastBefore(A, n + 1)]
      BY <1>1, <3>2
    <3>4. QED
      BY <2>2, <3>2, <3>3 DEF XipAt, A, B
  <2>3. QED
    BY <2>1, <2>2
<1>7. QED
  BY <1>5, <1>6 DEF n, g, here

\* A read of DATA moves the stream exactly when READ is the command and the
\* controller is not in XIP mode.
Moves(d, h, a) ==
  /\ a.op = "read" /\ a.off = DATA
  /\ CmdAt(d, h, Len(h) + 1) = "READ" /\ ~ XipAt(d, h, Len(h) + 1)

\* One more access adds one streaming read, or none.
LEMMA StreamsGrow ==
  ASSUME NEW h \in Seq(Access), NEW a \in Access, NEW d
  PROVE  /\ Streams(d, h) \in SUBSET (1 .. Len(h))
         /\ Moves(d, h, a) => Streams(d, Append(h, a)) = Streams(d, h) \cup {Len(h) + 1}
         /\ ~ Moves(d, h, a) => Streams(d, Append(h, a)) = Streams(d, h)
<1> DEFINE n == Len(h)
           g == Append(h, a)
           R == Accesses(h, "read", DATA)
           Q == Accesses(g, "read", DATA)
           here == a.op = "read" /\ a.off = DATA
           In(f, k) == CmdAt(d, f, k) = "READ" /\ ~ XipAt(d, f, k)
<1>1. n \in Nat
  BY OneMore
<1>2. R \in SUBSET (1 .. n) /\ Q = R \cup IF here THEN {n + 1} ELSE {}
  BY SetsGrow
<1>3. \A k \in 0 .. n + 1 : CmdAt(d, g, k) = CmdAt(d, h, k) /\ XipAt(d, g, k) = XipAt(d, h, k)
  BY CmdGrows, XipGrows
<1> HIDE DEF n, g, R, Q
<1>4. \A k \in 0 .. n + 1 : In(g, k) <=> In(h, k)
  BY <1>3
<1>5. /\ \A k \in R : k \in 0 .. n + 1
      /\ n + 1 \in 0 .. n + 1
  BY <1>1, <1>2
<1>6. Streams(d, h) = {k \in R : In(h, k)} /\ Streams(d, g) = {k \in Q : In(g, k)}
  BY DEF Streams, R, Q
<1>7. Moves(d, h, a) <=> here /\ In(h, n + 1)
  BY DEF Moves, n
<1> HIDE DEF In, here
<1>8. Streams(d, h) \in SUBSET (1 .. n)
  BY <1>2, <1>6
<1>9. CASE Moves(d, h, a)
  <2>1. Q = R \cup {n + 1}
    BY <1>2, <1>7, <1>9
  <2>2. \A k \in Q : In(g, k) <=> k = n + 1 \/ (k \in R /\ In(h, k))
    BY <1>4, <1>5, <1>7, <1>9, <2>1
  <2>3. Streams(d, g) = Streams(d, h) \cup {n + 1}
    BY <1>6, <2>1, <2>2
  <2>4. QED
    BY <1>8, <1>9, <2>3 DEF n, g
<1>10. CASE ~ Moves(d, h, a)
  <2>1. \A k \in Q : In(g, k) <=> k \in R /\ In(h, k)
    BY <1>2, <1>4, <1>5, <1>7, <1>10
  <2>2. R \subseteq Q
    BY <1>2
  <2>3. Streams(d, g) = Streams(d, h)
    BY <1>6, <2>1, <2>2
  <2>4. QED
    BY <1>8, <1>10, <2>3 DEF n, g
<1>11. QED
  BY <1>9, <1>10

\* An access at the end changes the flash address from then on: to the word
\* written to ADDR, or by one word when it streams.
LEMMA AddrGrows ==
  ASSUME NEW h \in Seq(Access), NEW a \in Access, NEW d, d.addr \in Nat,
         \A j \in Accesses(h, "write", ADDR) : h[j].val \in Nat,
         a.op = "write" /\ a.off = ADDR => a.val \in Nat
  PROVE  LET n   == Len(h)
             g   == Append(h, a)
             set == a.op = "write" /\ a.off = ADDR
         IN /\ AddrAt(d, h, n + 1) \in Nat
            /\ AddrAt(d, g, n + 1) = AddrAt(d, h, n + 1)
            /\ set => AddrAt(d, g, n + 2) = a.val
            /\ ~ set => AddrAt(d, g, n + 2) =
                          AddrAt(d, h, n + 1) + IF Moves(d, h, a) THEN 1 ELSE 0
<1> DEFINE n == Len(h)
           g == Append(h, a)
           A == Accesses(h, "write", ADDR)
           B == Accesses(g, "write", ADDR)
           R == Streams(d, h)
           Q == Streams(d, g)
           set == a.op = "write" /\ a.off = ADDR
           moves == Moves(d, h, a)
           j == LastBefore(A, n + 1)
           base == IF j = 0 THEN d.addr ELSE h[j].val
<1>1. /\ n \in Nat /\ n + 1 # 0 /\ g[n + 1] = a
      /\ \A k \in 1 .. n : g[k] = h[k]
      /\ (n + 1) - 1 = n /\ (n + 2) - 1 = n + 1
  BY OneMore
<1>2. A \in SUBSET (1 .. n) /\ B = A \cup IF set THEN {n + 1} ELSE {}
  BY SetsGrow
<1>3. R \in SUBSET (1 .. n) /\ (moves => Q = R \cup {n + 1}) /\ (~ moves => Q = R)
  BY StreamsGrow
<1>4. set => ~ moves
  BY DEF Moves
<1> HIDE DEF n, g, A, B, R, Q, set, moves
<1>5. /\ B = A \/ B = A \cup {n + 1}
      /\ set <=> B # A
      /\ Q = R \/ Q = R \cup {n + 1}
      /\ moves <=> Q # R
  <2>1. n + 1 \notin A /\ n + 1 \notin R
    BY <1>1, <1>2, <1>3
  <2>2. QED
    BY <1>2, <1>3, <2>1
<1>6. /\ LastBefore(B, n + 1) = j /\ j \in 0 .. n
      /\ j = 0 \/ j \in A
      /\ B = A => LastBefore(B, n + 2) = j
      /\ B # A => LastBefore(B, n + 2) = n + 1
  <2>1. n \in Nat /\ A \in SUBSET (1 .. n)
    BY <1>1, <1>2
  <2>2. B = A \/ B = A \cup {n + 1}
    BY <1>5
  <2>3. /\ \A k \in 0 .. n + 1 : /\ LastBefore(B, k) = LastBefore(A, k)
                                 /\ LastBefore(A, k) \in 0 .. n
                                 /\ LastBefore(A, k) = 0 \/ LastBefore(A, k) \in A
        /\ LastBefore(B, n + 2) = IF B = A THEN LastBefore(A, n + 1) ELSE n + 1
    BY <2>1, <2>2, LastGrows, ZenonT(40)
  <2>4. n + 1 \in 0 .. n + 1
    BY <1>1
  <2>5. QED
    BY <2>3, <2>4
<1>7. base \in Nat /\ (j # 0 => g[j] = h[j])
  BY <1>1, <1>6 DEF A
<1>8. AddrAt(d, h, n + 1) = Between(R, j, n) + base
  BY <1>1 DEF AddrAt, A, R
<1>9. AddrAt(d, g, n + 1) = Between(Q, j, n) + base
  BY <1>1, <1>6, <1>7 DEF AddrAt, B, Q
<1>10. ~ set => AddrAt(d, g, n + 2) = Between(Q, j, n + 1) + base
  BY <1>1, <1>5, <1>6, <1>7 DEF AddrAt, B, Q
<1>11. set => AddrAt(d, g, n + 2) = Between(Q, n + 1, n + 1) + a.val
  BY <1>1, <1>5, <1>6 DEF AddrAt, B, Q
<1> HIDE DEF j, base
<1>12. /\ Between(R, j, n) \in Nat
       /\ Between(Q, j, n) = Between(R, j, n)
       /\ Q = R => Between(Q, j, n + 1) = Between(R, j, n)
       /\ Q # R => Between(Q, j, n + 1) = Between(R, j, n) + 1
       /\ Between(Q, n + 1, n + 1) = 0
  <2>1. n \in Nat /\ R \in SUBSET (1 .. n)
    BY <1>1, <1>3
  <2>2. j \in 0 .. n
    BY <1>6
  <2>3. Q = R \/ Q = R \cup {n + 1}
    BY <1>5
  <2>4. QED
    BY <2>1, <2>2, <2>3, BetweenGrows, Zenon
<1>13. /\ AddrAt(d, h, n + 1) \in Nat
       /\ AddrAt(d, g, n + 1) = AddrAt(d, h, n + 1)
       /\ ~ set => AddrAt(d, g, n + 2) = AddrAt(d, h, n + 1) + IF moves THEN 1 ELSE 0
  BY <1>5, <1>7, <1>8, <1>9, <1>10, <1>12
<1>14. set => AddrAt(d, g, n + 2) = a.val
  BY <1>11, <1>12 DEF set
<1>15. QED
  BY <1>13, <1>14 DEF n, g, set, moves

\* The flash controller holds the last command, the last mode, and the last
\* address moved on by the words streamed since.
FlashFollows ==
  first.kind = "flash" =>
    dev = [first EXCEPT !.cmd  = CmdAt(first, past, Len(past) + 1),
                        !.xip  = XipAt(first, past, Len(past) + 1),
                        !.addr = AddrAt(first, past, Len(past) + 1)]

\* A flash: its registers are what the history of accesses makes of them.
LEMMA FlashStep ==
  ASSUME DeviceAssumption, TypeInv, FlashFollows, NEW a \in Access, Accessed(a)
  PROVE  FlashFollows' /\ FlashContract'
<1> DEFINE n == Len(past)
<1>1. /\ first' = first /\ first \in Behavior /\ past' = Append(past, a)
      /\ Last' = n + 1 /\ Len(past') = n + 1 /\ n \in Nat
      /\ past'[Last'] = a /\ past \in Seq(Access)
      /\ \A kind : Answered(kind)' <=> first.kind = kind /\ a.op = "read"
  BY AfterAccess
<1>2. CASE first.kind # "flash"
  BY <1>1, <1>2 DEF FlashFollows, FlashContract
<1>3. CASE first.kind = "flash"
  <2> DEFINE cmd   == CmdAt(first, past, n + 1)
             xip   == XipAt(first, past, n + 1)
             addr  == AddrAt(first, past, n + 1)
             cmd2  == CmdAt(first, past', n + 2)
             xip2  == XipAt(first, past', n + 2)
             addr2 == AddrAt(first, past', n + 2)
             moves == Moves(first, past, a)
             word  == IF addr + 1 \in DOMAIN first.backing
                      THEN first.backing[addr + 1] ELSE 0
  <2>1. first \in Flash
    BY <1>1, <1>3, KindOf
  <2>2. a.op = "read" \/ (a.op = "write" /\ a.op # "read")
    BY DEF Access
  <2>3. dev = [first EXCEPT !.cmd = cmd, !.xip = xip, !.addr = addr]
    BY <1>3 DEF FlashFollows
  <2>4. \A k \in 0 .. n + 1 : /\ CmdAt(first, past', k) = CmdAt(first, past, k)
                              /\ XipAt(first, past', k) = XipAt(first, past, k)
    <3>1. \A k \in 0 .. n + 1 : CmdAt(first, past', k) = CmdAt(first, past, k)
      <4>1. \A k \in 0 .. n + 1 : CmdAt(first, Append(past, a), k) = CmdAt(first, past, k)
        BY <1>1, CmdGrows, Zenon
      <4>2. QED
        BY <1>1, <4>1, Zenon
    <3>2. \A k \in 0 .. n + 1 : XipAt(first, past', k) = XipAt(first, past, k)
      <4>1. \A k \in 0 .. n + 1 : XipAt(first, Append(past, a), k) = XipAt(first, past, k)
        BY <1>1, XipGrows, Zenon
      <4>2. QED
        BY <1>1, <4>1, Zenon
    <3>3. QED
      BY <3>1, <3>2, Zenon
  <2>5. n + 1 \in 0 .. n + 1
    BY <1>1
  <2>6. CmdAt(first, past', n + 1) = cmd /\ XipAt(first, past', n + 1) = xip
    BY <2>4, <2>5
  <2>7. cmd2 = IF a.op = "write" /\ a.off = CMD THEN a.val ELSE cmd
    BY <1>1, CmdGrows
  <2>8. xip2 = IF /\ a.op = "write" /\ a.off = CMD
                  /\ a.val \in {"ENTER_XIP", "EXIT_XIP"}
               THEN a.val = "ENTER_XIP" ELSE xip
    BY <1>1, XipGrows
  <2>9. /\ addr \in Nat /\ AddrAt(first, past', n + 1) = addr
        /\ a.op = "write" /\ a.off = ADDR => addr2 = a.val
        /\ ~ (a.op = "write" /\ a.off = ADDR) => addr2 = addr + IF moves THEN 1 ELSE 0
    <3>1. Input(first, ADDR) \in SUBSET Nat
      BY <1>3 DEF Input, ADDR, CMD, Data
    <3>2. \A j \in Accesses(past, "write", ADDR) : past[j].val \in Nat
      <4>1. \A j \in DOMAIN past : past[j].val \in IF past[j].op = "read" THEN Output(first)
                                                   ELSE Input(first, past[j].off)
        BY DEF TypeInv, TypeOK
      <4>2. QED
        BY <3>1, <4>1 DEF Accesses
    <3>3. a.op = "write" /\ a.off = ADDR => a.val \in Nat
      <4>1. dev.kind = "flash"
        BY <1>3, AfterAccess
      <4>2. a.op = "write" => a.val \in Input(dev, a.off)
        BY <2>2 DEF Accessed
      <4>3. Input(dev, ADDR) \in SUBSET Nat
        BY <4>1 DEF Input, ADDR, CMD, Data
      <4>4. QED
        BY <4>2, <4>3
    <3>4. first.addr \in Nat
      BY <2>1 DEF Flash
    <3>5. QED
      BY <1>1, <3>2, <3>3, <3>4, AddrGrows
  <2>10. moves <=> a.op = "read" /\ a.off = DATA /\ cmd = "READ" /\ ~ xip
    BY DEF Moves
  <2> HIDE DEF cmd, xip, addr, cmd2, xip2, addr2, moves
  <2>11. /\ dev.kind = "flash" /\ dev.cmd = cmd /\ dev.xip = xip /\ dev.addr = addr
         /\ dev.backing = first.backing /\ FlashWord(dev) = word
    BY <2>1, <2>3 DEF Flash, FlashWord
  <2>12. ASSUME a.op = "read"
         PROVE  /\ a.val = ReadFlash(dev, a.off).val
                /\ dev' = ReadFlash(dev, a.off).dev
    BY <2>2, <2>11, <2>12 DEF Accessed, ReadReg
  <2>13. dev' = [first EXCEPT !.cmd = cmd2, !.xip = xip2, !.addr = addr2]
    <3>1. CASE moves
      <4>1. dev' = [dev EXCEPT !.addr = addr + 1]
        BY <2>10, <2>11, <2>12, <3>1 DEF ReadFlash
      <4>2. cmd2 = cmd /\ xip2 = xip /\ addr2 = addr + 1
        BY <2>7, <2>8, <2>9, <2>10, <3>1
      <4>3. QED
        BY <2>1, <2>3, <4>1, <4>2 DEF Flash
    <3>2. CASE a.op = "read" /\ ~ moves
      <4>1. dev' = dev
        BY <2>10, <2>11, <2>12, <3>2 DEF ReadFlash
      <4>2. cmd2 = cmd /\ xip2 = xip /\ addr2 = addr
        BY <2>7, <2>8, <2>9, <3>2
      <4>3. QED
        BY <2>3, <4>1, <4>2
    <3>3. CASE a.op = "write" /\ a.op # "read"
      <4>1. dev' = WriteFlash(dev, a.off, a.val)
        BY <2>11, <3>3 DEF Accessed, WriteReg
      <4>2. ~ moves
        BY <2>10, <3>3
      <4>3. CASE a.off = CMD
        <5> DEFINE x == a.val = "ENTER_XIP" \/ (dev.xip /\ a.val # "EXIT_XIP")
        <5>1. dev' = [dev EXCEPT !.cmd = a.val, !.xip = x]
          BY <4>1, <4>3 DEF WriteFlash, CMD, ADDR
        <5>2. cmd2 = a.val /\ addr2 = addr
          BY <2>7, <2>9, <3>3, <4>2, <4>3 DEF CMD, ADDR
        <5>3. x = xip2
          <6>1. xip \in BOOLEAN
            BY <2>1, AfterAccess, <2>11, <1>3, KindOf DEF Flash
          <6>2. QED
            BY <2>8, <2>11, <3>3, <4>3, <6>1
        <5> HIDE DEF x
        <5>4. QED
          BY <2>1, <2>3, <5>1, <5>2, <5>3 DEF Flash
      <4>4. CASE a.off = ADDR
        <5>1. dev' = [dev EXCEPT !.addr = a.val]
          BY <4>1, <4>4 DEF WriteFlash, CMD, ADDR
        <5>2. cmd2 = cmd /\ xip2 = xip /\ addr2 = a.val
          BY <2>7, <2>8, <2>9, <3>3, <4>4 DEF CMD, ADDR
        <5>3. QED
          BY <2>1, <2>3, <5>1, <5>2 DEF Flash
      <4>5. CASE a.off # CMD /\ a.off # ADDR
        <5>1. dev' = dev
          BY <4>1, <4>5 DEF WriteFlash
        <5>2. cmd2 = cmd /\ xip2 = xip /\ addr2 = addr
          BY <2>7, <2>8, <2>9, <4>2, <4>5
        <5>3. QED
          BY <2>3, <5>1, <5>2
      <4>6. QED
        BY <4>3, <4>4, <4>5
    <3>4. QED
      BY <2>2, <2>10, <3>1, <3>2, <3>3
  <2>14. FlashFollows'
    <3>1. Len(past') + 1 = n + 2
      BY <1>1
    <3>2. QED
      BY <1>1, <2>13, <3>1 DEF FlashFollows, cmd2, xip2, addr2
  <2>15. FlashContract'
    <3>1. CASE a.op = "read"
      <4>1. a.val = CASE a.off # DATA                              -> 0
                      [] a.off = DATA /\ (xip \/ cmd = "READ")      -> word
                      [] a.off = DATA /\ ~xip /\ cmd = "READ_ID"    -> FlashId
                      [] a.off = DATA /\ ~xip /\ cmd = "READ_STATUS" -> 1
                      [] OTHER                                     -> Frontier
        BY <2>11, <2>12, <3>1 DEF ReadFlash
      <4>2. QED
        BY <1>1, <2>6, <2>9, <4>1 DEF FlashContract
    <3>2. CASE a.op # "read"
      BY <1>1, <3>2 DEF FlashContract
    <3>3. QED
      BY <3>1, <3>2
  <2>16. QED
    BY <2>14, <2>15
<1>4. QED
  BY <1>2, <1>3

\* The bits of the cell c after the access a, which found the bits on.
BitsAfter(c, on, a) == {b \in Bit : BitAfter(c, b, b \in on, a)}

\* f gives the bits of the cell c after each of the first n accesses of h.
Unfolds(f, c, h, n) ==
  f = [k \in 0 .. n |-> IF k = 0 THEN c.value
                        ELSE {b \in Bit : BitAfter(c, b, b \in f[k - 1], h[k])}]

\* Such an f, cut to n accesses, and continued by one access more.
Cut(f, n)             == [k \in 0 .. n |-> f[k]]
Continued(f, c, a, n) == [k \in 0 .. n + 1 |-> IF k = n + 1 THEN BitsAfter(c, f[n], a)
                                                ELSE f[k]]

\* BitsOver gives the bits after every access as soon as something does: the
\* recursion has a solution, which the invariant below carries along.
LEMMA BitsOverUnfolds ==
  ASSUME NEW c, NEW h, \E f : Unfolds(f, c, h, Len(h))
  PROVE  Unfolds(BitsOver(c, h), c, h, Len(h))
<1>1. BitsOver(c, h) = CHOOSE f : Unfolds(f, c, h, Len(h))
  BY DEF BitsOver, Unfolds
<1>2. QED
  BY <1>1

\* A solution for the history so far and one for one access more determine
\* each other.
LEMMA UnfoldsMore ==
  ASSUME NEW c, NEW n \in Nat, NEW h, NEW g, NEW a, g[n + 1] = a,
         \A k \in 1 .. n : g[k] = h[k]
  PROVE  /\ \A f : Unfolds(f, c, h, n) =>
              Unfolds(Continued(f, c, a, n), c, g, n + 1)
         /\ \A f : Unfolds(f, c, g, n + 1) =>
              Unfolds(Cut(f, n), c, h, n) /\ f[n + 1] = BitsAfter(c, f[n], a)
<1>1. ASSUME NEW f, Unfolds(f, c, h, n)
      PROVE  Unfolds(Continued(f, c, a, n), c, g, n + 1)
  <2> DEFINE e == [k \in 0 .. n + 1 |->
                     IF k = n + 1 THEN {b \in Bit : BitAfter(c, b, b \in f[n], a)} ELSE f[k]]
             After(k) == {b \in Bit : BitAfter(c, b, b \in e[k - 1], g[k])}
             r == [k \in 0 .. n + 1 |-> IF k = 0 THEN c.value ELSE After(k)]
  <2>1. ASSUME NEW k \in 0 .. n + 1
        PROVE  e[k] = IF k = 0 THEN c.value ELSE After(k)
    <3>1. CASE k = 0
      BY <1>1, <3>1 DEF Unfolds
    <3>2. CASE k \in 1 .. n
      <4>1. k - 1 \in 0 .. n + 1 /\ k - 1 # n + 1 /\ k \in 0 .. n /\ k # n + 1 /\ k # 0
        BY <3>2
      <4>2. e[k] = f[k] /\ e[k - 1] = f[k - 1]
        BY <4>1
      <4>3. f[k] = {b \in Bit : BitAfter(c, b, b \in f[k - 1], h[k])}
        BY <1>1, <4>1 DEF Unfolds
      <4>4. g[k] = h[k]
        BY <3>2
      <4> HIDE DEF e
      <4>5. QED
        BY <4>1, <4>2, <4>3, <4>4
    <3>3. CASE k = n + 1
      <4>1. k # 0 /\ k - 1 = n /\ n \in 0 .. n + 1 /\ n # n + 1
        BY <3>3
      <4>2. e[k - 1] = f[n] /\ e[k] = {b \in Bit : BitAfter(c, b, b \in f[n], a)} /\ g[k] = a
        BY <3>3, <4>1
      <4> HIDE DEF e
      <4>3. QED
        BY <4>1, <4>2
    <3>4. QED
      BY <3>1, <3>2, <3>3
  <2>2. e = [k \in 0 .. n + 1 |-> e[k]]
    OBVIOUS
  <2> HIDE DEF e, After
  <2>3. e = r
    BY <2>1, <2>2, Zenon
  <2>4. QED
    BY <2>3 DEF Unfolds, Continued, BitsAfter, e, After
<1>2. ASSUME NEW f, Unfolds(f, c, g, n + 1)
      PROVE  Unfolds(Cut(f, n), c, h, n) /\ f[n + 1] = BitsAfter(c, f[n], a)
  <2> DEFINE e == [k \in 0 .. n |-> f[k]]
             After(k) == {b \in Bit : BitAfter(c, b, b \in e[k - 1], h[k])}
             r == [k \in 0 .. n |-> IF k = 0 THEN c.value ELSE After(k)]
  <2>1. \A k \in 0 .. n + 1 :
          f[k] = IF k = 0 THEN c.value
                 ELSE {b \in Bit : BitAfter(c, b, b \in f[k - 1], g[k])}
    BY <1>2, Zenon DEF Unfolds
  <2>2. f[n + 1] = {b \in Bit : BitAfter(c, b, b \in f[n], a)}
    <3>1. n + 1 \in 0 .. n + 1 /\ n + 1 # 0 /\ (n + 1) - 1 = n
      OBVIOUS
    <3>2. QED
      BY <2>1, <3>1
  <2>3. ASSUME NEW k \in 0 .. n
        PROVE  e[k] = IF k = 0 THEN c.value ELSE After(k)
    <3>1. CASE k = 0
      <4>1. e[k] = f[k] /\ k \in 0 .. n + 1
        OBVIOUS
      <4>2. f[k] = c.value
        BY <2>1, <3>1, <4>1
      <4>3. QED
        BY <3>1, <4>1, <4>2, Zenon
    <3>2. CASE k # 0
      <4>1. k \in 1 .. n /\ k - 1 \in 0 .. n /\ k \in 0 .. n + 1
        BY <3>2
      <4>2. e[k] = f[k] /\ e[k - 1] = f[k - 1] /\ g[k] = h[k]
        BY <4>1
      <4> HIDE DEF e
      <4>3. QED
        BY <2>1, <3>2, <4>1, <4>2
    <3>3. QED
      BY <3>1, <3>2
  <2>4. e = [k \in 0 .. n |-> e[k]]
    OBVIOUS
  <2> HIDE DEF e, After
  <2>5. e = r
    BY <2>3, <2>4, Zenon
  <2>6. QED
    BY <2>2, <2>5 DEF Unfolds, Cut, BitsAfter, e, After
<1>3. QED
  BY <1>1, <1>2

\* A register file has the registers it had at power-on, and each holds the
\* bits that the history left in it.
RegsFollow ==
  first.kind = "regfile" =>
    /\ DOMAIN dev.cells = DOMAIN first.cells
    /\ \A i \in DOMAIN first.cells :
         /\ dev.cells[i] = [first.cells[i] EXCEPT !.value = dev.cells[i].value]
         /\ \E f : Unfolds(f, first.cells[i], past, Len(past))
         /\ \A f : Unfolds(f, first.cells[i], past, Len(past)) =>
                     f[Len(past)] = dev.cells[i].value

\* A register file: every register is what the history of accesses makes of its
\* bits, one access at a time.
LEMMA RegsStep ==
  ASSUME DeviceAssumption, TypeInv, RegsFollow, NEW a \in Access, Accessed(a)
  PROVE  RegsFollow' /\ RegisterContract'
<1> DEFINE n == Len(past)
<1>1. /\ first' = first /\ first \in Behavior /\ past' = Append(past, a)
      /\ Last' = n + 1 /\ Len(past') = n + 1 /\ n \in Nat
      /\ past'[Last'] = a /\ past'[n + 1] = a /\ \A k \in 1 .. n : past'[k] = past[k]
      /\ \A kind : Answered(kind)' <=> first.kind = kind /\ a.op = "read"
      /\ dev \in Behavior /\ dev.kind = first.kind
  BY AfterAccess
<1>2. CASE first.kind # "regfile"
  BY <1>1, <1>2 DEF RegsFollow, RegisterContract
<1>3. CASE first.kind = "regfile"
  <2>1. first \in RegFile /\ dev \in RegFile
    BY <1>1, <1>3, KindOf
  <2>2. /\ \A i \in DOMAIN dev.cells : dev.cells[i] \in Cell
        /\ \A i \in DOMAIN first.cells : first.cells[i] \in Cell
    BY <2>1, LenProperties, ElementOfSeq DEF RegFile
  <2>3. DOMAIN dev.cells = DOMAIN first.cells
    BY <1>3 DEF RegsFollow
  <2>4. a.off \in Offset /\ (a.op = "read" \/ (a.op = "write" /\ a.op # "read"))
    BY DEF Access
  <2>5. a.op = "read" => a.val = ReadRegFile(dev, a.off).val /\ dev' = ReadRegFile(dev, a.off).dev
    BY <1>1, <1>3, <2>4 DEF Accessed, ReadReg
  <2>6. a.op = "write" => a.val \in SUBSET Bit /\ dev' = WriteRegFile(dev, a.off, a.val)
    BY <1>1, <1>3, <2>4 DEF Accessed, WriteReg, Input
  <2>7. /\ DOMAIN dev'.cells = DOMAIN first.cells
        /\ \A i \in DOMAIN first.cells :
             dev'.cells[i] = IF dev.cells[i].offset # a.off THEN dev.cells[i]
                             ELSE IF a.op = "read" THEN ClearedOnRead(dev.cells[i])
                             ELSE Updated(dev.cells[i], a.val)
    <3>1. CASE a.op = "read"
      BY <2>1, <2>3, <2>4, <2>5, <3>1, RegFileRead
    <3>2. CASE a.op = "write" /\ a.op # "read"
      BY <2>1, <2>3, <2>4, <2>6, <3>2, RegFileWrite
    <3>3. QED
      BY <2>4, <3>1, <3>2
  <2>8. ASSUME NEW i \in DOMAIN first.cells
        PROVE  /\ dev'.cells[i] = [first.cells[i] EXCEPT !.value = dev'.cells[i].value]
               /\ \E f : Unfolds(f, first.cells[i], past', n + 1)
               /\ \A f : Unfolds(f, first.cells[i], past', n + 1) =>
                           /\ f[n + 1] = dev'.cells[i].value
                           /\ f[n] = dev.cells[i].value
    <3> DEFINE c == first.cells[i]
               e == dev.cells[i]
    <3>1. c \in Cell /\ e \in Cell /\ e = [c EXCEPT !.value = e.value]
      BY <1>3, <2>2, <2>3 DEF RegsFollow
    <3>2. /\ e.offset = c.offset /\ e.ro = c.ro /\ e.w1c = c.w1c /\ e.cor = c.cor
          /\ e.resv = c.resv /\ e.value \in SUBSET Bit
      BY <3>1 DEF Cell
    <3>3. dev'.cells[i] = [c EXCEPT !.value = BitsAfter(c, e.value, a)]
      <4>1. CASE e.offset # a.off
        <5>1. dev'.cells[i] = e
          BY <2>7, <4>1
        <5>2. BitsAfter(c, e.value, a) = e.value
          BY <3>2, <4>1 DEF BitsAfter, BitAfter
        <5> HIDE DEF c, e
        <5>3. QED
          BY <3>1, <5>1, <5>2
      <4>2. CASE e.offset = a.off /\ a.op = "read"
        <5>1. dev'.cells[i] = [e EXCEPT !.value = e.value \ e.cor]
          BY <2>7, <4>2 DEF ClearedOnRead
        <5>2. BitsAfter(c, e.value, a) = e.value \ e.cor
          BY <3>2, <4>2 DEF BitsAfter, BitAfter
        <5> HIDE DEF c, e
        <5>3. QED
          BY <3>1, <5>1, <5>2 DEF Cell
      <4>3. CASE e.offset = a.off /\ a.op = "write" /\ a.op # "read"
        <5>1. dev'.cells[i] = [e EXCEPT !.value = RegWrite(e, a.val)]
          BY <2>7, <4>3 DEF Updated
        <5>2. BitsAfter(c, e.value, a) = RegWrite(e, a.val)
          BY <2>6, <3>2, <4>3 DEF BitsAfter, BitAfter, RegWrite
        <5> HIDE DEF c, e
        <5>3. QED
          BY <3>1, <5>1, <5>2 DEF Cell
      <4>4. QED
        BY <2>4, <4>1, <4>2, <4>3
    <3>4. dev'.cells[i].value = BitsAfter(c, e.value, a)
      BY <3>1, <3>3 DEF Cell
    <3>5. /\ \E f : Unfolds(f, c, past, n)
          /\ \A f : Unfolds(f, c, past, n) => f[n] = e.value
      BY <1>3 DEF RegsFollow
    <3>6. /\ \A f : Unfolds(f, c, past, n) => Unfolds(Continued(f, c, a, n), c, past', n + 1)
          /\ \A f : Unfolds(f, c, past', n + 1) =>
               Unfolds(Cut(f, n), c, past, n) /\ f[n + 1] = BitsAfter(c, f[n], a)
      <4>1. n \in Nat /\ past'[n + 1] = a /\ \A k \in 1 .. n : past'[k] = past[k]
        BY <1>1
      <4> HIDE DEF n, c
      <4>2. QED
        BY <4>1, UnfoldsMore
    <3> HIDE DEF c, e
    <3>7. \E f : Unfolds(f, c, past', n + 1)
      BY <3>5, <3>6, Zenon
    <3>8. ASSUME NEW f, Unfolds(f, c, past', n + 1)
          PROVE  f[n + 1] = dev'.cells[i].value /\ f[n] = e.value
      <4>1. Cut(f, n)[n] = e.value
        BY <3>5, <3>6, <3>8, Zenon
      <4>2. n \in 0 .. n
        BY <1>1
      <4>3. f[n] = e.value
        BY <4>1, <4>2, Zenon DEF Cut
      <4>4. f[n + 1] = BitsAfter(c, f[n], a)
        BY <3>6, <3>8, Zenon
      <4>5. QED
        BY <3>4, <4>3, <4>4, Zenon
    <3>9. QED
      BY <3>3, <3>4, <3>7, <3>8, Zenon DEF c, e
  <2>9. RegsFollow'
    BY <1>1, <2>7, <2>8 DEF RegsFollow
  <2>10. RegisterContract'
    <3> DEFINE at == CellsAt(first, a.off)
               i  == FirstOf(at)
    <3>1. SUFFICES ASSUME a.op = "read"
                   PROVE  a.val = IF at = {} THEN {}
                                  ELSE BitsOver(first.cells[i], past')[n] \ first.cells[i].resv
      <4>1. (n + 1) - 1 = n
        BY <1>1
      <4>2. QED
        BY <1>1, <4>1 DEF RegisterContract
    <3>2. CellsAt(dev, a.off) = at
      <4>1. \A j \in DOMAIN first.cells : dev.cells[j].offset = first.cells[j].offset
        <5>1. \A j \in DOMAIN first.cells :
                dev.cells[j] = [first.cells[j] EXCEPT !.value = dev.cells[j].value]
          BY <1>3 DEF RegsFollow
        <5>2. QED
          BY <2>2, <5>1 DEF Cell
      <4>2. QED
        BY <2>3, <4>1 DEF CellsAt
    <3>3. CASE at = {}
      BY <2>5, <3>1, <3>2, <3>3 DEF ReadRegFile
    <3>4. CASE at # {}
      <4>1. at \in SUBSET Nat
        BY <2>1, LenProperties DEF CellsAt, RegFile
      <4>2. i \in at
        BY <3>4, <4>1, LeastOf
      <4>3. i \in DOMAIN first.cells
        BY <4>2 DEF CellsAt
      <4>4. a.val = dev.cells[i].value \ dev.cells[i].resv
        BY <2>5, <3>1, <3>2, <3>4 DEF ReadRegFile, RegRead
      <4> HIDE DEF i
      <4>5. dev.cells[i].resv = first.cells[i].resv
        <5>1. dev.cells[i] = [first.cells[i] EXCEPT !.value = dev.cells[i].value]
          BY <1>3, <4>3 DEF RegsFollow
        <5>2. QED
          BY <2>2, <4>3, <5>1 DEF Cell
      <4>6. Unfolds(BitsOver(first.cells[i], past'), first.cells[i], past', n + 1)
        <5>1. Len(past') = n + 1
          BY <1>1
        <5> HIDE DEF n
        <5>2. \E f : Unfolds(f, first.cells[i], past', Len(past'))
          BY <2>8, <4>3, <5>1, Zenon
        <5>3. Unfolds(BitsOver(first.cells[i], past'), first.cells[i], past', Len(past'))
          BY <5>2, BitsOverUnfolds, Zenon
        <5>4. QED
          BY <5>1, <5>3, Zenon
      <4>7. BitsOver(first.cells[i], past')[n] = dev.cells[i].value
        BY <2>8, <4>3, <4>6, Zenon
      <4>8. QED
        BY <3>4, <4>4, <4>5, <4>7
    <3>5. QED
      BY <3>3, <3>4
  <2>11. QED
    BY <2>9, <2>10
<1>4. QED
  BY <1>2, <1>3

\* The inductive invariant: of every kind, the device is what the device at
\* power-on and the history make it.  No contract alone is inductive.
HistoryInv ==
  TypeInv /\ CountFollows /\ WatchFollows /\ TraceFollows /\ FlashFollows /\ RegsFollow

Contracts ==
  PollContract /\ WatchdogContract /\ ReplayContract /\ FlashContract /\ RegisterContract

\* A device as it powers on has an empty history, which the invariant describes.
LEMMA HistoryInit ==
  ASSUME DeviceAssumption, Init
  PROVE  HistoryInv /\ Contracts
<1>1. TypeInv /\ dev = first /\ first \in Behavior /\ past = <<>>
  BY TypeInit DEF Init, TypeInv
<1>2. Len(past) = 0 /\ DOMAIN past = {} /\ Len(past) + 1 = 1
  BY <1>1
<1>3. /\ Reads(past) = {} /\ Served(past) = {} /\ Modes(past) = {}
      /\ \A d : Streams(d, past) = {}
      /\ \A op, off : Accesses(past, op, off) = {}
  BY <1>2 DEF Reads, Served, Modes, Streams, Accesses
<1>4. Cardinality({}) = 0
  BY FS_EmptySet
<1>5. /\ LastBefore({}, 1) = 0
      /\ Between({}, 0, 0) = 0
      /\ 1 - 1 = 0
  <2>1. {j \in {} : j < 1} = {} /\ {j \in {} : 0 < j /\ j <= 0} = {}
    OBVIOUS
  <2>2. QED
    BY <1>4, <2>1 DEF LastBefore, Latest, Between
<1>6. CountFollows
  <2>1. ASSUME first.kind = "statusModel"
        PROVE  first = [first EXCEPT !.count = first.count + 0]
    BY <1>1, <2>1, KindOf DEF StatusModel
  <2>2. ASSUME first.kind = "external"
        PROVE  first = [first EXCEPT !.counter = (first.counter + 0 * first.incr) % Modulus]
    <3>1. first \in External
      BY <1>1, <2>2, KindOf
    <3>2. (first.counter + 0 * first.incr) % Modulus = first.counter
      <4>1. first.counter \in 0 .. Modulus - 1 /\ first.incr \in Int /\ Modulus \in Nat \ {0}
        BY <3>1 DEF External, Data, DeviceAssumption
      <4>2. first.counter + 0 * first.incr = first.counter
        BY <4>1
      <4>3. first.counter % Modulus = first.counter
        BY <4>1
      <4>4. QED
        BY <4>2, <4>3
    <3>3. QED
      BY <3>1, <3>2 DEF External
  <2>3. QED
    BY <1>1, <1>3, <1>4, <2>1, <2>2 DEF CountFollows
<1>7. WatchFollows
  <2>1. SUFFICES ASSUME first.kind = "watchdog"
                 PROVE  dev = [first EXCEPT !.count = Polls(first, past, 1)]
    BY <1>2 DEF WatchFollows
  <2>2. first \in Watchdog
    BY <1>1, <2>1, KindOf
  <2>3. Kick(first, past, 1) = 0
    BY <1>3, <1>5 DEF Kick
  <2>4. Polls(first, past, 1) = 0 + first.count
    BY <1>3, <1>5, <2>3 DEF Polls
  <2>5. QED
    BY <1>1, <2>2, <2>4 DEF Watchdog
<1>8. TraceFollows
  <2>1. ASSUME first.kind = "traceReplay"
        PROVE  first = [first EXCEPT !.pos = first.pos + 0]
    BY <1>1, <2>1, KindOf DEF TraceReplay
  <2>2. QED
    BY <1>1, <1>2, <1>3, <1>5, <2>1 DEF TraceFollows
<1>9. FlashFollows
  <2>1. SUFFICES ASSUME first.kind = "flash"
                 PROVE  dev = [first EXCEPT !.cmd  = CmdAt(first, past, 1),
                                            !.xip  = XipAt(first, past, 1),
                                            !.addr = AddrAt(first, past, 1)]
    BY <1>2 DEF FlashFollows
  <2>2. first \in Flash
    BY <1>1, <2>1, KindOf
  <2>3. CmdAt(first, past, 1) = first.cmd /\ XipAt(first, past, 1) = first.xip
    BY <1>3, <1>5 DEF CmdAt, XipAt
  <2>4. AddrAt(first, past, 1) = 0 + first.addr
    BY <1>3, <1>5 DEF AddrAt
  <2>5. AddrAt(first, past, 1) = first.addr
    BY <2>2, <2>4 DEF Flash
  <2>6. QED
    BY <1>1, <2>2, <2>3, <2>5 DEF Flash
<1>10. RegsFollow
  <2>1. ASSUME first.kind = "regfile", NEW i \in DOMAIN first.cells
        PROVE  /\ first.cells[i] = [first.cells[i] EXCEPT !.value = first.cells[i].value]
               /\ \E f : Unfolds(f, first.cells[i], past, 0)
               /\ \A f : Unfolds(f, first.cells[i], past, 0) => f[0] = first.cells[i].value
    <3> DEFINE c == first.cells[i]
    <3>1. first \in RegFile
      BY <1>1, <2>1, KindOf
    <3>2. c \in Cell
      BY <2>1, <3>1, LenProperties, ElementOfSeq DEF RegFile
    <3>3. c = [c EXCEPT !.value = c.value]
      BY <3>2 DEF Cell
    <3> HIDE DEF c
    <3>4. \A k \in 0 .. 0 : k = 0
      OBVIOUS
    <3>5. Unfolds([k \in 0 .. 0 |-> c.value], c, past, 0)
      BY <3>4 DEF Unfolds
    <3>6. \A f : Unfolds(f, c, past, 0) => f[0] = c.value
      BY DEF Unfolds
    <3>7. QED
      BY <3>3, <3>5, <3>6 DEF c
  <2>2. QED
    BY <1>1, <1>2, <2>1 DEF RegsFollow
<1>11. Contracts
  BY <1>1 DEF Contracts, PollContract, WatchdogContract, ReplayContract, FlashContract,
              RegisterContract, Answered
<1>12. QED
  BY <1>1, <1>6, <1>7, <1>8, <1>9, <1>10, <1>11 DEF HistoryInv

\* The device is what its history makes it, and answers by the contracts.
LEMMA HistoryHolds == Spec => [](HistoryInv /\ Contracts)
<1>1. Init => HistoryInv /\ Contracts
  BY HistoryInit, DeviceAssumption
<1>2. HistoryInv /\ Contracts /\ [Next]_vars => (HistoryInv /\ Contracts)'
  <2>1. SUFFICES ASSUME HistoryInv, Contracts, [Next]_vars
                 PROVE  HistoryInv' /\ Contracts'
    OBVIOUS
  <2>2. CASE Next
    <3>1. TypeInv'
      BY <2>1, <2>2, TypeStep, DeviceAssumption DEF HistoryInv
    <3>2. PICK a \in Access : Accessed(a)
      BY <2>1, <2>2, StepIsAccess, DeviceAssumption DEF HistoryInv
    <3>3. /\ CountFollows' /\ PollContract'
          /\ WatchFollows' /\ WatchdogContract'
          /\ TraceFollows' /\ ReplayContract'
          /\ FlashFollows' /\ FlashContract'
          /\ RegsFollow' /\ RegisterContract'
      BY <2>1, <3>2, CountStep, WatchStep, TraceStep, FlashStep, RegsStep, DeviceAssumption
         DEF HistoryInv
    <3>4. QED
      BY <3>1, <3>3 DEF HistoryInv, Contracts
  <2>3. CASE UNCHANGED vars
    <3>1. dev' = dev /\ first' = first /\ past' = past
      BY <2>3 DEF vars
    <3>2. TypeInv'
      BY <2>1, <3>1 DEF HistoryInv, TypeInv, TypeOK, DevOK, Output, Input
    <3>3. CountFollows' /\ WatchFollows' /\ TraceFollows' /\ FlashFollows' /\ RegsFollow'
      BY <2>1, <3>1 DEF HistoryInv, CountFollows, WatchFollows, TraceFollows, FlashFollows,
                        RegsFollow
    <3>4. Last' = Last /\ \A kind : Answered(kind)' = Answered(kind)
      BY <3>1 DEF Last, Answered
    <3>5. Contracts'
      BY <2>1, <3>1, <3>4 DEF Contracts, PollContract, WatchdogContract, ReplayContract,
                              FlashContract, RegisterContract
    <3>6. QED
      BY <3>2, <3>3, <3>5 DEF HistoryInv
  <2>4. QED
    BY <2>1, <2>2, <2>3
<1>3. QED
  BY <1>1, <1>2, PTL DEF Spec

\* A polled status register becomes ready after exactly its number of reads
\* and stays so, and an external counter never skips or loses an increment.
THEOREM PollsAreCounted == Spec => []PollContract
<1>1. HistoryInv /\ Contracts => PollContract
  BY DEF Contracts
<1>2. QED
  BY <1>1, HistoryHolds, PTL

\* The watchdog expires exactly when more STATUS reads than its timeout have
\* passed since the last SERVICE that its policy accepts.
THEOREM WatchdogCountsSinceService == Spec => []WatchdogContract
<1>1. HistoryInv /\ Contracts => WatchdogContract
  BY DEF Contracts
<1>2. QED
  BY <1>1, HistoryHolds, PTL

\* A replayed trace is answered in order, without skipping, repeating or
\* inventing a response.
THEOREM ReplayIsInOrder == Spec => []ReplayContract
<1>1. HistoryInv /\ Contracts => ReplayContract
  BY DEF Contracts
<1>2. QED
  BY <1>1, HistoryHolds, PTL

\* The flash controller streams consecutive words from the last address set,
\* through every order of commands, mode changes and reads.
THEOREM FlashStreamsConsecutively == Spec => []FlashContract
<1>1. HistoryInv /\ Contracts => FlashContract
  BY DEF Contracts
<1>2. QED
  BY <1>1, HistoryHolds, PTL

\* A register file answers with what its per-bit policies leave of the whole
\* history, for every width, overlap of policies and number of registers.
THEOREM RegistersFollowHistory == Spec => []RegisterContract
<1>1. HistoryInv /\ Contracts => RegisterContract
  BY DEF Contracts
<1>2. QED
  BY <1>1, HistoryHolds, PTL
=============================================================================
