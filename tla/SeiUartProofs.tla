--------------------------- MODULE SeiUartProofs ---------------------------
(***************************************************************************)
(* Proofs about SeiUart for every set of bytes and every length of the     *)
(* queues: the flags follow the queue, and the registers implement the     *)
(* serial port.                                                            *)
(***************************************************************************)
EXTENDS SeiUart, SequenceTheorems, TLAPS

Inv == UartTypeOK /\ FlagsFollowQueue

LEMMA TailType ==
  ASSUME NEW q \in Seq(Byte), q # <<>>
  PROVE  Tail(q) \in Seq(Byte) /\ Head(q) \in Byte
BY HeadTailProperties

\* Register values and data bytes are the words a read may return.
LEMMA BitsAreWords ==
  ASSUME NEW bs \in SUBSET (SrBits \cup CrBits)
  PROVE  BitsWord(bs) \in Word
BY DEF BitsWord, Word

LEMMA BytesAreWords ==
  ASSUME NEW b \in Byte \cup {NoByte}
  PROVE  ByteWord(b) \in Word
BY DEF ByteWord, Word

\* The machine starts with an empty queue and its flags clear.
LEMMA InvInit == UartInit => Inv
<1> SUFFICES ASSUME UartInit PROVE Inv
  OBVIOUS
<1>1. rx \in Seq(Byte) /\ tx \in Seq(Byte)
  BY EmptySeq DEF UartInit
<1>2. resp \in Word
  BY BytesAreWords DEF UartInit
<1>3. FlagsFollowQueue
  BY DEF UartInit, FlagsFollowQueue
<1>4. QED
  BY <1>1, <1>2, <1>3 DEF UartInit, Inv, UartTypeOK, SrBits, CrBits

\* Every read, write and delivery keeps the flags and the queue in agreement.
LEMMA InvStep ==
  ASSUME Inv, [UartNext]_uartVars
  PROVE  Inv'
<1> USE DEF Inv, UartTypeOK, FlagsFollowQueue, SrBits, CrBits
<1>1. CASE ReadDR
  <2> DEFINE q == IF rx = <<>> THEN <<>> ELSE Tail(rx)
             s == SetRxne(sr, q)
  <2>1. q \in Seq(Byte)
    BY TailType, EmptySeq
  <2>2. /\ s \in SUBSET SrBits /\ "TXE" \in s
        /\ "RXNE" \in s <=> q # <<>>
    BY DEF SetRxne
  <2>3. rx' = q /\ sr' = s /\ tx' = tx /\ cr' = cr
        /\ irq' = UartIrq(s, cr)
    BY <1>1, Zenon DEF ReadDR
  <2>4. resp' \in Word
    <3>1. (IF rx = <<>> THEN NoByte ELSE Head(rx)) \in Byte \cup {NoByte}
      BY TailType
    <3>2. QED
      BY <1>1, <3>1, BytesAreWords DEF ReadDR
  <2> HIDE DEF s, q
  <2>5. irq' \in BOOLEAN /\ irq' = ("RXNE" \in s /\ "RXIE" \in cr)
    BY <2>3 DEF UartIrq
  <2>6. QED
    BY <2>1, <2>2, <2>3, <2>4, <2>5
<1>2. CASE ReadSR \/ ReadCR \/ ReadNone
  <2>1. {sr, cr, {}} \subseteq SUBSET (SrBits \cup CrBits)
    OBVIOUS
  <2>2. resp' \in Word
    BY <1>2, <2>1, BitsAreWords DEF ReadSR, ReadCR, ReadNone
  <2>3. QED
    BY <1>2, <2>2 DEF ReadSR, ReadCR, ReadNone
<1>3. ASSUME NEW b \in Byte, WriteDR(b)
      PROVE  Inv'
  <2>1. tx' \in Seq(Byte)
    BY <1>3, AppendProperties DEF WriteDR
  <2>2. QED
    BY <1>3, <2>1 DEF WriteDR
<1>4. ASSUME NEW bs \in SUBSET (SrBits \cup Reserved), WriteSR(bs)
      PROVE  Inv'
  <2>1. /\ sr' \in SUBSET SrBits /\ "TXE" \in sr'
        /\ "RXNE" \in sr' <=> "RXNE" \in sr
    BY <1>4 DEF WriteSR
  <2>2. QED
    BY <1>4, <2>1 DEF WriteSR
<1>5. ASSUME NEW bs \in SUBSET (CrBits \cup Reserved), WriteCR(bs)
      PROVE  Inv'
  <2>1. cr' = bs \cap CrBits /\ cr' \in SUBSET CrBits
    BY <1>5 DEF WriteCR
  <2>2. irq' \in BOOLEAN /\ irq' = ("RXNE" \in sr /\ "RXIE" \in cr')
    BY <1>5, <2>1 DEF WriteCR, UartIrq
  <2>3. QED
    BY <1>5, <2>1, <2>2 DEF WriteCR
<1>6. ASSUME NEW b \in Byte, UartRxPush(b)
      PROVE  Inv'
  <2> DEFINE s == (IF "RXNE" \in sr THEN sr \cup {"OVR"} ELSE sr) \cup {"RXNE"}
  <2>1. s \in SUBSET SrBits /\ "TXE" \in s /\ "RXNE" \in s
    OBVIOUS
  <2>2. /\ rx' = Append(rx, b) /\ sr' = s /\ irq' = UartIrq(s, cr)
        /\ tx' = tx /\ cr' = cr /\ resp' = resp
    BY <1>6, Zenon DEF UartRxPush
  <2>3. rx' \in Seq(Byte) /\ rx' # <<>>
    BY <2>2, AppendProperties
  <2> HIDE DEF s
  <2>4. irq' \in BOOLEAN /\ irq' = ("RXNE" \in s /\ "RXIE" \in cr)
    BY <2>2 DEF UartIrq
  <2>5. QED
    BY <2>1, <2>2, <2>3, <2>4
<1>7. CASE UNCHANGED uartVars
  BY <1>7 DEF uartVars
<1>8. QED
  BY <1>1, <1>2, <1>3, <1>4, <1>5, <1>6, <1>7
  DEF UartNext, UartRead, UartWrite, WriteNone

\* RXNE and the interrupt line follow the receive queue and the enable bit,
\* whatever the interleaving of firmware accesses and received bytes.
THEOREM FlagsAlwaysFollow == UartSpec => [](UartTypeOK /\ FlagsFollowQueue)
<1>1. UartInit => Inv
  BY InvInit
<1>2. Inv /\ [UartNext]_uartVars => Inv'
  BY InvStep
<1>3. QED
  BY <1>1, <1>2, PTL DEF UartSpec, Inv

\* Every register, queue and answer keeps its type under every access and every
\* delivery: TXE is never cleared and no reserved bit is ever set.
THEOREM TypeCorrect == UartSpec => []UartTypeOK
<1>1. Inv => UartTypeOK
  BY DEF Inv
<1>2. UartSpec => []Inv
  BY FlagsAlwaysFollow DEF Inv
<1>3. QED
  BY <1>1, <1>2, PTL

-----------------------------------------------------------------------------
(* The refinement.                                                         *)

\* Every step of the registers is a step of the serial port.
LEMMA PortStep ==
  ASSUME Inv, [UartNext]_uartVars
  PROVE  [Port!Next]_Port!vars
<1> USE DEF Inv, UartTypeOK, FlagsFollowQueue
<1>0. Inv'
  BY InvStep
<1>1. irq' = (("RXIE" \in cr') /\ rx' # <<>>)
  BY <1>0
<1>2. CASE ReadDR
  <2>1. "OVR" \in sr' <=> "OVR" \in sr
    BY <1>2 DEF ReadDR, SetRxne
  <2>2. Answer' = IF rx = <<>> THEN NoByte ELSE Head(rx)
    BY <1>2 DEF ReadDR, Answer, ByteWord
  <2>3. Port!Take
    BY <1>1, <1>2, <2>1, <2>2 DEF ReadDR, Port!Take, Port!IrqFollows
  <2>4. QED
    BY <2>3 DEF Port!Next
<1>3. CASE ReadSR
  <2>1. Answer' = [waiting |-> "RXNE" \in sr, overrun |-> "OVR" \in sr]
    BY <1>3 DEF ReadSR, Answer, BitsWord
  <2>2. ("RXNE" \in sr) = (rx # <<>>)
    <3>1. CASE rx = <<>>
      BY <3>1
    <3>2. CASE rx # <<>>
      BY <3>2
    <3>3. QED
      BY <3>1, <3>2
  <2>3. Port!Status
    BY <1>3, <2>1, <2>2 DEF ReadSR, Port!Status
  <2>4. QED
    BY <2>3 DEF Port!Next
<1>4. CASE ReadCR \/ ReadNone
  <2>1. Port!Other
    BY <1>4 DEF ReadCR, ReadNone, Port!Other
  <2>2. QED
    BY <2>1 DEF Port!Next
<1>5. ASSUME NEW b \in Byte, WriteDR(b)
      PROVE  Port!Next
  <2>1. Port!Put
    BY <1>5 DEF WriteDR, Port!Put, Answer
  <2>2. QED
    BY <2>1 DEF Port!Next
<1>6. ASSUME NEW bs \in SUBSET (SrBits \cup Reserved), WriteSR(bs)
      PROVE  [Port!Next]_Port!vars
  <2>1. CASE "OVR" \in bs
    <3>1. Port!Acknowledge
      BY <1>6, <2>1 DEF WriteSR, Port!Acknowledge, Answer
    <3>2. QED
      BY <3>1 DEF Port!Next
  <2>2. CASE "OVR" \notin bs
    BY <1>6, <2>2 DEF WriteSR, Port!vars, Answer
  <2>3. QED
    BY <2>1, <2>2
<1>7. ASSUME NEW bs \in SUBSET (CrBits \cup Reserved), WriteCR(bs)
      PROVE  Port!Next
  <2>1. Port!Arm
    BY <1>1, <1>7 DEF WriteCR, Port!Arm, Port!IrqFollows, Answer
  <2>2. QED
    BY <2>1 DEF Port!Next
<1>8. ASSUME NEW b \in Byte, UartRxPush(b)
      PROVE  Port!Next
  <2>1. ("OVR" \in sr') = ("OVR" \in sr \/ rx # <<>>)
    BY <1>8 DEF UartRxPush
  <2>2. Port!Arrive
    BY <1>1, <1>8, <2>1 DEF UartRxPush, Port!Arrive, Port!IrqFollows, Answer
  <2>3. QED
    BY <2>2 DEF Port!Next
<1>9. CASE UNCHANGED uartVars
  BY <1>9 DEF uartVars, Port!vars, Answer
<1>10. QED
  BY <1>2, <1>3, <1>4, <1>5, <1>6, <1>7, <1>8, <1>9
  DEF UartNext, UartRead, UartWrite, WriteNone

\* The registers, flags and queue implement the serial port: every byte that
\* arrives is handed over once and in order, overruns are recorded, and the
\* interrupt line is asserted exactly while it should be.
THEOREM UartIsSerialPort == UartSpec => ImplementsSerialPort
<1>1. UartInit => Port!Init
  BY DEF UartInit, Port!Init, Answer, ByteWord
<1>2. Inv /\ [UartNext]_uartVars => [Port!Next]_Port!vars
  BY PortStep
<1>3. UartSpec => []Inv
  BY FlagsAlwaysFollow DEF Inv
<1>4. QED
  BY <1>1, <1>2, <1>3, PTL DEF UartSpec, ImplementsSerialPort, Port!Spec
=============================================================================
