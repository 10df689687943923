------------------------------ MODULE SeiUart ------------------------------
(***************************************************************************)
(* The UART behaviour of Sei/Core.lean (DevBehavior.uart): the data,       *)
(* status and control registers the firmware reads and writes over the     *)
(* bus, and the host's delivery of received bytes (uartRxPush), in every   *)
(* interleaving.  A register is the set of its bits that are 1.            *)
(***************************************************************************)
EXTENDS Naturals, Sequences

CONSTANTS
  Byte,     \* bytes on the wire
  NoByte,   \* what DR reads when nothing has arrived (0 in the code)
  MaxRx,    \* bound: the host delivers no byte beyond this many unread ones
  MaxTx     \* bound: the firmware sends no more bytes than this

VARIABLES
  rx,    \* received bytes the firmware has not read, oldest first
  tx,    \* bytes the firmware sent, oldest first
  sr,    \* status register
  cr,    \* control register
  irq,   \* Device.irq
  resp   \* the last word a read returned

uartVars == <<rx, tx, sr, cr, irq, resp>>

ASSUME UartAssumption == MaxRx \in Nat /\ MaxTx \in Nat

SrBits == {"TXE", "RXNE", "OVR"}
CrBits == {"RXIE", "TXIE"}
\* Bits of a register that the UART does not implement.
Reserved == {"reserved"}
UartOffset == {"DR", "SR", "CR", "none"}

Word == [byte : Byte \cup {NoByte}] \cup [bits : SUBSET (SrBits \cup CrBits)]
ByteWord(b)  == [byte |-> b]
BitsWord(bs) == [bits |-> bs]

-----------------------------------------------------------------------------
UartIrq(s, c) == "RXNE" \in s /\ "RXIE" \in c

\* Mutant: a read of DR clears RXNE although more bytes wait.
ClearRxne(s, q) == s \ {"RXNE"}

\* RXNE after a read of DR left the bytes q.
SetRxne(s, q) == IF q = <<>> THEN s \ {"RXNE"} ELSE s \cup {"RXNE"}

\* Reading DR takes the oldest byte; with none it reads as NoByte.
ReadDR ==
  LET q == IF rx = <<>> THEN <<>> ELSE Tail(rx)
      s == SetRxne(sr, q)
  IN /\ resp' = ByteWord(IF rx = <<>> THEN NoByte ELSE Head(rx))
     /\ rx' = q
     /\ sr' = s
     /\ irq' = UartIrq(s, cr)
     /\ UNCHANGED <<tx, cr>>

ReadSR == /\ resp' = BitsWord(sr)
          /\ UNCHANGED <<rx, tx, sr, cr, irq>>

ReadCR == /\ resp' = BitsWord(cr)
          /\ UNCHANGED <<rx, tx, sr, cr, irq>>

\* Every other offset reads as 0.
ReadNone == /\ resp' = BitsWord({})
            /\ UNCHANGED <<rx, tx, sr, cr, irq>>

UartRead(off) == \/ off = "DR" /\ ReadDR
                 \/ off = "SR" /\ ReadSR
                 \/ off = "CR" /\ ReadCR
                 \/ off = "none" /\ ReadNone

WriteDR(b) == /\ Len(tx) < MaxTx
              /\ tx' = Append(tx, b)
              /\ UNCHANGED <<rx, sr, cr, irq, resp>>

\* Only OVR is writable, by a 1; the line is left as it is.
WriteSR(bs) == /\ sr' = IF "OVR" \in bs THEN sr \ {"OVR"} ELSE sr
               /\ UNCHANGED <<rx, tx, cr, irq, resp>>

\* Mutant: reserved control bits are kept.
WriteCRWide(bs) == /\ cr' = bs
                   /\ irq' = UartIrq(sr, bs)
                   /\ UNCHANGED <<rx, tx, sr, resp>>

WriteCR(bs) == /\ cr' = bs \cap CrBits
               /\ irq' = UartIrq(sr, bs \cap CrBits)
               /\ UNCHANGED <<rx, tx, sr, resp>>

WriteNone == UNCHANGED uartVars

UartWrite(off) == \/ off = "DR" /\ \E b \in Byte : WriteDR(b)
                  \/ off = "SR" /\ \E bs \in SUBSET (SrBits \cup Reserved) : WriteSR(bs)
                  \/ off = "CR" /\ \E bs \in SUBSET (CrBits \cup Reserved) : WriteCR(bs)
                  \/ off = "none" /\ WriteNone

\* Mutant: a byte that overruns an unread one is dropped.
UartRxPushDropping(b) ==
  LET s == (IF "RXNE" \in sr THEN sr \cup {"OVR"} ELSE sr) \cup {"RXNE"} IN
  /\ Len(rx) < MaxRx
  /\ rx' = IF "RXNE" \in sr THEN rx ELSE Append(rx, b)
  /\ sr' = s
  /\ irq' = UartIrq(s, cr)
  /\ UNCHANGED <<tx, cr, resp>>

\* A byte arrives on the wire: an overrun if one is still unread.
UartRxPush(b) ==
  LET s == (IF "RXNE" \in sr THEN sr \cup {"OVR"} ELSE sr) \cup {"RXNE"} IN
  /\ Len(rx) < MaxRx
  /\ rx' = Append(rx, b)
  /\ sr' = s
  /\ irq' = UartIrq(s, cr)
  /\ UNCHANGED <<tx, cr, resp>>

-----------------------------------------------------------------------------
UartInit == /\ rx = <<>> /\ tx = <<>>
            /\ sr = {"TXE"} /\ cr = {}
            /\ irq = FALSE
            /\ resp = ByteWord(NoByte)

UartNext == \/ \E off \in UartOffset : UartRead(off) \/ UartWrite(off)
            \/ \E b \in Byte : UartRxPush(b)

UartSpec == UartInit /\ [][UartNext]_uartVars

-----------------------------------------------------------------------------
(* Properties.                                                             *)

\* Every variable keeps its type, TXE stays set and reserved bits stay 0.
UartTypeOK == /\ rx \in Seq(Byte) /\ tx \in Seq(Byte)
              /\ sr \in SUBSET SrBits /\ "TXE" \in sr
              /\ cr \in SUBSET CrBits
              /\ irq \in BOOLEAN
              /\ resp \in Word

\* RXNE and the interrupt line, which are stored and updated by five different
\* operations, agree with the receive queue and the enable bit at all times.
FlagsFollowQueue == /\ "RXNE" \in sr <=> rx # <<>>
                    /\ irq = ("RXNE" \in sr /\ "RXIE" \in cr)

\* The registers implement the serial port: a status word answers what it is
\* asked, a data word is the byte itself.
Answer == IF "byte" \in DOMAIN resp THEN resp.byte
          ELSE [waiting |-> "RXNE" \in resp.bits, overrun |-> "OVR" \in resp.bits]

Port == INSTANCE SerialPort WITH
  inbox <- rx, sent <- tx, overrun <- "OVR" \in sr, armed <- "RXIE" \in cr,
  answer <- Answer

ImplementsSerialPort == Port!Spec
=============================================================================
