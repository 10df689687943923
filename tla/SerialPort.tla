----------------------------- MODULE SerialPort -----------------------------
(***************************************************************************)
(* What a UART promises the firmware, without registers or flag bits: the  *)
(* bytes that arrive are handed over once each and in order, none is lost, *)
(* a byte that finds another one waiting is recorded as an overrun until   *)
(* the firmware acknowledges it, the bytes sent go out in order, and the   *)
(* interrupt line is asserted exactly while a byte waits and receive       *)
(* interrupts are enabled.                                                 *)
(***************************************************************************)
EXTENDS Sequences

CONSTANTS Byte, NoByte

VARIABLES
  inbox,    \* bytes that arrived and were not taken, oldest first
  sent,     \* bytes sent, oldest first
  overrun,  \* an unacknowledged overrun
  armed,    \* receive interrupts are enabled
  irq,      \* level of the interrupt line
  answer    \* answer to the last question of the firmware

vars == <<inbox, sent, overrun, armed, irq, answer>>

IrqFollows == irq' = (armed' /\ inbox' # <<>>)

Arrive == /\ \E b \in Byte : inbox' = Append(inbox, b)
          /\ overrun' = (overrun \/ inbox # <<>>)
          /\ IrqFollows
          /\ UNCHANGED <<sent, armed, answer>>

Take == /\ \/ inbox = <<>> /\ inbox' = inbox /\ answer' = NoByte
           \/ inbox # <<>> /\ inbox' = Tail(inbox) /\ answer' = Head(inbox)
        /\ IrqFollows
        /\ UNCHANGED <<sent, overrun, armed>>

\* The status names a waiting byte and an overrun exactly when there is one.
Status == /\ answer' = [waiting |-> inbox # <<>>, overrun |-> overrun]
          /\ UNCHANGED <<inbox, sent, overrun, armed, irq>>

Put == /\ \E b \in Byte : sent' = Append(sent, b)
       /\ UNCHANGED <<inbox, overrun, armed, irq, answer>>

Acknowledge == /\ ~overrun'
               /\ UNCHANGED <<inbox, sent, armed, irq, answer>>

Arm == /\ armed' \in BOOLEAN
       /\ IrqFollows
       /\ UNCHANGED <<inbox, sent, overrun, answer>>

\* Questions about the configuration, and accesses that mean nothing here.
Other == UNCHANGED <<inbox, sent, overrun, armed, irq>>

Init == /\ inbox = <<>> /\ sent = <<>>
        /\ ~overrun /\ ~armed /\ ~irq
        /\ answer = NoByte

Next == Arrive \/ Take \/ Status \/ Put \/ Acknowledge \/ Arm \/ Other

Spec == Init /\ [][Next]_vars
=============================================================================
