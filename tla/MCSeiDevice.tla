---------------------------- MODULE MCSeiDevice ----------------------------
(***************************************************************************)
(* Model-checking instance of SeiDevice: devices of every kind at          *)
(* power-on, words of two bits and data words modulo 4.  The register      *)
(* files have every combination of two access policies on one bit (also    *)
(* the overlapping ones), a clear-on-read bit, and two cells at the same   *)
(* offset; the replayed trace repeats an offset; every kind is met both as *)
(* a constructor leaves it and as a checkpoint may: counts begun, a trace  *)
(* partly replayed, the flash controller in a stream or in XIP mode.       *)
(* The UART has two bytes, up to three unread received ones (so that an    *)
(* overrun can follow an acknowledged overrun) and up to two sent ones.    *)
(***************************************************************************)
EXTENDS SeiDevice, SeiUart

MCCommand == {"READ_ID", "READ_STATUS", "READ", "ENTER_XIP", "EXIT_XIP", "other"}

MCCell(off, value, ro, w1c, cor, resv) ==
  [offset |-> off, value |-> value, ro |-> ro, w1c |-> w1c, cor |-> cor, resv |-> resv]

MCPowerOn ==
  {[kind |-> "statusModel", count |-> m, readyAfter |-> n, readyValue |-> 3] :
     m \in {0, 1}, n \in {0, 2, Never}}
  \cup
  {[kind |-> "regfile",
    cells |-> <<MCCell(0, v, p, q, {}, {}), MCCell(4, {0, 1}, {}, {0}, {1}, {})>>] :
     v \in SUBSET Bit, p, q \in SUBSET {0}}
  \cup
  {[kind |-> "regfile",
    cells |-> <<MCCell(0, {0, 1}, {}, {}, p, q), MCCell(0, {1}, {}, {}, {}, {})>>] :
     p, q \in SUBSET {0}}
  \cup
  {[kind |-> "traceReplay", pos |-> p,
    script |-> <<[offset |-> 0, value |-> 1], [offset |-> 0, value |-> 2],
                 [offset |-> 4, value |-> 1]>>] : p \in {0, 1}}
  \cup
  {[kind |-> "external", counter |-> 1, incr |-> i] : i \in {0, 1, 3}}
  \cup
  {[kind |-> "flash", backing |-> <<3, 2, 1>>, cmd |-> c, addr |-> IF c = "READ" THEN 1 ELSE 0,
    xip |-> x] : c \in {"other", "READ"}, x \in BOOLEAN}
  \cup
  {[kind |-> "watchdog", count |-> m, timeout |-> n, policy |-> p] :
     m \in {0, 1}, n \in {0, 2}, p \in {"disabled", "reset", "serviced"}}

MCMaxPast == [statusModel |-> 5, regfile |-> 4, traceReplay |-> 6,
              external |-> 5, flash |-> 5, watchdog |-> 6]

\* A UART beside one other device. They share nothing, so that only one of them
\* needs to be away from power-on at a time, and one kind will do beside the UART.
BoardInit == Init /\ UartInit
BoardNext == \/ Next /\ UartInit /\ UNCHANGED uartVars
             \/ UartNext /\ past = <<>> /\ dev.kind = "external" /\ UNCHANGED vars
BoardSpec == BoardInit /\ [][BoardNext]_<<vars, uartVars>>
=============================================================================
