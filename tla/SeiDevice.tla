----------------------------- MODULE SeiDevice -----------------------------
(***************************************************************************)
(* The register behaviours of Sei/Core.lean other than the UART (SeiUart)  *)
(* and the DDR controller (SeiBus): status model, register file, trace     *)
(* replay, external counter, flash controller and watchdog, as functions   *)
(* from a device and an access to an answer and the device afterwards.     *)
(* One device, of any kind, is driven by every sequence of accesses; what  *)
(* it answered is kept in past, and the contracts below say what the       *)
(* answers must be in terms of the accesses that came before, without      *)
(* looking at the device's state.                                          *)
(***************************************************************************)
EXTENDS Integers, Sequences, FiniteSets

CONSTANTS
  Bit,       \* bits of a register word; a register value is a set of bits
  Modulus,   \* a data word is a number below Modulus (2^32 in the code)
  Frontier,  \* traceFrontier, the answer outside a device's knowledge
  FlashId,   \* what READ_ID answers (0xC2)
  Never,     \* readyAfter = none: the status register never becomes ready
  Offset,    \* register offsets: 0x0, 0x4, 0x8 and one that no device has
  Command,   \* flash commands the firmware may write
  PowerOn,   \* devices as a constructor or a checkpoint delivers them
  MaxPast    \* bound, by kind: the firmware makes at most this many accesses

VARIABLES
  dev,   \* Device.beh
  first, \* the device at power-on
  past   \* the accesses so far, oldest first, with their answers

vars == <<dev, first, past>>

Data == 0 .. Modulus - 1

Cell == [offset : Offset, value : SUBSET Bit,
         ro : SUBSET Bit, w1c : SUBSET Bit, cor : SUBSET Bit, resv : SUBSET Bit]

StatusModel == [kind : {"statusModel"}, count : Nat,
                readyAfter : Nat \cup {Never}, readyValue : Data]
RegFile     == [kind : {"regfile"}, cells : Seq(Cell)]
TraceReplay == [kind : {"traceReplay"},
                script : Seq([offset : Offset, value : Data]), pos : Nat]
External    == [kind : {"external"}, counter : Data, incr : Data]
Flash       == [kind : {"flash"}, backing : Seq(Data), cmd : Command,
                addr : Nat, xip : BOOLEAN]
Watchdog    == [kind : {"watchdog"}, count : Nat, timeout : Nat,
                policy : {"disabled", "reset", "serviced"}]

Behavior == StatusModel \cup RegFile \cup TraceReplay \cup External
                        \cup Flash \cup Watchdog

\* The registers of the flash controller and of the watchdog.
CMD == 0  ADDR == 4  DATA == 8
STATUS == 0  SERVICE == 4

ASSUME DeviceAssumption ==
  /\ {CMD, ADDR, DATA} \subseteq Offset
  /\ {"READ_ID", "READ_STATUS", "READ", "ENTER_XIP", "EXIT_XIP"} \subseteq Command
  /\ Modulus \in Nat \ {0, 1} /\ Frontier \notin Data /\ Never \notin Nat
  /\ FlashId \in Data
  /\ PowerOn \subseteq Behavior
  /\ \A d \in PowerOn : MaxPast[d.kind] \in Nat

-----------------------------------------------------------------------------
(* Register cells.                                                         *)

\* Mutant: write-1-to-clear bits also take the written value.
RegWriteLoose(c, v) ==
  (v \ (c.ro \cup c.resv))
    \cup (c.value \cap (c.ro \cup c.resv))
    \cup ((c.value \cap c.w1c) \ v)

\* Writable bits take the written value, read-only and reserved bits are
\* kept, write-1-to-clear bits are cleared where the written bit is 1.
RegWrite(c, v) ==
  (v \ (c.ro \cup c.resv \cup c.w1c))
    \cup (c.value \cap (c.ro \cup c.resv))
    \cup ((c.value \cap c.w1c) \ v)

RegRead(c) == c.value \ c.resv

Updated(c, v)  == [c EXCEPT !.value = RegWrite(c, v)]
ClearedOnRead(c) == [c EXCEPT !.value = c.value \ c.cor]

CellsAt(d, off) == {i \in DOMAIN d.cells : d.cells[i].offset = off}
FirstOf(S) == CHOOSE i \in S : \A j \in S : i <= j

-----------------------------------------------------------------------------
(* Device.readReg: the answer, and the device afterwards.                  *)

FlashWord(d) == IF d.addr + 1 \in DOMAIN d.backing THEN d.backing[d.addr + 1] ELSE 0

\* Mutant: the read that makes the device ready does not count itself.
ReadStatusModelLate(d) ==
  [val |-> IF d.readyAfter # Never /\ d.count > d.readyAfter
           THEN d.readyValue ELSE 0,
   dev |-> [d EXCEPT !.count = @ + 1]]

ReadStatusModel(d) ==
  [val |-> IF d.readyAfter # Never /\ d.count + 1 > d.readyAfter
           THEN d.readyValue ELSE 0,
   dev |-> [d EXCEPT !.count = @ + 1]]

\* The first cell at the offset answers, every cell there is cleared.
ReadRegFile(d, off) ==
  [val |-> IF CellsAt(d, off) = {} THEN {}
           ELSE RegRead(d.cells[FirstOf(CellsAt(d, off))]),
   dev |-> [d EXCEPT !.cells =
              [i \in DOMAIN @ |-> IF i \in CellsAt(d, off)
                                  THEN ClearedOnRead(d.cells[i]) ELSE d.cells[i]]]]

\* Mutant: a read that does not match skips the scripted response.
ReadTraceReplaySkip(d, off) ==
  IF d.pos + 1 \in DOMAIN d.script /\ d.script[d.pos + 1].offset = off
  THEN [val |-> d.script[d.pos + 1].value, dev |-> [d EXCEPT !.pos = @ + 1]]
  ELSE [val |-> Frontier, dev |-> [d EXCEPT !.pos = @ + 1]]

ReadTraceReplay(d, off) ==
  IF d.pos + 1 \in DOMAIN d.script /\ d.script[d.pos + 1].offset = off
  THEN [val |-> d.script[d.pos + 1].value, dev |-> [d EXCEPT !.pos = @ + 1]]
  ELSE [val |-> Frontier, dev |-> d]

\* Mutant: the counter is not truncated to a word.
ReadExternalWide(d) ==
  [val |-> d.counter, dev |-> [d EXCEPT !.counter = @ + d.incr]]

ReadExternal(d) ==
  [val |-> d.counter, dev |-> [d EXCEPT !.counter = (@ + d.incr) % Modulus]]

ReadFlash(d, off) ==
  CASE off # DATA            -> [val |-> 0, dev |-> d]
    [] off = DATA /\ d.xip   -> [val |-> FlashWord(d), dev |-> d]
    [] off = DATA /\ ~d.xip  ->
         CASE d.cmd = "READ_ID"     -> [val |-> FlashId, dev |-> d]
           [] d.cmd = "READ_STATUS" -> [val |-> 1, dev |-> d]
           [] d.cmd = "READ"        -> [val |-> FlashWord(d),
                                        dev |-> [d EXCEPT !.addr = @ + 1]]
           [] OTHER                 -> [val |-> Frontier, dev |-> d]

ReadWatchdog(d, off) ==
  IF off = STATUS
  THEN [val |-> IF d.policy # "disabled" /\ d.count + 1 > d.timeout THEN 1 ELSE 0,
        dev |-> [d EXCEPT !.count = @ + 1]]
  ELSE [val |-> 0, dev |-> d]

ReadReg(d, off) ==
  CASE d.kind = "statusModel" -> ReadStatusModel(d)
    [] d.kind = "regfile"     -> ReadRegFile(d, off)
    [] d.kind = "traceReplay" -> ReadTraceReplay(d, off)
    [] d.kind = "external"    -> ReadExternal(d)
    [] d.kind = "flash"       -> ReadFlash(d, off)
    [] d.kind = "watchdog"    -> ReadWatchdog(d, off)

(* Device.writeReg: the device after a write; the kinds that are not named *)
(* ignore it.                                                              *)

WriteRegFile(d, off, v) ==
  [d EXCEPT !.cells = [i \in DOMAIN @ |-> IF i \in CellsAt(d, off)
                                          THEN Updated(d.cells[i], v)
                                          ELSE d.cells[i]]]

\* Mutant: entering or leaving XIP keeps the pending command.
WriteFlashModal(d, off, v) ==
  CASE off = CMD /\ v \in {"ENTER_XIP", "EXIT_XIP"} -> [d EXCEPT !.xip = v = "ENTER_XIP"]
    [] off = CMD /\ v \notin {"ENTER_XIP", "EXIT_XIP"} -> [d EXCEPT !.cmd = v]
    [] off = ADDR -> [d EXCEPT !.addr = v]
    [] OTHER      -> d

\* A mode command is also the command that DATA answers to afterwards.
WriteFlash(d, off, v) ==
  CASE off = CMD  -> [d EXCEPT !.cmd = v,
                               !.xip = v = "ENTER_XIP" \/ (@ /\ v # "EXIT_XIP")]
    [] off = ADDR -> [d EXCEPT !.addr = v]
    [] OTHER      -> d

\* Mutant: SERVICE restarts the count under every policy.
WriteWatchdogAlways(d, off) ==
  IF off = SERVICE THEN [d EXCEPT !.count = 0] ELSE d

WriteWatchdog(d, off) ==
  IF off = SERVICE /\ d.policy = "serviced" THEN [d EXCEPT !.count = 0] ELSE d

WriteReg(d, off, v) ==
  CASE d.kind = "regfile"  -> WriteRegFile(d, off, v)
    [] d.kind = "flash"    -> WriteFlash(d, off, v)
    [] d.kind = "watchdog" -> WriteWatchdog(d, off)
    [] OTHER               -> d

\* What the firmware may write: bit sets to a register file, commands or
\* addresses to the flash controller, anything to the others.
Input(d, off) == CASE d.kind = "regfile"             -> SUBSET Bit
                   [] d.kind = "flash" /\ off = CMD  -> Command
                   [] d.kind = "flash" /\ off = ADDR -> Data
                   [] OTHER                          -> {0}

-----------------------------------------------------------------------------
Read(off) ==
  /\ Len(past) < MaxPast[first.kind]
  /\ dev' = ReadReg(dev, off).dev
  /\ past' = Append(past, [op |-> "read", off |-> off, val |-> ReadReg(dev, off).val])
  /\ UNCHANGED first

Write(off) ==
  /\ Len(past) < MaxPast[first.kind]
  /\ \E v \in Input(dev, off) :
       /\ dev' = WriteReg(dev, off, v)
       /\ past' = Append(past, [op |-> "write", off |-> off, val |-> v])
  /\ UNCHANGED first

Init == /\ first \in PowerOn
        /\ dev = first
        /\ past = <<>>

Next == \E off \in Offset : Read(off) \/ Write(off)

Spec == Init /\ [][Next]_vars

-----------------------------------------------------------------------------
(* Properties.  They speak of a history h of accesses (that of the run is  *)
(* past) and of the device d that the history began with.                  *)

Output(d) == IF d.kind = "regfile" THEN SUBSET Bit ELSE Data \cup {Frontier}

\* The device keeps its kind and type, and answers with words of its type.
TypeOK ==
  /\ dev \in Behavior /\ dev.kind = first.kind
  /\ \A j \in DOMAIN past :
       /\ past[j].op \in {"read", "write"} /\ past[j].off \in Offset
       /\ past[j].val \in IF past[j].op = "read" THEN Output(first)
                          ELSE Input(first, past[j].off)

Reads(h)             == {j \in DOMAIN h : h[j].op = "read"}
Accesses(h, op, off) == {j \in DOMAIN h : h[j].op = op /\ h[j].off = off}

\* The last of the accesses S, 0 if there is none; of those of A before the k-th.
Latest(S)        == IF S = {} THEN 0 ELSE CHOOSE j \in S : \A i \in S : i <= j
LastBefore(A, k) == Latest({j \in A : j < k})

Between(A, j, k) == Cardinality({i \in A : j < i /\ i <= k})

\* The last access, when it is a read of a device of this kind.
Answered(kind) == first.kind = kind /\ past # <<>> /\ past[Len(past)].op = "read"
Last == Len(past)

\* A status model becomes ready after so many reads, at whichever offset, and
\* stays ready; an external counter has advanced once per read, modulo 2^w.
PollContract ==
  LET reads == Cardinality(Reads(past)) IN
  /\ Answered("statusModel") =>
       past[Last].val =
         IF first.readyAfter # Never /\ first.count + reads > first.readyAfter
         THEN first.readyValue ELSE 0
  /\ Answered("external") =>
       past[Last].val = (first.counter + (reads - 1) * first.incr) % Modulus

\* The STATUS reads that count before the k-th access: those since the last
\* SERVICE that the policy accepts, or all and those the device came with.
Kick(d, h, k) ==
  IF d.policy = "serviced" THEN LastBefore(Accesses(h, "write", SERVICE), k) ELSE 0
Polls(d, h, k) ==
  Between(Accesses(h, "read", STATUS), Kick(d, h, k), k - 1)
    + IF Kick(d, h, k) = 0 THEN d.count ELSE 0

\* The watchdog reports a timeout exactly when, with this read, more STATUS
\* reads than the timeout have passed since the last accepted SERVICE.
WatchdogContract ==
  Answered("watchdog") =>
    past[Last].val = IF /\ past[Last].off = STATUS /\ first.policy # "disabled"
                        /\ Polls(first, past, Last) + 1 > first.timeout
                     THEN 1 ELSE 0

\* The reads of a replayed trace that were given a captured response.
Served(h) == {j \in Reads(h) : h[j].val # Frontier}

\* A replayed trace answers with the next captured response or with the
\* frontier, never with anything else: the answers given so far are a stretch
\* of the captured trace, and one is given whenever its offset is asked for.
ReplayContract ==
  Answered("traceReplay") =>
    LET next  == first.pos + Between(Served(past), 0, Last - 1) + 1
        match == next \in DOMAIN first.script /\ first.script[next].offset = past[Last].off
    IN past[Last].val = IF match THEN first.script[next].value ELSE Frontier

\* What the flash controller holds when the k-th access comes: the command,
\* whether it is in XIP mode, and where the stream of words is.
CmdAt(d, h, k) ==
  LET cmd == LastBefore(Accesses(h, "write", CMD), k)
  IN IF cmd = 0 THEN d.cmd ELSE h[cmd].val
Modes(h) == {j \in Accesses(h, "write", CMD) : h[j].val \in {"ENTER_XIP", "EXIT_XIP"}}
XipAt(d, h, k) ==
  LET mode == LastBefore(Modes(h), k)
  IN IF mode = 0 THEN d.xip ELSE h[mode].val = "ENTER_XIP"
Streams(d, h) ==
  {j \in Accesses(h, "read", DATA) : CmdAt(d, h, j) = "READ" /\ ~XipAt(d, h, j)}
AddrAt(d, h, k) ==
  LET set == LastBefore(Accesses(h, "write", ADDR), k)
  IN Between(Streams(d, h), set, k - 1) + IF set = 0 THEN d.addr ELSE h[set].val

\* The flash controller streams consecutive words from the last address set,
\* whatever mode changes and other commands came in between; an excursion to
\* XIP does not move the stream, and a command it does not know fails closed.
FlashContract ==
  Answered("flash") =>
    LET cmd  == CmdAt(first, past, Last)
        xip  == XipAt(first, past, Last)
        cell == AddrAt(first, past, Last) + 1
        word == IF cell \in DOMAIN first.backing THEN first.backing[cell] ELSE 0
    IN past[Last].val =
         CASE past[Last].off # DATA                                   -> 0
           [] past[Last].off = DATA /\ (xip \/ cmd = "READ")           -> word
           [] past[Last].off = DATA /\ ~xip /\ cmd = "READ_ID"         -> FlashId
           [] past[Last].off = DATA /\ ~xip /\ cmd = "READ_STATUS"     -> 1
           [] OTHER                                                   -> Frontier

\* What one access does to one bit of a register cell, by the bit's policy.
BitAfter(c, b, on, access) ==
  CASE access.off # c.offset                     -> on
    [] access.off = c.offset /\ access.op = "read" -> on /\ b \notin c.cor
    [] access.off = c.offset /\ access.op = "write" ->
         IF b \in c.ro \cup c.resv THEN on
         ELSE IF b \in c.w1c THEN on /\ b \notin access.val
         ELSE b \in access.val

\* The bits of a cell after each number of the accesses of a history.
BitsOver(c, h) ==
  LET bits[k \in 0 .. Len(h)] ==
        IF k = 0 THEN c.value ELSE {b \in Bit : BitAfter(c, b, b \in bits[k - 1], h[k])}
  IN bits

\* A register file answers with the bits that its per-bit policies leave after
\* all the accesses so far: no access reaches a read-only or reserved bit, no
\* write sets a write-1-to-clear bit, a clear-on-read bit is seen once, and
\* no access to one register disturbs another, for every overlap of policies.
RegisterContract ==
  Answered("regfile") =>
    LET at == CellsAt(first, past[Last].off)
        c  == first.cells[FirstOf(at)]
    IN past[Last].val = IF at = {} THEN {} ELSE BitsOver(c, past)[Last - 1] \ c.resv
=============================================================================
