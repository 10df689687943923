----------------------------- MODULE ToyMachine -----------------------------
(***************************************************************************)
(* What the two interpreters of the toy ISA share (Sei/Isa/Toy.lean,       *)
(* Sei/IR.lean over Sei/Core.lean): word arithmetic, the fields of an      *)
(* instruction, and a machine as they use it - regions without aliases or  *)
(* gates (SeiBus has those), one status-model device, and a trace of       *)
(* typed events.  A word is four bytes.  Widths are constants: 256 for     *)
(* ByteMod, 2^16 for ImmMod and 16 for RegCount give the code's.           *)
(***************************************************************************)
EXTENDS Integers, Sequences

CONSTANTS
  ByteMod,         \* values of a byte
  Modulus,         \* values of a word: ByteMod^4
  ImmMod,          \* values of an immediate
  RegCount,        \* registers
  Regions,         \* [base, size, perms], little-endian, none overlapping
  DeviceBase,      \* the status model's window of four bytes
  ReadyAfter,      \* reads it answers with zero
  ReadyValue,      \* what it answers afterwards
  UnknownDefault,  \* Machine.unknownDefault
  Programs,        \* programs in words, loaded at address 0
  Policies,        \* [onRead, onWrite]: "default" or "fault"
  MaxFuel          \* the fuel of a run

Byte   == 0 .. ByteMod - 1
Word   == 0 .. Modulus - 1
RegIdx == 0 .. RegCount - 1
Window(r) == r.base .. r.base + r.size - 1
Mapped == UNION { Window(r) : r \in Regions }
Device == DeviceBase .. DeviceBase + 3

ASSUME ToyAssumption ==
  /\ {ByteMod, ImmMod, RegCount} \subseteq Nat \ {0} /\ ByteMod > 1
  /\ Modulus = ByteMod * ByteMod * ByteMod * ByteMod
  /\ ImmMod <= Modulus
  /\ \A r \in Regions : r.base \in Nat /\ r.size \in Nat /\ r.perms \subseteq {"r", "w", "x"}
  /\ \A r, s \in Regions : r # s => Window(r) \cap Window(s) = {}
  /\ DeviceBase \in Nat /\ ReadyAfter \in Nat
  /\ ReadyValue \in Word /\ UnknownDefault \in Word
  /\ Programs \subseteq Seq(Word)
  /\ Policies \subseteq [onRead : {"default", "fault"}, onWrite : {"default", "fault"}]
  /\ MaxFuel \in Nat

-----------------------------------------------------------------------------
(* Words.                                                                  *)

Plus(a, b)      == (a + b) % Modulus
\* Mutant: a subtraction that does not wrap.
MinusOpen(a, b) == a - b
Minus(a, b)     == (a - b) % Modulus
SignExtend(imm) == (IF 2 * imm < ImmMod THEN imm ELSE imm - ImmMod) % Modulus
BranchTo(pc, imm) == Plus(pc, (SignExtend(imm) * 4) % Modulus)

Decode(w) ==
  [op  |-> w \div (ImmMod * RegCount * RegCount),
   rd  |-> (w \div (ImmMod * RegCount)) % RegCount,
   rs  |-> (w \div ImmMod) % RegCount,
   imm |-> w % ImmMod,
   rt  |-> (w % ImmMod) % RegCount]

\* Byte k of a word, and the n-byte value at address a.
ByteOf(w, k) == CASE k = 0 -> w % ByteMod
                  [] k = 1 -> (w \div ByteMod) % ByteMod
                  [] k = 2 -> (w \div (ByteMod * ByteMod)) % ByteMod
                  [] k = 3 -> (w \div (ByteMod * ByteMod * ByteMod)) % ByteMod

ValueAt(mem, a, n) ==
  IF n = 1 THEN mem[a] % Modulus
  ELSE (mem[a] + ByteMod * (mem[a + 1] + ByteMod * (mem[a + 2] + ByteMod * mem[a + 3]))) % Modulus

-----------------------------------------------------------------------------
(* The machine.  An event is its kind, an address or register, a width in  *)
(* bytes and a value, zero where the code's event has no such field.       *)

Event(kind, at, n, val) == [kind |-> kind, at |-> at, n |-> n, val |-> val]
Kinds == {"fetch", "exec", "reg", "memRead", "memWrite", "mmioRead", "mmioWrite",
          "unknownRead", "unknownWrite", "cross", "fetch_fault", "data_abort",
          "ill_typed", "unsupported"}

Emit(m, e)  == [m EXCEPT !.trace = Append(@, e)]
Note(m, kind) == Emit(m, Event(kind, 0, 0, 0))
Retired(m)  == [m EXCEPT !.icount = @ + 1]

\* A program in ROM at address 0, memory zero elsewhere.
Loaded(p, policy) ==
  [mem |-> [a \in Mapped |-> IF a < 4 * Len(p) THEN ByteOf(p[a \div 4 + 1], a % 4) ELSE 0],
   reads |-> 0, trace |-> <<>>, icount |-> 0, policy |-> policy]

Boot == { Loaded(p, policy) : p \in Programs, policy \in Policies }

RegionOf(a) == CHOOSE r \in Regions : a \in Window(r)
Verdict(a, n, need) ==
  IF a \notin Mapped THEN "unmapped"
  ELSE IF need \notin RegionOf(a).perms THEN "perm"
  ELSE IF a + n > RegionOf(a).base + RegionOf(a).size THEN "cross"
  ELSE "ok"
PastWindow(a, n) == a + n > DeviceBase + 4

Ok(v, m)  == [ok |-> TRUE, val |-> v, mach |-> m]
Fault(m)  == [ok |-> FALSE, val |-> 0, mach |-> m]

StatusValue(reads) == IF reads > ReadyAfter THEN ReadyValue ELSE 0
Default(n) == IF n = 1 THEN UnknownDefault % ByteMod ELSE UnknownDefault

\* busRead; need is "x" for a fetch and "r" for a load.
Load(m, a, n, need) ==
  CASE a \in Device /\ PastWindow(a, n) -> Fault(Note(m, "cross"))
    [] a \in Device /\ ~PastWindow(a, n) ->
         LET v == StatusValue(m.reads + 1)
         IN Ok(v, Emit([m EXCEPT !.reads = @ + 1], Event("mmioRead", a, n, v)))
    [] a \notin Device /\ Verdict(a, n, need) = "ok" ->
         LET v == ValueAt(m.mem, a, n)
         IN Ok(v, Emit(m, IF need = "x" THEN Event("fetch", a, 0, v)
                                        ELSE Event("memRead", a, n, v)))
    [] a \notin Device /\ Verdict(a, n, need) \in {"perm", "cross"} -> Fault(m)
    [] a \notin Device /\ Verdict(a, n, need) = "unmapped" ->
         LET seen == Emit(m, Event("unknownRead", a, n, Default(n)))
         IN IF m.policy.onRead = "default" THEN Ok(Default(n), seen) ELSE Fault(seen)

\* Memory after the low n bytes of v went to a and the addresses after it.
Stored(mem, a, n, v) ==
  [c \in DOMAIN mem |-> IF c \in a .. a + n - 1 THEN ByteOf(v, c - a) ELSE mem[c]]

\* busWrite; the device ignores what is written.
Store(m, a, n, v) ==
  CASE a \in Device /\ PastWindow(a, n) -> Fault(Note(m, "cross"))
    [] a \in Device /\ ~PastWindow(a, n) -> Ok(0, Emit(m, Event("mmioWrite", a, n, v)))
    [] a \notin Device /\ Verdict(a, n, "w") = "ok" ->
         Ok(0, Emit([m EXCEPT !.mem = Stored(@, a, n, v)], Event("memWrite", a, n, v)))
    [] a \notin Device /\ Verdict(a, n, "w") \in {"perm", "cross"} -> Fault(m)
    [] a \notin Device /\ Verdict(a, n, "w") = "unmapped" ->
         LET seen == Emit(m, Event("unknownWrite", a, n, v))
         IN IF m.policy.onWrite = "default" THEN Ok(0, seen) ELSE Fault(seen)
=============================================================================
