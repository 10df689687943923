--------------------------- MODULE SeiToyProofs ----------------------------
(***************************************************************************)
(* Proofs about the toy interpreters. The one over lowered blocks          *)
(* (SeiToyIR) does what the direct one (SeiToy) does but for the event of  *)
(* an undefined opcode, and pc and icount once a run has been aborted, for *)
(* every width, memory map, policy, program and fuel. The independent one  *)
(* (SeiToyAlt) prints what the one over lowered blocks does, for every     *)
(* width, program and fuel, and every machine whose code is flat: the two  *)
(* differ in how they add, subtract, jump and fetch, and not in what comes *)
(* of it.                                                                  *)
(***************************************************************************)
EXTENDS SeiToyAlt, SeiToyPair, TLAPS

EventType == [kind : Kinds, at : Nat, n : Nat, val : Nat]
Machine   == [mem : [Mapped -> Byte], reads : Nat, trace : Seq(EventType),
              icount : Int, policy : [onRead : {"default", "fault"},
                                      onWrite : {"default", "fault"}]]

\* A run that goes on has not ended; registers and machine keep their types,
\* and the program counter stays a word.
IInv ==
  /\ pc \in Word
  /\ regs \in [RegIdx -> Word]
  /\ mach \in Machine
  /\ halted \in BOOLEAN
  /\ ~halted <=> ended = "no"

-----------------------------------------------------------------------------
(* Arithmetic.                                                             *)

LEMMA Positive ==
  ASSUME ToyAssumption
  PROVE  /\ ByteMod \in Nat \ {0} /\ ImmMod \in Nat \ {0} /\ RegCount \in Nat \ {0}
         /\ Modulus \in Nat \ {0}
<1>1. ByteMod \in Nat \ {0} /\ ImmMod \in Nat \ {0} /\ RegCount \in Nat \ {0}
  BY DEF ToyAssumption
<1>2. ASSUME NEW a \in Nat \ {0}, NEW b \in Nat \ {0} PROVE a * b \in Nat \ {0}
  OBVIOUS
<1>3. ByteMod * ByteMod * ByteMod * ByteMod \in Nat \ {0}
  BY <1>1, <1>2
<1>4. QED
  BY <1>1, <1>3 DEF ToyAssumption

LEMMA Division ==
  ASSUME NEW m \in Nat \ {0}, NEW x \in Int
  PROVE  x = m * (x \div m) + (x % m) /\ x % m \in 0 .. m - 1 /\ x \div m \in Int
OBVIOUS

LEMMA Multiple ==
  ASSUME NEW m \in Nat \ {0}, NEW d \in Int, NEW r \in Int, -m < r, r < m, m * d = r
  PROVE  d = 0
<1>1. ASSUME NEW k \in Int, k >= 1 PROVE m * k >= m
  BY <1>1
<1>2. ASSUME NEW k \in Int, k <= -1 PROVE m * k <= -m
  BY <1>2
<1>3. CASE d >= 1
  BY <1>1, <1>3
<1>4. CASE d <= -1
  BY <1>2, <1>4
<1>5. QED
  BY <1>3, <1>4

\* A number below the modulus is its own remainder, and one modulus away too.
LEMMA OneRound ==
  ASSUME NEW m \in Nat \ {0}, NEW x \in 0 .. m - 1
  PROVE  x % m = x /\ (x + m) % m = x /\ (x - m) % m = x
<1>1. ASSUME NEW y \in Int, NEW e \in {0, 1, -1}, y = x + m * e PROVE y % m = x
  <2> DEFINE q == y \div m
             r == y % m
  <2>1. y = m * q + r /\ r \in 0 .. m - 1 /\ q \in Int
    BY Division
  <2> HIDE DEF q, r
  <2>2. m * (q - e) = m * q - m * e
    BY <2>1
  <2>3. q - e = 0
    BY <1>1, <2>1, <2>2, Multiple
  <2>4. r = x
    BY <1>1, <2>1, <2>3
  <2>5. QED
    BY <2>4 DEF r
<1>2. QED
  BY <1>1

LEMMA Remainder ==
  ASSUME ToyAssumption, NEW x \in Int
  PROVE  /\ x % Modulus \in Word
         /\ x % ByteMod \in Byte
         /\ x % ImmMod \in 0 .. ImmMod - 1
         /\ x % RegCount \in RegIdx
<1>1. \A m \in Nat \ {0} : x % m \in 0 .. m - 1
  BY Division
<1>2. QED
  BY <1>1, Positive DEF Word, Byte, RegIdx

LEMMA WordBounds ==
  ASSUME ToyAssumption, NEW v \in Word
  PROVE  v \in Nat /\ v < Modulus
<1>1. Modulus \in Nat \ {0}
  BY Positive
<1>2. QED
  BY <1>1 DEF Word

LEMMA WordsStay ==
  ASSUME ToyAssumption, NEW v \in Word
  PROVE  v % Modulus = v
<1>1. Modulus \in Nat \ {0}
  BY Positive
<1>2. QED
  BY <1>1, OneRound DEF Word

LEMMA ImmStays ==
  ASSUME ToyAssumption, NEW v \in 0 .. ImmMod - 1
  PROVE  v \in Word /\ v % ImmMod = v /\ v % Modulus = v
<1>1. Modulus \in Nat \ {0} /\ ImmMod \in Nat \ {0}
  BY Positive
<1>2. ImmMod <= Modulus
  BY DEF ToyAssumption
<1>3. v \in Word
  BY <1>1, <1>2 DEF Word
<1>4. QED
  BY <1>1, <1>3, OneRound, WordsStay

LEMMA Sums ==
  ASSUME ToyAssumption, NEW a \in Word, NEW b \in Word, NEW i \in 0 .. ImmMod - 1
  PROVE  /\ Plus(a, b) \in Word /\ Minus(a, b) \in Word
         /\ SignExtend(i) \in Word
         /\ BranchTo(a, i) \in Word
<1>1. Plus(a, b) \in Word /\ Minus(a, b) \in Word
  <2>1. a + b \in Int /\ a - b \in Int
    BY WordBounds
  <2>2. QED
    BY <2>1, Remainder DEF Plus, Minus
<1>2. SignExtend(i) \in Word
  <2>1. (IF 2 * i < ImmMod THEN i ELSE i - ImmMod) \in Int
    BY Positive
  <2>2. QED
    BY <2>1, Remainder DEF SignExtend
<1>3. SignExtend(i) * 4 \in Int
  BY <1>2, WordBounds
<1>4. a + ((SignExtend(i) * 4) % Modulus) \in Int
  BY <1>3, Remainder, WordBounds
<1>5. QED
  BY <1>1, <1>2, <1>4, Remainder DEF BranchTo, Plus

LEMMA RoomForFour ==
  ASSUME ToyAssumption
  PROVE  Modulus >= 4
<1>1. ByteMod \in Nat /\ ByteMod >= 2
  BY DEF ToyAssumption
<1>2. ASSUME NEW a \in Nat, NEW b \in Nat, a >= 2, b >= 2 PROVE a * b \in Nat /\ a * b >= 4
  BY <1>2
<1>3. ByteMod * ByteMod \in Nat /\ ByteMod * ByteMod >= 4
  BY <1>1, <1>2
<1>4. ByteMod * ByteMod * ByteMod \in Nat /\ ByteMod * ByteMod * ByteMod >= 4
  BY <1>1, <1>2, <1>3
<1>5. ByteMod * ByteMod * ByteMod * ByteMod >= 4
  BY <1>1, <1>2, <1>4
<1>6. QED
  BY <1>5 DEF ToyAssumption

\* Going on past an instruction and back is where it was.
LEMMA BackAgain ==
  ASSUME ToyAssumption, NEW a \in Word
  PROVE  Minus(Plus(a, 4), 4) = a /\ Plus(a, 4) \in Word
<1>1. Plus(a, 4) \in Word /\ a + 4 \in Int
  <2>1. a + 4 \in Int
    BY WordBounds
  <2>2. QED
    BY <2>1, Remainder DEF Plus
<1>2. Modulus >= 4
  BY RoomForFour
<1>3. CASE a + 4 < Modulus
  <2>1. a + 4 \in Word
    BY <1>3, WordBounds, Positive DEF Word
  <2>2. (a + 4) - 4 = a
    BY WordBounds
  <2>3. Plus(a, 4) = a + 4
    BY <2>1, WordsStay DEF Plus
  <2>4. Minus(a + 4, 4) = a
    <3>1. ((a + 4) - 4) % Modulus = a % Modulus
      BY <2>2
    <3>2. a % Modulus = a
      BY WordsStay
    <3>3. QED
      BY <3>1, <3>2 DEF Minus
  <2>5. QED
    BY <1>1, <2>3, <2>4
<1>4. CASE a + 4 >= Modulus
  <2> DEFINE x == a + 4 - Modulus
  <2>0. Modulus \in Nat \ {0} /\ a \in Nat /\ a < Modulus
    BY Positive, WordBounds
  <2>1. x \in 0 .. Modulus - 1 /\ a + 4 = x + Modulus /\ x - 4 = a - Modulus
    BY <1>2, <1>4, <2>0
  <2>2. (a + 4) % Modulus = x
    BY <2>0, <2>1, OneRound
  <2>3. a \in 0 .. Modulus - 1
    BY <2>0
  <2>4. (a - Modulus) % Modulus = a
    BY <2>0, <2>3, OneRound
  <2>5. Plus(a, 4) = x
    BY <2>2 DEF Plus
  <2> HIDE DEF x
  <2>6. Minus(x, 4) = a
    BY <2>1, <2>4 DEF Minus
  <2>7. QED
    BY <1>1, <2>5, <2>6
<1>5. QED
  BY <1>3, <1>4, <1>1, WordBounds, Positive

LEMMA Quotient ==
  ASSUME NEW w \in Nat, NEW k \in Nat \ {0}
  PROVE  w \div k \in Nat
OBVIOUS

LEMMA FieldTypes ==
  ASSUME ToyAssumption, NEW w \in Word
  PROVE  /\ Decode(w).op \in Nat
         /\ Decode(w).rd \in RegIdx /\ Decode(w).rs \in RegIdx /\ Decode(w).rt \in RegIdx
         /\ Decode(w).imm \in 0 .. ImmMod - 1
<1>1. w \in Nat
  BY Positive DEF Word
<1>2. ASSUME NEW a \in Nat \ {0}, NEW b \in Nat \ {0} PROVE a * b \in Nat \ {0}
  OBVIOUS
<1>3. ImmMod * RegCount \in Nat \ {0} /\ ImmMod * RegCount * RegCount \in Nat \ {0}
  BY <1>2, Positive
<1>4. /\ w \div (ImmMod * RegCount * RegCount) \in Nat
      /\ w \div (ImmMod * RegCount) \in Nat /\ w \div ImmMod \in Nat
  BY <1>1, <1>3, Quotient, Positive
<1>5. w % ImmMod \in 0 .. ImmMod - 1 /\ w % ImmMod \in Int
  BY <1>1, Remainder
<1>6. /\ (w \div (ImmMod * RegCount)) % RegCount \in RegIdx
      /\ (w \div ImmMod) % RegCount \in RegIdx /\ (w % ImmMod) % RegCount \in RegIdx
  BY <1>4, <1>5, Remainder
<1>7. QED
  BY <1>4, <1>5, <1>6 DEF Decode
-----------------------------------------------------------------------------
(* The machine.                                                            *)

LEMMA Emits ==
  ASSUME NEW m \in Machine, NEW e \in EventType
  PROVE  /\ Emit(m, e) \in Machine
         /\ Emit(m, e).trace # <<>>
         /\ Emit(m, e).trace[Len(Emit(m, e).trace)] = e
         /\ Emit(m, e).icount = m.icount
<1>1. m.trace \in Seq(EventType)
  BY DEF Machine
<1>2. Append(m.trace, e) \in Seq(EventType) /\ Len(Append(m.trace, e)) = Len(m.trace) + 1
  BY <1>1
<1>3. Append(m.trace, e)[Len(m.trace) + 1] = e /\ Append(m.trace, e) # <<>>
  BY <1>1, <1>2
<1>4. Emit(m, e) = [m EXCEPT !.trace = Append(m.trace, e)]
  BY DEF Emit
<1>5. QED
  BY <1>2, <1>3, <1>4 DEF Machine

LEMMA Notes ==
  ASSUME NEW m \in Machine, NEW kind \in Kinds
  PROVE  Note(m, kind) \in Machine
<1>1. Event(kind, 0, 0, 0) \in EventType
  BY DEF Event, EventType
<1>2. QED
  BY <1>1, Emits DEF Note

\* The bytes of a word, and the values read from bytes.
LEMMA Bytes ==
  ASSUME ToyAssumption, NEW w \in Word, NEW k \in 0 .. 3
  PROVE  ByteOf(w, k) \in Byte
<1>1. w \in Nat
  BY WordBounds
<1>2. ASSUME NEW a \in Nat \ {0}, NEW b \in Nat \ {0} PROVE a * b \in Nat \ {0}
  OBVIOUS
<1>3. /\ ByteMod \in Nat \ {0} /\ ByteMod * ByteMod \in Nat \ {0}
      /\ ByteMod * ByteMod * ByteMod \in Nat \ {0}
  BY <1>2, Positive
<1>4. /\ w \div ByteMod \in Int /\ w \div (ByteMod * ByteMod) \in Int
      /\ w \div (ByteMod * ByteMod * ByteMod) \in Int
  BY <1>1, <1>3, Quotient
<1>5. /\ w % ByteMod \in Byte /\ (w \div ByteMod) % ByteMod \in Byte
      /\ (w \div (ByteMod * ByteMod)) % ByteMod \in Byte
      /\ (w \div (ByteMod * ByteMod * ByteMod)) % ByteMod \in Byte
  <2>1. \A x \in Int : x % ByteMod \in Byte
    BY Remainder, Zenon
  <2>2. w \in Int
    BY <1>1
  <2>3. QED
    BY <1>4, <2>1, <2>2, Zenon
<1>6. k = 0 \/ k = 1 \/ k = 2 \/ k = 3
  OBVIOUS
<1>7. QED
  BY <1>5, <1>6 DEF ByteOf

LEMMA Values ==
  ASSUME ToyAssumption, NEW mem \in [Mapped -> Byte], NEW a \in Nat, NEW n \in {1, 4},
         \A c \in a .. a + n - 1 : c \in Mapped
  PROVE  ValueAt(mem, a, n) \in Word
<1>1. ASSUME NEW x \in Int, NEW y \in Int PROVE x + ByteMod * y \in Int
  BY Positive
<1>2. \A c \in a .. a + n - 1 : mem[c] \in Int
  BY Positive DEF Byte
<1>3. CASE n = 1
  <2>1. mem[a] \in Int
    BY <1>2, <1>3
  <2>2. QED
    BY <1>3, <2>1, Remainder DEF ValueAt
<1>4. CASE n = 4
  <2>1. mem[a] \in Int /\ mem[a + 1] \in Int /\ mem[a + 2] \in Int /\ mem[a + 3] \in Int
    BY <1>2, <1>4
  <2> DEFINE z == mem[a + 2] + ByteMod * mem[a + 3]
             y == mem[a + 1] + ByteMod * z
             x == mem[a] + ByteMod * y
  <2>2. z \in Int
    BY <1>1, <2>1
  <2>3. y \in Int
    BY <1>1, <2>1, <2>2
  <2>4. x \in Int
    BY <1>1, <2>1, <2>3
  <2>5. x % Modulus \in Word
    BY <2>4, Remainder
  <2>6. QED
    BY <1>4, <2>5 DEF ValueAt
<1>5. QED
  BY <1>3, <1>4

\* An access that the memory map allows stays inside one region.
LEMMA Inside ==
  ASSUME ToyAssumption, NEW a \in Nat, NEW n \in {1, 4}, NEW need, Verdict(a, n, need) = "ok"
  PROVE  \A c \in a .. a + n - 1 : c \in Mapped
<1>1. a \in Mapped /\ ~(a + n > RegionOf(a).base + RegionOf(a).size)
  BY DEF Verdict
<1>2. RegionOf(a) \in Regions /\ a \in Window(RegionOf(a))
  BY <1>1 DEF Mapped, RegionOf
<1>3. RegionOf(a).base \in Nat /\ RegionOf(a).size \in Nat
  BY <1>2 DEF ToyAssumption
<1>4. \A c \in a .. a + n - 1 : c \in Window(RegionOf(a))
  BY <1>1, <1>2, <1>3 DEF Window
<1>5. QED
  BY <1>2, <1>4 DEF Mapped

LEMMA Verdicts ==
  ASSUME NEW a, NEW n, NEW need
  PROVE  Verdict(a, n, need) \in {"ok", "perm", "cross", "unmapped"}
BY DEF Verdict

LEMMA DeviceAnswers ==
  ASSUME ToyAssumption, NEW k, NEW n
  PROVE  StatusValue(k) \in Word /\ Default(n) \in Word
<1>1. 0 \in Word /\ ReadyValue \in Word /\ UnknownDefault \in Word
  BY Positive DEF ToyAssumption, Word
<1>2. UnknownDefault % ByteMod \in Word
  <2>1. UnknownDefault \in Nat /\ UnknownDefault < Modulus
    BY <1>1, WordBounds
  <2>2. UnknownDefault % ByteMod \in 0 .. UnknownDefault
    <3>1. \A x \in Nat, m \in Nat \ {0} : x % m \in 0 .. x
      OBVIOUS
    <3>2. QED
      BY <2>1, <3>1, Positive
  <2>3. QED
    BY <2>1, <2>2, Positive DEF Word
<1>3. QED
  BY <1>1, <1>2 DEF StatusValue, Default

\* What a load returns, and the machine it leaves, keep their types.
LEMMA LoadType ==
  ASSUME ToyAssumption, NEW m \in Machine, NEW a \in Word, NEW n \in {1, 4}, NEW need \in {"r", "x"}
  PROVE  /\ Load(m, a, n, need).ok \in BOOLEAN
         /\ Load(m, a, n, need).val \in Word
         /\ Load(m, a, n, need).mach \in Machine
<1> DEFINE L == Load(m, a, n, need)
<1>. /\ a \in Nat /\ 0 \in Word
  BY WordBounds, Positive DEF Word
<1>1. \A k \in Kinds, v \in Word : Event(k, a, n, v) \in EventType /\ Event(k, a, 0, v) \in EventType
  <2>1. n \in Nat /\ \A v \in Word : v \in Nat
    BY WordBounds
  <2>2. QED
    BY <2>1 DEF Event, EventType
<1>2. CASE a \in Device /\ PastWindow(a, n)
  BY <1>2, Notes DEF Load, Fault, Kinds
<1>3. CASE a \in Device /\ ~PastWindow(a, n)
  <2> DEFINE v == StatusValue(m.reads + 1)
             r == [m EXCEPT !.reads = @ + 1]
  <2>1. v \in Word
    BY DeviceAnswers
  <2>2. r \in Machine
    <3>1. m.reads + 1 \in Nat
      BY DEF Machine
    <3>2. r = [m EXCEPT !.reads = m.reads + 1]
      OBVIOUS
    <3>3. QED
      BY <3>1, <3>2 DEF Machine
  <2>3. Event("mmioRead", a, n, v) \in EventType
    BY <1>1, <2>1 DEF Kinds
  <2>4. Emit(r, Event("mmioRead", a, n, v)) \in Machine
    BY <2>2, <2>3, Emits
  <2>5. L = Ok(v, Emit(r, Event("mmioRead", a, n, v)))
    BY <1>3 DEF Load
  <2>6. QED
    BY <2>1, <2>4, <2>5 DEF Ok
<1>4. CASE a \notin Device /\ Verdict(a, n, need) = "ok"
  <2> DEFINE v == ValueAt(m.mem, a, n)
             e == IF need = "x" THEN Event("fetch", a, 0, v) ELSE Event("memRead", a, n, v)
  <2>1. m.mem \in [Mapped -> Byte]
    BY DEF Machine
  <2>2. v \in Word
    BY <1>4, <2>1, Inside, Values
  <2>3. e \in EventType
    BY <1>1, <2>2 DEF Kinds
  <2>4. Emit(m, e) \in Machine
    BY <2>3, Emits
  <2>5. L = Ok(v, Emit(m, e))
    BY <1>4 DEF Load
  <2>6. QED
    BY <2>2, <2>4, <2>5 DEF Ok
<1>5. CASE a \notin Device /\ Verdict(a, n, need) \in {"perm", "cross"}
  BY <1>5 DEF Load, Fault
<1>6. CASE a \notin Device /\ Verdict(a, n, need) = "unmapped"
  <2> DEFINE seen == Emit(m, Event("unknownRead", a, n, Default(n)))
  <2>1. seen \in Machine /\ Default(n) \in Word
    BY <1>1, DeviceAnswers, Emits DEF Kinds
  <2>2. L = IF m.policy.onRead = "default" THEN Ok(Default(n), seen) ELSE Fault(seen)
    BY <1>6 DEF Load
  <2>3. QED
    BY <2>1, <2>2 DEF Ok, Fault
<1>7. QED
  BY <1>2, <1>3, <1>4, <1>5, <1>6, Verdicts

\* And what a store leaves.
LEMMA StoreType ==
  ASSUME ToyAssumption, NEW m \in Machine, NEW a \in Word, NEW v \in Word
  PROVE  /\ Store(m, a, 4, v).ok \in BOOLEAN
         /\ Store(m, a, 4, v).mach \in Machine
<1> DEFINE S == Store(m, a, 4, v)
<1>. a \in Nat
  BY WordBounds
<1>1. \A k \in Kinds : Event(k, a, 4, v) \in EventType
  BY WordBounds DEF Event, EventType
<1>2. CASE a \in Device /\ PastWindow(a, 4)
  BY <1>2, Notes DEF Store, Fault, Kinds
<1>3. CASE a \in Device /\ ~PastWindow(a, 4)
  BY <1>1, <1>3, Emits DEF Store, Ok, Kinds
<1>4. CASE a \notin Device /\ Verdict(a, 4, "w") = "ok"
  <2> DEFINE r == [m EXCEPT !.mem = Stored(@, a, 4, v)]
  <2>1. Stored(m.mem, a, 4, v) \in [Mapped -> Byte]
    <3>1. \A c \in a .. a + 4 - 1 : c - a \in 0 .. 3
      OBVIOUS
    <3>2. m.mem \in [Mapped -> Byte]
      BY DEF Machine
    <3>3. QED
      BY <3>1, <3>2, Bytes DEF Stored
  <2>2. r \in Machine
    BY <2>1 DEF Machine
  <2>3. Emit(r, Event("memWrite", a, 4, v)) \in Machine
    BY <1>1, <2>2, Emits DEF Kinds
  <2>4. S = Ok(0, Emit(r, Event("memWrite", a, 4, v)))
    BY <1>4 DEF Store
  <2> HIDE DEF r
  <2>5. S.ok = TRUE /\ S.mach = Emit(r, Event("memWrite", a, 4, v))
    BY <2>4 DEF Ok
  <2>6. QED
    BY <2>3, <2>5
<1>5. CASE a \notin Device /\ Verdict(a, 4, "w") \in {"perm", "cross"}
  BY <1>5 DEF Store, Fault
<1>6. CASE a \notin Device /\ Verdict(a, 4, "w") = "unmapped"
  BY <1>1, <1>6, Emits DEF Store, Ok, Fault, Kinds
<1>7. QED
  BY <1>2, <1>3, <1>4, <1>5, <1>6, Verdicts

-----------------------------------------------------------------------------
(* What executing the block of an instruction comes to.                    *)

Address == Plus(regs[Inst.rs], SignExtend(Inst.imm))

\* The machine has fetched an instruction that decodes.
Ready == ToyAssumption /\ IInv /\ Fetched.ok

LEMMA InstTypes ==
  ASSUME Ready
  PROVE  /\ Fetched.mach \in Machine /\ Begun \in Machine
         /\ Inst.op \in Nat /\ Inst.imm \in 0 .. ImmMod - 1
         /\ Inst.rd \in RegIdx /\ Inst.rs \in RegIdx /\ Inst.rt \in RegIdx
         /\ regs[Inst.rd] \in Word /\ regs[Inst.rs] \in Word /\ regs[Inst.rt] \in Word
         /\ Address \in Word /\ Inst.imm \in Word /\ Plus(pc, 4) \in Word
         /\ BranchTo(pc, Inst.imm) \in Word
<1>1. pc \in Word /\ regs \in [RegIdx -> Word] /\ mach \in Machine /\ ToyAssumption
  BY DEF Ready, IInv
<1>2. Fetched.val \in Word /\ Fetched.mach \in Machine
  BY <1>1, LoadType DEF Fetched
<1>3. /\ Inst.op \in Nat /\ Inst.imm \in 0 .. ImmMod - 1
      /\ Inst.rd \in RegIdx /\ Inst.rs \in RegIdx /\ Inst.rt \in RegIdx
  BY <1>1, <1>2, FieldTypes DEF Inst
<1>4. Begun \in Machine
  <2>1. Event("exec", pc, 0, Inst.op) \in EventType
    BY <1>1, <1>3, WordBounds DEF Event, EventType, Kinds
  <2>2. QED
    BY <1>2, <2>1, Emits DEF Begun
<1>5. regs[Inst.rd] \in Word /\ regs[Inst.rs] \in Word /\ regs[Inst.rt] \in Word
  BY <1>1, <1>3
<1>6. SignExtend(Inst.imm) \in Word /\ BranchTo(pc, Inst.imm) \in Word
  BY <1>1, <1>3, Sums
<1>7. Address \in Word
  BY <1>1, <1>3, <1>5, <1>6, Sums DEF Address
<1>8. Inst.imm \in Word /\ Plus(pc, 4) \in Word
  BY <1>1, <1>3, ImmStays, BackAgain
<1>9. QED
  BY <1>2, <1>3, <1>4, <1>5, <1>6, <1>7, <1>8

\* Expressions that lowerings contain, and what they evaluate to.
LEMMA ConstTerm ==
  ASSUME ToyAssumption, NEW v \in Word
  PROVE  Term(Const("word", v)) = v /\ TermTy(Const("word", v)) = "word"
<1>1. v % Modulus = v
  BY WordsStay
<1>2. QED
  BY <1>1 DEF Term, Atom, Const, Span, TermTy, AtomTy

LEMMA RegTerm ==
  ASSUME NEW i
  PROVE  Term(Reg(i)) = regs[i] /\ TermTy(Reg(i)) = "word"
BY DEF Term, Atom, Reg, TermTy, AtomTy

LEMMA SextTerm ==
  ASSUME ToyAssumption, NEW imm \in 0 .. ImmMod - 1
  PROVE  /\ Term(Sext(Const("half", imm))) = SignExtend(imm)
         /\ TermTy(Sext(Const("half", imm))) = "word"
<1>1. imm % ImmMod = imm /\ imm % Modulus = imm
  BY ImmStays
<1>2. Atom(Const("half", imm)) = imm /\ AtomTy(Const("half", imm)) = "half"
  BY <1>1 DEF Atom, Const, Span, AtomTy
<1>3. Sext(Const("half", imm)).ex = "sext" /\ Sext(Const("half", imm)).of = Const("half", imm)
  BY DEF Sext
<1>4. QED
  BY <1>1, <1>2, <1>3 DEF Term, TermTy

LEMMA Single ==
  ASSUME NEW e, e.ex \notin {"add", "sub", "ne"}
  PROVE  Eval(e) = Term(e) /\ TyOk(e) = TermTy(e)
BY DEF Eval, TyOk

LEMMA Pair ==
  ASSUME NEW op \in {"add", "sub", "ne"}, NEW a, NEW b, TermTy(a) = TermTy(b)
  PROVE  /\ op = "add" => Eval(Binary(op, a, b)) = Plus(Term(a), Term(b))
         /\ op = "sub" => Eval(Binary(op, a, b)) = Minus(Term(a), Term(b))
         /\ op = "ne"  => Eval(Binary(op, a, b)) = IF Term(a) = Term(b) THEN 0 ELSE 1
         /\ TyOk(Binary(op, a, b)) = IF op = "ne" THEN "bool" ELSE TermTy(a)
<1>1. /\ Binary(op, a, b).ex = op /\ Binary(op, a, b).a = a /\ Binary(op, a, b).b = b
  BY DEF Binary
<1>2. QED
  BY <1>1 DEF Eval, TyOk

LEMMA EvalConst ==
  ASSUME ToyAssumption, NEW v \in Word
  PROVE  Eval(Const("word", v)) = v /\ TyOk(Const("word", v)) = "word"
<1>1. Const("word", v).ex = "const"
  BY DEF Const
<1>2. QED
  BY <1>1, ConstTerm, Single

LEMMA EvalReg ==
  ASSUME NEW i
  PROVE  Eval(Reg(i)) = regs[i] /\ TyOk(Reg(i)) = "word"
<1>1. Reg(i).ex = "reg"
  BY DEF Reg
<1>2. QED
  BY <1>1, RegTerm, Single

LEMMA EvalPair ==
  ASSUME NEW i, NEW j
  PROVE  /\ Eval(Binary("add", Reg(i), Reg(j))) = Plus(regs[i], regs[j])
         /\ TyOk(Binary("add", Reg(i), Reg(j))) = "word"
         /\ Eval(Binary("sub", Reg(i), Reg(j))) = Minus(regs[i], regs[j])
         /\ TyOk(Binary("sub", Reg(i), Reg(j))) = "word"
BY RegTerm, Pair

LEMMA EvalAddress ==
  ASSUME ToyAssumption, NEW i, NEW imm \in 0 .. ImmMod - 1
  PROVE  /\ Eval(Binary("add", Reg(i), Sext(Const("half", imm)))) = Plus(regs[i], SignExtend(imm))
         /\ TyOk(Binary("add", Reg(i), Sext(Const("half", imm)))) = "word"
BY RegTerm, SextTerm, Pair

LEMMA EvalTest ==
  ASSUME ToyAssumption, NEW i
  PROVE  /\ Eval(Binary("ne", Reg(i), Const("word", 0))) = IF regs[i] = 0 THEN 0 ELSE 1
         /\ TyOk(Binary("ne", Reg(i), Const("word", 0))) = "bool"
<1>1. 0 \in Word
  BY Positive DEF Word
<1>2. QED
  BY <1>1, RegTerm, ConstTerm, Pair

\* Each instruction's block type-checks, and leaves what the instruction means.
LEMMA Outcomes ==
  ASSUME Ready
  PROVE  /\ Inst.op = 1 => Done = Sets(Begun, Inst.rd, Inst.imm)
         /\ Inst.op = 2 => Done = Sets(Begun, Inst.rd, Plus(regs[Inst.rs], regs[Inst.rt]))
         /\ Inst.op = 3 => Done = Sets(Begun, Inst.rd, Minus(regs[Inst.rs], regs[Inst.rt]))
         /\ Inst.op = 4 => Done = Sets(Begun, Inst.rd, Address)
         /\ \A n \in {1, 4} : Inst.op = (IF n = 4 THEN 5 ELSE 9) =>
              Done = IF Load(Begun, Address, n, "r").ok
                     THEN Sets(Load(Begun, Address, n, "r").mach, Inst.rd,
                               Load(Begun, Address, n, "r").val)
                     ELSE Aborts(Load(Begun, Address, n, "r").mach)
         /\ Inst.op = 6 =>
              Done = IF Store(Begun, Address, 4, regs[Inst.rd]).ok
                     THEN Falls(Store(Begun, Address, 4, regs[Inst.rd]).mach)
                     ELSE Aborts(Store(Begun, Address, 4, regs[Inst.rd]).mach)
         /\ Inst.op = 7 =>
              Done = IF regs[Inst.rs] # 0
                     THEN Outcome(regs, Begun, BranchTo(pc, Inst.imm), FALSE) ELSE Falls(Begun)
         /\ Inst.op = 8 => Done = Outcome(regs, Begun, BranchTo(pc, Inst.imm), FALSE)
         /\ Inst.op = 0 \/ Inst.op > 9 => Done = Stops(Begun)
<1> DEFINE i == Inst
           A == Binary("add", Reg(i.rs), Sext(Const("half", i.imm)))
           T == Const("word", BranchTo(pc, i.imm))
           S == Lower(pc, i)
           C == Binary("ne", Reg(i.rs), Const("word", 0))
<1>1. /\ i.imm \in 0 .. ImmMod - 1 /\ i.imm \in Word /\ BranchTo(pc, i.imm) \in Word
      /\ i.op \in Nat /\ ToyAssumption
      /\ Address = Plus(regs[i.rs], SignExtend(i.imm))
  <2>1. ToyAssumption
    BY DEF Ready
  <2>2. QED
    BY <2>1, InstTypes DEF Address
<1>0. Done = Executed(S, Begun)
  BY DEF Done
<1> HIDE DEF i
<1>2. Eval(A) = Address /\ TyOk(A) = "word"
  BY <1>1, EvalAddress
<1>3. Eval(T) = BranchTo(pc, i.imm) /\ TyOk(T) = "word"
  BY <1>1, EvalConst
<1>4. Eval(C) = (IF regs[i.rs] = 0 THEN 0 ELSE 1) /\ TyOk(C) = "bool"
  BY <1>1, EvalTest
<1>5. ASSUME NEW e, TyOk(e) = "word", S = Assign(i.rd, e)
      PROVE  Done = Sets(Begun, i.rd, Eval(e))
  <2>1. S.st = "assign" /\ S.e = e /\ S.dst = i.rd
    BY <1>5 DEF Assign
  <2> HIDE DEF S
  <2>2. Executed(S, Begun) = Sets(Begun, i.rd, Eval(e))
    BY <1>5, <2>1 DEF Executed, StmtOk, ExecStmt
  <2>3. QED
    BY <1>0, <2>2 DEF S
<1>6. ASSUME NEW n \in {1, 4}, S = LoadTo(i.rd, A, n)
      PROVE  Done = IF Load(Begun, Address, n, "r").ok
                    THEN Sets(Load(Begun, Address, n, "r").mach, i.rd,
                              Load(Begun, Address, n, "r").val)
                    ELSE Aborts(Load(Begun, Address, n, "r").mach)
  <2>1. S.st = "load" /\ S.addr = A /\ S.dst = i.rd /\ S.n = n
    BY <1>6 DEF LoadTo
  <2>2. Done = Executed(S, Begun)
    BY <1>0
  <2> HIDE DEF S, A
  <2>3. QED
    BY <1>2, <2>1, <2>2 DEF Executed, StmtOk, ExecStmt
<1>7. ASSUME S = StoreAt(A, Reg(i.rd), 4)
      PROVE  Done = IF Store(Begun, Address, 4, regs[i.rd]).ok
                    THEN Falls(Store(Begun, Address, 4, regs[i.rd]).mach)
                    ELSE Aborts(Store(Begun, Address, 4, regs[i.rd]).mach)
  <2>1. S.st = "store" /\ S.addr = A /\ S.val = Reg(i.rd) /\ S.n = 4
    BY <1>7 DEF StoreAt
  <2>2. Done = Executed(S, Begun)
    BY <1>0
  <2>3. Eval(Reg(i.rd)) = regs[i.rd] /\ TyOk(Reg(i.rd)) = "word"
    BY EvalReg
  <2> HIDE DEF S, A
  <2>4. QED
    BY <1>2, <2>1, <2>2, <2>3 DEF Executed, StmtOk, ExecStmt
<1>8. ASSUME S = JumpIf(C, T)
      PROVE  Done = IF regs[i.rs] # 0 THEN Outcome(regs, Begun, BranchTo(pc, i.imm), FALSE)
                                     ELSE Falls(Begun)
  <2>1. S.st = "cbranch" /\ S.cond = C /\ S.target = T
    BY <1>8 DEF JumpIf
  <2>2. Done = Executed(S, Begun)
    BY <1>0
  <2> HIDE DEF S, T, C
  <2>3. Done = IF Eval(C) # 0 THEN Outcome(regs, Begun, Eval(T), FALSE) ELSE Falls(Begun)
    BY <1>3, <1>4, <2>1, <2>2 DEF Executed, StmtOk, ExecStmt
  <2>4. Eval(T) = BranchTo(pc, i.imm)
    BY <1>3
  <2>5. CASE regs[i.rs] = 0
    <3>1. Eval(C) = 0
      BY <1>4, <2>5
    <3>2. QED
      BY <2>3, <2>5, <3>1
  <2>6. CASE regs[i.rs] # 0
    <3>1. Eval(C) = 1
      BY <1>4, <2>6
    <3>2. QED
      BY <2>3, <2>4, <2>6, <3>1
  <2>7. QED
    BY <2>5, <2>6
<1>9. ASSUME S = Jump(T) PROVE Done = Outcome(regs, Begun, BranchTo(pc, i.imm), FALSE)
  <2>1. S.st = "branch" /\ S.target = T
    BY <1>9 DEF Jump
  <2>2. Done = Executed(S, Begun)
    BY <1>0
  <2> HIDE DEF S, T
  <2>3. QED
    BY <1>3, <2>1, <2>2 DEF Executed, StmtOk, ExecStmt
<1>10. ASSUME S = Trap PROVE Done = Stops(Begun)
  <2>1. S.st = "trap"
    BY <1>10 DEF Trap
  <2>2. Done = Executed(S, Begun)
    BY <1>0
  <2> HIDE DEF S
  <2>3. QED
    BY <2>1, <2>2 DEF Executed, StmtOk, ExecStmt
<1>11. /\ i.op = 1 => S = Assign(i.rd, Const("word", i.imm))
       /\ i.op = 2 => S = Assign(i.rd, Binary("add", Reg(i.rs), Reg(i.rt)))
       /\ i.op = 3 => S = Assign(i.rd, Binary("sub", Reg(i.rs), Reg(i.rt)))
       /\ i.op = 4 => S = Assign(i.rd, A)
       /\ i.op = 5 => S = LoadTo(i.rd, A, 4)
       /\ i.op = 6 => S = StoreAt(A, Reg(i.rd), 4)
       /\ i.op = 7 => S = JumpIf(C, T)
       /\ i.op = 8 => S = Jump(T)
       /\ i.op = 9 => S = LoadTo(i.rd, A, 1)
       /\ i.op = 0 \/ i.op > 9 => S = Trap
  <2>1. S = CASE i.op = 1 -> Assign(i.rd, Const("word", i.imm))
              [] i.op = 2 -> Assign(i.rd, Binary("add", Reg(i.rs), Reg(i.rt)))
              [] i.op = 3 -> Assign(i.rd, Binary("sub", Reg(i.rs), Reg(i.rt)))
              [] i.op = 4 -> Assign(i.rd, A)
              [] i.op = 5 -> LoadTo(i.rd, A, 4)
              [] i.op = 6 -> StoreAt(A, Reg(i.rd), 4)
              [] i.op = 7 -> JumpIf(C, T)
              [] i.op = 8 -> Jump(T)
              [] i.op = 9 -> LoadTo(i.rd, A, 1)
              [] OTHER    -> Trap
    BY Zenon DEF Lower
  <2> HIDE DEF S, A, T, C
  <2>2. i.op = 0 \/ i.op > 9 => i.op \notin 1 .. 9
    <3>1. \A x \in Nat : x = 0 \/ x > 9 => x \notin 1 .. 9
      OBVIOUS
    <3>2. QED
      BY <1>1, <3>1, Zenon
  <2>3. i.op \notin 1 .. 9 => S = Trap
    <3>1. i.op \notin 1 .. 9 => /\ i.op # 1 /\ i.op # 2 /\ i.op # 3 /\ i.op # 4 /\ i.op # 5
                               /\ i.op # 6 /\ i.op # 7 /\ i.op # 8 /\ i.op # 9
      OBVIOUS
    <3>2. QED
      BY <2>1, <3>1, SMTT(40)
  <2>4. /\ i.op = 1 => S = Assign(i.rd, Const("word", i.imm))
        /\ i.op = 2 => S = Assign(i.rd, Binary("add", Reg(i.rs), Reg(i.rt)))
        /\ i.op = 3 => S = Assign(i.rd, Binary("sub", Reg(i.rs), Reg(i.rt)))
        /\ i.op = 4 => S = Assign(i.rd, A)
        /\ i.op = 5 => S = LoadTo(i.rd, A, 4)
    BY <2>1
  <2>5. /\ i.op = 6 => S = StoreAt(A, Reg(i.rd), 4)
        /\ i.op = 7 => S = JumpIf(C, T)
        /\ i.op = 8 => S = Jump(T)
        /\ i.op = 9 => S = LoadTo(i.rd, A, 1)
    BY <2>1
  <2>6. QED
    BY <2>2, <2>3, <2>4, <2>5
<1>12. /\ Eval(Const("word", i.imm)) = i.imm /\ TyOk(Const("word", i.imm)) = "word"
       /\ Eval(Binary("add", Reg(i.rs), Reg(i.rt))) = Plus(regs[i.rs], regs[i.rt])
       /\ TyOk(Binary("add", Reg(i.rs), Reg(i.rt))) = "word"
       /\ Eval(Binary("sub", Reg(i.rs), Reg(i.rt))) = Minus(regs[i.rs], regs[i.rt])
       /\ TyOk(Binary("sub", Reg(i.rs), Reg(i.rt))) = "word"
  BY <1>1, EvalConst, EvalPair
<1> HIDE DEF S, A, T, C
<1>13. /\ i.op = 1 => Done = Sets(Begun, i.rd, i.imm)
       /\ i.op = 2 => Done = Sets(Begun, i.rd, Plus(regs[i.rs], regs[i.rt]))
       /\ i.op = 3 => Done = Sets(Begun, i.rd, Minus(regs[i.rs], regs[i.rt]))
       /\ i.op = 4 => Done = Sets(Begun, i.rd, Address)
  BY <1>2, <1>5, <1>11, <1>12
<1>14. \A n \in {1, 4} : i.op = (IF n = 4 THEN 5 ELSE 9) => S = LoadTo(i.rd, A, n)
  BY <1>11
<1>15. QED
  BY <1>6, <1>7, <1>8, <1>9, <1>10, <1>11, <1>13, <1>14 DEF i

-----------------------------------------------------------------------------
(* Types are kept.                                                         *)

LEMMA Retires ==
  ASSUME NEW m \in Machine
  PROVE  /\ Retired(m) \in Machine /\ Retired(m).trace = m.trace
<1>1. m.icount \in Int /\ m.icount + 1 \in Int
  BY DEF Machine
<1>2. Retired(m) = [m EXCEPT !.icount = m.icount + 1]
  BY DEF Retired
<1>3. QED
  BY <1>1, <1>2 DEF Machine

\* What a run starts from is a machine.
LEMMA Boots ==
  ASSUME ToyAssumption
  PROVE  Boot \subseteq Machine
<1> SUFFICES ASSUME NEW p \in Programs, NEW policy \in Policies
             PROVE  Loaded(p, policy) \in Machine
  BY DEF Boot
<1>1. p \in Seq(Word) /\ policy \in [onRead : {"default", "fault"}, onWrite : {"default", "fault"}]
  BY DEF ToyAssumption
<1> DEFINE B(a) == IF a < 4 * Len(p) THEN ByteOf(p[a \div 4 + 1], a % 4) ELSE 0
<1>2. ASSUME NEW a \in Mapped PROVE B(a) \in Byte
  <2>1. a \in Nat
    BY <1>2 DEF Mapped, Window, ToyAssumption
  <2>2. a % 4 \in 0 .. 3 /\ a \div 4 \in Nat
    BY <2>1
  <2>3. CASE a < 4 * Len(p)
    <3>1. a \div 4 + 1 \in 1 .. Len(p)
      BY <1>1, <2>1, <2>3
    <3>2. p[a \div 4 + 1] \in Word
      BY <1>1, <3>1
    <3>3. ByteOf(p[a \div 4 + 1], a % 4) \in Byte
      BY <2>2, <3>2, Bytes
    <3>4. QED
      BY <2>3, <3>3
  <2>4. CASE ~(a < 4 * Len(p))
    <3>1. 0 \in Byte
      BY Positive DEF Byte
    <3>2. QED
      BY <2>4, <3>1
  <2>5. QED
    BY <2>3, <2>4
<1> HIDE DEF B
<1>3. [a \in Mapped |-> B(a)] \in [Mapped -> Byte]
  BY <1>2
<1>4. Loaded(p, policy) = [mem |-> [a \in Mapped |-> B(a)], reads |-> 0, trace |-> <<>>,
                           icount |-> 0, policy |-> policy]
  BY DEF Loaded, B
<1>5. QED
  BY <1>1, <1>3, <1>4 DEF Machine

LEMMA IInvInit ==
  ASSUME ToyAssumption, Init
  PROVE  IInv
<1>1. 0 \in Word
  BY Positive DEF Word
<1>2. QED
  BY <1>1, Boots DEF Init, IInv

\* What a block leaves has the types of a state.
LEMMA DoneType ==
  ASSUME Ready
  PROVE  /\ Done.to \in Word /\ Done.regs \in [RegIdx -> Word]
         /\ Done.stop \in BOOLEAN /\ Done.mach \in Machine
<1>1. regs \in [RegIdx -> Word] /\ ToyAssumption
  BY DEF Ready, IInv
<1> DEFINE Good(d) == d.to \in Word /\ d.regs \in [RegIdx -> Word]
                      /\ d.stop \in BOOLEAN /\ d.mach \in Machine
<1>2. ASSUME NEW m \in Machine PROVE Good(Falls(m)) /\ Good(Stops(m)) /\ Good(Aborts(m))
  <2>1. Plus(pc, 4) \in Word
    BY InstTypes
  <2>2. Note(m, "data_abort") \in Machine
    BY Notes DEF Kinds
  <2>3. QED
    BY <1>1, <2>1, <2>2 DEF Falls, Stops, Aborts, Outcome
<1>3. ASSUME NEW m \in Machine, NEW v \in Word PROVE Good(Sets(m, Inst.rd, v))
  <2>1. Plus(pc, 4) \in Word /\ Inst.rd \in RegIdx
    BY InstTypes
  <2>2. Event("reg", Inst.rd, 0, v) \in EventType
    BY <1>1, <2>1, WordBounds, Positive DEF Event, EventType, Kinds, RegIdx
  <2>3. Emit(m, Event("reg", Inst.rd, 0, v)) \in Machine
    BY <2>2, Emits
  <2>4. [regs EXCEPT ![Inst.rd] = v] \in [RegIdx -> Word]
    BY <1>1
  <2>5. QED
    BY <2>1, <2>3, <2>4 DEF Sets, Outcome
<1>4. Good(Outcome(regs, Begun, BranchTo(pc, Inst.imm), FALSE))
  BY <1>1, InstTypes DEF Outcome
<1>5. /\ Begun \in Machine /\ Inst.imm \in Word /\ Address \in Word
      /\ Plus(regs[Inst.rs], regs[Inst.rt]) \in Word /\ Minus(regs[Inst.rs], regs[Inst.rt]) \in Word
      /\ regs[Inst.rd] \in Word /\ Inst.op \in Nat
  BY <1>1, InstTypes, Sums
<1>6. ASSUME NEW n \in {1, 4}
      PROVE  Load(Begun, Address, n, "r").mach \in Machine /\ Load(Begun, Address, n, "r").val \in Word
  BY <1>1, <1>5, LoadType
<1>7. Store(Begun, Address, 4, regs[Inst.rd]).mach \in Machine
  BY <1>1, <1>5, StoreType
<1> HIDE DEF Good
<1>8. Good(Done)
  <2>1. CASE Inst.op \in 1 .. 4
    BY <1>3, <1>5, <2>1, Outcomes
  <2>2. CASE Inst.op \in {5, 9}
    <3> DEFINE n == IF Inst.op = 5 THEN 4 ELSE 1
               L == Load(Begun, Address, n, "r")
    <3>1. n \in {1, 4} /\ Inst.op = (IF n = 4 THEN 5 ELSE 9)
      BY <2>2
    <3> HIDE DEF n
    <3>2. Done = IF L.ok THEN Sets(L.mach, Inst.rd, L.val) ELSE Aborts(L.mach)
      BY <3>1, Outcomes
    <3>3. L.mach \in Machine /\ L.val \in Word
      BY <1>6, <3>1
    <3> HIDE DEF L
    <3>4. Good(Sets(L.mach, Inst.rd, L.val)) /\ Good(Aborts(L.mach))
      BY <1>2, <1>3, <3>3
    <3>5. QED
      BY <3>2, <3>4
  <2>3. CASE Inst.op = 6
    BY <1>2, <1>7, <2>3, Outcomes
  <2>4. CASE Inst.op \in {7, 8}
    BY <1>2, <1>4, <1>5, <2>4, Outcomes
  <2>5. CASE Inst.op = 0 \/ Inst.op > 9
    BY <1>2, <1>5, <2>5, Outcomes
  <2>6. QED
    BY <1>5, <2>1, <2>2, <2>3, <2>4, <2>5
<1>9. QED
  BY <1>8 DEF Good

LEMMA Endings ==
  (HowEnded = "no" <=> ~Done.stop)
  /\ (Done.stop => HowEnded \in {"halt", "load", "store", "undefined"})
BY DEF HowEnded

LEMMA IInvStep ==
  ASSUME ToyAssumption, IInv, [Step]_vars
  PROVE  IInv'
<1>1. CASE FetchFault
  <2>1. Fetched.mach \in Machine
    BY LoadType DEF IInv, Fetched
  <2>2. Note(Fetched.mach, "fetch_fault") \in Machine
    BY <2>1, Notes DEF Kinds
  <2>3. QED
    BY <1>1, <2>2 DEF FetchFault, IInv
<1>2. CASE Execute
  <2>1. Ready
    BY <1>2 DEF Execute, Ready
  <2>2. /\ Done.to \in Word /\ Done.regs \in [RegIdx -> Word]
        /\ Done.stop \in BOOLEAN /\ Done.mach \in Machine
    BY <2>1, DoneType
  <2>3. Retired(Done.mach) \in Machine
    BY <2>2, Retires
  <2>4. QED
    BY <1>2, <2>2, <2>3, Endings DEF Execute, IInv
<1>3. CASE UNCHANGED vars
  BY <1>3 DEF vars, IInv
<1>4. QED
  BY <1>1, <1>2, <1>3 DEF Step

-----------------------------------------------------------------------------
(* The direct interpreter's own operators are those of ToyMachine.         *)

LEMMA SameShapes ==
  ASSUME NEW m, NEW e, NEW a, NEW n
  PROVE  /\ Direct!Emit(m, e) = Emit(m, e)
         /\ Direct!Event(a, n, m, e) = Event(a, n, m, e)
         /\ Direct!Note(m, e) = Note(m, e)
         /\ Direct!Ok(m, e) = Ok(m, e) /\ Direct!Fault(m) = Fault(m)
         /\ Direct!Retired(m) = Retired(m)
         /\ Direct!StatusValue(m) = StatusValue(m) /\ Direct!Default(m) = Default(m)
         /\ Direct!PastWindow(m, n) = PastWindow(m, n)
BY DEF Direct!Emit, Emit, Direct!Event, Event, Direct!Note, Note, Direct!Ok, Ok, Direct!Fault, Fault,
       Direct!Retired, Retired, Direct!StatusValue, StatusValue, Direct!Default, Default,
       Direct!PastWindow, PastWindow

LEMMA SameWords ==
  ASSUME NEW a, NEW b
  PROVE  /\ Direct!BranchTo(a, b) = BranchTo(a, b) /\ Direct!SignExtend(a) = SignExtend(a)
         /\ Direct!Plus(a, b) = Plus(a, b) /\ Direct!Minus(a, b) = Minus(a, b)
         /\ Direct!Decode(a) = Decode(a)
BY DEF Direct!BranchTo, BranchTo, Direct!Plus, Plus, Direct!Minus, Minus,
       Direct!SignExtend, SignExtend, Direct!Decode, Decode

LEMMA SameMap ==
  ASSUME NEW a, NEW n, NEW need
  PROVE  /\ Direct!Mapped = Mapped /\ Direct!Device = Device /\ Direct!RegIdx = RegIdx
         /\ Direct!Verdict(a, n, need) = Verdict(a, n, need)
<1>1. Direct!Mapped = Mapped /\ Direct!Device = Device /\ Direct!RegIdx = RegIdx
  BY DEF Direct!Mapped, Mapped, Direct!Window, Window, Direct!Device, Device, Direct!RegIdx, RegIdx
<1>2. Direct!RegionOf(a) = RegionOf(a)
  BY DEF Direct!RegionOf, RegionOf, Direct!Window, Window
<1>3. QED
  BY <1>1, <1>2 DEF Direct!Verdict, Verdict

LEMMA SameBytes ==
  ASSUME NEW mem, NEW a, NEW n, NEW v
  PROVE  /\ Direct!ByteOf(v, a) = ByteOf(v, a)
         /\ Direct!ValueAt(mem, a, n) = ValueAt(mem, a, n)
         /\ Direct!Stored(mem, a, n, v) = Stored(mem, a, n, v)
<1>1. \A w, k : Direct!ByteOf(w, k) = ByteOf(w, k)
  BY Zenon DEF Direct!ByteOf, ByteOf
<1>2. Direct!ValueAt(mem, a, n) = ValueAt(mem, a, n)
  BY Zenon DEF Direct!ValueAt, ValueAt
<1>3. Direct!Stored(mem, a, n, v) = Stored(mem, a, n, v)
  BY <1>1 DEF Direct!Stored, Stored
<1>4. QED
  BY <1>1, <1>2, <1>3

LEMMA SameLoad ==
  ASSUME NEW m, NEW a, NEW n, NEW need
  PROVE  Direct!Load(m, a, n, need) = Load(m, a, n, need)
<1>1. /\ a \in Device <=> a \in Direct!Device
      /\ PastWindow(a, n) <=> Direct!PastWindow(a, n)
      /\ Verdict(a, n, need) = Direct!Verdict(a, n, need)
  BY SameShapes, SameMap
<1>2. CASE a \in Device /\ PastWindow(a, n)
  BY <1>1, <1>2, SameShapes DEF Load, Direct!Load
<1>3. CASE a \in Device /\ ~PastWindow(a, n)
  BY <1>1, <1>3, SameShapes DEF Load, Direct!Load
<1>4. CASE a \notin Device /\ Verdict(a, n, need) = "ok"
  BY <1>1, <1>4, SameShapes, SameBytes DEF Load, Direct!Load
<1>5. CASE a \notin Device /\ Verdict(a, n, need) \in {"perm", "cross"}
  BY <1>1, <1>5, SameShapes DEF Load, Direct!Load
<1>6. CASE a \notin Device /\ Verdict(a, n, need) = "unmapped"
  BY <1>1, <1>6, SameShapes DEF Load, Direct!Load
<1>7. QED
  BY <1>2, <1>3, <1>4, <1>5, <1>6, Verdicts

LEMMA SameStore ==
  ASSUME NEW m, NEW a, NEW n, NEW v
  PROVE  Direct!Store(m, a, n, v) = Store(m, a, n, v)
<1>1. /\ a \in Device <=> a \in Direct!Device
      /\ PastWindow(a, n) <=> Direct!PastWindow(a, n)
      /\ Verdict(a, n, "w") = Direct!Verdict(a, n, "w")
  BY SameShapes, SameMap
<1>2. CASE a \in Device /\ PastWindow(a, n)
  BY <1>1, <1>2, SameShapes DEF Store, Direct!Store
<1>3. CASE a \in Device /\ ~PastWindow(a, n)
  BY <1>1, <1>3, SameShapes DEF Store, Direct!Store
<1>4. CASE a \notin Device /\ Verdict(a, n, "w") = "ok"
  BY <1>1, <1>4, SameShapes, SameBytes DEF Store, Direct!Store
<1>5. CASE a \notin Device /\ Verdict(a, n, "w") \in {"perm", "cross"}
  BY <1>1, <1>5, SameShapes DEF Store, Direct!Store
<1>6. CASE a \notin Device /\ Verdict(a, n, "w") = "unmapped"
  BY <1>1, <1>6, SameShapes DEF Store, Direct!Store
<1>7. QED
  BY <1>2, <1>3, <1>4, <1>5, <1>6, Verdicts

LEMMA SameBoot == Direct!Boot = Boot
<1>1. ASSUME NEW p, NEW policy PROVE Direct!Loaded(p, policy) = Loaded(p, policy)
  <2> DEFINE B(a) == IF a < 4 * Len(p) THEN ByteOf(p[a \div 4 + 1], a % 4) ELSE 0
             D(a) == IF a < 4 * Len(p) THEN Direct!ByteOf(p[a \div 4 + 1], a % 4) ELSE 0
             Rest(f) == [mem |-> f, reads |-> 0, trace |-> <<>>, icount |-> 0, policy |-> policy]
  <2>1. \A a : B(a) = D(a)
    BY SameBytes
  <2>2. Loaded(p, policy) = Rest([a \in Mapped |-> B(a)])
    BY DEF Loaded
  <2>3. Direct!Loaded(p, policy) = Rest([a \in Direct!Mapped |-> D(a)])
    BY DEF Direct!Loaded
  <2> HIDE DEF B, D, Rest
  <2>4. [a \in Mapped |-> B(a)] = [a \in Direct!Mapped |-> D(a)]
    BY <2>1, SameMap
  <2>5. QED
    BY <2>2, <2>3, <2>4
<1>2. \A m : m \in Boot <=> \E p \in Programs, policy \in Policies : m = Loaded(p, policy)
  BY DEF Boot
<1>3. \A m : m \in Direct!Boot <=> \E p \in Programs, policy \in Policies : m = Direct!Loaded(p, policy)
  BY DEF Direct!Boot
<1>4. \A m : m \in Direct!Boot <=> m \in Boot
  BY <1>1, <1>2, <1>3
<1>5. QED
  BY <1>4

-----------------------------------------------------------------------------
(* The direct interpreter beside the one over lowered blocks.              *)

\* The two are in one state, but for what step and stepIR do differently at the
\* end of a run: by how it ended, what of pc, icount and events still agrees.
Alike ==
  /\ directRegs = regs /\ directHalted = halted
  /\ directMach.mem = mach.mem /\ directMach.reads = mach.reads
  /\ \/ ended \in {"no", "fetch", "halt"} /\ directPc = pc /\ directMach = mach
     \/ /\ ended \in {"load", "store"}
        /\ directMach.trace = mach.trace /\ Recorded("data_abort")
     \/ ended = "undefined" /\ Recorded("unsupported")

PairInv == IInv /\ directFuel = fuel /\ Alike

\* While a run goes on both are about to do the same instruction.
LEMMA SameState ==
  ASSUME PairInv, ended = "no"
  PROVE  /\ directPc = pc /\ directMach = mach /\ directRegs = regs
         /\ Direct!Fetched = Fetched /\ Direct!Inst = Inst
         /\ Direct!Begun = Begun /\ Direct!Address = Address
<1>1. directPc = pc /\ directMach = mach /\ directRegs = regs
  BY DEF PairInv, Alike
<1>2. Direct!Fetched = Fetched
  BY <1>1, SameLoad DEF Direct!Fetched, Fetched
<1>3. Direct!Inst = Inst
  BY <1>2, SameWords DEF Direct!Inst, Inst
<1>4. Direct!Begun = Begun
  BY <1>1, <1>2, <1>3, SameShapes DEF Direct!Begun, Begun
<1>5. Direct!Address = Address
  BY <1>1, <1>3, SameWords DEF Direct!Address, Address
<1>6. QED
  BY <1>1, <1>2, <1>3, <1>4, <1>5

\* The direct interpreter's step is the action of the instruction fetched.
LEMMA DirectAction ==
  ASSUME Direct!Next, Direct!Inst.op \in Nat
  PROVE  /\ directFuel' = directFuel - 1
         /\ ~ Direct!Fetched.ok => Direct!FetchFault
         /\ Direct!Fetched.ok =>
              LET op == Direct!Inst.op IN
              /\ (op = 0 => Direct!Halt)   /\ (op = 1 => Direct!Movi)
              /\ (op = 2 => Direct!Add)    /\ (op = 3 => Direct!Sub)
              /\ (op = 4 => Direct!Addi)   /\ (op = 5 => Direct!LoadOf(5, 4))
              /\ (op = 6 => Direct!Str)    /\ (op = 7 => Direct!Bnz)
              /\ (op = 8 => Direct!Branch) /\ (op = 9 => Direct!LoadOf(9, 1))
              /\ (op > 9 => Direct!Undefined)
<1> DEFINE op == Direct!Inst.op
           Is(k) == Direct!Running /\ Direct!Fetched.ok /\ op = k
<1>1. \A k : Direct!Decodes(k) => Is(k)
  BY DEF Direct!Decodes
<1>2. /\ (Direct!Halt => Is(0)) /\ (Direct!Movi => Is(1)) /\ (Direct!Add => Is(2))
      /\ (Direct!Sub => Is(3)) /\ (Direct!Addi => Is(4)) /\ (Direct!Str => Is(6))
      /\ (Direct!Bnz => Is(7)) /\ (Direct!Branch => Is(8))
  BY <1>1 DEF Direct!Halt, Direct!Movi, Direct!Add, Direct!Sub, Direct!Addi, Direct!Str,
              Direct!Bnz, Direct!Branch
<1>3. (Direct!LoadOf(5, 4) => Is(5)) /\ (Direct!LoadOf(9, 1) => Is(9))
  BY <1>1 DEF Direct!LoadOf
<1>4. Direct!Undefined => Direct!Running /\ Direct!Fetched.ok /\ op > 9
  BY DEF Direct!Undefined
<1>5. Direct!FetchFault => Direct!Running /\ ~ Direct!Fetched.ok
  BY DEF Direct!FetchFault
<1>6. \/ Direct!FetchFault \/ Direct!Halt \/ Direct!Movi \/ Direct!Add \/ Direct!Sub
      \/ Direct!Addi \/ Direct!LoadOf(5, 4) \/ Direct!LoadOf(9, 1) \/ Direct!Str
      \/ Direct!Bnz \/ Direct!Branch \/ Direct!Undefined
  BY DEF Direct!Next, Direct!Ldr, Direct!Ldrb
<1>7. Direct!Running
  BY <1>2, <1>3, <1>4, <1>5, <1>6
<1>8. directFuel' = directFuel - 1
  BY <1>7 DEF Direct!Running
<1>9. ~ Direct!Fetched.ok => Direct!FetchFault
  BY <1>2, <1>3, <1>4, <1>5, <1>6
<1> HIDE DEF op
<1>10. Direct!Fetched.ok =>
         /\ (op = 0 => Direct!Halt)   /\ (op = 1 => Direct!Movi)
         /\ (op = 2 => Direct!Add)    /\ (op = 3 => Direct!Sub)
         /\ (op = 4 => Direct!Addi)   /\ (op = 5 => Direct!LoadOf(5, 4))
         /\ (op = 6 => Direct!Str)    /\ (op = 7 => Direct!Bnz)
         /\ (op = 8 => Direct!Branch) /\ (op = 9 => Direct!LoadOf(9, 1))
         /\ (op > 9 => Direct!Undefined)
  BY <1>2, <1>3, <1>4, <1>5, <1>6
<1>11. QED
  BY <1>8, <1>9, <1>10 DEF op

LEMMA PairInvInit ==
  ASSUME ToyAssumption, PairInit
  PROVE  PairInv
<1>1. IInv /\ ended = "no"
  BY IInvInit DEF PairInit, Init
<1>2. directPc = pc /\ directRegs = regs /\ directHalted = halted /\ directFuel = fuel
  BY SameMap DEF PairInit, Init, Direct!Init
<1>3. QED
  BY <1>1, <1>2 DEF PairInit, PairInv, Alike

\* An event put last is one the direct interpreter has recorded.
LEMMA RecordedLast ==
  ASSUME NEW m \in Machine, NEW e \in EventType, directMach'.trace = Emit(m, e).trace
  PROVE  Recorded(e.kind)'
<1>1. /\ Len(Emit(m, e).trace) \in DOMAIN Emit(m, e).trace
      /\ Emit(m, e).trace[Len(Emit(m, e).trace)] = e
  BY Emits DEF Machine, Emit
<1>2. QED
  BY <1>1 DEF Recorded

LEMMA NoteRecorded ==
  ASSUME NEW m \in Machine, directMach'.trace = Note(m, "data_abort").trace
  PROVE  Recorded("data_abort")'
<1> DEFINE e == Event("data_abort", 0, 0, 0)
<1>1. e \in EventType /\ e.kind = "data_abort" /\ Note(m, "data_abort") = Emit(m, e)
  BY DEF Event, EventType, Kinds, Note
<1> HIDE DEF e
<1>2. QED
  BY <1>1, RecordedLast

LEMMA FetchFaultAlike ==
  ASSUME ToyAssumption, PairInv, FetchFault, Direct!FetchFault
  PROVE  Alike'
<1>1. ended = "no" /\ ended' = "fetch"
  BY DEF PairInv, Alike, IInv, FetchFault, Running
<1>2. QED
  BY <1>1, SameState, SameShapes DEF FetchFault, Direct!FetchFault, Direct!StopAt, Alike

\* A block that does not stop leaves both where its outcome says.
LEMMA GoesOnAlike ==
  ASSUME PairInv, Execute, Done.stop = FALSE, directRegs' = Done.regs, directPc' = Done.to,
         directMach' = Retired(Done.mach), directHalted' = directHalted
  PROVE  Alike'
<1>1. ended' = "no"
  BY Endings DEF Execute
<1>2. directHalted' = FALSE
  BY DEF Execute, Running, PairInv, Alike, IInv
<1>3. /\ regs' = Done.regs /\ pc' = Done.to /\ mach' = Retired(Done.mach) /\ halted' = FALSE
  BY DEF Execute
<1>4. QED
  BY <1>1, <1>2, <1>3 DEF Alike

LEMMA ExecuteAlike ==
  ASSUME ToyAssumption, PairInv, Execute, Direct!Next
  PROVE  Alike'
<1>1. /\ Ready /\ ended = "no" /\ ~ halted /\ directHalted = halted
      /\ Inst.op \in Nat /\ Begun \in Machine
      /\ Done.mach \in Machine /\ Done.stop \in BOOLEAN /\ pc \in Word
  <2>1. /\ Ready /\ ended = "no" /\ ~ halted /\ directHalted = halted /\ pc \in Word
    BY DEF Ready, PairInv, Alike, IInv, Execute, Running
  <2>2. QED
    BY <2>1, InstTypes, DoneType
<1>2. /\ pc' = Done.to /\ regs' = Done.regs /\ halted' = Done.stop
      /\ mach' = Retired(Done.mach) /\ ended' = HowEnded
  BY DEF Execute
<1>3. LET op == Inst.op IN
      /\ (op = 0 => Direct!Halt)   /\ (op = 1 => Direct!Movi)
      /\ (op = 2 => Direct!Add)    /\ (op = 3 => Direct!Sub)
      /\ (op = 4 => Direct!Addi)   /\ (op = 5 => Direct!LoadOf(5, 4))
      /\ (op = 6 => Direct!Str)    /\ (op = 7 => Direct!Bnz)
      /\ (op = 8 => Direct!Branch) /\ (op = 9 => Direct!LoadOf(9, 1))
      /\ (op > 9 => Direct!Undefined)
  BY <1>1, SameState, DirectAction DEF Execute
<1>4. ASSUME NEW m, NEW v, Done = Sets(m, Inst.rd, v), Direct!Write(m, v)
      PROVE  Alike'
  <2>1. /\ Done.regs = [regs EXCEPT ![Inst.rd] = v] /\ Done.to = Plus(pc, 4)
        /\ Done.mach = Emit(m, Event("reg", Inst.rd, 0, v)) /\ Done.stop = FALSE
    BY <1>4 DEF Sets, Outcome
  <2>2. /\ directRegs' = Done.regs /\ directPc' = Done.to
        /\ directMach' = Retired(Done.mach) /\ directHalted' = directHalted
    <3>1. /\ directRegs' = [regs EXCEPT ![Inst.rd] = v]
          /\ directMach' = Direct!Retired(Direct!Emit(m, Direct!Event("reg", Inst.rd, 0, v)))
          /\ directPc' = Direct!Plus(pc, 4) /\ directHalted' = directHalted
      BY <1>1, <1>4, SameState DEF Direct!Write, Direct!GoOn
    <3>2. Direct!Retired(Direct!Emit(m, Direct!Event("reg", Inst.rd, 0, v)))
            = Retired(Emit(m, Event("reg", Inst.rd, 0, v)))
      BY SameShapes
    <3>3. QED
      BY <2>1, <3>1, <3>2, SameWords
  <2>3. QED
    BY <2>1, <2>2, GoesOnAlike
<1>5. ASSUME NEW to, Done = Outcome(regs, Begun, to, FALSE), Direct!JumpTo(to)
      PROVE  Alike'
  <2>1. Done.regs = regs /\ Done.to = to /\ Done.mach = Begun /\ Done.stop = FALSE
    BY <1>5 DEF Outcome
  <2>2. /\ directRegs' = Done.regs /\ directPc' = Done.to
        /\ directMach' = Retired(Done.mach) /\ directHalted' = directHalted
    BY <1>1, <1>5, <2>1, SameState, SameShapes DEF Direct!JumpTo
  <2>3. QED
    BY <2>1, <2>2, GoesOnAlike
<1>6. ASSUME NEW m, Done = Stops(m)
      PROVE  /\ pc' = Plus(pc, 4) /\ regs' = regs /\ halted' = TRUE /\ mach' = Retired(m)
             /\ m \in Machine /\ mach'.trace = m.trace /\ mach'.mem = m.mem /\ mach'.reads = m.reads
             /\ Inst.op = 0 => ended' = "halt"
             /\ Inst.op \in {5, 9} => ended' = "load"
             /\ Inst.op = 6 => ended' = "store"
             /\ Inst.op > 9 => ended' = "undefined"
  <2>1. Done.regs = regs /\ Done.to = Plus(pc, 4) /\ Done.mach = m /\ Done.stop = TRUE
    BY <1>6 DEF Stops, Outcome
  <2>2. HowEnded = CASE Inst.op = 0 -> "halt"
                     [] Inst.op \in {5, 9} -> "load"
                     [] Inst.op = 6 -> "store"
                     [] OTHER -> "undefined"
    BY <2>1, Zenon DEF HowEnded
  <2>3. Inst.op > 9 => Inst.op \notin {0, 5, 6, 9}
    BY <1>1
  <2>4. /\ m \in Machine /\ Retired(m).trace = m.trace
        /\ Retired(m).mem = m.mem /\ Retired(m).reads = m.reads
    <3>1. m \in Machine
      BY <1>1, <2>1
    <3>2. Retired(m).mem = m.mem /\ Retired(m).reads = m.reads
      BY <3>1 DEF Retired, Machine
    <3>3. QED
      BY <3>1, <3>2, Retires
  <2>5. /\ Inst.op = 0 => HowEnded = "halt"
        /\ Inst.op \in {5, 9} => HowEnded = "load"
        /\ Inst.op = 6 => HowEnded = "store"
        /\ Inst.op > 9 => HowEnded = "undefined"
    BY <2>2, <2>3
  <2>6. QED
    BY <1>2, <2>1, <2>4, <2>5
<1>7. CASE Inst.op = 0
  <2>1. Done = Stops(Begun)
    BY <1>1, <1>7, Outcomes
  <2>2. Direct!Halt
    BY <1>3, <1>7
  <2>3. /\ directPc' = Plus(pc, 4) /\ directMach' = Retired(Begun)
        /\ directRegs' = regs /\ directHalted' = TRUE
    BY <1>1, <2>2, SameState, SameShapes, SameWords DEF Direct!Halt
  <2>4. QED
    BY <1>6, <1>7, <2>1, <2>3 DEF Alike
<1>8. CASE Inst.op = 1
  <2>1. Direct!Write(Begun, Inst.imm)
    BY <1>1, <1>3, <1>8, SameState DEF Direct!Movi
  <2>2. QED
    BY <1>1, <1>4, <1>8, <2>1, Outcomes
<1>9. CASE Inst.op = 2
  <2>1. Direct!Write(Begun, Plus(regs[Inst.rs], regs[Inst.rt]))
    BY <1>1, <1>3, <1>9, SameState, SameWords DEF Direct!Add
  <2>2. QED
    BY <1>1, <1>4, <1>9, <2>1, Outcomes
<1>10. CASE Inst.op = 3
  <2>1. Direct!Write(Begun, Minus(regs[Inst.rs], regs[Inst.rt]))
    BY <1>1, <1>3, <1>10, SameState, SameWords DEF Direct!Sub
  <2>2. QED
    BY <1>1, <1>4, <1>10, <2>1, Outcomes
<1>11. CASE Inst.op = 4
  <2>1. Direct!Write(Begun, Address)
    BY <1>1, <1>3, <1>11, SameState DEF Direct!Addi
  <2>2. QED
    BY <1>1, <1>4, <1>11, <2>1, Outcomes
<1>12. ASSUME NEW n \in {1, 4}, Inst.op = (IF n = 4 THEN 5 ELSE 9), Direct!LoadOf(Inst.op, n)
       PROVE  Alike'
  <2> DEFINE L == Load(Begun, Address, n, "r")
  <2>1. Done = IF L.ok THEN Sets(L.mach, Inst.rd, L.val) ELSE Aborts(L.mach)
    BY <1>1, <1>12, Outcomes
  <2>2. L = Direct!Load(Direct!Begun, Direct!Address, n, "r")
    BY <1>1, SameState, SameLoad
  <2>3. L.mach \in Machine
    BY <1>1, InstTypes, LoadType
  <2> HIDE DEF L
  <2>4. /\ L.ok => Direct!Write(L.mach, L.val)
        /\ ~ L.ok => Direct!StopAt(Direct!Note(L.mach, "data_abort"))
    BY <1>12, <2>2 DEF Direct!LoadOf
  <2>5. CASE L.ok
    BY <1>4, <2>1, <2>4, <2>5
  <2>6. CASE ~ L.ok
    <3> DEFINE m == Note(L.mach, "data_abort")
    <3>1. Done = Stops(m)
      BY <2>1, <2>6 DEF Aborts
    <3>2. directRegs' = regs /\ directHalted' = TRUE /\ directMach' = m
      BY <1>1, <2>4, <2>6, SameState, SameShapes DEF Direct!StopAt
    <3>3. Recorded("data_abort")'
      BY <2>3, <3>2, NoteRecorded
    <3> HIDE DEF m
    <3>4. ended' = "load"
      BY <1>6, <1>12, <3>1
    <3>5. QED
      BY <1>6, <3>1, <3>2, <3>3, <3>4 DEF Alike
  <2>7. QED
    BY <2>5, <2>6
<1>13. CASE Inst.op = 5
  BY <1>3, <1>12, <1>13
<1>14. CASE Inst.op = 9
  BY <1>3, <1>12, <1>14
<1>15. CASE Inst.op = 6
  <2> DEFINE S == Store(Begun, Address, 4, regs[Inst.rd])
  <2>1. Done = IF S.ok THEN Falls(S.mach) ELSE Aborts(S.mach)
    BY <1>1, <1>15, Outcomes
  <2>2. S = Direct!Store(Direct!Begun, Direct!Address, 4, directRegs[Direct!Inst.rd])
    BY <1>1, SameState, SameStore
  <2>3. S.mach \in Machine
    BY <1>1, InstTypes, StoreType
  <2>4. Direct!Str
    BY <1>3, <1>15
  <2> HIDE DEF S
  <2>5. CASE S.ok
    <3>1. Done.regs = regs /\ Done.to = Plus(pc, 4) /\ Done.mach = S.mach /\ Done.stop = FALSE
      BY <2>1, <2>5 DEF Falls, Outcome
    <3>2. /\ directRegs' = Done.regs /\ directPc' = Done.to
          /\ directMach' = Retired(Done.mach) /\ directHalted' = directHalted
      BY <1>1, <2>2, <2>4, <2>5, <3>1, SameState, SameShapes, SameWords DEF Direct!Str, Direct!GoOn
    <3>3. QED
      BY <3>1, <3>2, GoesOnAlike
  <2>6. CASE ~ S.ok
    <3> DEFINE m == Note(S.mach, "data_abort")
    <3>1. Done = Stops(m)
      BY <2>1, <2>6 DEF Aborts
    <3>2. directRegs' = regs /\ directHalted' = TRUE /\ directMach' = Retired(m)
      BY <1>1, <2>2, <2>4, <2>6, SameState, SameShapes DEF Direct!Str, Direct!StopAt
    <3>3. m \in Machine /\ directMach'.trace = m.trace
      BY <2>3, <3>2, Notes, Retires DEF Kinds
    <3>4. Recorded("data_abort")'
      BY <2>3, <3>3, NoteRecorded
    <3> HIDE DEF m
    <3>5. ended' = "store"
      BY <1>6, <1>15, <3>1
    <3>6. QED
      BY <1>6, <3>1, <3>2, <3>3, <3>4, <3>5 DEF Alike
  <2>7. QED
    BY <2>5, <2>6
<1>16. CASE Inst.op = 7
  <2> DEFINE to == IF regs[Inst.rs] # 0 THEN BranchTo(pc, Inst.imm) ELSE Plus(pc, 4)
  <2>1. Done = Outcome(regs, Begun, to, FALSE)
    BY <1>1, <1>16, Outcomes DEF Falls
  <2>2. Direct!JumpTo(to)
    BY <1>1, <1>3, <1>16, SameState, SameWords DEF Direct!Bnz
  <2>3. QED
    BY <1>5, <2>1, <2>2
<1>17. CASE Inst.op = 8
  <2>1. Done = Outcome(regs, Begun, BranchTo(pc, Inst.imm), FALSE)
    BY <1>1, <1>17, Outcomes
  <2>2. Direct!JumpTo(BranchTo(pc, Inst.imm))
    BY <1>1, <1>3, <1>17, SameState, SameWords DEF Direct!Branch
  <2>3. QED
    BY <1>5, <2>1, <2>2
<1>18. CASE Inst.op > 9
  <2> DEFINE u == Event("unsupported", pc, 0, Inst.op)
  <2>1. Done = Stops(Begun)
    BY <1>1, <1>18, Outcomes
  <2>2. Direct!Undefined
    BY <1>3, <1>18
  <2>3. directRegs' = regs /\ directHalted' = TRUE /\ directMach' = Emit(Begun, u)
    <3>1. /\ directRegs' = regs /\ directHalted' = TRUE
          /\ directMach' = Direct!Emit(Begun, Direct!Event("unsupported", pc, 0, Inst.op))
      BY <1>1, <2>2, SameState DEF Direct!Undefined, Direct!StopAt
    <3>2. Direct!Emit(Begun, Direct!Event("unsupported", pc, 0, Inst.op)) = Emit(Begun, u)
      BY SameShapes
    <3>3. QED
      BY <3>1, <3>2
  <2>4. u \in EventType /\ u.kind = "unsupported"
    BY <1>1, WordBounds DEF Event, EventType, Kinds
  <2> HIDE DEF u
  <2>5. Recorded("unsupported")'
    BY <1>1, <2>3, <2>4, RecordedLast
  <2>6. Emit(Begun, u).mem = Begun.mem /\ Emit(Begun, u).reads = Begun.reads
    BY <1>1 DEF Emit, Machine
  <2>7. ended' = "undefined"
    BY <1>6, <1>18, <2>1
  <2>8. QED
    BY <1>6, <2>1, <2>3, <2>5, <2>6, <2>7 DEF Alike
<1>19. \/ Inst.op \in {0, 1, 2, 3, 4, 5, 6, 7, 8, 9}
       \/ Inst.op > 9
  <2>1. \A x \in Nat : x \in {0, 1, 2, 3, 4, 5, 6, 7, 8, 9} \/ x > 9
    OBVIOUS
  <2>2. QED
    BY <1>1, <2>1
<1>20. QED
  BY <1>7, <1>8, <1>9, <1>10, <1>11, <1>13, <1>14, <1>15, <1>16, <1>17, <1>18, <1>19

LEMMA PairInvStep ==
  ASSUME ToyAssumption, PairInv, [PairNext]_pairVars
  PROVE  PairInv'
<1>1. CASE UNCHANGED <<vars, directVars>>
  BY <1>1 DEF vars, directVars, PairInv, Alike, IInv, Recorded
<1>2. CASE PairNext /\ Stopped
  <2>1. DirectStopped
    BY <1>2 DEF PairInv, Alike, Stopped, DirectStopped
  <2>2. QED
    BY <1>1, <1>2, <2>1 DEF PairNext
<1>3. CASE PairNext /\ ~ Stopped
  <2>1. Step /\ Direct!Next
    BY <1>3 DEF PairNext, PairInv, Alike, Stopped, DirectStopped
  <2>2. IInv' /\ fuel' = fuel - 1
    BY <2>1, IInvStep DEF PairInv, Alike, Step, FetchFault, Execute, Running
  <2>3. ended = "no"
    BY <1>3 DEF PairInv, Alike, IInv, Stopped
  <2>4. Direct!Inst.op \in Nat /\ Direct!Fetched = Fetched
    <3>1. Fetched.val \in Word
      BY LoadType DEF PairInv, Alike, IInv, Fetched
    <3>2. Inst.op \in Nat
      BY <3>1, FieldTypes DEF Inst
    <3>3. QED
      BY <2>3, <3>2, SameState
  <2>5. directFuel' = fuel'
    BY <2>1, <2>2, <2>4, DirectAction DEF PairInv, Alike
  <2>6. CASE FetchFault
    <3>1. Direct!FetchFault
      BY <2>1, <2>4, <2>6, DirectAction DEF FetchFault
    <3>2. Alike'
      BY <2>6, <3>1, FetchFaultAlike
    <3>3. QED
      BY <2>2, <2>5, <3>2 DEF Alike, PairInv
  <2>7. CASE Execute
    <3>1. Alike'
      BY <2>1, <2>7, ExecuteAlike
    <3>2. QED
      BY <2>2, <2>5, <3>1 DEF Alike, PairInv
  <2>8. QED
    BY <2>1, <2>6, <2>7 DEF Step
<1>4. QED
  BY <1>1, <1>2, <1>3 DEF pairVars

\* The registers, memory, machine and program counter keep their types, and
\* a run has ended exactly when the interpreter has halted.
THEOREM IRTypesKept ==
  ASSUME ToyAssumption
  PROVE  Spec => []IInv
<1>1. Init => IInv
  BY IInvInit
<1>2. IInv /\ [Step]_vars => IInv'
  BY IInvStep
<1>3. QED
  BY <1>1, <1>2, PTL DEF Spec

\* step (Toy.lean) and stepIR (IR.lean), from one state and with one fuel, agree on
\* registers, memory, device reads and whether the program has stopped, on the events
\* of every program without an undefined opcode, and on pc and icount too as long as no
\* access is refused: for every width, memory map, policy, program and fuel.
THEOREM IRFollowsDirect ==
  ASSUME ToyAssumption
  PROVE  PairSpec => []SameRun
<1>1. PairInit => PairInv
  BY PairInvInit
<1>2. PairInv /\ [PairNext]_pairVars => PairInv'
  BY PairInvStep
<1>3. PairInv => SameRun
  BY DEF PairInv, Alike, SameRun
<1>4. QED
  BY <1>1, <1>2, <1>3, PTL DEF PairSpec

-----------------------------------------------------------------------------
(***************************************************************************)
(* The independent interpreter.                                            *)
(***************************************************************************)

-----------------------------------------------------------------------------
(* Arithmetic.                                                             *)

\* Quotient and remainder are the only ones.
LEMMA OnlyRemainder ==
  ASSUME NEW m \in Nat \ {0}, NEW x \in Int, NEW q \in Int, NEW r \in 0 .. m - 1, x = m * q + r
  PROVE  x % m = r /\ x \div m = q
<1>1. x = m * (x \div m) + (x % m) /\ x % m \in 0 .. m - 1 /\ x \div m \in Int
  BY Division
<1> DEFINE d == x \div m
           s == x % m
<1>2. m * d + s = m * q + r /\ d \in Int /\ s \in 0 .. m - 1
  BY <1>1
<1> HIDE DEF d, s
<1>3. m * (d - q) = r - s
  <2>1. m * (d - q) = m * d - m * q
    BY <1>2
  <2>2. m * d \in Int /\ m * q \in Int
    BY <1>2
  <2>3. QED
    BY <1>2, <2>1, <2>2
<1>4. d - q = 0
  <2>1. d - q \in Int /\ r - s \in Int /\ -m < r - s /\ r - s < m
    BY <1>2
  <2>2. QED
    BY <1>3, <2>1, Multiple
<1>5. d = q
  BY <1>2, <1>4
<1>6. s = r
  <2>1. m * q \in Int
    OBVIOUS
  <2>2. QED
    BY <1>2, <1>5, <2>1
<1>7. QED
  BY <1>5, <1>6 DEF d, s

\* Dividing by two numbers is dividing by their product.
LEMMA Twice ==
  ASSUME NEW w \in Nat, NEW a \in Nat \ {0}, NEW b \in Nat \ {0}
  PROVE  w \div (a * b) = (w \div a) \div b
<1> DEFINE q == w \div a
           r == w % a
           s == q \div b
           t == q % b
<1>1. w = a * q + r /\ r \in 0 .. a - 1 /\ q \in Int
  BY Division
<1>2. q = b * s + t /\ t \in 0 .. b - 1 /\ s \in Int
  BY <1>1, Division
<1> HIDE DEF q, r, s, t
<1>3. w = (a * b) * s + (a * t + r)
  <2>1. a * q = a * (b * s) + a * t
    BY <1>2
  <2>2. a * (b * s) = (a * b) * s
    BY <1>2
  <2>3. (a * b) * s \in Int /\ a * t \in Int
    BY <1>2
  <2>4. QED
    BY <1>1, <2>1, <2>2, <2>3
<1>4. a * t + r \in 0 .. a * b - 1
  <2>1. a * t \in Nat /\ a * t <= a * (b - 1)
    <3>1. \A x \in Nat, y \in Nat : a * (x + y) >= a * x
      OBVIOUS
    <3>2. b - 1 = t + (b - 1 - t) /\ b - 1 - t \in Nat /\ t \in Nat
      BY <1>2
    <3>3. QED
      BY <3>1, <3>2
  <2>2. a * (b - 1) = a * b - a /\ a * b \in Nat
    OBVIOUS
  <2>3. QED
    BY <1>1, <2>1, <2>2
<1>5. a * b \in Nat \ {0}
  OBVIOUS
<1>6. w \div (a * b) = s
  BY <1>2, <1>3, <1>4, <1>5, OnlyRemainder
<1>7. QED
  BY <1>6 DEF s, q

\* Division of naturals.
LEMMA DivMod ==
  ASSUME NEW m \in Nat \ {0}, NEW x \in Nat
  PROVE  /\ x \div m \in Nat /\ x % m \in Nat /\ x % m < m
         /\ x = m * (x \div m) + (x % m)
<1>1. x \div m \in Nat
  BY Quotient
<1>2. x \in Int
  OBVIOUS
<1>3. x = m * (x \div m) + (x % m) /\ x % m \in 0 .. m - 1
  BY <1>2, Division
<1> QED BY <1>1, <1>3

\* A number is made of its digits.
LEMMA Digits ==
  ASSUME NEW b \in Nat \ {0}, NEW w \in Nat
  PROVE  LET q1 == w \div b
             q2 == q1 \div b
             q3 == q2 \div b
         IN /\ q1 \in Nat /\ q2 \in Nat /\ q3 \in Nat
            /\ w = (w % b) + b * ((q1 % b) + b * ((q2 % b) + b * q3))
<1> DEFINE q1 == w \div b
           q2 == q1 \div b
           q3 == q2 \div b
<1>1. q1 \in Nat /\ w % b \in Nat /\ w = b * q1 + (w % b)
  BY DivMod
<1>2. q2 \in Nat /\ q1 % b \in Nat /\ q1 = b * q2 + (q1 % b)
  BY <1>1, DivMod
<1>3. q3 \in Nat /\ q2 % b \in Nat /\ q2 = b * q3 + (q2 % b)
  BY <1>2, DivMod
<1>4. \A x \in Nat, y \in Nat : b * x + y = y + b * x
  OBVIOUS
<1>5. w = (w % b) + b * q1 /\ q1 = (q1 % b) + b * q2 /\ q2 = (q2 % b) + b * q3
  <2>1. w = (w % b) + b * q1
    BY <1>1, <1>4, Zenon
  <2>2. q1 = (q1 % b) + b * q2
    BY <1>2, <1>4, Zenon
  <2>3. q2 = (q2 % b) + b * q3
    BY <1>3, <1>4, Zenon
  <2> QED BY <2>1, <2>2, <2>3
<1> DEFINE r0 == w % b
           r1 == q1 % b
           r2 == q2 % b
<1>6. w = r0 + b * q1 /\ q1 = r1 + b * q2 /\ q2 = r2 + b * q3
  BY <1>5
<1> HIDE DEF r0, r1, r2
<1>7. w = r0 + b * (r1 + b * (r2 + b * q3))
  BY <1>6, Zenon
<1> QED BY <1>1, <1>2, <1>3, <1>7 DEF r0, r1, r2

\* What is below a product leaves, divided by one factor, less than the other.
LEMMA BelowProduct ==
  ASSUME NEW c \in Nat \ {0}, NEW b \in Nat \ {0}, NEW w \in Nat, w < c * b
  PROVE  w \div c < b
<1> DEFINE q == w \div c
           r == w % c
<1>1. q \in Nat /\ r \in Nat /\ w = c * q + r
  BY DivMod
<1> HIDE DEF q, r
<1>2. ASSUME NEW k \in Nat PROVE c * (b + k) >= c * b
  OBVIOUS
<1>3. CASE q >= b
  <2>1. q = b + (q - b) /\ q - b \in Nat
    BY <1>1, <1>3
  <2>2. c * q >= c * b
    BY <1>2, <2>1
  <2>3. c * q \in Nat /\ c * b \in Nat
    BY <1>1
  <2> QED BY <1>1, <2>2, <2>3
<1>4. CASE ~ (q >= b)
  BY <1>1, <1>4 DEF q
<1> QED BY <1>3, <1>4

\* A word is made of its bytes.
LEMMA Recombine ==
  ASSUME ToyAssumption, NEW w \in Word
  PROVE  (ByteOf(w, 0) + ByteMod * (ByteOf(w, 1) + ByteMod * (ByteOf(w, 2)
            + ByteMod * ByteOf(w, 3)))) % Modulus = w
<1> DEFINE b2 == ByteMod * ByteMod
           b3 == ByteMod * ByteMod * ByteMod
           q1 == w \div ByteMod
           q2 == q1 \div ByteMod
           q3 == q2 \div ByteMod
<1>1. w \in Nat /\ w < Modulus /\ ByteMod \in Nat \ {0} /\ Modulus = b3 * ByteMod
  BY WordBounds, Positive DEF ToyAssumption
<1>2. ASSUME NEW x \in Nat \ {0}, NEW y \in Nat \ {0}
      PROVE  x * y \in Nat \ {0}
  OBVIOUS
<1>3. b2 \in Nat \ {0} /\ b3 \in Nat \ {0} /\ b3 = b2 * ByteMod
  BY <1>1, <1>2
<1>4. w \div b2 = q2
  BY <1>1, Twice
<1>5. w \div b3 = q3
  <2> HIDE DEF b2, b3, q1, q2
  <2>1. w \div b3 = (w \div b2) \div ByteMod
    BY <1>1, <1>3, Twice
  <2> QED BY <1>4, <2>1
<1>6. q3 < ByteMod
  <2> HIDE DEF b2, b3, q1, q2, q3
  <2> QED BY <1>1, <1>3, <1>5, BelowProduct
<1>7. /\ q1 \in Nat /\ q2 \in Nat /\ q3 \in Nat
      /\ w = (w % ByteMod) + ByteMod * ((q1 % ByteMod) + ByteMod * ((q2 % ByteMod) + ByteMod * q3))
  <2>1. w \in Nat /\ ByteMod \in Nat \ {0}
    BY <1>1
  <2> QED BY <2>1, Digits, Zenon
<1>8. q3 % ByteMod = q3
  <2> HIDE DEF q3
  <2>1. q3 \in 0 .. ByteMod - 1
    BY <1>1, <1>6, <1>7
  <2> QED BY <1>1, <2>1, OneRound
<1>9. /\ ByteOf(w, 0) = w % ByteMod /\ ByteOf(w, 1) = q1 % ByteMod
      /\ ByteOf(w, 2) = q2 % ByteMod /\ ByteOf(w, 3) = q3
  <2>1. /\ ByteOf(w, 0) = w % ByteMod /\ ByteOf(w, 1) = q1 % ByteMod
        /\ ByteOf(w, 2) = (w \div b2) % ByteMod /\ ByteOf(w, 3) = (w \div b3) % ByteMod
    BY DEF ByteOf
  <2> HIDE DEF b2, b3, q1, q2, q3
  <2> QED BY <1>4, <1>5, <1>8, <2>1
<1>10. w % Modulus = w
  BY WordsStay
<1> HIDE DEF q1, q2, q3
<1> QED
  BY <1>7, <1>9, <1>10, Zenon

\* A negative immediate, as a word.
LEMMA NegativeWord ==
  ASSUME ToyAssumption, NEW imm \in 0 .. ImmMod - 1
  PROVE  /\ 2 * imm < ImmMod => SignExtend(imm) = imm
         /\ 2 * imm >= ImmMod => SignExtend(imm) = Modulus - ImmMod + imm
         /\ Modulus - ImmMod + imm \in Int
<1>1. Modulus \in Nat \ {0} /\ ImmMod \in Nat \ {0} /\ imm % Modulus = imm
  BY Positive, ImmStays
<1>2. ImmMod <= Modulus
  BY DEF ToyAssumption
<1>3. Modulus - ImmMod + imm \in 0 .. Modulus - 1
  <2>1. Modulus \in Nat /\ ImmMod \in Nat /\ imm \in Nat /\ imm < ImmMod
    BY <1>1
  <2> QED BY <1>2, <2>1
<1>4. ((Modulus - ImmMod + imm) - Modulus) % Modulus = Modulus - ImmMod + imm
  BY <1>1, <1>3, OneRound
<1>5. (Modulus - ImmMod + imm) - Modulus = imm - ImmMod
  BY <1>1
<1>6. (imm - ImmMod) % Modulus = Modulus - ImmMod + imm
  BY <1>4, <1>5, Zenon
<1>7. CASE 2 * imm < ImmMod
  BY <1>1, <1>3, <1>7 DEF SignExtend
<1>8. CASE ~ (2 * imm < ImmMod)
  <2>1. SignExtend(imm) = (imm - ImmMod) % Modulus
    BY <1>8 DEF SignExtend
  <2> QED BY <1>3, <1>6, <1>8, <2>1
<1> QED BY <1>7, <1>8

\* Both add an immediate alike.
LEMMA SameOffset ==
  ASSUME ToyAssumption, NEW x \in Word, NEW imm \in 0 .. ImmMod - 1
  PROVE  AddImm(x, imm) = Plus(x, SignExtend(imm))
<1>1. imm \in Int /\ ImmMod \in Int
  BY Positive
<1>2. CASE 2 * imm >= ImmMod
  BY <1>2, NegativeWord DEF AddImm, Plus
<1>3. CASE ~ (2 * imm >= ImmMod)
  <2>1. 2 * imm < ImmMod
    BY <1>1, <1>3
  <2> QED BY <1>3, <2>1, NegativeWord DEF AddImm, Plus
<1> QED BY <1>2, <1>3

\* Both subtract alike.
LEMMA SameDifference ==
  ASSUME ToyAssumption, NEW x \in Word, NEW y \in Word
  PROVE  (x + (Modulus - (y % Modulus))) % Modulus = Minus(x, y)
<1>1. /\ x \in Nat /\ x < Modulus /\ y \in Nat /\ y < Modulus /\ Modulus \in Nat \ {0}
      /\ y % Modulus = y
  BY WordBounds, WordsStay, Positive
<1>2. (x + (Modulus - y)) % Modulus = (x - y) % Modulus
  <2>1. CASE x >= y
    <3>1. x - y \in 0 .. Modulus - 1
      BY <1>1, <2>1
    <3>2. (x - y) % Modulus = x - y /\ ((x - y) + Modulus) % Modulus = x - y
      BY <1>1, <3>1, OneRound
    <3>3. (x - y) + Modulus = x + (Modulus - y)
      BY <1>1
    <3> QED BY <3>2, <3>3, Zenon
  <2>2. CASE x < y
    <3> DEFINE z == x + (Modulus - y)
    <3>1. z \in 0 .. Modulus - 1 /\ z - Modulus = x - y
      <4>1. x \in Nat /\ y \in Nat /\ y < Modulus /\ Modulus \in Nat
        BY <1>1
      <4> QED BY <2>2, <4>1
    <3> HIDE DEF z
    <3>2. z % Modulus = z /\ (z - Modulus) % Modulus = z
      BY <1>1, <3>1, OneRound
    <3>3. z % Modulus = (x - y) % Modulus
      BY <3>1, <3>2
    <3> QED BY <3>3 DEF z
  <2> QED BY <1>1, <2>1, <2>2
<1> QED
  BY <1>1, <1>2 DEF Minus

\* A jump of the flat interpreter keeps to multiples of four.
LEMMA TargetAligned ==
  ASSUME ToyAssumption, altPc \in Nat, altPc % 4 = 0, NEW imm \in 0 .. ImmMod - 1
  PROVE  /\ AltTarget(imm) \in Nat /\ AltTarget(imm) % 4 = 0
         /\ altPc + 4 \in Nat /\ (altPc + 4) % 4 = 0
<1>1. ImmMod \in Nat /\ imm \in Nat /\ ImmMod - imm \in Nat
  BY Positive
<1>2. \A x \in Nat : x % 4 = 0 /\ x >= 4 * imm => x - 4 * imm \in Nat
  BY <1>1
<1>3. AltTarget(imm) \in Nat /\ AltTarget(imm) % 4 = 0
  BY <1>1 DEF AltTarget, Back
<1> QED BY <1>3

LEMMA ThreeRounds ==
  ASSUME NEW m \in Nat \ {0}, NEW r \in 0 .. m - 1
  PROVE  (m * 3 + r) % m = r
<1> DEFINE x == m * 3 + r
<1>1. x \in Int /\ x = m * 3 + r /\ 3 \in Int
  OBVIOUS
<1> HIDE DEF x
<1>2. x % m = r
  BY <1>1, OnlyRemainder
<1> QED BY <1>2 DEF x

LEMMA BelowZero ==
  ASSUME NEW p \in Nat, NEW d \in Nat, NEW m \in Nat, NEW i \in Nat,
         d <= 2 * i, p + 4 <= m - 2 * i, d > p
  PROVE  p + (m - d) \in 0 .. m - 1
OBVIOUS

\* The two jump to one place, or the word interpreter below zero, which is
\* near the top of memory.
LEMMA SameTarget ==
  ASSUME ToyAssumption, pc \in Nat, altPc = pc, pc + 4 <= Modulus - 2 * ImmMod,
         NEW imm \in 0 .. ImmMod - 1
  PROVE  \/ BranchTo(pc, imm) = AltTarget(imm)
         \/ BranchTo(pc, imm) + 4 > Modulus - 2 * ImmMod
<1>1. /\ Modulus \in Nat \ {0} /\ ImmMod \in Nat \ {0} /\ imm \in Nat /\ imm < ImmMod
      /\ ImmMod <= Modulus
  <2>1. ImmMod <= Modulus
    BY DEF ToyAssumption
  <2> QED BY <2>1, Positive
<1>2. CASE 2 * imm < ImmMod
  <2>1. imm * 4 \in 0 .. Modulus - 1 /\ pc + imm * 4 \in 0 .. Modulus - 1
    BY <1>1, <1>2
  <2>2. SignExtend(imm) = imm
    BY <1>2, NegativeWord
  <2>3. (imm * 4) % Modulus = imm * 4 /\ (pc + imm * 4) % Modulus = pc + imm * 4
    BY <1>1, <2>1, OneRound
  <2>4. BranchTo(pc, imm) = pc + imm * 4
    BY <2>2, <2>3 DEF BranchTo, Plus
  <2>5. ~ (2 * imm >= ImmMod)
    BY <1>1, <1>2
  <2>6. AltTarget(imm) = altPc + imm * 4
    BY <2>5 DEF AltTarget
  <2> QED BY <2>4, <2>6
<1>3. CASE 2 * imm >= ImmMod
  <2> DEFINE d == (ImmMod - imm) * 4
  <2>1. d \in Nat /\ d <= 2 * ImmMod /\ d > 0
    BY <1>1, <1>3
  <2>2. SignExtend(imm) = Modulus - ImmMod + imm
    BY <1>3, NegativeWord
  <2>3. (Modulus - ImmMod + imm) * 4 = Modulus * 3 + (Modulus - d)
    BY <1>1
  <2>4. AltTarget(imm) = IF d > altPc THEN 0 ELSE altPc - d
    BY <1>3 DEF AltTarget, Back
  <2>5. BranchTo(pc, imm) = (pc + ((SignExtend(imm) * 4) % Modulus)) % Modulus
    BY DEF BranchTo, Plus
  <2> HIDE DEF d
  <2>6. Modulus - d \in 0 .. Modulus - 1
    BY <1>1, <2>1
  <2>7. (Modulus * 3 + (Modulus - d)) % Modulus = Modulus - d
    <3>1. Modulus \in Nat \ {0}
      BY <1>1
    <3> QED BY <2>6, <3>1, ThreeRounds
  <2>8. BranchTo(pc, imm) = (pc + (Modulus - d)) % Modulus
    BY <2>2, <2>3, <2>5, <2>7, Zenon
  <2>9. CASE d > pc
    <3>1. pc + (Modulus - d) \in 0 .. Modulus - 1
      <4>1. pc \in Nat /\ Modulus \in Nat /\ d <= 2 * ImmMod /\ pc + 4 <= Modulus - 2 * ImmMod
            /\ ImmMod \in Nat /\ d \in Nat
        BY <1>1, <2>1
      <4> QED BY <2>9, <4>1, BelowZero
    <3>2. BranchTo(pc, imm) = pc + (Modulus - d)
      <4>1. Modulus \in Nat \ {0}
        BY <1>1
      <4>2. (pc + (Modulus - d)) % Modulus = pc + (Modulus - d)
        <5> DEFINE z == pc + (Modulus - d)
        <5>1. z \in 0 .. Modulus - 1
          BY <3>1
        <5> HIDE DEF z
        <5>2. z % Modulus = z
          BY <4>1, <5>1, OneRound
        <5> QED BY <5>2 DEF z
      <4> QED BY <2>8, <4>2, Zenon
    <3> QED BY <1>1, <2>1, <3>2
  <2>10. CASE ~ (d > pc)
    <3>1. pc - d \in 0 .. Modulus - 1 /\ (pc - d) + Modulus = pc + (Modulus - d)
      BY <1>1, <2>1, <2>10
    <3>2. ((pc - d) + Modulus) % Modulus = pc - d
      BY <1>1, <3>1, OneRound
    <3>3. BranchTo(pc, imm) = pc - d
      BY <2>8, <3>1, <3>2, Zenon
    <3> QED BY <2>4, <2>10, <3>3
  <2> QED BY <2>9, <2>10
<1> QED BY <1>1, <1>2, <1>3

-----------------------------------------------------------------------------
(* The code the word interpreter fetches.                                  *)

\* The addresses that can be fetched from, and what a program puts there.
Code == UNION {Window(r) : r \in {q \in Regions : "x" \in q.perms}}
CodeByte(p, a) == IF a < 4 * Len(p) THEN ByteOf(p[a \div 4 + 1], a % 4) ELSE 0
Fetchable(a) == a \notin Device /\ Verdict(a, 4, "x") = "ok"
Holds(m, p) == \A a \in Code : m.mem[a] = CodeByte(p, a)
WordAt(p, a) == IF a \div 4 < Len(p) THEN p[a \div 4 + 1] ELSE 0

\* An instruction that can be fetched is code, far from the top of memory.
LEMMA FetchedInside ==
  ASSUME ToyAssumption, FlatAssumption, NEW a \in Nat, Fetchable(a)
  PROVE  /\ \A c \in a .. a + 3 : c \in Code
         /\ a + 4 <= Modulus - 2 * ImmMod
<1> DEFINE r == RegionOf(a)
<1>1. a \in Mapped /\ "x" \in r.perms /\ ~ (a + 4 > r.base + r.size)
  BY DEF Fetchable, Verdict
<1>2. r \in Regions /\ a \in Window(r)
  BY <1>1 DEF Mapped, RegionOf
<1> HIDE DEF r
<1>3. r.base \in Nat /\ r.size \in Nat
  BY <1>2 DEF ToyAssumption
<1>4. r.base + r.size <= Modulus - 2 * ImmMod
  BY <1>1, <1>2 DEF FlatAssumption
<1>5. \A c \in a .. a + 3 : c \in Window(r)
  BY <1>1, <1>2, <1>3 DEF Window
<1>6. Modulus \in Nat /\ ImmMod \in Nat
  BY Positive
<1>7. a + 4 <= Modulus - 2 * ImmMod
  BY <1>1, <1>3, <1>4, <1>6
<1> QED
  BY <1>1, <1>2, <1>5, <1>7 DEF Code

\* The word fetched at a multiple of four is the program's.
LEMMA FetchedWord ==
  ASSUME ToyAssumption, FlatAssumption, NEW a \in Nat, a % 4 = 0, Fetchable(a),
         NEW p \in Seq(Word), NEW m, Holds(m, p)
  PROVE  ValueAt(m.mem, a, 4) = WordAt(p, a) /\ WordAt(p, a) \in Word
<1>1. /\ m.mem[a] = CodeByte(p, a) /\ m.mem[a + 1] = CodeByte(p, a + 1)
      /\ m.mem[a + 2] = CodeByte(p, a + 2) /\ m.mem[a + 3] = CodeByte(p, a + 3)
  <2>1. a \in Code /\ a + 1 \in Code /\ a + 2 \in Code /\ a + 3 \in Code
    BY FetchedInside
  <2> QED BY <2>1 DEF Holds
<1>2. Len(p) \in Nat /\ a \div 4 \in Nat
  OBVIOUS
<1>3. ValueAt(m.mem, a, 4) =
        (m.mem[a] + ByteMod * (m.mem[a + 1] + ByteMod * (m.mem[a + 2]
          + ByteMod * m.mem[a + 3]))) % Modulus
  BY DEF ValueAt
<1>4. CASE a \div 4 < Len(p)
  <2> DEFINE w == p[a \div 4 + 1]
  <2>1. w \in Word
    <3>1. a \div 4 + 1 \in 1 .. Len(p)
      BY <1>2, <1>4
    <3> QED BY <3>1
  <2>2. /\ a < 4 * Len(p) /\ a + 1 < 4 * Len(p) /\ a + 2 < 4 * Len(p) /\ a + 3 < 4 * Len(p)
        /\ (a + 1) \div 4 = a \div 4 /\ (a + 2) \div 4 = a \div 4 /\ (a + 3) \div 4 = a \div 4
        /\ (a + 1) % 4 = 1 /\ (a + 2) % 4 = 2 /\ (a + 3) % 4 = 3
    BY <1>2, <1>4
  <2>3. /\ CodeByte(p, a) = ByteOf(w, 0) /\ CodeByte(p, a + 1) = ByteOf(w, 1)
        /\ CodeByte(p, a + 2) = ByteOf(w, 2) /\ CodeByte(p, a + 3) = ByteOf(w, 3)
    BY <2>2 DEF CodeByte
  <2>4. WordAt(p, a) = w
    BY <1>4 DEF WordAt
  <2> HIDE DEF w
  <2>5. (ByteOf(w, 0) + ByteMod * (ByteOf(w, 1) + ByteMod * (ByteOf(w, 2)
           + ByteMod * ByteOf(w, 3)))) % Modulus = w
    BY <2>1, Recombine
  <2>6. ValueAt(m.mem, a, 4) = w
    BY <1>1, <1>3, <2>3, <2>5, Zenon
  <2> QED BY <2>1, <2>4, <2>6
<1>5. CASE ~ (a \div 4 < Len(p))
  <2>1. /\ ~ (a < 4 * Len(p)) /\ ~ (a + 1 < 4 * Len(p))
        /\ ~ (a + 2 < 4 * Len(p)) /\ ~ (a + 3 < 4 * Len(p))
    BY <1>2, <1>5
  <2>2. /\ m.mem[a] = 0 /\ m.mem[a + 1] = 0 /\ m.mem[a + 2] = 0 /\ m.mem[a + 3] = 0
    BY <1>1, <2>1 DEF CodeByte
  <2>3. (0 + ByteMod * (0 + ByteMod * (0 + ByteMod * 0))) % Modulus = 0
    <3>1. 0 + ByteMod * (0 + ByteMod * (0 + ByteMod * 0)) = 0
      BY Positive
    <3>2. 0 % Modulus = 0
      <4>1. 0 \in Word
        BY Positive DEF Word
      <4> QED BY <4>1, WordsStay
    <3> QED BY <3>1, <3>2
  <2>4. ValueAt(m.mem, a, 4) = 0
    BY <1>3, <2>2, <2>3, Zenon
  <2>5. WordAt(p, a) = 0 /\ 0 \in Word
    BY <1>5, Positive DEF WordAt, Word
  <2> QED BY <2>4, <2>5
<1> QED BY <1>4, <1>5

-----------------------------------------------------------------------------
(* What an access or an event does to a machine.                           *)

\* The events of a run that type-checks.
Logged == [kind : Kinds \ {"ill_typed"}, at : Word, n : 0 .. 4, val : Word]

\* Machine n comes after m in one instruction: it has m's counters, policy and
\* code, and m's events first.
After(m, n) ==
  /\ n.icount = m.icount /\ n.policy = m.policy
  /\ \A a \in Code : n.mem[a] = m.mem[a]
  /\ m.trace \in Seq(Logged) => n.trace \in Seq(Logged)
  /\ Plain(n.trace) => Plain(m.trace)

LEMMA AfterAfter ==
  ASSUME NEW k, NEW m, NEW n, After(k, m), After(m, n)
  PROVE  After(k, n)
BY DEF After

\* One more event.
LEMMA Logs ==
  ASSUME ToyAssumption, NEW m \in Machine, NEW e \in Logged
  PROVE  /\ After(m, Emit(m, e)) /\ Emit(m, e) \in Machine
         /\ Plain(Emit(m, e).trace) <=> Plain(m.trace) /\ e.kind \in CanonKinds
         /\ CanonLines(Emit(m, e).trace) = Append(CanonLines(m.trace), Canon(e))
<1> DEFINE t == m.trace
           u == Append(t, e)
<1>1. t \in Seq(EventType) /\ e \in EventType
  <2>1. m.trace \in Seq(EventType)
    BY DEF Machine
  <2>2. \A v \in Word : v \in Nat
    BY WordBounds
  <2> QED BY <2>1, <2>2 DEF Logged, EventType
<1>2. Emit(m, e) = [m EXCEPT !.trace = u]
  BY DEF Emit
<1>3. /\ Emit(m, e).trace = u /\ Emit(m, e).icount = m.icount
      /\ Emit(m, e).policy = m.policy /\ Emit(m, e).mem = m.mem
  BY <1>2 DEF Machine
<1>4. /\ Len(u) = Len(t) + 1 /\ DOMAIN u = 1 .. Len(t) + 1 /\ DOMAIN t = 1 .. Len(t)
      /\ Len(t) \in Nat
      /\ \A k \in 1 .. Len(t) : u[k] = t[k]
      /\ u[Len(t) + 1] = e
  BY <1>1
<1> HIDE DEF t, u
<1>5. Plain(u) <=> Plain(t) /\ e.kind \in CanonKinds
  BY <1>4 DEF Plain
<1>6. CanonLines(u) = Append(CanonLines(t), Canon(e))
  <2> DEFINE f == CanonLines(t)
             g == CanonLines(u)
             h == Append(f, Canon(e))
             L == {Canon(t[k]) : k \in 1 .. Len(t)}
  <2>1. DOMAIN f = 1 .. Len(t) /\ \A k \in 1 .. Len(t) : f[k] = Canon(t[k])
    BY <1>4 DEF CanonLines
  <2>2. g = [k \in 1 .. Len(t) + 1 |-> Canon(u[k])]
    BY <1>4 DEF CanonLines
  <2>3. f \in Seq(L) /\ Len(f) = Len(t)
    <3>1. f = [k \in 1 .. Len(t) |-> Canon(t[k])]
      BY <1>4 DEF CanonLines
    <3> HIDE DEF f
    <3>2. f \in [1 .. Len(t) -> L]
      BY <3>1
    <3> HIDE DEF L
    <3>3. Len(t) \in Nat
      BY <1>4
    <3> DEFINE n == Len(t)
    <3> HIDE DEF n
    <3>4. n \in Nat /\ f \in [1 .. n -> L] => f \in Seq(L) /\ Len(f) = n
      OBVIOUS
    <3> QED BY <3>2, <3>3, <3>4 DEF n
  <2> HIDE DEF f
  <2>4. h = [k \in 1 .. Len(t) + 1 |-> IF k = Len(t) + 1 THEN Canon(e) ELSE f[k]]
    <3> DEFINE x == Canon(e)
               n == Len(t)
               M == L \cup {x}
    <3> HIDE DEF x, L
    <3>1. f \in Seq(M) /\ x \in M /\ Len(f) = n /\ n \in Nat
      BY <1>4, <2>3
    <3> HIDE DEF n, M
    <3>2. Append(f, x) \in Seq(M) /\ Len(Append(f, x)) = n + 1
      BY <3>1
    <3>3. \A k \in 1 .. n + 1 : Append(f, x)[k] = IF k = n + 1 THEN x ELSE f[k]
      BY <3>1
    <3>4. Append(f, x) = [k \in 1 .. n + 1 |-> Append(f, x)[k]]
      <4> DEFINE z == Append(f, x)
      <4> HIDE DEF z
      <4>1. z \in Seq(M) /\ Len(z) = n + 1 /\ n \in Nat
        BY <3>1, <3>2 DEF z
      <4>2. z \in [1 .. n + 1 -> M]
        BY <4>1
      <4>3. z = [k \in 1 .. n + 1 |-> z[k]]
        BY <4>2
      <4> QED BY <4>3 DEF z
    <3>5. Append(f, x) = [k \in 1 .. n + 1 |-> IF k = n + 1 THEN x ELSE f[k]]
      <4>1. [k \in 1 .. n + 1 |-> Append(f, x)[k]]
              = [k \in 1 .. n + 1 |-> IF k = n + 1 THEN x ELSE f[k]]
        BY <3>3
      <4> QED BY <3>4, <4>1, Zenon
    <3> QED BY <3>5 DEF x, n
  <2>5. \A k \in 1 .. Len(t) + 1 :
          Canon(u[k]) = IF k = Len(t) + 1 THEN Canon(e) ELSE f[k]
    <3> TAKE k \in 1 .. Len(t) + 1
    <3>1. CASE k = Len(t) + 1
      BY <1>4, <3>1
    <3>2. CASE k # Len(t) + 1
      <4>1. k \in 1 .. Len(t)
        BY <1>4, <3>2
      <4> QED BY <1>4, <2>1, <3>2, <4>1
    <3> QED BY <3>1, <3>2
  <2> HIDE DEF h, g
  <2>6. g = h
    BY <2>2, <2>4, <2>5, Zenon
  <2> QED BY <2>6 DEF f, g, h
<1>7. m.trace \in Seq(Logged) => u \in Seq(Logged)
  BY DEF u, t
<1>8. After(m, Emit(m, e))
  BY <1>3, <1>5, <1>7 DEF After, t
<1>9. Emit(m, e) \in Machine
  BY <1>1, Emits
<1> QED
  BY <1>3, <1>5, <1>6, <1>8, <1>9 DEF t

\* An event of a word's address and value.
LEMMA LoggedEvent ==
  ASSUME ToyAssumption, NEW kind \in Kinds \ {"ill_typed"}, NEW at \in Word, NEW n \in 0 .. 4,
         NEW v \in Word
  PROVE  Event(kind, at, n, v) \in Logged /\ Event(kind, at, n, v).kind = kind
BY DEF Event, Logged

\* The lines of the four kinds of event that have one.
LEMMA CanonOf ==
  ASSUME NEW a, NEW n, NEW v
  PROVE  /\ Canon(Event("fetch", a, n, v)) = Line("F", a, v)
         /\ Canon(Event("exec", a, n, v)) = Line("X", 0, v)
         /\ Canon(Event("reg", a, n, v)) = Line("R", a, v)
         /\ Canon(Event("memWrite", a, n, v)) = Line("W", a, v)
BY DEF Canon, Event

\* A noted failure is not plain.
LEMMA NoteAfter ==
  ASSUME ToyAssumption, NEW m \in Machine, NEW kind \in {"cross", "fetch_fault", "data_abort"}
  PROVE  After(m, Note(m, kind)) /\ ~ Plain(Note(m, kind).trace) /\ Note(m, kind) \in Machine
<1>1. 0 \in Word /\ 0 \in 0 .. 4
  BY Positive DEF Word
<1>2. Event(kind, 0, 0, 0) \in Logged /\ Event(kind, 0, 0, 0).kind = kind
  BY <1>1, LoggedEvent DEF Kinds
<1> QED
  BY <1>2, Logs DEF Note, CanonKinds

\* A load leaves a machine after; one of data is not plain, and a plain fetch
\* is of code.
LEMMA LoadAfter ==
  ASSUME ToyAssumption, NEW m \in Machine, NEW a \in Word, NEW n \in {1, 4}, NEW need \in {"r", "x"}
  PROVE  LET L == Load(m, a, n, need) IN
         /\ After(m, L.mach)
         /\ L.ok /\ need = "r" => ~ Plain(L.mach.trace)
         /\ L.ok /\ need = "x" /\ n = 4 /\ Plain(L.mach.trace) =>
              /\ Fetchable(a)
              /\ L.val = ValueAt(m.mem, a, 4)
              /\ L.mach = Emit(m, Event("fetch", a, 0, ValueAt(m.mem, a, 4)))
<1> DEFINE L == Load(m, a, n, need)
           Good(x) == /\ After(m, x.mach)
                      /\ x.ok /\ need = "r" => ~ Plain(x.mach.trace)
                      /\ x.ok /\ need = "x" /\ n = 4 /\ Plain(x.mach.trace) =>
                           /\ Fetchable(a)
                           /\ x.val = ValueAt(m.mem, a, 4)
                           /\ x.mach = Emit(m, Event("fetch", a, 0, ValueAt(m.mem, a, 4)))
<1> SUFFICES Good(L)
  OBVIOUS
<1>0. a \in Nat /\ n \in 0 .. 4 /\ 0 \in 0 .. 4
  BY WordBounds
<1>1. ASSUME NEW k \in Machine, NEW v, ~ Plain(k.trace), After(m, k)
      PROVE  Good(Ok(v, k)) /\ Good(Fault(k))
  BY <1>1 DEF Ok, Fault
<1>2. Good(Fault(m))
  BY DEF Fault, After
<1>3. CASE a \in Device /\ PastWindow(a, n)
  <2>1. L = Fault(Note(m, "cross"))
    BY <1>3 DEF Load
  <2> HIDE DEF L, Good
  <2> QED BY <1>1, <2>1, NoteAfter
<1>4. CASE a \in Device /\ ~ PastWindow(a, n)
  <2> DEFINE v == StatusValue(m.reads + 1)
             r == [m EXCEPT !.reads = m.reads + 1]
             e == Event("mmioRead", a, n, v)
  <2>1. L = Ok(v, Emit(r, e))
    BY <1>4 DEF Load
  <2>2. r \in Machine /\ After(m, r)
    <3>1. m.reads + 1 \in Nat
      BY DEF Machine
    <3>2. r \in Machine
      BY <3>1 DEF Machine
    <3>3. r.icount = m.icount /\ r.policy = m.policy /\ r.mem = m.mem /\ r.trace = m.trace
      BY DEF Machine
    <3> HIDE DEF r
    <3> QED BY <3>2, <3>3 DEF After
  <2>3. e \in Logged /\ e.kind = "mmioRead"
    BY <1>0, DeviceAnswers, LoggedEvent DEF Kinds
  <2> HIDE DEF v, r, e, L, Good
  <2>4. After(r, Emit(r, e)) /\ ~ Plain(Emit(r, e).trace) /\ Emit(r, e) \in Machine
    BY <2>2, <2>3, Logs DEF CanonKinds
  <2>5. After(m, Emit(r, e))
    BY <2>2, <2>4, AfterAfter
  <2> QED BY <1>1, <2>1, <2>4, <2>5
<1>5. CASE a \notin Device /\ Verdict(a, n, need) = "ok"
  <2> DEFINE v == ValueAt(m.mem, a, n)
             e == IF need = "x" THEN Event("fetch", a, 0, v) ELSE Event("memRead", a, n, v)
  <2>1. L = Ok(v, Emit(m, e))
    BY <1>5 DEF Load
  <2>2. v \in Word
    <3>1. m.mem \in [Mapped -> Byte]
      BY DEF Machine
    <3> QED BY <1>0, <1>5, <3>1, Inside, Values
  <2> HIDE DEF v, L
  <2>3. e \in Logged /\ (need = "r" => e.kind = "memRead")
    <3>1. /\ Event("fetch", a, 0, v) \in Logged
          /\ Event("memRead", a, n, v) \in Logged /\ Event("memRead", a, n, v).kind = "memRead"
      BY <1>0, <2>2, LoggedEvent DEF Kinds
    <3> QED BY <3>1
  <2>4. n = 4 /\ need = "x" => e = Event("fetch", a, 0, ValueAt(m.mem, a, 4)) /\ v = ValueAt(m.mem, a, 4)
    BY DEF v
  <2> HIDE DEF e
  <2>5. After(m, Emit(m, e)) /\ (need = "r" => ~ Plain(Emit(m, e).trace))
    BY <2>3, Logs DEF CanonKinds
  <2>6. L.ok = TRUE /\ L.val = v /\ L.mach = Emit(m, e)
    BY <2>1 DEF Ok
  <2>7. n = 4 /\ need = "x" => Fetchable(a)
    BY <1>5 DEF Fetchable
  <2> QED BY <2>4, <2>5, <2>6, <2>7
<1>6. CASE a \notin Device /\ Verdict(a, n, need) \in {"perm", "cross"}
  <2>1. L = Fault(m)
    BY <1>6 DEF Load
  <2> HIDE DEF L, Good
  <2> QED BY <1>2, <2>1
<1>7. CASE a \notin Device /\ Verdict(a, n, need) = "unmapped"
  <2> DEFINE e == Event("unknownRead", a, n, Default(n))
             seen == Emit(m, e)
  <2>1. L = IF m.policy.onRead = "default" THEN Ok(Default(n), seen) ELSE Fault(seen)
    BY <1>7 DEF Load
  <2>2. e \in Logged /\ e.kind = "unknownRead"
    BY <1>0, DeviceAnswers, LoggedEvent DEF Kinds
  <2> HIDE DEF e, L, Good
  <2>3. After(m, seen) /\ ~ Plain(seen.trace) /\ seen \in Machine
    BY <2>2, Logs DEF CanonKinds
  <2> HIDE DEF seen
  <2>4. Good(Ok(Default(n), seen)) /\ Good(Fault(seen))
    BY <1>1, <2>3
  <2> QED BY <2>1, <2>4
<1> HIDE DEF L, Good
<1> QED
  BY <1>3, <1>4, <1>5, <1>6, <1>7, Verdicts, Zenon

\* A store does not reach code.
LEMMA CodeKept ==
  ASSUME ToyAssumption, FlatAssumption, NEW m \in Machine, NEW a \in Nat, NEW v \in Word,
         Verdict(a, 4, "w") = "ok"
  PROVE  \A c \in Code : Stored(m.mem, a, 4, v)[c] = m.mem[c]
<1> DEFINE r == RegionOf(a)
<1>1. a \in Mapped /\ "w" \in r.perms /\ ~ (a + 4 > r.base + r.size)
  BY DEF Verdict
<1>2. r \in Regions /\ a \in Window(r)
  BY <1>1 DEF Mapped, RegionOf
<1> HIDE DEF r
<1>3. r.base \in Nat /\ r.size \in Nat
  BY <1>2 DEF ToyAssumption
<1>4. \A c \in a .. a + 4 - 1 : c \in Window(r)
  BY <1>1, <1>2, <1>3 DEF Window
<1>5. ASSUME NEW c \in Code
      PROVE  Stored(m.mem, a, 4, v)[c] = m.mem[c]
  <2>1. PICK q \in Regions : "x" \in q.perms /\ c \in Window(q)
    BY <1>5 DEF Code
  <2>2. q # r
    BY <1>1, <2>1 DEF FlatAssumption
  <2>3. Window(q) \cap Window(r) = {}
    BY <1>2, <2>1, <2>2 DEF ToyAssumption
  <2>4. c \notin a .. a + 4 - 1
    BY <1>4, <2>1, <2>3, Zenon
  <2>5. DOMAIN m.mem = Mapped /\ c \in Mapped
    BY <2>1 DEF Machine, Mapped
  <2> QED BY <2>4, <2>5 DEF Stored
<1> QED BY <1>5

\* A store leaves a machine after; a plain one has written memory.
LEMMA StoreAfter ==
  ASSUME ToyAssumption, FlatAssumption, NEW m \in Machine, NEW a \in Word, NEW v \in Word
  PROVE  LET S == Store(m, a, 4, v) IN
         /\ After(m, S.mach)
         /\ S.ok /\ Plain(S.mach.trace) =>
              CanonLines(S.mach.trace) = Append(CanonLines(m.trace), Line("W", a, v))
<1> DEFINE S == Store(m, a, 4, v)
           Good(x) == /\ After(m, x.mach)
                      /\ x.ok /\ Plain(x.mach.trace) =>
                           CanonLines(x.mach.trace) = Append(CanonLines(m.trace), Line("W", a, v))
<1> SUFFICES Good(S)
  OBVIOUS
<1>0. a \in Nat /\ 4 \in 0 .. 4
  BY WordBounds
<1>1. ASSUME NEW k \in Machine, NEW x, ~ Plain(k.trace), After(m, k)
      PROVE  Good(Ok(x, k)) /\ Good(Fault(k))
  BY <1>1 DEF Ok, Fault
<1>2. Good(Fault(m))
  BY DEF Fault, After
<1>3. CASE a \in Device /\ PastWindow(a, 4)
  <2>1. S = Fault(Note(m, "cross"))
    BY <1>3 DEF Store
  <2> HIDE DEF S, Good
  <2> QED BY <1>1, <2>1, NoteAfter
<1>4. CASE a \in Device /\ ~ PastWindow(a, 4)
  <2> DEFINE e == Event("mmioWrite", a, 4, v)
  <2>1. S = Ok(0, Emit(m, e))
    BY <1>4 DEF Store
  <2>2. e \in Logged /\ e.kind = "mmioWrite"
    BY <1>0, LoggedEvent DEF Kinds
  <2> HIDE DEF e, S, Good
  <2>3. After(m, Emit(m, e)) /\ ~ Plain(Emit(m, e).trace) /\ Emit(m, e) \in Machine
    BY <2>2, Logs DEF CanonKinds
  <2> QED BY <1>1, <2>1, <2>3
<1>5. CASE a \notin Device /\ Verdict(a, 4, "w") = "ok"
  <2> DEFINE new == Stored(m.mem, a, 4, v)
             r == [m EXCEPT !.mem = new]
             e == Event("memWrite", a, 4, v)
  <2>1. S = Ok(0, Emit(r, e))
    BY <1>5 DEF Store
  <2>2. \A c \in Code : new[c] = m.mem[c]
    BY <1>0, <1>5, CodeKept
  <2>3. new \in [Mapped -> Byte]
    <3>1. \A c \in a .. a + 4 - 1 : c - a \in 0 .. 3
      BY <1>0
    <3>2. m.mem \in [Mapped -> Byte]
      BY DEF Machine
    <3> QED BY <3>1, <3>2, Bytes DEF Stored
  <2> HIDE DEF new
  <2>4. /\ r \in Machine /\ r.trace = m.trace /\ r.icount = m.icount /\ r.policy = m.policy
        /\ r.mem = new
    BY <2>3 DEF Machine
  <2> HIDE DEF r
  <2>5. After(m, r)
    BY <2>2, <2>4 DEF After
  <2>6. e \in Logged /\ Canon(e) = Line("W", a, v)
    BY <1>0, LoggedEvent, CanonOf DEF Kinds
  <2> HIDE DEF e
  <2>7. After(r, Emit(r, e)) /\ CanonLines(Emit(r, e).trace) = Append(CanonLines(m.trace), Line("W", a, v))
    BY <2>4, <2>6, Logs
  <2>8. After(m, Emit(r, e))
    BY <2>5, <2>7, AfterAfter
  <2>9. S.ok = TRUE /\ S.mach = Emit(r, e)
    <3> HIDE DEF S
    <3> QED BY <2>1 DEF Ok
  <2> HIDE DEF S
  <2> QED BY <2>7, <2>8, <2>9
<1>6. CASE a \notin Device /\ Verdict(a, 4, "w") \in {"perm", "cross"}
  <2>1. S = Fault(m)
    BY <1>6 DEF Store
  <2> HIDE DEF S, Good
  <2> QED BY <1>2, <2>1
<1>7. CASE a \notin Device /\ Verdict(a, 4, "w") = "unmapped"
  <2> DEFINE e == Event("unknownWrite", a, 4, v)
             seen == Emit(m, e)
  <2>1. S = IF m.policy.onWrite = "default" THEN Ok(0, seen) ELSE Fault(seen)
    BY <1>7 DEF Store
  <2>2. e \in Logged /\ e.kind = "unknownWrite"
    BY <1>0, LoggedEvent DEF Kinds
  <2> HIDE DEF e, S, Good
  <2>3. After(m, seen) /\ ~ Plain(seen.trace) /\ seen \in Machine
    BY <2>2, Logs DEF CanonKinds
  <2> HIDE DEF seen
  <2>4. Good(Ok(0, seen)) /\ Good(Fault(seen))
    BY <1>1, <2>3
  <2> QED BY <2>1, <2>4
<1> HIDE DEF S, Good
<1> QED
  BY <1>3, <1>4, <1>5, <1>6, <1>7, Verdicts, Zenon

-----------------------------------------------------------------------------
(* One step of the word interpreter.                                       *)

\* An opcode is a word.
LEMMA OpIsWord ==
  ASSUME ToyAssumption, NEW w \in Word
  PROVE  Decode(w).op \in Word
<1> DEFINE k == ImmMod * RegCount * RegCount
           q == w \div k
<1>1. Decode(w).op = q
  BY DEF Decode
<1>2. ASSUME NEW x \in Nat \ {0}, NEW y \in Nat \ {0} PROVE x * y \in Nat \ {0}
  OBVIOUS
<1>3. k \in Nat \ {0}
  BY <1>2, Positive
<1> HIDE DEF k
<1>4. w \in Nat /\ w < Modulus /\ Modulus \in Nat
  BY WordBounds, Positive
<1>5. q \in Nat /\ w % k \in Nat /\ w = k * q + (w % k)
  BY <1>3, <1>4, DivMod
<1> DEFINE r == w % k
<1> HIDE DEF q, r
<1>6. k * q >= q
  <2>1. \A x \in Nat, y \in Nat \ {0} : y * x >= x
    OBVIOUS
  <2> QED BY <1>3, <1>5, <2>1
<1>7. k * q \in Nat /\ w = k * q + r /\ r \in Nat
  <2>1. \A x, y \in Nat : x * y \in Nat
    OBVIOUS
  <2> QED BY <1>3, <1>5, <2>1 DEF r
<1>8. q <= w
  BY <1>4, <1>5, <1>6, <1>7
<1> QED
  BY <1>1, <1>4, <1>5, <1>8 DEF Word

\* The instruction is logged after its fetch.
LEMMA BegunAfter ==
  ASSUME Ready
  PROVE  /\ After(mach, Begun) /\ Inst.op \in Word
         /\ Plain(Begun.trace) => Plain(Fetched.mach.trace)
         /\ CanonLines(Begun.trace) = Append(CanonLines(Fetched.mach.trace), Line("X", 0, Inst.op))
<1> DEFINE e == Event("exec", pc, 0, Inst.op)
<1>1. ToyAssumption /\ pc \in Word /\ mach \in Machine /\ Fetched.mach \in Machine
  BY InstTypes DEF Ready, IInv
<1>2. Fetched.val \in Word
  BY <1>1, LoadType DEF Fetched
<1>3. Inst.op \in Word
  BY <1>1, <1>2, OpIsWord DEF Inst
<1>4. e \in Logged /\ Canon(e) = Line("X", 0, Inst.op)
  <2>1. 0 \in 0 .. 4 /\ "exec" \in Kinds \ {"ill_typed"}
    BY DEF Kinds
  <2> QED BY <1>1, <1>3, <2>1, LoggedEvent, CanonOf
<1>5. After(mach, Fetched.mach)
  BY <1>1, LoadAfter DEF Fetched
<1> HIDE DEF e
<1>6. /\ After(Fetched.mach, Emit(Fetched.mach, e))
      /\ Plain(Emit(Fetched.mach, e).trace) => Plain(Fetched.mach.trace)
      /\ CanonLines(Emit(Fetched.mach, e).trace)
           = Append(CanonLines(Fetched.mach.trace), Line("X", 0, Inst.op))
  BY <1>1, <1>4, Logs
<1>7. Begun = Emit(Fetched.mach, e)
  BY DEF Begun, e
<1> QED
  BY <1>3, <1>5, <1>6, <1>7, AfterAfter

\* So is the write of a register.
LEMMA SetsAfter ==
  ASSUME Ready, FlatAssumption, NEW m \in Machine, NEW v \in Word
  PROVE  LET S == Sets(m, Inst.rd, v) IN
         /\ After(m, S.mach)
         /\ Plain(S.mach.trace) => Plain(m.trace)
         /\ CanonLines(S.mach.trace) = Append(CanonLines(m.trace), Line("R", Inst.rd, v))
         /\ S.regs = [regs EXCEPT ![Inst.rd] = v] /\ S.to = Plus(pc, 4) /\ S.stop = FALSE
<1> DEFINE e == Event("reg", Inst.rd, 0, v)
<1>1. ToyAssumption /\ Inst.rd \in RegIdx
  BY InstTypes DEF Ready
<1>2. Inst.rd \in Word
  <2>1. RegCount \in Nat /\ Modulus \in Nat /\ RegCount <= Modulus
    BY <1>1, Positive DEF FlatAssumption
  <2> QED BY <1>1, <2>1 DEF RegIdx, Word
<1>3. e \in Logged /\ Canon(e) = Line("R", Inst.rd, v)
  <2>1. 0 \in 0 .. 4 /\ "reg" \in Kinds \ {"ill_typed"}
    BY DEF Kinds
  <2> QED BY <1>1, <1>2, <2>1, LoggedEvent, CanonOf
<1>4. Sets(m, Inst.rd, v) = Outcome([regs EXCEPT ![Inst.rd] = v], Emit(m, e), Plus(pc, 4), FALSE)
  BY DEF Sets
<1> HIDE DEF e
<1>5. /\ After(m, Emit(m, e))
      /\ Plain(Emit(m, e).trace) => Plain(m.trace)
      /\ CanonLines(Emit(m, e).trace) = Append(CanonLines(m.trace), Line("R", Inst.rd, v))
  BY <1>1, <1>3, Logs
<1> QED
  BY <1>4, <1>5 DEF Outcome

\* The machine a block leaves comes after the one it found; a plain block
\* has not loaded and has not failed.
LEMMA DoneAfter ==
  ASSUME Ready, FlatAssumption
  PROVE  /\ After(Begun, Done.mach)
         /\ Plain(Done.mach.trace) => Inst.op \notin {5, 9}
         /\ Plain(Done.mach.trace) /\ Inst.op = 6 =>
              /\ CanonLines(Done.mach.trace)
                   = Append(CanonLines(Begun.trace), Line("W", Address, regs[Inst.rd]))
              /\ Done.regs = regs /\ Done.to = Plus(pc, 4) /\ Done.stop = FALSE
<1>1. /\ ToyAssumption /\ Begun \in Machine /\ Inst.op \in Nat /\ Inst.imm \in Word
      /\ Address \in Word /\ regs[Inst.rd] \in Word /\ regs[Inst.rs] \in Word
      /\ regs[Inst.rt] \in Word
  BY InstTypes DEF Ready
<1>2. Plus(regs[Inst.rs], regs[Inst.rt]) \in Word /\ Minus(regs[Inst.rs], regs[Inst.rt]) \in Word
  BY <1>1, Sums, InstTypes
<1>3. After(Begun, Begun)
  BY DEF After
<1>4. ASSUME NEW m \in Machine, After(Begun, m)
      PROVE  After(Begun, Aborts(m).mach) /\ ~ Plain(Aborts(m).mach.trace)
  <2>1. Aborts(m).mach = Note(m, "data_abort")
    BY DEF Aborts, Stops, Outcome
  <2>2. After(m, Note(m, "data_abort")) /\ ~ Plain(Note(m, "data_abort").trace)
    BY <1>1, NoteAfter
  <2> QED BY <1>4, <2>1, <2>2, AfterAfter
<1>5. CASE Inst.op \in 1 .. 4
  <2>1. PICK v \in Word : Done = Sets(Begun, Inst.rd, v)
    BY <1>1, <1>2, <1>5, Outcomes
  <2>2. After(Begun, Done.mach)
    BY <1>1, <2>1, SetsAfter
  <2> QED BY <1>5, <2>2
<1>6. ASSUME NEW n \in {1, 4}, Inst.op = (IF n = 4 THEN 5 ELSE 9)
      PROVE  After(Begun, Done.mach) /\ ~ Plain(Done.mach.trace)
  <2> DEFINE L == Load(Begun, Address, n, "r")
  <2>1. Done = IF L.ok THEN Sets(L.mach, Inst.rd, L.val) ELSE Aborts(L.mach)
    BY <1>6, Outcomes
  <2>2. After(Begun, L.mach) /\ (L.ok => ~ Plain(L.mach.trace))
    BY <1>1, LoadAfter
  <2>3. L.mach \in Machine /\ L.val \in Word
    BY <1>1, LoadType
  <2> HIDE DEF L
  <2>4. CASE L.ok
    <3>1. Done = Sets(L.mach, Inst.rd, L.val)
      BY <2>1, <2>4
    <3>2. /\ After(L.mach, Sets(L.mach, Inst.rd, L.val).mach)
          /\ Plain(Sets(L.mach, Inst.rd, L.val).mach.trace) => Plain(L.mach.trace)
      BY <2>3, SetsAfter
    <3> QED BY <2>2, <2>4, <3>1, <3>2, AfterAfter
  <2>5. CASE ~ L.ok
    BY <1>4, <2>1, <2>2, <2>3, <2>5
  <2> QED BY <2>4, <2>5
<1>7. CASE Inst.op = 6
  <2> DEFINE S == Store(Begun, Address, 4, regs[Inst.rd])
  <2>1. Done = IF S.ok THEN Falls(S.mach) ELSE Aborts(S.mach)
    BY <1>7, Outcomes
  <2>2. /\ After(Begun, S.mach)
        /\ S.ok /\ Plain(S.mach.trace) =>
             CanonLines(S.mach.trace) = Append(CanonLines(Begun.trace), Line("W", Address, regs[Inst.rd]))
    BY <1>1, StoreAfter
  <2>3. S.mach \in Machine
    BY <1>1, StoreType
  <2> HIDE DEF S
  <2>4. CASE S.ok
    <3>1. Done = Falls(S.mach)
      BY <2>1, <2>4
    <3>2. /\ Done.mach = S.mach /\ Done.regs = regs /\ Done.to = Plus(pc, 4) /\ Done.stop = FALSE
      BY <3>1 DEF Falls, Outcome
    <3> QED BY <1>7, <2>2, <2>4, <3>2
  <2>5. CASE ~ S.ok
    BY <1>4, <1>7, <2>1, <2>2, <2>3, <2>5
  <2> QED BY <2>4, <2>5
<1>8. CASE Inst.op \in {0, 7, 8} \/ Inst.op > 9
  <2>1. Done.mach = Begun
    <3>1. CASE Inst.op = 7
      BY <3>1, Outcomes DEF Outcome, Falls
    <3>2. CASE Inst.op = 8
      BY <3>2, Outcomes DEF Outcome
    <3>3. CASE Inst.op = 0 \/ Inst.op > 9
      BY <3>3, Outcomes DEF Outcome, Stops
    <3> QED BY <1>8, <3>1, <3>2, <3>3
  <2> QED BY <1>1, <1>3, <1>8, <2>1
<1>9. CASE Inst.op \in {5, 9}
  <2>1. CASE Inst.op = 5
    BY <1>6, <2>1
  <2>2. CASE Inst.op = 9
    BY <1>6, <2>2
  <2> QED BY <1>9, <2>1, <2>2
<1>10. \/ Inst.op \in 1 .. 4 \/ Inst.op \in {5, 9} \/ Inst.op = 6
       \/ Inst.op \in {0, 7, 8} \/ Inst.op > 9
  <2>1. Inst.op \in Nat
    BY <1>1
  <2> DEFINE o == Inst.op
  <2> HIDE DEF o
  <2>2. o \in Nat => o \in 1 .. 4 \/ o \in {5, 9} \/ o = 6 \/ o \in {0, 7, 8} \/ o > 9
    OBVIOUS
  <2> QED BY <2>1, <2>2 DEF o
<1> QED
  BY <1>5, <1>7, <1>8, <1>9, <1>10

\* One step keeps the code and the policy, adds to the trace and counts at
\* most one instruction.
LEMMA StepAfter ==
  ASSUME ToyAssumption, FlatAssumption, IInv, Step, fuel \in 0 .. MaxFuel,
         mach.icount \in 0 .. MaxFuel, mach.icount + fuel <= MaxFuel,
         ended \in {"no", "fetch", "halt", "load", "store", "undefined"}
  PROVE  /\ After(mach, [mach' EXCEPT !.icount = mach.icount])
         /\ fuel' \in 0 .. MaxFuel
         /\ mach'.icount \in 0 .. MaxFuel /\ mach'.icount + fuel' <= MaxFuel
         /\ ended' \in {"no", "fetch", "halt", "load", "store", "undefined"}
<1>0. MaxFuel \in Nat /\ mach \in Machine /\ pc \in Word
  BY DEF IInv, ToyAssumption
<1>1. CASE FetchFault
  <2>1. fuel > 0 /\ fuel' = fuel - 1 /\ mach' = Note(Fetched.mach, "fetch_fault") /\ ended' = "fetch"
    BY <1>1 DEF FetchFault, Running
  <2>2. After(mach, Fetched.mach) /\ Fetched.mach \in Machine
    BY <1>0, LoadAfter, LoadType DEF Fetched
  <2>3. After(Fetched.mach, mach') /\ mach' \in Machine
    BY <2>1, <2>2, NoteAfter
  <2>4. After(mach, mach')
    BY <2>2, <2>3, AfterAfter
  <2>5. mach'.icount = mach.icount
    BY <2>4 DEF After
  <2>6. [mach' EXCEPT !.icount = mach.icount] = mach'
    BY <2>3, <2>5 DEF Machine
  <2> QED BY <1>0, <2>1, <2>4, <2>5, <2>6
<1>2. CASE Execute
  <2>1. Ready /\ fuel > 0 /\ fuel' = fuel - 1 /\ mach' = Retired(Done.mach) /\ ended' = HowEnded
    BY <1>2 DEF Execute, Running, Ready
  <2>2. After(mach, Done.mach) /\ Done.mach \in Machine
    BY <2>1, BegunAfter, DoneAfter, DoneType, AfterAfter
  <2>3. Done.mach.icount = mach.icount
    BY <2>2 DEF After
  <2>4. mach'.icount = mach.icount + 1 /\ [mach' EXCEPT !.icount = mach.icount] = Done.mach
    <3> DEFINE d == Done.mach
               i == mach.icount
    <3>1. d \in Machine /\ d.icount = i /\ mach' = Retired(d)
      BY <2>1, <2>2, <2>3
    <3> HIDE DEF d, i
    <3>2. mach' = [d EXCEPT !.icount = i + 1]
      BY <3>1 DEF Retired
    <3>3. mach'.icount = i + 1
      BY <3>1, <3>2 DEF Machine
    <3>4. [mach' EXCEPT !.icount = i] = d
      <4> DEFINE e == [d EXCEPT !.icount = i + 1]
                 f == [e EXCEPT !.icount = i]
      <4>1. /\ DOMAIN e = DOMAIN d /\ DOMAIN f = DOMAIN e
            /\ d = [x \in DOMAIN d |-> d[x]]
        BY <3>1 DEF Machine
      <4>2. \A x \in DOMAIN d : f[x] = d[x]
        BY <3>1 DEF Machine
      <4>3. f = [x \in DOMAIN f |-> f[x]]
        OBVIOUS
      <4> HIDE DEF e, f
      <4>4. f = d
        BY <4>1, <4>2, <4>3
      <4> QED BY <3>2, <4>4 DEF e, f
    <3> QED BY <3>3, <3>4 DEF d, i
  <2>5. HowEnded \in {"no", "halt", "load", "store", "undefined"}
    <3>1. CASE Done.stop
      BY <3>1, Endings
    <3>2. CASE ~ Done.stop
      BY <3>2, Endings
    <3> QED BY <3>1, <3>2
  <2>6. After(mach, [mach' EXCEPT !.icount = mach.icount])
    BY <2>2, <2>4
  <2>7. /\ fuel' \in 0 .. MaxFuel
        /\ mach'.icount \in 0 .. MaxFuel /\ mach'.icount + fuel' <= MaxFuel
    <3> DEFINE i == mach.icount
               j == mach'.icount
    <3>1. i \in 0 .. MaxFuel /\ i + fuel <= MaxFuel /\ j = i + 1
      BY <2>4
    <3> HIDE DEF i, j
    <3>2. /\ fuel' \in 0 .. MaxFuel
          /\ j \in 0 .. MaxFuel /\ j + fuel' <= MaxFuel
      BY <1>0, <2>1, <3>1
    <3> QED BY <3>2 DEF j
  <2> QED BY <2>1, <2>5, <2>6, <2>7
<1> QED
  BY <1>1, <1>2 DEF Step

-----------------------------------------------------------------------------
(* One step of the flat interpreter.                                       *)

LogLine == [line : {"F", "X", "R", "W"}, at : Nat, val : Word]

AltTypes ==
  /\ altPc \in Nat /\ altPc % 4 = 0
  /\ altRegs \in [RegIdx -> Word] /\ altHalted \in BOOLEAN
  /\ log \in Seq(LogLine) /\ altFuel \in 0 .. MaxFuel

LEMMA AltInstTypes ==
  ASSUME ToyAssumption, prog \in Programs, AltTypes
  PROVE  /\ AltWord \in Word /\ AltInst.op \in Word /\ AltInst.imm \in Word
         /\ AltInst.imm \in 0 .. ImmMod - 1
         /\ AltInst.rd \in RegIdx /\ AltInst.rs \in RegIdx /\ AltInst.rt \in RegIdx
<1>1. AltWord \in Word
  <2>1. prog \in Seq(Word) /\ altPc \in Nat
    BY DEF ToyAssumption, AltTypes
  <2>2. CASE altPc \div 4 < Len(prog)
    <3>1. altPc \div 4 + 1 \in 1 .. Len(prog)
      BY <2>1, <2>2
    <3> QED BY <2>1, <2>2, <3>1 DEF AltWord
  <2>3. CASE ~ (altPc \div 4 < Len(prog))
    BY <2>3, Positive DEF AltWord, Word
  <2> QED BY <2>2, <2>3
<1>2. AltInst.op \in Word
  BY <1>1, OpIsWord DEF AltInst
<1>3. /\ AltInst.imm \in 0 .. ImmMod - 1
      /\ AltInst.rd \in RegIdx /\ AltInst.rs \in RegIdx /\ AltInst.rt \in RegIdx
  BY <1>1, FieldTypes DEF AltInst
<1>4. AltInst.imm \in Word
  BY <1>3, ImmStays
<1> QED BY <1>1, <1>2, <1>3, <1>4

LEMMA AltStepTypes ==
  ASSUME ToyAssumption, prog \in Programs, AltTypes, AltStep
  PROVE  AltTypes'
<1> DEFINE x == altRegs[AltInst.rs]
           y == altRegs[AltInst.rt]
<1>1. /\ AltWord \in Word /\ AltInst.op \in Word /\ AltInst.imm \in Word
      /\ AltInst.imm \in 0 .. ImmMod - 1
      /\ AltInst.rd \in RegIdx /\ AltInst.rs \in RegIdx /\ AltInst.rt \in RegIdx
  BY AltInstTypes
<1>2. x \in Word /\ y \in Word /\ altRegs[AltInst.rd] \in Word
  BY <1>1 DEF AltTypes
<1>3. altFuel > 0 /\ altFuel' = altFuel - 1 /\ altFuel' \in 0 .. MaxFuel
  <2>1. MaxFuel \in Nat
    BY DEF ToyAssumption
  <2> QED BY <2>1 DEF AltStep, AltRunning, AltTypes
<1>4. /\ altPc + 4 \in Nat /\ (altPc + 4) % 4 = 0
      /\ AltTarget(AltInst.imm) \in Nat /\ AltTarget(AltInst.imm) % 4 = 0
  BY <1>1, TargetAligned DEF AltTypes
<1>5. ASSUME NEW lines \in Seq(LogLine), Prints(lines)
      PROVE  log' \in Seq(LogLine)
  <2> DEFINE f == Line("F", altPc, AltWord)
             e == Line("X", 0, AltInst.op)
  <2>1. f \in LogLine /\ e \in LogLine
    BY <1>1 DEF Line, LogLine, AltTypes
  <2>2. log' = log \o <<f, e>> \o lines
    BY <1>5 DEF Prints
  <2>3. log \in Seq(LogLine)
    BY DEF AltTypes
  <2> HIDE DEF f, e
  <2>4. <<f, e>> \in Seq(LogLine)
    BY <2>1
  <2>5. log \o <<f, e>> \in Seq(LogLine)
    BY <2>3, <2>4
  <2> QED BY <1>5, <2>2, <2>5
<1>6. <<>> \in Seq(LogLine)
  OBVIOUS
<1>7. ASSUME NEW v \in Word, AltWrite(v)
      PROVE  AltTypes'
  <2>1. AltInst.rd \in Nat
    BY <1>1, Positive DEF RegIdx
  <2>2. Line("R", AltInst.rd, v) \in LogLine
    BY <2>1 DEF Line, LogLine
  <2>3. <<Line("R", AltInst.rd, v)>> \in Seq(LogLine)
    BY <2>2
  <2>4. log' \in Seq(LogLine)
    BY <1>5, <1>7, <2>3 DEF AltWrite
  <2>5. altRegs' \in [RegIdx -> Word] /\ altPc' = altPc + 4 /\ altHalted' = altHalted
    BY <1>1, <1>7 DEF AltWrite, AltTypes
  <2> QED BY <1>3, <1>4, <2>4, <2>5 DEF AltTypes
<1>8. ASSUME NEW to \in Nat, to % 4 = 0, AltJump(to)
      PROVE  AltTypes'
  BY <1>3, <1>5, <1>6, <1>8 DEF AltJump, AltTypes
<1>9. AddImm(x, AltInst.imm) \in Word
  <2>1. SignExtend(AltInst.imm) \in Word
    BY <1>1, <1>2, Sums
  <2>2. Plus(x, SignExtend(AltInst.imm)) \in Word
    BY <1>1, <1>2, <2>1, Sums
  <2> HIDE DEF x
  <2> QED BY <1>1, <1>2, <2>2, SameOffset
<1>10. (x + y) % Modulus \in Word /\ (x + (Modulus - (y % Modulus))) % Modulus \in Word
  <2> HIDE DEF x, y
  <2>1. Plus(x, y) \in Word /\ Minus(x, y) \in Word
    BY <1>1, <1>2, Sums
  <2>2. (x + (Modulus - (y % Modulus))) % Modulus = Minus(x, y)
    BY <1>2, SameDifference
  <2> QED BY <2>1, <2>2 DEF Plus
<1>11. CASE \/ AltWrite(AltInst.imm) \/ AltWrite((x + y) % Modulus)
            \/ AltWrite((x + (Modulus - (y % Modulus))) % Modulus)
            \/ AltWrite(AddImm(x, AltInst.imm))
  <2> HIDE DEF x, y
  <2> QED BY <1>1, <1>7, <1>9, <1>10, <1>11, Zenon
<1>12. CASE /\ Prints(<<Line("W", AddImm(x, AltInst.imm), altRegs[AltInst.rd])>>)
            /\ altPc' = altPc + 4
            /\ UNCHANGED <<altRegs, altHalted>>
  <2> DEFINE w == Line("W", AddImm(x, AltInst.imm), altRegs[AltInst.rd])
  <2>1. AddImm(x, AltInst.imm) \in Nat
    BY <1>9, WordBounds
  <2>2. w \in LogLine
    BY <1>2, <2>1 DEF Line, LogLine
  <2>3. Prints(<<w>>)
    BY <1>12
  <2> HIDE DEF w, x
  <2>4. <<w>> \in Seq(LogLine)
    BY <2>2
  <2>5. log' \in Seq(LogLine)
    BY <1>5, <2>3, <2>4
  <2> QED BY <1>3, <1>4, <1>12, <2>5 DEF AltTypes
<1>13. CASE \/ AltJump(IF x # 0 THEN AltTarget(AltInst.imm) ELSE altPc + 4)
            \/ AltJump(AltTarget(AltInst.imm))
  <2> HIDE DEF x
  <2> QED BY <1>4, <1>8, <1>13
<1>14. CASE altHalted' = TRUE /\ altPc' = altPc + 4 /\ Prints(<<>>) /\ UNCHANGED altRegs
  BY <1>3, <1>4, <1>5, <1>6, <1>14 DEF AltTypes
<1> HIDE DEF AltTypes
<1> QED
  BY <1>11, <1>12, <1>13, <1>14 DEF AltStep

-----------------------------------------------------------------------------
(* Side by side.                                                           *)

\* While the run is plain the two hold the same registers and fuel, have
\* printed the same and stopped alike, and where the word interpreter can go
\* on, the flat one is at the same place.
Agree ==
  /\ log = CanonLines(mach.trace)
  /\ altHalted = halted /\ altRegs = regs /\ altFuel = fuel
  /\ halted \/ ~ Fetchable(pc) \/ pc = altPc

\* A plain instruction is one both have fetched, at the same place.
LEMMA SameInst ==
  ASSUME Ready, FlatAssumption, prog \in Programs, AltTypes, Holds(mach, prog),
         Agree, ~ halted, Plain(Begun.trace)
  PROVE  /\ altPc = pc /\ pc \in Nat /\ pc + 4 <= Modulus - 2 * ImmMod
         /\ Inst = AltInst
         /\ Plus(pc, 4) = altPc + 4
         /\ CanonLines(Begun.trace) = log \o <<Line("F", altPc, AltWord), Line("X", 0, AltInst.op)>>
<1>1. ToyAssumption /\ pc \in Word /\ mach \in Machine /\ Fetched.ok
  BY DEF Ready, IInv
<1>2. Plain(Fetched.mach.trace)
  BY BegunAfter
<1>3. /\ Fetchable(pc)
      /\ Fetched.val = ValueAt(mach.mem, pc, 4)
      /\ Fetched.mach = Emit(mach, Event("fetch", pc, 0, ValueAt(mach.mem, pc, 4)))
  BY <1>1, <1>2, LoadAfter DEF Fetched
<1>4. altPc = pc /\ pc \in Nat
  BY <1>1, <1>3, WordBounds DEF Agree
<1>5. pc + 4 <= Modulus - 2 * ImmMod
  BY <1>1, <1>3, <1>4, FetchedInside
<1>6. ValueAt(mach.mem, pc, 4) = AltWord /\ AltWord \in Word
  <2>1. prog \in Seq(Word) /\ pc % 4 = 0
    BY <1>1, <1>4 DEF ToyAssumption, AltTypes
  <2>2. ValueAt(mach.mem, pc, 4) = WordAt(prog, pc) /\ WordAt(prog, pc) \in Word
    BY <1>1, <1>3, <1>4, <2>1, FetchedWord
  <2>3. AltWord = WordAt(prog, pc)
    BY <1>4 DEF AltWord, WordAt
  <2> QED BY <2>2, <2>3
<1>7. Inst = AltInst
  BY <1>3, <1>6 DEF Inst, AltInst
<1>8. Plus(pc, 4) = altPc + 4
  <2>1. Modulus \in Nat \ {0} /\ ImmMod \in Nat \ {0}
    BY <1>1, Positive
  <2>2. pc + 4 \in 0 .. Modulus - 1
    BY <1>4, <1>5, <2>1
  <2> QED BY <1>4, <2>1, <2>2, OneRound DEF Plus
<1>9. CanonLines(Fetched.mach.trace) = Append(log, Line("F", altPc, AltWord))
  <2> DEFINE e == Event("fetch", pc, 0, AltWord)
  <2>1. e \in Logged /\ Canon(e) = Line("F", altPc, AltWord)
    <3>1. 0 \in 0 .. 4 /\ "fetch" \in Kinds \ {"ill_typed"}
      BY DEF Kinds
    <3>2. e \in Logged
      BY <1>1, <1>6, <3>1, LoggedEvent
    <3>3. Canon(e) = Line("F", pc, AltWord)
      BY CanonOf
    <3> QED BY <1>4, <3>2, <3>3
  <2>2. Fetched.mach = Emit(mach, e)
    BY <1>3, <1>6
  <2> HIDE DEF e
  <2>3. CanonLines(Emit(mach, e).trace) = Append(CanonLines(mach.trace), Canon(e))
    BY <1>1, <2>1, Logs
  <2> QED BY <2>1, <2>2, <2>3 DEF Agree
<1>10. CanonLines(Begun.trace) = log \o <<Line("F", altPc, AltWord), Line("X", 0, AltInst.op)>>
  <2> DEFINE f == Line("F", altPc, AltWord)
             e == Line("X", 0, AltInst.op)
  <2>1. CanonLines(Begun.trace) = Append(Append(log, f), e)
    BY <1>7, <1>9, BegunAfter
  <2>2. log \in Seq(LogLine) /\ f \in LogLine /\ e \in LogLine
    <3>1. AltInst.op \in Word /\ 0 \in Nat
      BY <1>1, AltInstTypes
    <3> QED BY <1>4, <1>6, <3>1 DEF AltTypes, Line, LogLine
  <2> HIDE DEF f, e
  <2>3. Append(Append(log, f), e) = log \o <<f, e>>
    BY <2>2
  <2> QED BY <2>1, <2>3 DEF f, e
<1> QED
  BY <1>4, <1>5, <1>7, <1>8, <1>10

LEMMA AppendOne ==
  ASSUME NEW S, NEW s \in Seq(S), NEW x \in S
  PROVE  Append(s, x) = s \o <<x>>
OBVIOUS

\* Together they take a plain step in agreement.
LEMMA PlainStep ==
  ASSUME ToyAssumption, FlatAssumption, IInv, prog \in Programs, AltTypes, Holds(mach, prog),
         Agree, Step, AltStep, Plain(mach'.trace)
  PROVE  Agree'
<1>1. Execute
  <2>1. CASE FetchFault
    <3>1. Fetched.mach \in Machine /\ mach' = Note(Fetched.mach, "fetch_fault")
      BY <2>1, LoadType DEF FetchFault, IInv, Fetched
    <3> QED BY <3>1, NoteAfter
  <2> QED BY <2>1 DEF Step
<1>2. Ready /\ ~ halted
  BY <1>1 DEF Execute, Running, Ready
<1>3. /\ pc' = Done.to /\ regs' = Done.regs /\ halted' = Done.stop /\ fuel' = fuel - 1
      /\ mach'.trace = Done.mach.trace
  <2>1. Done.mach \in Machine
    BY <1>2, DoneType
  <2>2. Retired(Done.mach).trace = Done.mach.trace
    BY <2>1, Retires
  <2> QED BY <1>1, <2>2 DEF Execute, Running
<1>4. altFuel' = altFuel - 1
  BY DEF AltStep
<1>5. /\ Plain(Done.mach.trace) /\ After(Begun, Done.mach) /\ Plain(Begun.trace)
      /\ Inst.op \notin {5, 9}
  BY <1>2, <1>3, DoneAfter DEF After
<1> DEFINE base == log \o <<Line("F", altPc, AltWord), Line("X", 0, AltInst.op)>>
<1>6. /\ altPc = pc /\ pc \in Nat /\ pc + 4 <= Modulus - 2 * ImmMod
      /\ Inst = AltInst /\ Plus(pc, 4) = altPc + 4
      /\ CanonLines(Begun.trace) = base
  BY <1>2, <1>5, SameInst
<1>7. /\ Begun \in Machine /\ Inst.op \in Nat /\ Inst.imm \in Word /\ Inst.imm \in 0 .. ImmMod - 1
      /\ Address \in Word /\ regs[Inst.rd] \in Word /\ regs[Inst.rs] \in Word
      /\ regs[Inst.rt] \in Word
  BY <1>2, InstTypes
<1>8. /\ Plus(regs[Inst.rs], regs[Inst.rt]) \in Word /\ Minus(regs[Inst.rs], regs[Inst.rt]) \in Word
      /\ AddImm(regs[Inst.rs], Inst.imm) = Address
      /\ (regs[Inst.rs] + (Modulus - (regs[Inst.rt] % Modulus))) % Modulus
           = Minus(regs[Inst.rs], regs[Inst.rt])
      /\ (regs[Inst.rs] + regs[Inst.rt]) % Modulus = Plus(regs[Inst.rs], regs[Inst.rt])
  <2>1. Plus(regs[Inst.rs], regs[Inst.rt]) \in Word /\ Minus(regs[Inst.rs], regs[Inst.rt]) \in Word
    BY <1>7, Sums
  <2>2. AddImm(regs[Inst.rs], Inst.imm) = Address
    BY <1>7, SameOffset DEF Address
  <2>3. (regs[Inst.rs] + (Modulus - (regs[Inst.rt] % Modulus))) % Modulus
           = Minus(regs[Inst.rs], regs[Inst.rt])
    BY <1>7, SameDifference
  <2> QED BY <2>1, <2>2, <2>3 DEF Plus
<1>9. altRegs = regs /\ altHalted = FALSE /\ altFuel = fuel
  <2>1. halted = FALSE
    BY <1>2 DEF IInv
  <2> QED BY <2>1 DEF Agree
<1> DEFINE same(lines) == /\ log' = base \o lines /\ CanonLines(Done.mach.trace) = base \o lines
                          /\ altRegs' = Done.regs /\ altHalted' = Done.stop
                          /\ Done.stop \/ ~ Fetchable(Done.to) \/ Done.to = altPc'
<1>10. ASSUME NEW lines, same(lines)
       PROVE  Agree'
  BY <1>3, <1>4, <1>9, <1>10 DEF Agree
<1>11. base \in Seq(LogLine) /\ base \o <<>> = base
  <2> DEFINE f == Line("F", altPc, AltWord)
             e == Line("X", 0, AltInst.op)
  <2>1. log \in Seq(LogLine) /\ f \in LogLine /\ e \in LogLine
    <3>1. AltInst.op \in Word /\ AltWord \in Word /\ 0 \in Nat
      BY AltInstTypes
    <3> QED BY <1>6, <3>1 DEF AltTypes, Line, LogLine
  <2> HIDE DEF f, e
  <2>2. log \o <<f, e>> \in Seq(LogLine)
    BY <2>1
  <2>3. (log \o <<f, e>>) \o <<>> = log \o <<f, e>>
    BY <2>1, <2>2
  <2> QED BY <2>2, <2>3 DEF f, e
<1>12. ASSUME NEW lines, Prints(lines) PROVE log' = base \o lines
  BY <1>12 DEF Prints
<1> HIDE DEF base
<1>13. ASSUME NEW v \in Word, Done = Sets(Begun, Inst.rd, v), AltWrite(v)
       PROVE  Agree'
  <2> DEFINE r == Line("R", Inst.rd, v)
  <2>1. /\ CanonLines(Done.mach.trace) = Append(base, r)
        /\ Done.regs = [regs EXCEPT ![Inst.rd] = v] /\ Done.to = Plus(pc, 4) /\ Done.stop = FALSE
    BY <1>2, <1>6, <1>7, <1>13, SetsAfter
  <2>2. log' = base \o <<r>> /\ altRegs' = [regs EXCEPT ![Inst.rd] = v]
        /\ altPc' = altPc + 4 /\ altHalted' = altHalted
    BY <1>6, <1>9, <1>12, <1>13 DEF AltWrite
  <2>3. r \in LogLine
    <3>1. Inst.rd \in Nat
      BY <1>2, InstTypes, Positive DEF RegIdx
    <3> QED BY <3>1 DEF Line, LogLine
  <2> HIDE DEF r
  <2>4. Append(base, r) = base \o <<r>>
    BY <1>11, <2>3, AppendOne
  <2>5. same(<<r>>)
    BY <1>2, <1>6, <1>9, <2>1, <2>2, <2>4
  <2> HIDE DEF same
  <2> QED BY <1>10, <2>5
<1>14. ASSUME NEW to, Done.mach = Begun, Done.regs = regs, Done.stop = FALSE, AltJump(to),
              Done.to = to \/ ~ Fetchable(Done.to)
       PROVE  Agree'
  <2>1. log' = base \o <<>> /\ altPc' = to /\ altRegs' = altRegs /\ altHalted' = altHalted
    BY <1>12, <1>14 DEF AltJump
  <2>2. same(<<>>)
    BY <1>2, <1>6, <1>9, <1>11, <1>14, <2>1
  <2> HIDE DEF same
  <2> QED BY <1>10, <2>2
<1>15. \/ BranchTo(pc, Inst.imm) = AltTarget(Inst.imm)
       \/ ~ Fetchable(BranchTo(pc, Inst.imm))
  <2> DEFINE b == BranchTo(pc, Inst.imm)
  <2>1. b \in Nat
    BY <1>2, InstTypes, WordBounds
  <2>2. b = AltTarget(Inst.imm) \/ b + 4 > Modulus - 2 * ImmMod
    BY <1>6, <1>7, SameTarget
  <2> HIDE DEF b
  <2>3. Fetchable(b) => b + 4 <= Modulus - 2 * ImmMod
    BY <2>1, FetchedInside
  <2>4. Modulus \in Nat /\ ImmMod \in Nat
    BY Positive
  <2>5. b = AltTarget(Inst.imm) \/ ~ Fetchable(b)
    BY <2>1, <2>2, <2>3, <2>4
  <2> QED BY <2>5 DEF b
<1> HIDE DEF same
<1>16. CASE Inst.op = 1
  <2>1. AltWrite(Inst.imm)
    BY <1>6, <1>16 DEF AltStep
  <2> QED BY <1>2, <1>7, <1>13, <1>16, <2>1, Outcomes
<1>17. CASE Inst.op = 2
  <2>1. AltWrite(Plus(regs[Inst.rs], regs[Inst.rt]))
    BY <1>6, <1>8, <1>9, <1>17 DEF AltStep
  <2> QED BY <1>2, <1>8, <1>13, <1>17, <2>1, Outcomes
<1>18. CASE Inst.op = 3
  <2>1. AltWrite(Minus(regs[Inst.rs], regs[Inst.rt]))
    BY <1>6, <1>8, <1>9, <1>18 DEF AltStep
  <2> QED BY <1>2, <1>8, <1>13, <1>18, <2>1, Outcomes
<1>19. CASE Inst.op = 4
  <2>1. AltWrite(Address)
    BY <1>6, <1>8, <1>9, <1>19 DEF AltStep
  <2> QED BY <1>2, <1>7, <1>13, <1>19, <2>1, Outcomes
<1>20. CASE Inst.op = 6
  <2> DEFINE w == Line("W", Address, regs[Inst.rd])
  <2>1. Prints(<<w>>) /\ altPc' = altPc + 4 /\ altRegs' = altRegs /\ altHalted' = altHalted
    BY <1>6, <1>8, <1>9, <1>20 DEF AltStep
  <2>2. /\ CanonLines(Done.mach.trace) = Append(base, w)
        /\ Done.regs = regs /\ Done.to = Plus(pc, 4) /\ Done.stop = FALSE
    BY <1>2, <1>5, <1>6, <1>20, DoneAfter
  <2>3. w \in LogLine
    <3>1. Address \in Nat
      BY <1>7, WordBounds
    <3> QED BY <1>7, <3>1 DEF Line, LogLine
  <2> HIDE DEF w
  <2>4. Append(base, w) = base \o <<w>>
    BY <1>11, <2>3, AppendOne
  <2>5. log' = base \o <<w>>
    BY <1>12, <2>1
  <2>6. same(<<w>>)
    BY <1>2, <1>6, <1>9, <2>1, <2>2, <2>4, <2>5 DEF same
  <2> QED BY <1>10, <2>6
<1>21. CASE Inst.op = 7
  <2>1. Done = IF regs[Inst.rs] # 0
               THEN Outcome(regs, Begun, BranchTo(pc, Inst.imm), FALSE) ELSE Falls(Begun)
    BY <1>2, <1>21, Outcomes
  <2>2. AltJump(IF regs[Inst.rs] # 0 THEN AltTarget(Inst.imm) ELSE altPc + 4)
    BY <1>6, <1>9, <1>21 DEF AltStep
  <2>3. CASE regs[Inst.rs] # 0
    <3>1. /\ Done.mach = Begun /\ Done.regs = regs /\ Done.stop = FALSE
          /\ Done.to = BranchTo(pc, Inst.imm)
      BY <2>1, <2>3 DEF Outcome
    <3>2. AltJump(AltTarget(Inst.imm))
      BY <2>2, <2>3
    <3> QED BY <1>14, <1>15, <3>1, <3>2
  <2>4. CASE ~ (regs[Inst.rs] # 0)
    <3>1. /\ Done.mach = Begun /\ Done.regs = regs /\ Done.stop = FALSE
          /\ Done.to = altPc + 4
      BY <1>6, <2>1, <2>4 DEF Falls, Outcome
    <3>2. AltJump(altPc + 4)
      BY <2>2, <2>4
    <3> QED BY <1>14, <3>1, <3>2
  <2> QED BY <2>3, <2>4
<1>22. CASE Inst.op = 8
  <2>1. Done = Outcome(regs, Begun, BranchTo(pc, Inst.imm), FALSE)
    BY <1>2, <1>22, Outcomes
  <2>2. /\ Done.mach = Begun /\ Done.regs = regs /\ Done.stop = FALSE
        /\ Done.to = BranchTo(pc, Inst.imm)
    BY <2>1 DEF Outcome
  <2>3. AltJump(AltTarget(Inst.imm))
    BY <1>6, <1>22 DEF AltStep
  <2> QED BY <1>14, <1>15, <2>2, <2>3
<1>23. CASE Inst.op = 0 \/ Inst.op > 9
  <2>1. Done = Stops(Begun)
    BY <1>2, <1>23, Outcomes
  <2>2. Done.mach = Begun /\ Done.regs = regs /\ Done.stop = TRUE
    BY <2>1 DEF Stops, Outcome
  <2>3. altHalted' = TRUE /\ Prints(<<>>) /\ altRegs' = altRegs
    <3>1. AltInst.op \notin {1, 2, 3, 4, 6, 7, 8}
      <4> DEFINE o == AltInst.op
      <4>1. o = 0 \/ o > 9
        BY <1>6, <1>23
      <4>2. o \in Nat
        BY <1>6, <1>7
      <4> HIDE DEF o
      <4>3. o \notin {1, 2, 3, 4, 6, 7, 8}
        BY <4>1, <4>2
      <4> QED BY <4>3 DEF o
    <3> QED BY <3>1 DEF AltStep
  <2>4. log' = base \o <<>>
    BY <1>12, <2>3
  <2>5. same(<<>>)
    BY <1>6, <1>9, <1>11, <2>2, <2>3, <2>4 DEF same
  <2> QED BY <1>10, <2>5
<1>24. \/ Inst.op = 1 \/ Inst.op = 2 \/ Inst.op = 3 \/ Inst.op = 4 \/ Inst.op = 6
       \/ Inst.op = 7 \/ Inst.op = 8 \/ Inst.op = 0 \/ Inst.op > 9
  <2> DEFINE o == Inst.op
  <2>1. o \in Nat /\ o \notin {5, 9}
    BY <1>5, <1>7
  <2> HIDE DEF o
  <2>2. o = 1 \/ o = 2 \/ o = 3 \/ o = 4 \/ o = 6 \/ o = 7 \/ o = 8 \/ o = 0 \/ o > 9
    BY <2>1
  <2> QED BY <2>2 DEF o
<1> QED
  BY <1>16, <1>17, <1>18, <1>19, <1>20, <1>21, <1>22, <1>23, <1>24

-----------------------------------------------------------------------------
(* The invariant.                                                          *)

\* Types, the program in its place, fuel for what has not been counted, and
\* agreement while the run is plain.
AltInv ==
  /\ TypeOK /\ IInv /\ AltTypes
  /\ prog \in Programs /\ Holds(mach, prog)
  /\ mach.icount + fuel <= MaxFuel
  /\ Plain(mach.trace) => Agree

LEMMA AltInvInit ==
  ASSUME ToyAssumption, BothInit
  PROVE  AltInv
<1>1. IInv
  BY IInvInit DEF BothInit
<1>2. PICK policy \in Policies : mach = Loaded(prog, policy)
  BY DEF BothInit
<1>3. /\ mach.trace = <<>> /\ mach.icount = 0 /\ mach.reads = 0 /\ mach.policy = policy
      /\ \A a \in Mapped : mach.mem[a] = CodeByte(prog, a)
  BY <1>2 DEF Loaded, CodeByte
<1>4. Code \subseteq Mapped
  BY DEF Code, Mapped
<1>5. Holds(mach, prog)
  BY <1>3, <1>4 DEF Holds
<1>6. /\ prog \in Programs /\ pc = 0 /\ fuel = MaxFuel /\ ended = "no"
      /\ regs = [i \in RegIdx |-> 0] /\ halted = FALSE
      /\ altPc = 0 /\ altRegs = [i \in RegIdx |-> 0] /\ altHalted = FALSE
      /\ log = <<>> /\ altFuel = MaxFuel
  BY DEF BothInit, Init, AltInit
<1>7. 0 \in Word /\ MaxFuel \in Nat
  BY Positive DEF ToyAssumption, Word
<1>8. AltTypes
  <2>1. altPc \in Nat /\ altPc % 4 = 0
    BY <1>6
  <2>2. altRegs \in [RegIdx -> Word] /\ altHalted \in BOOLEAN
    BY <1>6, <1>7
  <2>3. log \in Seq(LogLine) /\ altFuel \in 0 .. MaxFuel
    BY <1>6, <1>7
  <2> QED BY <2>1, <2>2, <2>3 DEF AltTypes
<1>9. CanonLines(<<>>) = <<>>
  <2>1. CanonLines(<<>>) = [k \in {} |-> Canon(<<>>[k])]
    BY DEF CanonLines
  <2>2. [k \in {} |-> Canon(<<>>[k])] = <<>>
    OBVIOUS
  <2> QED BY <2>1, <2>2
<1>10. Agree
  BY <1>3, <1>6, <1>9 DEF Agree
<1>11. TypeOK
  <2>1. mach.mem \in [Mapped -> Byte]
    BY <1>1 DEF IInv, Machine
  <2>2. mach.trace \in Seq(Logged)
    BY <1>3
  <2> QED
    BY <1>1, <1>2, <1>3, <1>6, <1>7, <1>8, <2>1, <2>2 DEF TypeOK, IInv, AltTypes, LogLine, Logged
<1> QED
  BY <1>1, <1>3, <1>5, <1>6, <1>7, <1>8, <1>10, <1>11 DEF AltInv

LEMMA AltInvStep ==
  ASSUME ToyAssumption, FlatAssumption, AltInv, [Next]_allVars
  PROVE  AltInv'
<1>1. /\ TypeOK /\ IInv /\ AltTypes /\ prog \in Programs /\ Holds(mach, prog)
      /\ mach.icount + fuel <= MaxFuel /\ (Plain(mach.trace) => Agree)
  BY DEF AltInv
<1>2. /\ fuel \in 0 .. MaxFuel /\ mach.icount \in 0 .. MaxFuel /\ mach.policy \in Policies
      /\ mach.trace \in Seq(Logged) /\ mach \in Machine
      /\ ended \in {"no", "fetch", "halt", "load", "store", "undefined"}
  BY <1>1 DEF TypeOK, Logged, IInv
<1>3. IInv'
  <2>1. [Step]_vars
    BY DEF Next, allVars
  <2> QED BY <1>1, <2>1, IInvStep
<1>4. prog' = prog
  BY DEF Next, allVars
<1>5. AltTypes'
  <2>1. CASE AltStep
    BY <1>1, <2>1, AltStepTypes
  <2>2. CASE UNCHANGED altVars
    BY <1>1, <2>2 DEF altVars, AltTypes
  <2> QED BY <2>1, <2>2 DEF Next, allVars
\* Of the word interpreter's side, what a step or none of it leaves.
<1> DEFINE Side == /\ fuel' \in 0 .. MaxFuel
                   /\ mach'.icount \in 0 .. MaxFuel /\ mach'.icount + fuel' <= MaxFuel
                   /\ mach'.policy \in Policies /\ mach'.trace \in Seq(Logged)
                   /\ ended' \in {"no", "fetch", "halt", "load", "store", "undefined"}
                   /\ Holds(mach', prog)
                   /\ Plain(mach'.trace) => Plain(mach.trace)
<1>6. Step => Side
  <2> SUFFICES ASSUME Step PROVE Side
    OBVIOUS
  <2> DEFINE k == [mach' EXCEPT !.icount = mach.icount]
  <2>1. /\ After(mach, k)
        /\ fuel' \in 0 .. MaxFuel
        /\ mach'.icount \in 0 .. MaxFuel /\ mach'.icount + fuel' <= MaxFuel
        /\ ended' \in {"no", "fetch", "halt", "load", "store", "undefined"}
    BY <1>1, <1>2, StepAfter
  <2>2. mach' \in Machine
    BY <1>3 DEF IInv
  <2>3. k.policy = mach'.policy /\ k.trace = mach'.trace /\ k.mem = mach'.mem
    BY <2>2 DEF Machine
  <2> HIDE DEF k
  <2> QED BY <1>1, <1>2, <2>1, <2>3 DEF After, Holds
<1>7. UNCHANGED vars => Side
  BY <1>1, <1>2 DEF vars
<1>8. Side
  BY <1>6, <1>7 DEF Next, allVars
<1> HIDE DEF Side
<1>9. TypeOK'
  <2>1. mach' \in Machine
    BY <1>3 DEF IInv
  <2>2. mach'.mem \in [Mapped -> Byte] /\ mach'.reads \in Nat
    BY <2>1 DEF Machine
  <2> QED
    BY <1>3, <1>5, <1>8, <2>2 DEF TypeOK, IInv, AltTypes, LogLine, Logged, Side
<1>10. Plain(mach'.trace) => Agree'
  <2> SUFFICES ASSUME Plain(mach'.trace)
               PROVE  Agree'
    OBVIOUS
  <2>1. Plain(mach.trace) /\ Agree
    BY <1>1, <1>8 DEF Side
  <2>2. AltRunning <=> ~ halted /\ fuel > 0
    BY <2>1 DEF Agree, AltRunning
  <2>3. CASE Step /\ AltStep
    BY <1>1, <2>1, <2>3, PlainStep
  <2>4. CASE Step /\ ~ AltRunning
    BY <2>2, <2>4 DEF Step, FetchFault, Execute, Running
  <2>5. CASE (halted \/ fuel = 0) /\ AltStep
    <3>1. AltRunning
      BY <2>5 DEF AltStep
    <3>2. ~ halted /\ fuel > 0
      BY <2>2, <3>1, Zenon
    <3>3. ~ (fuel = 0)
      BY <1>2, <3>2
    <3> QED BY <2>5, <3>2, <3>3, Zenon
  <2>6. CASE UNCHANGED allVars
    BY <2>1, <2>6 DEF allVars, vars, altVars, Agree
  <2> QED
    BY <2>3, <2>4, <2>5, <2>6 DEF Next
<1>11. Holds(mach', prog') /\ mach'.icount + fuel' <= MaxFuel /\ prog' \in Programs
  BY <1>1, <1>4, <1>8 DEF Side
<1> QED
  BY <1>3, <1>5, <1>9, <1>10, <1>11 DEF AltInv

LEMMA AltInvHolds ==
  BothSpec => []AltInv
<1>1. BothInit => AltInv
  BY ToyAssumption, AltInvInit
<1>2. AltInv /\ [Next]_allVars => AltInv'
  BY ToyAssumption, FlatAssumption, AltInvStep
<1> QED
  BY <1>1, <1>2, PTL DEF BothSpec

\* Registers, memory, events and printed lines keep their types, no block is
\* ill typed, and no more instructions are counted than there was fuel for.
THEOREM BothKeepTypes == BothSpec => []TypeOK
<1>1. AltInv => TypeOK
  BY DEF AltInv
<1> QED
  BY <1>1, AltInvHolds, PTL

\* The check of Sei/Drivers/ToyEquiv.lean succeeds on every program, not only
\* on the one it runs: while a run is plain the interpreter over words and the
\* flat one print the same lines and stop together.
THEOREM TwoBackendsAgree == BothSpec => []SameLog
<1>1. AltInv => SameLog
  BY DEF AltInv, Agree, SameLog
<1> QED
  BY <1>1, AltInvHolds, PTL
=============================================================================
