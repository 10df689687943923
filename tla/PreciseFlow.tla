---------------------------- MODULE PreciseFlow ----------------------------
(***************************************************************************)
(* What a processor with branch delay slots promises the system software,  *)
(* without the second program counter: a branch and its slot are one       *)
(* instruction in two stages.  A trap between the stages undoes the first, *)
(* records where to go on, and whether it was between two stages, and a    *)
(* return goes on exactly there.  At compressed (odd) addresses only the   *)
(* entry into the handler is promised.                                     *)
(***************************************************************************)
EXTENDS Integers

CONSTANTS AddrSpace, Vector, Nowhere

VARIABLES
  at,    \* the instruction to execute, or the branch whose slot comes next
  dest,  \* where that branch goes after its slot
  ret,   \* where a return goes on
  slot   \* the last trap was taken in a slot

vars == <<at, dest, ret, slot>>

Address == 0 .. AddrSpace - 1

Plus(a, k) == IF a + k < AddrSpace THEN a + k ELSE a + k - AddrSpace

Wide == at % 2 = 0

Straight == dest = Nowhere /\ at' = Plus(at, 4) /\ dest' = Nowhere

\* A likely branch that is not taken annuls its slot.
Annul == dest = Nowhere /\ at' = Plus(at, 8) /\ dest' = Nowhere

\* A branch to the instruction behind its slot is as good as none.
Decide == dest = Nowhere /\ at' = at /\ dest' \in Address \ {Plus(at, 8)}

Complete == dest # Nowhere /\ at' = dest /\ dest' = Nowhere

\* An instruction may write one of the two registers a trap records into.
Registers == \/ UNCHANGED <<ret, slot>>
             \/ ret' \in Address /\ UNCHANGED slot
             \/ slot' \in BOOLEAN /\ UNCHANGED ret

Instruction == Wide /\ (Straight \/ Annul \/ Decide \/ Complete) /\ Registers

Trap == Wide /\ at' = Vector /\ dest' = Nowhere /\ ret' = at /\ slot' = (dest # Nowhere)

Return == Wide /\ at' = ret /\ dest' = Nowhere /\ UNCHANGED <<ret, slot>>

Compressed == ~Wide /\ at' \in Address /\ dest' = Nowhere /\ UNCHANGED <<ret, slot>>

CompressedTrap == /\ ~Wide /\ at' = Vector /\ dest' = Nowhere
                  /\ ret' \in Address /\ slot' \in BOOLEAN

Init == at \in Address /\ dest = Nowhere /\ ret \in Address /\ slot \in BOOLEAN

Next == Instruction \/ Trap \/ Return \/ Compressed \/ CompressedTrap

Spec == Init /\ [][Next]_vars
=============================================================================
