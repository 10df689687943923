------------------------------ MODULE SeiToyIR ------------------------------
(***************************************************************************)
(* The toy ISA by way of the typed effect IR (Sei/IR.lean): each word is   *)
(* fetched and decoded as SeiToy does, lowered to a block, type-checked    *)
(* and executed.  Every lowering is a block of one statement, so a block   *)
(* is that statement.  Expressions are as deep as lowerings make them: an  *)
(* atom, an atom extended, or an operation on two of those.                *)
(***************************************************************************)
EXTENDS ToyMachine

VARIABLES
  pc, regs, halted, mach, fuel,  \* as in SeiToy
  ended                          \* history: how the run ended, "no" before

vars == <<pc, regs, halted, mach, fuel, ended>>

-----------------------------------------------------------------------------
(* Expressions and statements.  "half" is 16 bits and "word" 32.           *)

Const(w, v) == [ex |-> "const", w |-> w, v |-> v]
Reg(i)      == [ex |-> "reg", i |-> i]
Sext(e)     == [ex |-> "sext", of |-> e]          \* from half to word
Binary(op, a, b) == [ex |-> op, a |-> a, b |-> b] \* "add", "sub", "ne"

Assign(i, e)     == [st |-> "assign", dst |-> i, e |-> e]
LoadTo(i, e, n)  == [st |-> "load", dst |-> i, addr |-> e, n |-> n]
StoreAt(e, v, n) == [st |-> "store", addr |-> e, val |-> v, n |-> n]
Jump(t)          == [st |-> "branch", target |-> t]
JumpIf(c, t)     == [st |-> "cbranch", cond |-> c, target |-> t]
Trap             == [st |-> "trap"]

\* The block of one toy instruction.
Lower(at, i) ==
  LET addr   == Binary("add", Reg(i.rs), Sext(Const("half", i.imm)))
      target == Const("word", BranchTo(at, i.imm))
  IN CASE i.op = 1 -> Assign(i.rd, Const("word", i.imm))
       [] i.op = 2 -> Assign(i.rd, Binary("add", Reg(i.rs), Reg(i.rt)))
       [] i.op = 3 -> Assign(i.rd, Binary("sub", Reg(i.rs), Reg(i.rt)))
       [] i.op = 4 -> Assign(i.rd, addr)
       [] i.op = 5 -> LoadTo(i.rd, addr, 4)
       [] i.op = 6 -> StoreAt(addr, Reg(i.rd), 4)
       [] i.op = 7 -> JumpIf(Binary("ne", Reg(i.rs), Const("word", 0)), target)
       [] i.op = 8 -> Jump(target)
       [] i.op = 9 -> LoadTo(i.rd, addr, 1)
       [] OTHER    -> Trap

-----------------------------------------------------------------------------
(* The type checker.                                                       *)

AtomTy(e) == IF e.ex = "const" THEN e.w ELSE "word"
TermTy(e) == IF e.ex # "sext" THEN AtomTy(e)
             ELSE IF AtomTy(e.of) \in {"half", "word"} THEN "word" ELSE "none"
TyOk(e) ==
  IF e.ex \notin {"add", "sub", "ne"} THEN TermTy(e)
  ELSE IF TermTy(e.a) # TermTy(e.b) THEN "none"
  ELSE IF e.ex = "ne" THEN "bool" ELSE TermTy(e.a)

StmtOk(s) ==
  CASE s.st = "assign"  -> TyOk(s.e) = "word"
    [] s.st = "load"    -> TyOk(s.addr) = "word" /\ s.n \in {1, 2, 4}
    [] s.st = "store"   -> TyOk(s.addr) = "word" /\ TyOk(s.val) = "word" /\ s.n \in {1, 2, 4}
    [] s.st = "branch"  -> TyOk(s.target) = "word"
    [] s.st = "cbranch" -> TyOk(s.cond) = "bool" /\ TyOk(s.target) = "word"
    [] s.st = "trap"    -> TRUE

-----------------------------------------------------------------------------
(* The interpreter.                                                        *)

Span(w) == IF w = "half" THEN ImmMod ELSE Modulus
Atom(e) == IF e.ex = "const" THEN (e.v % Span(e.w)) % Modulus ELSE regs[e.i]
Term(e) == IF e.ex = "sext" THEN SignExtend(Atom(e.of) % ImmMod) ELSE Atom(e)
Eval(e) ==
  CASE e.ex = "add" -> Plus(Term(e.a), Term(e.b))
    [] e.ex = "sub" -> Minus(Term(e.a), Term(e.b))
    [] e.ex = "ne"  -> IF Term(e.a) = Term(e.b) THEN 0 ELSE 1
    [] OTHER        -> Term(e)

\* What a block leaves: registers, machine, where to go on, and whether it
\* stopped the program.
Outcome(rs, m, to, stop) == [regs |-> rs, mach |-> m, to |-> to, stop |-> stop]
Falls(m) == Outcome(regs, m, Plus(pc, 4), FALSE)
Sets(m, i, v) == Outcome([regs EXCEPT ![i] = v], Emit(m, Event("reg", i, 0, v)), Plus(pc, 4), FALSE)
Stops(m) == Outcome(regs, m, Plus(pc, 4), TRUE)

\* Mutant: a fault is noted and the program goes on.
AbortsNot(m) == Falls(Note(m, "data_abort"))
Aborts(m)    == Stops(Note(m, "data_abort"))

ExecStmt(s, m) ==
  CASE s.st = "assign"  -> Sets(m, s.dst, Eval(s.e))
    [] s.st = "load"    ->
         LET got == Load(m, Eval(s.addr), s.n, "r")
         IN IF got.ok THEN Sets(got.mach, s.dst, got.val) ELSE Aborts(got.mach)
    [] s.st = "store"   ->
         LET got == Store(m, Eval(s.addr), s.n, Eval(s.val))
         IN IF got.ok THEN Falls(got.mach) ELSE Aborts(got.mach)
    [] s.st = "branch"  -> Outcome(regs, m, Eval(s.target), FALSE)
    [] s.st = "cbranch" -> IF Eval(s.cond) # 0 THEN Outcome(regs, m, Eval(s.target), FALSE)
                                               ELSE Falls(m)
    [] s.st = "trap"    -> Stops(m)

\* Only a block that type-checks is executed.
Executed(s, m) == IF StmtOk(s) THEN ExecStmt(s, m) ELSE Stops(Note(m, "ill_typed"))

-----------------------------------------------------------------------------
Init ==
  /\ pc = 0
  /\ regs = [i \in RegIdx |-> 0]
  /\ halted = FALSE
  /\ mach \in Boot
  /\ fuel = MaxFuel
  /\ ended = "no"

Fetched == Load(mach, pc, 4, "x")
Inst    == Decode(Fetched.val)
Begun   == Emit(Fetched.mach, Event("exec", pc, 0, Inst.op))
Done    == Executed(Lower(pc, Inst), Begun)

Running == ~halted /\ fuel > 0 /\ fuel' = fuel - 1

FetchFault ==
  /\ Running /\ ~Fetched.ok
  /\ halted' = TRUE
  /\ mach' = Note(Fetched.mach, "fetch_fault")
  /\ ended' = "fetch"
  /\ UNCHANGED <<pc, regs>>

HowEnded == IF ~Done.stop THEN "no"
            ELSE CASE Inst.op = 0 -> "halt"
                   [] Inst.op \in {5, 9} -> "load"
                   [] Inst.op = 6 -> "store"
                   [] OTHER -> "undefined"

Execute ==
  /\ Running /\ Fetched.ok
  /\ pc' = Done.to /\ regs' = Done.regs /\ halted' = Done.stop
  /\ mach' = Retired(Done.mach)
  /\ ended' = HowEnded

Step == FetchFault \/ Execute
Spec == Init /\ [][Step]_vars

=============================================================================
