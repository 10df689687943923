----------------------------- MODULE PageTable -----------------------------
(***************************************************************************)
(* What a software-managed TLB promises the system software: one frame for *)
(* each page, the one installed last, and a miss for every other page.     *)
(* How many entries there are, and in which order, cannot be told.         *)
(***************************************************************************)
EXTENDS Integers

CONSTANTS
  Address, Page, Frame,
  PageOf(_),    \* the page of an address
  At(_, _),     \* At(f, v): where address v is when its page is in frame f
  Direct(_),    \* addresses that bypass the table
  Physical(_)   \* where those are

VARIABLES
  map,    \* at most one frame for each page
  answer  \* where the last access went, empty on a miss

vars == <<map, answer>>

Init == map = [p \in Page |-> {}] /\ answer = {}

Install == /\ \E p \in Page, f \in Frame : map' = [map EXCEPT ![p] = {f}]
           /\ UNCHANGED answer

Access == /\ \E v \in Address :
               answer' = IF Direct(v) THEN {Physical(v)} ELSE {At(f, v) : f \in map[PageOf(v)]}
          /\ UNCHANGED map

Next == Install \/ Access

Spec == Init /\ [][Next]_vars
=============================================================================
