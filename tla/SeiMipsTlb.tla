----------------------------- MODULE SeiMipsTlb -----------------------------
(***************************************************************************)
(* The TLB of the MIPS core (Sei/Isa/Mips.lean) and the CP0 registers that *)
(* serve it, under firmware that writes any of them and accesses any       *)
(* address in any order.  Addresses, EntryLo and Index are words of        *)
(* AddrSpace values, so that the arithmetic of page numbers wraps as the   *)
(* code's does.                                                            *)
(***************************************************************************)
EXTENDS Integers, Sequences

CONSTANTS
  AddrSpace,   \* words are below this (2^32 in the code)
  PageSize,    \* 2^12 in the code
  LoUnit,      \* the frame number in EntryLo starts at this bit (2^6)
  HiWrite,     \* values the firmware writes to EntryHi, EntryLo and Index
  LoWrite,
  IndexWrite,
  Used,        \* addresses fetched, loaded and stored
  MaxTlb       \* bound: entries in the TLB

VARIABLES
  tlb,      \* Cpu.tlb, the newest entry first
  entryHi, entryLo, index, badv,  \* CP0
  answer,   \* where translate sent the last access, empty on a miss
  installed \* history: the frame last written for each page, if any

regs == <<entryHi, entryLo, index, badv>>
vars == <<tlb, regs, answer, installed>>

Word  == 0 .. AddrSpace - 1
Frame == 0 .. (AddrSpace - 1) \div LoUnit

PageOf(v) == v - (v % PageSize)
Page == {v \in Word : v % PageSize = 0}

Entry == [vpn : Page, frame : Frame]

ASSUME TlbAssumption ==
  /\ AddrSpace \in Nat \ {0} /\ AddrSpace % 8 = 0
  /\ PageSize \in Nat \ {0} /\ LoUnit \in Nat \ {0}
  /\ HiWrite \subseteq Word /\ LoWrite \subseteq Word
  /\ IndexWrite \subseteq Word /\ Used \subseteq Word
  /\ MaxTlb \in Nat /\ 2 * MaxTlb <= AddrSpace  \* Index can name every entry

-----------------------------------------------------------------------------
(* translate                                                               *)

\* kseg0 and kseg1, the third quarter, map to the first eighth.
Direct(v)   == 2 * v >= AddrSpace /\ 4 * v < 3 * AddrSpace
Physical(v) == v % (AddrSpace \div 8)

\* The frame number of EntryLo is wider than an address: the sum is cut off.
At(f, v) == (f * PageSize + (v % PageSize)) % AddrSpace

Matches(p) == {i \in DOMAIN tlb : tlb[i].vpn = p}
Newest(p)  == {i \in Matches(p) : \A j \in Matches(p) : i <= j}
Oldest(p)  == {i \in Matches(p) : \A j \in Matches(p) : j <= i}

Frames(p) == {tlb[i].frame : i \in Newest(p)}

Translate(v) == IF Direct(v) THEN {Physical(v)} ELSE {At(f, v) : f \in Frames(PageOf(v))}

\* A miss is an exception that leaves the address in BadVAddr.
Access(v) == /\ answer' = Translate(v)
             /\ badv' = IF Translate(v) = {} THEN v ELSE badv
             /\ UNCHANGED <<tlb, entryHi, entryLo, index, installed>>

-----------------------------------------------------------------------------
(* CP0                                                                     *)

Mtc0EntryHi(w) == entryHi' = w /\ UNCHANGED <<tlb, entryLo, index, badv, answer, installed>>
Mtc0EntryLo(w) == entryLo' = w /\ UNCHANGED <<tlb, entryHi, index, badv, answer, installed>>
Mtc0Index(w)   == index' = w /\ UNCHANGED <<tlb, entryHi, entryLo, badv, answer, installed>>

\* addTlb.  Mutant: the entry goes to the end.
AddTlbLast(e) == tlb' = Append(tlb, e)
AddTlb(e) == tlb' = <<e>> \o tlb

\* TLBWI and TLBWR alike add an entry and ignore Index.
Tlbw == LET p == PageOf(entryHi)
            f == entryLo \div LoUnit
        IN  /\ Len(tlb) < MaxTlb
            /\ AddTlb([vpn |-> p, frame |-> f])
            /\ installed' = [installed EXCEPT ![p] = {f}]
            /\ UNCHANGED <<regs, answer>>

\* Mutant: the physical address of the frame instead of its number.
LoOfAddress(f) == f * PageSize
LoOf(f) == f * LoUnit

Tlbr == /\ IF index < Len(tlb)
             THEN /\ entryHi' = tlb[index + 1].vpn
                  /\ entryLo' = LoOf(tlb[index + 1].frame)
             ELSE UNCHANGED <<entryHi, entryLo>>
        /\ UNCHANGED <<tlb, index, badv, answer, installed>>

\* TLBP masks EntryHi as if an entry mapped a pair of pages.
\* Mutant: the last entry that matches.
Probed == entryHi - (entryHi % (2 * PageSize))
HitsOldest == Oldest(Probed)
Hits == Newest(Probed)

Tlbp == /\ \/ \E i \in Hits : index' = i - 1
           \/ Hits = {} /\ index' = AddrSpace \div 2
        /\ UNCHANGED <<tlb, entryHi, entryLo, badv, answer, installed>>

-----------------------------------------------------------------------------
Init == /\ tlb = <<>>
        /\ entryHi = 0 /\ entryLo = 0 /\ index = 0 /\ badv = 0
        /\ answer = {} /\ installed = [p \in Page |-> {}]

Next == \/ Tlbw \/ Tlbr \/ Tlbp
        \/ \E w \in HiWrite : Mtc0EntryHi(w)
        \/ \E w \in LoWrite : Mtc0EntryLo(w)
        \/ \E w \in IndexWrite : Mtc0Index(w)
        \/ \E v \in Used : Access(v)

Spec == Init /\ [][Next]_vars

-----------------------------------------------------------------------------
(* Properties.                                                             *)

\* Every variable keeps its type; in particular TLBR gives EntryLo back in the
\* form in which MTC0 wrote it.
TypeOK == /\ tlb \in Seq(Entry)
          /\ entryHi \in Word /\ entryLo \in Word
          /\ index \in Word /\ badv \in Word
          /\ answer \subseteq Word
          /\ installed \in [Page -> SUBSET Frame]

\* Entries are never removed and a page may have many, yet the core translates
\* by the mapping that was installed last, whatever TLBR and TLBP did to the
\* registers in between.
Table == INSTANCE PageTable WITH
  Address <- Word,
  map <- installed

ImplementsPageTable == Table!Spec

\* What TLBP leaves in Index is the entry that translates EntryHi, for TLBR to
\* read, or a miss when none does.
FindsEntry(p) == IF Frames(p) = {} THEN index' >= Len(tlb)
                 ELSE index' + 1 \in Newest(p)

ProbeFindsEven == [][Tlbp /\ PageOf(entryHi) = Probed => FindsEntry(Probed)]_vars

\* The same for every page: entries are pages of 4 KB (Cpu.tlb) and TLBP
\* probes the TLB with EntryHi.
ProbeFinds == [][Tlbp => FindsEntry(PageOf(entryHi))]_vars
=============================================================================
