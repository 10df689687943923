-------------------------- MODULE SeiMipsTlbProofs --------------------------
(***************************************************************************)
(* Theorems about SeiMipsTlb, for every word width, page size and number   *)
(* of entries.                                                             *)
(***************************************************************************)
EXTENDS SeiMipsTlb, TLAPS

-----------------------------------------------------------------------------
(* Arithmetic.                                                             *)

LEMMA Rounding ==
  ASSUME TlbAssumption, NEW w \in Word
  PROVE  /\ PageOf(w) \in Page
         /\ w \div LoUnit \in Frame
<1>1. PageOf(w) \in Page
  BY DEF TlbAssumption, Word, Page, PageOf
<1>2. w \div LoUnit \in Frame
  BY DEF TlbAssumption, Word, Frame
<1>3. QED
  BY <1>1, <1>2

LEMMA LoIsWord ==
  ASSUME TlbAssumption, NEW f \in Frame
  PROVE  LoOf(f) \in Word
BY DEF TlbAssumption, Word, Frame, LoOf

LEMMA Places ==
  ASSUME TlbAssumption, NEW v \in Word
  PROVE  /\ Physical(v) \in Word
         /\ \A f \in Frame : At(f, v) \in Word
<1>1. Physical(v) \in Word
  BY DEF TlbAssumption, Word, Physical
<1>2. ASSUME NEW f \in Frame PROVE At(f, v) \in Word
  BY DEF TlbAssumption, Word, Frame, At
<1>3. QED
  BY <1>1, <1>2

-----------------------------------------------------------------------------
(* The newest entry of a page.                                             *)

\* addTlb puts the entry in front and moves every other one place back.
LEMMA Front ==
  ASSUME NEW e \in Entry, tlb \in Seq(Entry), AddTlb(e)
  PROVE  /\ tlb' \in Seq(Entry)
         /\ Len(tlb') = Len(tlb) + 1
         /\ tlb'[1] = e
         /\ \A i \in 1 .. Len(tlb) : tlb'[i + 1] = tlb[i]
  BY DEF AddTlb

\* So the newest entry of its page is now that one, and every other page keeps
\* the frame it had.
LEMMA InstallFrame ==
  ASSUME NEW e \in Entry, tlb \in Seq(Entry), AddTlb(e)
  PROVE  \A p \in Page : Frames(p)' = IF p = e.vpn THEN {e.frame} ELSE Frames(p)
<1>1. /\ tlb' \in Seq(Entry)
      /\ Len(tlb') = Len(tlb) + 1
      /\ tlb'[1] = e
      /\ \A i \in 1 .. Len(tlb) : tlb'[i + 1] = tlb[i]
  BY Front
<1>2. DOMAIN tlb' = 1 .. Len(tlb) + 1 /\ DOMAIN tlb = 1 .. Len(tlb) /\ Len(tlb) \in Nat
  BY <1>1
<1>. TAKE p \in Page
<1>3. CASE p = e.vpn
  <2>1. Newest(p)' = {1}
    BY <1>1, <1>2, <1>3 DEF Newest, Matches
  <2>2. QED
    BY <2>1, <1>1, <1>3 DEF Frames
<1>4. CASE p # e.vpn
  <2>1. \A i \in 1 .. Len(tlb) : i \in Matches(p) <=> i + 1 \in Matches(p)'
    BY <1>1, <1>2, SMT DEF Matches
  <2>2. 1 \notin Matches(p)'
    BY <1>1, <1>4 DEF Matches
  <2>3. /\ \A i \in Matches(p) : i \in 1 .. Len(tlb)
        /\ \A j \in Matches(p)' : j \in 1 .. Len(tlb) + 1
    BY <1>2 DEF Matches
  <2>4. \A j \in Matches(p)' : j - 1 \in Matches(p) /\ j - 1 \in 1 .. Len(tlb)
    <3>1. TAKE j \in Matches(p)'
    <3>2. j \in 1 .. Len(tlb) + 1 /\ j # 1
      BY <2>2, <2>3
    <3>3. j - 1 \in 1 .. Len(tlb) /\ (j - 1) + 1 = j
      BY <3>2, <1>2
    <3>4. QED
      BY <3>3, <2>1
  <2>5. \A i \in Newest(p) : i + 1 \in Newest(p)'
    <3>1. TAKE i \in Newest(p)
    <3>2. i \in Matches(p) /\ i \in 1 .. Len(tlb) /\ i + 1 \in Matches(p)'
      BY <2>1, <2>3 DEF Newest
    <3>3. ASSUME NEW j \in Matches(p)' PROVE i + 1 <= j
      <4>1. j - 1 \in Matches(p) /\ j - 1 \in 1 .. Len(tlb)
        BY <2>4
      <4>2. i <= j - 1
        BY <4>1 DEF Newest
      <4>3. QED
        BY <4>1, <4>2, <3>2, <2>3, <1>2
    <3>4. QED
      BY <3>2, <3>3 DEF Newest
  <2>6. \A j \in Newest(p)' : j - 1 \in Newest(p) /\ j - 1 \in 1 .. Len(tlb)
    <3>1. TAKE j \in Newest(p)'
    <3>2. j \in Matches(p)' /\ j - 1 \in Matches(p) /\ j - 1 \in 1 .. Len(tlb)
      BY <2>4 DEF Newest
    <3>3. ASSUME NEW i \in Matches(p) PROVE j - 1 <= i
      <4>1. i \in 1 .. Len(tlb) /\ i + 1 \in Matches(p)'
        BY <2>1, <2>3
      <4>2. j <= i + 1
        BY <4>1 DEF Newest
      <4>3. QED
        BY <4>1, <4>2, <3>2, <2>3, <1>2
    <3>4. QED
      BY <3>2, <3>3 DEF Newest
  <2>7. \A f \in Frames(p) : f \in Frames(p)'
    <3>1. TAKE f \in Frames(p)
    <3>2. PICK i \in Newest(p) : f = tlb[i].frame
      BY DEF Frames
    <3>3. i + 1 \in Newest(p)' /\ tlb'[i + 1] = tlb[i]
      BY <2>3, <2>5, <1>1 DEF Newest
    <3>4. QED
      BY <3>2, <3>3 DEF Frames
  <2>8. \A f \in Frames(p)' : f \in Frames(p)
    <3>1. TAKE f \in Frames(p)'
    <3>2. PICK j \in Newest(p)' : f = tlb'[j].frame
      BY DEF Frames
    <3>3. j - 1 \in Newest(p) /\ tlb'[(j - 1) + 1] = tlb[j - 1]
      BY <2>6, <1>1
    <3>4. (j - 1) + 1 = j
      BY <2>3, <1>2 DEF Newest
    <3>5. QED
      BY <3>2, <3>3, <3>4 DEF Frames
  <2>9. QED
    BY <2>7, <2>8, <1>4
<1>5. QED
  BY <1>3, <1>4

\* The actions that write one register leave the table and the history alone.
LEMMA SameFrames ==
  ASSUME UNCHANGED tlb
  PROVE  /\ \A p \in Page : Frames(p)' = Frames(p)
         /\ \A p \in Page : Newest(p)' = Newest(p)
BY DEF Frames, Newest, Matches

-----------------------------------------------------------------------------
(* The inductive invariant: the table translates by the history.           *)

Latest == \A p \in Page : installed[p] = Frames(p)

Room == Len(tlb) <= MaxTlb

IInv == TypeOK /\ Room /\ Latest

LEMMA FramesType ==
  ASSUME tlb \in Seq(Entry), NEW p
  PROVE  Frames(p) \subseteq Frame
<1>1. ASSUME NEW i \in Newest(p) PROVE tlb[i].frame \in Frame
  <2>1. i \in 1 .. Len(tlb)
    BY DEF Newest, Matches
  <2>2. tlb[i] \in Entry
    BY <2>1
  <2>3. QED
    BY <2>2 DEF Entry
<1>2. QED
  BY <1>1 DEF Frames

LEMMA TranslateType ==
  ASSUME TlbAssumption, tlb \in Seq(Entry), NEW v \in Word
  PROVE  Translate(v) \subseteq Word
<1>1. \A f \in Frames(PageOf(v)) : At(f, v) \in Word
  BY Places, FramesType
<1>2. QED
  BY <1>1, Places DEF Translate

LEMMA IInvInit ==
  ASSUME TlbAssumption, Init
  PROVE  IInv
<1>1. 0 \in Word /\ Len(tlb) = 0 /\ tlb \in Seq(Entry)
  BY DEF TlbAssumption, Word, Init
<1>2. \A p \in Page : Frames(p) = {}
  BY DEF Init, Frames, Newest, Matches
<1>3. QED
  BY <1>1, <1>2 DEF TlbAssumption, Init, IInv, TypeOK, Room, Latest

\* Tlbw is the only step that changes the table.
LEMMA IInvTlbw ==
  ASSUME TlbAssumption, IInv, Tlbw
  PROVE  IInv'
<1>. DEFINE p == PageOf(entryHi)
            f == entryLo \div LoUnit
            e == [vpn |-> p, frame |-> f]
<1>1. p \in Page /\ f \in Frame /\ e \in Entry
  BY Rounding DEF IInv, TypeOK, Entry
<1>2. /\ Len(tlb) < MaxTlb /\ AddTlb(e)
      /\ installed' = [installed EXCEPT ![p] = {f}]
      /\ UNCHANGED <<regs, answer>>
  BY DEF Tlbw
<1>3. e.vpn = p /\ e.frame = f
  OBVIOUS
<1>. HIDE DEF p, f, e
<1>4. tlb \in Seq(Entry) /\ installed \in [Page -> SUBSET Frame]
  BY DEF IInv, TypeOK
<1>5. tlb' \in Seq(Entry) /\ Len(tlb') = Len(tlb) + 1
  BY <1>1, <1>2, <1>4, Front
<1>6. TypeOK'
  BY <1>1, <1>2, <1>4, <1>5 DEF IInv, TypeOK, regs
<1>7. Room'
  BY <1>2, <1>4, <1>5 DEF TlbAssumption, Room
<1>8. \A q \in Page : Frames(q)' = IF q = p THEN {f} ELSE Frames(q)
  BY <1>1, <1>2, <1>3, <1>4, InstallFrame
<1>9. Latest'
  BY <1>1, <1>2, <1>4, <1>8 DEF IInv, Latest
<1>10. QED
  BY <1>6, <1>7, <1>9 DEF IInv

LEMMA IInvStep ==
  ASSUME TlbAssumption, IInv, [Next]_vars
  PROVE  IInv'
<1>1. CASE Tlbw
  BY <1>1, IInvTlbw
<1>2. ASSUME UNCHANGED <<tlb, installed>>, TypeOK' PROVE IInv'
  BY <1>2, SameFrames DEF IInv, Room, Latest
<1>3. CASE Tlbr
  <2>1. CASE index < Len(tlb)
    <3>1. index + 1 \in 1 .. Len(tlb) /\ tlb[index + 1] \in Entry
      BY <2>1 DEF IInv, TypeOK, Word
    <3>2. /\ tlb[index + 1].vpn \in Word
          /\ LoOf(tlb[index + 1].frame) \in Word
      BY <3>1, LoIsWord DEF Entry, Page
    <3>3. TypeOK'
      BY <1>3, <2>1, <3>2 DEF IInv, TypeOK, Tlbr
    <3>4. QED
      BY <1>2, <1>3, <3>3 DEF Tlbr
  <2>2. CASE ~(index < Len(tlb))
    BY <1>2, <1>3, <2>2 DEF IInv, TypeOK, Tlbr
  <2>3. QED
    BY <2>1, <2>2
<1>4. CASE Tlbp
  <2>1. index' \in Word
    <3>1. CASE \E i \in Hits : index' = i - 1
      BY <3>1 DEF IInv, TypeOK, Room, TlbAssumption, Word, Hits, Newest, Matches
    <3>2. CASE Hits = {} /\ index' = AddrSpace \div 2
      BY <3>2 DEF TlbAssumption, Word
    <3>3. QED
      BY <1>4, <3>1, <3>2 DEF Tlbp
  <2>2. QED
    BY <1>2, <1>4, <2>1 DEF IInv, TypeOK, Tlbp
<1>5. ASSUME NEW w \in HiWrite, Mtc0EntryHi(w) PROVE IInv'
  BY <1>2, <1>5 DEF IInv, TypeOK, TlbAssumption, Mtc0EntryHi
<1>6. ASSUME NEW w \in LoWrite, Mtc0EntryLo(w) PROVE IInv'
  BY <1>2, <1>6 DEF IInv, TypeOK, TlbAssumption, Mtc0EntryLo
<1>7. ASSUME NEW w \in IndexWrite, Mtc0Index(w) PROVE IInv'
  BY <1>2, <1>7 DEF IInv, TypeOK, TlbAssumption, Mtc0Index
<1>8. ASSUME NEW v \in Used, Access(v) PROVE IInv'
  <2>1. v \in Word /\ Translate(v) \subseteq Word
    BY TranslateType DEF IInv, TypeOK, TlbAssumption
  <2>2. QED
    BY <1>2, <1>8, <2>1 DEF IInv, TypeOK, Access
<1>9. CASE UNCHANGED vars
  BY <1>2, <1>9 DEF IInv, TypeOK, vars, regs
<1>10. QED
  BY <1>1, <1>3, <1>4, <1>5, <1>6, <1>7, <1>8, <1>9 DEF Next

LEMMA Invariance == Spec => []IInv
<1>1. Init => IInv
  BY IInvInit, TlbAssumption
<1>2. IInv /\ [Next]_vars => IInv'
  BY IInvStep, TlbAssumption
<1>3. QED
  BY <1>1, <1>2, PTL DEF Spec

-----------------------------------------------------------------------------
(* The theorems.                                                           *)

\* Types, for every word width, page size and number of entries.
THEOREM TlbTypeCorrect == Spec => []TypeOK
<1>1. IInv => TypeOK
  BY DEF IInv
<1>2. QED
  BY <1>1, Invariance, PTL

\* Entries pile up and are never removed, but the core always translates by
\* the last one written.
THEOREM TlbIsPageTable == Spec => ImplementsPageTable
<1>1. Init => Table!Init
  BY DEF Init, Table!Init
<1>2. IInv /\ [Next]_vars => [Table!Next]_Table!vars
  <2>. SUFFICES ASSUME IInv, [Next]_vars PROVE [Table!Next]_Table!vars
    OBVIOUS
  <2>1. CASE Tlbw
    <3>1. PageOf(entryHi) \in Page /\ entryLo \div LoUnit \in Frame
      BY TlbAssumption, Rounding DEF IInv, TypeOK
    <3>2. Table!Install
      BY <2>1, <3>1 DEF Tlbw, Table!Install
    <3>3. QED
      BY <3>2 DEF Table!Next
  <2>2. ASSUME NEW v \in Used, Access(v) PROVE Table!Access
    <3>1. v \in Word /\ PageOf(v) \in Page
      BY TlbAssumption, Rounding DEF TlbAssumption
    <3>2. installed[PageOf(v)] = Frames(PageOf(v))
      BY <3>1 DEF IInv, Latest
    <3>3. QED
      BY <2>2, <3>1, <3>2 DEF Access, Translate, Table!Access
  <2>3. ASSUME UNCHANGED <<answer, installed>> PROVE UNCHANGED Table!vars
    BY <2>3 DEF Table!vars
  <2>4. CASE Tlbr
    BY <2>3, <2>4 DEF Tlbr
  <2>5. CASE Tlbp
    BY <2>3, <2>5 DEF Tlbp
  <2>6. ASSUME NEW w, Mtc0EntryHi(w) \/ Mtc0EntryLo(w) \/ Mtc0Index(w)
        PROVE UNCHANGED Table!vars
    BY <2>3, <2>6 DEF Mtc0EntryHi, Mtc0EntryLo, Mtc0Index
  <2>7. CASE UNCHANGED vars
    BY <2>3, <2>7 DEF vars
  <2>8. QED
    BY <2>1, <2>2, <2>4, <2>5, <2>6, <2>7 DEF Next, Table!Next
<1>3. QED
  BY <1>1, <1>2, Invariance, PTL DEF Spec, ImplementsPageTable, Table!Spec

\* A probe of an even page finds the entry that translates it.
THEOREM ProbeOfEvenPage == Spec => ProbeFindsEven
<1>1. IInv /\ Tlbp /\ PageOf(entryHi) = Probed => FindsEntry(Probed)
  <2>. SUFFICES ASSUME IInv, Tlbp PROVE FindsEntry(Probed)
    OBVIOUS
  <2>1. Frames(Probed) = {} <=> Hits = {}
    BY DEF Frames, Hits
  <2>2. CASE \E i \in Hits : index' = i - 1
    <3>1. PICK i \in Hits : index' = i - 1
      BY <2>2
    <3>2. i \in Nat /\ index' + 1 = i
      BY <3>1 DEF IInv, TypeOK, Hits, Newest, Matches
    <3>3. QED
      BY <2>1, <3>1, <3>2 DEF FindsEntry, Hits
  <2>3. CASE Hits = {} /\ index' = AddrSpace \div 2
    BY <2>1, <2>3, TlbAssumption DEF FindsEntry, TlbAssumption, IInv, TypeOK, Room
  <2>4. QED
    BY <2>2, <2>3 DEF Tlbp
<1>2. IInv /\ [Next]_vars => [Tlbp /\ PageOf(entryHi) = Probed => FindsEntry(Probed)]_vars
  BY <1>1
<1>3. QED
  BY <1>2, Invariance, PTL DEF Spec, ProbeFindsEven
=============================================================================
