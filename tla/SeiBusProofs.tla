---------------------------- MODULE SeiBusProofs ----------------------------
(***************************************************************************)
(* Proofs about SeiBus for every machine, every number of regions and      *)
(* devices and every sequence of bus accesses and host operations: types,  *)
(* well-formedness and decode, gates, silent failure, and the refinement   *)
(* of AddressSpace.                                                        *)
(***************************************************************************)
EXTENDS SeiBus, SequenceTheorems, WellFoundedInduction, TLAPS

-----------------------------------------------------------------------------
(* Decode lemmas.                                                          *)

\* Every non-empty set of naturals has a least member.
LEMMA LeastNatural ==
  ASSUME NEW S \in SUBSET Nat, S # {}
  PROVE  \E i \in S : \A j \in S : i <= j
<1> DEFINE Less == {p \in Nat \X Nat : p[1] < p[2]}
<1>1. IsWellFoundedOn(Less, Nat)
  BY NatLessThanWellFounded DEF OpToRel
<1>2. PICK x \in S : \A y \in S : ~ (<<y, x>> \in Less)
  <2> HIDE DEF Less
  <2> QED BY <1>1, WFMin
<1>3. ASSUME NEW j \in S
      PROVE  x <= j
  <2>1. /\ <<j, x>> \in Nat \X Nat
        /\ <<j, x>>[1] = j /\ <<j, x>>[2] = x
    OBVIOUS
  <2>2. ~ (j < x)
    BY <2>1, <1>2, Zenon
  <2>3. QED BY <2>2
<1>4. QED BY <1>3

\* First picks the least member of a non-empty set of indices.
LEMMA FirstMember ==
  ASSUME NEW S \in SUBSET Nat, S # {}
  PROVE  First(S) \in S /\ \A j \in S : First(S) <= j
BY LeastNatural, Zenon DEF First

\* When memory answers an access, the owner of the bytes is a region.
LEMMA BackingIndex ==
  ASSUME NEW rs \in Seq(Region), NEW a, Resolves(rs, a)
  PROVE  /\ First(Hits(rs, a)) \in DOMAIN rs
         /\ First(Hits(rs, a)) \in Hits(rs, a)
         /\ Backing(rs, a) \in DOMAIN rs
         /\ Backing(rs, a) \in Backings(rs, First(Hits(rs, a)))
<1>1. DOMAIN rs \in SUBSET Nat
  BY LenProperties
<1>2. First(Hits(rs, a)) \in Hits(rs, a)
  BY <1>1, FirstMember DEF Resolves, Hits
<1>3. First(Hits(rs, a)) \in DOMAIN rs
  BY <1>2 DEF Hits
<1>4. Backings(rs, First(Hits(rs, a))) \in SUBSET DOMAIN rs
  BY <1>3 DEF Backings, Named
<1>5. Backing(rs, a) \in Backings(rs, First(Hits(rs, a)))
  BY <1>1, <1>4, FirstMember DEF Resolves, Backing
<1>6. QED
  BY <1>2, <1>3, <1>4, <1>5

\* Memory is addressed at or after the start of its decode window.
LEMMA OffsetNatural ==
  ASSUME BusAssumption, NEW rs \in Seq(Region), NEW a \in Addr, Resolves(rs, a)
  PROVE  Offset(rs, a) \in Nat
<1>1. /\ First(Hits(rs, a)) \in 1 .. Len(rs)
      /\ First(Hits(rs, a)) \in Hits(rs, a)
  BY BackingIndex, LenProperties
<1>2. rs[First(Hits(rs, a))] \in Region
  BY <1>1, ElementOfSeq
<1>3. a \in Nat
  BY DEF BusAssumption
<1>4. QED
  BY <1>1, <1>2, <1>3 DEF Offset, Region, Hits, InWindow

\* The device that answers an access is a device.
LEMMA DeviceIndex ==
  ASSUME devices \in Seq(Device), NEW a, DevicesAt(a) # {}
  PROVE  /\ First(DevicesAt(a)) \in 1 .. Len(devices)
         /\ First(DevicesAt(a)) \in DevicesAt(a)
         /\ devices[First(DevicesAt(a))] \in Device
<1>1. DOMAIN devices = 1 .. Len(devices) /\ Len(devices) \in Nat
  BY LenProperties
<1>2. DevicesAt(a) \in SUBSET (1 .. Len(devices))
  BY <1>1 DEF DevicesAt
<1>3. First(DevicesAt(a)) \in DevicesAt(a)
  BY <1>1, <1>2, FirstMember
<1>4. QED
  BY <1>1, <1>2, <1>3, ElementOfSeq

-----------------------------------------------------------------------------
(* What the two operations on regions do.                                  *)

\* Every byte of an access lies within the access, in both byte orders.
LEMMA LaneRange ==
  ASSUME NEW little \in BOOLEAN, NEW n \in Nat, NEW k \in 1 .. n
  PROVE  Lane(little, n, k) \in 1 .. n
BY DEF Lane

\* Two arrays of regions that differ at most in their bytes and gates.
SameWindows(rs, qs) ==
  /\ rs \in Seq(Region) /\ qs \in Seq(Region)
  /\ Len(qs) = Len(rs)
  /\ \A i \in 1 .. Len(rs) :
       /\ qs[i].base = rs[i].base /\ qs[i].size = rs[i].size
       /\ qs[i].name = rs[i].name /\ qs[i].aliasOf = rs[i].aliasOf

\* A store changes the bytes of the region that owns the address, only those.
LEMMA MemWriteEffect ==
  ASSUME BusAssumption, regions \in Seq(Region), NEW a \in Addr,
         NEW n \in Widths, NEW v \in StoreValues, Resolves(regions, a)
  PROVE  /\ SameWindows(regions, MemWrite(a, n, v))
         /\ \A i \in 1 .. Len(regions) :
              /\ MemWrite(a, n, v)[i].enabled = regions[i].enabled
              /\ i # Backing(regions, a) => MemWrite(a, n, v)[i] = regions[i]
<1> DEFINE b == Backing(regions, a)
           r == regions[b]
           off == Offset(regions, a)
           newData == [c \in DOMAIN r.data |->
                         IF c \in off + 1 .. off + n
                         THEN v[Lane(r.little, n, c - off)]
                         ELSE r.data[c]]
           e == Stored(r, off, n, v)
<1>1. b \in 1 .. Len(regions) /\ r \in Region
  BY BackingIndex, LenProperties, ElementOfSeq
<1>2. off \in Int
  <2>1. First(Hits(regions, a)) \in 1 .. Len(regions)
    BY BackingIndex, LenProperties
  <2>2. regions[First(Hits(regions, a))] \in Region
    BY <2>1, ElementOfSeq
  <2>3. a \in Nat
    BY DEF BusAssumption
  <2>4. QED
    BY <2>2, <2>3 DEF Offset, Region
<1>3. newData \in Seq(Byte)
  <2>1. /\ r.data \in Seq(Byte) /\ DOMAIN r.data = 1 .. Len(r.data)
        /\ Len(r.data) \in Nat /\ r.little \in BOOLEAN
    BY <1>1, LenProperties DEF Region
  <2>2. n \in Nat /\ n \in 1 .. WordBytes /\ WordBytes \in Nat
        /\ v \in [1 .. WordBytes -> Byte]
    BY DEF BusAssumption, Word
  <2>3. ASSUME NEW c \in 1 .. Len(r.data)
        PROVE  newData[c] \in Byte
    <3>1. CASE c \in off + 1 .. off + n
      <4>1. c - off \in 1 .. n
        BY <3>1, <1>2, <2>1, <2>2
      <4>2. Lane(r.little, n, c - off) \in 1 .. n
        BY <4>1, <2>1, <2>2, LaneRange
      <4>3. Lane(r.little, n, c - off) \in 1 .. WordBytes
        BY <4>2, <2>2
      <4>4. QED
        BY <3>1, <4>3, <2>1, <2>2
    <3>2. CASE c \notin off + 1 .. off + n
      <4>1. newData[c] = r.data[c]
        BY <3>2, <2>1
      <4>2. QED
        BY <4>1, <2>1, ElementOfSeq
    <3>3. QED
      BY <3>1, <3>2
  <2>4. newData \in [1 .. Len(r.data) -> Byte]
    BY <2>1, <2>3
  <2>5. QED
    BY <2>1, <2>4, SeqDef
<1>4. /\ e \in Region /\ e.enabled = r.enabled
      /\ e.base = r.base /\ e.size = r.size
      /\ e.name = r.name /\ e.aliasOf = r.aliasOf
  <2>1. e = [r EXCEPT !.data = newData]
    BY Zenon DEF Stored
  <2> HIDE DEF newData, r, e
  <2>2. QED
    BY <1>1, <1>3, <2>1 DEF Region
<1>5. MemWrite(a, n, v) = [regions EXCEPT ![b] = e]
  BY Zenon DEF MemWrite
<1> HIDE DEF e, b, r
<1>6. /\ [regions EXCEPT ![b] = e] \in Seq(Region)
      /\ Len([regions EXCEPT ![b] = e]) = Len(regions)
      /\ \A j \in 1 .. Len(regions) :
            [regions EXCEPT ![b] = e][j] = IF j = b THEN e ELSE regions[j]
  BY <1>1, <1>4, ExceptSeq
<1>7. QED
  BY <1>1, <1>4, <1>5, <1>6 DEF SameWindows, b, r

\* Opening gates sets the enabled flag of the regions the controller names.
LEMMA OpenGatesEffect ==
  ASSUME NEW rs \in Seq(Region), NEW d \in Device
  PROVE  /\ SameWindows(rs, OpenGates(rs, d))
         /\ \A i \in 1 .. Len(rs) :
              /\ OpenGates(rs, d)[i].data = rs[i].data
              /\ OpenGates(rs, d)[i].perms = rs[i].perms
              /\ OpenGates(rs, d)[i].little = rs[i].little
              /\ \/ OpenGates(rs, d)[i].enabled = rs[i].enabled
                 \/ /\ OpenGates(rs, d)[i].enabled
                    /\ d.beh = "ddr" /\ d.ready /\ d.gates = rs[i].name
<1>1. DOMAIN rs = 1 .. Len(rs) /\ Len(rs) \in Nat
  BY LenProperties
<1>2. \A i \in 1 .. Len(rs) : rs[i] \in Region
  BY ElementOfSeq
<1>3. CASE d.beh = "ddr" /\ d.ready
  <2> DEFINE g == [i \in 1 .. Len(rs) |->
                     IF rs[i].name = d.gates
                     THEN [rs[i] EXCEPT !.enabled = TRUE] ELSE rs[i]]
  <2>1. OpenGates(rs, d) = g
    BY <1>1, <1>3 DEF OpenGates
  <2>2. \A i \in 1 .. Len(rs) :
          /\ g[i] \in Region
          /\ g[i].base = rs[i].base /\ g[i].size = rs[i].size
          /\ g[i].name = rs[i].name /\ g[i].aliasOf = rs[i].aliasOf
          /\ g[i].data = rs[i].data /\ g[i].perms = rs[i].perms
          /\ g[i].little = rs[i].little
          /\ g[i].enabled = rs[i].enabled
             \/ (g[i].enabled /\ rs[i].name = d.gates)
    BY <1>2 DEF Region
  <2>3. g \in Seq(Region) /\ Len(g) = Len(rs)
    <3>1. g \in [1 .. Len(rs) -> Region]
      BY <2>2
    <3>2. g \in Seq(Region)
      BY <3>1, <1>1, SeqDef
    <3>3. DOMAIN g = 1 .. Len(g) /\ Len(g) \in Nat
      BY <3>2, LenProperties
    <3>4. QED
      BY <3>2, <3>3, <1>1
  <2> HIDE DEF g
  <2>4. QED
    BY <2>1, <2>2, <2>3, <1>3 DEF SameWindows
<1>4. CASE ~(d.beh = "ddr" /\ d.ready)
  BY <1>4 DEF OpenGates, SameWindows
<1>5. QED
  BY <1>3, <1>4

-----------------------------------------------------------------------------
(* Type correctness.                                                       *)

\* A device register reads as a word.
LEMMA ReadRegType ==
  ASSUME BusAssumption, NEW d \in Device, NEW off
  PROVE  ReadReg(d, off) \in Seq(Byte)
<1>1. WordBytes \in Nat /\ Zero \in Byte /\ One \in Byte
  BY DEF BusAssumption
<1>2. ReadReg(d, off) \in {ZeroWord, OneWord, d.reg}
  BY DEF ReadReg, Device
<1>3. ZeroWord \in Word /\ OneWord \in Word /\ d.reg \in Word
  BY <1>1 DEF ZeroWord, OneWord, Word, Device
<1>4. QED
  BY <1>1, <1>2, <1>3, SeqDef DEF Word

\* A load answered by memory returns bytes.
LEMMA MemReadType ==
  ASSUME BusAssumption, regions \in Seq(Region), NEW a \in Addr, NEW n \in Widths,
         NEW need, MemVerdict(a, n, need) = "ok"
  PROVE  MemRead(a, n) \in Seq(Byte)
<1> DEFINE r == regions[Backing(regions, a)]
           off == Offset(regions, a)
<1>1. Resolves(regions, a)
  BY DEF MemVerdict
<1>2. r \in Region
  BY <1>1, BackingIndex, LenProperties, ElementOfSeq
<1>3. /\ r.data \in Seq(Byte) /\ DOMAIN r.data = 1 .. Len(r.data)
      /\ Len(r.data) \in Nat /\ r.little \in BOOLEAN
  BY <1>2, LenProperties DEF Region
<1>4. n \in Nat
  BY DEF BusAssumption
<1>5. AccessOk(off, n, Len(r.data))
  BY <1>1 DEF MemVerdict
<1>6. off \in Nat
  BY <1>1, OffsetNatural
<1> HIDE DEF off, r
<1>7. ASSUME NEW k \in 1 .. n
      PROVE  r.data[off + Lane(r.little, n, k)] \in Byte
  <2>1. Lane(r.little, n, k) \in 1 .. n
    BY <1>3, <1>4, LaneRange
  <2>2. off + Lane(r.little, n, k) \in 1 .. Len(r.data)
    BY <2>1, <1>3, <1>4, <1>5, <1>6 DEF AccessOk, off
  <2>3. QED
    BY <2>2, <1>3, ElementOfSeq
<1>8. [k \in 1 .. n |-> r.data[off + Lane(r.little, n, k)]] \in [1 .. n -> Byte]
  BY <1>7
<1>9. MemRead(a, n) = [k \in 1 .. n |-> r.data[off + Lane(r.little, n, k)]]
  BY Zenon DEF MemRead, r, off
<1>10. QED
  BY <1>4, <1>8, <1>9, SeqDef

\* A device stays a device, in its window, when a register is written.
LEMMA WriteRegType ==
  ASSUME NEW d \in Device, NEW off, NEW v \in Word
  PROVE  /\ WriteReg(d, off, v) \in Device
         /\ WriteReg(d, off, v).base = d.base
         /\ WriteReg(d, off, v).size = d.size
         /\ WriteReg(d, off, v).name = d.name
BY DEF WriteReg, Device

\* Every step keeps the types.
LEMMA TypeStep ==
  ASSUME BusAssumption, TypeOK, [Next]_vars
  PROVE  TypeOK'
<1> USE DEF TypeOK
<1>1. ASSUME NEW class \in Class, Emit(class)
      PROVE  trace' \in SUBSET Class /\ hasUnknown' \in BOOLEAN
  BY <1>1 DEF Emit
<1>2. ASSUME NEW st \in Status, NEW val \in Seq(Byte), Respond(st, val)
      PROVE  resp' \in Response
  BY <1>2 DEF Respond, Response
<1>3. <<>> \in Seq(Byte)
  BY EmptySeq
<1>4. ASSUME NEW a \in Addr, NEW n \in Widths, DeviceRead(a, n)
      PROVE  TypeOK'
  <2> DEFINE d == devices[First(DevicesAt(a))]
  <2>1. d \in Device
    BY <1>4, DeviceIndex DEF DeviceRead
  <2>2. ReadReg(d, a - d.base) \in Seq(Byte)
    BY <2>1, ReadRegType
  <2>3. QED
    BY <1>1, <1>2, <1>4, <2>2 DEF DeviceRead, Class, Status
<1>5. ASSUME NEW a \in Addr, NEW n \in Widths, NEW v \in StoreValues,
             DeviceWrite(a, n, v)
      PROVE  TypeOK'
  <2> DEFINE i == First(DevicesAt(a))
             d == devices[i]
             w == WriteReg(d, a - d.base, v)
  <2>1. i \in 1 .. Len(devices) /\ d \in Device
    BY <1>5, DeviceIndex DEF DeviceWrite
  <2>2. w \in Device
    BY <2>1, WriteRegType DEF BusAssumption
  <2>3. devices' = [devices EXCEPT ![i] = w] /\ regions' = OpenGates(regions, w)
    BY <1>5 DEF DeviceWrite
  <2> HIDE DEF w, d, i
  <2>4. devices' \in Seq(Device)
    BY <2>1, <2>2, <2>3, ExceptSeq
  <2>5. regions' \in Seq(Region)
    BY <2>2, <2>3, OpenGatesEffect DEF SameWindows
  <2>6. QED
    BY <1>1, <1>2, <1>3, <1>5, <2>4, <2>5 DEF DeviceWrite, Class, Status
<1>6. ASSUME NEW a \in Addr, NEW n \in Widths, DeviceCross(a, n)
      PROVE  TypeOK'
  BY <1>1, <1>2, <1>3, <1>6 DEF DeviceCross, Class, Status
<1>7. ASSUME NEW a \in Addr, NEW n \in Widths, NEW need \in {"r", "x"},
             MemoryRead(a, n, need)
      PROVE  TypeOK'
  <2>1. MemRead(a, n) \in Seq(Byte)
    BY <1>7, MemReadType DEF MemoryRead
  <2>2. QED
    BY <1>1, <1>2, <1>7, <2>1 DEF MemoryRead, Class, Status
<1>8. ASSUME NEW a \in Addr, NEW n \in Widths, NEW v \in StoreValues,
             MemoryWrite(a, n, v)
      PROVE  TypeOK'
  <2>1. Resolves(regions, a)
    BY <1>8 DEF MemoryWrite, MemVerdict
  <2>2. regions' \in Seq(Region)
    BY <1>8, <2>1, MemWriteEffect DEF MemoryWrite, SameWindows
  <2>3. QED
    BY <1>1, <1>2, <1>3, <1>8, <2>2 DEF MemoryWrite, Class, Status
<1>9. ASSUME NEW a \in Addr, NEW n \in Widths, NEW need \in Perm,
             MemoryFault(a, n, need)
      PROVE  TypeOK'
  <2>1. MemVerdict(a, n, need) \in Status
    BY <1>9 DEF MemoryFault, Status
  <2>2. QED
    BY <1>2, <1>3, <1>9, <2>1 DEF MemoryFault, Quiet
<1>10. ASSUME NEW a \in Addr, NEW n \in Widths, NEW need,
              UnknownRead(a, n, need)
       PROVE  TypeOK'
  <2>1. [k \in 1 .. n |-> UnknownDefault[k]] \in Seq(Byte)
    <3>1. n \in Nat /\ WordBytes \in Nat /\ n <= WordBytes
          /\ UnknownDefault \in [1 .. WordBytes -> Byte]
      BY DEF BusAssumption, Word
    <3>2. [k \in 1 .. n |-> UnknownDefault[k]] \in [1 .. n -> Byte]
      BY <3>1
    <3>3. QED
      BY <3>1, <3>2, SeqDef
  <2>2. resp' \in Response
    BY <1>2, <1>3, <1>10, <2>1 DEF UnknownRead, Status
  <2>3. QED
    BY <1>1, <1>10, <2>2 DEF UnknownRead, Class
<1>11. ASSUME NEW a \in Addr, NEW n \in Widths, UnknownWrite(a, n)
       PROVE  TypeOK'
  BY <1>1, <1>2, <1>3, <1>11 DEF UnknownWrite, Class, Status
<1>12. ASSUME NEW r \in HostRegions, AddRegion(r)
       PROVE  TypeOK'
  <2>1. regions' \in Seq(Region)
    BY <1>12, AppendProperties DEF AddRegion, BusAssumption
  <2>2. QED
    BY <1>12, <2>1 DEF AddRegion
<1>13. ASSUME NEW d \in HostDevices, AddDevice(d)
       PROVE  TypeOK'
  <2>1. devices' \in Seq(Device)
    BY <1>13, AppendProperties DEF AddDevice, BusAssumption
  <2>2. QED
    BY <1>13, <2>1 DEF AddDevice
<1>14. ASSUME NEW nm \in Name, RemoveDevice(nm)
       PROVE  TypeOK'
  <2>1. PICK n \in 0 .. Len(devices) :
          \E f \in [1 .. n -> {d \in DOMAIN devices : devices[d].name # nm}] :
             devices' = [k \in 1 .. n |-> devices[f[k]]]
    BY <1>14 DEF RemoveDevice
  <2>2. PICK f \in [1 .. n -> {d \in DOMAIN devices : devices[d].name # nm}] :
             devices' = [k \in 1 .. n |-> devices[f[k]]]
    BY <2>1
  <2>3. n \in Nat /\ DOMAIN devices = 1 .. Len(devices)
    BY LenProperties
  <2>4. \A k \in 1 .. n : devices[f[k]] \in Device
    BY <2>2, <2>3, ElementOfSeq
  <2>5. devices' \in Seq(Device)
    BY <2>2, <2>3, <2>4, SeqDef
  <2>6. QED
    BY <1>14, <2>5 DEF RemoveDevice
<1>15. CASE UNCHANGED vars
  BY <1>15 DEF vars
<1>16. QED
  BY <1>4, <1>5, <1>6, <1>7, <1>8, <1>9, <1>10, <1>11, <1>12, <1>13, <1>14, <1>15
  DEF Next, BusRead, BusWrite, Perm

\* The machine a loader hands over has the right types.
LEMMA TypeInit ==
  ASSUME BusAssumption, Init
  PROVE  TypeOK
BY EmptySeq DEF BusAssumption, Init, TypeOK, Class, Response, Status

\* Every reachable state has the right types, for every machine a loader
\* hands over and every region and device the host passes.
THEOREM TypeCorrect == Spec => []TypeOK
<1>1. Init => TypeOK
  BY BusAssumption, TypeInit
<1>2. TypeOK /\ [Next]_vars => TypeOK'
  BY BusAssumption, TypeStep
<1>3. QED
  BY <1>1, <1>2, PTL DEF Spec


-----------------------------------------------------------------------------
(* The machine stays well formed.                                          *)

WellFormed == BusWellFormed(regions, devices)

\* Well-formedness depends on the decode windows only.
LEMMA WellFormedWindows ==
  ASSUME NEW rs, NEW qs, SameWindows(rs, qs), NEW ds, BusWellFormed(rs, ds)
  PROVE  BusWellFormed(qs, ds)
<1>1. DOMAIN rs = 1 .. Len(rs) /\ DOMAIN qs = 1 .. Len(rs)
  BY LenProperties DEF SameWindows
<1>2. QED
  BY <1>1 DEF BusWellFormed, RegionsNonOverlap, DevicesNonOverlap,
              DevicesVsMemoryDisjoint, Overlaps, SameWindows

\* So does that of the devices: new ones whose windows are, in order, among
\* the old windows are as well formed.
LEMMA WellFormedDevices ==
  ASSUME NEW rs, NEW ds, NEW es, NEW f \in [DOMAIN es -> DOMAIN ds],
         \A j, k \in DOMAIN es : j < k => f[j] < f[k],
         \A k \in DOMAIN es : es[k].base = ds[f[k]].base /\ es[k].size = ds[f[k]].size,
         BusWellFormed(rs, ds)
  PROVE  BusWellFormed(rs, es)
BY DEF BusWellFormed, RegionsNonOverlap, DevicesNonOverlap,
       DevicesVsMemoryDisjoint, Overlaps

\* Every step keeps the machine well formed.
LEMMA WellFormedStep ==
  ASSUME BusAssumption, TypeOK, WellFormed, [Next]_vars
  PROVE  WellFormed'
<1> USE DEF TypeOK, WellFormed
<1>1. ASSUME NEW a \in Addr, NEW n \in Widths, NEW v \in StoreValues,
             DeviceWrite(a, n, v)
      PROVE  WellFormed'
  <2> DEFINE i == First(DevicesAt(a))
             d == devices[i]
             w == WriteReg(d, a - d.base, v)
  <2>1. i \in 1 .. Len(devices) /\ d \in Device
    BY <1>1, DeviceIndex DEF DeviceWrite
  <2>2. w \in Device /\ w.base = d.base /\ w.size = d.size
    BY <2>1, WriteRegType DEF BusAssumption
  <2>3. devices' = [devices EXCEPT ![i] = w] /\ regions' = OpenGates(regions, w)
    BY <1>1 DEF DeviceWrite
  <2> HIDE DEF w
  <2>4. BusWellFormed(regions', devices)
    BY <2>2, <2>3, OpenGatesEffect, WellFormedWindows
  <2>5. DOMAIN devices' = DOMAIN devices /\ DOMAIN devices = 1 .. Len(devices)
        /\ Len(devices) \in Nat
    BY <2>3, LenProperties
  <2> DEFINE f == [k \in DOMAIN devices |-> k]
  <2>6. /\ f \in [DOMAIN devices' -> DOMAIN devices]
        /\ \A j, k \in DOMAIN devices' : j < k => f[j] < f[k]
    BY <2>5
  <2>7. \A k \in DOMAIN devices' : /\ devices'[k].base = devices[f[k]].base
                                   /\ devices'[k].size = devices[f[k]].size
    BY <2>1, <2>2, <2>3, <2>5
  <2> HIDE DEF f
  <2>8. QED
    BY <2>4, <2>6, <2>7, WellFormedDevices
<1>2. ASSUME NEW a \in Addr, NEW n \in Widths, NEW v \in StoreValues,
             MemoryWrite(a, n, v)
      PROVE  WellFormed'
  BY <1>2, MemWriteEffect, WellFormedWindows DEF MemoryWrite, MemVerdict
<1>3. ASSUME NEW r \in HostRegions, AddRegion(r)
      PROVE  WellFormed'
  BY <1>3 DEF AddRegion
<1>4. ASSUME NEW d \in HostDevices, AddDevice(d)
      PROVE  WellFormed'
  BY <1>4 DEF AddDevice
<1>5. ASSUME NEW nm \in Name, RemoveDevice(nm)
      PROVE  WellFormed'
  <2> DEFINE Kept == {d \in DOMAIN devices : devices[d].name # nm}
  <2>1. PICK n \in 0 .. Len(devices) :
          \E f \in [1 .. n -> Kept] :
             Increasing(f) /\ devices' = [k \in 1 .. n |-> devices[f[k]]]
    BY <1>5 DEF RemoveDevice
  <2>2. PICK f \in [1 .. n -> Kept] :
             Increasing(f) /\ devices' = [k \in 1 .. n |-> devices[f[k]]]
    BY <2>1
  <2>3. DOMAIN devices' = 1 .. n /\ f \in [1 .. n -> DOMAIN devices]
    BY <2>2
  <2>4. \A j, k \in DOMAIN devices' : j < k => f[j] < f[k]
    BY <2>2, <2>3 DEF Increasing
  <2>5. \A k \in DOMAIN devices' : devices'[k] = devices[f[k]]
    BY <2>2, <2>3
  <2>6. regions' = regions
    BY <1>5 DEF RemoveDevice
  <2>7. f \in [DOMAIN devices' -> DOMAIN devices]
    BY <2>3
  <2>8. \A k \in DOMAIN devices' : /\ devices'[k].base = devices[f[k]].base
                                   /\ devices'[k].size = devices[f[k]].size
    BY <2>5
  <2>9. BusWellFormed(regions, devices')
    BY <2>4, <2>7, <2>8, WellFormedDevices, ZenonT(40)
  <2>10. QED
    BY <2>6, <2>9
<1>6. CASE UNCHANGED <<regions, devices>>
  BY <1>6
<1>7. QED
  BY <1>1, <1>2, <1>3, <1>4, <1>5, <1>6
  DEF Next, BusRead, BusWrite, DeviceRead, DeviceCross, MemoryRead, MemoryFault,
      UnknownRead, UnknownWrite, vars

\* No access, gate or host operation makes two decode windows overlap: the
\* well-formedness the loader checks is an invariant of the machine.
THEOREM StaysWellFormed == Spec => []WellFormed
<1>1. Init => WellFormed
  BY BusAssumption DEF Init, WellFormed, BusAssumption
<1>2. TypeOK /\ WellFormed /\ [Next]_vars => WellFormed'
  BY BusAssumption, WellFormedStep
<1>3. QED
  BY <1>1, <1>2, TypeCorrect, PTL DEF Spec

\* In a well-formed machine no address is in two windows.
LEMMA WellFormedDecode ==
  ASSUME BusAssumption, TypeOK, WellFormed
  PROVE  SingleDecode
<1>1. /\ DOMAIN regions = 1 .. Len(regions) /\ Len(regions) \in Nat
      /\ DOMAIN devices = 1 .. Len(devices) /\ Len(devices) \in Nat
  BY LenProperties DEF TypeOK
<1>2. /\ \A i \in DOMAIN regions : regions[i].base \in Nat /\ regions[i].size \in Nat
      /\ \A i \in DOMAIN devices : devices[i].base \in Nat /\ devices[i].size \in Nat
  <2>1. \A i \in 1 .. Len(regions) : regions[i] \in Region
    BY ElementOfSeq DEF TypeOK
  <2>2. \A i \in 1 .. Len(devices) : devices[i] \in Device
    BY ElementOfSeq DEF TypeOK
  <2>3. QED
    BY <1>1, <2>1, <2>2 DEF Region, Device
<1>3. ASSUME NEW a \in Nat, NEW u, NEW w,
             u.base \in Nat, u.size \in Nat, w.base \in Nat, w.size \in Nat,
             InWindow(u, a), InWindow(w, a)
      PROVE  Overlaps(u, w)
  BY <1>3 DEF InWindow, Overlaps
<1>4. ASSUME NEW a \in Addr, NEW i \in DOMAIN regions, NEW j \in DOMAIN regions,
             InWindow(regions[i], a), InWindow(regions[j], a), i < j
      PROVE  FALSE
  BY <1>2, <1>3, <1>4
  DEF WellFormed, BusWellFormed, RegionsNonOverlap, BusAssumption
<1>5. ASSUME NEW a \in Addr, NEW i \in DevicesAt(a), NEW j \in DevicesAt(a), i < j
      PROVE  FALSE
  BY <1>2, <1>3, <1>5
  DEF WellFormed, BusWellFormed, DevicesNonOverlap, BusAssumption, DevicesAt
<1>6. ASSUME NEW a \in Addr, NEW i \in DOMAIN regions, NEW j \in DevicesAt(a),
             InWindow(regions[i], a)
      PROVE  FALSE
  BY <1>2, <1>3, <1>6
  DEF WellFormed, BusWellFormed, DevicesVsMemoryDisjoint, BusAssumption, DevicesAt
<1>7. \A a \in Addr, i, j \in DOMAIN regions :
        InWindow(regions[i], a) /\ InWindow(regions[j], a) => i = j
  BY <1>1, <1>4
<1>8. \A a \in Addr : \A i, j \in DevicesAt(a) : i = j
  BY <1>1, <1>5 DEF DevicesAt
<1>9. \A a \in Addr, i \in DOMAIN regions :
        InWindow(regions[i], a) => DevicesAt(a) = {}
  BY <1>6
<1>10. QED
  BY <1>7, <1>8, <1>9 DEF SingleDecode

\* No address is ever in two decode windows, however the host has changed the
\* machine.
THEOREM DecodeIsSingle == Spec => []SingleDecode
<1>1. BusAssumption /\ TypeOK /\ WellFormed => SingleDecode
  BY WellFormedDecode
<1>2. QED
  BY <1>1, BusAssumption, TypeCorrect, StaysWellFormed, PTL

\* Fast mode keeps the frontier flag and the event log in agreement.
THEOREM FrontierFlag == Spec => []FrontierSound
<1>1. Init => FrontierSound
  BY DEF Init, FrontierSound
<1>2. ASSUME TypeOK, FrontierSound, [Next]_vars
      PROVE  FrontierSound'
  <2>1. ASSUME NEW class, Emit(class)
        PROVE  FrontierSound'
    BY <1>2, <2>1 DEF Emit, FrontierSound, TypeOK
  <2>2. CASE UNCHANGED <<trace, hasUnknown>>
    BY <1>2, <2>2 DEF FrontierSound
  <2>3. QED
    BY <1>2, <2>1, <2>2
    DEF Next, BusRead, BusWrite, DeviceRead, DeviceWrite, DeviceCross, MemoryRead,
        MemoryWrite, MemoryFault, UnknownRead, UnknownWrite, AddRegion, AddDevice,
        RemoveDevice, Quiet, vars
<1>3. QED
  BY <1>1, <1>2, TypeCorrect, PTL DEF Spec


-----------------------------------------------------------------------------
(* What a step may not do.                                                 *)

\* The four ways in which a step changes the regions, or does not.
LEMMA RegionSteps ==
  ASSUME BusAssumption, TypeOK, [Next]_vars
  PROVE  \/ regions' = regions
         \/ /\ SameWindows(regions, regions')
            /\ \E i \in 1 .. Len(devices) :
                 \E w \in Device : /\ devices' = [devices EXCEPT ![i] = w]
                                   /\ regions' = OpenGates(regions, w)
         \/ \E a \in Addr, n \in Widths, v \in StoreValues :
               Resolves(regions, a) /\ regions' = MemWrite(a, n, v)
         \/ \E r \in Region : /\ BusWellFormed(Append(regions, r), devices)
                              /\ regions' = Append(regions, r)
<1> USE DEF TypeOK
<1>1. ASSUME NEW a \in Addr, NEW n \in Widths, NEW v \in StoreValues,
             DeviceWrite(a, n, v)
      PROVE  /\ SameWindows(regions, regions')
             /\ \E i \in 1 .. Len(devices) :
                  \E w \in Device : /\ devices' = [devices EXCEPT ![i] = w]
                                    /\ regions' = OpenGates(regions, w)
  <2> DEFINE i == First(DevicesAt(a))
             w == WriteReg(devices[i], a - devices[i].base, v)
  <2>1. i \in 1 .. Len(devices) /\ devices[i] \in Device
    BY <1>1, DeviceIndex DEF DeviceWrite
  <2>2. w \in Device
    BY <2>1, WriteRegType DEF BusAssumption
  <2>3. devices' = [devices EXCEPT ![i] = w] /\ regions' = OpenGates(regions, w)
    BY <1>1 DEF DeviceWrite
  <2> HIDE DEF w, i
  <2>4. QED
    BY <2>1, <2>2, <2>3, OpenGatesEffect
<1>2. ASSUME NEW a \in Addr, NEW n \in Widths, NEW v \in StoreValues,
             MemoryWrite(a, n, v)
      PROVE  Resolves(regions, a) /\ regions' = MemWrite(a, n, v)
  BY <1>2 DEF MemoryWrite, MemVerdict
<1>3. ASSUME NEW r \in HostRegions, AddRegion(r)
      PROVE  /\ r \in Region /\ BusWellFormed(Append(regions, r), devices)
             /\ regions' = Append(regions, r)
  BY <1>3 DEF AddRegion, BusAssumption
<1>4. CASE regions' = regions
  BY <1>4
<1>5. QED
  BY <1>1, <1>2, <1>3, <1>4
  DEF Next, BusRead, BusWrite, DeviceRead, DeviceCross, MemoryRead, MemoryFault,
      UnknownRead, UnknownWrite, AddDevice, RemoveDevice, vars

\* What an address decodes to depends on the windows and the open gates: more
\* open gates leave what was decoded as it was.
LEMMA OpenKeepsDecode ==
  ASSUME BusAssumption, TypeOK, WellFormed, NEW qs, SameWindows(regions, qs),
         \A i \in 1 .. Len(regions) : regions[i].enabled => qs[i].enabled,
         NEW a \in Addr, Resolves(regions, a)
  PROVE  /\ Resolves(qs, a)
         /\ Backing(qs, a) = Backing(regions, a)
         /\ Offset(qs, a) = Offset(regions, a)
<1> DEFINE i == First(Hits(regions, a))
<1>1. /\ DOMAIN regions = 1 .. Len(regions) /\ DOMAIN qs = 1 .. Len(regions)
      /\ Len(regions) \in Nat
  BY LenProperties DEF SameWindows
<1>2. i \in DOMAIN regions /\ i \in Hits(regions, a)
  BY BackingIndex DEF TypeOK
<1>3. \A j \in DOMAIN regions : InWindow(qs[j], a) <=> InWindow(regions[j], a)
  BY <1>1 DEF SameWindows, InWindow
<1>4. i \in Hits(qs, a)
  BY <1>1, <1>2, <1>3 DEF Hits
<1>5. \A j \in Hits(qs, a) : j = i
  BY <1>1, <1>2, <1>3, WellFormedDecode DEF SingleDecode, Hits
<1>6. First(Hits(qs, a)) = i
  <2>1. Hits(qs, a) \in SUBSET Nat
    BY <1>1 DEF Hits
  <2>2. QED
    BY <1>4, <1>5, <2>1, FirstMember
<1>7. \A nm : Named(qs, nm) = Named(regions, nm)
  BY <1>1 DEF Named, SameWindows
<1>8. Backings(qs, i) = Backings(regions, i)
  BY <1>1, <1>2, <1>7 DEF Backings, SameWindows
<1>9. QED
  BY <1>1, <1>2, <1>4, <1>6, <1>8 DEF Resolves, Backing, Offset, SameWindows

\* So does a region that a well-formed machine accepts at the end.
LEMMA AppendKeepsDecode ==
  ASSUME BusAssumption, TypeOK, NEW r \in Region,
         RegionsNonOverlap(Append(regions, r)),
         NEW a \in Addr, Resolves(regions, a)
  PROVE  /\ Resolves(Append(regions, r), a)
         /\ Backing(Append(regions, r), a) = Backing(regions, a)
         /\ Offset(Append(regions, r), a) = Offset(regions, a)
<1> DEFINE qs == Append(regions, r)
           i  == First(Hits(regions, a))
           l  == Len(regions) + 1
<1>1. /\ DOMAIN regions = 1 .. Len(regions) /\ Len(regions) \in Nat
      /\ qs \in Seq(Region) /\ DOMAIN qs = 1 .. l /\ qs[l] = r
      /\ \A j \in DOMAIN regions : qs[j] = regions[j]
  BY LenProperties, AppendProperties DEF TypeOK
<1>2. i \in DOMAIN regions /\ i \in Hits(regions, a)
  BY BackingIndex DEF TypeOK
<1>3. regions[i] \in Region
  BY <1>1, <1>2, ElementOfSeq DEF TypeOK
<1>4. ~ InWindow(r, a)
  <2>1. ~ Overlaps(regions[i], r)
    BY <1>1, <1>2 DEF RegionsNonOverlap
  <2>2. InWindow(regions[i], a) /\ a \in Nat
    BY <1>2 DEF Hits, BusAssumption
  <2>3. QED
    BY <1>3, <2>1, <2>2 DEF Overlaps, InWindow, Region
<1> HIDE DEF qs
<1>5. Hits(qs, a) = Hits(regions, a)
  BY <1>1, <1>4 DEF Hits
<1> HIDE DEF i
<1>6. \A nm : /\ Named(regions, nm) \subseteq Named(qs, nm)
              /\ Named(qs, nm) \subseteq Named(regions, nm) \cup {l}
  BY <1>1 DEF Named
<1>7. /\ Backings(regions, i) \subseteq Backings(qs, i)
      /\ Backings(qs, i) \subseteq Backings(regions, i) \cup {l}
  BY <1>1, <1>2, <1>6 DEF Backings
<1>8. Backings(regions, i) # {} /\ Backings(regions, i) \in SUBSET (1 .. Len(regions))
  BY <1>1, <1>2 DEF Resolves, Backings, Named, i
<1>9. First(Backings(qs, i)) = First(Backings(regions, i))
  <2>1. /\ First(Backings(regions, i)) \in Backings(regions, i)
        /\ \A j \in Backings(regions, i) : First(Backings(regions, i)) <= j
    BY <1>1, <1>8, FirstMember
  <2>2. Backings(qs, i) \in SUBSET Nat /\ Backings(qs, i) # {}
    BY <1>1, <1>7, <1>8
  <2>3. /\ First(Backings(qs, i)) \in Backings(qs, i)
        /\ \A j \in Backings(qs, i) : First(Backings(qs, i)) <= j
    BY <2>2, FirstMember
  <2> DEFINE p == First(Backings(qs, i))
             q == First(Backings(regions, i))
  <2>4. p <= q /\ q \in 1 .. Len(regions) /\ p \in Nat
    BY <1>7, <1>8, <2>1, <2>2, <2>3
  <2>5. p \in Backings(regions, i)
    BY <1>1, <1>7, <2>3, <2>4
  <2>6. QED
    BY <2>1, <2>4, <2>5
<1>10. QED
  BY <1>1, <1>2, <1>5, <1>7, <1>8, <1>9 DEF Resolves, Backing, Offset, i, qs


\* What an address of memory decodes to never changes.
THEOREM DecodeNeverMoves == Spec => DecodeStable
<1>1. ASSUME TypeOK, WellFormed, [Next]_vars
      PROVE  SameDecode
  <2>1. ASSUME regions' # regions, NEW a \in Addr, Resolves(regions, a)
        PROVE  /\ Resolves(regions', a)
               /\ Backing(regions', a) = Backing(regions, a)
               /\ Offset(regions', a) = Offset(regions, a)
    <3>1. CASE /\ SameWindows(regions, regions')
               /\ \E i \in 1 .. Len(devices) :
                    \E w \in Device : /\ devices' = [devices EXCEPT ![i] = w]
                                      /\ regions' = OpenGates(regions, w)
      <4>1. \A i \in 1 .. Len(regions) : regions[i].enabled => regions'[i].enabled
        BY <1>1, <3>1, OpenGatesEffect DEF TypeOK
      <4>2. QED
        BY <1>1, <2>1, <3>1, <4>1, BusAssumption, OpenKeepsDecode
    <3>2. ASSUME NEW b \in Addr, NEW n \in Widths, NEW v \in StoreValues,
                 Resolves(regions, b), regions' = MemWrite(b, n, v)
          PROVE  /\ Resolves(regions', a)
                 /\ Backing(regions', a) = Backing(regions, a)
                 /\ Offset(regions', a) = Offset(regions, a)
      <4>1. /\ SameWindows(regions, regions')
            /\ \A i \in 1 .. Len(regions) : regions'[i].enabled = regions[i].enabled
        BY <1>1, <3>2, BusAssumption, MemWriteEffect DEF TypeOK
      <4>2. QED
        BY <1>1, <2>1, <4>1, BusAssumption, OpenKeepsDecode
    <3>3. CASE \E r \in Region : /\ BusWellFormed(Append(regions, r), devices)
                                 /\ regions' = Append(regions, r)
      BY <1>1, <2>1, <3>3, BusAssumption, AppendKeepsDecode DEF BusWellFormed
    <3>4. QED
      BY <1>1, <2>1, <3>1, <3>2, <3>3, BusAssumption, RegionSteps
  <2>2. QED
    BY <2>1 DEF SameDecode
<1>2. TypeOK /\ WellFormed /\ [Next]_vars => [SameDecode]_vars
  BY <1>1
<1>3. QED
  BY <1>2, TypeCorrect, StaysWellFormed, PTL DEF Spec, DecodeStable

\* Gates open only for a controller that is ready, and never close.
THEOREM GatesOpenOnce == Spec => GateOpensByController
<1>1. ASSUME TypeOK, [Next]_vars
      PROVE  GateChange
  <2>1. DOMAIN regions = 1 .. Len(regions)
    BY <1>1, LenProperties DEF TypeOK
  <2>2. ASSUME NEW k \in 1 .. Len(devices), NEW w \in Device,
               devices' = [devices EXCEPT ![k] = w],
               regions' = OpenGates(regions, w),
               NEW i \in DOMAIN regions,
               regions'[i].enabled # regions[i].enabled
        PROVE  /\ regions'[i].enabled
               /\ \E d \in DOMAIN devices' : /\ devices'[d].beh = "ddr"
                                             /\ devices'[d].ready
                                             /\ devices'[d].gates = regions'[i].name
    <3>1. /\ regions'[i].enabled /\ regions'[i].name = regions[i].name
          /\ w.beh = "ddr" /\ w.ready /\ w.gates = regions[i].name
      <4>1. regions \in Seq(Region) /\ i \in 1 .. Len(regions)
        BY <1>1, <2>1 DEF TypeOK
      <4>2. /\ SameWindows(regions, OpenGates(regions, w))
            /\ \/ OpenGates(regions, w)[i].enabled = regions[i].enabled
               \/ /\ OpenGates(regions, w)[i].enabled
                  /\ w.beh = "ddr" /\ w.ready /\ w.gates = regions[i].name
        BY <4>1, OpenGatesEffect
      <4>3. OpenGates(regions, w)[i].name = regions[i].name
        BY <4>1, <4>2 DEF SameWindows
      <4>4. QED
        BY <2>2, <4>2, <4>3, Zenon
    <3>2. k \in DOMAIN devices' /\ devices'[k] = w
      BY <1>1, <2>2, LenProperties DEF TypeOK
    <3>3. QED
      BY <3>1, <3>2
  <2>3. ASSUME NEW b \in Addr, NEW n \in Widths, NEW v \in StoreValues,
               Resolves(regions, b), regions' = MemWrite(b, n, v)
        PROVE  \A i \in DOMAIN regions : regions'[i].enabled = regions[i].enabled
    BY <1>1, <2>1, <2>3, BusAssumption, MemWriteEffect DEF TypeOK
  <2>4. ASSUME NEW r \in Region, regions' = Append(regions, r)
        PROVE  \A i \in DOMAIN regions : regions'[i] = regions[i]
    BY <1>1, <2>1, <2>4, AppendProperties DEF TypeOK
  <2>5. QED
    BY <1>1, <2>2, <2>3, <2>4, BusAssumption, RegionSteps DEF GateChange
<1>2. TypeOK /\ [Next]_vars => [GateChange]_vars
  BY <1>1
<1>3. QED
  BY <1>2, TypeCorrect, PTL DEF Spec, GateOpensByController

\* A gate keeps stores out of the region itself.
THEOREM GatedBytes == Spec => GatedBytesFrozen
<1>1. ASSUME TypeOK, [Next]_vars
      PROVE  GatedStore
  <2>1. DOMAIN regions = 1 .. Len(regions)
    BY <1>1, LenProperties DEF TypeOK
  <2>2. ASSUME NEW w \in Device, regions' = OpenGates(regions, w)
        PROVE  \A i \in DOMAIN regions : regions'[i].data = regions[i].data
    BY <1>1, <2>1, <2>2, OpenGatesEffect DEF TypeOK
  <2>3. ASSUME NEW b \in Addr, NEW n \in Widths, NEW v \in StoreValues,
               Resolves(regions, b), regions' = MemWrite(b, n, v),
               NEW i \in DOMAIN regions,
               regions'[i].data # regions[i].data
        PROVE  regions[i].enabled \/ Aliased(regions, i)
    <3>1. i = Backing(regions, b)
      BY <1>1, <2>1, <2>3, BusAssumption, MemWriteEffect DEF TypeOK
    <3>2. /\ i \in Backings(regions, First(Hits(regions, b)))
          /\ First(Hits(regions, b)) \in Hits(regions, b)
      BY <1>1, <2>3, <3>1, BackingIndex DEF TypeOK
    <3>3. CASE i = First(Hits(regions, b))
      BY <3>2, <3>3 DEF Hits
    <3>4. CASE i # First(Hits(regions, b))
      BY <3>2, <3>4 DEF Hits, Backings, Named, Aliased
    <3>5. QED
      BY <3>3, <3>4
  <2>4. ASSUME NEW r \in Region, regions' = Append(regions, r)
        PROVE  \A i \in DOMAIN regions : regions'[i] = regions[i]
    BY <1>1, <2>1, <2>4, AppendProperties DEF TypeOK
  <2>5. QED
    BY <1>1, <2>2, <2>3, <2>4, BusAssumption, RegionSteps DEF GatedStore
<1>2. TypeOK /\ [Next]_vars => [GatedStore]_vars
  BY <1>1
<1>3. QED
  BY <1>2, TypeCorrect, PTL DEF Spec, GatedBytesFrozen

\* An access that returns an error changes nothing.
THEOREM FailuresAreSilent == Spec => FailedAccessIsSilent
<1>1. ASSUME [Next]_vars
      PROVE  SilentFailure
  BY <1>1
  DEF SilentFailure, Next, BusRead, BusWrite, DeviceRead, DeviceWrite, DeviceCross,
      MemoryRead, MemoryWrite, MemoryFault, UnknownRead, UnknownWrite, AddRegion,
      AddDevice, RemoveDevice, Respond, vars
<1>2. [Next]_vars => [SilentFailure]_vars
  BY <1>1
<1>3. QED
  BY <1>2, PTL DEF Spec, FailedAccessIsSilent

-----------------------------------------------------------------------------
(* The refinement of AddressSpace.                                         *)

\* The state of the address space, as the refinement mapping gives it.
Cells == [i \in DOMAIN regions |-> regions[i].data]
Owner == [i \in DOMAIN regions |-> [perms  |-> regions[i].perms,
                                    little |-> regions[i].little]]
Map   == [a \in Addr |-> LeadsTo(a)]
ToMemory(bank, at) == [to |-> "memory", bank |-> bank, at |-> at]

\* An address leads to a device if one claims it, else to the cell that decode
\* finds, else nowhere.
LEMMA LeadsWhere ==
  ASSUME NEW a
  PROVE  LeadsTo(a) = IF DevicesAt(a) # {} THEN [to |-> "device"]
                      ELSE IF Resolves(regions, a)
                           THEN ToMemory(Backing(regions, a), Offset(regions, a))
                           ELSE [to |-> "nothing"]
BY DEF LeadsTo, Resolves, Backing, Offset, ToMemory

\* The same after a step.
LEMMA LeadsWhereNext ==
  ASSUME NEW a
  PROVE  LeadsTo(a)' = IF DevicesAt(a)' # {} THEN [to |-> "device"]
                       ELSE IF Resolves(regions', a)
                            THEN ToMemory(Backing(regions', a), Offset(regions', a))
                            ELSE [to |-> "nothing"]
BY DEF LeadsTo, Resolves, Backing, Offset, ToMemory

\* Steps that change neither regions nor devices change no place.
LEMMA SameMap ==
  ASSUME regions' = regions, devices' = devices
  PROVE  Cells' = Cells /\ Owner' = Owner /\ Map' = Map
<1>1. \A a : LeadsTo(a)' = LeadsTo(a)
  BY DEF LeadsTo, DevicesAt
<1>2. QED
  BY <1>1 DEF Cells, Owner, Map

\* What an address of memory decodes to survives every step that leaves the
\* devices where they are, and so does an address of a device.
LEMMA MapGrows ==
  ASSUME BusAssumption,
         \A a \in Addr : DevicesAt(a) # {} => DevicesAt(a)' # {},
         \A a \in Addr : DevicesAt(a) = {} /\ Resolves(regions, a) =>
           /\ DevicesAt(a)' = {}
           /\ Resolves(regions', a)
           /\ Backing(regions', a) = Backing(regions, a)
           /\ Offset(regions', a) = Offset(regions, a)
  PROVE  \A a \in Addr : Map[a] # [to |-> "nothing"] => Map'[a] = Map[a]
<1>1. ASSUME NEW a \in Addr, LeadsTo(a) # [to |-> "nothing"]
      PROVE  LeadsTo(a)' = LeadsTo(a)
  <2>1. CASE DevicesAt(a) # {}
    <3>1. DevicesAt(a)' # {}
      BY <2>1
    <3>2. QED
      BY <2>1, <3>1, LeadsWhere, LeadsWhereNext
  <2>2. CASE DevicesAt(a) = {} /\ Resolves(regions, a)
    <3>1. /\ DevicesAt(a)' = {}
          /\ Resolves(regions', a)
          /\ Backing(regions', a) = Backing(regions, a)
          /\ Offset(regions', a) = Offset(regions, a)
      BY <2>2
    <3>2. QED
      BY <2>2, <3>1, LeadsWhere, LeadsWhereNext
  <2>3. CASE DevicesAt(a) = {} /\ ~ Resolves(regions, a)
    BY <1>1, <2>3, LeadsWhere
  <2>4. QED
    BY <2>1, <2>2, <2>3
<1>2. \A a \in Addr : Map[a] = LeadsTo(a) /\ Map'[a] = LeadsTo(a)'
  BY DEF Map
<1>3. QED
  BY <1>1, <1>2

\* Where a device answers no memory is decoded.
LEMMA DeviceOrMemory ==
  ASSUME BusAssumption, TypeOK, WellFormed, NEW a \in Addr, DevicesAt(a) # {}
  PROVE  ~ Resolves(regions, a)
<1>1. SingleDecode
  BY WellFormedDecode
<1>2. Hits(regions, a) = {}
  BY <1>1 DEF SingleDecode, Hits
<1>3. QED
  BY <1>2 DEF Resolves

\* The place of an address of memory: the bank is the region that owns the
\* bytes, and its cells, permissions and byte order are the region's.
LEMMA MemoryPlace ==
  ASSUME BusAssumption, TypeOK, NEW a \in Addr,
         DevicesAt(a) = {}, Resolves(regions, a)
  PROVE  LET b == Backing(regions, a)
         IN /\ Map[a].to = "memory" /\ Map[a].bank = b
            /\ Map[a].at = Offset(regions, a)
            /\ Cells[b] = regions[b].data
            /\ Owner[b].perms = regions[b].perms
            /\ Owner[b].little = regions[b].little
            /\ regions[b] \in Region
            /\ Offset(regions, a) \in Nat
<1>1. Map[a] = ToMemory(Backing(regions, a), Offset(regions, a))
  BY LeadsWhere DEF Map
<1>2. Backing(regions, a) \in DOMAIN regions
  BY BackingIndex DEF TypeOK
<1>3. regions[Backing(regions, a)] \in Region
  BY <1>2, LenProperties, ElementOfSeq DEF TypeOK
<1>4. /\ Map[a].to = "memory" /\ Map[a].bank = Backing(regions, a)
      /\ Map[a].at = Offset(regions, a)
  BY <1>1 DEF ToMemory
<1>5. \A i \in DOMAIN regions : /\ Cells[i] = regions[i].data
                                /\ Owner[i].perms = regions[i].perms
                                /\ Owner[i].little = regions[i].little
  BY DEF Cells, Owner
<1>6. Offset(regions, a) \in Nat
  BY OffsetNatural DEF TypeOK
<1>7. QED
  BY <1>2, <1>3, <1>4, <1>5, <1>6, Zenon

\* A load from memory is a load of the address space.
LEMMA LoadStep ==
  ASSUME BusAssumption, TypeOK, NEW a \in Addr, NEW n \in Widths,
         NEW need \in {"r", "x"}, MemoryRead(a, n, need)
  PROVE  Promise!Access(a)
<1> DEFINE b == Backing(regions, a)
           m == Map[a]
<1>1. /\ DevicesAt(a) = {} /\ Resolves(regions, a)
      /\ need \in regions[b].perms
      /\ AccessOk(Offset(regions, a), n, Len(regions[b].data))
      /\ Respond("ok", MemRead(a, n)) /\ Emit("verbose")
      /\ regions' = regions /\ devices' = devices
  BY DEF MemoryRead, MemVerdict
<1>2. /\ m.to = "memory" /\ m.bank = b /\ m.at = Offset(regions, a)
      /\ Cells[b] = regions[b].data
      /\ Owner[b].perms = regions[b].perms /\ Owner[b].little = regions[b].little
  BY <1>1, MemoryPlace
<1>3. need \in Owner[m.bank].perms
  BY <1>1, <1>2
<1>4. m.at + n <= Len(Cells[m.bank])
  BY <1>1, <1>2 DEF AccessOk
<1>5. resp' = [status |-> "ok",
               val |-> [k \in 1 .. n |->
                          Cells[m.bank][m.at + IF Owner[m.bank].little THEN k ELSE n + 1 - k]]]
  BY <1>1, <1>2 DEF Respond, MemRead, Lane
<1>6. Cells' = Cells /\ Owner' = Owner /\ Map' = Map
  BY <1>1, SameMap
<1>7. hasUnknown' = hasUnknown
  BY <1>1 DEF Emit, TypeOK
<1>8. Promise!Load(m, n, need)
  BY <1>3, <1>4, <1>5, <1>6, <1>7
  DEF Promise!Load, Promise!Fits, Promise!Lane, Cells, Owner, Map
<1>9. QED
  BY <1>2, <1>8 DEF Promise!Access, Promise!Memory, Map

\* A refused access to memory is a refusal of the address space.
LEMMA RefuseStep ==
  ASSUME BusAssumption, TypeOK, NEW a \in Addr, NEW n \in Widths,
         NEW need \in Perm, MemoryFault(a, n, need)
  PROVE  Promise!Access(a)
<1> DEFINE b == Backing(regions, a)
           m == Map[a]
<1>1. /\ DevicesAt(a) = {} /\ Resolves(regions, a)
      /\ \/ need \notin regions[b].perms /\ Respond("perm", <<>>)
         \/ /\ need \in regions[b].perms
            /\ ~ AccessOk(Offset(regions, a), n, Len(regions[b].data))
            /\ Respond("cross", <<>>)
      /\ hasUnknown' = hasUnknown
      /\ regions' = regions /\ devices' = devices
  BY DEF MemoryFault, MemVerdict, Quiet
<1>2. /\ m.to = "memory" /\ m.bank = b /\ m.at = Offset(regions, a)
      /\ Cells[b] = regions[b].data
      /\ Owner[b].perms = regions[b].perms
  BY <1>1, MemoryPlace
<1>3. n \in Nat /\ 0 < n
  BY DEF BusAssumption
<1>4. \/ need \notin Owner[m.bank].perms /\ resp'.status = "perm"
      \/ /\ need \in Owner[m.bank].perms
         /\ ~ (m.at + n <= Len(Cells[m.bank]))
         /\ resp'.status = "cross"
  BY <1>1, <1>2, <1>3 DEF AccessOk, Respond
<1>5. Cells' = Cells /\ Owner' = Owner /\ Map' = Map
  BY <1>1, SameMap
<1>6. Promise!Refuse(m, n, need)
  BY <1>1, <1>4, <1>5 DEF Promise!Refuse, Promise!Fits, Cells, Owner, Map
<1>7. QED
  BY <1>2, <1>6 DEF Promise!Access, Promise!Memory, Map, Perm

\* An access that nothing claims leads nowhere and raises the alarm.
LEMMA NowhereStep ==
  ASSUME BusAssumption, TypeOK, NEW a \in Addr, NEW n \in Widths, NEW need,
         UnknownRead(a, n, need) \/ UnknownWrite(a, n)
  PROVE  Promise!Access(a)
<1>1. /\ DevicesAt(a) = {} /\ ~ Resolves(regions, a)
      /\ hasUnknown' = TRUE
      /\ resp'.status \in {"ok", "unknown"}
      /\ regions' = regions /\ devices' = devices
  <2>1. \A c : MemVerdict(a, n, c) = "unmapped" => ~ Resolves(regions, a)
    BY DEF MemVerdict
  <2>2. Emit("unknown") => hasUnknown' = TRUE
    BY DEF Emit, TypeOK
  <2>3. ASSUME NEW status \in {"ok", "unknown"}, NEW val, Respond(status, val)
        PROVE  resp'.status \in {"ok", "unknown"}
    BY <2>3 DEF Respond
  <2>4. QED
    BY <2>1, <2>2, <2>3 DEF UnknownRead, UnknownWrite
<1>2. Map[a] = [to |-> "nothing"]
  BY <1>1, LeadsWhere DEF Map
<1>3. Cells' = Cells /\ Owner' = Owner /\ Map' = Map
  BY <1>1, SameMap
<1>4. QED
  BY <1>1, <1>2, <1>3
  DEF Promise!Access, Promise!LeadNowhere, Promise!Nothing, Cells, Owner, Map

\* Reading a device register, or running past its window, is a register access.
LEMMA RegisterStep ==
  ASSUME BusAssumption, TypeOK, NEW a \in Addr, NEW n \in Widths,
         DeviceRead(a, n) \/ DeviceCross(a, n)
  PROVE  Promise!Access(a)
<1>1. /\ DevicesAt(a) # {}
      /\ hasUnknown' = hasUnknown
      /\ resp'.status \in {"ok", "cross"}
      /\ regions' = regions /\ devices' = devices
  BY DEF DeviceRead, DeviceCross, Emit, Respond, TypeOK
<1>2. Map[a] = [to |-> "device"]
  BY <1>1, LeadsWhere DEF Map
<1>3. Cells' = Cells /\ Owner' = Owner /\ Map' = Map
  BY <1>1, SameMap
<1>4. Promise!Register
  BY <1>1, <1>3 DEF Promise!Register, Promise!MapGrows, Cells, Owner, Map
<1>5. QED
  BY <1>2, <1>4 DEF Promise!Access, Promise!ADevice, Map

\* The cells old after byte k of v went where the address space puts it.
Spread(old, off, little, n, v) ==
  [c \in DOMAIN old |->
     IF \E k \in 1 .. n : c = off + IF little THEN k ELSE n + 1 - k
     THEN v[CHOOSE k \in 1 .. n : c = off + IF little THEN k ELSE n + 1 - k]
     ELSE old[c]]

\* Storing n bytes in a region keeps everything but its bytes, and puts each
\* where the address space puts it.
LEMMA StoredCells ==
  ASSUME NEW r \in Region, NEW off \in Nat, NEW n \in Nat, NEW v
  PROVE  /\ Stored(r, off, n, v).perms = r.perms
         /\ Stored(r, off, n, v).little = r.little
         /\ Stored(r, off, n, v).data = Spread(r.data, off, r.little, n, v)
<1> DEFINE at(k) == off + IF r.little THEN k ELSE n + 1 - k
           old == r.data
<1>1. /\ DOMAIN old \in SUBSET Nat /\ r.little \in BOOLEAN
  BY LenProperties DEF Region
<1>2. ASSUME NEW c \in DOMAIN old
      PROVE  /\ (\E k \in 1 .. n : c = at(k)) <=> c \in off + 1 .. off + n
             /\ c \in off + 1 .. off + n =>
                  (CHOOSE k \in 1 .. n : c = at(k)) = Lane(r.little, n, c - off)
  <2>1. c \in Nat
    BY <1>1
  <2>2. \A k \in 1 .. n : c = at(k) =>
          c \in off + 1 .. off + n /\ k = Lane(r.little, n, c - off)
    BY <1>1, <2>1 DEF Lane
  <2>3. c \in off + 1 .. off + n =>
          /\ Lane(r.little, n, c - off) \in 1 .. n
          /\ c = at(Lane(r.little, n, c - off))
    BY <1>1, <2>1 DEF Lane
  <2> HIDE DEF at
  <2>4. QED
    BY <2>2, <2>3
<1> HIDE DEF at
<1>3. [c \in DOMAIN old |-> IF c \in off + 1 .. off + n
                            THEN v[Lane(r.little, n, c - off)] ELSE old[c]]
      = [c \in DOMAIN old |-> IF \E k \in 1 .. n : c = at(k)
                              THEN v[CHOOSE k \in 1 .. n : c = at(k)] ELSE old[c]]
  BY <1>2
<1>4. /\ Stored(r, off, n, v).perms = r.perms
      /\ Stored(r, off, n, v).little = r.little
      /\ Stored(r, off, n, v).data =
           [c \in DOMAIN old |-> IF c \in off + 1 .. off + n
                                 THEN v[Lane(r.little, n, c - off)] ELSE old[c]]
  BY DEF Stored, Region
<1>5. Spread(old, off, r.little, n, v) =
        [c \in DOMAIN old |-> IF \E k \in 1 .. n : c = at(k)
                              THEN v[CHOOSE k \in 1 .. n : c = at(k)] ELSE old[c]]
  BY Zenon DEF at, Spread
<1>6. QED
  BY <1>3, <1>4, <1>5, Zenon

\* A store to memory is a store of the address space.
LEMMA StoreStep ==
  ASSUME BusAssumption, TypeOK, WellFormed, NEW a \in Addr, NEW n \in Widths,
         NEW v \in StoreValues, MemoryWrite(a, n, v)
  PROVE  Promise!Access(a)
<1> DEFINE b == Backing(regions, a)
           off == Offset(regions, a)
           m == Map[a]
           new == Stored(regions[b], off, n, v)
<1>1. /\ DevicesAt(a) = {} /\ Resolves(regions, a)
      /\ "w" \in regions[b].perms
      /\ AccessOk(off, n, Len(regions[b].data))
      /\ Respond("ok", <<>>)
      /\ regions' = MemWrite(a, n, v) /\ devices' = devices
  BY DEF MemoryWrite, MemVerdict
<1>2. hasUnknown' = hasUnknown
  BY DEF MemoryWrite, Emit, TypeOK
<1>3. /\ m.to = "memory" /\ m.bank = b /\ m.at = off
      /\ Cells[b] = regions[b].data
      /\ Owner[b].perms = regions[b].perms /\ Owner[b].little = regions[b].little
      /\ regions[b] \in Region /\ off \in Nat
  BY <1>1, MemoryPlace
<1>4. n \in Nat
  BY DEF BusAssumption
<1>5. b \in DOMAIN regions /\ DOMAIN regions = 1 .. Len(regions)
  BY <1>1, BackingIndex, LenProperties DEF TypeOK
<1>6. /\ regions' = [regions EXCEPT ![b] = new]
      /\ new.perms = regions[b].perms /\ new.little = regions[b].little
      /\ new.data = Spread(regions[b].data, off, regions[b].little, n, v)
  <2>1. regions' = [regions EXCEPT ![b] = new]
    BY <1>1, Zenon DEF MemWrite
  <2>2. QED
    BY <2>1, <1>3, <1>4, StoredCells
<1>7. Map' = Map
  <2>1. SameWindows(regions, regions')
        /\ \A i \in 1 .. Len(regions) : regions'[i].enabled = regions[i].enabled
    BY <1>1, MemWriteEffect DEF TypeOK
  <2>2. ASSUME NEW c \in Addr
        PROVE  LeadsTo(c)' = LeadsTo(c)
    <3>1. DevicesAt(c)' = DevicesAt(c)
      BY <1>1 DEF DevicesAt
    <3>2. Resolves(regions, c) =>
            /\ Resolves(regions', c)
            /\ Backing(regions', c) = Backing(regions, c)
            /\ Offset(regions', c) = Offset(regions, c)
      BY <2>1, OpenKeepsDecode
    <3>3. Resolves(regions', c) => Resolves(regions, c)
      <4>1. /\ DOMAIN regions' = DOMAIN regions
            /\ DOMAIN regions = 1 .. Len(regions)
        BY <2>1, LenProperties DEF SameWindows
      <4>2. Hits(regions', c) = Hits(regions, c)
        BY <2>1, <4>1 DEF Hits, InWindow, SameWindows
      <4>3. \A i \in DOMAIN regions : Backings(regions', i) = Backings(regions, i)
        BY <2>1, <4>1 DEF Backings, Named, SameWindows
      <4>4. Hits(regions, c) \in SUBSET (DOMAIN regions)
        BY DEF Hits
      <4>5. Hits(regions, c) # {} => First(Hits(regions, c)) \in Hits(regions, c)
        BY <4>1, <4>4, FirstMember
      <4>6. QED
        BY <4>2, <4>3, <4>4, <4>5 DEF Resolves
    <3>4. QED
      BY <3>1, <3>2, <3>3, LeadsWhere, LeadsWhereNext
  <2>3. QED
    BY <2>2 DEF Map
<1> HIDE DEF new, b, off, m
<1>8. Owner' = Owner
  <2>1. DOMAIN regions' = DOMAIN regions
    BY <1>6
  <2>2. \A i \in DOMAIN regions :
          /\ regions'[i].perms = regions[i].perms
          /\ regions'[i].little = regions[i].little
    BY <1>5, <1>6
  <2>3. QED
    BY <2>1, <2>2 DEF Owner
<1>9. Cells' = [Cells EXCEPT ![b] = new.data]
  <2>1. DOMAIN regions' = DOMAIN regions
    BY <1>6
  <2>2. \A i \in DOMAIN regions :
          regions'[i].data = IF i = b THEN new.data ELSE regions[i].data
    BY <1>5, <1>6
  <2>3. QED
    BY <2>1, <2>2 DEF Cells
<1>10. Cells' = [Cells EXCEPT ![m.bank] =
                   Spread(Cells[m.bank], m.at, Owner[m.bank].little, n, v)]
  BY <1>3, <1>6, <1>9
<1>11. Promise!Store(m, n, v)
  BY <1>1, <1>2, <1>3, <1>7, <1>8, <1>10
  DEF Promise!Store, Promise!Fits, Promise!Lane, Respond, AccessOk, Cells, Owner, Map,
      Spread
<1>12. QED
  BY <1>3, <1>11 DEF Promise!Access, Promise!Memory, Map, m

\* Writing a device register moves no window and no bytes: it is a register
\* access, which may make addresses of a gated region lead to memory.
LEMMA RegisterWriteStep ==
  ASSUME BusAssumption, TypeOK, WellFormed, NEW a \in Addr, NEW n \in Widths,
         NEW v \in StoreValues, DeviceWrite(a, n, v)
  PROVE  Promise!Access(a)
<1> DEFINE i == First(DevicesAt(a))
           w == WriteReg(devices[i], a - devices[i].base, v)
<1>1. /\ DevicesAt(a) # {}
      /\ i \in 1 .. Len(devices) /\ devices[i] \in Device
  BY DeviceIndex DEF DeviceWrite, TypeOK
<1>2. w \in Device /\ w.base = devices[i].base /\ w.size = devices[i].size
  BY <1>1, WriteRegType DEF BusAssumption
<1>3. /\ devices' = [devices EXCEPT ![i] = w] /\ regions' = OpenGates(regions, w)
      /\ Respond("ok", <<>>) /\ Emit("kept")
  BY DEF DeviceWrite
<1> HIDE DEF w, i
<1>4. /\ SameWindows(regions, regions')
      /\ \A j \in 1 .. Len(regions) :
           /\ regions'[j].data = regions[j].data
           /\ regions'[j].perms = regions[j].perms
           /\ regions'[j].little = regions[j].little
           /\ regions[j].enabled => regions'[j].enabled
  BY <1>2, <1>3, OpenGatesEffect DEF TypeOK
<1>5. DOMAIN regions' = DOMAIN regions /\ DOMAIN regions = 1 .. Len(regions)
  BY <1>4, LenProperties DEF SameWindows
<1>6. Cells' = Cells /\ Owner' = Owner
  BY <1>4, <1>5 DEF Cells, Owner
<1>7. \A c \in Addr : DevicesAt(c)' = DevicesAt(c)
  <2>1. DOMAIN devices' = DOMAIN devices
    BY <1>3
  <2>2. \A d \in DOMAIN devices : /\ devices'[d].base = devices[d].base
                                  /\ devices'[d].size = devices[d].size
    BY <1>1, <1>2, <1>3
  <2>3. QED
    BY <2>1, <2>2 DEF DevicesAt, InWindow
<1>8. \A c \in Addr : Resolves(regions, c) =>
        /\ Resolves(regions', c)
        /\ Backing(regions', c) = Backing(regions, c)
        /\ Offset(regions', c) = Offset(regions, c)
  BY <1>4, OpenKeepsDecode
<1>9. \A c \in Addr : Map[c] # [to |-> "nothing"] => Map'[c] = Map[c]
  BY <1>7, <1>8, MapGrows
<1>10. hasUnknown' = hasUnknown /\ resp'.status = "ok"
  BY <1>3 DEF Emit, Respond, TypeOK
<1>11. Promise!Register
  BY <1>6, <1>9, <1>10
  DEF Promise!Register, Promise!MapGrows, Promise!Nothing, Cells, Owner, Map
<1>12. Map[a] = [to |-> "device"]
  BY <1>1, LeadsWhere DEF Map
<1>13. QED
  BY <1>11, <1>12 DEF Promise!Access, Promise!ADevice, Map

\* A region the host adds extends the address space.
LEMMA AddRegionStep ==
  ASSUME BusAssumption, TypeOK, WellFormed, NEW r \in HostRegions, AddRegion(r)
  PROVE  Promise!Extend
<1>1. /\ r \in Region /\ regions' = Append(regions, r) /\ devices' = devices
      /\ RegionsNonOverlap(Append(regions, r))
      /\ hasUnknown' = hasUnknown /\ resp' = resp
  BY DEF AddRegion, BusAssumption, BusWellFormed
<1>2. /\ DOMAIN regions = 1 .. Len(regions) /\ Len(regions) \in Nat
      /\ DOMAIN regions' = 1 .. Len(regions) + 1
      /\ \A i \in DOMAIN regions : regions'[i] = regions[i]
  BY <1>1, LenProperties, AppendProperties DEF TypeOK
<1>3. \A c \in Addr : DevicesAt(c)' = DevicesAt(c)
  BY <1>1 DEF DevicesAt
<1>4. \A c \in Addr : Resolves(regions, c) =>
        /\ Resolves(regions', c)
        /\ Backing(regions', c) = Backing(regions, c)
        /\ Offset(regions', c) = Offset(regions, c)
  BY <1>1, AppendKeepsDecode
<1>5. \A c \in Addr : Map[c] # [to |-> "nothing"] => Map'[c] = Map[c]
  BY <1>3, <1>4, MapGrows
<1>6. /\ DOMAIN Cells = DOMAIN regions
      /\ \A i \in DOMAIN regions :
           i \in DOMAIN Cells' /\ Cells'[i] = Cells[i] /\ Owner'[i] = Owner[i]
  BY <1>2 DEF Cells, Owner
<1>7. QED
  BY <1>1, <1>5, <1>6
  DEF Promise!Extend, Promise!MapGrows, Promise!Nothing, Cells, Owner, Map

\* So does a device: it may not shadow memory.
LEMMA AddDeviceStep ==
  ASSUME BusAssumption, TypeOK, WellFormed, WellFormed', TypeOK',
         NEW d \in HostDevices, AddDevice(d)
  PROVE  Promise!Extend
<1>1. /\ devices' = Append(devices, d) /\ regions' = regions
      /\ hasUnknown' = hasUnknown /\ resp' = resp
  BY DEF AddDevice
<1>2. /\ DOMAIN devices \subseteq DOMAIN devices'
      /\ \A i \in DOMAIN devices : devices'[i] = devices[i]
  BY <1>1, LenProperties, AppendProperties DEF TypeOK
<1>3. \A c \in Addr : DevicesAt(c) # {} => DevicesAt(c)' # {}
  BY <1>2 DEF DevicesAt
<1>4. ASSUME NEW c \in Addr, Resolves(regions, c)
      PROVE  DevicesAt(c)' = {}
  <2>1. SingleDecode'
    BY WellFormedDecode, PTL
  <2>2. Hits(regions, c) # {}
    BY <1>4 DEF Resolves
  <2>3. QED
    BY <1>1, <2>1, <2>2 DEF SingleDecode, Hits
<1>5. \A c \in Addr : Map[c] # [to |-> "nothing"] => Map'[c] = Map[c]
  BY <1>1, <1>3, <1>4, MapGrows
<1>6. Cells' = Cells /\ Owner' = Owner
  BY <1>1 DEF Cells, Owner
<1>7. DOMAIN Cells' = DOMAIN Cells
  BY <1>6
<1>8. QED
  BY <1>1, <1>5, <1>6, <1>7
  DEF Promise!Extend, Promise!MapGrows, Promise!Nothing, Cells, Owner, Map

\* A device the host removes leaves nothing where it was.
LEMMA RemoveDeviceStep ==
  ASSUME BusAssumption, TypeOK, WellFormed, NEW nm \in Name, RemoveDevice(nm)
  PROVE  Promise!Unplug
<1>1. /\ regions' = regions /\ hasUnknown' = hasUnknown /\ resp' = resp
      /\ \A j \in DOMAIN devices' : \E d \in DOMAIN devices : devices'[j] = devices[d]
  <2> DEFINE Kept == {d \in DOMAIN devices : devices[d].name # nm}
  <2>1. PICK n \in 0 .. Len(devices) :
          \E f \in [1 .. n -> Kept] : devices' = [k \in 1 .. n |-> devices[f[k]]]
    BY DEF RemoveDevice
  <2>2. PICK f \in [1 .. n -> Kept] : devices' = [k \in 1 .. n |-> devices[f[k]]]
    BY <2>1
  <2>3. \A j \in DOMAIN devices' : \E d \in DOMAIN devices : devices'[j] = devices[d]
    BY <2>2
  <2>4. QED
    BY <2>3 DEF RemoveDevice
<1>2. \A c \in Addr : DevicesAt(c) = {} => DevicesAt(c)' = {}
  BY <1>1 DEF DevicesAt
<1>3. ASSUME NEW c \in Addr, LeadsTo(c)' # LeadsTo(c)
      PROVE  LeadsTo(c) = [to |-> "device"] /\ LeadsTo(c)' = [to |-> "nothing"]
  <2>1. CASE DevicesAt(c) = {}
    BY <1>1, <1>2, <1>3, <2>1, LeadsWhere, LeadsWhereNext
  <2>2. CASE DevicesAt(c) # {}
    <3>1. LeadsTo(c) = [to |-> "device"] /\ ~ Resolves(regions, c)
      BY <2>2, LeadsWhere, DeviceOrMemory
    <3>2. QED
      BY <1>1, <1>3, <3>1, LeadsWhereNext
  <2>3. QED
    BY <2>1, <2>2
<1>4. \A c \in Addr : Map'[c] # Map[c] =>
        Map[c] = [to |-> "device"] /\ Map'[c] = [to |-> "nothing"]
  BY <1>3 DEF Map
<1>5. Cells' = Cells /\ Owner' = Owner
  BY <1>1 DEF Cells, Owner
<1>6. QED
  BY <1>1, <1>4, <1>5
  DEF Promise!Unplug, Promise!ADevice, Promise!Nothing, Cells, Owner, Map

\* Every step of the bus is a step of the address space, or changes nothing
\* the address space speaks of.
LEMMA PromiseStep ==
  ASSUME BusAssumption, TypeOK, WellFormed, TypeOK', WellFormed', [Next]_vars
  PROVE  [Promise!Next]_Promise!vars
<1>1. ASSUME NEW a \in Addr, NEW n \in Widths, NEW need \in {"r", "x"},
             BusRead(a, n, need)
      PROVE  Promise!Access(a)
  BY <1>1, LoadStep, RefuseStep, NowhereStep, RegisterStep DEF BusRead, Perm
<1>2. ASSUME NEW a \in Addr, NEW n \in Widths, NEW v \in StoreValues,
             BusWrite(a, n, v)
      PROVE  Promise!Access(a)
  BY <1>2, StoreStep, RefuseStep, NowhereStep, RegisterStep, RegisterWriteStep
  DEF BusWrite, Perm
<1>3. ASSUME NEW r \in HostRegions, AddRegion(r)
      PROVE  Promise!Extend
  BY <1>3, AddRegionStep
<1>4. ASSUME NEW d \in HostDevices, AddDevice(d)
      PROVE  Promise!Extend
  BY <1>4, AddDeviceStep
<1>5. ASSUME NEW nm \in Name, RemoveDevice(nm)
      PROVE  Promise!Unplug
  BY <1>5, RemoveDeviceStep
<1>6. CASE UNCHANGED vars
  <2>1. Cells' = Cells /\ Owner' = Owner /\ Map' = Map
    BY <1>6, SameMap DEF vars
  <2>2. QED
    BY <1>6, <2>1 DEF vars, Promise!vars, Cells, Owner, Map
<1>7. QED
  BY <1>1, <1>2, <1>3, <1>4, <1>5, <1>6 DEF Next, Promise!Next

\* The bus keeps its promise to the CPU and the host for every machine: arrays,
\* windows, alias names, byte orders and gates implement one map from addresses
\* to cells, which only grows where it led nowhere or loses a removed device;
\* loads return what was stored last in the cells, through whichever address,
\* and a refused access changes nothing.
THEOREM BusIsAddressSpace == Spec => ImplementsAddressSpace
<1>1. Init => Promise!Init
  BY DEF Init, Promise!Init
<1>2. TypeOK /\ WellFormed /\ TypeOK' /\ WellFormed' /\ [Next]_vars
        => [Promise!Next]_Promise!vars
  BY BusAssumption, PromiseStep
<1>3. QED
  BY <1>1, <1>2, TypeCorrect, StaysWellFormed, PTL
  DEF Spec, ImplementsAddressSpace, Promise!Spec
=============================================================================
