------------------------------- MODULE SeiBus -------------------------------
(***************************************************************************)
(* The bus of the emulated machine (Sei/Core.lean): memory regions with    *)
(* aliases and readiness gates, device windows, the routing of an access   *)
(* (device window, then memory, then unknown-MMIO frontier), the faults it *)
(* returns, the classes of events it records, and the host operations of   *)
(* Sei/Api.lean that change the machine between two accesses.              *)
(*                                                                         *)
(* Data abstraction: a word is a sequence of WordBytes bytes, least        *)
(* significant byte first, a byte is any member of Byte.  Of a device the  *)
(* bus sees its window and whether it is a DDR controller that gates a     *)
(* region; every other behaviour is a one-register stub here and has its   *)
(* own module (SeiDevice).  The event log is kept as the set of classes of *)
(* events recorded so far.                                                 *)
(***************************************************************************)
EXTENDS Integers, Sequences

CONSTANTS
  Name,            \* names of regions and devices
  NoName,          \* "none": a region that is no alias
  Byte,            \* values of a memory cell
  Zero, One,       \* the bytes 0 and 1
  WordBytes,       \* bytes of a machine word (4 in the code)
  Widths,          \* access widths, in bytes
  Addr,            \* addresses the CPU may put on the bus
  StoreValues,     \* words the CPU may store
  StatusOff,       \* offset of the DDR STATUS register (0x0)
  CtrlOff,         \* offset of the DDR CTRL register (0x4)
  UnknownDefault,  \* the word an unmapped read returns under "default"
  Boot,            \* the machines a loader hands over: [regions, devices]
  BootPolicies,    \* the trace and unknown-access policies they come with
  HostRegions,     \* regions the host may pass to addRegion
  HostDevices,     \* devices the host may pass to addDevice
  MaxRegions,      \* bound: the host adds no region beyond this many
  MaxDevices       \* bound: the host adds no device beyond this many

VARIABLES
  regions,    \* Machine.regions, in array order
  devices,    \* Machine.devices, in array order
  trace,      \* classes of the events recorded in Machine.trace
  hasUnknown, \* Machine.hasUnknown
  policy,     \* traceFull, unknownRead, unknownWrite: set before the run
  resp        \* what the last bus access returned to its caller

vars == <<regions, devices, trace, hasUnknown, policy, resp>>

Word     == [1 .. WordBytes -> Byte]
ZeroWord == [k \in 1 .. WordBytes |-> Zero]
OneWord  == [k \in 1 .. WordBytes |-> IF k = 1 THEN One ELSE Zero]
Perm     == {"r", "w", "x"}

Region == [name : Name, base : Nat, size : Nat, aliasOf : Name \cup {NoName},
           perms : SUBSET Perm, little : BOOLEAN, enabled : BOOLEAN,
           data : Seq(Byte)]

Device == [name : Name, base : Nat, size : Nat, beh : {"ddr", "regStub"},
           gates : Name, ready : BOOLEAN, reg : Word]

Policy == [traceFull : BOOLEAN,
           onRead : {"default", "fault"}, onWrite : {"default", "fault"}]

\* Events that fast mode drops, frontier events, and the rest (MMIO, notes).
Class == {"verbose", "unknown", "kept"}

Status   == {"none", "ok", "perm", "cross", "unknown"}
Response == [status : Status, val : Seq(Byte)]

-----------------------------------------------------------------------------
(* Decode.                                                                 *)

InWindow(w, a) == w.base <= a /\ a < w.base + w.size

Overlaps(u, w) == u.base < w.base + w.size /\ w.base < u.base + u.size

\* Mutant: the target of an alias is the last region of that name.
LastOf(S) == CHOOSE i \in S : \A j \in S : j <= i
First(S) == CHOOSE i \in S : \A j \in S : i <= j

\* Mutant: decode does not look at the gate.
HitsUngated(rs, a) == {i \in DOMAIN rs : InWindow(rs[i], a)}
Hits(rs, a)   == {i \in DOMAIN rs : InWindow(rs[i], a) /\ rs[i].enabled}
Named(rs, nm) == {i \in DOMAIN rs : rs[i].name = nm}

\* The region whose bytes answer for window i: itself, or the first region
\* with the alias target's name, whether that one is enabled or not.
Backings(rs, i) == IF rs[i].aliasOf = NoName THEN {i}
                                             ELSE Named(rs, rs[i].aliasOf)

Resolves(rs, a) == Hits(rs, a) # {} /\ Backings(rs, First(Hits(rs, a))) # {}
Backing(rs, a)  == First(Backings(rs, First(Hits(rs, a))))
Offset(rs, a)   == a - rs[First(Hits(rs, a))].base

DevicesAt(a) == {d \in DOMAIN devices : InWindow(devices[d], a)}

RegionsNonOverlap(rs) ==
  \A i, j \in DOMAIN rs : i < j => ~Overlaps(rs[i], rs[j])
DevicesNonOverlap(ds) ==
  \A i, j \in DOMAIN ds : i < j => ~Overlaps(ds[i], ds[j])
DevicesVsMemoryDisjoint(rs, ds) ==
  \A i \in DOMAIN ds, j \in DOMAIN rs : ~Overlaps(ds[i], rs[j])

\* Mutant: a device may be added on top of memory.
WellFormedApart(rs, ds) == RegionsNonOverlap(rs) /\ DevicesNonOverlap(ds)
BusWellFormed(rs, ds) == /\ RegionsNonOverlap(rs)
                         /\ DevicesNonOverlap(ds)
                         /\ DevicesVsMemoryDisjoint(rs, ds)

\* A loader hands over only well-formed machines; the host passes values of
\* the right type, which addRegion and addDevice may still refuse.
ASSUME BusAssumption ==
  /\ NoName \notin Name
  /\ Zero \in Byte /\ One \in Byte
  /\ WordBytes \in Nat \ {0} /\ Widths \subseteq 1 .. WordBytes
  /\ Addr \subseteq Nat
  /\ StoreValues \subseteq Word /\ UnknownDefault \in Word
  /\ \A b \in Boot : /\ b.regions \in Seq(Region)
                     /\ b.devices \in Seq(Device)
                     /\ BusWellFormed(b.regions, b.devices)
  /\ BootPolicies \subseteq Policy
  /\ HostRegions \subseteq Region /\ HostDevices \subseteq Device
  /\ MaxRegions \in Nat /\ MaxDevices \in Nat

-----------------------------------------------------------------------------
(* Memory.                                                                 *)

AccessOk(off, n, size) == 0 < n /\ off + n <= size

\* The byte of an n-byte value that sits k cells after the first.
\* Mutant: every region is read and written in little-endian order.
LaneLittle(little, n, k) == k
Lane(little, n, k) == IF little THEN k ELSE n + 1 - k

MemVerdict(a, n, need) ==
  IF ~Resolves(regions, a) THEN "unmapped"
  ELSE LET r == regions[Backing(regions, a)] IN
       IF need \notin r.perms THEN "perm"
       ELSE IF ~AccessOk(Offset(regions, a), n, Len(r.data)) THEN "cross"
       ELSE "ok"

MemRead(a, n) ==
  LET r == regions[Backing(regions, a)] IN
  [k \in 1 .. n |-> r.data[Offset(regions, a) + Lane(r.little, n, k)]]

\* Region r after v's low n bytes went to the n cells after the first off.
Stored(r, off, n, v) ==
  [r EXCEPT !.data = [c \in DOMAIN r.data |->
                        IF c \in off + 1 .. off + n
                        THEN v[Lane(r.little, n, c - off)] ELSE r.data[c]]]

MemWrite(a, n, v) ==
  [regions EXCEPT ![Backing(regions, a)] = Stored(@, Offset(regions, a), n, v)]

-----------------------------------------------------------------------------
(* Device registers, as far as the bus depends on them.                    *)

ReadReg(d, off) ==
  CASE d.beh = "ddr"     -> IF off = StatusOff /\ d.ready THEN OneWord ELSE ZeroWord
    [] d.beh = "regStub" -> IF off = 0 THEN d.reg ELSE ZeroWord

WriteReg(d, off, v) ==
  CASE d.beh = "ddr"     -> [d EXCEPT !.ready = @ \/ (off = CtrlOff /\ v = OneWord)]
    [] d.beh = "regStub" -> [d EXCEPT !.reg = IF off = 0 THEN v ELSE @]

\* A controller that is ready after a write enables every region it gates.
\* Mutant: any write to the controller opens the gate.
OpenGatesEarly(rs, d) ==
  IF d.beh = "ddr"
  THEN [i \in DOMAIN rs |-> IF rs[i].name = d.gates
                            THEN [rs[i] EXCEPT !.enabled = TRUE] ELSE rs[i]]
  ELSE rs
OpenGates(rs, d) ==
  IF d.beh = "ddr" /\ d.ready
  THEN [i \in DOMAIN rs |-> IF rs[i].name = d.gates
                            THEN [rs[i] EXCEPT !.enabled = TRUE] ELSE rs[i]]
  ELSE rs

-----------------------------------------------------------------------------
(* Events and responses.                                                   *)

\* Mutant: fast mode drops frontier events too, and only raises the flag.
EmitFlagOnly(class) ==
  /\ trace' = IF policy.traceFull \/ class = "kept" THEN trace \cup {class} ELSE trace
  /\ hasUnknown' = (hasUnknown \/ class = "unknown")
Emit(class) ==
  IF ~policy.traceFull /\ class = "verbose"
  THEN UNCHANGED <<trace, hasUnknown>>
  ELSE /\ trace' = trace \cup {class}
       /\ hasUnknown' = (hasUnknown \/ class = "unknown")

Quiet == UNCHANGED <<trace, hasUnknown>>

Respond(status, val) == resp' = [status |-> status, val |-> val]

-----------------------------------------------------------------------------
(* Bus accesses.  Exactly one of these actions answers an access.          *)

DeviceRead(a, n) ==
  /\ DevicesAt(a) # {}
  /\ LET d == devices[First(DevicesAt(a))] IN
     /\ AccessOk(a - d.base, n, d.size)
     /\ Respond("ok", ReadReg(d, a - d.base))
     /\ Emit("kept")
  /\ UNCHANGED <<regions, devices, policy>>

DeviceWrite(a, n, v) ==
  /\ DevicesAt(a) # {}
  /\ LET i == First(DevicesAt(a))
         d == devices[i]
         w == WriteReg(d, a - d.base, v)
     IN /\ AccessOk(a - d.base, n, d.size)
        /\ devices' = [devices EXCEPT ![i] = w]
        /\ regions' = OpenGates(regions, w)
        /\ Respond("ok", <<>>)
        /\ Emit("kept")
  /\ UNCHANGED policy

\* A device access that runs past its window, read or write alike.
DeviceCross(a, n) ==
  /\ DevicesAt(a) # {}
  /\ LET d == devices[First(DevicesAt(a))] IN ~AccessOk(a - d.base, n, d.size)
  /\ Respond("cross", <<>>)
  /\ Emit("kept")
  /\ UNCHANGED <<regions, devices, policy>>

MemoryRead(a, n, need) ==
  /\ DevicesAt(a) = {}
  /\ MemVerdict(a, n, need) = "ok"
  /\ Respond("ok", MemRead(a, n))
  /\ Emit("verbose")
  /\ UNCHANGED <<regions, devices, policy>>

MemoryWrite(a, n, v) ==
  /\ DevicesAt(a) = {}
  /\ MemVerdict(a, n, "w") = "ok"
  /\ regions' = MemWrite(a, n, v)
  /\ Respond("ok", <<>>)
  /\ Emit("verbose")
  /\ UNCHANGED <<devices, policy>>

\* Mutant: a store that crosses the end writes its first byte before it fails.
MemoryFaultTorn(a, n, need) ==
  /\ DevicesAt(a) = {}
  /\ MemVerdict(a, n, need) \in {"perm", "cross"}
  /\ Respond(MemVerdict(a, n, need), <<>>)
  /\ regions' = IF need = "w" /\ MemVerdict(a, n, need) = "cross"
                THEN MemWrite(a, 1, OneWord) ELSE regions
  /\ Quiet
  /\ UNCHANGED <<devices, policy>>

\* A fault in mapped memory is returned as it is and leaves no event.
MemoryFault(a, n, need) ==
  /\ DevicesAt(a) = {}
  /\ MemVerdict(a, n, need) \in {"perm", "cross"}
  /\ Respond(MemVerdict(a, n, need), <<>>)
  /\ Quiet
  /\ UNCHANGED <<regions, devices, policy>>

UnknownRead(a, n, need) ==
  /\ DevicesAt(a) = {}
  /\ MemVerdict(a, n, need) = "unmapped"
  /\ Emit("unknown")
  /\ IF policy.onRead = "default"
     THEN Respond("ok", [k \in 1 .. n |-> UnknownDefault[k]])
     ELSE Respond("unknown", <<>>)
  /\ UNCHANGED <<regions, devices, policy>>

\* Mutant: the response of an unknown store is the policy itself.
UnknownWriteEcho(a, n) ==
  /\ DevicesAt(a) = {}
  /\ MemVerdict(a, n, "w") = "unmapped"
  /\ Emit("unknown")
  /\ Respond(policy.onWrite, <<>>)
  /\ UNCHANGED <<regions, devices, policy>>

UnknownWrite(a, n) ==
  /\ DevicesAt(a) = {}
  /\ MemVerdict(a, n, "w") = "unmapped"
  /\ Emit("unknown")
  /\ Respond(IF policy.onWrite = "default" THEN "ok" ELSE "unknown", <<>>)
  /\ UNCHANGED <<regions, devices, policy>>

\* need is "x" for an instruction fetch and "r" for a load.
BusRead(a, n, need) == \/ DeviceRead(a, n)
                       \/ DeviceCross(a, n)
                       \/ MemoryRead(a, n, need)
                       \/ MemoryFault(a, n, need)
                       \/ UnknownRead(a, n, need)

BusWrite(a, n, v) == \/ DeviceWrite(a, n, v)
                     \/ DeviceCross(a, n)
                     \/ MemoryWrite(a, n, v)
                     \/ MemoryFault(a, n, "w")
                     \/ UnknownWrite(a, n)

-----------------------------------------------------------------------------
(* Host operations (Sei/Api.lean).  A refused addition changes nothing.    *)

AddRegion(r) ==
  /\ Len(regions) < MaxRegions
  /\ BusWellFormed(Append(regions, r), devices)
  /\ regions' = Append(regions, r)
  /\ UNCHANGED <<devices, trace, hasUnknown, policy, resp>>

AddDevice(d) ==
  /\ Len(devices) < MaxDevices
  /\ BusWellFormed(regions, Append(devices, d))
  /\ devices' = Append(devices, d)
  /\ UNCHANGED <<regions, trace, hasUnknown, policy, resp>>

Increasing(f) == \A j, k \in DOMAIN f : j < k => f[j] < f[k]

\* Every device of that name goes, the others keep their order.
RemoveDevice(nm) ==
  /\ \E n \in 0 .. Len(devices) :
       \E f \in [1 .. n -> {d \in DOMAIN devices : devices[d].name # nm}] :
          /\ Increasing(f)
          /\ \A d \in DOMAIN devices :
                devices[d].name # nm => \E k \in 1 .. n : f[k] = d
          /\ devices' = [k \in 1 .. n |-> devices[f[k]]]
  /\ UNCHANGED <<regions, trace, hasUnknown, policy, resp>>

-----------------------------------------------------------------------------
Init ==
  /\ \E b \in Boot : regions = b.regions /\ devices = b.devices
  /\ trace = {}
  /\ hasUnknown = FALSE
  /\ policy \in BootPolicies
  /\ resp = [status |-> "none", val |-> <<>>]

Next ==
  \/ \E a \in Addr, n \in Widths, need \in {"r", "x"} : BusRead(a, n, need)
  \/ \E a \in Addr, n \in Widths, v \in StoreValues : BusWrite(a, n, v)
  \/ \E r \in HostRegions : AddRegion(r)
  \/ \E d \in HostDevices : AddDevice(d)
  \/ \E nm \in Name : RemoveDevice(nm)

Spec == Init /\ [][Next]_vars

-----------------------------------------------------------------------------
(* Properties.                                                             *)

\* Every variable keeps its type.
TypeOK ==
  /\ regions \in Seq(Region)
  /\ devices \in Seq(Device)
  /\ trace \in SUBSET Class
  /\ hasUnknown \in BOOLEAN
  /\ policy \in Policy
  /\ resp \in Response

\* No address is in two decode windows, of any kind and whether or not a
\* region is gated off, however the host has changed the machine: what
\* findDev and resolve find does not depend on the order of the arrays.
SingleDecode ==
  \A a \in Addr :
    /\ \A i, j \in DOMAIN regions :
          InWindow(regions[i], a) /\ InWindow(regions[j], a) => i = j
    /\ \A i, j \in DevicesAt(a) : i = j
    /\ \A i \in DOMAIN regions : InWindow(regions[i], a) => DevicesAt(a) = {}

\* hasUnknown, the O(1) flag the runners stop on, agrees with the event log
\* in full and in fast mode: fast mode drops no frontier event, and no other
\* event raises the flag.
FrontierSound == hasUnknown <=> "unknown" \in trace

\* An access that returns an error has no side effect on memory, devices or
\* gates, in particular a store that crosses the end of its region or window
\* writes none of its bytes.
SilentFailure ==
  resp' # resp /\ resp'.status \in {"perm", "cross", "unknown"}
    => UNCHANGED <<regions, devices>>

FailedAccessIsSilent == [][SilentFailure]_vars

\* Once an address decodes to a cell of some region, no later access, gate
\* or host addition makes it decode to another cell (or to none).
SameDecode ==
  regions' # regions =>
    \A a \in Addr : Resolves(regions, a) =>
      /\ Resolves(regions', a)
      /\ Backing(regions', a) = Backing(regions, a)
      /\ Offset(regions', a) = Offset(regions, a)

DecodeStable == [][SameDecode]_vars

\* A gate opens only because a DDR controller that names the region is ready,
\* and it never closes again.
GateChange ==
  \A i \in DOMAIN regions :
    regions'[i].enabled # regions[i].enabled =>
      /\ regions'[i].enabled
      /\ \E d \in DOMAIN devices' : /\ devices'[d].beh = "ddr"
                                    /\ devices'[d].ready
                                    /\ devices'[d].gates = regions'[i].name

GateOpensByController == [][GateChange]_vars

Aliased(rs, i) ==
  \E j \in DOMAIN rs : rs[j].aliasOf # NoName /\ rs[j].aliasOf = rs[i].name

\* The bytes of a gated-off region do not change as long as no alias of the
\* region exists: the gate keeps stores out.
GatedStore ==
  \A i \in DOMAIN regions :
    regions'[i].data # regions[i].data =>
      regions[i].enabled \/ Aliased(regions, i)

GatedBytesFrozen == [][GatedStore]_vars

\* What the bus promises (AddressSpace): the arrays, windows, alias names and
\* gates implement one stable map from addresses to cells, devices or nothing.
LeadsTo(a) ==
  LET hit == Hits(regions, a)
      backing == Backings(regions, First(hit))
  IN IF DevicesAt(a) # {} THEN [to |-> "device"]
     ELSE IF hit = {} \/ backing = {} THEN [to |-> "nothing"]
     ELSE [to |-> "memory", bank |-> First(backing), at |-> a - regions[First(hit)].base]

Promise == INSTANCE AddressSpace WITH
  cells <- [i \in DOMAIN regions |-> regions[i].data],
  owner <- [i \in DOMAIN regions |-> [perms  |-> regions[i].perms,
                                      little |-> regions[i].little]],
  map   <- [a \in Addr |-> LeadsTo(a)],
  alarm <- hasUnknown

ImplementsAddressSpace == Promise!Spec
=============================================================================
