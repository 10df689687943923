------------------------------ MODULE MCSeiBus ------------------------------
(***************************************************************************)
(* Model-checking instance of SeiBus.  A byte is one bit and a word two    *)
(* bytes.  The loaded machine has a little-endian RAM and a big-endian     *)
(* DRAM that the controller ddr0 gates; STATUS and CTRL are one address    *)
(* apart.  The host may add an alias of the gated DRAM, a second region    *)
(* called dram, an alias whose target comes later (or is never added), a   *)
(* region that overlaps the DRAM, a device that shares the controller's    *)
(* name, and a device that shadows the RAM.                                *)
(***************************************************************************)
EXTENDS SeiBus

MCName == {"ram", "dram", "win", "fwd", "bank", "ddr0"}
MCByte == {0, 1}
MCWord == <<1, 1>>

Ram(nm, base, size, perms, little, on) ==
  [name |-> nm, base |-> base, size |-> size, aliasOf |-> NoName,
   perms |-> perms, little |-> little, enabled |-> on,
   data |-> [k \in 1 .. size |-> 0]]

AliasOf(nm, base, size, target) ==
  [name |-> nm, base |-> base, size |-> size, aliasOf |-> target,
   perms |-> {"r"}, little |-> TRUE, enabled |-> TRUE, data |-> <<>>]

Controller(nm, base, target) ==
  [name |-> nm, base |-> base, size |-> 2, beh |-> "ddr",
   gates |-> target, ready |-> FALSE, reg |-> <<0, 0>>]

Stub(nm, base) ==
  [name |-> nm, base |-> base, size |-> 1, beh |-> "regStub",
   gates |-> "dram", ready |-> FALSE, reg |-> <<1, 0>>]

MCBoot ==
  {[regions |-> <<Ram("ram", 0, 1, {"r", "w", "x"}, TRUE, TRUE),
                  Ram("dram", 1, 2, {"r", "w"}, FALSE, FALSE)>>,
    devices |-> <<Controller("ddr0", 3, "dram")>>]}

MCPolicies ==
  {[traceFull |-> TRUE,  onRead |-> "default", onWrite |-> "fault"],
   [traceFull |-> FALSE, onRead |-> "fault",   onWrite |-> "default"]}

MCStoreValues == {<<1, 0>>, <<0, 1>>}

MCHostRegions ==
  {AliasOf("win", 6, 1, "dram"),
   Ram("dram", 5, 1, {"r"}, TRUE, TRUE),
   Ram("bank", 5, 1, {"r", "w"}, TRUE, TRUE),
   AliasOf("fwd", 6, 1, "bank"),
   Ram("bank", 2, 2, {"r", "w"}, TRUE, TRUE)}

MCHostDevices == {Stub("ddr0", 6), Stub("bank", 0)}
=============================================================================
