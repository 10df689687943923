---------------------------- MODULE AddressSpace ----------------------------
(***************************************************************************)
(* What the bus promises the CPU and the host, with no arrays, windows,    *)
(* alias names or gates: every address leads to nothing, to a device or to *)
(* one cell of one bank of memory.  Loads return what was last stored in   *)
(* the cells, through whichever address; a refused access changes nothing; *)
(* the alarm is raised exactly by accesses that lead nowhere; and what an  *)
(* address of memory leads to never changes.                               *)
(***************************************************************************)
EXTENDS Integers, Sequences

CONSTANTS Addr, Widths, StoreValues

VARIABLES
  cells,  \* for each bank, its bytes
  owner,  \* for each bank, its permissions and byte order
  map,    \* for each address, where it leads
  alarm,  \* an access led nowhere
  resp    \* the last response: [status, val]

vars == <<cells, owner, map, alarm, resp>>

Nothing == [to |-> "nothing"]
ADevice == [to |-> "device"]

\* A place m is a bank and the number of cells before the addressed one; the
\* k-th byte of an n-byte access, least significant first, is in this cell.
Lane(m, n, k) == m.at + IF owner[m.bank].little THEN k ELSE n + 1 - k

Fits(m, n) == m.at + n <= Len(cells[m.bank])

Load(m, n, need) ==
  /\ need \in owner[m.bank].perms
  /\ Fits(m, n)
  /\ resp' = [status |-> "ok",
              val |-> [k \in 1 .. n |-> cells[m.bank][Lane(m, n, k)]]]
  /\ UNCHANGED <<cells, owner, map, alarm>>

Store(m, n, v) ==
  /\ resp' = [status |-> "ok", val |-> <<>>]
  /\ "w" \in owner[m.bank].perms
  /\ Fits(m, n)
  /\ cells' = [cells EXCEPT ![m.bank] =
                 [c \in DOMAIN @ |->
                    IF \E k \in 1 .. n : c = Lane(m, n, k)
                    THEN v[CHOOSE k \in 1 .. n : c = Lane(m, n, k)]
                    ELSE @[c]]]
  /\ UNCHANGED <<owner, map, alarm>>

Refuse(m, n, need) ==
  /\ \/ need \notin owner[m.bank].perms /\ resp'.status = "perm"
     \/ need \in owner[m.bank].perms /\ ~Fits(m, n) /\ resp'.status = "cross"
  /\ UNCHANGED <<cells, owner, map, alarm>>

Memory(m, n) ==
  \/ \E need \in {"r", "x"} : Load(m, n, need)
  \/ \E v \in StoreValues : Store(m, n, v)
  \/ \E need \in {"r", "w", "x"} : Refuse(m, n, need)

LeadNowhere ==
  /\ alarm'
  /\ resp'.status \in {"ok", "unknown"}
  /\ UNCHANGED <<cells, owner, map>>

\* Addresses may begin to lead somewhere; where memory is, it stays.
MapGrows == \A a \in Addr : map[a] # Nothing => map'[a] = map[a]

Register ==
  /\ resp'.status \in {"ok", "cross"}
  /\ UNCHANGED <<cells, owner, alarm>>
  /\ MapGrows

Access(a) ==
  LET m == map[a] IN
  \/ m.to = "memory" /\ \E n \in Widths : Memory(m, n)
  \/ m = Nothing /\ LeadNowhere
  \/ m = ADevice /\ Register

Extend ==
  /\ UNCHANGED <<alarm, resp>>
  /\ \A b \in DOMAIN cells : /\ b \in DOMAIN cells'
                             /\ cells'[b] = cells[b]
                             /\ owner'[b] = owner[b]
  /\ MapGrows

Unplug ==
  /\ UNCHANGED <<cells, owner, alarm, resp>>
  /\ \A a \in Addr : map'[a] # map[a] => map[a] = ADevice /\ map'[a] = Nothing

Init == /\ ~alarm
        /\ resp = [status |-> "none", val |-> <<>>]
        /\ DOMAIN owner = DOMAIN cells
        /\ DOMAIN map = Addr

Next == (\E a \in Addr : Access(a)) \/ Extend \/ Unplug

Spec == Init /\ [][Next]_vars
=============================================================================
