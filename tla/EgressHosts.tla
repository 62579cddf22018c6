--------------------------- MODULE EgressHosts ---------------------------
(***************************************************************************)
(* What the egressHosts lists of the LazySidecars promise to those who     *)
(* write them: each list behaves like a set updated atomically.  A user    *)
(* writes what he likes; the controller only ever adds a host reported by  *)
(* a workload, imports hosts of ServiceEntries, or retracts such hosts.    *)
(* In particular it never forgets a reported host.                         *)
(***************************************************************************)
EXTENDS Naturals

CONSTANTS
  LazySidecars,   \* names of LazySidecar objects
  SeHosts,        \* hosts a ServiceEntry may export
  SvcHosts        \* hosts a workload may report

VARIABLES
  hosts,          \* the stored egressHosts of each LazySidecar
  edits           \* how many objects users have written

vars == <<hosts, edits>>

Init ==
  /\ hosts = [n \in LazySidecars |-> {}]
  /\ edits = 0

Write(n, set) == hosts' = [hosts EXCEPT ![n] = set]

Edit(n) ==
  /\ edits' = edits + 1
  /\ \E set \in SUBSET (SeHosts \cup SvcHosts) : Write(n, set)

Learn(n) ==
  /\ \E h \in SvcHosts : Write(n, hosts[n] \cup {h})
  /\ UNCHANGED edits

Import(n) ==
  /\ \E set \in SUBSET SeHosts : Write(n, hosts[n] \cup set)
  /\ UNCHANGED edits

Retract(n) ==
  /\ \E set \in SUBSET SeHosts : Write(n, hosts[n] \ set)
  /\ UNCHANGED edits

Next == \E n \in LazySidecars : Edit(n) \/ Learn(n) \/ Import(n) \/ Retract(n)

Spec == Init /\ [][Next]_vars
=============================================================================
