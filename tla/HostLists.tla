---------------------------- MODULE HostLists ----------------------------
(***************************************************************************)
(* The host lists as the code keeps them: Go slices that are sorted,       *)
(* searched, spliced and deduplicated in place.  LazySidecarController     *)
(* treats them as sets; this module runs the slice algorithms on one       *)
(* LazySidecar and its Sidecar beside the sets they stand for.             *)
(*                                                                         *)
(* A host is a natural number, so that hosts are ordered as strings are.   *)
(* Lists written by users and by ServiceEntries may be unsorted, may       *)
(* repeat a host and may name the default host.                            *)
(***************************************************************************)
EXTENDS Naturals, SequencesExt

CONSTANTS
  Hosts,        \* a set of naturals
  DefaultHost,  \* DEFAULT_HOST, one of them
  Middleware,   \* hosts of the MiddlewareList, a sequence
  MaxUser,      \* longest list a user writes
  MaxSe,        \* longest list of a ServiceEntry
  MaxLen        \* longest egressHosts list considered

ASSUME HostListsAssumption ==
  /\ Hosts \subseteq Nat
  /\ DefaultHost \in Hosts
  /\ Middleware \in Seq(Hosts)
  /\ MaxUser \in Nat /\ MaxSe \in Nat /\ MaxLen \in Nat
  /\ MaxUser <= MaxLen

VARIABLES
  egress,     \* spec.egressHosts of the LazySidecar
  listeners,  \* the host list of each egress listener of the Sidecar
  exists,     \* there is a Sidecar
  want,       \* the set the list stands for
  fresh       \* reconciles of the Sidecar since the last other event, up to 2

vars == <<egress, listeners, exists, want, fresh>>

\* Lists are lists of hosts, the egressHosts list within its bound.
TypeOK ==
  /\ egress \in Seq(Hosts) /\ Len(egress) <= MaxLen
  /\ listeners \in Seq(Seq(Hosts))
  /\ exists \in BOOLEAN
  /\ want \subseteq Hosts
  /\ fresh \in 0..2

Init ==
  /\ egress \in BoundedSeq(Hosts, MaxUser)
  /\ listeners = <<>> /\ exists = FALSE
  /\ want = ToSet(egress)
  /\ fresh = 0

-----------------------------------------------------------------------------
(***************************************************************************)
(* Package sort of the Go library.                                         *)
(***************************************************************************)

\* At position i stands the host with fewer than i entries below it and at
\* least i entries not above it.
SortStrings(s) ==
  [i \in DOMAIN s |->
     CHOOSE h \in ToSet(s) : /\ Cardinality({j \in DOMAIN s : s[j] < h}) < i
                             /\ i <= Cardinality({j \in DOMAIN s : s[j] <= h})]

\* Binary search for the first position whose host is not below h; positions
\* count from 0, and Len(s) means there is none.  A round halves what is left
\* between lo and hi, so that Len(s) rounds are enough.
SearchStrings(s, h) ==
  LET round[k \in 0..Len(s)] ==
        IF k = 0 THEN [lo |-> 0, hi |-> Len(s)]
        ELSE LET b   == round[k - 1]
                 mid == (b.lo + b.hi) \div 2
             IN  IF b.lo >= b.hi THEN b
                 ELSE IF s[mid + 1] < h THEN [lo |-> mid + 1, hi |-> b.hi]
                 ELSE [lo |-> b.lo, hi |-> mid]
  IN  round[Len(s)].lo

Found(s, h) ==
  LET index == SearchStrings(s, h)
  IN  index < Len(s) /\ s[index + 1] = h

(***************************************************************************)
(* Lists.  A loop of the code is the function that gives its local         *)
(* variables after k rounds.                                               *)
(***************************************************************************)

\* The loop that appends each entry of a list that is in S.
Kept(list, S) ==
  LET kept[k \in 0..Len(list)] ==
        IF k = 0 THEN <<>>
        ELSE IF list[k] \in S THEN Append(kept[k - 1], list[k]) ELSE kept[k - 1]
  IN  kept[Len(list)]

\* Mutant of GetNewHosts: searches the list as it is.
GetNewHostsUnsorted(list, hosts) == Kept(hosts, {h \in ToSet(hosts) : ~Found(list, h)})

GetNewHosts(list, hosts) ==
  LET sorted == SortStrings(list)
  IN  Kept(hosts, {h \in ToSet(hosts) : ~Found(sorted, h)})

\* Mutant of splice: steps over the host after a removed one.
spliceSkipping(list, hosts) ==
  LET loop[k \in 0..Len(list)] ==
        IF k = 0 THEN [list |-> list, i |-> 1]
        ELSE LET b == loop[k - 1]
             IN  IF b.i > Len(b.list) THEN b
                 ELSE [list |-> IF Found(hosts, b.list[b.i]) THEN RemoveAt(b.list, b.i) ELSE b.list,
                       i |-> b.i + 1]
  IN  loop[Len(list)].list

\* The loop that splices the sorted hosts out of a list: a round removes an
\* entry or goes to the next, so that Len(list) rounds are enough.
splice(list, hosts) ==
  LET loop[k \in 0..Len(list)] ==
        IF k = 0 THEN [list |-> list, i |-> 1]
        ELSE LET b == loop[k - 1]
             IN  IF b.i > Len(b.list) THEN b
                 ELSE IF Found(hosts, b.list[b.i]) THEN [list |-> RemoveAt(b.list, b.i), i |-> b.i]
                 ELSE [list |-> b.list, i |-> b.i + 1]
  IN  loop[Len(list)].list

removeDuplicateElement(list) ==
  LET result[k \in 0..Len(list)] ==
        IF k = 0 THEN <<>>
        ELSE LET acc == result[k - 1]
             IN  IF Contains(acc, list[k]) THEN acc ELSE Append(acc, list[k])
  IN  result[Len(list)]

\* The list of each listener after syncEgressHostsToSidecar.
syncEgressHosts ==
  IF egress = <<>> THEN <<DefaultHost>>
  ELSE removeDuplicateElement(Append(egress, DefaultHost))

syncEgressHostsToSidecar ==
  IF listeners = <<>> THEN <<syncEgressHosts>>
  ELSE [i \in DOMAIN listeners |-> syncEgressHosts]

\* Mutant of syncMiddlewareServiceToSidecar: appends without deduplicating.
appendMiddleware(ll) == [i \in DOMAIN ll |-> ll[i] \o Middleware]

syncMiddlewareServiceToSidecar(ll) ==
  IF Middleware = <<>> THEN ll
  ELSE [i \in DOMAIN ll |-> removeDuplicateElement(ll[i] \o Middleware)]

\* Mutant of constructSidecarForLazySidecar: the slice is made with length 1,
\* so that it starts with an empty string.
constructWithBlank == <<(<<0, DefaultHost>> \o egress) \o Middleware>>

constructSidecarForLazySidecar ==
  <<(<<DefaultHost>> \o Kept(egress, Hosts \ {DefaultHost})) \o Middleware>>

-----------------------------------------------------------------------------
(***************************************************************************)
(* The operations.  An update that would make the list longer than MaxLen  *)
(* is left out.                                                            *)
(***************************************************************************)
AddHosts(hosts) ==
  LET newHosts == GetNewHosts(egress, hosts)
  IN  /\ newHosts # <<>>
      /\ Len(egress) + Len(newHosts) <= MaxLen
      /\ egress' = SortStrings(egress) \o newHosts
      /\ want' = want \cup ToSet(hosts)
      /\ fresh' = 0
      /\ UNCHANGED <<listeners, exists>>

\* From the LazySidecar and, if there is a Sidecar, from its first listener; if
\* that one has no listener, Egress[0] panics after the LazySidecar's update.
RemoveHosts(hosts) ==
  LET handledHosts == SortStrings(hosts)
  IN  /\ egress' = splice(egress, handledHosts)
      /\ listeners' = IF exists /\ listeners # <<>>
                      THEN [listeners EXCEPT ![1] = splice(@, handledHosts)]
                      ELSE listeners
      /\ want' = want \ ToSet(hosts)
      /\ fresh' = 0
      /\ UNCHANGED exists

syncLazySidecar(h) ==
  /\ ~Contains(egress, h)
  /\ Len(egress) < MaxLen
  /\ egress' = Append(egress, h)
  /\ want' = want \cup {h}
  /\ fresh' = 0
  /\ UNCHANGED <<listeners, exists>>

\* Mutant of ReconcileSidecar: the hosts pass through a map, in any order.
ReconcileFromMap ==
  /\ \E list \in SetToSeqs(ToSet(egress) \cup {DefaultHost} \cup ToSet(Middleware)) :
       listeners' = IF listeners = <<>> THEN <<list>> ELSE [i \in DOMAIN listeners |-> list]
  /\ exists' = TRUE
  /\ fresh' = IF exists THEN 2 ELSE 1
  /\ UNCHANGED <<egress, want>>

ReconcileSidecar ==
  /\ listeners' = IF exists
                  THEN syncMiddlewareServiceToSidecar(syncEgressHostsToSidecar)
                  ELSE constructSidecarForLazySidecar
  /\ exists' = TRUE
  /\ fresh' = IF exists THEN 2 ELSE 1
  /\ UNCHANGED <<egress, want>>

\* Someone adds a second listener to the Sidecar, or takes all away.
ListenersEdited ==
  /\ Len(listeners) = 1
  /\ listeners' \in {Append(listeners, <<DefaultHost>>), <<>>}
  /\ fresh' = 0
  /\ UNCHANGED <<egress, exists, want>>

Next ==
  \/ \E hosts \in BoundedSeq(Hosts, MaxSe) : AddHosts(hosts) \/ RemoveHosts(hosts)
  \/ \E h \in Hosts : syncLazySidecar(h)
  \/ ReconcileSidecar
  \/ ListenersEdited

Spec == Init /\ [][Next]_vars

-----------------------------------------------------------------------------
\* Sorting, binary search and splicing implement the set operations that
\* LazySidecarController uses, also on unsorted lists with repetitions
\* (GetNewHosts, ReconcileCsmLazySidecarRemoveHosts, syncLazySidecar).
ListIsSet == ToSet(egress) = want

\* A reconciled Sidecar has exactly the LazySidecar's hosts, the default host
\* and the middleware hosts on every listener, whether it was created or
\* updated, and once updated it repeats none of them.
SidecarIsSet ==
  fresh > 0 => \A i \in DOMAIN listeners :
    /\ ToSet(listeners[i]) = want \cup {DefaultHost} \cup ToSet(Middleware)
    /\ fresh = 2 => Len(listeners[i]) = Cardinality(ToSet(listeners[i]))

\* Reconciling an unchanged LazySidecar a second time writes the very same
\* lists, so that the update is a no-op and the controller wakes itself no
\* more (creation and update order the hosts differently).
SecondReconcileIsNoop == [][fresh = 2 /\ fresh' = 2 => UNCHANGED listeners]_vars

\* The positions of a host in a list.
Occurrences(list, h) == {i \in DOMAIN list : list[i] = h}

\* Importing hosts never repeats one the list already has.
NoReimport ==
  [][\A h \in ToSet(egress) :
       Cardinality(Occurrences(egress', h)) <= Cardinality(Occurrences(egress, h))]_vars
=============================================================================
