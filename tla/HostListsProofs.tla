------------------------- MODULE HostListsProofs -------------------------
(***************************************************************************)
(* Theorems about HostLists: on every sequence of events the slice         *)
(* algorithms do to the lists what LazySidecarController does to sets, and *)
(* a Sidecar that is reconciled twice does not change the second time.     *)
(***************************************************************************)
EXTENDS HostListsLemmas

\* The list of every listener after an update.
Merged ==
  IF Middleware = <<>> THEN syncEgressHosts
  ELSE removeDuplicateElement(syncEgressHosts \o Middleware)

\* The hosts that list stands for.
MergedSet == ToSet(egress) \cup {DefaultHost} \cup ToSet(Middleware)

-----------------------------------------------------------------------------
(***************************************************************************)
(* The Sidecar's lists.                                                    *)
(***************************************************************************)
\* A list that repeats nothing is as long as its set is large.
LEMMA LenOfInjective ==
  ASSUME NEW A, NEW list \in Seq(A), IsInjective(list)
  PROVE  Len(list) = Cardinality(ToSet(list))
<1> DEFINE n == Len(list)
           S == 1..n
           T == ToSet(list)
<1>1. n \in Nat /\ DOMAIN list = S /\ T = {list[i] : i \in S}
  BY SetOf
<1>2. list \in [S -> T]
  <2>1. \A i \in S : list[i] \in T
    BY <1>1
  <2>2. list = [i \in S |-> list[i]]
    BY <1>1
  <2> HIDE DEF S, T
  <2> QED BY <2>1, <2>2
<1>3. IsFiniteSet(S) /\ Cardinality(S) = n
  BY <1>1, Interval
<1> HIDE DEF n, S, T
<1>4. list \in Surjection(S, T)
  BY <1>1, <1>2 DEF Surjection
<1>5. list \in Injection(S, T)
  BY <1>2 DEF Injection
<1>6. Cardinality(T) = Cardinality(S)
  BY <1>3, <1>4, <1>5, FS_Surjection
<1> QED BY <1>3, <1>6 DEF n, T

\* A list of one host.
LEMMA OneElement ==
  ASSUME NEW A, NEW x \in A
  PROVE  <<x>> \in Seq(A) /\ ToSet(<<x>>) = {x} /\ IsInjective(<<x>>)
<1> DEFINE t == <<x>>
<1>1. t \in Seq(A)
  OBVIOUS
<1>2. Len(t) = 1 /\ t[1] = x
  OBVIOUS
<1> HIDE DEF t
<1>3. DOMAIN t = {1}
  BY <1>1, <1>2
<1>4. ToSet(t) = {x} /\ IsInjective(t)
  BY <1>2, <1>3 DEF ToSet, IsInjective
<1> QED BY <1>1, <1>4 DEF t

\* syncEgressHostsToSidecar writes the LazySidecar's hosts and the default host,
\* each once.
LEMMA SyncEgressHostsIs ==
  ASSUME TypeOK
  PROVE  /\ syncEgressHosts \in Seq(Hosts)
         /\ ToSet(syncEgressHosts) = ToSet(egress) \cup {DefaultHost}
         /\ IsInjective(syncEgressHosts)
<1>1. DefaultHost \in Hosts /\ egress \in Seq(Hosts)
  BY HostListsAssumption DEF TypeOK
<1>2. CASE egress = <<>>
  <2>1. syncEgressHosts = <<DefaultHost>> /\ ToSet(egress) = {}
    BY <1>2 DEF syncEgressHosts, ToSet
  <2> QED BY <1>1, <2>1, OneElement
<1>3. CASE egress # <<>>
  <2> DEFINE hl == Append(egress, DefaultHost)
  <2>1. syncEgressHosts = removeDuplicateElement(hl)
    BY <1>3 DEF syncEgressHosts
  <2>2. hl \in Seq(Hosts) /\ ToSet(hl) = ToSet(egress) \cup {DefaultHost}
    BY <1>1, SetOfAppend
  <2> HIDE DEF hl
  <2> QED BY <2>1, <2>2, RemoveDuplicateIs
<1> QED BY <1>2, <1>3

\* An update writes exactly the wanted hosts, each once.
LEMMA MergedIs ==
  ASSUME TypeOK
  PROVE  Merged \in Seq(Hosts) /\ ToSet(Merged) = MergedSet /\ IsInjective(Merged)
<1>1. Middleware \in Seq(Hosts)
  BY HostListsAssumption
<1>2. CASE Middleware = <<>>
  <2>1. Merged = syncEgressHosts /\ ToSet(Middleware) = {}
    BY <1>2 DEF Merged, ToSet
  <2> QED BY <2>1, SyncEgressHostsIs DEF MergedSet
<1>3. CASE Middleware # <<>>
  <2> DEFINE hl == syncEgressHosts \o Middleware
  <2>1. Merged = removeDuplicateElement(hl)
    BY <1>3 DEF Merged
  <2>2. hl \in Seq(Hosts) /\ ToSet(hl) = MergedSet
    BY <1>1, SyncEgressHostsIs, SetOfConcat DEF MergedSet
  <2> HIDE DEF hl
  <2> QED BY <2>1, <2>2, RemoveDuplicateIs
<1> QED BY <1>2, <1>3

\* An update writes that list on every listener there is, or on a first one.
LEMMA UpdatedIs ==
  ASSUME TypeOK
  PROVE  LET ll == syncMiddlewareServiceToSidecar(syncEgressHostsToSidecar)
         IN  /\ ll \in Seq(Seq(Hosts)) /\ ll # <<>>
             /\ \A i \in DOMAIN ll : ll[i] = Merged
             /\ listeners # <<>> => DOMAIN ll = DOMAIN listeners
<1> DEFINE ee == syncEgressHostsToSidecar
           ll == syncMiddlewareServiceToSidecar(ee)
           m == IF listeners = <<>> THEN 1 ELSE Len(listeners)
<1>1. /\ listeners \in Seq(Seq(Hosts))
      /\ m \in Nat /\ 1 <= m
      /\ listeners # <<>> => DOMAIN listeners = 1..m
  BY EmptySeq DEF TypeOK
<1> HIDE DEF m
<1>2. ee = [i \in 1..m |-> syncEgressHosts]
  <2>1. CASE listeners = <<>>
    <3>1. <<syncEgressHosts>> = [i \in 1..1 |-> syncEgressHosts]
      OBVIOUS
    <3>2. ee = <<syncEgressHosts>> /\ m = 1
      BY <2>1 DEF syncEgressHostsToSidecar, m
    <3> QED BY <3>1, <3>2
  <2>2. CASE listeners # <<>>
    BY <1>1, <2>2 DEF syncEgressHostsToSidecar
  <2> QED BY <2>1, <2>2
<1> HIDE DEF ee
<1>3. ll = [i \in 1..m |-> Merged]
  <2>1. CASE Middleware = <<>>
    BY <1>2, <2>1 DEF syncMiddlewareServiceToSidecar, Merged
  <2>2. CASE Middleware # <<>>
    <3>1. ll = [i \in DOMAIN ee |-> removeDuplicateElement(ee[i] \o Middleware)]
      BY <2>2 DEF syncMiddlewareServiceToSidecar
    <3>2. DOMAIN ee = 1..m /\ \A i \in 1..m : ee[i] = syncEgressHosts
      BY <1>2
    <3>3. Merged = removeDuplicateElement(syncEgressHosts \o Middleware)
      BY <2>2 DEF Merged
    <3> QED BY <3>1, <3>2, <3>3
  <2> QED BY <2>1, <2>2
<1> HIDE DEF ll
<1>4. ll \in Seq(Seq(Hosts))
  <2>1. ll \in [1..m -> Seq(Hosts)]
    BY <1>3, MergedIs
  <2> QED BY <1>1, <2>1, SeqDef
<1>5. DOMAIN ll = 1..m /\ \A i \in 1..m : ll[i] = Merged
  BY <1>3
<1>6. ll # <<>>
  <2>1. 1 \in DOMAIN ll
    BY <1>1, <1>5
  <2> QED BY <2>1
<1> QED BY <1>1, <1>4, <1>5, <1>6 DEF ll, ee

\* A new Sidecar has one listener, with the same hosts in another order.
LEMMA ConstructedIs ==
  ASSUME TypeOK
  PROVE  /\ constructSidecarForLazySidecar \in Seq(Seq(Hosts))
         /\ constructSidecarForLazySidecar # <<>>
         /\ \A i \in DOMAIN constructSidecarForLazySidecar :
              ToSet(constructSidecarForLazySidecar[i]) = MergedSet
<1> DEFINE d == <<DefaultHost>>
           kept == Kept(egress, Hosts \ {DefaultHost})
           hl == (d \o kept) \o Middleware
           ll == <<hl>>
<1>1. /\ DefaultHost \in Hosts /\ Middleware \in Seq(Hosts)
      /\ egress \in Seq(Hosts) /\ ToSet(egress) \subseteq Hosts
  BY HostListsAssumption, SetOf DEF TypeOK
<1>2. d \in Seq(Hosts) /\ ToSet(d) = {DefaultHost}
  BY <1>1, OneElement
<1>3. kept \in Seq(Hosts) /\ ToSet(kept) = ToSet(egress) \cap (Hosts \ {DefaultHost})
  BY <1>1, KeptIs
<1>4. constructSidecarForLazySidecar = ll
  BY DEF constructSidecarForLazySidecar
<1> HIDE DEF d, kept
<1>5. d \o kept \in Seq(Hosts) /\ ToSet(d \o kept) = ToSet(d) \cup ToSet(kept)
  BY <1>2, <1>3, SetOfConcat
<1>6. hl \in Seq(Hosts) /\ ToSet(hl) = ToSet(d \o kept) \cup ToSet(Middleware)
  <2> DEFINE e == d \o kept
  <2>1. e \in Seq(Hosts) /\ hl = e \o Middleware
    BY <1>5
  <2>2. ToSet(hl) = ToSet(e) \cup ToSet(Middleware) /\ hl \in Seq(Hosts)
    <3> HIDE DEF e, hl
    <3>1. e \o Middleware \in Seq(Hosts)
      BY <1>1, <2>1
    <3>2. ToSet(e \o Middleware) = ToSet(e) \cup ToSet(Middleware)
      BY <1>1, <2>1, SetOfConcat
    <3> QED BY <2>1, <3>1, <3>2
  <2> QED BY <2>2
<1>7. ToSet(hl) = MergedSet
  BY <1>1, <1>2, <1>3, <1>5, <1>6 DEF MergedSet
<1> HIDE DEF hl
<1>8. ll \in Seq(Seq(Hosts)) /\ ll # <<>> /\ DOMAIN ll = 1..1 /\ ll[1] = hl
  BY <1>6
<1> HIDE DEF ll
<1> QED BY <1>4, <1>7, <1>8

-----------------------------------------------------------------------------
(***************************************************************************)
(* The lists of the operations.                                            *)
(***************************************************************************)
\* SE hosts that the list does not have.
LEMMA GetNewHostsIs ==
  ASSUME TypeOK, NEW hosts \in Seq(Hosts)
  PROVE  /\ GetNewHosts(egress, hosts) \in Seq(Hosts)
         /\ ToSet(GetNewHosts(egress, hosts)) = ToSet(hosts) \ ToSet(egress)
<1> DEFINE sorted == SortStrings(egress)
           new == {h \in ToSet(hosts) : ~Found(sorted, h)}
<1>1. Hosts \in SUBSET Nat /\ egress \in Seq(Hosts) /\ ToSet(hosts) \subseteq Hosts
  BY HostListsAssumption, SetOf DEF TypeOK
<1>2. sorted \in Seq(Hosts) /\ Ordered(sorted) /\ ToSet(sorted) = ToSet(egress)
  BY <1>1, SortIs
<1>3. GetNewHosts(egress, hosts) = Kept(hosts, new)
  BY DEF GetNewHosts
<1> HIDE DEF sorted
<1>4. sorted \in Seq(Nat)
  BY <1>1, <1>2, SeqMonotonic
<1>5. \A h \in ToSet(hosts) : Found(sorted, h) <=> h \in ToSet(egress)
  <2> TAKE h \in ToSet(hosts)
  <2>1. h \in Nat
    BY <1>1
  <2> QED BY <1>2, <1>4, <2>1, FoundIs
<1>6. new = ToSet(hosts) \ ToSet(egress)
  BY <1>5
<1> HIDE DEF new
<1>7. Kept(hosts, new) \in Seq(Hosts) /\ ToSet(Kept(hosts, new)) = ToSet(hosts) \cap new
  BY KeptIs
<1> QED BY <1>3, <1>6, <1>7

\* What is left of a list when the hosts of an SE are spliced out.
LEMMA RetractedIs ==
  ASSUME NEW list \in Seq(Hosts), NEW hosts \in Seq(Hosts)
  PROVE  LET r == splice(list, SortStrings(hosts))
         IN  /\ r \in Seq(Hosts) /\ Len(r) <= Len(list)
             /\ ToSet(r) = ToSet(list) \ ToSet(hosts)
             /\ \A h \in Nat : Cardinality(Occurrences(r, h)) <= Cardinality(Occurrences(list, h))
<1> DEFINE sorted == SortStrings(hosts)
<1>1. Hosts \in SUBSET Nat
  BY HostListsAssumption
<1>2. sorted \in Seq(Hosts) /\ Ordered(sorted) /\ ToSet(sorted) = ToSet(hosts)
  BY <1>1, SortIs
<1> HIDE DEF sorted
<1>3. sorted \in Seq(Nat)
  BY <1>1, <1>2, SeqMonotonic
<1>4. /\ splice(list, sorted) \in Seq(Hosts)
      /\ Len(splice(list, sorted)) <= Len(list)
      /\ ToSet(splice(list, sorted)) = ToSet(list) \ ToSet(sorted)
      /\ \A h \in Nat : Cardinality(Occurrences(splice(list, sorted), h))
                          <= Cardinality(Occurrences(list, h))
  BY <1>1, <1>2, <1>3, SpliceIs
<1> QED BY <1>2, <1>4 DEF sorted

\* The lists that Next ranges over are lists of hosts.
LEMMA BoundedIsSeq ==
  ASSUME NEW k \in Nat, NEW hosts \in BoundedSeq(Hosts, k)
  PROVE  hosts \in Seq(Hosts) /\ Len(hosts) <= k
<1>1. PICK m \in 0..k : hosts \in [1..m -> Hosts]
  BY DEF BoundedSeq, SeqOf
<1>2. hosts \in Seq(Hosts) /\ DOMAIN hosts = 1..m /\ m \in Nat
  BY <1>1, SeqDef
<1> QED BY <1>1, <1>2, LenProperties

\* A host that is not in the second list occurs in both together as often as in
\* the first.
LEMMA OccurrencesOfConcat ==
  ASSUME NEW A, NEW p \in Seq(A), NEW q \in Seq(A), NEW h, h \notin ToSet(q)
  PROVE  Occurrences(p \o q, h) = Occurrences(p, h)
<1> DEFINE r == p \o q
           m == Len(p)
           n == Len(q)
<1>1. m \in Nat /\ n \in Nat /\ DOMAIN p = 1..m
  OBVIOUS
<1>2. \A j \in 1..n : q[j] # h
  BY SetOf
<1>3. /\ r \in Seq(A) /\ Len(r) = m + n
      /\ \A i \in 1..m : r[i] = p[i]
      /\ \A i \in 1..n : r[m + i] = q[i]
  BY ConcatProperties
<1>4. DOMAIN r = 1..(m + n)
  BY <1>3
<1> HIDE DEF r, m, n
<1>5. ASSUME NEW i \in 1..(m + n), r[i] = h
      PROVE  i \in 1..m
  <2>1. CASE m < i
    <3>1. i - m \in 1..n /\ m + (i - m) = i
      BY <1>1, <2>1
    <3> QED BY <1>2, <1>3, <1>5, <3>1
  <2> QED BY <1>1, <2>1
<1>6. \A i \in 1..m : i \in 1..(m + n)
  BY <1>1
<1>7. {i \in 1..(m + n) : r[i] = h} = {i \in 1..m : p[i] = h}
  BY <1>3, <1>5, <1>6
<1> QED BY <1>1, <1>4, <1>7 DEF Occurrences, r

-----------------------------------------------------------------------------
(***************************************************************************)
(* What each operation does to the lists.                                  *)
(***************************************************************************)
\* AddHosts: the new hosts follow the sorted list.
LEMMA AddHostsDoes ==
  ASSUME TypeOK, NEW hosts \in Seq(Hosts), AddHosts(hosts)
  PROVE  /\ egress' \in Seq(Hosts) /\ Len(egress') <= MaxLen
         /\ ToSet(egress') = ToSet(egress) \cup ToSet(hosts)
         /\ \A h \in ToSet(egress) :
              Cardinality(Occurrences(egress', h)) = Cardinality(Occurrences(egress, h))
<1> DEFINE sorted == SortStrings(egress)
           new == GetNewHosts(egress, hosts)
<1>1. /\ Hosts \in SUBSET Nat /\ egress \in Seq(Hosts)
      /\ Len(egress) + Len(new) <= MaxLen /\ egress' = sorted \o new
  BY HostListsAssumption DEF TypeOK, AddHosts
<1>2. /\ sorted \in Seq(Hosts) /\ Len(sorted) = Len(egress)
      /\ ToSet(sorted) = ToSet(egress)
      /\ \A h \in Nat : Cardinality(Occurrences(sorted, h)) = Cardinality(Occurrences(egress, h))
  BY <1>1, SortIs
<1>3. new \in Seq(Hosts) /\ ToSet(new) = ToSet(hosts) \ ToSet(egress)
  BY GetNewHostsIs
<1> HIDE DEF sorted, new
<1>4. sorted \o new \in Seq(Hosts) /\ Len(sorted \o new) = Len(sorted) + Len(new)
  BY <1>2, <1>3
<1>5. ToSet(sorted \o new) = ToSet(sorted) \cup ToSet(new)
  BY <1>2, <1>3, SetOfConcat
<1>6. ASSUME NEW h \in ToSet(egress)
      PROVE  Cardinality(Occurrences(egress', h)) = Cardinality(Occurrences(egress, h))
  <2>1. h \in Nat /\ h \notin ToSet(new)
    BY <1>1, <1>3, SetOf
  <2>2. Occurrences(sorted \o new, h) = Occurrences(sorted, h)
    BY <1>2, <1>3, <2>1, OccurrencesOfConcat
  <2> QED BY <1>1, <1>2, <2>1, <2>2
<1>7. ToSet(egress') = ToSet(egress) \cup ToSet(hosts)
  BY <1>1, <1>2, <1>3, <1>5
<1> QED BY <1>1, <1>2, <1>4, <1>6, <1>7

\* RemoveHosts: both lists lose the hosts and nothing else.
LEMMA RemoveHostsDoes ==
  ASSUME TypeOK, NEW hosts \in Seq(Hosts), RemoveHosts(hosts)
  PROVE  /\ egress' \in Seq(Hosts) /\ Len(egress') <= MaxLen
         /\ listeners' \in Seq(Seq(Hosts))
         /\ ToSet(egress') = ToSet(egress) \ ToSet(hosts)
         /\ \A h \in Nat : Cardinality(Occurrences(egress', h)) <= Cardinality(Occurrences(egress, h))
<1> DEFINE rest(list) == splice(list, SortStrings(hosts))
<1>1. /\ egress \in Seq(Hosts) /\ Len(egress) <= MaxLen /\ MaxLen \in Nat
      /\ listeners \in Seq(Seq(Hosts)) /\ egress' = rest(egress)
      /\ listeners' = IF exists /\ listeners # <<>>
                      THEN [listeners EXCEPT ![1] = rest(@)] ELSE listeners
  BY HostListsAssumption DEF TypeOK, RemoveHosts
<1>2. /\ egress' \in Seq(Hosts) /\ Len(egress') <= Len(egress)
      /\ ToSet(egress') = ToSet(egress) \ ToSet(hosts)
      /\ \A h \in Nat : Cardinality(Occurrences(egress', h)) <= Cardinality(Occurrences(egress, h))
  BY <1>1, RetractedIs
<1>3. listeners' \in Seq(Seq(Hosts))
  <2>1. CASE exists /\ listeners # <<>>
    <3>1. 1 \in 1..Len(listeners) /\ listeners[1] \in Seq(Hosts)
      BY <1>1, <2>1, EmptySeq
    <3>2. rest(listeners[1]) \in Seq(Hosts)
      BY <3>1, RetractedIs
    <3>3. listeners' = [listeners EXCEPT ![1] = rest(listeners[1])]
      BY <1>1, <2>1
    <3> HIDE DEF rest
    <3> QED BY <1>1, <3>1, <3>2, <3>3, ExceptSeq
  <2>2. CASE ~(exists /\ listeners # <<>>)
    BY <1>1, <2>2
  <2> QED BY <2>1, <2>2
<1>4. Len(egress') <= MaxLen
  BY <1>1, <1>2
<1> QED BY <1>2, <1>3, <1>4

\* syncLazySidecar: the reported host, which the list does not have, comes last.
LEMMA SyncLazySidecarDoes ==
  ASSUME TypeOK, NEW x \in Hosts, syncLazySidecar(x)
  PROVE  /\ egress' \in Seq(Hosts) /\ Len(egress') <= MaxLen
         /\ ToSet(egress') = ToSet(egress) \cup {x}
         /\ \A h \in ToSet(egress) : Occurrences(egress', h) = Occurrences(egress, h)
<1>1. /\ egress \in Seq(Hosts) /\ Len(egress) < MaxLen /\ MaxLen \in Nat
      /\ egress' = Append(egress, x) /\ x \notin ToSet(egress)
  BY HostListsAssumption, SetOf DEF TypeOK, syncLazySidecar
<1>2. egress' \in Seq(Hosts) /\ Len(egress') = Len(egress) + 1
  BY <1>1, AppendProperties
<1>3. ToSet(egress') = ToSet(egress) \cup {x}
  BY <1>1, SetOfAppend
<1>4. ASSUME NEW h \in ToSet(egress)
      PROVE  Occurrences(egress', h) = Occurrences(egress, h)
  <2>1. h \notin ToSet(<<x>>)
    BY <1>1, OneElement
  <2>2. <<x>> \in Seq(Hosts) /\ Append(egress, x) = egress \o <<x>>
    BY <1>1
  <2>3. Occurrences(egress \o <<x>>, h) = Occurrences(egress, h)
    BY <1>1, <2>1, <2>2, OccurrencesOfConcat
  <2> QED BY <1>1, <2>2, <2>3
<1>5. Len(egress') <= MaxLen
  BY <1>1, <1>2
<1> QED BY <1>2, <1>3, <1>4, <1>5

-----------------------------------------------------------------------------
(***************************************************************************)
(* Types.                                                                  *)
(***************************************************************************)
\* Every operation keeps the lists lists of hosts.
LEMMA TypeStep ==
  ASSUME TypeOK, Next
  PROVE  TypeOK'
<1>1. /\ egress \in Seq(Hosts) /\ Len(egress) <= MaxLen
      /\ listeners \in Seq(Seq(Hosts)) /\ exists \in BOOLEAN
      /\ want \subseteq Hosts /\ fresh \in 0..2
      /\ DefaultHost \in Hosts /\ MaxSe \in Nat
  BY HostListsAssumption DEF TypeOK
<1>2. ASSUME NEW hosts \in BoundedSeq(Hosts, MaxSe), AddHosts(hosts)
      PROVE  TypeOK'
  <2>1. hosts \in Seq(Hosts) /\ ToSet(hosts) \subseteq Hosts
    BY <1>1, BoundedIsSeq, SetOf
  <2>2. egress' \in Seq(Hosts) /\ Len(egress') <= MaxLen
    BY <1>2, <2>1, AddHostsDoes
  <2>3. /\ listeners' = listeners /\ exists' = exists
        /\ want' = want \cup ToSet(hosts) /\ fresh' = 0
    BY <1>2 DEF AddHosts
  <2> QED BY <1>1, <2>1, <2>2, <2>3 DEF TypeOK
<1>3. ASSUME NEW hosts \in BoundedSeq(Hosts, MaxSe), RemoveHosts(hosts)
      PROVE  TypeOK'
  <2>1. hosts \in Seq(Hosts)
    BY <1>1, BoundedIsSeq
  <2>2. egress' \in Seq(Hosts) /\ Len(egress') <= MaxLen /\ listeners' \in Seq(Seq(Hosts))
    BY <1>3, <2>1, RemoveHostsDoes
  <2>3. exists' = exists /\ want' = want \ ToSet(hosts) /\ fresh' = 0
    BY <1>3 DEF RemoveHosts
  <2> QED BY <1>1, <2>2, <2>3 DEF TypeOK
<1>4. ASSUME NEW h \in Hosts, syncLazySidecar(h)
      PROVE  TypeOK'
  <2>1. egress' \in Seq(Hosts) /\ Len(egress') <= MaxLen
    BY <1>4, SyncLazySidecarDoes
  <2>2. /\ listeners' = listeners /\ exists' = exists
        /\ want' = want \cup {h} /\ fresh' = 0
    BY <1>4 DEF syncLazySidecar
  <2> QED BY <1>1, <2>1, <2>2 DEF TypeOK
<1>5. ASSUME ReconcileSidecar
      PROVE  TypeOK'
  <2>1. listeners' \in Seq(Seq(Hosts))
    BY <1>5, UpdatedIs, ConstructedIs DEF ReconcileSidecar
  <2>2. egress' = egress /\ want' = want /\ exists' = TRUE /\ fresh' \in {1, 2}
    BY <1>5 DEF ReconcileSidecar
  <2> QED BY <1>1, <2>1, <2>2 DEF TypeOK
<1>6. ASSUME ListenersEdited
      PROVE  TypeOK'
  <2>1. /\ listeners' \in {Append(listeners, <<DefaultHost>>), <<>>}
        /\ egress' = egress /\ want' = want /\ exists' = exists /\ fresh' = 0
    BY <1>6 DEF ListenersEdited
  <2>2. <<DefaultHost>> \in Seq(Hosts)
    BY <1>1
  <2>3. Append(listeners, <<DefaultHost>>) \in Seq(Seq(Hosts)) /\ <<>> \in Seq(Seq(Hosts))
    BY <1>1, <2>2
  <2>4. listeners' \in Seq(Seq(Hosts))
    BY <2>1, <2>3
  <2>5. /\ egress' \in Seq(Hosts) /\ Len(egress') <= MaxLen
        /\ want' \subseteq Hosts /\ exists' \in BOOLEAN /\ fresh' \in 0..2
    BY <1>1, <2>1
  <2> QED BY <2>4, <2>5 DEF TypeOK
<1> QED BY <1>2, <1>3, <1>4, <1>5, <1>6 DEF Next

\* What a user writes first is a list of hosts.
LEMMA TypeInit ==
  ASSUME Init
  PROVE  TypeOK
<1>1. MaxUser \in Nat /\ MaxLen \in Nat /\ MaxUser <= MaxLen
  BY HostListsAssumption
<1>2. egress \in Seq(Hosts) /\ Len(egress) <= MaxUser
  BY <1>1, BoundedIsSeq DEF Init
<1>3. Len(egress) <= MaxLen /\ ToSet(egress) \subseteq Hosts
  BY <1>1, <1>2, SetOf
<1>4. <<>> \in Seq(Seq(Hosts)) /\ FALSE \in BOOLEAN /\ 0 \in 0..2
  OBVIOUS
<1> QED BY <1>2, <1>3, <1>4 DEF Init, TypeOK

\* The lists stay lists of hosts: sorting, splicing, deduplicating and merging
\* never produce an entry that is none.
THEOREM HostListsTypeCorrect == Spec => []TypeOK
<1>1. TypeOK /\ [Next]_vars => TypeOK'
  <2> SUFFICES ASSUME TypeOK, [Next]_vars PROVE TypeOK'
    OBVIOUS
  <2>1. CASE UNCHANGED vars
    BY <2>1 DEF vars, TypeOK
  <2> QED BY <2>1, TypeStep
<1> QED BY <1>1, TypeInit, PTL DEF Spec

-----------------------------------------------------------------------------
(***************************************************************************)
(* The lists and the sets they stand for.                                  *)
(***************************************************************************)
\* Every operation does to the list what it does to the set.
LEMMA ListIsSetStep ==
  ASSUME TypeOK, ListIsSet, Next
  PROVE  ListIsSet'
<1>1. ASSUME NEW hosts \in BoundedSeq(Hosts, MaxSe), AddHosts(hosts) \/ RemoveHosts(hosts)
      PROVE  ListIsSet'
  <2>1. hosts \in Seq(Hosts)
    BY HostListsAssumption, BoundedIsSeq
  <2>2. CASE AddHosts(hosts)
    <3>1. ToSet(egress') = ToSet(egress) \cup ToSet(hosts)
      BY <2>1, <2>2, AddHostsDoes
    <3>2. want' = want \cup ToSet(hosts)
      BY <2>2 DEF AddHosts
    <3> QED BY <3>1, <3>2 DEF ListIsSet
  <2>3. CASE RemoveHosts(hosts)
    <3>1. ToSet(egress') = ToSet(egress) \ ToSet(hosts)
      BY <2>1, <2>3, RemoveHostsDoes
    <3>2. want' = want \ ToSet(hosts)
      BY <2>3 DEF RemoveHosts
    <3> QED BY <3>1, <3>2 DEF ListIsSet
  <2> QED BY <1>1, <2>2, <2>3
<1>2. ASSUME NEW h \in Hosts, syncLazySidecar(h)
      PROVE  ListIsSet'
  <2>1. ToSet(egress') = ToSet(egress) \cup {h}
    BY <1>2, SyncLazySidecarDoes
  <2>2. want' = want \cup {h}
    BY <1>2 DEF syncLazySidecar
  <2> QED BY <2>1, <2>2 DEF ListIsSet
<1>3. ASSUME ReconcileSidecar \/ ListenersEdited
      PROVE  ListIsSet'
  <2>1. egress' = egress /\ want' = want
    BY <1>3 DEF ReconcileSidecar, ListenersEdited
  <2> QED BY <2>1 DEF ListIsSet
<1> QED BY <1>1, <1>2, <1>3 DEF Next

\* Sorting, binary search and splicing implement the set operations that
\* LazySidecarController uses, for lists of every length, unsorted and with
\* repetitions (GetNewHosts, ReconcileCsmLazySidecarRemoveHosts, syncLazySidecar).
THEOREM ListAlwaysIsSet == Spec => []ListIsSet
<1>1. Init => ListIsSet
  BY DEF Init, ListIsSet
<1>2. TypeOK /\ ListIsSet /\ [Next]_vars => ListIsSet'
  <2> SUFFICES ASSUME TypeOK, ListIsSet, [Next]_vars PROVE ListIsSet'
    OBVIOUS
  <2>1. CASE UNCHANGED vars
    BY <2>1 DEF vars, ListIsSet
  <2> QED BY <2>1, ListIsSetStep
<1> QED BY <1>1, <1>2, HostListsTypeCorrect, PTL DEF Spec

\* Every listener of a Sidecar reconciled twice in a row has the list that an
\* update writes.
Settled ==
  fresh = 2 => /\ exists /\ listeners # <<>>
               /\ \A i \in DOMAIN listeners : listeners[i] = Merged

\* An event starts the count of reconciles again.
LEMMA EventsReset ==
  ASSUME Next
  PROVE  fresh' = 0 \/ ReconcileSidecar
BY DEF Next, AddHosts, RemoveHosts, syncLazySidecar, ListenersEdited

\* Only a reconcile makes a Sidecar settled, and one that finds the Sidecar
\* leaves it so.
LEMMA SettledStep ==
  ASSUME TypeOK, Next
  PROVE  Settled'
<1>1. CASE fresh' = 0
  BY <1>1 DEF Settled
<1>2. CASE ReconcileSidecar
  <2> SUFFICES ASSUME fresh' = 2
               PROVE  /\ exists' /\ listeners' # <<>>
                      /\ \A i \in DOMAIN listeners' : listeners'[i] = Merged'
    BY DEF Settled
  <2>1. exists /\ exists'
    BY <1>2 DEF ReconcileSidecar
  <2>2. listeners' = syncMiddlewareServiceToSidecar(syncEgressHostsToSidecar)
    BY <1>2, <2>1 DEF ReconcileSidecar
  <2>3. egress' = egress
    BY <1>2 DEF ReconcileSidecar
  <2>4. Merged' = Merged
    BY <2>3 DEF Merged, syncEgressHosts
  <2> QED BY <2>1, <2>2, <2>4, UpdatedIs
<1> QED BY <1>1, <1>2, EventsReset

\* Along every behaviour a Sidecar reconciled twice has the merged list.
LEMMA AlwaysSettled == Spec => []Settled
<1>1. Init => Settled
  BY DEF Init, Settled
<1>2. TypeOK /\ Settled /\ [Next]_vars => Settled'
  <2> SUFFICES ASSUME TypeOK, Settled, [Next]_vars PROVE Settled'
    OBVIOUS
  <2>1. CASE UNCHANGED vars
    BY <2>1 DEF vars, Settled, Merged, syncEgressHosts
  <2> QED BY <2>1, SettledStep
<1> QED BY <1>1, <1>2, HostListsTypeCorrect, PTL DEF Spec

\* A reconcile writes the wanted hosts on every listener.
LEMMA SidecarIsSetStep ==
  ASSUME TypeOK, ListIsSet, Next
  PROVE  SidecarIsSet'
<1>1. CASE fresh' = 0
  BY <1>1 DEF SidecarIsSet
<1>2. CASE ReconcileSidecar
  <2> DEFINE ll == syncMiddlewareServiceToSidecar(syncEgressHostsToSidecar)
             cc == constructSidecarForLazySidecar
  <2>1. want' = want /\ MergedSet = want \cup {DefaultHost} \cup ToSet(Middleware)
    BY <1>2 DEF ReconcileSidecar, ListIsSet, MergedSet
  <2>2. CASE exists
    <3>1. listeners' = ll
      BY <1>2, <2>2 DEF ReconcileSidecar
    <3>2. \A i \in DOMAIN ll : ll[i] = Merged
      BY UpdatedIs
    <3>3. ToSet(Merged) = MergedSet /\ Len(Merged) = Cardinality(ToSet(Merged))
      BY MergedIs, LenOfInjective
    <3> HIDE DEF ll
    <3> QED BY <2>1, <3>1, <3>2, <3>3 DEF SidecarIsSet
  <2>3. CASE ~exists
    <3>1. listeners' = cc /\ fresh' = 1
      BY <1>2, <2>3 DEF ReconcileSidecar
    <3>2. \A i \in DOMAIN cc : ToSet(cc[i]) = MergedSet
      BY ConstructedIs
    <3> HIDE DEF cc
    <3> QED BY <2>1, <3>1, <3>2 DEF SidecarIsSet
  <2> QED BY <2>2, <2>3
<1> QED BY <1>1, <1>2, EventsReset

\* A reconciled Sidecar has exactly the LazySidecar's hosts, the default host
\* and the middleware hosts on every listener, created or updated, and once
\* updated it repeats none of them, for lists of every length
\* (constructSidecarForLazySidecar, syncEgressHostsToSidecar,
\* syncMiddlewareServiceToSidecar).
THEOREM SidecarAlwaysIsSet == Spec => []SidecarIsSet
<1>1. Init => SidecarIsSet
  BY DEF Init, SidecarIsSet
<1>2. TypeOK /\ ListIsSet /\ SidecarIsSet /\ [Next]_vars => SidecarIsSet'
  <2> SUFFICES ASSUME TypeOK, ListIsSet, SidecarIsSet, [Next]_vars PROVE SidecarIsSet'
    OBVIOUS
  <2>1. CASE UNCHANGED vars
    BY <2>1 DEF vars, SidecarIsSet
  <2> QED BY <2>1, SidecarIsSetStep
<1> QED BY <1>1, <1>2, HostListsTypeCorrect, ListAlwaysIsSet, PTL DEF Spec

-----------------------------------------------------------------------------
(***************************************************************************)
(* What a step may never do.                                               *)
(***************************************************************************)
\* Reconciling an unchanged LazySidecar a second time writes the very same
\* lists, whatever order creation gave them, so that the controller's own
\* update wakes it no more (ReconcileSidecar).
THEOREM SecondReconcileWritesTheSame == Spec => SecondReconcileIsNoop
<1>1. TypeOK /\ Settled /\ [Next]_vars => (fresh = 2 /\ fresh' = 2 => UNCHANGED listeners)
  <2> SUFFICES ASSUME TypeOK, Settled, [Next]_vars, fresh = 2, fresh' = 2
               PROVE  listeners' = listeners
    OBVIOUS
  <2>1. CASE UNCHANGED vars
    BY <2>1 DEF vars
  <2>2. CASE ReconcileSidecar
    <3> DEFINE ll == syncMiddlewareServiceToSidecar(syncEgressHostsToSidecar)
    <3>1. /\ exists /\ listeners # <<>>
          /\ \A i \in DOMAIN listeners : listeners[i] = Merged
      BY DEF Settled
    <3>2. listeners' = ll
      BY <2>2, <3>1 DEF ReconcileSidecar
    <3>3. /\ ll \in Seq(Seq(Hosts)) /\ DOMAIN ll = DOMAIN listeners
          /\ \A i \in DOMAIN ll : ll[i] = Merged
      BY <3>1, UpdatedIs
    <3>4. listeners \in Seq(Seq(Hosts))
      BY DEF TypeOK
    <3> HIDE DEF ll
    <3>5. Len(ll) = Len(listeners) /\ \A i \in 1..Len(ll) : ll[i] = listeners[i]
      BY <3>1, <3>3, <3>4
    <3> QED BY <3>2, <3>3, <3>4, <3>5, SeqEqual
  <2> QED BY <2>1, <2>2, EventsReset
<1> QED BY <1>1, HostListsTypeCorrect, AlwaysSettled, PTL DEF Spec, SecondReconcileIsNoop

\* No operation makes a host of the list occur more often than it does.
LEMMA NoReimportStep ==
  ASSUME TypeOK, [Next]_vars, NEW h \in ToSet(egress)
  PROVE  Cardinality(Occurrences(egress', h)) <= Cardinality(Occurrences(egress, h))
<1>1. egress \in Seq(Hosts) /\ h \in Nat /\ MaxSe \in Nat
  BY HostListsAssumption, SetOf DEF TypeOK
<1>2. Cardinality(Occurrences(egress, h)) \in Nat
  <2>1. Occurrences(egress, h) \in SUBSET DOMAIN egress
    BY DEF Occurrences
  <2> QED BY <1>1, <2>1, Positions
<1>3. CASE \E hosts \in BoundedSeq(Hosts, MaxSe) : AddHosts(hosts) \/ RemoveHosts(hosts)
  <2>1. PICK hosts \in BoundedSeq(Hosts, MaxSe) : AddHosts(hosts) \/ RemoveHosts(hosts)
    BY <1>3
  <2>2. hosts \in Seq(Hosts)
    BY <1>1, BoundedIsSeq
  <2>3. CASE AddHosts(hosts)
    <3>1. Cardinality(Occurrences(egress', h)) = Cardinality(Occurrences(egress, h))
      BY <2>2, <2>3, AddHostsDoes
    <3> QED BY <1>2, <3>1
  <2>4. CASE RemoveHosts(hosts)
    BY <1>1, <2>2, <2>4, RemoveHostsDoes
  <2> QED BY <2>1, <2>3, <2>4
<1>4. CASE \E x \in Hosts : syncLazySidecar(x)
  <2>1. Occurrences(egress', h) = Occurrences(egress, h)
    BY <1>4, SyncLazySidecarDoes
  <2> QED BY <1>2, <2>1
<1>5. CASE ReconcileSidecar \/ ListenersEdited \/ UNCHANGED vars
  <2>1. egress' = egress
    BY <1>5 DEF ReconcileSidecar, ListenersEdited, vars
  <2> QED BY <1>2, <2>1
<1> QED BY <1>3, <1>4, <1>5 DEF Next

\* Importing hosts never repeats one the list already has, whatever the user or
\* an earlier import put in it (GetNewHosts, syncLazySidecar).
THEOREM HostsNeverReimported == Spec => NoReimport
<1>1. TypeOK /\ [Next]_vars
      => \A h \in ToSet(egress) :
           Cardinality(Occurrences(egress', h)) <= Cardinality(Occurrences(egress, h))
  BY NoReimportStep
<1> QED BY <1>1, HostListsTypeCorrect, PTL DEF Spec, NoReimport

=============================================================================
