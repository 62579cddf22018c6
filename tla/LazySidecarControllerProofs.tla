------------------- MODULE LazySidecarControllerProofs -------------------
(***************************************************************************)
(* Proofs about LazySidecarController, for every set of LazySidecars,      *)
(* ServiceEntries, reports and hosts and every budget of outside events.   *)
(***************************************************************************)
EXTENDS LazySidecarController, SequenceTheorems, FiniteSetTheorems, TLAPS

USE DEF EnvKinds

-----------------------------------------------------------------------------
(***************************************************************************)
(* The parts of a step: what the API server stores.                        *)
(***************************************************************************)

\* Spending on one kind of outside event keeps the budget's type and leaves
\* the other kinds alone.
LEMMA SpendType ==
  ASSUME spent \in [EnvKinds -> Nat], NEW k \in EnvKinds, Spend(k)
  PROVE  /\ spent' \in [EnvKinds -> Nat]
         /\ spent'[k] = spent[k] + 1
         /\ \A j \in EnvKinds \ {k} : spent'[j] = spent[j]
BY DEF Spend

\* A function on 1..k is a sequence.
LEMMA FunctionIsSeq ==
  ASSUME NEW S, NEW k \in Nat, NEW f \in [1..k -> S]
  PROVE  f \in Seq(S)
BY SeqDef

\* The empty objects are objects.
LEMMA EmptyTypes ==
  /\ NoLs \in LazySidecar
  /\ NoSc \in Sidecar
  /\ NoList \in [LazySidecars -> LazySidecar]
  /\ \A n \in LazySidecars : NoList[n] = NoLs
BY DEF NoLs, NoSc, NoStatus, NoList, LazySidecar, Sidecar, Status

\* Storing a LazySidecar either changes nothing or stores the new value
\* under the next resourceVersion and announces exactly that.
LEMMA StoreLsEffect ==
  ASSUME LsTypeOK, NEW n \in LazySidecars, NEW new \in LazySidecar, StoreLs(n, new)
  PROVE  /\ ls' \in [LazySidecars -> LazySidecar]
         /\ lsWatch' \in [LazySidecars -> Seq(LazySidecar)]
         /\ \A m \in LazySidecars \ {n} : ls'[m] = ls[m] /\ lsWatch'[m] = lsWatch[m]
         /\ \/ ls' = ls /\ lsWatch' = lsWatch /\ new = ls[n]
            \/ /\ ls'[n] = [new EXCEPT !.rv = ls[n].rv + 1]
               /\ lsWatch'[n] = Append(lsWatch[n], ls'[n])
<1>1. CASE new = ls[n]
  BY <1>1 DEF StoreLs, lsVars, LsTypeOK
<1>2. CASE new # ls[n]
  <2> DEFINE v == [new EXCEPT !.rv = ls[n].rv + 1]
  <2>0. ls[n].rv \in Nat
    BY DEF LazySidecar, LsTypeOK
  <2>1. v \in LazySidecar
    BY <2>0 DEF LazySidecar
  <2>2. ls' = [ls EXCEPT ![n] = v] /\ lsWatch' = [lsWatch EXCEPT ![n] = Append(@, v)]
    BY <1>2 DEF StoreLs
  <2>3. Append(lsWatch[n], v) \in Seq(LazySidecar)
    BY <2>1, AppendProperties DEF LsTypeOK
  <2> HIDE DEF v
  <2>4. ls'[n] = v /\ lsWatch'[n] = Append(lsWatch[n], v)
    BY <2>2 DEF LsTypeOK
  <2>5. /\ ls' \in [LazySidecars -> LazySidecar]
        /\ lsWatch' \in [LazySidecars -> Seq(LazySidecar)]
        /\ \A m \in LazySidecars \ {n} : ls'[m] = ls[m] /\ lsWatch'[m] = lsWatch[m]
    BY <2>1, <2>2, <2>3 DEF LsTypeOK
  <2> QED BY <2>4, <2>5 DEF v
<1> QED BY <1>1, <1>2

\* Likewise for Sidecars.
LEMMA StoreScType ==
  ASSUME ScTypeOK, NEW n \in LazySidecars, NEW new \in Sidecar, StoreSc(n, new)
  PROVE  /\ sc' \in [LazySidecars -> Sidecar]
         /\ scWatch' \in [LazySidecars -> Seq(Sidecar)]
<1>1. CASE new = sc[n]
  BY <1>1 DEF StoreSc, scVars, ScTypeOK
<1>2. CASE new # sc[n]
  <2> DEFINE v == [new EXCEPT !.rv = sc[n].rv + 1]
  <2>0. sc[n].rv \in Nat
    BY DEF Sidecar, ScTypeOK
  <2>1. v \in Sidecar
    BY <2>0 DEF Sidecar
  <2>2. sc' = [sc EXCEPT ![n] = v] /\ scWatch' = [scWatch EXCEPT ![n] = Append(@, v)]
    BY <1>2 DEF StoreSc
  <2>3. Append(scWatch[n], v) \in Seq(Sidecar)
    BY <2>1, AppendProperties DEF ScTypeOK
  <2> HIDE DEF v
  <2> QED BY <2>1, <2>2, <2>3 DEF ScTypeOK
<1> QED BY <1>1, <1>2

\* An update of a LazySidecar is stored only over the version it was computed
\* from; otherwise nothing changes.
LEMMA UpdateLsEffect ==
  ASSUME LsTypeOK, spent \in [EnvKinds -> Nat],
         NEW n \in LazySidecars, NEW copy \in LazySidecar, NEW new \in LazySidecar,
         UpdateLs(n, copy, new)
  PROVE  /\ ls' \in [LazySidecars -> LazySidecar]
         /\ lsWatch' \in [LazySidecars -> Seq(LazySidecar)]
         /\ spent' \in [EnvKinds -> Nat]
         /\ spent'["user"] = spent["user"]
         /\ \/ UNCHANGED lsVars
            \/ Accepts(ls[n], copy) /\ StoreLs(n, new)
<1>1. CASE Accepts(ls[n], copy) /\ StoreLs(n, new) /\ UNCHANGED spent
  BY <1>1, StoreLsEffect
<1>2. CASE ~Accepts(ls[n], copy) /\ UNCHANGED <<lsVars, spent>>
  BY <1>2 DEF lsVars, LsTypeOK
<1>3. CASE Spend("fault") /\ UNCHANGED lsVars
  BY <1>3, SpendType DEF lsVars, LsTypeOK
<1> QED BY <1>1, <1>2, <1>3 DEF UpdateLs

\* Likewise for Sidecars.
LEMMA UpdateScType ==
  ASSUME ScTypeOK, spent \in [EnvKinds -> Nat],
         NEW n \in LazySidecars, NEW copy \in Sidecar, NEW new \in Sidecar,
         UpdateSc(n, copy, new) \/ CreateSc(n, new)
  PROVE  /\ sc' \in [LazySidecars -> Sidecar]
         /\ scWatch' \in [LazySidecars -> Seq(Sidecar)]
         /\ spent' \in [EnvKinds -> Nat]
         /\ spent'["user"] = spent["user"]
<1>1. CASE StoreSc(n, new) /\ UNCHANGED spent
  BY <1>1, StoreScType
<1>2. CASE UNCHANGED <<scVars, spent>>
  BY <1>2 DEF scVars, ScTypeOK
<1>3. CASE Spend("fault") /\ UNCHANGED scVars
  BY <1>3, SpendType DEF scVars, ScTypeOK
<1> QED BY <1>1, <1>2, <1>3 DEF UpdateSc, CreateSc

\* Writing the fields of an object keeps its type.
LEMMA ObjectTypes ==
  /\ \A v \in LazySidecar, hosts \in SUBSET Hosts : [v EXCEPT !.hosts = hosts] \in LazySidecar
  /\ \A v \in LazySidecar, st \in Status : [v EXCEPT !.status = st] \in LazySidecar
  /\ \A v \in Sidecar, hosts \in SUBSET (Hosts \cup {DefaultHost}) :
       [v EXCEPT !.hosts = hosts] \in Sidecar
  /\ \A v \in Sidecar : [v EXCEPT !.live = FALSE, !.hosts = {}] \in Sidecar
  /\ \A v \in LazySidecar : v.hosts \in SUBSET Hosts /\ v.rv \in Nat /\ v.uid \in Nat
  /\ \A v \in Sidecar : v.hosts \in SUBSET (Hosts \cup {DefaultHost})
BY DEF LazySidecar, Sidecar

\* Writing one field of a LazySidecar writes that field only.
LEMMA ObjectFields ==
  ASSUME NEW v \in LazySidecar, NEW x
  PROVE  /\ [v EXCEPT !.hosts = x].hosts = x
         /\ [v EXCEPT !.rv = x].hosts = v.hosts
         /\ [v EXCEPT !.status = x].hosts = v.hosts
BY DEF LazySidecar

\* A listing of the cache has a copy of each object or nothing for it.
LEMMA ListType ==
  ASSUME LsTypeOK
  PROVE  /\ ListAllCsmLazySidecar \in [LazySidecars -> LazySidecar]
         /\ \A n \in LazySidecars : \/ ListAllCsmLazySidecar[n] = lsCache[n]
                                    \/ ListAllCsmLazySidecar[n] = NoLs
BY EmptyTypes DEF ListAllCsmLazySidecar, LsTypeOK

\* The Sidecar list computed from a LazySidecar's hosts.
LEMMA SidecarHostsType ==
  ASSUME NEW n \in LazySidecars, NEW hosts \in SUBSET Hosts
  PROVE  SidecarHosts(n, hosts) \in SUBSET (Hosts \cup {DefaultHost})
BY ControllerAssumption DEF SidecarHosts

-----------------------------------------------------------------------------
(***************************************************************************)
(* Type correctness, one lemma for each group of actions.                  *)
(***************************************************************************)

\* The informers and the garbage collector keep the types.
LEMMA ClusterType ==
  ASSUME TypeOK, Cluster
  PROVE  TypeOK'
<1> USE DEF TypeOK, lsVars, scVars, seVars
<1>1. ASSUME NEW n \in LazySidecars, GarbageCollect(n) PROVE TypeOK'
  <2> USE <1>1 DEF GarbageCollect
  <2>1. [sc[n] EXCEPT !.live = FALSE, !.hosts = {}] \in Sidecar
    BY ObjectTypes DEF ScTypeOK
  <2>2. ScTypeOK'
    BY <2>1, StoreScType DEF ScTypeOK
  <2>3. spent' \in [EnvKinds -> Nat]
    BY SpendType
  <2> QED BY <2>2, <2>3 DEF LsTypeOK, SeTypeOK, WorkerTypeOK, HandlerTypeOK, RequestTypeOK
<1>2. ASSUME NEW n \in LazySidecars, LazySidecarEvent(n) PROVE TypeOK'
  <2> USE <1>2 DEF LazySidecarEvent
  <2>1. Head(lsWatch[n]) \in LazySidecar /\ Tail(lsWatch[n]) \in Seq(LazySidecar)
    BY HeadTailProperties DEF LsTypeOK
  <2>2. LsTypeOK'
    BY <2>1 DEF LsTypeOK
  <2>3. WorkerTypeOK'
    BY DEF WorkerTypeOK
  <2> QED BY <2>2, <2>3 DEF ScTypeOK, SeTypeOK, HandlerTypeOK, RequestTypeOK
<1>3. ASSUME NEW n \in LazySidecars, SidecarEvent(n) PROVE TypeOK'
  <2> USE <1>3 DEF SidecarEvent
  <2>1. Head(scWatch[n]) \in Sidecar /\ Tail(scWatch[n]) \in Seq(Sidecar)
    BY HeadTailProperties DEF ScTypeOK
  <2>2. ScTypeOK'
    BY <2>1 DEF ScTypeOK
  <2>3. WorkerTypeOK'
    BY DEF WorkerTypeOK
  <2> QED BY <2>2, <2>3 DEF LsTypeOK, SeTypeOK, HandlerTypeOK, RequestTypeOK
<1>4. ASSUME ServiceEntryEvent PROVE TypeOK'
  <2> USE <1>4 DEF ServiceEntryEvent
  <2> DEFINE w == Head(seWatch)
             ev == [old |-> seCache[w.se], new |-> w.hosts]
  <2>1. w \in SeWrite /\ Tail(seWatch) \in Seq(SeWrite)
    BY HeadTailProperties DEF SeTypeOK
  <2>2. w.se \in ServiceEntries /\ w.hosts \in SUBSET SeHosts
    BY <2>1 DEF SeWrite
  <2>3. ev \in SeEvent
    BY <2>2 DEF SeEvent, SeTypeOK
  <2>4. Append(seEvents, ev) \in Seq(SeEvent)
    BY <2>3, AppendProperties DEF SeTypeOK
  <2>5. /\ seCache' = [seCache EXCEPT ![w.se] = w.hosts]
        /\ seEvents' = Append(seEvents, ev)
        /\ seWatch' = Tail(seWatch)
        /\ se' = se
    OBVIOUS
  <2> HIDE DEF w, ev
  <2>6. SeTypeOK'
    BY <2>1, <2>2, <2>4, <2>5 DEF SeTypeOK
  <2> QED BY <2>6 DEF LsTypeOK, ScTypeOK, WorkerTypeOK, HandlerTypeOK, RequestTypeOK
<1> QED BY <1>1, <1>2, <1>3, <1>4 DEF Cluster

\* Every step of the reconcile worker keeps the types.
LEMMA WorkerType ==
  ASSUME TypeOK, Worker
  PROVE  TypeOK'
<1> USE DEF TypeOK, lsVars, scVars, seVars
<1>1. ASSUME NEW n \in LazySidecars, Reconcile(n) PROVE TypeOK'
  <2> USE <1>1 DEF Reconcile
  <2>1. lsCache[n] \in LazySidecar
    BY DEF LsTypeOK
  <2>2. WorkerTypeOK'
    BY <2>1 DEF WorkerTypeOK, WorkerPc
  <2> QED BY <2>2 DEF LsTypeOK, ScTypeOK, SeTypeOK, HandlerTypeOK, RequestTypeOK
<1>2. ASSUME ReconcileSidecar PROVE TypeOK'
  <2> USE <1>2 DEF ReconcileSidecar
  <2>1. wk.n \in LazySidecars
    BY DEF WorkerTypeOK
  <2>2. sc[wk.n] \in Sidecar
    BY <2>1 DEF ScTypeOK
  <2>3. WorkerTypeOK'
    BY <2>1, <2>2 DEF WorkerTypeOK, WorkerPc
  <2>4. spent' \in [EnvKinds -> Nat]
    BY SpendType DEF EnvKinds
  <2> QED BY <2>3, <2>4 DEF LsTypeOK, ScTypeOK, SeTypeOK, HandlerTypeOK, RequestTypeOK
<1>3. ASSUME createSidecar PROVE TypeOK'
  <2> USE <1>3 DEF createSidecar
  <2>1. wk.n \in LazySidecars /\ wk.inst \in LazySidecar
    BY DEF WorkerTypeOK
  <2> DEFINE new == [live |-> TRUE, rv |-> sc[wk.n].rv, owner |-> wk.inst.uid,
                     hosts |-> SidecarHosts(wk.n, wk.inst.hosts)]
  <2>2. SidecarHosts(wk.n, wk.inst.hosts) \in SUBSET (Hosts \cup {DefaultHost})
    BY <2>1, ObjectTypes, SidecarHostsType
  <2>3. sc[wk.n] \in Sidecar
    BY <2>1 DEF ScTypeOK
  <2>4. new \in Sidecar
    BY <2>1, <2>2, <2>3 DEF Sidecar, LazySidecar
  <2>5. CreateSc(wk.n, new)
    OBVIOUS
  <2> HIDE DEF new
  <2>6. ScTypeOK' /\ spent' \in [EnvKinds -> Nat]
    BY <2>1, <2>3, <2>4, <2>5, UpdateScType DEF ScTypeOK
  <2>7. WorkerTypeOK'
    BY <2>1 DEF WorkerTypeOK, WorkerPc
  <2> QED BY <2>6, <2>7 DEF LsTypeOK, SeTypeOK, HandlerTypeOK, RequestTypeOK
<1>4. ASSUME updateSidecar PROVE TypeOK'
  <2> USE <1>4 DEF updateSidecar
  <2>1. wk.n \in LazySidecars /\ wk.inst \in LazySidecar /\ wk.sc \in Sidecar
    BY DEF WorkerTypeOK
  <2>2. SidecarHosts(wk.n, wk.inst.hosts) \in SUBSET (Hosts \cup {DefaultHost})
    BY <2>1, ObjectTypes, SidecarHostsType
  <2>3. [sc[wk.n] EXCEPT !.hosts = SidecarHosts(wk.n, wk.inst.hosts)] \in Sidecar
    BY <2>1, <2>2, ObjectTypes DEF ScTypeOK
  <2>4. ScTypeOK' /\ spent' \in [EnvKinds -> Nat]
    BY <2>1, <2>3, UpdateScType DEF ScTypeOK
  <2>5. WorkerTypeOK'
    BY <2>1, EmptyTypes DEF WorkerTypeOK, WorkerPc
  <2> QED BY <2>4, <2>5 DEF LsTypeOK, SeTypeOK, HandlerTypeOK, RequestTypeOK
<1>5. ASSUME listServiceEntries PROVE TypeOK'
  <2> USE <1>5 DEF listServiceEntries
  <2>1. ListAllServiceEntryHosts \in SUBSET SeHosts
    BY DEF ListAllServiceEntryHosts, SeTypeOK
  <2>2. WorkerTypeOK'
    BY <2>1 DEF WorkerTypeOK, WorkerPc
  <2> QED BY <2>2 DEF LsTypeOK, ScTypeOK, SeTypeOK, HandlerTypeOK, RequestTypeOK
<1>6. ASSUME RewriteSeHostsToCsmLazySidecar PROVE TypeOK'
  <2> USE <1>6 DEF RewriteSeHostsToCsmLazySidecar
  <2>1. /\ wk.n \in LazySidecars /\ wk.inst \in LazySidecar
        /\ wk.seHosts \in SUBSET SeHosts
    BY DEF WorkerTypeOK
  <2> DEFINE hosts == wk.inst.hosts \cup GetNewHosts(wk.inst.hosts, wk.seHosts)
  <2>2. hosts \in SUBSET Hosts
    BY <2>1, ObjectTypes DEF GetNewHosts, Hosts
  <2>3. [ls[wk.n] EXCEPT !.hosts = hosts] \in LazySidecar
    BY <2>1, <2>2, ObjectTypes DEF LsTypeOK
  <2>4. LsTypeOK' /\ spent' \in [EnvKinds -> Nat]
    <3>1. CASE UNCHANGED <<lsVars, spent>>
      BY <3>1 DEF LsTypeOK
    <3>2. CASE UpdateLs(wk.n, wk.inst, [ls[wk.n] EXCEPT !.hosts = hosts])
      <4> HIDE DEF hosts
      <4> QED BY <2>1, <2>3, <3>2, UpdateLsEffect DEF LsTypeOK
    <3> QED BY <3>1, <3>2
  <2>5. ls'[wk.n] \in LazySidecar
    BY <2>1, <2>4 DEF LsTypeOK
  <2>6. wk' = [wk EXCEPT !.pc = "getStatus", !.seHosts = {},
                         !.inst = IF ls' # ls THEN ls'[wk.n] ELSE @]
    OBVIOUS
  <2>7. WorkerTypeOK'
    BY <2>1, <2>5, <2>6 DEF WorkerTypeOK, WorkerPc
  <2> QED BY <2>4, <2>7 DEF ScTypeOK, SeTypeOK, HandlerTypeOK, RequestTypeOK
<1>7. ASSUME RewriteCsmLazySidecarStatus PROVE TypeOK'
  <2> USE <1>7 DEF RewriteCsmLazySidecarStatus
  <2>1. wk.n \in LazySidecars
    BY DEF WorkerTypeOK
  <2>2. scCache[wk.n] \in Sidecar
    BY <2>1 DEF ScTypeOK
  <2>3. WorkerTypeOK'
    BY <2>1, <2>2, EmptyTypes DEF WorkerTypeOK, WorkerPc, WorkerIdle
  <2> QED BY <2>3 DEF LsTypeOK, ScTypeOK, SeTypeOK, HandlerTypeOK, RequestTypeOK
<1>8. ASSUME UpdateStatus PROVE TypeOK'
  <2> USE <1>8 DEF UpdateStatus
  <2>1. wk.n \in LazySidecars /\ wk.inst \in LazySidecar /\ wk.sc \in Sidecar
    BY DEF WorkerTypeOK
  <2> DEFINE st == [succeed |-> TRUE, upstream |-> wk.sc.hosts, ts |-> spent["tick"]]
  <2>2. st \in Status
    BY <2>1, ObjectTypes DEF Status
  <2>3. [ls[wk.n] EXCEPT !.status = st] \in LazySidecar
    BY <2>1, <2>2, ObjectTypes DEF LsTypeOK
  <2>4. UpdateLs(wk.n, wk.inst, [ls[wk.n] EXCEPT !.status = st])
    OBVIOUS
  <2> HIDE DEF st
  <2>5. LsTypeOK' /\ spent' \in [EnvKinds -> Nat]
    BY <2>1, <2>3, <2>4, UpdateLsEffect DEF LsTypeOK
  <2>6. WorkerTypeOK'
    BY EmptyTypes DEF WorkerTypeOK, WorkerPc, WorkerIdle
  <2> QED BY <2>5, <2>6 DEF ScTypeOK, SeTypeOK, HandlerTypeOK, RequestTypeOK
<1> QED BY <1>1, <1>2, <1>3, <1>4, <1>5, <1>6, <1>7, <1>8 DEF Worker

\* Every step of the ServiceEntry handler keeps the types.
LEMMA HandlerType ==
  ASSUME TypeOK, Handler
  PROVE  TypeOK'
<1> USE DEF TypeOK, lsVars, scVars, seVars
<1>1. ASSUME HandleServiceEntry PROVE TypeOK'
  <2> USE <1>1 DEF HandleServiceEntry
  <2> DEFINE ev == Head(seEvents)
  <2>1. ev \in SeEvent /\ Tail(seEvents) \in Seq(SeEvent)
    BY HeadTailProperties DEF SeTypeOK
  <2>2. ev.old \in SUBSET SeHosts /\ ev.new \in SUBSET SeHosts
    BY <2>1 DEF SeEvent
  <2>3. /\ hd' = [HandlerIdle EXCEPT !.pc = IF ev.old = {} THEN "add" ELSE "remove",
                                     !.old = ev.old, !.new = ev.new,
                                     !.list = ListAllCsmLazySidecar]
        /\ seEvents' = Tail(seEvents)
    OBVIOUS
  <2> HIDE DEF ev
  <2>4. HandlerTypeOK'
    BY <2>2, <2>3, EmptyTypes, ListType DEF HandlerTypeOK, HandlerPc, HandlerIdle
  <2>5. SeTypeOK'
    BY <2>1, <2>3 DEF SeTypeOK
  <2> QED BY <2>4, <2>5 DEF LsTypeOK, ScTypeOK, WorkerTypeOK, RequestTypeOK
<1>2. ASSUME NEW n \in LazySidecars, ReconcileCsmLazySidecarRemoveHosts(n) PROVE TypeOK'
  <2> USE <1>2 DEF ReconcileCsmLazySidecarRemoveHosts
  <2>1. hd.list \in [LazySidecars -> LazySidecar]
    BY DEF HandlerTypeOK
  <2>2. hd.list[n].hosts \ hd.old \in SUBSET Hosts
    BY <2>1, ObjectTypes
  <2>3. [ls[n] EXCEPT !.hosts = hd.list[n].hosts \ hd.old] \in LazySidecar
    BY <2>2, ObjectTypes DEF LsTypeOK
  <2>4. LsTypeOK' /\ spent' \in [EnvKinds -> Nat]
    BY <2>1, <2>3, UpdateLsEffect DEF LsTypeOK
  <2>5. HandlerTypeOK'
    BY <2>1, EmptyTypes DEF HandlerTypeOK, HandlerPc
  <2> QED BY <2>4, <2>5 DEF ScTypeOK, SeTypeOK, WorkerTypeOK, RequestTypeOK
<1>3. ASSUME getDerivedSidecar PROVE TypeOK'
  <2> USE <1>3 DEF getDerivedSidecar
  <2>1. hd.n \in LazySidecars
    BY DEF HandlerTypeOK
  <2>2. sc[hd.n] \in Sidecar
    BY <2>1 DEF ScTypeOK
  <2>3. HandlerTypeOK'
    BY <2>1, <2>2 DEF HandlerTypeOK, HandlerPc
  <2>4. spent' \in [EnvKinds -> Nat]
    BY SpendType DEF EnvKinds
  <2> QED BY <2>3, <2>4 DEF LsTypeOK, ScTypeOK, SeTypeOK, WorkerTypeOK, RequestTypeOK
<1>4. ASSUME RemoveDeriveSidecarHosts PROVE TypeOK'
  <2> USE <1>4 DEF RemoveDeriveSidecarHosts
  <2>1. hd.n \in LazySidecars /\ hd.sc \in Sidecar
    BY DEF HandlerTypeOK
  <2>2. hd.sc.hosts \ hd.old \in SUBSET (Hosts \cup {DefaultHost})
    BY <2>1, ObjectTypes
  <2>3. [sc[hd.n] EXCEPT !.hosts = hd.sc.hosts \ hd.old] \in Sidecar
    BY <2>1, <2>2, ObjectTypes DEF ScTypeOK
  <2>4. ScTypeOK' /\ spent' \in [EnvKinds -> Nat]
    BY <2>1, <2>3, UpdateScType DEF ScTypeOK
  <2>5. HandlerTypeOK'
    BY EmptyTypes DEF HandlerTypeOK, HandlerPc
  <2> QED BY <2>4, <2>5 DEF LsTypeOK, SeTypeOK, WorkerTypeOK, RequestTypeOK
<1>5. ASSUME RemoveHostsDone PROVE TypeOK'
  <2> USE <1>5 DEF RemoveHostsDone
  <2>1. HandlerTypeOK'
    BY EmptyTypes, ListType DEF HandlerTypeOK, HandlerPc, HandlerIdle
  <2> QED BY <2>1 DEF LsTypeOK, ScTypeOK, SeTypeOK, WorkerTypeOK, RequestTypeOK
<1>6. ASSUME NEW n \in LazySidecars, ReconcileCsmLazySidecarAddHosts(n) PROVE TypeOK'
  <2> USE <1>6 DEF ReconcileCsmLazySidecarAddHosts
  <2>1. hd.list \in [LazySidecars -> LazySidecar] /\ hd.new \in SUBSET SeHosts
    BY DEF HandlerTypeOK
  <2> DEFINE hosts == hd.list[n].hosts \cup GetNewHosts(hd.list[n].hosts, hd.new)
  <2>2. hosts \in SUBSET Hosts
    BY <2>1, ObjectTypes DEF GetNewHosts, Hosts
  <2>3. [ls[n] EXCEPT !.hosts = hosts] \in LazySidecar
    BY <2>2, ObjectTypes DEF LsTypeOK
  <2>4. LsTypeOK' /\ spent' \in [EnvKinds -> Nat]
    <3>1. CASE UNCHANGED <<lsVars, spent>>
      BY <3>1 DEF LsTypeOK
    <3>2. CASE UpdateLs(n, hd.list[n], [ls[n] EXCEPT !.hosts = hosts])
      <4> HIDE DEF hosts
      <4> QED BY <2>1, <2>3, <3>2, UpdateLsEffect DEF LsTypeOK
    <3> QED BY <3>1, <3>2
  <2>5. HandlerTypeOK'
    BY <2>1, EmptyTypes DEF HandlerTypeOK, HandlerPc
  <2> QED BY <2>4, <2>5 DEF ScTypeOK, SeTypeOK, WorkerTypeOK, RequestTypeOK
<1>7. ASSUME AddHostsDone PROVE TypeOK'
  <2> USE <1>7 DEF AddHostsDone
  <2>1. HandlerTypeOK'
    BY EmptyTypes DEF HandlerTypeOK, HandlerPc, HandlerIdle
  <2> QED BY <2>1 DEF LsTypeOK, ScTypeOK, SeTypeOK, WorkerTypeOK, RequestTypeOK
<1> QED BY <1>1, <1>2, <1>3, <1>4, <1>5, <1>6, <1>7 DEF Handler

\* Every step of an HTTP report after its arrival keeps the types.
LEMMA HttpType ==
  ASSUME TypeOK, NEW r \in Requests, Http(r)
  PROVE  TypeOK'
<1> USE DEF TypeOK, lsVars, scVars, seVars
<1> PICK n \in LazySidecars : syncLazySidecar(r, n)
  BY DEF Http
<1> USE DEF syncLazySidecar
<1> DEFINE copy == rq[r].list[n]
           rest == [rq[r].list EXCEPT ![n] = NoLs]
           hosts == copy.hosts \cup rq[r].hosts
<1>1. /\ rq[r].list \in [LazySidecars -> LazySidecar] /\ copy \in LazySidecar
      /\ rq[r].hosts \in SUBSET SvcHosts
  BY DEF RequestTypeOK
<1>2. hosts \in SUBSET Hosts
  BY <1>1, ObjectTypes DEF Hosts
<1>3. [ls[n] EXCEPT !.hosts = hosts] \in LazySidecar
  BY <1>2, ObjectTypes DEF LsTypeOK
<1>4. LsTypeOK' /\ spent' \in [EnvKinds -> Nat]
  <2>1. CASE UNCHANGED <<lsVars, spent>>
    BY <2>1 DEF LsTypeOK
  <2>2. CASE UpdateLs(n, copy, [ls[n] EXCEPT !.hosts = hosts])
    <3> HIDE DEF hosts, copy
    <3> QED BY <1>1, <1>3, <2>2, UpdateLsEffect DEF LsTypeOK
  <2> QED BY <2>1, <2>2
<1>5. rq' = [rq EXCEPT ![r] = IF rest = NoList THEN RequestIdle ELSE [@ EXCEPT !.list = rest]]
  OBVIOUS
<1>6. /\ rest \in [LazySidecars -> LazySidecar]
      /\ \A m \in LazySidecars : rest[m].live => rq[r].list[m].live
  BY <1>1, EmptyTypes DEF NoLs
<1> HIDE DEF rest
<1>7. RequestTypeOK'
  <2> DEFINE new == IF rest = NoList THEN RequestIdle ELSE [rq[r] EXCEPT !.list = rest]
  <2>1. new \in [hosts: SUBSET SvcHosts, list: [LazySidecars -> LazySidecar]]
    BY <1>6, EmptyTypes DEF RequestTypeOK, RequestIdle
  <2>2. ASSUME NEW m \in LazySidecars, new.list[m].live
        PROVE  rest # NoList /\ new = [rq[r] EXCEPT !.list = rest]
    BY <2>2, EmptyTypes DEF RequestIdle, NoLs
  <2>3. ASSUME NEW m \in LazySidecars, new.list[m].live
        PROVE  \E h \in SvcHosts : new.hosts = {h}
    <3>1. new.list = rest /\ new.hosts = rq[r].hosts
      BY <2>2, <2>3 DEF RequestTypeOK
    <3>2. rq[r].list[m].live
      BY <1>6, <2>3, <3>1
    <3> QED BY <3>1, <3>2 DEF RequestTypeOK
  <2>4. rq' = [rq EXCEPT ![r] = new]
    BY <1>5
  <2> HIDE DEF new
  <2>5. rq' \in [Requests -> [hosts: SUBSET SvcHosts, list: [LazySidecars -> LazySidecar]]]
    BY <2>1, <2>4 DEF RequestTypeOK
  <2>6. ASSUME NEW q \in Requests, NEW m \in LazySidecars, rq'[q].list[m].live
        PROVE  \E h \in SvcHosts : rq'[q].hosts = {h}
    <3>1. CASE q = r
      BY <2>3, <2>4, <2>6, <3>1 DEF RequestTypeOK
    <3>2. CASE q # r
      BY <2>4, <2>6, <3>2 DEF RequestTypeOK
    <3> QED BY <3>1, <3>2
  <2> QED BY <2>5, <2>6 DEF RequestTypeOK
<1> QED BY <1>4, <1>7 DEF ScTypeOK, SeTypeOK, WorkerTypeOK, HandlerTypeOK

\* Whatever users, workloads, the clock and a restart do keeps the types.
LEMMA EnvironmentType ==
  ASSUME TypeOK, Environment
  PROVE  TypeOK'
<1> USE DEF TypeOK, lsVars, scVars, seVars
<1>1. ASSUME NEW n \in LazySidecars, NEW hosts \in UserHosts, UserCreates(n, hosts)
      PROVE  TypeOK'
  <2> USE <1>1 DEF UserCreates
  <2> DEFINE new == [live |-> TRUE, rv |-> ls[n].rv, uid |-> ls[n].rv + 1,
                     hosts |-> hosts, status |-> NoStatus]
  <2>1. ls[n].rv \in Nat
    BY ObjectTypes DEF LsTypeOK
  <2>2. new \in LazySidecar
    BY <2>1, ControllerAssumption DEF LazySidecar, Status, NoStatus
  <2>3. StoreLs(n, new)
    OBVIOUS
  <2> HIDE DEF new
  <2>4. LsTypeOK'
    BY <2>2, <2>3, StoreLsEffect DEF LsTypeOK
  <2>5. spent' \in [EnvKinds -> Nat]
    BY SpendType
  <2> QED BY <2>4, <2>5 DEF ScTypeOK, SeTypeOK, WorkerTypeOK, HandlerTypeOK, RequestTypeOK
<1>2. ASSUME NEW n \in LazySidecars, NEW hosts \in UserHosts, UserEdits(n, hosts)
      PROVE  TypeOK'
  <2> USE <1>2 DEF UserEdits
  <2>1. [ls[n] EXCEPT !.hosts = hosts] \in LazySidecar
    BY ControllerAssumption, ObjectTypes DEF LsTypeOK
  <2>2. LsTypeOK'
    BY <2>1, StoreLsEffect DEF LsTypeOK
  <2>3. spent' \in [EnvKinds -> Nat]
    BY SpendType
  <2> QED BY <2>2, <2>3 DEF ScTypeOK, SeTypeOK, WorkerTypeOK, HandlerTypeOK, RequestTypeOK
<1>3. ASSUME NEW n \in LazySidecars, UserDeletes(n) PROVE TypeOK'
  <2> USE <1>3 DEF UserDeletes
  <2>1. [ls[n] EXCEPT !.live = FALSE, !.hosts = {}, !.status = NoStatus] \in LazySidecar
    BY DEF LsTypeOK, LazySidecar, Status, NoStatus
  <2>2. LsTypeOK'
    BY <2>1, StoreLsEffect DEF LsTypeOK
  <2>3. spent' \in [EnvKinds -> Nat]
    BY SpendType
  <2> QED BY <2>2, <2>3 DEF ScTypeOK, SeTypeOK, WorkerTypeOK, HandlerTypeOK, RequestTypeOK
<1>4. ASSUME NEW n \in LazySidecars, SidecarTampered(n) PROVE TypeOK'
  <2> USE <1>4 DEF SidecarTampered
  <2>1. \A hosts \in UserHosts : [sc[n] EXCEPT !.hosts = hosts] \in Sidecar
    BY ControllerAssumption, ObjectTypes DEF ScTypeOK
  <2>2. [sc[n] EXCEPT !.live = FALSE, !.hosts = {}] \in Sidecar
    BY ObjectTypes DEF ScTypeOK
  <2>3. \E new \in Sidecar : StoreSc(n, new)
    BY <2>1, <2>2
  <2>4. ScTypeOK'
    BY <2>3, StoreScType DEF ScTypeOK
  <2>5. spent' \in [EnvKinds -> Nat]
    BY SpendType
  <2> QED BY <2>4, <2>5 DEF LsTypeOK, SeTypeOK, WorkerTypeOK, HandlerTypeOK, RequestTypeOK
<1>5. ASSUME NEW e \in ServiceEntries, NEW hosts \in SUBSET SeHosts, ServiceEntryWritten(e, hosts)
      PROVE  TypeOK'
  <2> USE <1>5 DEF ServiceEntryWritten
  <2>1. Append(seWatch, [se |-> e, hosts |-> hosts]) \in Seq(SeWrite)
    BY AppendProperties DEF SeTypeOK, SeWrite
  <2>2. SeTypeOK'
    BY <2>1 DEF SeTypeOK
  <2>3. spent' \in [EnvKinds -> Nat]
    BY SpendType
  <2> QED BY <2>2, <2>3 DEF LsTypeOK, ScTypeOK, WorkerTypeOK, HandlerTypeOK, RequestTypeOK
<1>6. ASSUME NEW r \in Requests, NEW h \in SvcHosts, Report(r, h) PROVE TypeOK'
  <2> USE <1>6 DEF Report
  <2> DEFINE list == [n \in LazySidecars |->
                        IF n \in Matched[r] THEN ListAllCsmLazySidecar[n] ELSE NoLs]
             new == [hosts |-> IF list = NoList THEN {} ELSE {h}, list |-> list]
  <2>1. list \in [LazySidecars -> LazySidecar]
    BY ListType, EmptyTypes
  <2>2. rq' = [rq EXCEPT ![r] = new]
    OBVIOUS
  <2>3. ASSUME NEW n \in LazySidecars, list[n].live PROVE list # NoList
    BY <2>3, EmptyTypes DEF NoLs
  <2> HIDE DEF list
  <2>4. /\ new \in [hosts: SUBSET SvcHosts, list: [LazySidecars -> LazySidecar]]
        /\ \A n \in LazySidecars : new.list[n].live => new.hosts = {h}
    BY <2>1, <2>3
  <2> HIDE DEF new
  <2>5. RequestTypeOK'
    <3>1. rq' \in [Requests -> [hosts: SUBSET SvcHosts, list: [LazySidecars -> LazySidecar]]]
      BY <2>2, <2>4 DEF RequestTypeOK
    <3>2. ASSUME NEW q \in Requests, NEW m \in LazySidecars, rq'[q].list[m].live
          PROVE  \E g \in SvcHosts : rq'[q].hosts = {g}
      <4>1. CASE q = r
        BY <2>2, <2>4, <3>2, <4>1 DEF RequestTypeOK
      <4>2. CASE q # r
        BY <2>2, <3>2, <4>2 DEF RequestTypeOK
      <4> QED BY <4>1, <4>2
    <3> QED BY <3>1, <3>2 DEF RequestTypeOK
  <2>6. spent' \in [EnvKinds -> Nat]
    BY SpendType
  <2> QED BY <2>5, <2>6 DEF LsTypeOK, ScTypeOK, SeTypeOK, WorkerTypeOK, HandlerTypeOK
<1>7. ASSUME ClockTicks PROVE TypeOK'
  BY <1>7, SpendType
     DEF ClockTicks, LsTypeOK, ScTypeOK, SeTypeOK, WorkerTypeOK, HandlerTypeOK, RequestTypeOK
<1>8. ASSUME Restart PROVE TypeOK'
  <2> USE <1>8 DEF Restart
  <2>1. LsTypeOK' /\ ScTypeOK'
    BY DEF LsTypeOK, ScTypeOK
  <2>2. SeTypeOK'
    <3> DEFINE exported == {e \in ServiceEntries : se[e] # {}}
    <3>1. Cardinality(exported) \in Nat
      BY ControllerAssumption, FS_Subset, FS_CardinalityType
    <3>2. PICK order \in [1..Cardinality(exported) -> exported] :
            seEvents' = [i \in DOMAIN order |-> [old |-> {}, new |-> se[order[i]]]]
      OBVIOUS
    <3>3. seEvents' \in [1..Cardinality(exported) -> SeEvent]
      BY <3>2 DEF SeTypeOK, SeEvent
    <3>4. seEvents' \in Seq(SeEvent)
      BY <3>1, <3>3, FunctionIsSeq, Zenon
    <3> QED BY <3>4 DEF SeTypeOK
  <2>3. WorkerTypeOK'
    BY EmptyTypes DEF WorkerTypeOK, WorkerIdle, WorkerPc
  <2>4. HandlerTypeOK'
    BY EmptyTypes DEF HandlerTypeOK, HandlerIdle, HandlerPc
  <2>5. RequestTypeOK'
    BY EmptyTypes DEF RequestTypeOK, RequestIdle, NoLs
  <2>6. spent' \in [EnvKinds -> Nat]
    BY SpendType
  <2> QED BY <2>1, <2>2, <2>3, <2>4, <2>5, <2>6
<1> QED BY <1>1, <1>2, <1>3, <1>4, <1>5, <1>6, <1>7, <1>8 DEF Environment

\* Type correctness: along every behaviour of the controller, its handler and
\* its HTTP reports, objects, copies and program counters have their types.
THEOREM TypeCorrect == Spec => []TypeOK
<1>1. Init => TypeOK
  <2> SUFFICES ASSUME Init PROVE TypeOK
    OBVIOUS
  <2> USE EmptyTypes DEF Init
  <2>1. LsTypeOK /\ ScTypeOK /\ SeTypeOK
    BY EmptySeq DEF LsTypeOK, ScTypeOK, SeTypeOK
  <2>2. WorkerTypeOK /\ HandlerTypeOK
    BY DEF WorkerTypeOK, HandlerTypeOK, WorkerIdle, HandlerIdle, WorkerPc, HandlerPc
  <2>3. RequestTypeOK
    BY DEF RequestTypeOK, RequestIdle, NoLs
  <2> QED BY <2>1, <2>2, <2>3 DEF TypeOK
<1>2. TypeOK /\ [Next]_vars => TypeOK'
  <2> SUFFICES ASSUME TypeOK, [Next]_vars PROVE TypeOK'
    OBVIOUS
  <2>1. CASE UNCHANGED vars
    BY <2>1 DEF vars, lsVars, scVars, seVars, TypeOK, LsTypeOK, ScTypeOK, SeTypeOK,
                WorkerTypeOK, HandlerTypeOK, RequestTypeOK
  <2> QED BY <2>1, EnvironmentType, ClusterType, WorkerType, HandlerType, HttpType DEF Next
<1> QED BY <1>1, <1>2, PTL DEF Spec

-----------------------------------------------------------------------------
(***************************************************************************)
(* Optimistic concurrency: TypeOK /\ CopiesFaithful is inductive.          *)
(***************************************************************************)

\* A copy that is no object at all is faithful to anything.
LEMMA EmptyFaithful ==
  ASSUME NEW v \in LazySidecar
  PROVE  Faithful(NoLs, v)
BY DEF Faithful, NoLs, LazySidecar

\* Storing a new version leaves every faithful copy faithful, and what the
\* informer will hear of it is faithful too.
LEMMA StoreLsFaithful ==
  ASSUME LsTypeOK, InformerFaithful,
         NEW n \in LazySidecars, NEW new \in LazySidecar, StoreLs(n, new), lsCache' = lsCache
  PROVE  /\ \A m \in LazySidecars, copy \in LazySidecar :
              Faithful(copy, ls[m]) => Faithful(copy, ls'[m])
         /\ InformerFaithful'
<1>1. \A m \in LazySidecars : ls[m].rv \in Nat /\ ls'[m].rv \in Nat
  BY StoreLsEffect, ObjectTypes DEF LsTypeOK
<1>2. ls' = ls \/ ls'[n].rv = ls[n].rv + 1
  BY StoreLsEffect DEF LazySidecar
<1>3. ASSUME NEW m \in LazySidecars, NEW copy \in LazySidecar, Faithful(copy, ls[m])
      PROVE  Faithful(copy, ls'[m])
  <2>1. copy.rv \in Nat
    BY ObjectTypes
  <2>2. CASE ls'[m] = ls[m]
    BY <1>3, <2>2
  <2>3. CASE ls'[m] # ls[m]
    <3>1. ls'[m].rv = ls[m].rv + 1
      BY <1>2, <2>3, StoreLsEffect
    <3> QED BY <1>1, <1>3, <2>1, <3>1 DEF Faithful
  <2> QED BY <2>2, <2>3
<1>4. ASSUME NEW m \in LazySidecars, NEW i \in DOMAIN lsWatch'[m]
      PROVE  Faithful(lsWatch'[m][i], ls'[m])
  <2>1. CASE lsWatch'[m] = lsWatch[m]
    <3>1. lsWatch[m] \in Seq(LazySidecar) /\ i \in 1..Len(lsWatch[m])
      BY <1>4, <2>1 DEF LsTypeOK
    <3>2. lsWatch[m][i] \in LazySidecar
      BY <3>1, ElementOfSeq
    <3> QED BY <1>3, <2>1, <3>1, <3>2 DEF InformerFaithful
  <2>2. CASE lsWatch'[m] # lsWatch[m]
    <3>1. m = n /\ lsWatch'[m] = Append(lsWatch[m], ls'[m])
      BY <2>2, StoreLsEffect
    <3>2. lsWatch[m] \in Seq(LazySidecar) /\ ls'[m] \in LazySidecar
      BY StoreLsEffect DEF LsTypeOK
    <3>3. i \in 1..(Len(lsWatch[m]) + 1)
      BY <1>4, <3>1, <3>2, AppendProperties
    <3>4. CASE i = Len(lsWatch[m]) + 1
      BY <1>1, <3>1, <3>2, <3>4, AppendProperties DEF Faithful
    <3>5. CASE i # Len(lsWatch[m]) + 1
      <4>1. i \in 1..Len(lsWatch[m])
        BY <3>2, <3>3, <3>5
      <4>2. lsWatch'[m][i] = lsWatch[m][i] /\ lsWatch[m][i] \in LazySidecar
        BY <3>1, <3>2, <4>1, AppendProperties, ElementOfSeq
      <4>3. Faithful(lsWatch[m][i], ls[m])
        BY <3>2, <4>1 DEF InformerFaithful
      <4> QED BY <1>3, <4>2, <4>3
    <3> QED BY <3>4, <3>5
  <2> QED BY <2>1, <2>2
<1>5. InformerFaithful'
  BY <1>3, <1>4 DEF InformerFaithful, LsTypeOK
<1> QED BY <1>3, <1>5

\* The same for an update, stored or refused.
LEMMA UpdateLsFaithful ==
  ASSUME LsTypeOK, spent \in [EnvKinds -> Nat], InformerFaithful,
         NEW n \in LazySidecars, NEW copy \in LazySidecar, NEW new \in LazySidecar,
         UpdateLs(n, copy, new), lsCache' = lsCache
  PROVE  /\ \A m \in LazySidecars, c \in LazySidecar :
              Faithful(c, ls[m]) => Faithful(c, ls'[m])
         /\ InformerFaithful'
<1>1. CASE UNCHANGED lsVars
  BY <1>1 DEF lsVars, InformerFaithful
<1>2. CASE StoreLs(n, new)
  BY <1>2, StoreLsFaithful
<1> QED BY <1>1, <1>2, UpdateLsEffect

\* Copies an actor keeps stay faithful when all faithful copies do.
LEMMA KeptFaithful ==
  ASSUME TypeOK, CopiesFaithful,
         \A m \in LazySidecars, c \in LazySidecar : Faithful(c, ls[m]) => Faithful(c, ls'[m])
  PROVE  /\ wk' = wk => WorkerFaithful'
         /\ hd'.list = hd.list => HandlerFaithful'
         /\ rq' = rq => RequestsFaithful'
<1> USE DEF TypeOK, CopiesFaithful
<1>1. wk' = wk => WorkerFaithful'
  BY DEF WorkerTypeOK, WorkerFaithful
<1>2. hd'.list = hd.list => HandlerFaithful'
  BY DEF HandlerTypeOK, HandlerFaithful
<1>3. rq' = rq => RequestsFaithful'
  BY DEF RequestTypeOK, RequestsFaithful
<1> QED BY <1>1, <1>2, <1>3

\* A step that leaves the LazySidecars and every copy of them alone.
LEMMA UntouchedFaithful ==
  ASSUME CopiesFaithful, UNCHANGED <<lsVars, lsCache, wk, rq>>, hd'.list = hd.list
  PROVE  CopiesFaithful'
BY DEF CopiesFaithful, lsVars, InformerFaithful, WorkerFaithful, HandlerFaithful, RequestsFaithful

\* The informers hand on faithful copies.
LEMMA ClusterFaithful ==
  ASSUME TypeOK, CopiesFaithful, Cluster
  PROVE  CopiesFaithful'
<1>1. ASSUME NEW n \in LazySidecars, GarbageCollect(n) PROVE CopiesFaithful'
  BY <1>1, UntouchedFaithful DEF GarbageCollect
<1>2. ASSUME NEW n \in LazySidecars, LazySidecarEvent(n) PROVE CopiesFaithful'
  <2> USE <1>2 DEF LazySidecarEvent
  <2>1. lsWatch[n] \in Seq(LazySidecar) /\ lsWatch[n] # <<>>
    BY DEF TypeOK, LsTypeOK
  <2>2. Head(lsWatch[n]) = lsWatch[n][1] /\ 1 \in DOMAIN lsWatch[n]
    BY <2>1
  <2>3. \A i \in DOMAIN Tail(lsWatch[n]) :
          i + 1 \in DOMAIN lsWatch[n] /\ Tail(lsWatch[n])[i] = lsWatch[n][i + 1]
    BY <2>1
  <2>4. InformerFaithful'
    BY <2>2, <2>3 DEF TypeOK, LsTypeOK, CopiesFaithful, InformerFaithful
  <2> QED BY <2>4 DEF CopiesFaithful, WorkerFaithful, HandlerFaithful, RequestsFaithful
<1>3. ASSUME NEW n \in LazySidecars, SidecarEvent(n) PROVE CopiesFaithful'
  BY <1>3, UntouchedFaithful DEF SidecarEvent
<1>4. ASSUME ServiceEntryEvent PROVE CopiesFaithful'
  BY <1>4, UntouchedFaithful DEF ServiceEntryEvent
<1> QED BY <1>1, <1>2, <1>3, <1>4 DEF Cluster

\* The worker's copy is the cached one or the one its own update stored.
LEMMA WorkerFaithfulStep ==
  ASSUME TypeOK, CopiesFaithful, Worker
  PROVE  CopiesFaithful'
<1> USE DEF lsVars
<1>0. ASSUME UNCHANGED <<lsVars, lsCache, hd, rq>>, WorkerFaithful' PROVE CopiesFaithful'
  BY <1>0 DEF CopiesFaithful, InformerFaithful, HandlerFaithful, RequestsFaithful
<1>1. ASSUME NEW n \in LazySidecars, Reconcile(n) PROVE CopiesFaithful'
  BY <1>0, <1>1 DEF Reconcile, TypeOK, WorkerTypeOK, CopiesFaithful, InformerFaithful, WorkerFaithful
<1>2. ASSUME ReconcileSidecar PROVE CopiesFaithful'
  BY <1>0, <1>2 DEF ReconcileSidecar, TypeOK, WorkerTypeOK, CopiesFaithful, WorkerFaithful
<1>3. ASSUME createSidecar PROVE CopiesFaithful'
  BY <1>0, <1>3 DEF createSidecar, TypeOK, WorkerTypeOK, CopiesFaithful, WorkerFaithful
<1>4. ASSUME updateSidecar PROVE CopiesFaithful'
  BY <1>0, <1>4 DEF updateSidecar, TypeOK, WorkerTypeOK, CopiesFaithful, WorkerFaithful
<1>5. ASSUME listServiceEntries PROVE CopiesFaithful'
  BY <1>0, <1>5 DEF listServiceEntries, TypeOK, WorkerTypeOK, CopiesFaithful, WorkerFaithful
<1>6. ASSUME RewriteSeHostsToCsmLazySidecar PROVE CopiesFaithful'
  <2> USE <1>6 DEF RewriteSeHostsToCsmLazySidecar
  <2>1. /\ wk.n \in LazySidecars /\ wk.inst \in LazySidecar
        /\ wk.seHosts \in SUBSET SeHosts
    BY DEF TypeOK, WorkerTypeOK
  <2> DEFINE hosts == wk.inst.hosts \cup GetNewHosts(wk.inst.hosts, wk.seHosts)
             new == [ls[wk.n] EXCEPT !.hosts = hosts]
  <2>2. new \in LazySidecar
    BY <2>1, ObjectTypes DEF GetNewHosts, Hosts, TypeOK, LsTypeOK
  <2>3. UNCHANGED lsVars \/ UpdateLs(wk.n, wk.inst, new)
    OBVIOUS
  <2>4. wk' = [wk EXCEPT !.pc = "getStatus", !.seHosts = {},
                         !.inst = IF ls' # ls THEN ls'[wk.n] ELSE @]
    OBVIOUS
  <2>5. new.live = ls[wk.n].live
    BY <2>1 DEF TypeOK, LsTypeOK, LazySidecar
  <2> HIDE DEF new, hosts
  <2>6. /\ \A m \in LazySidecars, c \in LazySidecar : Faithful(c, ls[m]) => Faithful(c, ls'[m])
        /\ InformerFaithful'
    <3>1. CASE UNCHANGED lsVars
      BY <3>1 DEF CopiesFaithful, InformerFaithful
    <3>2. CASE UpdateLs(wk.n, wk.inst, new)
      BY <2>1, <2>2, <3>2, UpdateLsFaithful DEF TypeOK, CopiesFaithful
    <3> QED BY <2>3, <3>1, <3>2
  <2>7. HandlerFaithful' /\ RequestsFaithful'
    BY <2>6, KeptFaithful
  <2>8. WorkerFaithful'
    <3>1. wk'.pc = "getStatus" /\ wk'.n = wk.n
      BY <2>4 DEF TypeOK, WorkerTypeOK
    <3>2. CASE ls' = ls
      BY <2>4, <3>1, <3>2 DEF TypeOK, WorkerTypeOK, CopiesFaithful, WorkerFaithful
    <3>3. CASE ls' # ls
      <4>1. UpdateLs(wk.n, wk.inst, new)
        BY <2>3, <3>3
      <4>2. Accepts(ls[wk.n], wk.inst) /\ StoreLs(wk.n, new)
        BY <2>1, <2>2, <3>3, <4>1, UpdateLsEffect DEF TypeOK
      <4>3. ls'[wk.n] = [new EXCEPT !.rv = ls[wk.n].rv + 1] /\ ls'[wk.n] \in LazySidecar
        BY <2>1, <2>2, <3>3, <4>2, StoreLsEffect DEF TypeOK
      <4>4. ls'[wk.n].live
        BY <2>2, <2>5, <4>2, <4>3 DEF Accepts, LazySidecar
      <4>5. wk'.inst = ls'[wk.n]
        BY <2>4, <3>3 DEF TypeOK, WorkerTypeOK
      <4>6. ls'[wk.n].rv \in Nat
        BY <4>3, ObjectTypes
      <4> QED BY <3>1, <4>4, <4>5, <4>6 DEF WorkerFaithful, Faithful
    <3> QED BY <3>2, <3>3
  <2> QED BY <2>6, <2>7, <2>8 DEF CopiesFaithful
<1>7. ASSUME RewriteCsmLazySidecarStatus PROVE CopiesFaithful'
  BY <1>0, <1>7 DEF RewriteCsmLazySidecarStatus, WorkerIdle, TypeOK, WorkerTypeOK,
                    CopiesFaithful, WorkerFaithful
<1>8. ASSUME UpdateStatus PROVE CopiesFaithful'
  <2> USE <1>8 DEF UpdateStatus
  <2>1. wk.n \in LazySidecars /\ wk.inst \in LazySidecar /\ wk.sc \in Sidecar
    BY DEF TypeOK, WorkerTypeOK
  <2> DEFINE st == [succeed |-> TRUE, upstream |-> wk.sc.hosts, ts |-> spent["tick"]]
             new == [ls[wk.n] EXCEPT !.status = st]
  <2>2. st \in Status
    BY <2>1, ObjectTypes DEF Status, TypeOK
  <2>3. new \in LazySidecar
    BY <2>1, <2>2, ObjectTypes DEF TypeOK, LsTypeOK
  <2>4. UpdateLs(wk.n, wk.inst, new) /\ wk' = WorkerIdle /\ lsCache' = lsCache /\ hd' = hd /\ rq' = rq
    OBVIOUS
  <2> HIDE DEF new
  <2>5. /\ \A m \in LazySidecars, c \in LazySidecar : Faithful(c, ls[m]) => Faithful(c, ls'[m])
        /\ InformerFaithful'
    BY <2>1, <2>3, <2>4, UpdateLsFaithful DEF TypeOK, CopiesFaithful
  <2>6. HandlerFaithful' /\ RequestsFaithful'
    BY <2>4, <2>5, KeptFaithful
  <2>7. WorkerFaithful'
    BY <2>4 DEF WorkerFaithful, WorkerIdle
  <2> QED BY <2>5, <2>6, <2>7 DEF CopiesFaithful
<1> QED BY <1>1, <1>2, <1>3, <1>4, <1>5, <1>6, <1>7, <1>8 DEF Worker

\* The handler's copies come from one listing of the cache and are consumed.
LEMMA HandlerFaithfulStep ==
  ASSUME TypeOK, CopiesFaithful, Handler
  PROVE  CopiesFaithful'
<1> USE DEF lsVars
<1>0. ASSUME UNCHANGED <<lsVars, lsCache, wk, rq>>, hd'.list = NoList \/ hd'.list = ListAllCsmLazySidecar
      PROVE  CopiesFaithful'
  <2>1. \A n \in LazySidecars : Faithful(NoLs, ls[n])
    BY EmptyFaithful DEF TypeOK, LsTypeOK
  <2>2. HandlerFaithful'
    BY <1>0, <2>1, EmptyTypes, ListType
       DEF TypeOK, CopiesFaithful, InformerFaithful, HandlerFaithful
  <2> QED BY <1>0, <2>2 DEF CopiesFaithful, InformerFaithful, WorkerFaithful, RequestsFaithful
<1>1. ASSUME HandleServiceEntry PROVE CopiesFaithful'
  BY <1>0, <1>1 DEF HandleServiceEntry, HandlerIdle
<1>2. ASSUME NEW n \in LazySidecars, UNCHANGED <<lsCache, wk, rq>>,
             NEW new \in LazySidecar, UNCHANGED lsVars \/ UpdateLs(n, hd.list[n], new),
             hd'.list = [hd.list EXCEPT ![n] = NoLs]
      PROVE  CopiesFaithful'
  <2>1. hd.list \in [LazySidecars -> LazySidecar]
    BY DEF TypeOK, HandlerTypeOK
  <2>2. /\ \A m \in LazySidecars, c \in LazySidecar : Faithful(c, ls[m]) => Faithful(c, ls'[m])
        /\ InformerFaithful'
        /\ ls' \in [LazySidecars -> LazySidecar]
    <3>1. CASE UNCHANGED lsVars
      BY <1>2, <3>1 DEF CopiesFaithful, InformerFaithful, TypeOK, LsTypeOK
    <3>2. CASE UpdateLs(n, hd.list[n], new)
      BY <1>2, <2>1, <3>2, UpdateLsFaithful, UpdateLsEffect DEF TypeOK, CopiesFaithful
    <3> QED BY <1>2, <3>1, <3>2
  <2>3. WorkerFaithful' /\ RequestsFaithful'
    BY <1>2, <2>2, KeptFaithful
  <2>4. HandlerFaithful'
    BY <1>2, <2>1, <2>2, EmptyFaithful DEF CopiesFaithful, HandlerFaithful
  <2> QED BY <2>2, <2>3, <2>4 DEF CopiesFaithful
<1>3. ASSUME NEW n \in LazySidecars, ReconcileCsmLazySidecarRemoveHosts(n) PROVE CopiesFaithful'
  <2> USE <1>3 DEF ReconcileCsmLazySidecarRemoveHosts
  <2>1. [ls[n] EXCEPT !.hosts = hd.list[n].hosts \ hd.old] \in LazySidecar
    BY ObjectTypes DEF TypeOK, LsTypeOK, HandlerTypeOK
  <2>2. hd'.list = [hd.list EXCEPT ![n] = NoLs]
    BY DEF TypeOK, HandlerTypeOK
  <2> QED BY <1>2, <2>1, <2>2
<1>4. ASSUME getDerivedSidecar PROVE CopiesFaithful'
  BY <1>4, UntouchedFaithful DEF getDerivedSidecar, TypeOK, HandlerTypeOK
<1>5. ASSUME RemoveDeriveSidecarHosts PROVE CopiesFaithful'
  BY <1>5, UntouchedFaithful DEF RemoveDeriveSidecarHosts, TypeOK, HandlerTypeOK
<1>6. ASSUME RemoveHostsDone PROVE CopiesFaithful'
  BY <1>0, <1>6 DEF RemoveHostsDone, HandlerIdle, TypeOK, HandlerTypeOK
<1>7. ASSUME NEW n \in LazySidecars, ReconcileCsmLazySidecarAddHosts(n) PROVE CopiesFaithful'
  <2> USE <1>7 DEF ReconcileCsmLazySidecarAddHosts
  <2> DEFINE new == [ls[n] EXCEPT !.hosts =
                       hd.list[n].hosts \cup GetNewHosts(hd.list[n].hosts, hd.new)]
  <2>1. new \in LazySidecar
    BY ObjectTypes DEF TypeOK, LsTypeOK, HandlerTypeOK, GetNewHosts, Hosts
  <2>2. hd'.list = [hd.list EXCEPT ![n] = NoLs]
    BY DEF TypeOK, HandlerTypeOK
  <2>3. UNCHANGED lsVars \/ UpdateLs(n, hd.list[n], new)
    OBVIOUS
  <2> HIDE DEF new
  <2> QED BY <1>2, <2>1, <2>2, <2>3
<1>8. ASSUME AddHostsDone PROVE CopiesFaithful'
  BY <1>0, <1>8 DEF AddHostsDone, HandlerIdle
<1> QED BY <1>1, <1>3, <1>4, <1>5, <1>6, <1>7, <1>8 DEF Handler

\* A report's copies come from one listing of the cache and are consumed.
LEMMA HttpFaithfulStep ==
  ASSUME TypeOK, CopiesFaithful, NEW r \in Requests, Http(r)
  PROVE  CopiesFaithful'
<1> USE DEF lsVars
<1> PICK n \in LazySidecars : syncLazySidecar(r, n)
  BY DEF Http
<1> USE DEF syncLazySidecar
<1> DEFINE copy == rq[r].list[n]
           rest == [rq[r].list EXCEPT ![n] = NoLs]
           new == [ls[n] EXCEPT !.hosts = copy.hosts \cup rq[r].hosts]
<1>1. rq[r].list \in [LazySidecars -> LazySidecar] /\ rq[r].hosts \in SUBSET SvcHosts
  BY DEF TypeOK, RequestTypeOK
<1>2. copy \in LazySidecar /\ new \in LazySidecar
  BY <1>1, ObjectTypes DEF TypeOK, LsTypeOK, Hosts
<1>3. UNCHANGED lsVars \/ UpdateLs(n, copy, new)
  OBVIOUS
<1>4. rq' = [rq EXCEPT ![r] = IF rest = NoList THEN RequestIdle ELSE [@ EXCEPT !.list = rest]]
  OBVIOUS
<1>5. rq'[r].list = rest /\ \A q \in Requests \ {r} : rq'[q] = rq[q]
  BY <1>4 DEF TypeOK, RequestTypeOK, RequestIdle
<1> HIDE DEF copy, new
<1>6. /\ \A m \in LazySidecars, c \in LazySidecar : Faithful(c, ls[m]) => Faithful(c, ls'[m])
      /\ InformerFaithful'
      /\ ls' \in [LazySidecars -> LazySidecar]
  <2>1. CASE UNCHANGED lsVars
    BY <2>1 DEF CopiesFaithful, InformerFaithful, TypeOK, LsTypeOK
  <2>2. CASE UpdateLs(n, copy, new)
    BY <1>2, <2>2, UpdateLsFaithful, UpdateLsEffect DEF TypeOK, CopiesFaithful
  <2> QED BY <1>3, <2>1, <2>2
<1>7. WorkerFaithful' /\ HandlerFaithful'
  BY <1>6, KeptFaithful
<1>8. ASSUME NEW q \in Requests, NEW m \in LazySidecars
      PROVE  Faithful(rq'[q].list[m], ls'[m])
  <2>1. rq[q].list[m] \in LazySidecar /\ Faithful(rq[q].list[m], ls'[m])
    BY <1>6 DEF TypeOK, RequestTypeOK, CopiesFaithful, RequestsFaithful
  <2>2. CASE q = r /\ m = n
    BY <1>1, <1>5, <1>6, <2>2, EmptyFaithful
  <2>3. CASE ~(q = r /\ m = n)
    BY <1>1, <1>5, <2>1, <2>3
  <2> QED BY <2>2, <2>3
<1> QED BY <1>6, <1>7, <1>8 DEF CopiesFaithful, RequestsFaithful

\* Users only make versions; a report takes faithful copies; a restart lists
\* the stored objects themselves.
LEMMA EnvironmentFaithful ==
  ASSUME TypeOK, CopiesFaithful, Environment
  PROVE  CopiesFaithful'
<1> USE DEF lsVars
<1>0. ASSUME NEW n \in LazySidecars, NEW new \in LazySidecar, StoreLs(n, new),
             UNCHANGED <<lsCache, wk, hd, rq>>
      PROVE  CopiesFaithful'
  BY <1>0, StoreLsFaithful, KeptFaithful DEF TypeOK, CopiesFaithful
<1>1. ASSUME NEW n \in LazySidecars, NEW hosts \in UserHosts, UserCreates(n, hosts)
      PROVE  CopiesFaithful'
  <2> DEFINE new == [live |-> TRUE, rv |-> ls[n].rv, uid |-> ls[n].rv + 1,
                     hosts |-> hosts, status |-> NoStatus]
  <2>1. ls[n].rv \in Nat
    BY ObjectTypes DEF TypeOK, LsTypeOK
  <2>2. new \in LazySidecar
    BY <2>1, ControllerAssumption DEF LazySidecar, Status, NoStatus
  <2>3. StoreLs(n, new) /\ UNCHANGED <<lsCache, wk, hd, rq>>
    BY <1>1 DEF UserCreates
  <2> HIDE DEF new
  <2> QED BY <1>0, <2>2, <2>3
<1>2. ASSUME NEW n \in LazySidecars, NEW hosts \in UserHosts, UserEdits(n, hosts)
      PROVE  CopiesFaithful'
  <2>1. [ls[n] EXCEPT !.hosts = hosts] \in LazySidecar
    BY ControllerAssumption, ObjectTypes DEF TypeOK, LsTypeOK
  <2> QED BY <1>0, <1>2, <2>1 DEF UserEdits
<1>3. ASSUME NEW n \in LazySidecars, UserDeletes(n) PROVE CopiesFaithful'
  <2>1. [ls[n] EXCEPT !.live = FALSE, !.hosts = {}, !.status = NoStatus] \in LazySidecar
    BY DEF TypeOK, LsTypeOK, LazySidecar, Status, NoStatus
  <2> QED BY <1>0, <1>3, <2>1 DEF UserDeletes
<1>4. ASSUME NEW n \in LazySidecars, SidecarTampered(n) PROVE CopiesFaithful'
  BY <1>4, UntouchedFaithful DEF SidecarTampered
<1>5. ASSUME NEW e \in ServiceEntries, NEW hosts \in SUBSET SeHosts, ServiceEntryWritten(e, hosts)
      PROVE  CopiesFaithful'
  BY <1>5, UntouchedFaithful DEF ServiceEntryWritten
<1>6. ASSUME NEW r \in Requests, NEW h \in SvcHosts, Report(r, h) PROVE CopiesFaithful'
  <2> USE <1>6 DEF Report
  <2> DEFINE list == [n \in LazySidecars |->
                        IF n \in Matched[r] THEN ListAllCsmLazySidecar[n] ELSE NoLs]
  <2>1. \A n \in LazySidecars : list[n] = lsCache[n] \/ list[n] = NoLs
    BY ListType DEF TypeOK
  <2>2. rq'[r].list = list /\ \A q \in Requests \ {r} : rq'[q] = rq[q]
    BY DEF TypeOK, RequestTypeOK
  <2> HIDE DEF list
  <2>3. \A n \in LazySidecars : Faithful(list[n], ls[n])
    BY <2>1, EmptyFaithful DEF CopiesFaithful, InformerFaithful, TypeOK, LsTypeOK
  <2>4. RequestsFaithful'
    BY <2>2, <2>3 DEF CopiesFaithful, RequestsFaithful
  <2> QED BY <2>4 DEF CopiesFaithful, InformerFaithful, WorkerFaithful, HandlerFaithful
<1>7. ASSUME ClockTicks PROVE CopiesFaithful'
  BY <1>7, UntouchedFaithful DEF ClockTicks
<1>8. ASSUME Restart PROVE CopiesFaithful'
  <2> USE <1>8 DEF Restart
  <2>1. ASSUME NEW n \in LazySidecars PROVE Faithful(NoLs, ls[n]) /\ Faithful(ls[n], ls[n])
    <3>1. ls[n] \in LazySidecar /\ ls[n].rv \in Nat
      BY ObjectTypes DEF TypeOK, LsTypeOK
    <3> QED BY <3>1, EmptyFaithful DEF Faithful
  <2>2. InformerFaithful'
    BY <2>1 DEF InformerFaithful
  <2>3. WorkerFaithful' /\ HandlerFaithful' /\ RequestsFaithful'
    BY <2>1, EmptyTypes DEF WorkerFaithful, HandlerFaithful, RequestsFaithful,
                            WorkerIdle, HandlerIdle, RequestIdle
  <2> QED BY <2>2, <2>3 DEF CopiesFaithful
<1> QED BY <1>1, <1>2, <1>3, <1>4, <1>5, <1>6, <1>7, <1>8 DEF Environment

\* No copy of a LazySidecar is ever mistaken for another version: a copy with
\* the stored resourceVersion has the stored hosts, in every interleaving of
\* the worker, the handler, the reports, the users and restarts.
THEOREM CopiesAlwaysFaithful == Spec => []CopiesFaithful
<1>1. Init => CopiesFaithful
  <2> SUFFICES ASSUME Init PROVE CopiesFaithful
    OBVIOUS
  <2>1. \A n \in LazySidecars : Faithful(NoLs, NoLs)
    BY EmptyFaithful, EmptyTypes
  <2> QED BY <2>1, EmptyTypes DEF Init, CopiesFaithful, InformerFaithful, WorkerFaithful,
             HandlerFaithful, RequestsFaithful, WorkerIdle, HandlerIdle, RequestIdle
<1>2. TypeOK /\ CopiesFaithful /\ [Next]_vars => CopiesFaithful'
  <2> SUFFICES ASSUME TypeOK, CopiesFaithful, [Next]_vars PROVE CopiesFaithful'
    OBVIOUS
  <2>1. CASE UNCHANGED vars
    BY <2>1, UntouchedFaithful DEF vars
  <2> QED BY <2>1, EnvironmentFaithful, ClusterFaithful, WorkerFaithfulStep,
             HandlerFaithfulStep, HttpFaithfulStep DEF Next
<1> QED BY <1>1, <1>2, TypeCorrect, PTL DEF Spec

-----------------------------------------------------------------------------
(***************************************************************************)
(* What a step may do to the stored host lists.                            *)
(***************************************************************************)

\* The step gives n the hosts set and leaves the other lists alone.
OnlyHostsOf(n, set) ==
  \A m \in LazySidecars : ls'[m].hosts = IF m = n THEN set ELSE ls[m].hosts

NoUser == spent'["user"] = spent["user"]

\* A user writes, a reported host is learned, hosts of ServiceEntries are
\* imported, or those the handler is retracting are removed.
HostStep ==
  \/ NoUser /\ \A m \in LazySidecars : ls'[m].hosts = ls[m].hosts
  \/ \E n \in LazySidecars :
       \/ /\ spent'["user"] = spent["user"] + 1
          /\ \E set \in SUBSET Hosts : OnlyHostsOf(n, set)
       \/ NoUser /\ \E h \in SvcHosts : OnlyHostsOf(n, ls[n].hosts \cup {h})
       \/ NoUser /\ \E set \in SUBSET SeHosts : OnlyHostsOf(n, ls[n].hosts \cup set)
       \/ NoUser /\ OnlyHostsOf(n, ls[n].hosts \ hd.old)

\* A stored LazySidecar has the hosts it was stored with.
LEMMA StoredHosts ==
  ASSUME TypeOK, NEW n \in LazySidecars, NEW new \in LazySidecar, StoreLs(n, new)
  PROVE  OnlyHostsOf(n, new.hosts)
<1>1. ls'[n].hosts = new.hosts
  <2>1. CASE ls' = ls /\ new = ls[n]
    BY <2>1
  <2>2. CASE ls'[n] = [new EXCEPT !.rv = ls[n].rv + 1]
    BY <2>2, ObjectFields
  <2> QED BY <2>1, <2>2, StoreLsEffect DEF TypeOK
<1>2. \A m \in LazySidecars \ {n} : ls'[m] = ls[m]
  BY StoreLsEffect DEF TypeOK
<1> QED BY <1>1, <1>2 DEF OnlyHostsOf

\* An update from a faithful copy is stored over the hosts the copy has.
LEMMA UpdateHosts ==
  ASSUME TypeOK, NEW n \in LazySidecars, NEW copy \in LazySidecar, copy.live,
         Faithful(copy, ls[n]), NEW set \in SUBSET Hosts,
         UpdateLs(n, copy, [ls[n] EXCEPT !.hosts = set])
  PROVE  /\ NoUser
         /\ \/ \A m \in LazySidecars : ls'[m].hosts = ls[m].hosts
            \/ OnlyHostsOf(n, set) /\ copy.hosts = ls[n].hosts
<1> DEFINE new == [ls[n] EXCEPT !.hosts = set]
<1>1. new \in LazySidecar /\ new.hosts = set
  BY ObjectTypes, ObjectFields DEF TypeOK, LsTypeOK
<1>2. UpdateLs(n, copy, new)
  OBVIOUS
<1> HIDE DEF new
<1>3. NoUser /\ (UNCHANGED lsVars \/ (Accepts(ls[n], copy) /\ StoreLs(n, new)))
  BY <1>1, <1>2, UpdateLsEffect DEF TypeOK, NoUser
<1>4. CASE UNCHANGED lsVars
  BY <1>3, <1>4 DEF lsVars
<1>5. CASE Accepts(ls[n], copy) /\ StoreLs(n, new)
  <2>1. copy.hosts = ls[n].hosts
    BY <1>5 DEF Accepts, Faithful
  <2>2. OnlyHostsOf(n, set)
    BY <1>1, <1>5, StoredHosts
  <2> QED BY <1>3, <2>1, <2>2
<1> QED BY <1>3, <1>4, <1>5

\* What a user stores is what the list becomes.
LEMMA StoreHosts ==
  ASSUME TypeOK, NEW n \in LazySidecars, NEW new \in LazySidecar, StoreLs(n, new), Spend("user")
  PROVE  HostStep
<1>1. spent'["user"] = spent["user"] + 1
  BY SpendType DEF TypeOK
<1> QED BY <1>1, StoredHosts, ObjectTypes DEF HostStep

\* Every step is a step on the host lists of one of the five kinds.
LEMMA EveryHostStep ==
  ASSUME TypeOK, CopiesFaithful, Next
  PROVE  HostStep
<1> USE DEF lsVars
<1>0. ASSUME ls' = ls, NoUser PROVE HostStep
  BY <1>0 DEF HostStep
<1>1. CASE Cluster
  <2>1. ls' = ls /\ NoUser
    BY <1>1, SpendType DEF Cluster, GarbageCollect, LazySidecarEvent, SidecarEvent,
                           ServiceEntryEvent, NoUser, TypeOK
  <2> QED BY <1>0, <2>1
<1>2. CASE Worker
  <2>1. ASSUME \/ \E n \in LazySidecars : Reconcile(n)
               \/ listServiceEntries \/ RewriteCsmLazySidecarStatus
        PROVE  HostStep
    BY <1>0, <2>1 DEF Reconcile, listServiceEntries, RewriteCsmLazySidecarStatus, NoUser
  <2>2. ASSUME ReconcileSidecar \/ createSidecar \/ updateSidecar PROVE HostStep
    <3>1. ls' = ls
      BY <2>2 DEF ReconcileSidecar, createSidecar, updateSidecar
    <3>2. NoUser
      BY <2>2, SpendType DEF ReconcileSidecar, createSidecar, updateSidecar, CreateSc, UpdateSc,
                             TypeOK, NoUser
    <3> QED BY <1>0, <3>1, <3>2
  <2>3. ASSUME RewriteSeHostsToCsmLazySidecar PROVE HostStep
    <3> USE <2>3 DEF RewriteSeHostsToCsmLazySidecar
    <3>1. /\ wk.n \in LazySidecars /\ wk.inst \in LazySidecar
          /\ wk.seHosts \in SUBSET SeHosts
      BY DEF TypeOK, WorkerTypeOK
    <3>2. wk.inst.live /\ Faithful(wk.inst, ls[wk.n])
      BY DEF CopiesFaithful, WorkerFaithful
    <3> DEFINE added == GetNewHosts(wk.inst.hosts, wk.seHosts)
               set == wk.inst.hosts \cup added
    <3>3. added \in SUBSET SeHosts /\ set \in SUBSET Hosts
      BY <3>1, ObjectTypes DEF GetNewHosts, Hosts
    <3>4. CASE UNCHANGED <<lsVars, spent>>
      BY <1>0, <3>4 DEF NoUser
    <3>5. CASE UpdateLs(wk.n, wk.inst, [ls[wk.n] EXCEPT !.hosts = set])
      <4> HIDE DEF added
      <4>1. NoUser /\ \/ \A m \in LazySidecars : ls'[m].hosts = ls[m].hosts
                      \/ OnlyHostsOf(wk.n, set) /\ wk.inst.hosts = ls[wk.n].hosts
        BY <3>1, <3>2, <3>3, <3>5, UpdateHosts
      <4> QED BY <3>1, <3>3, <4>1 DEF HostStep
    <3> QED BY <3>4, <3>5
  <2>4. ASSUME UpdateStatus PROVE HostStep
    <3> USE <2>4 DEF UpdateStatus
    <3>1. wk.n \in LazySidecars /\ wk.inst \in LazySidecar /\ wk.sc \in Sidecar
      BY DEF TypeOK, WorkerTypeOK
    <3> DEFINE st == [succeed |-> TRUE, upstream |-> wk.sc.hosts, ts |-> spent["tick"]]
               new == [ls[wk.n] EXCEPT !.status = st]
    <3>2. st \in Status
      BY <3>1, ObjectTypes DEF Status, TypeOK
    <3> HIDE DEF st
    <3>3. new \in LazySidecar /\ new.hosts = ls[wk.n].hosts
      BY <3>1, <3>2, ObjectTypes, ObjectFields DEF TypeOK, LsTypeOK
    <3>4. UpdateLs(wk.n, wk.inst, new)
      BY DEF st
    <3> HIDE DEF new
    <3>5. NoUser /\ (UNCHANGED lsVars \/ StoreLs(wk.n, new))
      BY <3>1, <3>3, <3>4, UpdateLsEffect DEF TypeOK, NoUser
    <3>6. CASE StoreLs(wk.n, new)
      <4>1. OnlyHostsOf(wk.n, ls[wk.n].hosts)
        BY <3>1, <3>3, <3>6, StoredHosts
      <4> QED BY <3>5, <4>1 DEF HostStep, OnlyHostsOf
    <3> QED BY <1>0, <3>5, <3>6
  <2> QED BY <1>2, <2>1, <2>2, <2>3, <2>4 DEF Worker
<1>3. CASE Handler
  <2>1. ASSUME HandleServiceEntry \/ RemoveHostsDone \/ AddHostsDone PROVE HostStep
    BY <1>0, <2>1 DEF HandleServiceEntry, RemoveHostsDone, AddHostsDone, NoUser
  <2>2. ASSUME getDerivedSidecar \/ RemoveDeriveSidecarHosts PROVE HostStep
    <3>1. ls' = ls /\ NoUser
      BY <2>2, SpendType DEF getDerivedSidecar, RemoveDeriveSidecarHosts, UpdateSc, TypeOK, NoUser
    <3> QED BY <1>0, <3>1
  <2>3. ASSUME NEW n \in LazySidecars, ReconcileCsmLazySidecarRemoveHosts(n) PROVE HostStep
    <3> USE <2>3 DEF ReconcileCsmLazySidecarRemoveHosts
    <3>1. hd.list[n] \in LazySidecar /\ hd.list[n].live
      BY DEF TypeOK, HandlerTypeOK, Remaining
    <3>2. Faithful(hd.list[n], ls[n])
      BY DEF CopiesFaithful, HandlerFaithful
    <3>3. hd.list[n].hosts \ hd.old \in SUBSET Hosts
      BY <3>1, ObjectTypes
    <3>4. NoUser /\ \/ \A m \in LazySidecars : ls'[m].hosts = ls[m].hosts
                    \/ /\ OnlyHostsOf(n, hd.list[n].hosts \ hd.old)
                       /\ hd.list[n].hosts = ls[n].hosts
      BY <3>1, <3>2, <3>3, UpdateHosts
    <3> QED BY <3>4 DEF HostStep
  <2>4. ASSUME NEW n \in LazySidecars, ReconcileCsmLazySidecarAddHosts(n) PROVE HostStep
    <3> USE <2>4 DEF ReconcileCsmLazySidecarAddHosts
    <3>1. hd.list[n] \in LazySidecar /\ hd.list[n].live /\ hd.new \in SUBSET SeHosts
      BY DEF TypeOK, HandlerTypeOK, Remaining
    <3>2. Faithful(hd.list[n], ls[n])
      BY DEF CopiesFaithful, HandlerFaithful
    <3> DEFINE added == GetNewHosts(hd.list[n].hosts, hd.new)
               set == hd.list[n].hosts \cup added
    <3>3. added \in SUBSET SeHosts /\ set \in SUBSET Hosts
      BY <3>1, ObjectTypes DEF GetNewHosts, Hosts
    <3>4. CASE UNCHANGED <<lsVars, spent>>
      BY <1>0, <3>4 DEF NoUser
    <3>5. CASE UpdateLs(n, hd.list[n], [ls[n] EXCEPT !.hosts = set])
      <4> HIDE DEF added
      <4>1. NoUser /\ \/ \A m \in LazySidecars : ls'[m].hosts = ls[m].hosts
                      \/ OnlyHostsOf(n, set) /\ hd.list[n].hosts = ls[n].hosts
        BY <3>1, <3>2, <3>3, <3>5, UpdateHosts
      <4> QED BY <3>3, <4>1 DEF HostStep
    <3> QED BY <3>4, <3>5
  <2> QED BY <1>3, <2>1, <2>2, <2>3, <2>4 DEF Handler
<1>4. ASSUME NEW r \in Requests, Http(r) PROVE HostStep
  <2> PICK n \in LazySidecars : syncLazySidecar(r, n)
    BY <1>4 DEF Http
  <2> USE DEF syncLazySidecar
  <2> DEFINE copy == rq[r].list[n]
             set == copy.hosts \cup rq[r].hosts
  <2>1. copy \in LazySidecar /\ copy.live /\ rq[r].hosts \in SUBSET SvcHosts
    BY DEF TypeOK, RequestTypeOK
  <2>2. PICK h \in SvcHosts : rq[r].hosts = {h}
    BY <2>1 DEF TypeOK, RequestTypeOK
  <2>3. Faithful(copy, ls[n])
    BY DEF CopiesFaithful, RequestsFaithful
  <2>4. set \in SUBSET Hosts
    BY <2>1, ObjectTypes DEF Hosts
  <2>5. CASE UNCHANGED <<lsVars, spent>>
    BY <1>0, <2>5 DEF NoUser
  <2>6. CASE UpdateLs(n, copy, [ls[n] EXCEPT !.hosts = set])
    <3> HIDE DEF copy
    <3>1. NoUser /\ \/ \A m \in LazySidecars : ls'[m].hosts = ls[m].hosts
                    \/ OnlyHostsOf(n, set) /\ copy.hosts = ls[n].hosts
      BY <2>1, <2>3, <2>4, <2>6, UpdateHosts
    <3> QED BY <2>2, <3>1 DEF HostStep
  <2> QED BY <2>5, <2>6
<1>5. CASE Environment
  <2>1. ASSUME NEW n \in LazySidecars, NEW hosts \in UserHosts, UserCreates(n, hosts)
        PROVE  HostStep
    <3> DEFINE new == [live |-> TRUE, rv |-> ls[n].rv, uid |-> ls[n].rv + 1,
                       hosts |-> hosts, status |-> NoStatus]
    <3>1. ls[n].rv \in Nat
      BY ObjectTypes DEF TypeOK, LsTypeOK
    <3>2. new \in LazySidecar
      BY <3>1, ControllerAssumption DEF LazySidecar, Status, NoStatus
    <3>3. StoreLs(n, new) /\ Spend("user")
      BY <2>1 DEF UserCreates
    <3> HIDE DEF new
    <3> QED BY <3>2, <3>3, StoreHosts
  <2>2. ASSUME NEW n \in LazySidecars, NEW hosts \in UserHosts, UserEdits(n, hosts)
        PROVE  HostStep
    <3>1. [ls[n] EXCEPT !.hosts = hosts] \in LazySidecar
      BY ControllerAssumption, ObjectTypes DEF TypeOK, LsTypeOK
    <3> QED BY <2>2, <3>1, StoreHosts DEF UserEdits
  <2>3. ASSUME NEW n \in LazySidecars, UserDeletes(n) PROVE HostStep
    <3>1. [ls[n] EXCEPT !.live = FALSE, !.hosts = {}, !.status = NoStatus] \in LazySidecar
      BY DEF TypeOK, LsTypeOK, LazySidecar, Status, NoStatus
    <3> QED BY <2>3, <3>1, StoreHosts DEF UserDeletes
  <2>4. ASSUME NEW n \in LazySidecars, SidecarTampered(n) PROVE HostStep
    <3>1. spent'["user"] = spent["user"] + 1 /\ ls' = ls
      BY <2>4, SpendType DEF SidecarTampered, TypeOK
    <3>2. OnlyHostsOf(n, ls[n].hosts) /\ ls[n].hosts \in SUBSET Hosts
      BY <3>1, ObjectTypes DEF OnlyHostsOf, TypeOK, LsTypeOK
    <3> QED BY <3>1, <3>2 DEF HostStep
  <2>5. ASSUME \/ \E e \in ServiceEntries, hosts \in SUBSET SeHosts : ServiceEntryWritten(e, hosts)
               \/ \E r \in Requests, h \in SvcHosts : Report(r, h)
               \/ ClockTicks \/ Restart
        PROVE  HostStep
    <3>1. ls' = ls /\ \E k \in EnvKinds \ {"user"} : Spend(k)
      BY <2>5 DEF ServiceEntryWritten, Report, ClockTicks, Restart
    <3>2. NoUser
      BY <3>1, SpendType DEF NoUser, TypeOK
    <3> QED BY <1>0, <3>1, <3>2
  <2> QED BY <1>5, <2>1, <2>2, <2>3, <2>4, <2>5 DEF Environment
<1> QED BY <1>1, <1>2, <1>3, <1>4, <1>5 DEF Next

\* No write of the controller drops a host that another actor added since the
\* copy it writes back was read: a host leaves a stored list only by a user's
\* write or by the handler's retraction of that host.
THEOREM HostsNeverLost == Spec => NoHostLost
<1> DEFINE Kept == \A n \in LazySidecars :
                     \/ spent'["user"] # spent["user"]
                     \/ ls[n].hosts \ ls'[n].hosts \subseteq hd.old
<1>1. TypeOK /\ CopiesFaithful /\ [Next]_vars => [Kept]_vars
  <2> SUFFICES ASSUME TypeOK, CopiesFaithful, Next PROVE Kept
    OBVIOUS
  <2>1. HostStep
    BY EveryHostStep
  <2>2. spent["user"] \in Nat
    BY DEF TypeOK
  <2>3. CASE NoUser
    <3>1. spent'["user"] # spent["user"] + 1
      BY <2>2, <2>3 DEF NoUser
    <3>2. ASSUME NEW n \in LazySidecars, OnlyHostsOf(n, ls[n].hosts \ hd.old) PROVE Kept
      BY <3>2 DEF OnlyHostsOf
    <3>3. ASSUME NEW n \in LazySidecars, NEW set, OnlyHostsOf(n, ls[n].hosts \cup set) PROVE Kept
      BY <3>3 DEF OnlyHostsOf
    <3>4. ASSUME \A m \in LazySidecars : ls'[m].hosts = ls[m].hosts PROVE Kept
      BY <3>4
    <3> HIDE DEF Kept
    <3> QED BY <2>1, <3>1, <3>2, <3>3, <3>4 DEF HostStep
  <2>4. CASE ~NoUser
    BY <2>4 DEF NoUser
  <2> QED BY <2>3, <2>4
<1>2. Spec => [][Kept]_vars
  BY <1>1, TypeCorrect, CopiesAlwaysFaithful, PTL DEF Spec
<1> QED BY <1>2 DEF NoHostLost

\* The host lists the API server stores implement lists updated atomically
\* (module EgressHosts): edited, taught a reported host, given or deprived of
\* ServiceEntry hosts, and nothing else.
THEOREM ListsAreAtomic == Spec => AtomicLists
<1> DEFINE Lists == [n \in LazySidecars |-> ls[n].hosts]
<1>1. Init => Promise!Init
  BY EmptyTypes DEF Init, Promise!Init, NoLs
<1>2. TypeOK /\ CopiesFaithful /\ [Next]_vars => [Promise!Next]_(Promise!vars)
  <2> SUFFICES ASSUME TypeOK, CopiesFaithful, [Next]_vars
               PROVE  Promise!Next \/ UNCHANGED <<Lists, spent["user"]>>
    BY DEF Promise!vars
  <2>1. CASE UNCHANGED vars
    BY <2>1 DEF vars, lsVars
  <2>2. CASE Next
    <3>1. ASSUME NEW n \in LazySidecars, NEW set, OnlyHostsOf(n, set)
          PROVE  Lists' = [Lists EXCEPT ![n] = set]
      BY <3>1 DEF OnlyHostsOf
    <3>2. HostStep
      BY <2>2, EveryHostStep
    <3>3. ASSUME NoUser, \A m \in LazySidecars : ls'[m].hosts = ls[m].hosts
          PROVE  UNCHANGED <<Lists, spent["user"]>>
      BY <3>3 DEF NoUser
    <3>4. ASSUME NEW n \in LazySidecars, spent'["user"] = spent["user"] + 1,
                 NEW set \in SUBSET Hosts, OnlyHostsOf(n, set)
          PROVE  Promise!Next
      <4>1. Promise!Edit(n)
        BY <3>1, <3>4 DEF Promise!Edit, Promise!Write, Hosts
      <4> QED BY <4>1 DEF Promise!Next
    <3>5. ASSUME NEW n \in LazySidecars, NoUser, NEW h \in SvcHosts,
                 OnlyHostsOf(n, ls[n].hosts \cup {h})
          PROVE  Promise!Next
      <4>1. Promise!Learn(n)
        BY <3>1, <3>5 DEF Promise!Learn, Promise!Write, NoUser
      <4> QED BY <4>1 DEF Promise!Next
    <3>6. ASSUME NEW n \in LazySidecars, NoUser, NEW set \in SUBSET SeHosts,
                 OnlyHostsOf(n, ls[n].hosts \cup set)
          PROVE  Promise!Next
      <4>1. Promise!Import(n)
        BY <3>1, <3>6 DEF Promise!Import, Promise!Write, NoUser
      <4> QED BY <4>1 DEF Promise!Next
    <3>7. ASSUME NEW n \in LazySidecars, NoUser, OnlyHostsOf(n, ls[n].hosts \ hd.old)
          PROVE  Promise!Next
      <4>1. hd.old \in SUBSET SeHosts
        BY DEF TypeOK, HandlerTypeOK
      <4>2. Promise!Retract(n)
        BY <3>1, <3>7, <4>1 DEF Promise!Retract, Promise!Write, NoUser
      <4> QED BY <4>2 DEF Promise!Next
    <3> HIDE DEF Lists
    <3> QED BY <3>2, <3>3, <3>4, <3>5, <3>6, <3>7 DEF HostStep
  <2> QED BY <2>1, <2>2
<1> QED BY <1>1, <1>2, TypeCorrect, CopiesAlwaysFaithful, PTL DEF Spec, AtomicLists, Promise!Spec

=============================================================================
