----------------------- MODULE LazySidecarSyncProofs -----------------------
(***************************************************************************)
(* Proofs about LazySidecarController: no wake-up is lost.  What has to be *)
(* right once nothing is left to do, for every set of LazySidecars,        *)
(* ServiceEntries, reports and hosts and every budget, as long as no call  *)
(* has failed for another reason than a conflict.                          *)
(***************************************************************************)
EXTENDS LazySidecarControllerProofs

USE DEF EnvKinds

\* No call has failed for another reason than its caller's.
NoFault == spent["fault"] = 0

-----------------------------------------------------------------------------
(***************************************************************************)
(* Watch streams.                                                          *)
(***************************************************************************)
\* An informer that has received all of a watch stream holds the stored object.
Follows(watch, cache, stored) ==
  IF watch = <<>> THEN cache = stored ELSE watch[Len(watch)] = stored

\* A new version at the end of a stream is what the stream leads to.
LEMMA FollowsAppend ==
  ASSUME NEW T, NEW w \in Seq(T), NEW v \in T, NEW c
  PROVE  Append(w, v) # <<>> /\ Follows(Append(w, v), c, v)
<1>1. Len(Append(w, v)) = Len(w) + 1 /\ Append(w, v)[Len(w) + 1] = v
  BY AppendProperties
<1>2. Append(w, v) # <<>>
  BY AppendProperties
<1> QED BY <1>1, <1>2 DEF Follows

\* Receiving the first version of a stream leaves the rest to follow.
LEMMA FollowsTail ==
  ASSUME NEW T, NEW w \in Seq(T), w # <<>>, NEW c, NEW s, Follows(w, c, s)
  PROVE  Follows(Tail(w), Head(w), s)
<1>1. Len(w) \in Nat /\ Len(w) >= 1 /\ Head(w) = w[1]
  OBVIOUS
<1> DEFINE t == Tail(w)
<1>2. /\ t \in Seq(T) /\ Len(t) = Len(w) - 1
      /\ \A i \in 1..Len(t) : t[i] = w[i + 1]
  BY HeadTailProperties
<1>3. t # <<>> <=> Len(t) # 0
  <2> HIDE DEF t
  <2> QED BY <1>2, EmptySeq
<1> HIDE DEF t
<1>4. CASE Len(w) = 1
  <2>1. t = <<>>
    BY <1>2, <1>3, <1>4
  <2>2. Head(w) = s
    BY <1>1, <1>4 DEF Follows
  <2> QED BY <2>1, <2>2 DEF Follows
<1>5. CASE Len(w) # 1
  <2>1. t[Len(t)] = w[Len(w)]
    BY <1>1, <1>2, <1>5
  <2> QED BY <1>1, <1>2, <1>3, <1>5, <2>1 DEF Follows
<1> QED BY <1>4, <1>5 DEF t

\* The informers' copies of the LazySidecars and Sidecars.
CachesFollow ==
  \A n \in LazySidecars :
    /\ Follows(lsWatch[n], lsCache[n], ls[n])
    /\ Follows(scWatch[n], scCache[n], sc[n])

-----------------------------------------------------------------------------
(***************************************************************************)
(* What a step does to the objects and to the wake-ups.                    *)
(***************************************************************************)
\* Every object is either left alone or its new version announced.
LsWritten ==
  \A n \in LazySidecars :
    \/ ls'[n] = ls[n] /\ lsWatch'[n] = lsWatch[n]
    \/ lsWatch'[n] # <<>> /\ lsWatch'[n][Len(lsWatch'[n])] = ls'[n]

ScWritten ==
  \A n \in LazySidecars :
    \/ sc'[n] = sc[n] /\ scWatch'[n] = scWatch[n]
    \/ scWatch'[n] # <<>> /\ scWatch'[n][Len(scWatch'[n])] = sc'[n]

\* Nothing is in flight or queued for n.
Settled(n) == lsWatch[n] = <<>> /\ scWatch[n] = <<>> /\ n \notin queue

\* A write is announced or changes nothing.
LEMMA StoreLsWritten ==
  ASSUME LsTypeOK, LsTypeOK', NEW n \in LazySidecars, NEW new, StoreLs(n, new)
  PROVE  LsWritten
<1>1. CASE new = ls[n]
  BY <1>1 DEF StoreLs, lsVars, LsWritten
<1>2. CASE new # ls[n]
  <2> DEFINE v == [new EXCEPT !.rv = ls[n].rv + 1]
  <2>1. ls' = [ls EXCEPT ![n] = v] /\ lsWatch' = [lsWatch EXCEPT ![n] = Append(@, v)]
    BY <1>2 DEF StoreLs
  <2> HIDE DEF v
  <2>2. ls'[n] = v /\ lsWatch'[n] = Append(lsWatch[n], v) /\ v \in LazySidecar
    BY <2>1 DEF LsTypeOK
  <2>3. lsWatch'[n] # <<>> /\ lsWatch'[n][Len(lsWatch'[n])] = ls'[n]
    BY <2>2, FollowsAppend DEF LsTypeOK, Follows
  <2>4. \A m \in LazySidecars \ {n} : ls'[m] = ls[m] /\ lsWatch'[m] = lsWatch[m]
    BY <2>1 DEF LsTypeOK
  <2> QED BY <2>3, <2>4 DEF LsWritten
<1> QED BY <1>1, <1>2

LEMMA StoreScWritten ==
  ASSUME ScTypeOK, ScTypeOK', NEW n \in LazySidecars, NEW new, StoreSc(n, new)
  PROVE  ScWritten
<1>1. CASE new = sc[n]
  BY <1>1 DEF StoreSc, scVars, ScWritten
<1>2. CASE new # sc[n]
  <2> DEFINE v == [new EXCEPT !.rv = sc[n].rv + 1]
  <2>1. sc' = [sc EXCEPT ![n] = v] /\ scWatch' = [scWatch EXCEPT ![n] = Append(@, v)]
    BY <1>2 DEF StoreSc
  <2> HIDE DEF v
  <2>2. sc'[n] = v /\ scWatch'[n] = Append(scWatch[n], v) /\ v \in Sidecar
    BY <2>1 DEF ScTypeOK
  <2>3. scWatch'[n] # <<>> /\ scWatch'[n][Len(scWatch'[n])] = sc'[n]
    BY <2>2, FollowsAppend DEF ScTypeOK, Follows
  <2>4. \A m \in LazySidecars \ {n} : sc'[m] = sc[m] /\ scWatch'[m] = scWatch[m]
    BY <2>1 DEF ScTypeOK
  <2> QED BY <2>3, <2>4 DEF ScWritten
<1> QED BY <1>1, <1>2

\* A call fails without a reason only at the expense of the budget of faults,
\* which is never given back.
Spending == UNCHANGED spent \/ \E k \in EnvKinds : Spend(k)

LEMMA SpendingKeepsFaults ==
  ASSUME TypeOK, Spending, NoFault'
  PROVE  NoFault
<1>1. CASE UNCHANGED spent
  BY <1>1 DEF NoFault
<1>2. ASSUME NEW k \in EnvKinds, Spend(k) PROVE NoFault
  BY <1>2 DEF NoFault, Spend, TypeOK
<1> QED BY <1>1, <1>2 DEF Spending

\* An update is announced when it is stored, whatever becomes of the call.
LEMMA UpdateLsWritten ==
  ASSUME LsTypeOK, LsTypeOK', NEW n \in LazySidecars, NEW copy, NEW new,
         UpdateLs(n, copy, new)
  PROVE  LsWritten /\ Spending
<1>1. CASE UNCHANGED lsVars
  BY <1>1 DEF UpdateLs, lsVars, LsWritten, Spending
<1>2. CASE StoreLs(n, new)
  BY <1>2, StoreLsWritten DEF UpdateLs, Spending
<1> QED BY <1>1, <1>2 DEF UpdateLs

LEMMA UpdateScWritten ==
  ASSUME ScTypeOK, ScTypeOK', NEW n \in LazySidecars, NEW copy, NEW new,
         UpdateSc(n, copy, new) \/ CreateSc(n, new)
  PROVE  ScWritten /\ Spending
<1>1. CASE UNCHANGED scVars
  BY <1>1 DEF UpdateSc, CreateSc, scVars, ScWritten, Spending
<1>2. CASE StoreSc(n, new)
  BY <1>2, StoreScWritten DEF UpdateSc, CreateSc, Spending
<1> QED BY <1>1, <1>2 DEF UpdateSc, CreateSc

LEMMA UnchangedWritten ==
  /\ UNCHANGED lsVars => LsWritten
  /\ UNCHANGED scVars => ScWritten
BY DEF lsVars, scVars, LsWritten, ScWritten

\* Everything written is announced, no informer receives anything, and only a
\* Reconcile takes a name out of the queue.
Announced ==
  /\ LsWritten /\ ScWritten
  /\ UNCHANGED <<lsCache, scCache>>
  /\ queue' = queue \/ \E n \in LazySidecars : Reconcile(n)

Received == \E n \in LazySidecars : LazySidecarEvent(n) \/ SidecarEvent(n)

LEMMA ClusterAnnounces ==
  ASSUME TypeOK, TypeOK', Cluster
  PROVE  Spending /\ (Announced \/ Received)
<1> USE UnchangedWritten DEF TypeOK
<1>1. ASSUME NEW n \in LazySidecars, GarbageCollect(n) PROVE Spending /\ Announced
  BY <1>1, StoreScWritten DEF GarbageCollect, Spending, Announced
<1>2. ASSUME Received PROVE Spending
  BY <1>2 DEF Received, LazySidecarEvent, SidecarEvent, Spending
<1>3. ASSUME ServiceEntryEvent PROVE Spending /\ Announced
  BY <1>3 DEF ServiceEntryEvent, Spending, Announced
<1> QED BY <1>1, <1>2, <1>3 DEF Cluster, Received

LEMMA WorkerAnnounces ==
  ASSUME TypeOK, TypeOK', Worker
  PROVE  Spending /\ Announced
<1> USE UnchangedWritten DEF TypeOK
<1>0. wk.pc # "idle" => wk.n \in LazySidecars
  BY DEF WorkerTypeOK
<1>1. ASSUME NEW n \in LazySidecars, Reconcile(n) PROVE Spending /\ Announced
  <2>1. Announced
    BY <1>1 DEF Reconcile, Announced
  <2> QED BY <1>1, <2>1 DEF Reconcile, Spending
<1>2. ASSUME ReconcileSidecar PROVE Spending /\ Announced
  BY <1>2 DEF ReconcileSidecar, Spending, Announced
<1>3. ASSUME createSidecar PROVE Spending /\ Announced
  BY <1>0, <1>3, UpdateScWritten DEF createSidecar, Announced
<1>4. ASSUME updateSidecar PROVE Spending /\ Announced
  BY <1>0, <1>4, UpdateScWritten DEF updateSidecar, Announced
<1>5. ASSUME listServiceEntries PROVE Spending /\ Announced
  BY <1>5 DEF listServiceEntries, Spending, Announced
<1>6. ASSUME RewriteSeHostsToCsmLazySidecar PROVE Spending /\ Announced
  <2> USE <1>6 DEF RewriteSeHostsToCsmLazySidecar
  <2>1. CASE UNCHANGED <<lsVars, spent>>
    BY <2>1 DEF Spending, Announced
  <2>2. ASSUME NEW new, UpdateLs(wk.n, wk.inst, new) PROVE Spending /\ Announced
    BY <1>0, <2>2, UpdateLsWritten DEF Announced
  <2> QED BY <2>1, <2>2
<1>7. ASSUME RewriteCsmLazySidecarStatus PROVE Spending /\ Announced
  BY <1>7 DEF RewriteCsmLazySidecarStatus, Spending, Announced
<1>8. ASSUME UpdateStatus PROVE Spending /\ Announced
  BY <1>0, <1>8, UpdateLsWritten DEF UpdateStatus, Announced
<1> QED BY <1>1, <1>2, <1>3, <1>4, <1>5, <1>6, <1>7, <1>8 DEF Worker

LEMMA HandlerAnnounces ==
  ASSUME TypeOK, TypeOK', Handler
  PROVE  Spending /\ Announced
<1> USE UnchangedWritten DEF TypeOK
<1>1. ASSUME HandleServiceEntry PROVE Spending /\ Announced
  BY <1>1 DEF HandleServiceEntry, Spending, Announced
<1>2. ASSUME NEW n \in LazySidecars, ReconcileCsmLazySidecarRemoveHosts(n)
      PROVE  Spending /\ Announced
  BY <1>2, UpdateLsWritten DEF ReconcileCsmLazySidecarRemoveHosts, Announced
<1>3. ASSUME getDerivedSidecar PROVE Spending /\ Announced
  BY <1>3 DEF getDerivedSidecar, Spending, Announced
<1>4. ASSUME RemoveDeriveSidecarHosts PROVE Spending /\ Announced
  BY <1>4, UpdateScWritten DEF RemoveDeriveSidecarHosts, Announced, HandlerTypeOK
<1>5. ASSUME RemoveHostsDone PROVE Spending /\ Announced
  BY <1>5 DEF RemoveHostsDone, Spending, Announced
<1>6. ASSUME NEW n \in LazySidecars, ReconcileCsmLazySidecarAddHosts(n)
      PROVE  Spending /\ Announced
  <2> USE <1>6 DEF ReconcileCsmLazySidecarAddHosts
  <2>1. CASE UNCHANGED <<lsVars, spent>>
    BY <2>1 DEF Spending, Announced
  <2>2. ASSUME NEW new, UpdateLs(n, hd.list[n], new) PROVE Spending /\ Announced
    BY <2>2, UpdateLsWritten DEF Announced
  <2> QED BY <2>1, <2>2
<1>7. ASSUME AddHostsDone PROVE Spending /\ Announced
  BY <1>7 DEF AddHostsDone, Spending, Announced
<1> QED BY <1>1, <1>2, <1>3, <1>4, <1>5, <1>6, <1>7 DEF Handler

LEMMA HttpAnnounces ==
  ASSUME TypeOK, TypeOK', NEW r \in Requests, Http(r)
  PROVE  Spending /\ Announced
<1> USE UnchangedWritten DEF TypeOK
<1> PICK n \in LazySidecars : syncLazySidecar(r, n)
  BY DEF Http
<1> USE DEF syncLazySidecar
<1>1. CASE UNCHANGED <<lsVars, spent>>
  BY <1>1 DEF Spending, Announced
<1>2. ASSUME NEW copy, NEW new, UpdateLs(n, copy, new) PROVE Spending /\ Announced
  BY <1>2, UpdateLsWritten DEF Announced
<1> QED BY <1>1, <1>2

LEMMA EnvironmentAnnounces ==
  ASSUME TypeOK, TypeOK', Environment
  PROVE  Spending /\ (Announced \/ Restart)
<1> USE UnchangedWritten DEF TypeOK
<1>1. ASSUME NEW n \in LazySidecars, NEW hosts \in UserHosts,
             UserCreates(n, hosts) \/ UserEdits(n, hosts)
      PROVE  Spending /\ Announced
  BY <1>1, StoreLsWritten DEF UserCreates, UserEdits, Spending, Announced
<1>2. ASSUME NEW n \in LazySidecars, UserDeletes(n) PROVE Spending /\ Announced
  BY <1>2, StoreLsWritten DEF UserDeletes, Spending, Announced
<1>3. ASSUME NEW n \in LazySidecars, SidecarTampered(n) PROVE Spending /\ Announced
  BY <1>3, StoreScWritten DEF SidecarTampered, Spending, Announced
<1>4. ASSUME NEW e \in ServiceEntries, NEW hosts \in SUBSET SeHosts, ServiceEntryWritten(e, hosts)
      PROVE  Spending /\ Announced
  BY <1>4 DEF ServiceEntryWritten, Spending, Announced
<1>5. ASSUME NEW r \in Requests, NEW h \in SvcHosts, Report(r, h) PROVE Spending /\ Announced
  BY <1>5 DEF Report, Spending, Announced
<1>6. ASSUME ClockTicks PROVE Spending /\ Announced
  BY <1>6 DEF ClockTicks, Spending, Announced
<1>7. ASSUME Restart PROVE Spending
  BY <1>7 DEF Restart, Spending
<1> QED BY <1>1, <1>2, <1>3, <1>4, <1>5, <1>6, <1>7 DEF Environment

-----------------------------------------------------------------------------
(***************************************************************************)
(* When nothing is in flight or queued for n, nothing has happened to it.  *)
(***************************************************************************)
\* A step is a restart, receives a version, or announces what it writes; the
\* worker's registers are the worker's own.
LEMMA EveryStep ==
  ASSUME TypeOK, TypeOK', Next
  PROVE  /\ Spending
         /\ Announced \/ Received \/ Restart
         /\ Worker \/ Restart \/ wk' = wk
<1>1. Environment => Restart \/ wk' = wk
  BY DEF Environment, UserCreates, UserEdits, UserDeletes, SidecarTampered,
         ServiceEntryWritten, Report, ClockTicks
<1>2. Cluster => wk' = wk
  BY DEF Cluster, GarbageCollect, LazySidecarEvent, SidecarEvent, ServiceEntryEvent
<1>3. Handler => wk' = wk
  BY DEF Handler, HandleServiceEntry, ReconcileCsmLazySidecarRemoveHosts, getDerivedSidecar,
         RemoveDeriveSidecarHosts, RemoveHostsDone, ReconcileCsmLazySidecarAddHosts, AddHostsDone
<1>4. (\E r \in Requests : Http(r)) => wk' = wk
  BY DEF Http, syncLazySidecar
<1> QED BY <1>1, <1>2, <1>3, <1>4, EnvironmentAnnounces, ClusterAnnounces, WorkerAnnounces,
           HandlerAnnounces, HttpAnnounces DEF Next

\* The informers' copies follow the stored objects.
LEMMA CachesFollowStep ==
  ASSUME TypeOK, TypeOK', CachesFollow, Next
  PROVE  CachesFollow'
<1>1. CASE Announced
  BY <1>1 DEF Announced, LsWritten, ScWritten, CachesFollow, Follows
<1>2. ASSUME NEW m \in LazySidecars, LazySidecarEvent(m) PROVE CachesFollow'
  <2> USE <1>2 DEF LazySidecarEvent, scVars, TypeOK
  <2>1. Follows(Tail(lsWatch[m]), Head(lsWatch[m]), ls[m])
    BY FollowsTail DEF CachesFollow, LsTypeOK
  <2>2. /\ lsWatch'[m] = Tail(lsWatch[m]) /\ lsCache'[m] = Head(lsWatch[m])
        /\ \A n \in LazySidecars \ {m} : lsWatch'[n] = lsWatch[n] /\ lsCache'[n] = lsCache[n]
    BY DEF LsTypeOK
  <2> QED BY <2>1, <2>2 DEF CachesFollow
<1>3. ASSUME NEW m \in LazySidecars, SidecarEvent(m) PROVE CachesFollow'
  <2> USE <1>3 DEF SidecarEvent, lsVars, TypeOK
  <2>1. Follows(Tail(scWatch[m]), Head(scWatch[m]), sc[m])
    BY FollowsTail DEF CachesFollow, ScTypeOK
  <2>2. /\ scWatch'[m] = Tail(scWatch[m]) /\ scCache'[m] = Head(scWatch[m])
        /\ \A n \in LazySidecars \ {m} : scWatch'[n] = scWatch[n] /\ scCache'[n] = scCache[n]
    BY DEF ScTypeOK
  <2> QED BY <2>1, <2>2 DEF CachesFollow
<1>4. CASE Restart
  BY <1>4 DEF Restart, CachesFollow, Follows
<1> QED BY <1>1, <1>2, <1>3, <1>4, EveryStep DEF Received

\* If nothing is in flight or queued for n after a step of the same process,
\* the step left its objects alone, the caches had them, and n was not queued
\* before either, unless the step is its Reconcile.
LEMMA SettledStep ==
  ASSUME TypeOK, TypeOK', CachesFollow, Next, ~Restart, NEW n \in LazySidecars, Settled(n)'
  PROVE  /\ ls'[n] = ls[n] /\ sc'[n] = sc[n]
         /\ lsCache[n] = ls[n] /\ scCache[n] = sc[n]
         /\ Settled(n) \/ Reconcile(n)
<1> USE DEF Settled
<1>1. CASE Announced
  <2>1. /\ ls'[n] = ls[n] /\ lsWatch[n] = <<>>
        /\ sc'[n] = sc[n] /\ scWatch[n] = <<>>
    BY <1>1 DEF Announced, LsWritten, ScWritten
  <2>2. ASSUME NEW m \in LazySidecars, Reconcile(m) PROVE n \notin queue \/ Reconcile(n)
    BY <2>2 DEF Reconcile
  <2>3. n \notin queue \/ Reconcile(n)
    BY <1>1, <2>2 DEF Announced
  <2> QED BY <2>1, <2>3 DEF CachesFollow, Follows
<1>2. ASSUME NEW m \in LazySidecars, LazySidecarEvent(m) \/ SidecarEvent(m)
      PROVE  /\ ls'[n] = ls[n] /\ sc'[n] = sc[n]
             /\ lsWatch[n] = <<>> /\ scWatch[n] = <<>> /\ n \notin queue
  BY <1>2 DEF LazySidecarEvent, SidecarEvent, lsVars, scVars, TypeOK, LsTypeOK, ScTypeOK
<1> QED BY <1>1, <1>2, EveryStep DEF Received, CachesFollow, Follows

-----------------------------------------------------------------------------
(***************************************************************************)
(* The Sidecar and the status: TypeOK /\ CopiesFaithful /\ CachesFollow /\ *)
(* Reconciled is inductive.                                                *)
(***************************************************************************)
InSync(n) == sc[n].live /\ sc[n].hosts = SidecarHosts(n, ls[n].hosts)

\* What the worker knows about n in the middle of n's Reconcile is true, and
\* what it has behind it is done.
MidReconcile(n) ==
  /\ wk.inst = ls[n]
  /\ wk.pc = "createSidecar" => ~sc[n].live
  /\ wk.pc = "updateSidecar" => sc[n].live /\ wk.sc = sc[n]
  /\ wk.pc \in {"listSe", "rewriteHosts", "getStatus", "updateStatus"} => InSync(n)
  /\ wk.pc = "updateStatus" => wk.sc = sc[n]

StatusTrue(n) == ls[n].status.succeed /\ ls[n].status.upstream = sc[n].hosts

\* Unless a version is in flight or the name is queued, the worker is at n with
\* fresh copies or has left n with everything done.
Reconciled ==
  /\ wk.pc = "idle" => wk.n = NoName
  /\ NoFault => \A n \in LazySidecars :
       Settled(n) => /\ wk.n = n => MidReconcile(n)
                     /\ wk.n # n /\ ls[n].live => InSync(n) /\ StatusTrue(n)

\* A write that is not announced found the object as it should be.
LEMMA StoreLsUnannounced ==
  ASSUME LsTypeOK, LsTypeOK', NEW n \in LazySidecars, NEW new, StoreLs(n, new), lsWatch'[n] = <<>>
  PROVE  new = ls[n] /\ ls' = ls
<1>1. ASSUME new # ls[n] PROVE FALSE
  <2> DEFINE v == [new EXCEPT !.rv = ls[n].rv + 1]
  <2>1. ls' = [ls EXCEPT ![n] = v] /\ lsWatch' = [lsWatch EXCEPT ![n] = Append(@, v)]
    BY <1>1 DEF StoreLs
  <2> HIDE DEF v
  <2>2. lsWatch'[n] = Append(lsWatch[n], v) /\ v \in LazySidecar
    BY <2>1 DEF LsTypeOK
  <2>3. Append(lsWatch[n], v) # <<>>
    BY <2>2, FollowsAppend DEF LsTypeOK
  <2> QED BY <2>2, <2>3
<1> QED BY <1>1 DEF StoreLs, lsVars

LEMMA StoreScUnannounced ==
  ASSUME ScTypeOK, ScTypeOK', NEW n \in LazySidecars, NEW new, StoreSc(n, new), scWatch'[n] = <<>>
  PROVE  new = sc[n]
<1>1. ASSUME new # sc[n] PROVE FALSE
  <2> DEFINE v == [new EXCEPT !.rv = sc[n].rv + 1]
  <2>1. sc' = [sc EXCEPT ![n] = v] /\ scWatch' = [scWatch EXCEPT ![n] = Append(@, v)]
    BY <1>1 DEF StoreSc
  <2> HIDE DEF v
  <2>2. scWatch'[n] = Append(scWatch[n], v) /\ v \in Sidecar
    BY <2>1 DEF ScTypeOK
  <2>3. Append(scWatch[n], v) # <<>>
    BY <2>2, FollowsAppend DEF ScTypeOK
  <2> QED BY <2>2, <2>3
<1> QED BY <1>1

LEMMA NoFaultSpent ==
  ASSUME TypeOK, NoFault'
  PROVE  ~Spend("fault")
BY DEF NoFault, Spend, TypeOK

\* Every step of n's own Reconcile keeps it that way, and its last one leaves
\* the Sidecar and the status as they should be.
LEMMA WorkerReconciles ==
  ASSUME TypeOK, TypeOK', CopiesFaithful, CachesFollow, Reconciled, Worker, ~Restart,
         NoFault, NoFault', NEW n \in LazySidecars, Settled(n)', wk.n = n, wk.pc # "idle"
  PROVE  \/ wk'.n = n /\ MidReconcile(n)'
         \/ wk'.n = NoName /\ InSync(n)' /\ StatusTrue(n)'
<1>1. /\ ls'[n] = ls[n] /\ sc'[n] = sc[n] /\ scCache[n] = sc[n]
      /\ Settled(n)
  BY SettledStep DEF Next, Reconcile
<1>2. MidReconcile(n) /\ ls[n].live
  BY <1>1 DEF Reconciled, CopiesFaithful, WorkerFaithful, MidReconcile
<1>3. /\ wk \in [pc: WorkerPc, n: LazySidecars \cup {NoName}, inst: LazySidecar,
                 sc: Sidecar, seHosts: SUBSET SeHosts]
      /\ ls[n] \in LazySidecar /\ sc[n] \in Sidecar
  BY DEF TypeOK, WorkerTypeOK, LsTypeOK, ScTypeOK
<1>4. lsWatch'[n] = <<>> /\ scWatch'[n] = <<>>
  BY DEF Settled
<1>5. ~Spend("fault")
  BY NoFaultSpent
<1> USE <1>1, <1>2, <1>3
<1>6. InSync(n) => InSync(n)'
  BY DEF InSync, SidecarHosts
<1>7. ASSUME NEW m \in LazySidecars, Reconcile(m) PROVE FALSE
  BY <1>7 DEF Reconcile
<1>8. CASE ReconcileSidecar
  BY <1>5, <1>8 DEF ReconcileSidecar, MidReconcile
<1>9. CASE createSidecar
  <2> DEFINE new == [live |-> TRUE, rv |-> sc[n].rv, owner |-> wk.inst.uid,
                     hosts |-> SidecarHosts(n, wk.inst.hosts)]
  <2>1. StoreSc(n, new)
    BY <1>5, <1>9 DEF createSidecar, CreateSc, MidReconcile
  <2>2. new = sc[n]
    BY <1>4, <2>1, StoreScUnannounced DEF TypeOK
  <2> QED BY <1>9, <2>2 DEF createSidecar, MidReconcile
<1>10. CASE updateSidecar
  <2> DEFINE new == [sc[n] EXCEPT !.hosts = SidecarHosts(n, wk.inst.hosts)]
  <2>1. StoreSc(n, new)
    BY <1>5, <1>10 DEF updateSidecar, UpdateSc, Accepts, MidReconcile
  <2>2. new = sc[n]
    BY <1>4, <2>1, StoreScUnannounced DEF TypeOK
  <2>3. new.hosts = SidecarHosts(n, wk.inst.hosts)
    BY DEF Sidecar
  <2>4. InSync(n)
    BY <1>10, <2>2, <2>3 DEF updateSidecar, InSync, MidReconcile
  <2> QED BY <1>6, <1>10, <2>4 DEF updateSidecar, MidReconcile
<1>11. CASE listServiceEntries
  BY <1>6, <1>11 DEF listServiceEntries, MidReconcile
<1>12. CASE RewriteSeHostsToCsmLazySidecar
  BY <1>6, <1>12 DEF RewriteSeHostsToCsmLazySidecar, MidReconcile
<1>13. CASE RewriteCsmLazySidecarStatus
  BY <1>6, <1>13 DEF RewriteCsmLazySidecarStatus, MidReconcile, InSync
<1>14. CASE UpdateStatus
  <2> DEFINE st == [succeed |-> TRUE, upstream |-> wk.sc.hosts, ts |-> spent["tick"]]
             new == [ls[n] EXCEPT !.status = st]
  <2>1. StoreLs(n, new)
    BY <1>5, <1>14 DEF UpdateStatus, UpdateLs, Accepts, MidReconcile
  <2>2. new = ls[n]
    BY <1>4, <2>1, StoreLsUnannounced DEF TypeOK
  <2>3. new.status = st
    BY DEF LazySidecar
  <2>4. wk.sc = sc[n] /\ InSync(n)
    BY <1>14 DEF UpdateStatus, MidReconcile
  <2>5. st.succeed /\ st.upstream = wk.sc.hosts
    OBVIOUS
  <2>6. ls[n].status = st
    BY <2>2, <2>3
  <2> HIDE DEF st
  <2>7. StatusTrue(n)
    BY <2>4, <2>5, <2>6, Zenon DEF StatusTrue
  <2> QED BY <1>6, <1>14, <2>4, <2>7 DEF UpdateStatus, WorkerIdle, StatusTrue
<1> QED BY <1>7, <1>8, <1>9, <1>10, <1>11, <1>12, <1>13, <1>14 DEF Worker

\* What a step of the worker does to its program counter and its LazySidecar.
LEMMA WorkerMoves ==
  ASSUME TypeOK, Worker
  PROVE  /\ wk.pc # "idle" => wk'.n = wk.n \/ wk'.n = NoName
         /\ wk.pc = "idle" => \E m \in LazySidecars : Reconcile(m)
         /\ wk'.pc = "idle" => wk' = WorkerIdle \/ (wk.pc = "idle" /\ wk' = wk)
<1>1. wk \in [pc: WorkerPc, n: LazySidecars \cup {NoName}, inst: LazySidecar,
              sc: Sidecar, seHosts: SUBSET SeHosts]
  BY DEF TypeOK, WorkerTypeOK
<1>2. ASSUME NEW m \in LazySidecars, Reconcile(m)
      PROVE  wk.pc = "idle" /\ (wk' = wk \/ wk'.pc = "getSidecar")
  BY <1>1, <1>2 DEF Reconcile
<1>3. ASSUME Worker, ~\E m \in LazySidecars : Reconcile(m)
      PROVE  /\ wk.pc # "idle"
             /\ wk' = WorkerIdle \/ (wk'.n = wk.n /\ wk'.pc # "idle")
  BY <1>1, <1>3 DEF Worker, ReconcileSidecar, createSidecar, updateSidecar, listServiceEntries,
       RewriteSeHostsToCsmLazySidecar, RewriteCsmLazySidecarStatus, UpdateStatus
<1> QED BY <1>2, <1>3 DEF WorkerIdle

\* Once n's Reconcile is over, or has just been started from a settled cache,
\* or the step belongs to another actor, Reconciled holds for n as well.
LEMMA ReconciledStep ==
  ASSUME TypeOK, TypeOK', CopiesFaithful, CachesFollow, Reconciled, Next
  PROVE  Reconciled'
<1>1. wk'.pc = "idle" => wk'.n = NoName
  BY EveryStep, WorkerMoves DEF Reconciled, WorkerIdle, Restart
<1>2. ASSUME NEW n \in LazySidecars, NoFault', Settled(n)'
      PROVE  /\ wk'.n = n => MidReconcile(n)'
             /\ wk'.n # n /\ ls'[n].live => InSync(n)' /\ StatusTrue(n)'
  <2>0. NoFault
    BY <1>2, EveryStep, SpendingKeepsFaults
  <2>1. n # NoName
    BY ControllerAssumption
  <2>2. CASE Restart
    BY <1>2, <2>1, <2>2 DEF Restart, Settled, WorkerIdle
  <2>3. CASE ~Restart
    <3>1. /\ ls'[n] = ls[n] /\ sc'[n] = sc[n]
          /\ lsCache[n] = ls[n]
          /\ Settled(n) \/ Reconcile(n)
      BY <1>2, <2>3, SettledStep
    <3>2. (InSync(n) => InSync(n)') /\ (StatusTrue(n) => StatusTrue(n)')
      BY <3>1 DEF InSync, StatusTrue, SidecarHosts
    <3>3. CASE Reconcile(n)
      <4>1. wk \in [pc: WorkerPc, n: LazySidecars \cup {NoName}, inst: LazySidecar,
                    sc: Sidecar, seHosts: SUBSET SeHosts]
        BY DEF TypeOK, WorkerTypeOK
      <4>2. CASE ls[n].live
        BY <3>1, <3>3, <4>1, <4>2 DEF Reconcile, MidReconcile
      <4>3. CASE ~ls[n].live
        BY <2>1, <3>1, <3>3, <4>3 DEF Reconcile, Reconciled
      <4> QED BY <4>2, <4>3
    <3>4. CASE Settled(n) /\ wk' = wk
      <4>1. MidReconcile(n) => MidReconcile(n)'
        BY <3>1, <3>2, <3>4 DEF MidReconcile
      <4> QED BY <2>0, <3>1, <3>2, <3>4, <4>1 DEF Reconciled
    <3>5. CASE Settled(n) /\ Worker /\ wk.n = n /\ wk.pc # "idle"
      BY <1>2, <2>0, <2>1, <2>3, <3>5, WorkerReconciles
    <3>6. CASE Settled(n) /\ Worker /\ wk.n # n
      <4>1. ASSUME NEW m \in LazySidecars, Reconcile(m), ~Reconcile(n) PROVE wk'.n # n
        BY <3>6, <4>1 DEF Reconcile, TypeOK, WorkerTypeOK
      <4>2. wk'.n # n \/ Reconcile(n)
        BY <2>1, <3>6, <4>1, WorkerMoves
      <4> QED BY <2>0, <3>1, <3>2, <3>3, <3>6, <4>2 DEF Reconciled
    <3>7. CASE Settled(n) /\ Worker /\ wk.pc = "idle"
      BY <2>1, <3>6, <3>7 DEF Reconciled
    <3> QED BY <2>3, <3>1, <3>3, <3>4, <3>5, <3>6, <3>7, EveryStep
  <2> QED BY <2>2, <2>3
<1> QED BY <1>1, <1>2 DEF Reconciled

\* Along every behaviour the caches follow the objects and Reconciled holds.
LEMMA AlwaysReconciled == Spec => [](TypeOK /\ CachesFollow /\ Reconciled)
<1>1. Init => CachesFollow /\ Reconciled
  BY ControllerAssumption, EmptyTypes
     DEF Init, CachesFollow, Follows, Reconciled, WorkerIdle, NoLs
<1>2. TypeOK /\ TypeOK' /\ CopiesFaithful /\ CachesFollow /\ Reconciled /\ [Next]_vars
      => CachesFollow' /\ Reconciled'
  <2> SUFFICES ASSUME TypeOK, TypeOK', CopiesFaithful, CachesFollow, Reconciled, [Next]_vars
               PROVE  CachesFollow' /\ Reconciled'
    OBVIOUS
  <2>1. CASE UNCHANGED vars
    BY <2>1 DEF vars, lsVars, scVars, CachesFollow, Follows, Reconciled, NoFault, Settled,
                MidReconcile, InSync, StatusTrue, SidecarHosts
  <2> QED BY <2>1, CachesFollowStep, ReconciledStep
<1> QED BY <1>1, <1>2, TypeCorrect, CopiesAlwaysFaithful, PTL DEF Spec

\* No wake-up is lost: as long as no call failed without a reason, once nothing
\* is left to do for a LazySidecar its derived Sidecar exists and carries
\* exactly the right hosts (ReconcileSidecar, createSidecar, updateSidecar).
THEOREM SidecarStaysInSync == Spec => [](spent["fault"] = 0 => SidecarInSync)
<1>1. Reconciled => (spent["fault"] = 0 => SidecarInSync)
  BY DEF Reconciled, NoFault, SidecarInSync, Quiet, Settled, InSync, SidecarHosts
<1> QED BY <1>1, AlwaysReconciled, PTL

\* On the same condition the status tells the truth about the Sidecar once
\* nothing is left to do (RewriteCsmLazySidecarStatus).
THEOREM StatusStaysInSync == Spec => [](spent["fault"] = 0 => StatusInSync)
<1>1. TypeOK /\ Reconciled => (spent["fault"] = 0 => StatusInSync)
  <2> SUFFICES ASSUME TypeOK, Reconciled, spent["fault"] = 0,
                      NEW n \in LazySidecars, Quiet(n), ls[n].live
               PROVE  /\ ls[n].status.succeed = sc[n].live
                      /\ sc[n].live => ls[n].status.upstream = sc[n].hosts
    BY DEF StatusInSync
  <2>1. InSync(n) /\ StatusTrue(n)
    BY DEF Reconciled, NoFault, Quiet, Settled
  <2>2. ls[n].status.succeed \in BOOLEAN /\ sc[n].live \in BOOLEAN
    BY DEF TypeOK, LsTypeOK, ScTypeOK, LazySidecar, Status, Sidecar
  <2> QED BY <2>1, <2>2 DEF InSync, StatusTrue
<1> QED BY <1>1, AlwaysReconciled, PTL

-----------------------------------------------------------------------------
(***************************************************************************)
(* The hosts of ServiceEntries: with the above, ServiceEntriesFollow /\    *)
(* Imported is inductive.                                                  *)
(***************************************************************************)
\* The informer's copy of a ServiceEntry is the stored one or the last write of
\* it that is in flight.
ServiceEntriesFollow ==
  \A e \in ServiceEntries :
    \/ seCache[e] = se[e] /\ \A i \in DOMAIN seWatch : seWatch[i].se # e
    \/ \E i \in DOMAIN seWatch :
         /\ seWatch[i].se = e /\ seWatch[i].hosts = se[e]
         /\ \A j \in DOMAIN seWatch : j > i => seWatch[j].se # e

Announces(h) == \E i \in DOMAIN seEvents : h \in seEvents[i].new

\* Somebody is about to add h to n: the worker before it has listed or written
\* the ServiceEntry hosts, the handler before it has visited n with a listed
\* copy that is still the stored version, or an event that waits for it.
Coming(n, h) ==
  \/ wk.n = n /\ wk.pc \in {"getSidecar", "createSidecar", "updateSidecar", "listSe"}
  \/ wk.n = n /\ wk.pc = "rewriteHosts" /\ h \in wk.seHosts
  \/ Announces(h)
  \/ hd.pc \in {"remove", "getDerived", "updateDerived"} /\ h \in hd.new
  \/ hd.pc = "add" /\ h \in hd.new /\ hd.list[n].live /\ hd.list[n].rv = ls[n].rv

\* A host of a ServiceEntry is in the list or about to be added.
Imported ==
  NoFault => \A n \in LazySidecars, e \in ServiceEntries : \A h \in seCache[e] :
               Settled(n) /\ ls[n].live => h \in ls[n].hosts \/ Coming(n, h)

\* Who writes the ServiceEntry side: users, the informer, the handler, a restart.
LEMMA EverySeStep ==
  ASSUME Next
  PROVE  /\ \/ UNCHANGED seVars \/ ServiceEntryEvent \/ Restart
            \/ \E e \in ServiceEntries, hosts \in SUBSET SeHosts : ServiceEntryWritten(e, hosts)
         /\ seEvents' = seEvents \/ ServiceEntryEvent \/ HandleServiceEntry \/ Restart
         /\ hd' = hd \/ Handler \/ Restart
<1>1. Environment => \/ Restart
                     \/ UNCHANGED <<seEvents, hd>> /\ UNCHANGED seVars
                     \/ /\ UNCHANGED <<seEvents, hd>>
                        /\ \E e \in ServiceEntries, hosts \in SUBSET SeHosts :
                             ServiceEntryWritten(e, hosts)
  BY DEF Environment, UserCreates, UserEdits, UserDeletes, SidecarTampered,
         ServiceEntryWritten, Report, ClockTicks
<1>2. Cluster => (ServiceEntryEvent /\ hd' = hd) \/ UNCHANGED <<seVars, seEvents, hd>>
  BY DEF Cluster, GarbageCollect, LazySidecarEvent, SidecarEvent, ServiceEntryEvent
<1>3. Worker => UNCHANGED <<seVars, seEvents, hd>>
  BY DEF Worker, Reconcile, ReconcileSidecar, createSidecar, updateSidecar, listServiceEntries,
         RewriteSeHostsToCsmLazySidecar, RewriteCsmLazySidecarStatus, UpdateStatus
<1>4. Handler => UNCHANGED seVars /\ (seEvents' = seEvents \/ HandleServiceEntry)
  BY DEF Handler, HandleServiceEntry, ReconcileCsmLazySidecarRemoveHosts, getDerivedSidecar,
         RemoveDeriveSidecarHosts, RemoveHostsDone, ReconcileCsmLazySidecarAddHosts, AddHostsDone
<1>5. (\E r \in Requests : Http(r)) => UNCHANGED <<seVars, seEvents, hd>>
  BY DEF Http, syncLazySidecar
<1> QED BY <1>1, <1>2, <1>3, <1>4, <1>5 DEF Next

\* The informer's ServiceEntries follow the stored ones.
LEMMA ServiceEntriesFollowStep ==
  ASSUME TypeOK, TypeOK', ServiceEntriesFollow, Next
  PROVE  ServiceEntriesFollow'
<1>0. /\ se \in [ServiceEntries -> SUBSET SeHosts]
      /\ seCache \in [ServiceEntries -> SUBSET SeHosts]
      /\ seWatch \in Seq(SeWrite)
  BY DEF TypeOK, SeTypeOK
<1>1. CASE UNCHANGED seVars
  BY <1>1 DEF seVars, ServiceEntriesFollow
<1>2. CASE ServiceEntryEvent
  <2> DEFINE w == Head(seWatch)
             rest == Tail(seWatch)
  <2>1. /\ w = seWatch[1] /\ 1 \in DOMAIN seWatch
        /\ \A i \in DOMAIN rest : /\ i + 1 \in DOMAIN seWatch /\ i + 1 > 1
                                 /\ rest[i] = seWatch[i + 1]
        /\ \A i \in DOMAIN seWatch : i # 1 => i - 1 \in DOMAIN rest /\ rest[i - 1] = seWatch[i]
        /\ DOMAIN rest \subseteq Nat /\ DOMAIN seWatch \subseteq Nat
    BY <1>0, <1>2 DEF ServiceEntryEvent
  <2>2. /\ se' = se /\ seWatch' = rest
        /\ seCache' = [seCache EXCEPT ![w.se] = w.hosts]
    BY <1>2 DEF ServiceEntryEvent
  <2> HIDE DEF w, rest
  <2>3. ASSUME NEW e \in ServiceEntries
        PROVE  \/ seCache'[e] = se[e] /\ \A i \in DOMAIN rest : rest[i].se # e
               \/ \E i \in DOMAIN rest :
                    /\ rest[i].se = e /\ rest[i].hosts = se[e]
                    /\ \A j \in DOMAIN rest : j > i => rest[j].se # e
    <3>1. CASE seCache[e] = se[e] /\ \A i \in DOMAIN seWatch : seWatch[i].se # e
      <4>1. seCache'[e] = seCache[e]
        BY <1>0, <2>1, <2>2, <3>1
      <4>2. \A i \in DOMAIN rest : rest[i].se # e
        BY <2>1, <3>1
      <4> QED BY <3>1, <4>1, <4>2
    <3>2. ASSUME NEW i \in DOMAIN seWatch, seWatch[i].se = e, seWatch[i].hosts = se[e],
                 \A j \in DOMAIN seWatch : j > i => seWatch[j].se # e
          PROVE  \/ seCache'[e] = se[e] /\ \A k \in DOMAIN rest : rest[k].se # e
                 \/ \E k \in DOMAIN rest :
                      /\ rest[k].se = e /\ rest[k].hosts = se[e]
                      /\ \A j \in DOMAIN rest : j > k => rest[j].se # e
      <4>1. CASE i = 1
        <5>1. seCache'[e] = se[e]
          BY <1>0, <2>1, <2>2, <3>2, <4>1
        <5>2. \A k \in DOMAIN rest : k + 1 > i
          BY <2>1, <4>1
        <5> QED BY <2>1, <3>2, <5>1, <5>2
      <4>2. CASE i # 1
        <5>1. i - 1 \in DOMAIN rest /\ rest[i - 1] = seWatch[i]
          BY <2>1, <4>2
        <5>2. \A j \in DOMAIN rest : j > i - 1 => rest[j].se # e
          BY <2>1, <3>2
        <5> QED BY <3>2, <5>1, <5>2
      <4> QED BY <4>1, <4>2
    <3> QED BY <3>1, <3>2 DEF ServiceEntriesFollow
  <2> QED BY <2>2, <2>3 DEF ServiceEntriesFollow
<1>3. CASE Restart
  BY <1>3 DEF Restart, ServiceEntriesFollow
<1>4. ASSUME NEW e \in ServiceEntries, NEW hosts \in SUBSET SeHosts, ServiceEntryWritten(e, hosts)
      PROVE  ServiceEntriesFollow'
  <2> DEFINE w == [se |-> e, hosts |-> hosts]
             last == Len(seWatch) + 1
  <2>1. w \in SeWrite /\ w.se = e /\ w.hosts = hosts
    BY DEF SeWrite
  <2>2. /\ seCache' = seCache /\ se' = [se EXCEPT ![e] = hosts]
        /\ seWatch' = Append(seWatch, w)
    BY <1>4 DEF ServiceEntryWritten
  <2> HIDE DEF w
  <2>3. /\ last \in Nat /\ last \in DOMAIN seWatch' /\ seWatch'[last] = w
        /\ \A i \in DOMAIN seWatch' : i \in Nat /\ (i = last \/ i \in DOMAIN seWatch)
        /\ \A i \in DOMAIN seWatch : /\ i \in DOMAIN seWatch' /\ i \in Nat
                                     /\ i < last /\ seWatch'[i] = seWatch[i]
    BY <1>0, <2>1, <2>2
  <2> HIDE DEF last
  <2>4. ASSUME NEW f \in ServiceEntries
        PROVE  \/ seCache'[f] = se'[f] /\ \A i \in DOMAIN seWatch' : seWatch'[i].se # f
               \/ \E i \in DOMAIN seWatch' :
                    /\ seWatch'[i].se = f /\ seWatch'[i].hosts = se'[f]
                    /\ \A j \in DOMAIN seWatch' : j > i => seWatch'[j].se # f
    <3>1. CASE f = e
      <4>1. \A j \in DOMAIN seWatch' : ~(j > last)
        BY <2>3
      <4> QED BY <1>0, <2>1, <2>2, <2>3, <3>1, <4>1
    <3>2. CASE f # e
      <4>1. se'[f] = se[f] /\ seWatch'[last].se # f
        BY <1>0, <2>1, <2>2, <2>3, <3>2
      <4>2. CASE seCache[f] = se[f] /\ \A i \in DOMAIN seWatch : seWatch[i].se # f
        BY <2>2, <2>3, <4>1, <4>2
      <4>3. ASSUME NEW i \in DOMAIN seWatch, seWatch[i].se = f, seWatch[i].hosts = se[f],
                   \A j \in DOMAIN seWatch : j > i => seWatch[j].se # f
            PROVE  \E k \in DOMAIN seWatch' :
                     /\ seWatch'[k].se = f /\ seWatch'[k].hosts = se'[f]
                     /\ \A j \in DOMAIN seWatch' : j > k => seWatch'[j].se # f
        <5>1. \A j \in DOMAIN seWatch' : j > i => seWatch'[j].se # f
          BY <2>3, <4>1, <4>3
        <5> QED BY <2>3, <4>1, <4>3, <5>1
      <4> QED BY <4>2, <4>3 DEF ServiceEntriesFollow
    <3> QED BY <3>1, <3>2
  <2> QED BY <2>4 DEF ServiceEntriesFollow
<1> QED BY <1>1, <1>2, <1>3, <1>4, EverySeStep

\* An announced host stays announced until the handler takes its event: it then
\* removes the event's old hosts first or lists the LazySidecars at once.
LEMMA AnnouncedStays ==
  ASSUME TypeOK, Next, ~Restart, NEW h, Announces(h)
  PROVE  \/ Announces(h)'
         \/ hd'.pc = "remove" /\ h \in hd'.new
         \/ hd'.pc = "add" /\ h \in hd'.new /\ hd'.list = ListAllCsmLazySidecar
<1>0. seEvents \in Seq(SeEvent)
  BY DEF TypeOK, SeTypeOK
<1> PICK i \in DOMAIN seEvents : h \in seEvents[i].new
  BY DEF Announces
<1>1. CASE seEvents' = seEvents
  BY <1>1 DEF Announces
<1>2. CASE ServiceEntryEvent
  <2> PICK ev : seEvents' = Append(seEvents, ev)
    BY <1>2 DEF ServiceEntryEvent
  <2>1. i \in DOMAIN seEvents' /\ seEvents'[i] = seEvents[i]
    BY <1>0
  <2> QED BY <2>1 DEF Announces
<1>3. CASE HandleServiceEntry
  <2>1. CASE i = 1
    <3>1. h \in Head(seEvents).new
      BY <1>0, <2>1
    <3> QED BY <1>3, <3>1 DEF HandleServiceEntry, HandlerIdle
  <2>2. CASE i # 1
    <3>1. i - 1 \in DOMAIN Tail(seEvents) /\ Tail(seEvents)[i - 1] = seEvents[i]
      BY <1>0, <2>2
    <3> QED BY <1>3, <3>1 DEF HandleServiceEntry, Announces
  <2> QED BY <2>1, <2>2
<1> QED BY <1>1, <1>2, <1>3, EverySeStep

\* The handler does not finish with n without having added its new hosts.
LEMMA HandlerAdds ==
  ASSUME TypeOK, TypeOK', CopiesFaithful, CachesFollow, NoFault', Next, ~Restart, Handler,
         NEW n \in LazySidecars, Settled(n)', Settled(n), ls[n].live, NEW h,
         \/ hd.pc \in {"remove", "getDerived", "updateDerived"} /\ h \in hd.new
         \/ hd.pc = "add" /\ h \in hd.new /\ hd.list[n].live /\ hd.list[n].rv = ls[n].rv
  PROVE  h \in ls[n].hosts \/ Coming(n, h)'
<1>1. /\ ls'[n] = ls[n] /\ lsCache[n] = ls[n]
      /\ lsWatch'[n] = <<>>
  BY SettledStep DEF Settled
<1>2. /\ hd \in [pc: HandlerPc, old: SUBSET SeHosts, new: SUBSET SeHosts,
                 list: [LazySidecars -> LazySidecar], n: LazySidecars \cup {NoName}, sc: Sidecar]
      /\ ls[n] \in LazySidecar
  BY DEF TypeOK, HandlerTypeOK, LsTypeOK
<1>3. ListAllCsmLazySidecar[n] = ls[n]
  BY <1>1 DEF ListAllCsmLazySidecar
<1>4. ASSUME hd'.pc \in {"remove", "getDerived", "updateDerived"}, h \in hd'.new
      PROVE  Coming(n, h)'
  BY <1>4 DEF Coming
<1>5. ASSUME hd'.pc = "add", h \in hd'.new, hd'.list[n].live, hd'.list[n].rv = ls[n].rv
      PROVE  Coming(n, h)'
  BY <1>1, <1>5 DEF Coming
<1>6. CASE HandleServiceEntry
  BY <1>6 DEF HandleServiceEntry
<1>7. ASSUME NEW m \in LazySidecars, ReconcileCsmLazySidecarRemoveHosts(m) PROVE Coming(n, h)'
  BY <1>2, <1>4, <1>7 DEF ReconcileCsmLazySidecarRemoveHosts
<1>8. CASE getDerivedSidecar
  BY <1>2, <1>4, <1>8 DEF getDerivedSidecar
<1>9. CASE RemoveDeriveSidecarHosts
  BY <1>2, <1>4, <1>9 DEF RemoveDeriveSidecarHosts
<1>10. CASE RemoveHostsDone
  BY <1>2, <1>3, <1>5, <1>10 DEF RemoveHostsDone
<1>11. ASSUME NEW m \in LazySidecars, ReconcileCsmLazySidecarAddHosts(m)
       PROVE  h \in ls[n].hosts \/ Coming(n, h)'
  <2> USE <1>11 DEF ReconcileCsmLazySidecarAddHosts
  <2>1. CASE m # n
    BY <1>2, <1>5, <2>1
  <2>2. CASE m = n
    <3> DEFINE newHosts == GetNewHosts(hd.list[n].hosts, hd.new)
               new == [ls[n] EXCEPT !.hosts = hd.list[n].hosts \cup newHosts]
    <3>1. hd.list[n].hosts = ls[n].hosts /\ Accepts(ls[n], hd.list[n])
      BY DEF CopiesFaithful, HandlerFaithful, Faithful, Accepts
    <3>2. CASE newHosts = {}
      BY <3>1, <3>2 DEF GetNewHosts
    <3>3. CASE newHosts # {}
      <4>1. StoreLs(n, new)
        BY <2>2, <3>1, <3>3, NoFaultSpent DEF UpdateLs
      <4>2. new = ls[n]
        BY <1>1, <4>1, StoreLsUnannounced DEF TypeOK
      <4>3. new.hosts = hd.list[n].hosts \cup newHosts
        BY <1>2 DEF LazySidecar
      <4>4. hd.new \subseteq hd.list[n].hosts \cup newHosts
        BY DEF GetNewHosts
      <4> HIDE DEF new, newHosts
      <4> QED BY <4>2, <4>3, <4>4
    <3> QED BY <3>2, <3>3
  <2> QED BY <2>1, <2>2
<1>12. CASE AddHostsDone
  BY <1>12 DEF AddHostsDone, Remaining
<1> QED BY <1>6, <1>7, <1>8, <1>9, <1>10, <1>11, <1>12 DEF Handler

\* The worker does not finish with n without having added the hosts it listed.
LEMMA WorkerAdds ==
  ASSUME TypeOK, TypeOK', CachesFollow, Reconciled, CopiesFaithful, NoFault, NoFault',
         Next, ~Restart, Worker,
         NEW n \in LazySidecars, Settled(n)', Settled(n), ls[n].live,
         NEW e \in ServiceEntries, NEW h \in seCache[e], wk.n = n,
         \/ wk.pc \in {"getSidecar", "createSidecar", "updateSidecar", "listSe"}
         \/ wk.pc = "rewriteHosts" /\ h \in wk.seHosts
  PROVE  h \in ls[n].hosts \/ Coming(n, h)'
<1>1. lsWatch'[n] = <<>>
  BY DEF Settled
<1>2. /\ wk \in [pc: WorkerPc, n: LazySidecars \cup {NoName}, inst: LazySidecar,
                 sc: Sidecar, seHosts: SUBSET SeHosts]
      /\ ls[n] \in LazySidecar
  BY DEF TypeOK, WorkerTypeOK, LsTypeOK
<1>3. wk.inst = ls[n]
  BY DEF Reconciled, MidReconcile
<1>4. ASSUME wk'.n = n, wk'.pc \in {"getSidecar", "createSidecar", "updateSidecar", "listSe"}
      PROVE  Coming(n, h)'
  BY <1>4 DEF Coming
<1>5. ASSUME NEW m \in LazySidecars, Reconcile(m) PROVE FALSE
  BY <1>5 DEF Reconcile
<1>6. CASE ReconcileSidecar
  BY <1>2, <1>4, <1>6 DEF ReconcileSidecar
<1>7. CASE createSidecar
  BY <1>2, <1>4, <1>7 DEF createSidecar
<1>8. CASE updateSidecar
  BY <1>2, <1>4, <1>8 DEF updateSidecar
<1>9. CASE listServiceEntries
  <2>1. h \in ListAllServiceEntryHosts
    BY DEF ListAllServiceEntryHosts
  <2> QED BY <1>2, <1>9, <2>1 DEF listServiceEntries, Coming
<1>10. CASE RewriteSeHostsToCsmLazySidecar
  <2> USE <1>10 DEF RewriteSeHostsToCsmLazySidecar
  <2> DEFINE newHosts == GetNewHosts(wk.inst.hosts, wk.seHosts)
             new == [ls[n] EXCEPT !.hosts = wk.inst.hosts \cup newHosts]
  <2>1. CASE newHosts = {}
    BY <1>3, <2>1 DEF GetNewHosts
  <2>2. CASE newHosts # {}
    <3>1. StoreLs(n, new)
      BY <1>3, <2>2, NoFaultSpent DEF UpdateLs, Accepts
    <3>2. new = ls[n]
      BY <1>1, <3>1, StoreLsUnannounced DEF TypeOK
    <3>3. new.hosts = wk.inst.hosts \cup newHosts
      BY <1>2 DEF LazySidecar
    <3>4. h \in wk.inst.hosts \cup newHosts
      BY DEF GetNewHosts
    <3> HIDE DEF new, newHosts
    <3> QED BY <3>2, <3>3, <3>4
  <2> QED BY <2>1, <2>2
<1>11. CASE RewriteCsmLazySidecarStatus
  BY <1>11 DEF RewriteCsmLazySidecarStatus
<1>12. CASE UpdateStatus
  BY <1>12 DEF UpdateStatus
<1> QED BY <1>5, <1>6, <1>7, <1>8, <1>9, <1>10, <1>11, <1>12 DEF Worker

\* Every ServiceEntry host the informer has heard of stays imported or coming.
LEMMA ImportedStep ==
  ASSUME TypeOK, TypeOK', CopiesFaithful, CachesFollow, Reconciled, Imported, Next
  PROVE  Imported'
<1> SUFFICES ASSUME NoFault', NEW n \in LazySidecars, NEW e \in ServiceEntries,
                    NEW h \in seCache'[e], Settled(n)', ls'[n].live
             PROVE  h \in ls'[n].hosts \/ Coming(n, h)'
  BY DEF Imported
<1>0. NoFault
  BY EveryStep, SpendingKeepsFaults
<1>1. CASE Restart
  BY <1>1 DEF Restart, Settled
<1>2. CASE ~Restart
  <2>1. /\ ls'[n] = ls[n] /\ lsCache[n] = ls[n]
        /\ Settled(n) \/ Reconcile(n)
    BY <1>2, SettledStep
  <2>2. CASE Reconcile(n)
    BY <2>1, <2>2 DEF Reconcile, Coming, TypeOK, WorkerTypeOK
  <2>3. CASE h \notin seCache[e]
    <3>1. ServiceEntryEvent
      BY <1>2, <2>3, EverySeStep DEF seVars, ServiceEntryWritten
    <3> DEFINE w == Head(seWatch)
               ev == [old |-> seCache[w.se], new |-> w.hosts]
    <3>2. h \in w.hosts
      BY <2>3, <3>1 DEF ServiceEntryEvent, TypeOK, SeTypeOK
    <3>3. h \in ev.new
      BY <3>2
    <3>4. seEvents' = Append(seEvents, ev)
      BY <3>1 DEF ServiceEntryEvent
    <3> HIDE DEF ev
    <3>5. Len(seEvents) + 1 \in DOMAIN seEvents' /\ seEvents'[Len(seEvents) + 1] = ev
      BY <3>4 DEF TypeOK, SeTypeOK
    <3> QED BY <3>3, <3>5 DEF Coming, Announces
  <2>4. CASE Settled(n) /\ h \in seCache[e]
    <3>1. h \in ls[n].hosts \/ Coming(n, h)
      BY <1>0, <2>1, <2>4 DEF Imported
    <3>2. ASSUME wk.n = n,
                 \/ wk.pc \in {"getSidecar", "createSidecar", "updateSidecar", "listSe"}
                 \/ wk.pc = "rewriteHosts" /\ h \in wk.seHosts
          PROVE  h \in ls[n].hosts \/ Coming(n, h)'
      <4>1. CASE Worker
        BY <1>0, <1>2, <2>1, <2>4, <3>2, <4>1, WorkerAdds
      <4>2. CASE wk' = wk
        BY <3>2, <4>2 DEF Coming
      <4> QED BY <1>2, <4>1, <4>2, EveryStep
    <3>3. ASSUME Announces(h) PROVE Coming(n, h)'
      <4>1. ListAllCsmLazySidecar[n] = ls[n]
        BY <2>1 DEF ListAllCsmLazySidecar
      <4> QED BY <1>2, <2>1, <3>3, <4>1, AnnouncedStays DEF Coming
    <3>4. ASSUME \/ hd.pc \in {"remove", "getDerived", "updateDerived"} /\ h \in hd.new
                 \/ hd.pc = "add" /\ h \in hd.new /\ hd.list[n].live /\ hd.list[n].rv = ls[n].rv
          PROVE  h \in ls[n].hosts \/ Coming(n, h)'
      <4>1. CASE Handler
        BY <1>2, <2>1, <2>4, <3>4, <4>1, HandlerAdds
      <4>2. CASE hd' = hd
        BY <2>1, <3>4, <4>2 DEF Coming
      <4> QED BY <1>2, <4>1, <4>2, EverySeStep
    <3> QED BY <2>1, <3>1, <3>2, <3>3, <3>4 DEF Coming
  <2> QED BY <2>1, <2>2, <2>3, <2>4
<1> QED BY <1>1, <1>2

\* Along every behaviour the ServiceEntry informer follows and Imported holds.
LEMMA AlwaysImported == Spec => [](ServiceEntriesFollow /\ Imported)
<1>1. Init => ServiceEntriesFollow /\ Imported
  BY DEF Init, ServiceEntriesFollow, Imported
<1>2. /\ TypeOK /\ TypeOK' /\ CopiesFaithful /\ CachesFollow /\ Reconciled
      /\ ServiceEntriesFollow /\ Imported /\ [Next]_vars
      => ServiceEntriesFollow' /\ Imported'
  <2> SUFFICES ASSUME TypeOK, TypeOK', CopiesFaithful, CachesFollow, Reconciled,
                      ServiceEntriesFollow, Imported, [Next]_vars
               PROVE  ServiceEntriesFollow' /\ Imported'
    OBVIOUS
  <2>1. CASE UNCHANGED vars
    BY <2>1 DEF vars, lsVars, scVars, seVars, ServiceEntriesFollow, Imported, NoFault, Settled,
                Coming, Announces
  <2> QED BY <2>1, ServiceEntriesFollowStep, ImportedStep
<1> QED BY <1>1, <1>2, AlwaysReconciled, CopiesAlwaysFaithful, PTL DEF Spec

\* No import is lost: as long as no call failed without a reason, once nothing
\* is left to do every host of every ServiceEntry is in every LazySidecar's
\* list, whatever removals, conflicts and restarts came between
\* (EnqueueServiceEntry, RewriteSeHostsToCsmLazySidecar).
THEOREM ServiceEntriesStayImported == Spec => [](spent["fault"] = 0 => ServiceEntriesImported)
<1>1. ServiceEntriesFollow /\ Imported => (spent["fault"] = 0 => ServiceEntriesImported)
  <2> SUFFICES ASSUME ServiceEntriesFollow, Imported, spent["fault"] = 0,
                      NEW n \in LazySidecars, Quiet(n), ls[n].live, NEW e \in ServiceEntries
               PROVE  se[e] \subseteq ls[n].hosts
    BY DEF ServiceEntriesImported
  <2>1. seCache[e] = se[e]
    BY DEF Quiet, ServiceEntriesFollow
  <2>2. \A h \in seCache[e] : h \in ls[n].hosts \/ Coming(n, h)
    BY DEF Imported, NoFault, Quiet, Settled
  <2>3. \A h : ~Coming(n, h)
    BY DEF Coming, Announces, Quiet
  <2> QED BY <2>1, <2>2, <2>3
<1> QED BY <1>1, AlwaysImported, PTL

=============================================================================
