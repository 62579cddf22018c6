----------------------- MODULE EgressWorkloadProofs -----------------------
(***************************************************************************)
(* Proofs about EgressWorkload, for every size of the stack, every number  *)
(* of Deployments and waiting events and every budget of outside events.   *)
(***************************************************************************)
EXTENDS EgressWorkload, TLAPS

USE EgressAssumption DEF Kinds, Watched, EnvKinds

-----------------------------------------------------------------------------
(***************************************************************************)
(* Type correctness.                                                       *)
(***************************************************************************)
\* What is created has the type of an object and the uid of its owner.
LEMMA ObjectOfType ==
  ASSUME NEW k \in Kinds, NEW o \in Owner
  PROVE  ObjectOf(k, o) \in Object /\ ObjectOf(k, o).owner = o.uid
<1>1. CASE k = "ServiceAccount"
  BY <1>1 DEF ObjectOf, CsmSa, Object, Owner, Names
<1>2. CASE k = "ConfigMap"
  BY <1>2 DEF ObjectOf, GetCsmEgressConfigMap, Object, Owner, Names
<1>3. CASE k = "Service"
  BY <1>3 DEF ObjectOf, GetCsmEgressService, Object, Owner, Names
<1>4. CASE k = "Deployment"
  BY <1>4 DEF ObjectOf, GetCsmEgressDeployment, Object, Owner, Names
<1> QED BY <1>1, <1>2, <1>3, <1>4

\* The empty values have their types.
LEMMA EmptyTypes == NoOwner \in Owner /\ Absent \in Object
BY DEF NoOwner, Absent, Owner, Object

\* Spending on one kind of outside event keeps the type of the budget.
LEMMA SpendType ==
  ASSUME TypeOK, NEW e \in EnvKinds, Spend(e)
  PROVE  /\ spent' \in [EnvKinds -> Nat]
         /\ spent'[e] # 0
         /\ \A j \in EnvKinds : spent'[j] = 0 => spent[j] = 0
BY DEF TypeOK, Spend

\* A creation stores the object if there is none and the reference is valid;
\* it fails without a reason only at the expense of the budget of faults.
LEMMA CreateEffect ==
  ASSUME TypeOK, NEW k \in Kinds, NEW o \in Owner, Create(k, o)
  PROVE  /\ objs' \in [Kinds -> Object]
         /\ spent' \in [EnvKinds -> Nat]
         /\ spent'["fault"] = 0 => spent["fault"] = 0
         /\ \A j \in Kinds : objs[j] # Absent => objs'[j] = objs[j]
         /\ spent'["fault"] = 0 /\ Valid(o) => objs'[k] # Absent
<1>1. CASE /\ objs[k] = Absent /\ Valid(o)
           /\ objs' = [objs EXCEPT ![k] = ObjectOf(k, o)]
           /\ UNCHANGED spent
  <2>1. ObjectOf(k, o) \in Object /\ ObjectOf(k, o) # Absent
    BY <1>1, ObjectOfType DEF Valid, Absent
  <2> QED BY <1>1, <2>1 DEF TypeOK
<1>2. CASE (objs[k] # Absent \/ ~Valid(o)) /\ UNCHANGED <<objs, spent>>
  BY <1>2 DEF TypeOK
<1>3. CASE Spend("fault") /\ UNCHANGED objs
  BY <1>3, SpendType DEF TypeOK
<1> QED BY <1>1, <1>2, <1>3 DEF Create

\* A deletion is announced to the handler of a running process.
LEMMA DeleteEffect ==
  ASSUME TypeOK, NEW k \in Kinds, Delete(k)
  PROVE  /\ objs' \in [Kinds -> Object]
         /\ deleted' \in [Watched -> Nat]
         /\ \A j \in Kinds \ {k} : objs'[j] = objs[j]
         /\ \A j \in Watched : deleted'[j] >= deleted[j]
         /\ up /\ k \in Watched => deleted'[k] > 0
<1>1. objs' = [objs EXCEPT ![k] = Absent]
  BY DEF Delete
<1>2. objs' \in [Kinds -> Object] /\ \A j \in Kinds \ {k} : objs'[j] = objs[j]
  BY <1>1, EmptyTypes DEF TypeOK
<1>3. CASE /\ up /\ k \in Watched
           /\ deleted[k] < MaxEvents
           /\ deleted' = [deleted EXCEPT ![k] = @ + 1]
  BY <1>2, <1>3 DEF TypeOK
<1>4. CASE ~(up /\ k \in Watched) /\ UNCHANGED deleted
  BY <1>2, <1>4 DEF TypeOK
<1> QED BY <1>3, <1>4 DEF Delete

\* The end of the process leaves well-typed memory.
LEMMA CrashType ==
  ASSUME TypeOK, Crash, spent' \in [EnvKinds -> Nat]
  PROVE  TypeOK'
BY EmptyTypes DEF TypeOK, Crash

\* Every step of the worker keeps the types.
LEMMA WorkerType ==
  ASSUME TypeOK, Worker
  PROVE  TypeOK'
<1> USE DEF TypeOK, hdVars, wkVars
<1>1. ASSUME Reconcile PROVE TypeOK'
  BY <1>1 DEF Reconcile
<1>2. ASSUME InitGet PROVE TypeOK'
  <2>1. owner' \in Owner
    BY <1>2 DEF InitGet, Owner
  <2>2. got' \in Nat /\ pc' \in {"copy", "ServiceAccount"}
    BY <1>2 DEF InitGet
  <2> QED BY <1>2, <2>1, <2>2 DEF InitGet
<1>3. ASSUME InitCopied PROVE TypeOK'
  BY <1>3 DEF InitCopied, Owner
<1>4. ASSUME CreateCsmSa PROVE TypeOK'
  <2>1. CASE /\ ~owner.named /\ frames < MaxFrames
             /\ frames' = frames + 1
             /\ pc' = "get"
             /\ UNCHANGED <<dep, uids, depSeen, owner, objs, hdVars, got, queued, up, spent>>
    BY <2>1
  <2>2. CASE Crash /\ UNCHANGED spent
    BY <2>2, CrashType
  <2>3. CASE owner.named
    <3>1. Create("ServiceAccount", owner)
      BY <1>4, <2>3 DEF CreateCsmSa
    <3>2. objs' \in [Kinds -> Object] /\ spent' \in [EnvKinds -> Nat]
      BY <3>1, CreateEffect
    <3> QED BY <1>4, <2>3, <3>2 DEF CreateCsmSa
  <2> QED BY <1>4, <2>1, <2>2, <2>3 DEF CreateCsmSa
<1>5. ASSUME CreateCsmEgressConfigMap PROVE TypeOK'
  <2>1. objs' \in [Kinds -> Object] /\ spent' \in [EnvKinds -> Nat]
    BY <1>5, CreateEffect DEF CreateCsmEgressConfigMap
  <2> QED BY <1>5, <2>1 DEF CreateCsmEgressConfigMap
<1>6. ASSUME CreateCsmEgressService PROVE TypeOK'
  <2>1. objs' \in [Kinds -> Object] /\ spent' \in [EnvKinds -> Nat]
    BY <1>6, CreateEffect DEF CreateCsmEgressService
  <2> QED BY <1>6, <2>1 DEF CreateCsmEgressService
<1>7. ASSUME CreateCsmEgressDeployment PROVE TypeOK'
  <2>1. objs' \in [Kinds -> Object] /\ spent' \in [EnvKinds -> Nat]
    BY <1>7, CreateEffect DEF CreateCsmEgressDeployment
  <2>2. frames' \in Nat /\ pc' \in {"ServiceAccount", "idle"}
    BY <1>7 DEF CreateCsmEgressDeployment
  <2> QED BY <1>7, <2>1, <2>2 DEF CreateCsmEgressDeployment
<1> QED BY <1>1, <1>2, <1>3, <1>4, <1>5, <1>6, <1>7 DEF Worker

\* A step keeps the types.
LEMMA StepType ==
  ASSUME TypeOK, [Next]_vars
  PROVE  TypeOK'
<1> USE DEF TypeOK, hdVars, wkVars
<1>1. ASSUME NEW k \in Watched, HandleDelete(k) PROVE TypeOK'
  BY <1>1 DEF HandleDelete
<1>2. ASSUME NEW k \in Watched, CreateAgain(k) PROVE TypeOK'
  <2>1. objs' \in [Kinds -> Object] /\ spent' \in [EnvKinds -> Nat]
    BY <1>2, CreateEffect DEF CreateAgain
  <2> QED BY <1>2, <2>1, EmptyTypes DEF CreateAgain
<1>3. ASSUME NEW k \in Kinds, GarbageCollect(k) PROVE TypeOK'
  BY <1>3, DeleteEffect DEF GarbageCollect
<1>4. ASSUME NEW k \in Kinds, UserDeletes(k) PROVE TypeOK'
  <2>1. spent' \in [EnvKinds -> Nat]
    BY <1>4, SpendType DEF UserDeletes
  <2> QED BY <1>4, <2>1, DeleteEffect DEF UserDeletes
<1>5. ASSUME LazySidecarEvent \/ DeploymentEvent \/ Restart PROVE TypeOK'
  BY <1>5 DEF LazySidecarEvent, DeploymentEvent, Restart
<1>6. ASSUME Deploy PROVE TypeOK'
  BY <1>6 DEF Deploy
<1>7. ASSUME Undeploy PROVE TypeOK'
  <2>1. spent' \in [EnvKinds -> Nat]
    BY <1>7, SpendType DEF Undeploy
  <2> QED BY <1>7, <2>1 DEF Undeploy
<1>8. ASSUME Killed PROVE TypeOK'
  BY <1>8, SpendType, CrashType DEF Killed
<1>9. CASE UNCHANGED vars
  BY <1>9 DEF vars
<1> QED BY WorkerType, <1>1, <1>2, <1>3, <1>4, <1>5, <1>6, <1>7, <1>8, <1>9 DEF Next, Handler

\* Uids, objects, owner references and program counters have their types in
\* every state; the calls of Init that wait are never fewer than none.
THEOREM EgressTypeCorrect == Spec => []TypeOK
<1>1. Init => TypeOK
  BY EmptyTypes DEF Init, TypeOK
<1> QED BY <1>1, StepType, PTL DEF Spec

-----------------------------------------------------------------------------
(***************************************************************************)
(* A missing object is on somebody's way.                                  *)
(***************************************************************************)
Early == {"get", "copy", "ServiceAccount"}

\* The owner is unknown, or torn, only while the worker or a queued LazySidecar
\* has the creation of all objects still ahead.
OwnerKnown ==
  /\ pc = "idle" => frames = 0
  /\ pc = "copy" => got # 0
  /\ pc \in Watched => Valid(owner)
  /\ pc # "copy" => owner = NoOwner \/ Valid(owner)
  /\ up /\ ~Valid(owner) => queued \/ pc \in Early

\* The worker has yet to create k, now or when an inner call of Init returns.
Ahead(k) ==
  \/ frames > 0
  \/ pc \in Early \cup {"ConfigMap"}
  \/ pc = "Service" /\ k # "ConfigMap"
  \/ pc = "Deployment" /\ k = "Deployment"

\* Someone is going to create k: a new process, the worker, or the handler.
Coming(k) ==
  \/ ~up \/ queued \/ Ahead(k)
  \/ deleted[k] > 0
  \/ taken[k] /\ Valid(ref[k])

MissingComes ==
  spent["fault"] = 0 => \A k \in Watched : objs[k] = Absent => Coming(k)

IInv == TypeOK /\ OwnerKnown /\ MissingComes

\* A reference to no owner is not valid; the end of the process settles all.
LEMMA NoOwnerInvalid == ~Valid(NoOwner)
BY DEF NoOwner, Valid

LEMMA CrashKeeps ==
  ASSUME IInv, Crash
  PROVE  OwnerKnown' /\ MissingComes'
BY DEF Crash, OwnerKnown, MissingComes, Coming, Early

\* The worker creates what it comes to, or leaves it to somebody who will.
LEMMA WorkerKeeps ==
  ASSUME IInv, Worker
  PROVE  OwnerKnown' /\ MissingComes'
<1> USE DEF IInv, TypeOK, hdVars, wkVars, Early
<1>1. ASSUME Reconcile PROVE OwnerKnown' /\ MissingComes'
  BY <1>1 DEF Reconcile, OwnerKnown, MissingComes, Coming, Ahead
<1>2. ASSUME InitGet PROVE OwnerKnown' /\ MissingComes'
  <2>1. MissingComes'
    BY <1>2 DEF InitGet, MissingComes, Coming, Ahead
  <2>2. OwnerKnown'
    BY <1>2 DEF InitGet, OwnerKnown, Owner, Valid, NoOwner
  <2> QED BY <2>1, <2>2
<1>3. ASSUME InitCopied PROVE OwnerKnown' /\ MissingComes'
  <2>1. Valid(owner)'
    BY <1>3 DEF InitCopied, OwnerKnown, Valid
  <2>2. OwnerKnown'
    BY <1>3, <2>1 DEF InitCopied, OwnerKnown
  <2>3. MissingComes'
    BY <1>3 DEF InitCopied, MissingComes, Coming, Ahead
  <2> QED BY <2>2, <2>3
<1>4. ASSUME CreateCsmSa PROVE OwnerKnown' /\ MissingComes'
  <2>1. CASE /\ ~owner.named /\ frames < MaxFrames
             /\ frames' = frames + 1
             /\ pc' = "get"
             /\ UNCHANGED <<dep, uids, depSeen, owner, objs, hdVars, got, queued, up, spent>>
    <3>1. OwnerKnown'
      BY <1>4, <2>1 DEF CreateCsmSa, OwnerKnown
    <3>2. MissingComes'
      BY <2>1 DEF MissingComes, Coming, Ahead
    <3> QED BY <3>1, <3>2
  <2>2. CASE Crash
    BY <2>2, CrashKeeps
  <2>3. CASE owner.named
    <3>1. Create("ServiceAccount", owner)
      BY <1>4, <2>3 DEF CreateCsmSa
    <3>2. Valid(owner)
      BY <1>4, <2>3, NoOwnerInvalid DEF CreateCsmSa, OwnerKnown, NoOwner
    <3>3. OwnerKnown'
      BY <1>4, <2>3, <3>2 DEF CreateCsmSa, OwnerKnown
    <3>4. MissingComes'
      BY <1>4, <2>3 DEF CreateCsmSa, MissingComes, Coming, Ahead
    <3> QED BY <3>3, <3>4
  <2> QED BY <1>4, <2>1, <2>2, <2>3 DEF CreateCsmSa
<1>5. ASSUME CreateCsmEgressConfigMap PROVE OwnerKnown' /\ MissingComes'
  <2>1. Create("ConfigMap", owner) /\ Valid(owner)
    BY <1>5 DEF CreateCsmEgressConfigMap, OwnerKnown
  <2>2. OwnerKnown'
    BY <1>5, <2>1 DEF CreateCsmEgressConfigMap, OwnerKnown
  <2>3. MissingComes'
    BY <1>5, <2>1, CreateEffect DEF CreateCsmEgressConfigMap, MissingComes, Coming, Ahead
  <2> QED BY <2>2, <2>3
<1>6. ASSUME CreateCsmEgressService PROVE OwnerKnown' /\ MissingComes'
  <2>1. Create("Service", owner) /\ Valid(owner)
    BY <1>6 DEF CreateCsmEgressService, OwnerKnown
  <2>2. OwnerKnown'
    BY <1>6, <2>1 DEF CreateCsmEgressService, OwnerKnown
  <2>3. MissingComes'
    BY <1>6, <2>1, CreateEffect DEF CreateCsmEgressService, MissingComes, Coming, Ahead
  <2> QED BY <2>2, <2>3
<1>7. ASSUME CreateCsmEgressDeployment PROVE OwnerKnown' /\ MissingComes'
  <2>1. Create("Deployment", owner) /\ Valid(owner)
    BY <1>7 DEF CreateCsmEgressDeployment, OwnerKnown
  <2>2. OwnerKnown'
    BY <1>7, <2>1 DEF CreateCsmEgressDeployment, OwnerKnown
  <2>3. MissingComes'
    BY <1>7, <2>1, CreateEffect
       DEF CreateCsmEgressDeployment, MissingComes, Coming, Ahead
  <2> QED BY <2>2, <2>3
<1> QED BY <1>1, <1>2, <1>3, <1>4, <1>5, <1>6, <1>7 DEF Worker

\* A handler takes an event over with a valid owner, or leaves the object to
\* the worker, who has it still ahead.
LEMMA HandlerKeeps ==
  ASSUME IInv, NEW k \in Watched, Handler(k)
  PROVE  OwnerKnown' /\ MissingComes'
<1> USE DEF IInv, TypeOK, hdVars, wkVars
<1>1. ASSUME HandleDelete(k) PROVE OwnerKnown' /\ MissingComes'
  <2>1. OwnerKnown'
    BY <1>1 DEF HandleDelete, OwnerKnown
  <2>2. Coming(k)'
    BY <1>1 DEF HandleDelete, OwnerKnown, Coming, Ahead
  <2>3. ASSUME NEW j \in Watched \ {k}, Coming(j) PROVE Coming(j)'
    BY <1>1, <2>3 DEF HandleDelete, Coming, Ahead
  <2>4. objs' = objs /\ spent' = spent
    BY <1>1 DEF HandleDelete
  <2> QED BY <2>1, <2>2, <2>3, <2>4 DEF MissingComes
<1>2. ASSUME CreateAgain(k) PROVE OwnerKnown' /\ MissingComes'
  <2>1. Create(k, ref[k])
    BY <1>2 DEF CreateAgain
  <2>2. OwnerKnown'
    BY <1>2 DEF CreateAgain, OwnerKnown
  <2>3. ASSUME NEW j \in Watched \ {k}, Coming(j) PROVE Coming(j)'
    BY <1>2, <2>3 DEF CreateAgain, Coming, Ahead
  <2>4. ASSUME Coming(k), ~Valid(ref[k]) PROVE Coming(k)'
    BY <1>2, <2>4 DEF CreateAgain, Coming, Ahead
  <2> QED BY <2>1, <2>2, <2>3, <2>4, CreateEffect DEF MissingComes
<1> QED BY <1>1, <1>2 DEF Handler

\* A deleted object is announced to its handler.
LEMMA DeleteKeeps ==
  ASSUME IInv, NEW k \in Kinds, Delete(k), spent'["fault"] = spent["fault"],
         UNCHANGED <<owner, taken, ref, wkVars, queued, up>>
  PROVE  OwnerKnown' /\ MissingComes'
<1> USE DEF IInv, TypeOK, wkVars
<1>1. OwnerKnown'
  BY DEF OwnerKnown
<1>2. ASSUME NEW j \in Watched, Coming(j) PROVE Coming(j)'
  BY <1>2, DeleteEffect DEF Coming, Ahead
<1>3. k \in Watched => Coming(k)'
  BY DeleteEffect DEF Coming
<1> QED BY <1>1, <1>2, <1>3, DeleteEffect DEF MissingComes

\* A step keeps the invariant.
LEMMA StepKeeps ==
  ASSUME IInv, [Next]_vars
  PROVE  OwnerKnown' /\ MissingComes'
<1> USE DEF IInv, TypeOK, hdVars, wkVars
<1>1. ASSUME NEW k \in Kinds, GarbageCollect(k) \/ UserDeletes(k)
      PROVE  OwnerKnown' /\ MissingComes'
  <2>1. Delete(k) /\ UNCHANGED <<owner, taken, ref, wkVars, queued, up>>
    BY <1>1 DEF GarbageCollect, UserDeletes
  <2>2. spent'["fault"] = spent["fault"]
    BY <1>1 DEF GarbageCollect, UserDeletes, Spend
  <2> QED BY <2>1, <2>2, DeleteKeeps
<1>2. ASSUME LazySidecarEvent \/ DeploymentEvent \/ Deploy
      PROVE  OwnerKnown' /\ MissingComes'
  BY <1>2 DEF LazySidecarEvent, DeploymentEvent, Deploy, OwnerKnown, MissingComes, Coming, Ahead
<1>3. ASSUME Restart PROVE OwnerKnown' /\ MissingComes'
  BY <1>3 DEF Restart, OwnerKnown, MissingComes, Coming, Ahead
<1>4. ASSUME Undeploy PROVE OwnerKnown' /\ MissingComes'
  <2>1. spent'["fault"] = spent["fault"]
    BY <1>4 DEF Undeploy, Spend
  <2> QED BY <1>4, <2>1 DEF Undeploy, OwnerKnown, MissingComes, Coming, Ahead
<1>5. ASSUME Killed PROVE OwnerKnown' /\ MissingComes'
  BY <1>5, CrashKeeps DEF Killed
<1>6. CASE UNCHANGED vars
  BY <1>6 DEF vars, OwnerKnown, MissingComes, Coming, Ahead
<1> QED BY WorkerKeeps, HandlerKeeps, <1>1, <1>2, <1>3, <1>4, <1>5, <1>6 DEF Next

\* No deletion goes unnoticed: when nothing is left to do and no call failed
\* for no reason of the caller's, the watched objects are there and belong to
\* the present Deployment, although worker and handlers share ownerDeployment
\* without a lock (Delete, CreateCsmEgress*, Init).
THEOREM EgressRestored == Spec => []RestoredAtRest
<1>1. Init => IInv
  <2>1. Init => TypeOK
    BY EmptyTypes DEF Init, TypeOK
  <2>2. Init => OwnerKnown /\ MissingComes
    BY DEF Init, OwnerKnown, MissingComes, Coming, Early
  <2> QED BY <2>1, <2>2 DEF IInv
<1>2. IInv /\ [Next]_vars => IInv'
  BY StepType, StepKeeps DEF IInv
<1>3. IInv => RestoredAtRest
  BY DEF IInv, TypeOK, OwnerKnown, MissingComes, Coming, Ahead, Early, AtRest,
         NothingToCollect, RestoredAtRest
<1> QED BY <1>1, <1>2, <1>3, PTL DEF Spec

=============================================================================
