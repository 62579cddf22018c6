-------------------------- MODULE EgressWorkload --------------------------
(***************************************************************************)
(* The egress workload lazysidecar-proxy (controllers/csm_egress_workload. *)
(* go, controllers/enqueue_egress_workload.go and Init of the controller). *)
(*                                                                         *)
(* Four objects make up the workload.  Every Reconcile creates those that  *)
(* are missing; the handlers of delete events create a ConfigMap, Service  *)
(* or Deployment again, each on its own goroutine.  All four are owned by  *)
(* the controller's own Deployment, which Init reads from the cache into   *)
(* the package variable ownerDeployment while the handlers read it.        *)
(*                                                                         *)
(* There is a LazySidecar at all times, so that a new process reconciles.  *)
(***************************************************************************)
EXTENDS Integers

CONSTANTS
  MaxFrames,     \* calls of Init by CreateCsmSa that fit on the stack
  MaxEvents,     \* delete events of an object that wait for their handler
  Incarnations,  \* how often the controller's Deployment is created
  Budget         \* how often each kind of outside event may happen

Kinds == {"ServiceAccount", "ConfigMap", "Service", "Deployment"}

\* The kinds SetupWithManager watches.
Watched == Kinds \ {"ServiceAccount"}

EnvKinds == {"delete", "outage", "fault"}

ASSUME EgressAssumption ==
  /\ MaxFrames \in Nat /\ MaxEvents \in Nat /\ Incarnations \in Nat
  /\ Budget \in [EnvKinds -> Nat]

VARIABLES
  dep,      \* uid of the controller's Deployment, 0 if there is none
  uids,     \* the last uid given
  depSeen,  \* the informer's copy of dep
  owner,    \* the package variable ownerDeployment
  objs,     \* the stored objects of the workload
  deleted,  \* delete events each handler has yet to take
  taken,    \* each handler is about to create its object again ...
  ref,      \* ... with this owner reference
  pc,       \* the reconcile worker: in Init, or the object it creates next
  got,      \* the uid Init is copying
  frames,   \* calls of Init that wait for an inner one to return
  queued,   \* a LazySidecar is in the work queue
  up,       \* the process runs
  spent     \* how often each kind of outside event has happened

hdVars == <<deleted, taken, ref>>
wkVars == <<pc, got, frames>>
vars == <<dep, uids, depSeen, owner, objs, hdVars, wkVars, queued, up, spent>>

\* An object has the uid of its owner, the names it defines and the names it
\* refers to.
Names == {"lazysidecar-proxy", "app=lazysidecar-proxy",
          "default.conf", "nginx.conf", "stream.conf"}
Owner == [named: BOOLEAN, uid: Nat]
Object == [owner: Nat, provides: SUBSET Names, needs: SUBSET Names]

NoOwner == [named |-> FALSE, uid |-> 0]
Absent == [owner |-> 0, provides |-> {}, needs |-> {}]

\* Every object, owner, event, frame and place of a goroutine has its type.
TypeOK ==
  /\ dep \in Nat /\ uids \in Nat /\ depSeen \in Nat /\ got \in Nat /\ frames \in Nat
  /\ owner \in Owner
  /\ objs \in [Kinds -> Object]
  /\ deleted \in [Watched -> Nat] /\ taken \in [Watched -> BOOLEAN]
  /\ ref \in [Watched -> Owner]
  /\ pc \in {"idle", "get", "copy"} \cup Kinds
  /\ queued \in BOOLEAN /\ up \in BOOLEAN
  /\ spent \in [EnvKinds -> Nat]

Init ==
  /\ dep = 0 /\ uids = 0 /\ depSeen = 0
  /\ owner = NoOwner
  /\ objs = [k \in Kinds |-> Absent]
  /\ deleted = [k \in Watched |-> 0] /\ taken = [k \in Watched |-> FALSE]
  /\ ref = [k \in Watched |-> NoOwner]
  /\ pc = "idle" /\ got = 0 /\ frames = 0
  /\ queued = TRUE /\ up = TRUE
  /\ spent = [e \in EnvKinds |-> 0]

Spend(e) == spent[e] < Budget[e] /\ spent' = [spent EXCEPT ![e] = @ + 1]

-----------------------------------------------------------------------------
(***************************************************************************)
(* The objects.  The API server refuses an owner reference without name or *)
(* uid; the error is logged and dropped, as any other is.                  *)
(***************************************************************************)
Valid(o) == o.named /\ o.uid # 0

CsmSa(o) == [owner |-> o.uid, provides |-> {"lazysidecar-proxy"}, needs |-> {}]

\* Mutant of GetCsmEgressConfigMap: a configuration file is forgotten.
GetShortConfigMap(o) ==
  [owner |-> o.uid, provides |-> {"default.conf", "nginx.conf"}, needs |-> {}]

GetCsmEgressConfigMap(o) ==
  [owner |-> o.uid, provides |-> {"default.conf", "nginx.conf", "stream.conf"}, needs |-> {}]

GetCsmEgressService(o) ==
  [owner |-> o.uid, provides |-> {}, needs |-> {"app=lazysidecar-proxy"}]

\* The pods mount the files by name and run as the service account.
GetCsmEgressDeployment(o) ==
  [owner |-> o.uid, provides |-> {"app=lazysidecar-proxy"},
   needs |-> {"lazysidecar-proxy", "default.conf", "nginx.conf", "stream.conf"}]

ObjectOf(k, o) ==
  CASE k = "ServiceAccount" -> CsmSa(o)
    [] k = "ConfigMap"      -> GetCsmEgressConfigMap(o)
    [] k = "Service"        -> GetCsmEgressService(o)
    [] k = "Deployment"     -> GetCsmEgressDeployment(o)

Create(k, o) ==
  \/ /\ objs[k] = Absent /\ Valid(o)
     /\ objs' = [objs EXCEPT ![k] = ObjectOf(k, o)]
     /\ UNCHANGED spent
  \/ (objs[k] # Absent \/ ~Valid(o)) /\ UNCHANGED <<objs, spent>>
  \/ Spend("fault") /\ UNCHANGED objs

Delete(k) ==
  /\ objs' = [objs EXCEPT ![k] = Absent]
  /\ \/ /\ up /\ k \in Watched
        /\ deleted[k] < MaxEvents
        /\ deleted' = [deleted EXCEPT ![k] = @ + 1]
     \/ ~(up /\ k \in Watched) /\ UNCHANGED deleted

\* The process ends, and its memory with it.
Crash ==
  /\ up' = FALSE
  /\ pc' = "idle" /\ got' = 0 /\ frames' = 0
  /\ owner' = NoOwner
  /\ deleted' = [k \in Watched |-> 0]
  /\ taken' = [k \in Watched |-> FALSE] /\ ref' = [k \in Watched |-> NoOwner]
  /\ UNCHANGED <<dep, uids, depSeen, objs, queued>>

-----------------------------------------------------------------------------
(***************************************************************************)
(* The reconcile worker: Reconcile calls Init, which creates the objects.  *)
(***************************************************************************)
Reconcile ==
  /\ up /\ pc = "idle" /\ queued
  /\ queued' = FALSE
  /\ pc' = "get"
  /\ UNCHANGED <<dep, uids, depSeen, owner, objs, hdVars, got, frames, up, spent>>

\* A Deployment found in the cache is copied field by field into the variable
\* the handlers read; one not found leaves the variable as it is.
InitGet ==
  /\ up /\ pc = "get"
  /\ \/ /\ depSeen = 0
        /\ pc' = "ServiceAccount"
        /\ UNCHANGED <<owner, got>>
     \/ /\ depSeen # 0
        /\ pc' = "copy" /\ got' = depSeen
        /\ \/ owner' = [owner EXCEPT !.named = TRUE]
           \/ owner' = [owner EXCEPT !.uid = depSeen]
  /\ UNCHANGED <<dep, uids, depSeen, objs, hdVars, frames, queued, up, spent>>

InitCopied ==
  /\ up /\ pc = "copy"
  /\ owner' = [named |-> TRUE, uid |-> got]
  /\ pc' = "ServiceAccount"
  /\ UNCHANGED <<dep, uids, depSeen, objs, hdVars, got, frames, queued, up, spent>>

\* Without an owner CreateCsmSa calls Init again, until the stack is full.
CreateCsmSa ==
  /\ up /\ pc = "ServiceAccount"
  /\ \/ /\ ~owner.named /\ frames < MaxFrames
        /\ frames' = frames + 1
        /\ pc' = "get"
        /\ UNCHANGED <<dep, uids, depSeen, owner, objs, hdVars, got, queued, up, spent>>
     \/ /\ ~owner.named /\ frames = MaxFrames
        /\ Crash /\ UNCHANGED spent
     \/ /\ owner.named
        /\ Create("ServiceAccount", owner)
        /\ pc' = "ConfigMap"
        /\ UNCHANGED <<dep, uids, depSeen, owner, hdVars, got, frames, queued, up>>

CreateCsmEgressConfigMap ==
  /\ up /\ pc = "ConfigMap"
  /\ Create("ConfigMap", owner)
  /\ pc' = "Service"
  /\ UNCHANGED <<dep, uids, depSeen, owner, hdVars, got, frames, queued, up>>

CreateCsmEgressService ==
  /\ up /\ pc = "Service"
  /\ Create("Service", owner)
  /\ pc' = "Deployment"
  /\ UNCHANGED <<dep, uids, depSeen, owner, hdVars, got, frames, queued, up>>

\* Mutant of CreateCsmEgressDeployment: the outermost Init returns twice.
ReturnTwice ==
  /\ up /\ pc = "Deployment"
  /\ Create("Deployment", owner)
  /\ pc' = IF frames > 0 THEN "ServiceAccount" ELSE "idle"
  /\ frames' = frames - 1
  /\ UNCHANGED <<dep, uids, depSeen, owner, hdVars, got, queued, up>>

\* Then Init returns: to an outer CreateCsmSa, which goes on to create, or to
\* Reconcile.
CreateCsmEgressDeployment ==
  /\ up /\ pc = "Deployment"
  /\ Create("Deployment", owner)
  /\ pc' = IF frames > 0 THEN "ServiceAccount" ELSE "idle"
  /\ frames' = IF frames > 0 THEN frames - 1 ELSE 0
  /\ UNCHANGED <<dep, uids, depSeen, owner, hdVars, got, queued, up>>

Worker ==
  \/ Reconcile \/ InitGet \/ InitCopied \/ CreateCsmSa
  \/ CreateCsmEgressConfigMap \/ CreateCsmEgressService \/ CreateCsmEgressDeployment

-----------------------------------------------------------------------------
(***************************************************************************)
(* EnqueueEgressWorkLoad.Delete, one goroutine for each watched kind.      *)
(***************************************************************************)
\* Mutant of HandleDelete: the event is dropped while the worker reconciles.
HandleDeleteIfIdle(k) ==
  /\ up /\ ~taken[k] /\ deleted[k] > 0
  /\ deleted' = [deleted EXCEPT ![k] = @ - 1]
  /\ taken' = [taken EXCEPT ![k] = (pc = "idle")]
  /\ ref' = [ref EXCEPT ![k] = IF pc = "idle" THEN owner ELSE NoOwner]
  /\ UNCHANGED <<dep, uids, depSeen, owner, objs, wkVars, queued, up, spent>>

HandleDelete(k) ==
  /\ up /\ ~taken[k] /\ deleted[k] > 0
  /\ deleted' = [deleted EXCEPT ![k] = @ - 1]
  /\ taken' = [taken EXCEPT ![k] = TRUE]
  /\ ref' = [ref EXCEPT ![k] = owner]
  /\ UNCHANGED <<dep, uids, depSeen, owner, objs, wkVars, queued, up, spent>>

CreateAgain(k) ==
  /\ up /\ taken[k]
  /\ Create(k, ref[k])
  /\ taken' = [taken EXCEPT ![k] = FALSE]
  /\ ref' = [ref EXCEPT ![k] = NoOwner]
  /\ UNCHANGED <<dep, uids, depSeen, owner, deleted, wkVars, queued, up>>

Handler(k) == HandleDelete(k) \/ CreateAgain(k)

-----------------------------------------------------------------------------
(***************************************************************************)
(* The cluster and its users.                                              *)
(***************************************************************************)
GarbageCollect(k) ==
  /\ objs[k] # Absent /\ objs[k].owner # dep
  /\ Delete(k)
  /\ UNCHANGED <<dep, uids, depSeen, owner, taken, ref, wkVars, queued, up, spent>>

\* A LazySidecar or an object derived from it is written, or the informers'
\* periodic resync delivers it again.
LazySidecarEvent ==
  /\ up /\ ~queued
  /\ queued' = TRUE
  /\ UNCHANGED <<dep, uids, depSeen, owner, objs, hdVars, wkVars, up, spent>>

DeploymentEvent ==
  /\ up /\ depSeen # dep
  /\ depSeen' = dep
  /\ UNCHANGED <<dep, uids, owner, objs, hdVars, wkVars, queued, up, spent>>

Restart ==
  /\ ~up
  /\ up' = TRUE
  /\ depSeen' = dep
  /\ queued' = TRUE
  /\ UNCHANGED <<dep, uids, owner, objs, hdVars, wkVars, spent>>

UserDeletes(k) ==
  /\ objs[k] # Absent
  /\ Spend("delete")
  /\ Delete(k)
  /\ UNCHANGED <<dep, uids, depSeen, owner, taken, ref, wkVars, queued, up>>

Deploy ==
  /\ dep = 0 /\ uids < Incarnations
  /\ dep' = uids + 1 /\ uids' = uids + 1
  /\ UNCHANGED <<depSeen, owner, objs, hdVars, wkVars, queued, up, spent>>

\* The Deployment is deleted; the process may outlive it.
Undeploy ==
  /\ dep # 0 /\ Spend("outage")
  /\ dep' = 0
  /\ UNCHANGED <<uids, depSeen, owner, objs, hdVars, wkVars, queued, up>>

Killed ==
  /\ up /\ Spend("outage")
  /\ Crash

Next ==
  \/ Worker \/ LazySidecarEvent \/ DeploymentEvent \/ Restart
  \/ \E k \in Watched : Handler(k)
  \/ \E k \in Kinds : GarbageCollect(k) \/ UserDeletes(k)
  \/ Deploy \/ Undeploy \/ Killed

Spec == Init /\ [][Next]_vars

\* The goroutines, the informers with their resync, the garbage collector and
\* the kubelet keep going.
Fairness ==
  /\ WF_vars(Worker) /\ WF_vars(Restart)
  /\ WF_vars(LazySidecarEvent) /\ WF_vars(DeploymentEvent)
  /\ \A k \in Watched : WF_vars(Handler(k))
  /\ \A k \in Kinds : WF_vars(GarbageCollect(k))

FairSpec == Spec /\ Fairness

-----------------------------------------------------------------------------
NothingToCollect == \A k \in Kinds : objs[k] = Absent \/ objs[k].owner = dep

AtRest ==
  /\ up /\ ~queued /\ pc = "idle"
  /\ \A k \in Watched : deleted[k] = 0 /\ ~taken[k]
  /\ NothingToCollect

\* No deletion goes unnoticed: whenever nothing is left to do, the watched
\* objects are there and belong to the controller's present Deployment,
\* although worker and handlers share ownerDeployment without a lock and
\* drop what the API server refuses (Delete, CreateCsmEgress*, Init).
RestoredAtRest ==
  spent["fault"] = 0 /\ AtRest =>
    \A k \in Watched : objs[k] # Absent /\ objs[k].owner = dep

\* The proxy serves: every object is there, owned by the present Deployment,
\* and every name one of them refers to is defined by another.
Serving ==
  \A k \in Kinds :
    /\ objs[k] # Absent /\ objs[k].owner = dep
    /\ \A name \in objs[k].needs : \E j \in Kinds : name \in objs[j].provides

\* Where the controller's Deployment comes and stays, the proxy gets to serve
\* for good, whatever is deleted, whenever the process ends, although the
\* handlers create objects under the owner the worker read last and although
\* a failed call is not tried again (Delete, Init).
GetsToServe ==
  <>[](dep # 0) => <>[]Serving

\* Some request for a reconcile is worked off.
ReconcileReturns == <>(up /\ ~queued /\ pc = "idle")
=============================================================================
