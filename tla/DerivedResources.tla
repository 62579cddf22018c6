------------------------ MODULE DerivedResources -------------------------
(***************************************************************************)
(* The Sidecar and the EnvoyFilter derived from one LazySidecar: their     *)
(* workload selectors and middleware ports (controllers/sidecar.go,        *)
(* controllers/envoyfilter.go, config/envoyfilter/workload_envoyfilter.tpl)*)
(*                                                                         *)
(* The hosts and the resourceVersions are in LazySidecarController; a      *)
(* write refused there is a conflict here.  What this module keeps is the  *)
(* difference between a selector that is nil and one that has labels: the  *)
(* code writes through the pointer when the LazySidecar has labels, and a  *)
(* panic of the reconcile worker ends the process.                         *)
(***************************************************************************)
EXTENDS Naturals, Sequences

CONSTANTS
  Selectors,      \* the workloadSelectors users write
  NoLabels,       \* the one without labels
  Nil,            \* a nil pointer to a selector
  ServiceLists,   \* the middlewareLists users write, as sequences of ports
  UserBudget,     \* how often users write
  FaultBudget     \* how often a write is refused, or the process killed

ASSUME DerivedAssumption ==
  /\ Nil \notin Selectors \cup {NoLabels}
  /\ ServiceLists \subseteq Seq(Nat)
  /\ UserBudget \in Nat /\ FaultBudget \in Nat

VARIABLES
  ls,       \* the stored LazySidecar
  seen,     \* the informer's copy of it
  queued,   \* its name is in the work queue
  pc, inst, \* the reconcile worker and its copy of the LazySidecar
  sidecar,  \* the stored Sidecar
  filter,   \* the stored EnvoyFilter
  up,       \* the process runs
  writes, faults

vars == <<ls, seen, queued, pc, inst, sidecar, filter, up, writes, faults>>

NoSpec == [live |-> FALSE, selector |-> NoLabels, services |-> <<>>]
NoSidecar == [live |-> FALSE, selector |-> Nil]
NoPatches == [exempt |-> <<>>, chains |-> FALSE]
NoFilter == [live |-> FALSE, selector |-> Nil, patches |-> NoPatches]

LazySidecarSpec ==
  [live: BOOLEAN, selector: Selectors \cup {NoLabels}, services: ServiceLists \cup {<<>>}]
Pointer == Selectors \cup {NoLabels, Nil}
Sidecar == [live: BOOLEAN, selector: Pointer]
Patches == [exempt: ServiceLists \cup {<<>>}, chains: BOOLEAN]
EnvoyFilter == [live: BOOLEAN, selector: Pointer, patches: Patches]

\* Every specification, object, copy and place of the worker has its type.
TypeOK ==
  /\ ls \in LazySidecarSpec /\ seen \in LazySidecarSpec /\ inst \in LazySidecarSpec
  /\ pc \in {"idle", "sidecar", "filter"}
  /\ sidecar \in Sidecar /\ filter \in EnvoyFilter
  /\ queued \in BOOLEAN /\ up \in BOOLEAN
  /\ writes \in 0..UserBudget /\ faults \in 0..FaultBudget

Init ==
  /\ ls = NoSpec /\ seen = NoSpec /\ inst = NoSpec
  /\ sidecar = NoSidecar /\ filter = NoFilter
  /\ pc = "idle" /\ queued = FALSE /\ up = TRUE
  /\ writes = 0 /\ faults = 0

-----------------------------------------------------------------------------
(***************************************************************************)
(* What the code computes.                                                 *)
(***************************************************************************)

\* Writing labels through a nil pointer.
Panics(want, pointer) == want # NoLabels /\ pointer = Nil

\* The same code in syncWorkloadSelectorToSidecar and
\* syncWorkloadSelectorToEnvoyFilter.
syncWorkloadSelector(want) == IF want = NoLabels THEN Nil ELSE want

\* The template.  With two services or more it calls inc with two arguments,
\* which fails when executed: the text ends in the middle of the first patch,
\* before the filter chains and the selector, and is used as it is.
EnvoyFilterTemplate(spec) ==
  IF Len(spec.services) > 1
  THEN [selector |-> Nil, patches |-> NoPatches]
  ELSE [selector |-> spec.selector, patches |-> [exempt |-> spec.services, chains |-> TRUE]]

constructSidecarForLazySidecar(spec) ==
  [live |-> TRUE, selector |-> syncWorkloadSelector(spec.selector)]

\* Mutant of constructEnvoyFilterForLazySidecar: only the new object's kind.
constructBareEnvoyFilter(spec) == [live |-> TRUE]

constructEnvoyFilterForLazySidecar(spec) ==
  [live |-> TRUE, selector |-> EnvoyFilterTemplate(spec).selector,
   patches |-> EnvoyFilterTemplate(spec).patches]

-----------------------------------------------------------------------------
(***************************************************************************)
(* The reconcile worker.  A write that changes the object makes an event   *)
(* that queues the LazySidecar again; so does the write of someone else    *)
(* that had ours refused.                                                  *)
(***************************************************************************)
Refused ==
  /\ faults < FaultBudget
  /\ faults' = faults + 1
  /\ queued' = TRUE
  /\ UNCHANGED <<sidecar, filter>>

Crash ==
  /\ up' = FALSE
  /\ pc' = "idle"
  /\ UNCHANGED <<ls, seen, queued, inst, sidecar, filter>>

Reconcile ==
  /\ up /\ pc = "idle" /\ queued
  /\ queued' = FALSE
  /\ pc' = IF seen.live THEN "sidecar" ELSE "idle"
  /\ inst' = IF seen.live THEN seen ELSE NoSpec
  /\ UNCHANGED <<ls, seen, sidecar, filter, up, writes, faults>>

WriteSidecar(new) ==
  /\ pc' = "filter"
  /\ \/ /\ sidecar' = new
        /\ queued' = (queued \/ new # sidecar)
        /\ UNCHANGED <<filter, faults>>
     \/ Refused
  /\ UNCHANGED <<ls, seen, inst, up, writes>>

\* Mutant of ReconcileSidecar: an existing Sidecar keeps its selector.
KeepSidecar ==
  /\ up /\ pc = "sidecar"
  /\ WriteSidecar(IF sidecar.live THEN sidecar ELSE constructSidecarForLazySidecar(inst))

ReconcileSidecar ==
  /\ up /\ pc = "sidecar"
  /\ \/ ~sidecar.live /\ WriteSidecar(constructSidecarForLazySidecar(inst))
     \/ /\ sidecar.live /\ ~Panics(inst.selector, sidecar.selector)
        /\ WriteSidecar([sidecar EXCEPT !.selector = syncWorkloadSelector(inst.selector)])
     \/ /\ sidecar.live /\ Panics(inst.selector, sidecar.selector)
        /\ Crash /\ UNCHANGED <<writes, faults>>

WriteFilter(new) ==
  /\ pc' = "idle" /\ inst' = NoSpec
  /\ \/ /\ filter' = new
        /\ queued' = (queued \/ new # filter)
        /\ UNCHANGED <<sidecar, faults>>
     \/ Refused
  /\ UNCHANGED <<ls, seen, up, writes>>

\* Mutant of ReconcileEnvoyFilter: the selector is always cleared.
ClearFilterSelector ==
  /\ up /\ pc = "filter"
  /\ WriteFilter([constructEnvoyFilterForLazySidecar(inst) EXCEPT !.selector = Nil])

\* The rest of Reconcile touches neither object.
ReconcileEnvoyFilter ==
  /\ up /\ pc = "filter"
  /\ \/ ~filter.live /\ WriteFilter(constructEnvoyFilterForLazySidecar(inst))
     \/ /\ filter.live /\ ~Panics(inst.selector, filter.selector)
        /\ WriteFilter([filter EXCEPT !.selector = syncWorkloadSelector(inst.selector),
                                      !.patches = EnvoyFilterTemplate(inst).patches])
     \/ /\ filter.live /\ Panics(inst.selector, filter.selector)
        /\ Crash /\ UNCHANGED <<writes, faults>>

-----------------------------------------------------------------------------
(***************************************************************************)
(* The cluster and its users.                                              *)
(***************************************************************************)
\* Mutant of LazySidecarEvent: the cache is updated, nothing is queued.
LazySidecarUnnoticed ==
  /\ up /\ seen # ls
  /\ seen' = ls
  /\ UNCHANGED <<ls, queued, pc, inst, sidecar, filter, up, writes, faults>>

LazySidecarEvent ==
  /\ up /\ seen # ls
  /\ seen' = ls
  /\ queued' = TRUE
  /\ UNCHANGED <<ls, pc, inst, sidecar, filter, up, writes, faults>>

Write == writes < UserBudget /\ writes' = writes + 1

UserWrites ==
  /\ Write
  /\ \E selector \in Selectors, services \in ServiceLists :
       ls' = [live |-> TRUE, selector |-> selector, services |-> services]
  /\ UNCHANGED <<seen, queued, pc, inst, sidecar, filter, up, faults>>

UserDeletes ==
  /\ ls.live /\ Write
  /\ ls' = NoSpec
  /\ UNCHANGED <<seen, queued, pc, inst, sidecar, filter, up, faults>>

\* The derived objects are deleted, by a user or, when the LazySidecar is
\* gone, by the garbage collector.
DerivedDeleted ==
  /\ \/ sidecar.live /\ sidecar' = NoSidecar /\ UNCHANGED filter
     \/ filter.live /\ filter' = NoFilter /\ UNCHANGED sidecar
  /\ IF ls.live THEN Write ELSE UNCHANGED writes
  /\ queued' = TRUE
  /\ UNCHANGED <<ls, seen, pc, inst, up, faults>>

Killed ==
  /\ up /\ faults < FaultBudget
  /\ faults' = faults + 1
  /\ Crash /\ UNCHANGED writes

\* The kubelet starts the process again; the first listing of LazySidecars
\* and of derived objects queues the names found.
Restart ==
  /\ ~up
  /\ up' = TRUE
  /\ seen' = ls /\ inst' = NoSpec
  /\ queued' = (ls.live \/ sidecar.live \/ filter.live)
  /\ UNCHANGED <<ls, pc, sidecar, filter, writes, faults>>

Next ==
  \/ Reconcile \/ ReconcileSidecar \/ ReconcileEnvoyFilter
  \/ LazySidecarEvent \/ Restart
  \/ UserWrites \/ UserDeletes \/ DerivedDeleted \/ Killed

Spec == Init /\ [][Next]_vars

\* The worker, the informer and the kubelet keep going.
Fairness ==
  /\ WF_vars(Reconcile \/ ReconcileSidecar \/ ReconcileEnvoyFilter)
  /\ WF_vars(LazySidecarEvent)
  /\ WF_vars(Restart)

FairSpec == Spec /\ Fairness

-----------------------------------------------------------------------------
\* Sidecar and EnvoyFilter select the workloads the LazySidecar selects, and
\* the EnvoyFilter exempts the middleware ports from protocol detection.
InSync ==
  ls.live =>
    /\ sidecar.live /\ sidecar.selector = syncWorkloadSelector(ls.selector)
    /\ filter.live /\ filter.selector = syncWorkloadSelector(ls.selector)
    /\ filter.patches = [exempt |-> ls.services, chains |-> TRUE]

AtRest == up /\ ~queued /\ seen = ls /\ pc = "idle"

\* Whenever there is nothing left to do, the derived objects are in sync: no
\* refused write, deletion by hand, crash or edit during a reconcile leaves
\* them behind (Reconcile, ReconcileSidecar, ReconcileEnvoyFilter).
RestsInSync == AtRest => InSync

\* Once users stop writing, the derived objects get in sync and stay so.
GetsInSync == <>[]InSync

\* A worker that finds a Sidecar or EnvoyFilter without selector for a
\* LazySidecar with labels panics, in every process anew.
Stuck ==
  /\ ls.live
  /\ \/ sidecar.live /\ Panics(ls.selector, sidecar.selector)
     \/ filter.live /\ Panics(ls.selector, filter.selector)

\* That nil selector is all that keeps the controller from its goal: whatever
\* is refused, deleted or killed, the derived objects get in sync or the worker
\* is stuck on it (ReconcileSidecar, ReconcileEnvoyFilter).
SyncedOrStuck == <>[]InSync \/ <>[]Stuck

\* An EnvoyFilter never reaches beyond its LazySidecar: the worker writes one
\* without selector, which applies to the whole namespace, for a LazySidecar
\* without labels alone (constructEnvoyFilterForLazySidecar and its template).
FilterSelects ==
  [][filter' # filter /\ filter'.live /\ filter'.selector = Nil
       => inst.selector = NoLabels]_vars
=============================================================================
