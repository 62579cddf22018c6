---------------------- MODULE DerivedResourcesProofs ----------------------
(***************************************************************************)
(* Proofs about DerivedResources, for every set of selectors, every set of *)
(* service lists and every number of writes and faults.                    *)
(***************************************************************************)
EXTENDS DerivedResources, SequenceTheorems, TLAPS

USE DerivedAssumption

-----------------------------------------------------------------------------
(***************************************************************************)
(* Type correctness.                                                       *)
(***************************************************************************)
\* Every service list is a sequence.
LEMMA ServicesType ==
  ASSUME NEW spec \in LazySidecarSpec
  PROVE  Len(spec.services) \in Nat
<1>1. <<>> \in Seq(Nat)
  BY EmptySeq
<1>2. spec.services \in Seq(Nat)
  BY <1>1 DEF LazySidecarSpec
<1> QED BY <1>2, LenProperties

\* What the code computes from a LazySidecar has its type; a selector copied by
\* syncWorkloadSelector is nil exactly for a LazySidecar without labels.
LEMMA ComputedTypes ==
  ASSUME NEW spec \in LazySidecarSpec
  PROVE  /\ syncWorkloadSelector(spec.selector) \in Pointer
         /\ syncWorkloadSelector(spec.selector) = Nil <=> spec.selector = NoLabels
         /\ EnvoyFilterTemplate(spec) \in [selector: Pointer, patches: Patches]
         /\ constructSidecarForLazySidecar(spec) \in Sidecar
         /\ constructEnvoyFilterForLazySidecar(spec) \in EnvoyFilter
<1>1. /\ syncWorkloadSelector(spec.selector) \in Pointer
      /\ syncWorkloadSelector(spec.selector) = Nil <=> spec.selector = NoLabels
  BY DEF syncWorkloadSelector, LazySidecarSpec, Pointer
<1>2. EnvoyFilterTemplate(spec) \in [selector: Pointer, patches: Patches]
  BY DEF EnvoyFilterTemplate, NoPatches, LazySidecarSpec, Pointer, Patches
<1>3. constructSidecarForLazySidecar(spec) \in Sidecar
  BY <1>1 DEF constructSidecarForLazySidecar, Sidecar
<1>4. constructEnvoyFilterForLazySidecar(spec) \in EnvoyFilter
  BY <1>2 DEF constructEnvoyFilterForLazySidecar, EnvoyFilter
<1> QED BY <1>1, <1>2, <1>3, <1>4

\* The empty objects are objects.
LEMMA EmptyTypes == NoSpec \in LazySidecarSpec /\ NoSidecar \in Sidecar /\ NoFilter \in EnvoyFilter
BY DEF NoSpec, NoSidecar, NoFilter, NoPatches, LazySidecarSpec, Sidecar, EnvoyFilter, Pointer, Patches

\* A refused write queues the LazySidecar and changes no object.
LEMMA RefusedEffect ==
  ASSUME TypeOK, Refused
  PROVE  /\ faults' \in 0..FaultBudget
         /\ queued'
         /\ queued' \in BOOLEAN
         /\ sidecar' = sidecar /\ filter' = filter
BY DEF TypeOK, Refused

\* A write of the Sidecar stores it, and queues the LazySidecar if that changes
\* anything, or is refused.
LEMMA WriteSidecarEffect ==
  ASSUME TypeOK, NEW new \in Sidecar, WriteSidecar(new)
  PROVE  /\ faults' \in 0..FaultBudget
         /\ sidecar' \in Sidecar
         /\ queued' \in BOOLEAN
         /\ pc' = "filter" /\ filter' = filter
         /\ UNCHANGED <<ls, seen, inst, up, writes>>
         /\ ~queued' => ~queued /\ sidecar' = new /\ sidecar = new
<1>1. pc' = "filter" /\ UNCHANGED <<ls, seen, inst, up, writes>>
  BY DEF WriteSidecar
<1>2. CASE /\ sidecar' = new
           /\ queued' = (queued \/ new # sidecar)
           /\ UNCHANGED <<filter, faults>>
  <2>1. queued' \in BOOLEAN /\ (~queued' => ~queued /\ sidecar = new)
    BY <1>2, Zenon
  <2> QED BY <1>1, <1>2, <2>1 DEF TypeOK
<1>3. CASE Refused
  BY <1>1, <1>3, RefusedEffect DEF TypeOK
<1> QED BY <1>2, <1>3 DEF WriteSidecar

\* Likewise for the EnvoyFilter.
LEMMA WriteFilterEffect ==
  ASSUME TypeOK, NEW new \in EnvoyFilter, WriteFilter(new)
  PROVE  /\ faults' \in 0..FaultBudget
         /\ filter' \in EnvoyFilter
         /\ queued' \in BOOLEAN
         /\ pc' = "idle" /\ inst' = NoSpec /\ sidecar' = sidecar
         /\ UNCHANGED <<ls, seen, up, writes>>
         /\ ~queued' => ~queued /\ filter' = new /\ filter = new
<1>1. pc' = "idle" /\ inst' = NoSpec /\ UNCHANGED <<ls, seen, up, writes>>
  BY DEF WriteFilter
<1>2. CASE /\ filter' = new
           /\ queued' = (queued \/ new # filter)
           /\ UNCHANGED <<sidecar, faults>>
  <2>1. queued' \in BOOLEAN /\ (~queued' => ~queued /\ filter = new)
    BY <1>2, Zenon
  <2> QED BY <1>1, <1>2, <2>1 DEF TypeOK
<1>3. CASE Refused
  BY <1>1, <1>3, RefusedEffect DEF TypeOK
<1> QED BY <1>2, <1>3 DEF WriteFilter

\* A step keeps the types.
LEMMA StepType ==
  ASSUME TypeOK, [Next]_vars
  PROVE  TypeOK'
<1> USE DEF TypeOK
<1>1. ASSUME Reconcile PROVE TypeOK'
  BY <1>1, EmptyTypes DEF Reconcile
<1>2. ASSUME NEW new \in Sidecar, WriteSidecar(new) PROVE TypeOK'
  BY <1>2, WriteSidecarEffect
<1>3. ASSUME NEW new \in EnvoyFilter, WriteFilter(new) PROVE TypeOK'
  BY <1>3, WriteFilterEffect, EmptyTypes
<1>4. ASSUME ReconcileSidecar PROVE TypeOK'
  <2>1. CASE WriteSidecar(constructSidecarForLazySidecar(inst))
    BY <2>1, <1>2, ComputedTypes
  <2>2. CASE WriteSidecar([sidecar EXCEPT !.selector = syncWorkloadSelector(inst.selector)])
    <3>1. [sidecar EXCEPT !.selector = syncWorkloadSelector(inst.selector)] \in Sidecar
      BY ComputedTypes DEF Sidecar
    <3> QED BY <2>2, <3>1, <1>2
  <2>3. CASE Crash /\ UNCHANGED <<writes, faults>>
    BY <2>3 DEF Crash
  <2> QED BY <1>4, <2>1, <2>2, <2>3 DEF ReconcileSidecar
<1>5. ASSUME ReconcileEnvoyFilter PROVE TypeOK'
  <2>1. CASE WriteFilter(constructEnvoyFilterForLazySidecar(inst))
    BY <2>1, <1>3, ComputedTypes
  <2>2. CASE WriteFilter([filter EXCEPT !.selector = syncWorkloadSelector(inst.selector),
                                        !.patches = EnvoyFilterTemplate(inst).patches])
    <3>1. [filter EXCEPT !.selector = syncWorkloadSelector(inst.selector),
                         !.patches = EnvoyFilterTemplate(inst).patches] \in EnvoyFilter
      BY ComputedTypes DEF EnvoyFilter
    <3> QED BY <2>2, <3>1, <1>3
  <2>3. CASE Crash /\ UNCHANGED <<writes, faults>>
    BY <2>3 DEF Crash
  <2> QED BY <1>5, <2>1, <2>2, <2>3 DEF ReconcileEnvoyFilter
<1>6. ASSUME LazySidecarEvent \/ Restart PROVE TypeOK'
  BY <1>6, EmptyTypes DEF LazySidecarEvent, Restart
<1>7. ASSUME UserWrites PROVE TypeOK'
  <2>1. ls' \in LazySidecarSpec
    BY <1>7 DEF UserWrites, LazySidecarSpec
  <2> QED BY <1>7, <2>1 DEF UserWrites, Write
<1>8. ASSUME UserDeletes \/ DerivedDeleted PROVE TypeOK'
  <2>1. writes' \in 0..UserBudget
    BY <1>8 DEF UserDeletes, DerivedDeleted, Write
  <2>2. sidecar' \in Sidecar /\ filter' \in EnvoyFilter
    BY <1>8, EmptyTypes DEF UserDeletes, DerivedDeleted
  <2> QED BY <1>8, <2>1, <2>2, EmptyTypes DEF UserDeletes, DerivedDeleted
<1>9. ASSUME Killed PROVE TypeOK'
  <2>1. faults' \in 0..FaultBudget
    BY <1>9 DEF Killed
  <2> QED BY <1>9, <2>1 DEF Killed, Crash
<1>10. CASE UNCHANGED vars
  BY <1>10 DEF vars
<1> QED BY <1>1, <1>4, <1>5, <1>6, <1>7, <1>8, <1>9, <1>10 DEF Next

\* Specification, pointers and objects have their types in every state.
THEOREM DerivedTypeCorrect == Spec => []TypeOK
<1>1. Init => TypeOK
  <2>1. 0 \in 0..UserBudget /\ 0 \in 0..FaultBudget
    OBVIOUS
  <2> QED BY <2>1, EmptyTypes DEF Init, TypeOK
<1> QED BY <1>1, StepType, PTL DEF Spec

-----------------------------------------------------------------------------
(***************************************************************************)
(* The worker leaves nothing behind.                                       *)
(***************************************************************************)
\* The objects are as the worker derives them from a LazySidecar.
SidecarOf(spec) == sidecar.live /\ sidecar.selector = syncWorkloadSelector(spec.selector)

FilterOf(spec) ==
  /\ filter.live /\ filter.selector = syncWorkloadSelector(spec.selector)
  /\ filter.patches = EnvoyFilterTemplate(spec).patches

\* What the worker has done so far stands, unless it is queued to do it again:
\* it works on the informer's copy, the Sidecar is derived from that when the
\* worker comes to the EnvoyFilter, and both are when it has finished.
WorkStands ==
  /\ ~up => pc = "idle"
  /\ up /\ ~queued =>
       /\ pc # "idle" => inst = seen
       /\ pc = "filter" => SidecarOf(inst)
       /\ pc = "idle" /\ seen.live => SidecarOf(seen) /\ FilterOf(seen)

\* A write of an object either leaves it as derived or queues the LazySidecar.
LEMMA SidecarWriteStands ==
  ASSUME TypeOK, WorkStands, ReconcileSidecar
  PROVE  WorkStands'
<1> USE DEF TypeOK
<1>1. ASSUME NEW new \in Sidecar, WriteSidecar(new), up, pc = "sidecar",
             new.live, new.selector = syncWorkloadSelector(inst.selector)
      PROVE  WorkStands'
  BY <1>1, WriteSidecarEffect DEF WorkStands, SidecarOf
<1>2. CASE WriteSidecar(constructSidecarForLazySidecar(inst))
  BY <1>1, <1>2, ComputedTypes DEF ReconcileSidecar, constructSidecarForLazySidecar
<1>3. CASE /\ sidecar.live
           /\ WriteSidecar([sidecar EXCEPT !.selector = syncWorkloadSelector(inst.selector)])
  <2> DEFINE new == [sidecar EXCEPT !.selector = syncWorkloadSelector(inst.selector)]
  <2>1. new \in Sidecar /\ new.live /\ new.selector = syncWorkloadSelector(inst.selector)
    BY <1>3, ComputedTypes DEF Sidecar
  <2>2. up /\ pc = "sidecar" /\ WriteSidecar(new)
    BY <1>3 DEF ReconcileSidecar
  <2> HIDE DEF new
  <2> QED BY <2>1, <2>2, <1>1
<1>4. CASE Crash
  BY <1>4 DEF Crash, WorkStands
<1> QED BY <1>2, <1>3, <1>4 DEF ReconcileSidecar

\* The same for the EnvoyFilter, with which the reconcile ends.
LEMMA FilterWriteStands ==
  ASSUME TypeOK, WorkStands, ReconcileEnvoyFilter
  PROVE  WorkStands'
<1> USE DEF TypeOK
<1>1. up /\ pc = "filter"
  BY DEF ReconcileEnvoyFilter
<1>2. CASE ~filter.live /\ WriteFilter(constructEnvoyFilterForLazySidecar(inst))
  <2> DEFINE new == constructEnvoyFilterForLazySidecar(inst)
  <2>1. new \in EnvoyFilter /\ new.live
    BY ComputedTypes DEF constructEnvoyFilterForLazySidecar
  <2>2. WriteFilter(new) /\ new # filter
    BY <1>2, <2>1
  <2> HIDE DEF new
  <2> QED BY <1>1, <2>1, <2>2, WriteFilterEffect DEF WorkStands
<1>3. CASE /\ filter.live
           /\ WriteFilter([filter EXCEPT !.selector = syncWorkloadSelector(inst.selector),
                                         !.patches = EnvoyFilterTemplate(inst).patches])
  <2> DEFINE new == [filter EXCEPT !.selector = syncWorkloadSelector(inst.selector),
                                   !.patches = EnvoyFilterTemplate(inst).patches]
  <2>1. /\ new \in EnvoyFilter
        /\ new.live /\ new.selector = syncWorkloadSelector(inst.selector)
        /\ new.patches = EnvoyFilterTemplate(inst).patches
    BY <1>3, ComputedTypes DEF EnvoyFilter
  <2>2. WriteFilter(new)
    BY <1>3
  <2> HIDE DEF new
  <2> QED BY <1>1, <2>1, <2>2, WriteFilterEffect DEF WorkStands, SidecarOf, FilterOf
<1>4. CASE Crash
  BY <1>4 DEF Crash, WorkStands
<1> QED BY <1>2, <1>3, <1>4 DEF ReconcileEnvoyFilter

\* A step keeps what the worker has done.
LEMMA StepStands ==
  ASSUME TypeOK, WorkStands, [Next]_vars
  PROVE  WorkStands'
<1> USE DEF TypeOK, WorkStands, SidecarOf, FilterOf
<1>1. ASSUME Reconcile PROVE WorkStands'
  BY <1>1 DEF Reconcile
<1>2. ASSUME LazySidecarEvent PROVE WorkStands'
  BY <1>2 DEF LazySidecarEvent
<1>3. ASSUME Restart PROVE WorkStands'
  BY <1>3 DEF Restart
<1>4. ASSUME UserWrites \/ UserDeletes PROVE WorkStands'
  BY <1>4 DEF UserWrites, UserDeletes
<1>5. ASSUME DerivedDeleted PROVE WorkStands'
  BY <1>5 DEF DerivedDeleted
<1>6. ASSUME Killed PROVE WorkStands'
  BY <1>6 DEF Killed, Crash
<1>7. CASE UNCHANGED vars
  BY <1>7 DEF vars
<1> QED BY SidecarWriteStands, FilterWriteStands, <1>1, <1>2, <1>3, <1>4, <1>5, <1>6, <1>7 DEF Next

\* Whenever nothing is left to do and the LazySidecar names one service at
\* most, Sidecar and EnvoyFilter are in sync with it: no refused write, deletion
\* by hand, crash or edit during a reconcile leaves them behind (Reconcile).
THEOREM DerivedRestsInSync == Spec => [](Len(ls.services) <= 1 => RestsInSync)
<1>1. Init => WorkStands
  BY DEF Init, NoSpec, WorkStands
<1>2. TypeOK /\ WorkStands => (Len(ls.services) <= 1 => RestsInSync)
  <2> SUFFICES ASSUME TypeOK, WorkStands, Len(ls.services) <= 1, AtRest, ls.live
               PROVE  InSync
    BY DEF RestsInSync, InSync
  <2>1. SidecarOf(ls) /\ FilterOf(ls)
    BY DEF AtRest, WorkStands
  <2>2. ~(Len(ls.services) > 1)
    BY ServicesType DEF TypeOK
  <2> QED BY <2>1, <2>2 DEF SidecarOf, FilterOf, InSync, EnvoyFilterTemplate
<1> QED BY <1>1, <1>2, StepStands, DerivedTypeCorrect, PTL DEF Spec

-----------------------------------------------------------------------------
(***************************************************************************)
(* What the EnvoyFilter selects.                                           *)
(***************************************************************************)
\* A LazySidecar, or a copy of it, names one service at most.
OneService(spec) == Len(spec.services) <= 1

\* The copies inherit this from the LazySidecar.
CopiesHaveOneService == OneService(seen) /\ OneService(inst)

\* As long as users name one service at most, no EnvoyFilter without selector
\* is written for a LazySidecar with labels: the filter of a selection is never
\* applied to the whole namespace (ReconcileEnvoyFilter and its template).
THEOREM DerivedFilterSelects == Spec /\ []OneService(ls) => FilterSelects
<1>1. OneService(NoSpec)
  BY EmptySeq DEF OneService, NoSpec
<1>2. Init => CopiesHaveOneService
  BY <1>1 DEF Init, CopiesHaveOneService
<1>3. OneService(ls) /\ CopiesHaveOneService /\ [Next]_vars => CopiesHaveOneService'
  <2> SUFFICES ASSUME OneService(ls), CopiesHaveOneService, [Next]_vars
               PROVE  seen' \in {seen, ls} /\ inst' \in {inst, seen, NoSpec}
    BY <1>1 DEF CopiesHaveOneService
  <2>1. CASE Reconcile
    BY <2>1 DEF Reconcile
  <2>2. CASE ReconcileSidecar
    BY <2>2 DEF ReconcileSidecar, WriteSidecar, Crash
  <2>3. CASE ReconcileEnvoyFilter
    BY <2>3 DEF ReconcileEnvoyFilter, WriteFilter, Crash
  <2>4. CASE LazySidecarEvent \/ Restart
    BY <2>4 DEF LazySidecarEvent, Restart
  <2>5. CASE UserWrites \/ UserDeletes \/ DerivedDeleted \/ Killed
    BY <2>5 DEF UserWrites, UserDeletes, DerivedDeleted, Killed, Crash
  <2>6. CASE UNCHANGED vars
    BY <2>6 DEF vars
  <2> QED BY <2>1, <2>2, <2>3, <2>4, <2>5, <2>6 DEF Next
<1>4. TypeOK /\ CopiesHaveOneService /\ [Next]_vars =>
        [filter' # filter /\ filter'.live /\ filter'.selector = Nil
           => inst.selector = NoLabels]_vars
  <2> SUFFICES ASSUME TypeOK, OneService(inst), Next,
                      filter' # filter, filter'.live, filter'.selector = Nil
               PROVE  inst.selector = NoLabels
    BY DEF CopiesHaveOneService
  <2> USE DEF TypeOK
  <2>1. ReconcileEnvoyFilter
    BY DEF Next, Reconcile, ReconcileSidecar, WriteSidecar, Refused, Crash, LazySidecarEvent,
           Restart, UserWrites, UserDeletes, DerivedDeleted, Killed, NoFilter
  <2>2. ~(Len(inst.services) > 1)
    BY ServicesType DEF OneService
  <2>3. CASE WriteFilter(constructEnvoyFilterForLazySidecar(inst))
    <3>1. filter' = constructEnvoyFilterForLazySidecar(inst)
      BY <2>3 DEF WriteFilter, Refused
    <3>2. filter'.selector = inst.selector
      BY <2>2, <3>1 DEF constructEnvoyFilterForLazySidecar, EnvoyFilterTemplate
    <3> QED BY <3>2 DEF LazySidecarSpec
  <2>4. CASE WriteFilter([filter EXCEPT !.selector = syncWorkloadSelector(inst.selector),
                                        !.patches = EnvoyFilterTemplate(inst).patches])
    <3>1. filter' = [filter EXCEPT !.selector = syncWorkloadSelector(inst.selector),
                                   !.patches = EnvoyFilterTemplate(inst).patches]
      BY <2>4 DEF WriteFilter, Refused
    <3>2. filter'.selector = syncWorkloadSelector(inst.selector)
      BY <3>1 DEF EnvoyFilter
    <3> QED BY <3>2, ComputedTypes
  <2> QED BY <2>1, <2>3, <2>4 DEF ReconcileEnvoyFilter, Crash
<1> QED BY <1>2, <1>3, <1>4, DerivedTypeCorrect, PTL DEF Spec, FilterSelects

=============================================================================
