---------------------- MODULE LazySidecarController ----------------------
(***************************************************************************)
(* The lists of egress hosts kept by the lazysidecar controller.           *)
(*                                                                         *)
(* A LazySidecar object holds in spec.egressHosts the hosts its workloads  *)
(* may call; the controller copies them into a derived Istio Sidecar.      *)
(* Three kinds of goroutine of the controller process write these objects: *)
(*                                                                         *)
(*   - the reconcile worker   (controllers/lazysidecar_controller.go and   *)
(*                             controllers/sidecar.go),                    *)
(*   - the ServiceEntry event handler (controllers/enqueue_serviceentry.go)*)
(*   - one goroutine per HTTP report  (internal/routers/v1/invocation.go). *)
(*                                                                         *)
(* They share no lock.  Each reads through the manager's client, whose     *)
(* reads are served by a watch-fed cache and whose writes go to the API    *)
(* server, which refuses a write based on an old resourceVersion.  Every   *)
(* write error is logged and dropped.                                      *)
(*                                                                         *)
(* Host lists are sets here; the sequence algorithms behind them are in    *)
(* module HostLists.  The EnvoyFilter, the workload selector and the       *)
(* egress workload, which share no state with the host lists, are left to  *)
(* other modules.                                                          *)
(***************************************************************************)
EXTENDS Naturals, Sequences, FiniteSets

CONSTANTS
  LazySidecars,     \* names of LazySidecar objects
  NoName,           \* no LazySidecar
  ServiceEntries,   \* names of Istio ServiceEntry objects
  SeHosts,          \* qualified hosts a ServiceEntry may export
  SvcHosts,         \* qualified hosts ParseHost makes of reported calls
  DefaultHost,      \* DEFAULT_HOST, "istio-system/*"
  MiddlewareHosts,  \* hosts of each LazySidecar's MiddlewareList
  Requests,         \* concurrent HTTP reports
  Matched,          \* the LazySidecars that select each report's workload
  UserHosts,        \* the host sets a user may write
  Budget            \* how often each kind of outside event may happen

Hosts == SeHosts \cup SvcHosts

(***************************************************************************)
(* Outside events: a user writes an object, a ServiceEntry changes, a      *)
(* workload calls a host, the wall clock reaches the next second, the      *)
(* garbage collector deletes a Sidecar, the process restarts, an API call  *)
(* fails for no reason of the caller's.                                    *)
(***************************************************************************)
EnvKinds == {"user", "se", "call", "tick", "gc", "crash", "fault"}

ASSUME ControllerAssumption ==
  /\ NoName \notin LazySidecars
  /\ DefaultHost \notin Hosts
  /\ IsFiniteSet(ServiceEntries)
  /\ MiddlewareHosts \in [LazySidecars -> SUBSET Hosts]
  /\ Matched \in [Requests -> SUBSET LazySidecars]
  /\ UserHosts \subseteq SUBSET Hosts
  /\ Budget \in [EnvKinds -> Nat]

VARIABLES
  ls,        \* LazySidecar objects stored by the API server
  lsWatch,   \* their versions the LazySidecar informer has yet to receive
  lsCache,   \* the informer's copy
  sc,        \* derived Sidecar objects stored by the API server
  scWatch,   \* their versions the Sidecar informer has yet to receive
  scCache,   \* the informer's copy
  se,        \* hosts exported by each ServiceEntry, {} if there is none
  seWatch,   \* ServiceEntry writes the informer has yet to receive
  seCache,   \* the informer's copy
  seEvents,  \* events the ServiceEntry handler has yet to handle
  queue,     \* the controller's work queue
  wk,        \* the reconcile worker
  hd,        \* the ServiceEntry handler
  rq,        \* the HTTP reports
  spent      \* how often each kind of outside event has happened

lsVars == <<ls, lsWatch>>
scVars == <<sc, scWatch>>
seVars == <<se, seWatch, seCache>>
vars == <<lsVars, lsCache, scVars, scCache, seVars, seEvents, queue, wk, hd, rq, spent>>

-----------------------------------------------------------------------------
(***************************************************************************)
(* Objects.  A deleted object keeps its place, with live = FALSE, so that  *)
(* resourceVersions (rv) only grow; the uid is the rv at creation.         *)
(***************************************************************************)
Status == [succeed: BOOLEAN, upstream: SUBSET (Hosts \cup {DefaultHost}), ts: Nat]
LazySidecar == [live: BOOLEAN, rv: Nat, uid: Nat, hosts: SUBSET Hosts, status: Status]
Sidecar == [live: BOOLEAN, rv: Nat, owner: Nat, hosts: SUBSET (Hosts \cup {DefaultHost})]
SeWrite == [se: ServiceEntries, hosts: SUBSET SeHosts]
SeEvent == [old: SUBSET SeHosts, new: SUBSET SeHosts]

NoStatus == [succeed |-> FALSE, upstream |-> {}, ts |-> 0]
NoLs == [live |-> FALSE, rv |-> 0, uid |-> 0, hosts |-> {}, status |-> NoStatus]
NoSc == [live |-> FALSE, rv |-> 0, owner |-> 0, hosts |-> {}]
NoList == [n \in LazySidecars |-> NoLs]

WorkerIdle == [pc |-> "idle", n |-> NoName, inst |-> NoLs, sc |-> NoSc, seHosts |-> {}]
HandlerIdle == [pc |-> "idle", old |-> {}, new |-> {}, list |-> NoList, n |-> NoName, sc |-> NoSc]
RequestIdle == [hosts |-> {}, list |-> NoList]

WorkerPc == {"idle", "getSidecar", "createSidecar", "updateSidecar", "listSe",
             "rewriteHosts", "getStatus", "updateStatus"}
HandlerPc == {"idle", "remove", "getDerived", "updateDerived", "add"}

LsTypeOK ==
  /\ ls \in [LazySidecars -> LazySidecar]
  /\ lsWatch \in [LazySidecars -> Seq(LazySidecar)]
  /\ lsCache \in [LazySidecars -> LazySidecar]

ScTypeOK ==
  /\ sc \in [LazySidecars -> Sidecar]
  /\ scWatch \in [LazySidecars -> Seq(Sidecar)]
  /\ scCache \in [LazySidecars -> Sidecar]

SeTypeOK ==
  /\ se \in [ServiceEntries -> SUBSET SeHosts]
  /\ seWatch \in Seq(SeWrite)
  /\ seCache \in [ServiceEntries -> SUBSET SeHosts]
  /\ seEvents \in Seq(SeEvent)

WorkerTypeOK ==
  /\ queue \subseteq LazySidecars
  /\ wk \in [pc: WorkerPc, n: LazySidecars \cup {NoName}, inst: LazySidecar,
             sc: Sidecar, seHosts: SUBSET SeHosts]
  /\ wk.pc # "idle" => wk.n \in LazySidecars

HandlerTypeOK ==
  /\ hd \in [pc: HandlerPc, old: SUBSET SeHosts, new: SUBSET SeHosts,
             list: [LazySidecars -> LazySidecar], n: LazySidecars \cup {NoName},
             sc: Sidecar]
  /\ hd.pc \in {"getDerived", "updateDerived"} => hd.n \in LazySidecars

\* A report that still has LazySidecars to visit reports one host.
RequestTypeOK ==
  /\ rq \in [Requests -> [hosts: SUBSET SvcHosts, list: [LazySidecars -> LazySidecar]]]
  /\ \A r \in Requests, n \in LazySidecars :
       rq[r].list[n].live => \E h \in SvcHosts : rq[r].hosts = {h}

\* Every object, copy, event and program counter has its type; a goroutine in
\* the middle of a call knows the object and the host it works for.
TypeOK ==
  /\ LsTypeOK /\ ScTypeOK /\ SeTypeOK
  /\ WorkerTypeOK /\ HandlerTypeOK /\ RequestTypeOK
  /\ spent \in [EnvKinds -> Nat]

Init ==
  /\ ls = NoList /\ lsCache = NoList
  /\ lsWatch = [n \in LazySidecars |-> <<>>]
  /\ sc = [n \in LazySidecars |-> NoSc] /\ scCache = sc
  /\ scWatch = [n \in LazySidecars |-> <<>>]
  /\ se = [e \in ServiceEntries |-> {}] /\ seCache = se
  /\ seWatch = <<>> /\ seEvents = <<>>
  /\ queue = {}
  /\ wk = WorkerIdle /\ hd = HandlerIdle
  /\ rq = [r \in Requests |-> RequestIdle]
  /\ spent = [k \in EnvKinds |-> 0]

Spend(k) == spent[k] < Budget[k] /\ spent' = [spent EXCEPT ![k] = @ + 1]

-----------------------------------------------------------------------------
(***************************************************************************)
(* The API server.  A write that changes nothing is not stored: it makes   *)
(* no version and no watch event.                                          *)
(***************************************************************************)
StoreLs(n, new) ==
  IF new = ls[n] THEN UNCHANGED lsVars
  ELSE LET v == [new EXCEPT !.rv = ls[n].rv + 1]
       IN  /\ ls' = [ls EXCEPT ![n] = v]
           /\ lsWatch' = [lsWatch EXCEPT ![n] = Append(@, v)]

StoreSc(n, new) ==
  IF new = sc[n] THEN UNCHANGED scVars
  ELSE LET v == [new EXCEPT !.rv = sc[n].rv + 1]
       IN  /\ sc' = [sc EXCEPT ![n] = v]
           /\ scWatch' = [scWatch EXCEPT ![n] = Append(@, v)]

\* An update is accepted when the object is there and the writer's copy of it
\* has the stored resourceVersion.
Accepts(stored, copy) == stored.live /\ stored.rv = copy.rv

UpdateLs(n, copy, new) ==
  \/ Accepts(ls[n], copy) /\ StoreLs(n, new) /\ UNCHANGED spent
  \/ ~Accepts(ls[n], copy) /\ UNCHANGED <<lsVars, spent>>
  \/ Spend("fault") /\ UNCHANGED lsVars

UpdateSc(n, copy, new) ==
  \/ Accepts(sc[n], copy) /\ StoreSc(n, new) /\ UNCHANGED spent
  \/ ~Accepts(sc[n], copy) /\ UNCHANGED <<scVars, spent>>
  \/ Spend("fault") /\ UNCHANGED scVars

CreateSc(n, new) ==
  \/ ~sc[n].live /\ StoreSc(n, new) /\ UNCHANGED spent
  \/ sc[n].live /\ UNCHANGED <<scVars, spent>>
  \/ Spend("fault") /\ UNCHANGED scVars

\* The garbage collector deletes a Sidecar whose controller owner is gone.  A
\* worker that still sees the deleted owner in its cache creates it again, as
\* often as the budget lets the collector run.
GarbageCollect(n) ==
  /\ sc[n].live
  /\ Spend("gc")
  /\ ~(ls[n].live /\ ls[n].uid = sc[n].owner)
  /\ StoreSc(n, [sc[n] EXCEPT !.live = FALSE, !.hosts = {}])
  /\ UNCHANGED <<lsVars, lsCache, scCache, seVars, seEvents, queue, wk, hd, rq>>

(***************************************************************************)
(* Informers.  Watch events arrive in order; For and Owns enqueue the      *)
(* LazySidecar's name, ServiceEntry events go to EnqueueServiceEntry.      *)
(***************************************************************************)
LazySidecarEvent(n) ==
  /\ lsWatch[n] # <<>>
  /\ lsCache' = [lsCache EXCEPT ![n] = Head(lsWatch[n])]
  /\ lsWatch' = [lsWatch EXCEPT ![n] = Tail(@)]
  /\ queue' = queue \cup {n}
  /\ UNCHANGED <<ls, scVars, scCache, seVars, seEvents, wk, hd, rq, spent>>

\* Mutant of SidecarEvent: the controller does not own Sidecars.
SidecarEventUnnoticed(n) ==
  /\ scWatch[n] # <<>>
  /\ scCache' = [scCache EXCEPT ![n] = Head(scWatch[n])]
  /\ scWatch' = [scWatch EXCEPT ![n] = Tail(@)]
  /\ UNCHANGED <<lsVars, lsCache, sc, seVars, seEvents, queue, wk, hd, rq, spent>>

SidecarEvent(n) ==
  /\ scWatch[n] # <<>>
  /\ scCache' = [scCache EXCEPT ![n] = Head(scWatch[n])]
  /\ scWatch' = [scWatch EXCEPT ![n] = Tail(@)]
  /\ queue' = queue \cup {n}
  /\ UNCHANGED <<lsVars, lsCache, sc, seVars, seEvents, wk, hd, rq, spent>>

ServiceEntryEvent ==
  /\ seWatch # <<>>
  /\ LET w == Head(seWatch)
     IN  /\ seCache' = [seCache EXCEPT ![w.se] = w.hosts]
         /\ seEvents' = Append(seEvents, [old |-> seCache[w.se], new |-> w.hosts])
  /\ seWatch' = Tail(seWatch)
  /\ UNCHANGED <<lsVars, lsCache, scVars, scCache, se, queue, wk, hd, rq, spent>>

-----------------------------------------------------------------------------
(***************************************************************************)
(* Host lists as sets.                                                     *)
(***************************************************************************)
GetNewHosts(have, hosts) == hosts \ have

\* The hosts both syncEgressHostsToSidecar followed by
\* syncMiddlewareServiceToSidecar and constructSidecarForLazySidecar compute.
SidecarHosts(n, hosts) == hosts \cup {DefaultHost} \cup MiddlewareHosts[n]

\* Mutant of ListAllServiceEntryHosts: appends the lists, not their items.
ListServiceEntryHostLists == {seCache[e] : e \in ServiceEntries}

ListAllServiceEntryHosts == UNION {seCache[e] : e \in ServiceEntries}

ListAllCsmLazySidecar ==
  [n \in LazySidecars |-> IF lsCache[n].live THEN lsCache[n] ELSE NoLs]

\* The items of a list that are still to be visited.
Remaining(list) == {n \in LazySidecars : list[n].live}

(***************************************************************************)
(* Reconcile, one step per API call.  Its call of Init touches none of the *)
(* objects here.                                                           *)
(***************************************************************************)
\* Mutant of Reconcile: always asks to be requeued.
ReconcileRequeued(n) ==
  /\ wk.pc = "idle"
  /\ n \in queue
  /\ wk' = IF lsCache[n].live
           THEN [wk EXCEPT !.pc = "getSidecar", !.n = n, !.inst = lsCache[n]]
           ELSE wk
  /\ UNCHANGED <<lsVars, lsCache, scVars, scCache, seVars, seEvents, queue, hd, rq, spent>>

Reconcile(n) ==
  /\ wk.pc = "idle"
  /\ n \in queue
  /\ queue' = queue \ {n}
  /\ wk' = IF lsCache[n].live
           THEN [wk EXCEPT !.pc = "getSidecar", !.n = n, !.inst = lsCache[n]]
           ELSE wk
  /\ UNCHANGED <<lsVars, lsCache, scVars, scCache, seVars, seEvents, hd, rq, spent>>

\* Reads past the cache; an error skips the Sidecar.
ReconcileSidecar ==
  /\ wk.pc = "getSidecar"
  /\ \/ /\ sc[wk.n].live
        /\ wk' = [wk EXCEPT !.pc = "updateSidecar", !.sc = sc[wk.n]]
        /\ UNCHANGED spent
     \/ /\ ~sc[wk.n].live
        /\ wk' = [wk EXCEPT !.pc = "createSidecar"]
        /\ UNCHANGED spent
     \/ Spend("fault") /\ wk' = [wk EXCEPT !.pc = "listSe"]
  /\ UNCHANGED <<lsVars, lsCache, scVars, scCache, seVars, seEvents, queue, hd, rq>>

createSidecar ==
  /\ wk.pc = "createSidecar"
  /\ CreateSc(wk.n, [live |-> TRUE, rv |-> sc[wk.n].rv, owner |-> wk.inst.uid,
                     hosts |-> SidecarHosts(wk.n, wk.inst.hosts)])
  /\ wk' = [wk EXCEPT !.pc = "listSe"]
  /\ UNCHANGED <<lsVars, lsCache, scCache, seVars, seEvents, queue, hd, rq>>

\* Mutant of updateSidecar: hosts are merged into the Sidecar's list.
mergeIntoSidecar ==
  /\ wk.pc = "updateSidecar"
  /\ UpdateSc(wk.n, wk.sc,
              [sc[wk.n] EXCEPT !.hosts = @ \cup SidecarHosts(wk.n, wk.inst.hosts)])
  /\ wk' = [wk EXCEPT !.pc = "listSe", !.sc = NoSc]
  /\ UNCHANGED <<lsVars, lsCache, scCache, seVars, seEvents, queue, hd, rq>>

updateSidecar ==
  /\ wk.pc = "updateSidecar"
  /\ UpdateSc(wk.n, wk.sc,
              [sc[wk.n] EXCEPT !.hosts = SidecarHosts(wk.n, wk.inst.hosts)])
  /\ wk' = [wk EXCEPT !.pc = "listSe", !.sc = NoSc]
  /\ UNCHANGED <<lsVars, lsCache, scCache, seVars, seEvents, queue, hd, rq>>

listServiceEntries ==
  /\ wk.pc = "listSe"
  /\ wk' = [wk EXCEPT !.pc = "rewriteHosts", !.seHosts = ListAllServiceEntryHosts]
  /\ UNCHANGED <<lsVars, lsCache, scVars, scCache, seVars, seEvents, queue, hd, rq, spent>>

\* Mutant of RewriteSeHostsToCsmLazySidecar: only an empty list is filled.
RewriteSeHostsIfNil ==
  LET newHosts == IF wk.inst.hosts = {} THEN wk.seHosts ELSE {}
  IN  /\ wk.pc = "rewriteHosts"
      /\ \/ newHosts = {} /\ UNCHANGED <<lsVars, spent>>
         \/ newHosts # {} /\ UpdateLs(wk.n, wk.inst, [ls[wk.n] EXCEPT !.hosts = newHosts])
      /\ wk' = [wk EXCEPT !.pc = "getStatus", !.seHosts = {},
                          !.inst = IF ls' # ls THEN ls'[wk.n] ELSE @]
      /\ UNCHANGED <<lsCache, scVars, scCache, seVars, seEvents, queue, hd, rq>>

\* Mutant of RewriteSeHostsToCsmLazySidecar: after a conflict only the
\* resourceVersion of the worker's copy is refreshed.
RewriteSeHostsFreshVersion ==
  LET newHosts == GetNewHosts(wk.inst.hosts, wk.seHosts)
  IN  /\ wk.pc = "rewriteHosts"
      /\ \/ newHosts = {} /\ UNCHANGED <<lsVars, spent>>
         \/ /\ newHosts # {}
            /\ UpdateLs(wk.n, wk.inst,
                        [ls[wk.n] EXCEPT !.hosts = wk.inst.hosts \cup newHosts])
      /\ wk' = [wk EXCEPT !.pc = "getStatus", !.seHosts = {},
                          !.inst = IF ls' # ls THEN ls'[wk.n] ELSE [@ EXCEPT !.rv = ls[wk.n].rv]]
      /\ UNCHANGED <<lsCache, scVars, scCache, seVars, seEvents, queue, hd, rq>>

\* An accepted update leaves the stored object in the worker's hands.
RewriteSeHostsToCsmLazySidecar ==
  LET newHosts == GetNewHosts(wk.inst.hosts, wk.seHosts)
  IN  /\ wk.pc = "rewriteHosts"
      /\ \/ newHosts = {} /\ UNCHANGED <<lsVars, spent>>
         \/ /\ newHosts # {}
            /\ UpdateLs(wk.n, wk.inst,
                        [ls[wk.n] EXCEPT !.hosts = wk.inst.hosts \cup newHosts])
      /\ wk' = [wk EXCEPT !.pc = "getStatus", !.seHosts = {},
                          !.inst = IF ls' # ls THEN ls'[wk.n] ELSE @]
      /\ UNCHANGED <<lsCache, scVars, scCache, seVars, seEvents, queue, hd, rq>>

\* Mutant of RewriteCsmLazySidecarStatus: a status that is already Succeed is
\* left alone.
RewriteStatusOnce ==
  /\ wk.pc = "getStatus"
  /\ wk' = IF scCache[wk.n].live /\ ~wk.inst.status.succeed
           THEN [wk EXCEPT !.pc = "updateStatus", !.sc = scCache[wk.n]]
           ELSE WorkerIdle
  /\ UNCHANGED <<lsVars, lsCache, scVars, scCache, seVars, seEvents, queue, hd, rq, spent>>

\* With no Sidecar in the cache the status is set to Failed in memory only.
RewriteCsmLazySidecarStatus ==
  /\ wk.pc = "getStatus"
  /\ wk' = IF scCache[wk.n].live
           THEN [wk EXCEPT !.pc = "updateStatus", !.sc = scCache[wk.n]]
           ELSE WorkerIdle
  /\ UNCHANGED <<lsVars, lsCache, scVars, scCache, seVars, seEvents, queue, hd, rq, spent>>

UpdateStatus ==
  /\ wk.pc = "updateStatus"
  /\ UpdateLs(wk.n, wk.inst,
              [ls[wk.n] EXCEPT !.status = [succeed |-> TRUE, upstream |-> wk.sc.hosts,
                                           ts |-> spent["tick"]]])
  /\ wk' = WorkerIdle
  /\ UNCHANGED <<lsCache, scVars, scCache, seVars, seEvents, queue, hd, rq>>

Worker ==
  \/ \E n \in LazySidecars : Reconcile(n)
  \/ ReconcileSidecar \/ createSidecar \/ updateSidecar
  \/ listServiceEntries \/ RewriteSeHostsToCsmLazySidecar
  \/ RewriteCsmLazySidecarStatus \/ UpdateStatus

-----------------------------------------------------------------------------
(***************************************************************************)
(* EnqueueServiceEntry: Create adds the hosts to every listed LazySidecar, *)
(* Delete removes them, Update removes the old ones, lists again and adds  *)
(* the new ones.                                                           *)
(***************************************************************************)
\* Mutant of HandleServiceEntry: Create does nothing.
IgnoreCreates ==
  /\ hd.pc = "idle"
  /\ seEvents # <<>>
  /\ LET ev == Head(seEvents)
     IN  hd' = IF ev.old = {} THEN hd
               ELSE [HandlerIdle EXCEPT !.pc = "remove", !.old = ev.old, !.new = ev.new,
                                        !.list = ListAllCsmLazySidecar]
  /\ seEvents' = Tail(seEvents)
  /\ UNCHANGED <<lsVars, lsCache, scVars, scCache, seVars, queue, wk, rq, spent>>

HandleServiceEntry ==
  /\ hd.pc = "idle"
  /\ seEvents # <<>>
  /\ LET ev == Head(seEvents)
     IN  hd' = [HandlerIdle EXCEPT !.pc = IF ev.old = {} THEN "add" ELSE "remove",
                                   !.old = ev.old, !.new = ev.new,
                                   !.list = ListAllCsmLazySidecar]
  /\ seEvents' = Tail(seEvents)
  /\ UNCHANGED <<lsVars, lsCache, scVars, scCache, seVars, queue, wk, rq, spent>>

ReconcileCsmLazySidecarRemoveHosts(n) ==
  /\ hd.pc = "remove"
  /\ n \in Remaining(hd.list)
  /\ UpdateLs(n, hd.list[n], [ls[n] EXCEPT !.hosts = hd.list[n].hosts \ hd.old])
  /\ hd' = [hd EXCEPT !.pc = "getDerived", !.n = n, !.list[n] = NoLs]
  /\ UNCHANGED <<lsCache, scVars, scCache, seVars, seEvents, queue, wk, rq>>

getDerivedSidecar ==
  /\ hd.pc = "getDerived"
  /\ \/ /\ sc[hd.n].live
        /\ hd' = [hd EXCEPT !.pc = "updateDerived", !.sc = sc[hd.n]]
        /\ UNCHANGED spent
     \/ /\ ~sc[hd.n].live
        /\ hd' = [hd EXCEPT !.pc = "remove", !.n = NoName]
        /\ UNCHANGED spent
     \/ Spend("fault") /\ hd' = [hd EXCEPT !.pc = "remove", !.n = NoName]
  /\ UNCHANGED <<lsVars, lsCache, scVars, scCache, seVars, seEvents, queue, wk, rq>>

RemoveDeriveSidecarHosts ==
  /\ hd.pc = "updateDerived"
  /\ UpdateSc(hd.n, hd.sc, [sc[hd.n] EXCEPT !.hosts = hd.sc.hosts \ hd.old])
  /\ hd' = [hd EXCEPT !.pc = "remove", !.n = NoName, !.sc = NoSc]
  /\ UNCHANGED <<lsVars, lsCache, scCache, seVars, seEvents, queue, wk, rq>>

RemoveHostsDone ==
  /\ hd.pc = "remove"
  /\ Remaining(hd.list) = {}
  /\ hd' = IF hd.new = {} THEN HandlerIdle
           ELSE [hd EXCEPT !.pc = "add", !.old = {}, !.list = ListAllCsmLazySidecar]
  /\ UNCHANGED <<lsVars, lsCache, scVars, scCache, seVars, seEvents, queue, wk, rq, spent>>

\* Mutant of ReconcileCsmLazySidecarAddHosts: the list is replaced.
SetHosts(n) ==
  /\ hd.pc = "add"
  /\ n \in Remaining(hd.list)
  /\ UpdateLs(n, hd.list[n], [ls[n] EXCEPT !.hosts = hd.new])
  /\ hd' = [hd EXCEPT !.list[n] = NoLs]
  /\ UNCHANGED <<lsCache, scVars, scCache, seVars, seEvents, queue, wk, rq>>

ReconcileCsmLazySidecarAddHosts(n) ==
  LET newHosts == GetNewHosts(hd.list[n].hosts, hd.new)
  IN  /\ hd.pc = "add"
      /\ n \in Remaining(hd.list)
      /\ \/ newHosts = {} /\ UNCHANGED <<lsVars, spent>>
         \/ /\ newHosts # {}
            /\ UpdateLs(n, hd.list[n],
                        [ls[n] EXCEPT !.hosts = hd.list[n].hosts \cup newHosts])
      /\ hd' = [hd EXCEPT !.list[n] = NoLs]
      /\ UNCHANGED <<lsCache, scVars, scCache, seVars, seEvents, queue, wk, rq>>

AddHostsDone ==
  /\ hd.pc = "add"
  /\ Remaining(hd.list) = {}
  /\ hd' = HandlerIdle
  /\ UNCHANGED <<lsVars, lsCache, scVars, scCache, seVars, seEvents, queue, wk, rq, spent>>

Handler ==
  \/ HandleServiceEntry
  \/ \E n \in LazySidecars : ReconcileCsmLazySidecarRemoveHosts(n)
  \/ getDerivedSidecar \/ RemoveDeriveSidecarHosts \/ RemoveHostsDone
  \/ \E n \in LazySidecars : ReconcileCsmLazySidecarAddHosts(n)
  \/ AddHostsDone

-----------------------------------------------------------------------------
(***************************************************************************)
(* Invocation.Report: list the LazySidecars once, then visit the matched   *)
(* ones.  The answer is 200 whatever the updates do.                       *)
(***************************************************************************)
Report(r, h) ==
  /\ Remaining(rq[r].list) = {}
  /\ Spend("call")
  /\ LET list == [n \in LazySidecars |->
                    IF n \in Matched[r] THEN ListAllCsmLazySidecar[n] ELSE NoLs]
     IN  rq' = [rq EXCEPT ![r] = [hosts |-> IF list = NoList THEN {} ELSE {h},
                                  list |-> list]]
  /\ UNCHANGED <<lsVars, lsCache, scVars, scCache, seVars, seEvents, queue, wk, hd>>

\* Mutant of syncLazySidecar: the resourceVersion is read again before the
\* update, the host list is not.
syncWithFreshVersion(r, n) ==
  LET copy == rq[r].list[n]
      rest == [rq[r].list EXCEPT ![n] = NoLs]
  IN  /\ copy.live
      /\ \/ rq[r].hosts \subseteq copy.hosts /\ UNCHANGED <<lsVars, spent>>
         \/ /\ ~(rq[r].hosts \subseteq copy.hosts)
            /\ UpdateLs(n, ls[n], [ls[n] EXCEPT !.hosts = copy.hosts \cup rq[r].hosts])
      /\ rq' = [rq EXCEPT ![r] = IF rest = NoList THEN RequestIdle
                                 ELSE [@ EXCEPT !.list = rest]]
      /\ UNCHANGED <<lsCache, scVars, scCache, seVars, seEvents, queue, wk, hd>>

syncLazySidecar(r, n) ==
  LET copy == rq[r].list[n]
      rest == [rq[r].list EXCEPT ![n] = NoLs]
  IN  /\ copy.live
      /\ \/ rq[r].hosts \subseteq copy.hosts /\ UNCHANGED <<lsVars, spent>>
         \/ /\ ~(rq[r].hosts \subseteq copy.hosts)
            /\ UpdateLs(n, copy, [ls[n] EXCEPT !.hosts = copy.hosts \cup rq[r].hosts])
      /\ rq' = [rq EXCEPT ![r] = IF rest = NoList THEN RequestIdle
                                 ELSE [@ EXCEPT !.list = rest]]
      /\ UNCHANGED <<lsCache, scVars, scCache, seVars, seEvents, queue, wk, hd>>

-----------------------------------------------------------------------------
(***************************************************************************)
(* The outside world.                                                      *)
(***************************************************************************)
UserCreates(n, hosts) ==
  /\ ~ls[n].live
  /\ Spend("user")
  /\ StoreLs(n, [live |-> TRUE, rv |-> ls[n].rv, uid |-> ls[n].rv + 1,
                 hosts |-> hosts, status |-> NoStatus])
  /\ UNCHANGED <<lsCache, scVars, scCache, seVars, seEvents, queue, wk, hd, rq>>

UserEdits(n, hosts) ==
  /\ ls[n].live
  /\ ls[n].hosts # hosts
  /\ Spend("user")
  /\ StoreLs(n, [ls[n] EXCEPT !.hosts = hosts])
  /\ UNCHANGED <<lsCache, scVars, scCache, seVars, seEvents, queue, wk, hd, rq>>

UserDeletes(n) ==
  /\ ls[n].live
  /\ Spend("user")
  /\ StoreLs(n, [ls[n] EXCEPT !.live = FALSE, !.hosts = {}, !.status = NoStatus])
  /\ UNCHANGED <<lsCache, scVars, scCache, seVars, seEvents, queue, wk, hd, rq>>

\* Someone edits or deletes the derived Sidecar by hand.
SidecarTampered(n) ==
  /\ sc[n].live
  /\ Spend("user")
  /\ \/ \E hosts \in UserHosts : StoreSc(n, [sc[n] EXCEPT !.hosts = hosts])
     \/ StoreSc(n, [sc[n] EXCEPT !.live = FALSE, !.hosts = {}])
  /\ UNCHANGED <<lsVars, lsCache, scCache, seVars, seEvents, queue, wk, hd, rq>>

\* A ServiceEntry is created, updated (its hosts need not change) or deleted.
ServiceEntryWritten(e, hosts) ==
  /\ se[e] # {} \/ hosts # {}
  /\ Spend("se")
  /\ se' = [se EXCEPT ![e] = hosts]
  /\ seWatch' = Append(seWatch, [se |-> e, hosts |-> hosts])
  /\ UNCHANGED <<lsVars, lsCache, scVars, scCache, seCache, seEvents, queue, wk, hd, rq>>

ClockTicks ==
  /\ Spend("tick")
  /\ UNCHANGED <<lsVars, lsCache, scVars, scCache, seVars, seEvents, queue, wk, hd, rq>>

\* A new process lists every kind of object; it learns nothing of what was
\* deleted while no process watched.
Restart ==
  /\ Spend("crash")
  /\ lsCache' = ls /\ lsWatch' = [n \in LazySidecars |-> <<>>]
  /\ scCache' = sc /\ scWatch' = [n \in LazySidecars |-> <<>>]
  /\ seCache' = se /\ seWatch' = <<>>
  /\ LET exported == {e \in ServiceEntries : se[e] # {}}
     IN  \E order \in [1..Cardinality(exported) -> exported] :
           /\ \A e \in exported : \E i \in DOMAIN order : order[i] = e
           /\ seEvents' = [i \in DOMAIN order |-> [old |-> {}, new |-> se[order[i]]]]
  /\ queue' = {n \in LazySidecars : ls[n].live \/ sc[n].live}
  /\ wk' = WorkerIdle /\ hd' = HandlerIdle
  /\ rq' = [r \in Requests |-> RequestIdle]
  /\ UNCHANGED <<ls, sc, se>>

-----------------------------------------------------------------------------
Environment ==
  \/ \E n \in LazySidecars, hosts \in UserHosts : UserCreates(n, hosts) \/ UserEdits(n, hosts)
  \/ \E n \in LazySidecars : UserDeletes(n) \/ SidecarTampered(n)
  \/ \E e \in ServiceEntries, hosts \in SUBSET SeHosts : ServiceEntryWritten(e, hosts)
  \/ \E r \in Requests, h \in SvcHosts : Report(r, h)
  \/ ClockTicks
  \/ Restart

Cluster ==
  \/ \E n \in LazySidecars : GarbageCollect(n) \/ LazySidecarEvent(n) \/ SidecarEvent(n)
  \/ ServiceEntryEvent

Http(r) == \E n \in LazySidecars : syncLazySidecar(r, n)

Next == Environment \/ Cluster \/ Worker \/ Handler \/ \E r \in Requests : Http(r)

Spec == Init /\ [][Next]_vars

(***************************************************************************)
(* The API server, the informers and the goroutines of the process keep    *)
(* running; nobody has to write, call or fail.                             *)
(***************************************************************************)
Fairness ==
  /\ \A n \in LazySidecars : /\ WF_vars(GarbageCollect(n))
                             /\ WF_vars(LazySidecarEvent(n))
                             /\ WF_vars(SidecarEvent(n))
  /\ WF_vars(ServiceEntryEvent)
  /\ WF_vars(Worker)
  /\ WF_vars(Handler)
  /\ \A r \in Requests : WF_vars(Http(r))

FairSpec == Spec /\ Fairness

-----------------------------------------------------------------------------
(***************************************************************************)
(* Properties.                                                             *)
(***************************************************************************)

\* A copy of an object is faithful when it is not newer than the stored one
\* and, when it has the stored resourceVersion, has the stored hosts.
Faithful(copy, stored) ==
  /\ copy.rv <= stored.rv
  /\ copy.rv = stored.rv /\ copy.live => stored.live /\ copy.hosts = stored.hosts

InformerFaithful ==
  \A n \in LazySidecars :
    /\ Faithful(lsCache[n], ls[n])
    /\ \A i \in DOMAIN lsWatch[n] : Faithful(lsWatch[n][i], ls[n])

WorkerFaithful == wk.pc # "idle" => wk.inst.live /\ Faithful(wk.inst, ls[wk.n])

HandlerFaithful == \A n \in LazySidecars : Faithful(hd.list[n], ls[n])

RequestsFaithful ==
  \A r \in Requests, n \in LazySidecars : Faithful(rq[r].list[n], ls[n])

\* Every copy of a LazySidecar that the informer, the worker, the handler or a
\* report holds is faithful, however old it is and whatever the others wrote
\* since.  This is what makes the resourceVersion check behind r.Update enough
\* to exclude lost updates without any lock.
CopiesFaithful ==
  InformerFaithful /\ WorkerFaithful /\ HandlerFaithful /\ RequestsFaithful

\* No actor's write drops a host another actor added: a host leaves a stored
\* egressHosts list only by a user's hand or because the ServiceEntry handler
\* is retracting that very host.
NoHostLost ==
  [][\A n \in LazySidecars :
       \/ spent'["user"] # spent["user"]
       \/ ls[n].hosts \ ls'[n].hosts \subseteq hd.old]_vars

\* The stored lists implement atomically updated sets (module EgressHosts),
\* although every write replaces a whole list computed from a cached copy.
Promise == INSTANCE EgressHosts
             WITH hosts <- [n \in LazySidecars |-> ls[n].hosts], edits <- spent["user"]

AtomicLists == Promise!Spec

\* Nothing is left to do for n: no event in flight, nothing queued, worker
\* and handler at rest.
Quiet(n) ==
  /\ lsWatch[n] = <<>> /\ scWatch[n] = <<>>
  /\ seWatch = <<>> /\ seEvents = <<>>
  /\ n \notin queue
  /\ wk.n # n
  /\ hd.pc = "idle"

\* No wake-up is lost: although every error is dropped and nothing is ever
\* requeued, once nothing is left to do the derived Sidecar exists and carries
\* exactly the LazySidecar's hosts, the default host and the middleware hosts.
SidecarInSync ==
  \A n \in LazySidecars :
    Quiet(n) /\ ls[n].live =>
      /\ sc[n].live
      /\ sc[n].hosts = ls[n].hosts \cup {DefaultHost} \cup MiddlewareHosts[n]

\* Likewise, once nothing is left to do, every host of every ServiceEntry is
\* among the LazySidecar's hosts, whatever removals and conflicts came between.
ServiceEntriesImported ==
  \A n \in LazySidecars :
    Quiet(n) /\ ls[n].live => \A e \in ServiceEntries : se[e] \subseteq ls[n].hosts

\* Once nothing is left to do the status tells the truth: it is Succeed, with
\* the Sidecar's hosts, when there is a Sidecar, and only then, although the
\* worker takes it from a cache that lags behind its own write of the Sidecar
\* (RewriteCsmLazySidecarStatus).
StatusInSync ==
  \A n \in LazySidecars :
    Quiet(n) /\ ls[n].live =>
      /\ ls[n].status.succeed = sc[n].live
      /\ sc[n].live => ls[n].status.upstream = sc[n].hosts

\* A LazySidecar whose Sidecar is missing is not reported as Succeed.
FailureReported ==
  \A n \in LazySidecars :
    Quiet(n) /\ ls[n].live /\ ls[n].status.succeed => sc[n].live

\* The controller comes to rest: when the outside world stops, its own writes
\* (which wake it up again) stop too.
ComesToRest == <>[](\A n \in LazySidecars : Quiet(n))
=============================================================================
