# Verification of the lazysidecar controller

TLA+ modules, TLC runs and TLAPS proofs for the controller in this repository.
Paths below are relative to the repository's root; `controller.go` stands for
`controllers/lazysidecar_controller.go`.

## 1. The system

A `LazySidecar` object holds in `spec.egressHosts` the hosts its workloads may
call. The controller derives from it an Istio `Sidecar` (which hosts a proxy
knows) and an `EnvoyFilter` (which sends unknown traffic to the
`lazysidecar-proxy` egress workload). That egress workload reports every call it
sees by HTTP, and the called host is added to the LazySidecars whose selector
matches the caller. Hosts of Istio `ServiceEntry` objects are added to every
LazySidecar.

| Component | State | Operations | Shares with others |
|---|---|---|---|
| Reconcile worker (`controller.go`, `sidecar.go`, `envoyfilter.go`) | its copy of one LazySidecar | `Reconcile`: egress workload, Sidecar, EnvoyFilter, ServiceEntry hosts, status | writes LazySidecar, Sidecar, EnvoyFilter |
| ServiceEntry handler (`enqueue_serviceentry.go`) | the event, a listed copy of all LazySidecars | Create adds hosts, Delete removes them, Update removes and adds | writes LazySidecar and Sidecar from its own goroutine |
| HTTP report (`internal/routers/v1/invocation.go`) | one goroutine per request with a listed copy of all LazySidecars | `Report`, `ParseWorkloadLabels`, `ParseHost`, `isSourceMatched`, `syncLazySidecar` | writes LazySidecar |
| Egress workload (`csm_egress_workload.go`, `enqueue_egress_workload.go`) | package variable `ownerDeployment` | create service account, ConfigMap, Service, Deployment; create again when deleted | called by the worker and by the delete handlers |
| Manager (external) | informer caches, work queue | watch events update the cache, then queue a name or call a handler | all reads through `client.Client` |
| API server (external) | the stored objects | create, update with `resourceVersion`, delete, garbage collection by owner | everyone |

Nothing is locked. Reads through the manager's client are served by a cache that
lags behind; Sidecar and EnvoyFilter are read past the cache by the Istio client.
The only protection between writers is that an update based on an old
`resourceVersion` is refused, and the code drops that error, like every other
one, after logging it. Correctness therefore rests on later events waking the
worker up.

What makes each part correct:

- host lists: no writer erases what another one added; sequences behave as sets;
- worker: when nothing is left to do, derived objects match their LazySidecar,
  and ServiceEntry hosts are imported; its own writes do not keep it awake;
- derived objects: they select the same workloads as the LazySidecar;
- status: once nothing is left to do it tells what is stored;
- reports: every spelling of a service yields one host, only selected workloads
  count, and what they keep calling is learned;
- egress workload: all four objects exist again after a deletion, belong to the
  controller's present Deployment and fit together.

## 2. Modules

`LazySidecarController` is the core. One LazySidecar is a record with its
`rv` (resourceVersion), `uid`, host set and status; a deleted object stays with
`live = FALSE` so that versions only grow. `lsWatch`, `scWatch` and `seWatch` are
the watch streams between API server and informer, `seEvents` the events between
informer and ServiceEntry handler, `queue` the work queue (a set: names are
merged). Each goroutine does one API call per step:

| Action | Code |
|---|---|
| `Reconcile`, `ReconcileSidecar`, `createSidecar`, `updateSidecar`, `listServiceEntries`, `RewriteSeHostsToCsmLazySidecar`, `RewriteCsmLazySidecarStatus`, `UpdateStatus` | `Reconcile` in program order: cached read of the LazySidecar, uncached read of the Sidecar, its write, cached list of ServiceEntries, update of the LazySidecar, cached read of the Sidecar, update of the status |
| `HandleServiceEntry`, `ReconcileCsmLazySidecarRemoveHosts`, `getDerivedSidecar`, `RemoveDeriveSidecarHosts`, `RemoveHostsDone`, `ReconcileCsmLazySidecarAddHosts`, `AddHostsDone` | the event handler: one listing, then one round per LazySidecar; an Update lists a second time before adding |
| `Report`, `syncLazySidecar` | an HTTP report: one listing, then one update per matched LazySidecar |
| `LazySidecarEvent`, `SidecarEvent`, `ServiceEntryEvent`, `GarbageCollect`, `Restart` | manager, API server and process; `Restart` may cut off any goroutine between two calls |
| `UserCreates`, `UserEdits`, `UserDeletes`, `SidecarTampered`, `ServiceEntryWritten`, `ClockTicks` | the outside world |

`Spend("fault")` inside a read or a write is a call that fails for another
reason than a conflict. The hosts a report yields and the LazySidecars it matches
are the constants `SvcHosts` and `Matched`. `Spend` limits how often each kind of
outside event happens (`Budget`). Items of a list are visited in any order.

`EgressHosts` is the abstract specification: each host list is a set that is
updated atomically, by a user in any way, by the controller only by learning one
reported host, importing hosts of ServiceEntries or retracting such hosts.
`AtomicLists` in the core module says that the stored lists implement it.

`DerivedResources` follows the selectors and middleware ports of one LazySidecar
into its Sidecar and EnvoyFilter. A selector is a label set, the empty label set
or a nil pointer, because the code assigns through that pointer. A panic of the
worker ends the process and the kubelet starts it again.

`HostLists` runs the slice algorithms (sorting, binary search, splicing,
deduplication) on one LazySidecar and one Sidecar beside the set they stand for.
It justifies that the core module uses sets. A loop of the code is a recursive
function from the number of rounds to the loop's local variables. `SortStrings`
is not an algorithm but what `sort.Strings` promises, by counting: at position i
stands the host with fewer than i entries below it and at least i not above it.

`EgressWorkload` is about the proxy's service account, ConfigMap, Service and
Deployment. `dep` is the uid of the controller's own Deployment, which owns all
four, `depSeen` the informer's copy of it and `owner` the package variable
`ownerDeployment`. The worker overwrites that variable field by field (`InitGet`,
`InitCopied`) while the handlers may read it; each handler is two steps, the
reading of the owner (`HandleDelete`) and the API call (`CreateAgain`). `frames`
counts the calls of `Init` by `CreateCsmSa` that have not returned. An object is
its owner and the names it defines and refers to (files, labels, service account);
the rest of its specification is left out. `LazySidecarEvent` is any event that
queues a LazySidecar, the informers' periodic resync included.

`Invocation` is about the meaning of a report. The strings `ParseHost` takes apart
are sequences of tokens (separators and the text between them, the constant
`Text`, of which is assumed only that it contains no separator), and package
`strings` is modelled on them. The caller's side is independent of that: a
destination is a record of what is meant and how it is written, `Spell` writes it,
and `Qualified` says which host it means. A report is one step here, in which
updates may be refused; the race of its updates is in the core.

`MCController`, `MCDerived`, `MCHostLists`, `MCEgress` and `MCInvocation` give
values to constants.

The theorems about a module are in modules that extend it:
`LazySidecarControllerProofs` (types, versions and lists of the core),
`LazySidecarSyncProofs` (what the core has reached when it rests),
`DerivedResourcesProofs`, `EgressWorkloadProofs`, `InvocationProofs` and
`HostListsProofs`, the last with the lemmas about its operators in
`HostListsLemmas`.

The modules abstract from each other: the core keeps hosts and versions and
leaves out selectors and EnvoyFilters, which never influence the host lists;
`DerivedResources` keeps only that a write may be refused, which always means
that somebody else wrote and so queued the LazySidecar again. `EgressWorkload`
shares nothing with the others but the work queue. `Invocation` supplies what the
core takes as constants: the hosts of reports (`SvcHosts`) and who is matched
(`Matched`).

Definitions marked "Mutant of" are wrong variants of the definition they precede
and are used by no specification; replacing the definition by them makes the
property named in `PROJECT.json` fail.

## 3. Runs

| Run | Instance | Result |
|---|---|---|
| `races` | 2 reports, 1 write each by user and ServiceEntry, 1 restart, 1 failing call, 1 garbage collection | `TypeOK`, `CopiesFaithful`, `NoHostLost`, `AtomicLists` hold |
| `events` | 2 ServiceEntries with the same host, 2 writes of them and 1 of a user, a clock tick, with fairness | `SidecarInSync`, `ServiceEntriesImported`, `StatusInSync`, `ComesToRest` hold |
| `users` | 3 user writes, a ServiceEntry, a restart, a middleware host that a ServiceEntry exports too | `SidecarInSync`, `ServiceEntriesImported`, `StatusInSync` hold |
| `failure` | one failing call, the Sidecar is deleted once | `FailureReported` is violated |
| `derived` | selectors with and without labels, at most one service, 3 user writes, 2 refusals or kills, with fairness | `TypeOK`, `RestsInSync`, `SyncedOrStuck`, `FilterSelects` hold |
| `derived_selector` | labels may be added later, with fairness | `GetsInSync` is violated |
| `derived_middleware` | two services | `FilterSelects` is violated |
| `host_lists` | 4 hosts, lists of up to 4, ServiceEntry lists of up to 2, 2 middleware hosts | `TypeOK`, `ListIsSet`, `SidecarIsSet`, `SecondReconcileIsNoop`, `NoReimport` hold |
| `egress` | 2 incarnations of the controller's Deployment, 1 deletion, 1 failing call, and the process is killed or the Deployment deleted, with fairness | `TypeOK`, `RestoredAtRest`, `GetsToServe` hold |
| `egress_absent` | no Deployment, with fairness | `ReconcileReturns` is violated |
| `reports` | 2 LazySidecars; 2 workloads of their namespace with all 40 spellings of two names in that namespace and in b, one of namespace c whose labels match up to case, one whose metadata has no namespace; 1 write by users, 1 refused report, with fairness | `TypeOK`, `OneEntryPerService`, `OnlyMatched`, `EveryCallLearned` hold |
| `reports_namespace` | a workload of namespace c with the same labels | `OnlySelected` is violated |

**Bounds.** A race in the core needs two writers with copies of different age:
two reports, or a report and the worker or handler, suffice, since a third writer
meets the same test of the version. A lost wake-up needs one event that arrives
while the worker is between its read and its last write; a second event lets it
happen while the first is being repaired. The core runs have one LazySidecar:
writes of different LazySidecars never meet, and what they share, the queue and
the listings of worker, handler and reports, treats each by itself. In `races` the
two reports are of the same or of different hosts. Two ServiceEntries with one common
host let `events` interleave their imports, the retraction by an update and the import
after it; that one is deleted while a LazySidecar and the other one stand takes a third
write of ServiceEntries, which with liveness is out of TLC's reach, and rests on
`ServiceEntriesStayImported`. So does a kill during a retraction, since `users` has a
single write of ServiceEntries. The theorems of section 4 remove the bounds for
all invariants and action properties. In `host_lists` four hosts allow one below,
one equal to and two above the default host, with repetitions. In `EgressWorkload` two
incarnations of the Deployment give an old and a new owner, and a kill and a
redeployment share the budget `outage`, since a kill forgets the old owner; `MaxEvents` bounds the
delete events that wait for one handler, which only makes the garbage collector
wait for it, and `MaxFrames` stands for the size of the stack. In `Invocation` the
spellings are all combinations that `ParseHost`'s comment lists or its test
contains (but for a doubled dot, which names no service), so only the number of
names is bounded, and the code never compares names with anything but each other.
The foreign workload uses one short spelling and the one without namespace a full
one: the matching does not depend on how the destination is spelled.

`CHECK_DEADLOCK FALSE` is set wherever the budgets run out: a controller at rest
has nothing to do.

**Fairness.** Weak fairness of the informers, the garbage collector, the worker,
the handler and each report: these are loops of goroutines or of the cluster that
never block on each other. None is assumed of users, failures, crashes or the
clock. In `DerivedResources` and `EgressWorkload` the kubelet restarts the
process, and in the latter a LazySidecar is queued again and again, since the
manager's informers resync periodically (every ten hours unless configured
otherwise, and `main.go` does not); the timely repair by the handlers is what
`RestoredAtRest` is about, which needs no fairness. In `Invocation` the workloads
keep calling what they need: an unknown host goes through the egress proxy, which
reports every call. `ComesToRest`
depends on the budget of clock ticks: every reconcile writes the current second
into the status, which wakes the worker up, so it rests only once two reconciles
fall into the same second. Because a reconcile takes far less than a second this
happens in practice, but the model does not show it for a clock that advances
without end.

### What the violations show

- `failure`: `Failed` and `FailedMsg` are set on the copy in memory and not written
  (`controller.go:202-203`), so that `Succeed` outlives the Sidecar. `Reconcile`
  ignores the errors of its steps and returns none (`controller.go:96-101`), so
  nothing is requeued. Conflicts are harmless, since the conflicting write is itself
  an event (runs `events`, `users`); any other failure is not, although README.md:52
  promises synchronisation "untile the desired state is reached". The core leaves
  out the periodic resync, which repairs this case hours later.
- `derived_selector`: labels added to a LazySidecar without labels make the worker
  write through a nil pointer (`sidecar.go:74`); after the restart it does so again.
- `derived_middleware`: with two services the template calls `inc` with two
  arguments (`workload_envoyfilter.tpl:30`); the error is logged and the truncated
  text, without selector, is used.
- `egress_absent`: `Init` and `CreateCsmSa` call each other until a Deployment named
  lazysidecar is in the cache (`csm_egress_workload.go:231`), so a controller started
  with `make run` in a cluster without it overflows its stack at the first reconcile.
- `reports_namespace`: reports are matched by labels alone (`invocation.go:202`).

### Further observations

Read off the code, each without a run of its own:

- The hosts of a deleted ServiceEntry are removed by one update per LazySidecar
  (`controller.go:169`). If it is refused, for instance because the cache does not
  hold the handler's own addition yet, they stay: a reconcile only adds hosts, and
  not even a resync brings a deleted ServiceEntry back to mind.
- Metadata without namespace is no error (`invocation.go:143`, `162`) and yields the
  host `/demo..svc.cluster.local` where a selector without labels matches.
- Labels dropped from the workload (`invocation.go:149`) are not dropped from the
  selector: one on `istio.io/rev` never matches.
- After the controller's Deployment has been replaced, the handlers go on creating
  objects under the old owner and the garbage collector goes on deleting them until
  some LazySidecar is reconciled. `GetsToServe` holds because of the resync.

## 4. Proofs

Every theorem holds for every value of the constants that satisfies the assumption
of its module: `ControllerAssumption` (finitely many ServiceEntries; hosts of
middleware, users and matches within their sets; a budget of naturals),
`DerivedAssumption` (nil is no selector; ports are naturals), `EgressAssumption`,
`InvocationAssumption` (namespaces, calls and lists have their types; text
contains no separator) or `HostListsAssumption` (hosts are naturals, so that they
are ordered as strings are; the bounds are naturals). TLC evaluates these in the runs.

| Module | Theorem | States |
|---|---|---|
| `LazySidecarControllerProofs` | `TypeCorrect` | `Spec => []TypeOK` |
| | `CopiesAlwaysFaithful` | `Spec => []CopiesFaithful` |
| | `HostsNeverLost` | `Spec => NoHostLost` |
| | `ListsAreAtomic` | `Spec => AtomicLists`: the controller implements `EgressHosts` |
| `LazySidecarSyncProofs` | `SidecarStaysInSync` | `SidecarInSync` as long as `spent["fault"] = 0` |
| | `StatusStaysInSync` | `StatusInSync` on the same condition |
| | `ServiceEntriesStayImported` | `ServiceEntriesImported` on the same condition |
| `DerivedResourcesProofs` | `DerivedTypeCorrect` | `Spec => []TypeOK` |
| | `DerivedRestsInSync` | `RestsInSync` in every state with one service at most |
| | `DerivedFilterSelects` | `FilterSelects` if there is never more than one service |
| `EgressWorkloadProofs` | `EgressTypeCorrect` | `Spec => []TypeOK` |
| | `EgressRestored` | `Spec => []RestoredAtRest` |
| `InvocationProofs` | `InvocationTypeCorrect` | `Spec => []TypeOK` |
| | `OneEntry` | `OneEntryPerService`, given `CallersKnown` and `UsersWriteServices` |
| | `OnlyMatchedLearned` | `Spec => []OnlyMatched` |
| `HostListsProofs` | `HostListsTypeCorrect` | `Spec => []TypeOK` |
| | `ListAlwaysIsSet` | `Spec => []ListIsSet` |
| | `SidecarAlwaysIsSet` | `Spec => []SidecarIsSet` |
| | `SecondReconcileWritesTheSame` | `Spec => SecondReconcileIsNoop` |
| | `HostsNeverReimported` | `Spec => NoReimport` |

### Lists of the core

The inductive invariant is `TypeOK /\ CopiesFaithful`. `NoHostLost` alone is not
inductive: the step of a writer replaces the stored list by one computed from its
copy, and whether that drops a host depends on what the copy holds. The
strengthening says that a live copy with the stored version has the stored hosts,
wherever the copy is: in the informer, on its way to it, with the worker, the
handler or a report. `StoreLsFaithful` shows that a write makes every older copy
harmless because the version grows, and `UpdateLsFaithful` carries this to an
update that may also be refused or fail. With it, an accepted update is a set
operation on the *stored* list (`UpdateHosts`), every step is one of five kinds
(`EveryHostStep`), and both `NoHostLost` and the refinement follow.

### Rest in the core

`SidecarInSync`, `StatusInSync` and `ServiceEntriesImported` say what is true when
nothing is left to do, and an inductive invariant has to say where the work is
while something is. It is built on `TypeOK /\ CopiesFaithful` and has four parts.

- `CachesFollow`: the end of a watch stream, or the cache if the stream is empty, is
  the stored object. Every write is announced or changes nothing (`Announced`).
- `Reconciled`: if nothing is in flight or queued for a LazySidecar (`Settled`), the
  worker either is not at it, and then Sidecar and status are as they should be, or
  is at it, and then its copies are fresh and what it has behind it is done
  (`MidReconcile`). The point of the proof is `SettledStep`: a step after which a
  LazySidecar is settled changed nothing of it and found it settled, or is its
  `Reconcile`. Whoever interferes therefore leaves it unsettled, and a refused write
  does too, since the copy it was computed from was not fresh.
- `ServiceEntriesFollow`: the last event of a ServiceEntry on the way to the informer,
  or the cache, has its hosts.
- `Imported`: a host of a cached ServiceEntry is in the list of a settled LazySidecar,
  or is `Coming`: with the worker, which has still to list or holds it; in an event
  that waits for the handler; or with the handler, before its second listing or with
  a copy that is still the stored version.

The condition `spent["fault"] = 0`, no call failed for another reason than a
conflict, cannot be dropped: nothing is requeued after such a failure, and the run
`failure` violates a consequence. Conflicts, deletions, kills and everything users
do are included.

### Derived objects

`WorkStands` says for each place of the worker what is already derived from the
informer's copy, unless the LazySidecar is queued again or the process is down. A
refused write queues the name, so it needs no exception. With two services the
template fails and the patches are never in sync, hence the condition.

### Egress workload

`OwnerKnown` says that `ownerDeployment` is empty, or half copied, only while the
worker or a queued LazySidecar has the creation of all objects still ahead.
`MissingComes` says that a missing watched object is on somebody's way: a stopped
process, a queued LazySidecar, a worker that has still to pass it now or when an
inner call of `Init` returns, a delete event, or a handler that took a usable owner.
Only together are they inductive: a handler that finds no usable owner creates
nothing, and `OwnerKnown` then supplies the worker.

### Reports

`ParseHostIs` is what the theorems rest on: for every way to spell a destination,
`ParseHost` makes the host `<<ns, "/", name, ".", ns, ".svc...">>`, where `ns` is the
destination's namespace or else the caller's. Its proof follows the code: the
lemmas about package `strings` (`BeforeFirst`, `TrimEnds`, `TrimSuffixThere`,
`TrimSuffixTooLong`) are about all sequences, `HostOf` cuts off path and port,
`StemOf` the suffix and stray dots. The lists then only need that an accepted host is
new (`AddedOnce`). `OneEntry` has two conditions on the environment, each needed:

- `CallersKnown`: a caller whose metadata decodes gives labels and a namespace, or its
  destination has one. Without, the host is `/demo..svc.cluster.local`.
- `UsersWriteServices`: users write no duplicates and qualified names only; the code
  does not touch what they write.

The constants of the run `reports` satisfy both.

`OnlyMatchedLearned` has none. It says what is left of `OnlySelected`, which the code
does not keep: a learned host is exactly what some call means (`ReportedHostMeant`,
the host without namespace included), and its caller carries all labels of the
LazySidecar up to the case of their values, in whatever namespace (`MatchedCarries`).
A LazySidecar with labels therefore learns nothing from incomplete metadata.

### Host list algorithms

`TypeOK /\ ListIsSet` is inductive, and with it `SidecarIsSet`, because every event
but a reconcile starts the count `fresh` again. `SecondReconcileIsNoop` needs
`Settled`: after two reconciles in a row every listener has the list `Merged`, which
depends on the LazySidecar alone. The first of the two may have created the Sidecar,
with the same hosts in another order, which is why one reconcile is not enough.

The work is in the operators, whose lemmas hold for lists of every length:

- Loops. The library's induction theorems cannot be instantiated here, but the
  existence of minimal elements (`WFMin`) is stated over sets. `Least` and from it
  `Induction` are therefore about a *set* of naturals, and `LoopExists` shows that a
  recursive function over 0..n exists whose values are those of a loop body. For each
  operator one lemma (`KeptLoop`, `RemoveDuplicateLoop`, `SearchLoop`, `SpliceLoop`)
  applies it, and the next does the induction.
- `SortIs`: the sorted list is ordered and has every host as often as the list. A host
  fills exactly the positions between the number of entries below it and of those not
  above it (`Counts`), and there is one for each position (`RankExists`).
- `FoundIs`: in an ordered list `SearchStrings` finds a host exactly if it is there.
  The loop invariant `Narrowed` says that what is left of `lo` is below the host, that
  from `hi` on nothing is, and that a round shortens what is between.
- `SpliceIs`: the splicing loop removes the given hosts and nothing else, and makes no
  host more frequent. Its invariant `Spliced` says that what lies before the index is
  clean, that the other hosts are all still there, and that a round brings index and
  end of the list one closer, by removing an entry or by stepping over it.
- `RemoveDuplicateIs` and `KeptIs` for the loops that build a new list.

### Only model-checked

- `ComesToRest`, `SyncedOrStuck`, `GetsToServe`, `EveryCallLearned`: liveness under
  fairness is beyond the prover.
- The violations of section 3.

## 5. Not modelled

- A relist of an informer after a broken watch (it merges events; a restart, which
  is modelled, merges more), more than one replica of the controller, upgrades.
- Names and namespaces of LazySidecars beyond identity; several egress listeners
  in the core (they are in `HostLists`); hosts that differ from the default host
  only by case or blanks.
- A Sidecar of the derived name that existed before and has no owner.
- The periodic resync in the core and in `DerivedResources`: it only adds wake-ups
  like those of events that change nothing, which are there.
- Spellings of hosts that `ParseHost` does not claim to support: names outside the
  cluster, `demo.default.svc`, a final dot after the suffix, an empty destination.
- Protocol buffers and base64 beyond what the handler sees of them (missing parts, a
  panic that gin recovers); headers that do not bind.
- The contents of the proxy's configuration files, images, ports and resources.
- Generated code, error codes, flags, probes, leader election, logging, response
  formatting, `GetResources` (never called).

## 6. Plan

1. Done: all modules of section 2, and theorems for all their invariants and action
   properties.
2. Left, proofs between modules: that the records of `DerivedResources` refine what
   the core keeps of a Sidecar, and that `Invocation` meets the assumptions the core
   makes about `SvcHosts` and `Matched`.
