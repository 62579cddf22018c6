---------------------------- MODULE Invocation ----------------------------
(***************************************************************************)
(* What a LazySidecar learns from reports (internal/routers/v1/invocation. *)
(* go): the egress proxy posts the metadata of a calling workload and the  *)
(* destination it called; Report qualifies the destination's host and adds *)
(* it to the LazySidecars that match the workload's labels.                *)
(*                                                                         *)
(* A string that the code takes apart is a sequence of tokens: separators  *)
(* and the names between them.  Here a report is one step, in which some   *)
(* updates may be refused; how reports race with each other and with the   *)
(* controller is the subject of LazySidecarController.                     *)
(***************************************************************************)
EXTENDS Naturals, SequencesExt

CONSTANTS
  LazySidecars,  \* names of LazySidecar objects
  Namespace,     \* the namespace of each
  Selector,      \* its WorkloadSelector, a set of labels
  Calls,         \* the workloads that call, and whom
  UserLists,     \* the host lists a user may write
  Text,          \* what stands between separators: names, numbers, the empty string
  Lower(_),      \* a string in lower case
  Budget         \* how often a user writes, how often an update is refused

Label == [key: STRING, value: STRING]

Separators == {".", ":", "/"}

\* A host is <<namespace, "/", name, ".", ...>>: never two names in a row.
Host == {h \in Seq(Text \cup Separators) :
           \A i \in 1..Len(h) - 1 : h[i] \in Separators \/ h[i + 1] \in Separators}

\* The metadata of a proxy.  Labels {} and namespace "" stand for a field that
\* is missing, empty or does not unmarshal.
Metadata == [base64: BOOLEAN, labels: SUBSET Label, ns: Text]

\* The ways to spell a host that ParseHost lists and its test exercises: with
\* or without namespace, suffix, port and path, and with a stray dot.
Destination ==
  {d \in [name: Text \ {""}, ns: Text, suffix: BOOLEAN, dot: {"", "leading", "trailing"},
          port: BOOLEAN, path: BOOLEAN] :
     d.dot = "trailing" => ~d.suffix}

ASSUME InvocationAssumption ==
  /\ {"", "svc", "cluster", "local"} \subseteq Text /\ Text \cap Separators = {}
  /\ Namespace \in [LazySidecars -> Text \ {""}]
  /\ \A n \in LazySidecars : Selector[n] \subseteq Label
  /\ \A c \in Calls : c.source \in Metadata /\ c.destination \in Destination
  /\ UserLists \subseteq Seq(Host)
  /\ Budget \in [{"user", "refused"} -> Nat]

VARIABLES
  egressHosts,  \* the stored list of each LazySidecar
  spent         \* how often each kind of outside event has happened

vars == <<egressHosts, spent>>

\* Lists hold hosts only, in which separators stand between names.
TypeOK ==
  /\ egressHosts \in [LazySidecars -> Seq(Host)]
  /\ spent \in [{"user", "refused"} -> Nat]

Init ==
  /\ egressHosts \in [LazySidecars -> UserLists]
  /\ spent = [e \in {"user", "refused"} |-> 0]

Spend(e) == spent[e] < Budget[e] /\ spent' = [spent EXCEPT ![e] = @ + 1]

-----------------------------------------------------------------------------
(***************************************************************************)
(* Package strings, on tokens.                                             *)
(***************************************************************************)
Before(s, sep) ==
  LET i == SelectInSeq(s, LAMBDA t : t = sep)
  IN  IF i = 0 THEN s ELSE SubSeq(s, 1, i - 1)

Trim(s, sep) ==
  LET kept == {i \in DOMAIN s : s[i] # sep}
  IN  IF kept = {} THEN <<>> ELSE SubSeq(s, Min(kept), Max(kept))

TrimSuffix(s, suffix) ==
  IF IsSuffix(suffix, s) THEN SubSeq(s, 1, Len(s) - Len(suffix)) ELSE s

EqualFold(a, b) == Lower(a) = Lower(b)

\* The token of a name, none for the empty string.
Name(s) == IF s = "" THEN <<>> ELSE <<s>>

FQDNSuffix == <<".", "svc", ".", "cluster", ".", "local">>

\* Mutant of ParseHost: the port is cut off before the path.
ParseHostKeepPath(srcNamespace, destination) ==
  LET host == Before(Trim(destination, ":"), ":")
      hostPrefix == Trim(TrimSuffix(host, FQDNSuffix), ".")
  IN  IF Contains(hostPrefix, ".")
      THEN <<Last(hostPrefix), "/">> \o hostPrefix \o FQDNSuffix
      ELSE Name(srcNamespace) \o <<"/">> \o hostPrefix \o <<".">> \o Name(srcNamespace)
           \o FQDNSuffix

\* Mutant of ParseHost: the dot before the caller's namespace is forgotten.
ParseHostNoDot(srcNamespace, destination) ==
  LET host == Before(Trim(Before(destination, "/"), ":"), ":")
      hostPrefix == Trim(TrimSuffix(host, FQDNSuffix), ".")
  IN  IF Contains(hostPrefix, ".")
      THEN <<Last(hostPrefix), "/">> \o hostPrefix \o FQDNSuffix
      ELSE Name(srcNamespace) \o <<"/">> \o hostPrefix \o Name(srcNamespace) \o FQDNSuffix

\* A host without namespace is one of the caller's namespace.
ParseHost(srcNamespace, destination) ==
  LET host == Before(Trim(Before(destination, "/"), ":"), ":")
      hostPrefix == Trim(TrimSuffix(host, FQDNSuffix), ".")
  IN  IF Contains(hostPrefix, ".")
      THEN <<Last(hostPrefix), "/">> \o hostPrefix \o FQDNSuffix
      ELSE Name(srcNamespace) \o <<"/">> \o hostPrefix \o <<".">> \o Name(srcNamespace)
           \o FQDNSuffix

-----------------------------------------------------------------------------
excludeKeys ==
  {"pod-template-hash", "security.istio.io/tlsMode", "service.istio.io/canonical-name",
   "service.istio.io/canonical-revision", "istio.io/rev"}

IsInStringSlice(element, elements) == \E item \in elements : EqualFold(item, element)

\* Metadata without labels or namespace is no error to the code.
ParseWorkloadLabels(source) ==
  IF source.labels = {} \/ source.ns = ""
  THEN [labels |-> {}, ns |-> ""]
  ELSE [labels |-> {l \in source.labels : ~IsInStringSlice(l.key, excludeKeys) /\ l.value # ""},
        ns |-> source.ns]

\* Mutant of isSourceMatched: one common label is enough.
isSourceMatchedByOne(workload, labels) ==
  labels = {} \/ \E l \in labels : \E w \in workload : w.key = l.key /\ EqualFold(l.value, w.value)

\* Mutant of isSourceMatched: the workload has no other labels.
isSourceMatchedExactly(workload, labels) == labels = {} \/ workload = labels

isSourceMatched(workload, labels) ==
  \A l \in labels : \E w \in workload : w.key = l.key /\ EqualFold(l.value, w.value)

syncLazySidecar(list, newHost) ==
  IF Contains(list, newHost) THEN list ELSE Append(list, newHost)

-----------------------------------------------------------------------------
\* How a destination is spelled in the header of a report.
Spell(d) ==
  (IF d.dot = "leading" THEN <<".">> ELSE <<>>) \o <<d.name>>
  \o (IF d.ns # "" THEN <<".", d.ns>> ELSE <<>>)
  \o (IF d.suffix THEN FQDNSuffix ELSE <<>>)
  \o (IF d.dot = "trailing" THEN <<".">> ELSE <<>>)
  \o (IF d.port THEN <<":", "80">> ELSE <<>>)
  \o (IF d.path THEN <<"/", "ping">> ELSE <<>>)

\* What Report makes of a call: the host, and the LazySidecars to add it to.
Parsed ==
  [c \in Calls |->
     LET source == ParseWorkloadLabels(c.source)
     IN  [host |-> ParseHost(source.ns, Spell(c.destination)),
          matched |-> {n \in LazySidecars : isSourceMatched(source.labels, Selector[n])}]]

\* Metadata that is not base64 makes the handler panic before it does anything.
Report(c) ==
  /\ c.source.base64
  /\ \E refused \in SUBSET Parsed[c].matched :
       /\ \/ refused = {} /\ UNCHANGED spent
          \/ refused # {} /\ Spend("refused")
       /\ egressHosts' = [n \in LazySidecars |->
            IF n \in Parsed[c].matched \ refused
            THEN syncLazySidecar(egressHosts[n], Parsed[c].host) ELSE egressHosts[n]]

UserWrites(n, list) ==
  /\ Spend("user")
  /\ egressHosts' = [egressHosts EXCEPT ![n] = list]

Next ==
  \/ \E c \in Calls : Report(c)
  \/ \E n \in LazySidecars, list \in UserLists : UserWrites(n, list)

Spec == Init /\ [][Next]_vars

\* The workloads go on calling what they need; a call of a host their proxies
\* do not know goes through the egress proxy and is reported.
FairSpec == Spec /\ \A c \in Calls : WF_vars(Report(c))

-----------------------------------------------------------------------------
(***************************************************************************)
(* What is promised, in terms of the calls and not of their spelling.      *)
(***************************************************************************)
\* The workloads a LazySidecar selects: those of its namespace that have all
\* its labels.
Selects(n, source) == source.ns = Namespace[n] /\ Selector[n] \subseteq source.labels

\* The service a call reaches, as hosts of a Sidecar are written.
Qualified(c) ==
  LET ns == IF c.destination.ns = "" THEN c.source.ns ELSE c.destination.ns
  IN  <<ns, "/", c.destination.name, ".", ns>> \o FQDNSuffix

\* Every service has one entry at most, in the form Istio understands, however
\* many ways the callers spell it (ParseHost, syncLazySidecar).
OneEntryPerService ==
  \A n \in LazySidecars :
    /\ IsInjective(egressHosts[n])
    /\ \A host \in Range(egressHosts[n]) : \E ns \in {Head(host)}, name \in {host[3]} :
         ns \notin Separators /\ host = <<ns, "/", name, ".", ns>> \o FQDNSuffix

\* A LazySidecar learns from the workloads it selects alone; whatever else is in
\* its list was written there.  isSourceMatched does not keep this: it never asks
\* for the namespace.
OnlySelected ==
  \A n \in LazySidecars : \A host \in Range(egressHosts[n]) :
    \/ \E list \in UserLists : host \in Range(list)
    \/ \E c \in Calls : Selects(n, c.source) /\ host = Qualified(c)

\* The workload is known to carry the labels, in whatever namespace, and up to
\* the case of their values.  Without a namespace nothing is known of it.
Carries(source, labels) ==
  \A l \in labels : /\ source.ns # ""
                    /\ \E w \in source.labels : w.key = l.key /\ EqualFold(l.value, w.value)

\* Neither the destination nor what is known of the caller has a namespace.
Unplaced(c) == c.destination.ns = "" /\ (c.source.ns = "" \/ c.source.labels = {})

\* What the matching does guarantee, whoever calls: a host that nobody wrote is
\* the service a call reaches, or a host without namespace if the call tells
\* none, and the caller carries all labels of the LazySidecar.  Incomplete
\* metadata passes for no label (isSourceMatched, ParseWorkloadLabels, ParseHost).
OnlyMatched ==
  \A n \in LazySidecars : \A host \in Range(egressHosts[n]) :
    \/ \E list \in UserLists : host \in Range(list)
    \/ \E c \in Calls :
         /\ c.source.base64 /\ Carries(c.source, Selector[n])
         /\ host = IF Unplaced(c) THEN <<"/", c.destination.name, ".">> \o FQDNSuffix
                   ELSE Qualified(c)

\* What a selected workload keeps calling gets into the list for good, although
\* a refused update is not repeated and users take hosts away (Report).
EveryCallLearned ==
  <>[](\A n \in LazySidecars, c \in Calls :
         c.source.base64 /\ Selects(n, c.source) => Qualified(c) \in Range(egressHosts[n]))
=============================================================================
