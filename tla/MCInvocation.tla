--------------------------- MODULE MCInvocation ---------------------------
(***************************************************************************)
(* Values for the constants of Invocation.                                 *)
(***************************************************************************)
EXTENDS Invocation

CONSTANTS UserBudget, RefusedBudget

MCBudget == [user |-> UserBudget, refused |-> RefusedBudget]

MCText == STRING \ Separators

MCLower(s) == IF s = "Web" THEN "web" ELSE s

L(k, v) == [key |-> k, value |-> v]

\* The LazySidecar of the web workloads, and one of its namespace's workloads.
MCLazySidecars == {"web", "all"}
MCNamespace == [n \in MCLazySidecars |-> "a"]
MCSelector == [n \in MCLazySidecars |->
                 IF n = "web" THEN {L("app", "web"), L("tier", "front")} ELSE {}]

Proxy(labels, ns) == [base64 |-> TRUE, labels |-> labels, ns |-> ns]
WebFront == Proxy({L("app", "web"), L("tier", "front"), L("version", "v1"),
                   L("pod-template-hash", "x")}, "a")
WebBack == Proxy({L("app", "web"), L("tier", "back")}, "a")
ForeignFront == [WebFront EXCEPT !.ns = "c"]
\* A workload of another namespace whose labels match up to case, and one whose
\* metadata has no namespace.
ForeignWeb == Proxy({L("app", "Web"), L("tier", "front")}, "c")
Nowhere == [WebFront EXCEPT !.ns = ""]

\* Every spelling of a name, with no namespace or namespace b.
Spellings(name) ==
  {d \in [name: {name}, ns: {"", "b"}, suffix: BOOLEAN, dot: {"", "leading", "trailing"},
          port: BOOLEAN, path: BOOLEAN] : d.dot = "trailing" => ~d.suffix}

CallsOf(source, destinations) == {[source |-> source, destination |-> d] : d \in destinations}

\* One of them, in full or without namespace and suffix.
Full(name) == {d \in Spellings(name) : d.ns = "b" /\ d.suffix /\ d.dot = "" /\ d.port /\ d.path}
Short(name) == {d \in Spellings(name) : d.ns = "" /\ ~d.suffix /\ d.dot = "" /\ ~d.port /\ ~d.path}

\* The last call comes with metadata that does not decode.
MCCalls ==
  CallsOf(WebFront, Spellings("demo")) \cup CallsOf(WebBack, Spellings("shop"))
  \cup CallsOf(ForeignWeb, Short("demo")) \cup CallsOf(Nowhere, Full("shop"))
  \cup CallsOf([WebBack EXCEPT !.base64 = FALSE], Full("cart"))
ForeignCalls == CallsOf(ForeignFront, Spellings("demo"))

MCUserLists == {<<>>, <<<<"b", "/", "demo", ".", "b">> \o FQDNSuffix>>}
=============================================================================
