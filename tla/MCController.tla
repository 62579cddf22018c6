--------------------------- MODULE MCController ---------------------------
(***************************************************************************)
(* Values for the constants of LazySidecarController.                      *)
(***************************************************************************)
EXTENDS LazySidecarController

CONSTANTS UserHost, Middleware, UserBudget, SeBudget, CallBudget, TickBudget,
          GcBudget, CrashBudget, FaultBudget

MCBudget == [user |-> UserBudget, se |-> SeBudget, call |-> CallBudget,
             tick |-> TickBudget, gc |-> GcBudget,
             crash |-> CrashBudget, fault |-> FaultBudget]

\* Every LazySidecar binds the same middleware and selects every workload.
MCMiddlewareHosts == [n \in LazySidecars |-> Middleware]
MCMatched == [r \in Requests |-> LazySidecars]

\* A user writes no hosts at all, or one host.
MCUserHosts == {{}, {UserHost}}
=============================================================================
