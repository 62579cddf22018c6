----------------------------- MODULE MCEgress -----------------------------
(***************************************************************************)
(* Values for the constants of EgressWorkload.                             *)
(***************************************************************************)
EXTENDS EgressWorkload

CONSTANTS DeleteBudget, OutageBudget, FaultBudget

MCBudget == [delete |-> DeleteBudget, outage |-> OutageBudget, fault |-> FaultBudget]
=============================================================================
