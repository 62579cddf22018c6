--------------------------- MODULE MCHostLists ---------------------------
(***************************************************************************)
(* Values for the constants of HostLists.                                  *)
(***************************************************************************)
EXTENDS HostLists

MCMiddleware == <<3, 1>>
=============================================================================
