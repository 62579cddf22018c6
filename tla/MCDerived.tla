---------------------------- MODULE MCDerived ----------------------------
(***************************************************************************)
(* Values for the constants of DerivedResources.                           *)
(***************************************************************************)
EXTENDS DerivedResources

\* At most one middleware service, or up to two.
OneService == {<<>>, <<6379>>, <<3306>>}
TwoServices == {<<>>, <<6379>>, <<6379, 3306>>}
=============================================================================
