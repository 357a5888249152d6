---------------------------- MODULE MCRouteState ----------------------------
(* An Entry with one Exit and one Auto Route. *)
EXTENDS RouteState
=============================================================================
