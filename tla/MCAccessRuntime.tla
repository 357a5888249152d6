-------------------------- MODULE MCAccessRuntime --------------------------
(* TLC instances of AccessRuntime.                                            *)
EXTENDS AccessRuntime

MCEntitlements == {[days |-> 1, limit |-> 1], [days |-> 2, limit |-> 1]}
=============================================================================
