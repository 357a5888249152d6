------------------------- MODULE MCNodeTransaction -------------------------
(* TLC instances of NodeTransaction.                                          *)
EXTENDS NodeTransaction, TLC

CONSTANTS c1, c2, agent, none

MCCli == {c1, c2}
MCSymmetry == Permutations({c1, c2})
=============================================================================
