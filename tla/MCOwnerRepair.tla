--------------------------- MODULE MCOwnerRepair ---------------------------
(* Instances of OwnerRepair for TLC; the bounds are in the .cfg files.         *)
EXTENDS OwnerRepair, TLC

CONSTANTS s1, s2

TwoSessions == {s1, s2}
MCSymmetry == Permutations(TwoSessions)
=============================================================================
