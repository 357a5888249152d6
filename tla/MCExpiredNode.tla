---------------------------- MODULE MCExpiredNode ----------------------------
(* Instances of ExpiredNode for TLC; the bounds are in the .cfg files.         *)
EXTENDS ExpiredNode
=============================================================================
