-------------------------- MODULE MCRuntimeFindings --------------------------
(* Instances of RuntimeFindings for TLC; the bounds are in the .cfg file.      *)
EXTENDS RuntimeFindings

\* What the command's client 2 has in common with the clients made by hand.
SharedName == {<<3, 2>>}
SharedKey == {<<1, 2>>}
=============================================================================
