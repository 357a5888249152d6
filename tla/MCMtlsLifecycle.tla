-------------------------- MODULE MCMtlsLifecycle --------------------------
(* Instances of MtlsLifecycle for TLC; the bounds are in the .cfg files.      *)
EXTENDS MtlsLifecycle
=============================================================================
