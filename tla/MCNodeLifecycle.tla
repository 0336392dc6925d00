-------------------------- MODULE MCNodeLifecycle --------------------------
(* NodeLifecycle with the constants of the Lifecycle_*.cfg files.          *)
EXTENDS NodeLifecycle
=============================================================================
