-------------------------- MODULE MCRuntimeInstall --------------------------
(* RuntimeInstall on a small instance: two bundle versions, so that one     *)
(* upgrade is possible over each integration, and a few faults.            *)
EXTENDS RuntimeInstall
=============================================================================
