----------------------------- MODULE MCMonitor -----------------------------
(***************************************************************************)
(* Monitor on small instances, with the symmetry of MCLifecycle.           *)
(***************************************************************************)
EXTENDS Monitor, TLC

Symmetry == Permutations(Srvs) \cup Permutations(Cids)

=============================================================================
