---------------------------- MODULE MCLifecycle ----------------------------
(***************************************************************************)
(* Lifecycle on small instances: model values are interchangeable, so the  *)
(* safety runs take one state of each orbit.  Temporal runs do not.        *)
(***************************************************************************)
EXTENDS LifecycleProps, TLC

Symmetry == Permutations(Reqs) \cup Permutations(Srvs) \cup Permutations(Cids)

=============================================================================
