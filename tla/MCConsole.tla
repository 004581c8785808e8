----------------------------- MODULE MCConsole -----------------------------
(***************************************************************************)
(* Console with few clients, a short channel and a few lines.              *)
(***************************************************************************)
EXTENDS Console, TLC

Symmetry == Permutations(Clients)

=============================================================================
