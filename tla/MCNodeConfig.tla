---------------------------- MODULE MCNodeConfig ----------------------------
(***************************************************************************)
(* Responses of different lengths and for two nodes, one without data      *)
(* directory and one without UUID.                                         *)
(***************************************************************************)
EXTENDS NodeConfig

SomeResponses ==
  {[uuid |-> "n1", data |-> "d1", cells |-> 3],
   [uuid |-> "n2", data |-> "d2", cells |-> 2],
   [uuid |-> "n1", data |-> "", cells |-> 3],
   [uuid |-> "", data |-> "d1", cells |-> 2]}

=============================================================================
