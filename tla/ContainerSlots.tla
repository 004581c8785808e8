--------------------------- MODULE ContainerSlots ---------------------------
(***************************************************************************)
(* What the daemon promises of the containers it makes, seen from their    *)
(* names: under one name there is at most one container at a time, and a   *)
(* container is created, started once and ended once before the name is    *)
(* free again.  No step makes an ended container run again or touches two  *)
(* names.  Removal is possible at any time.                                *)
(***************************************************************************)
CONSTANT Names

VARIABLE slot  \* name -> status of the container that has it

Statuses == {"none", "created", "running", "exited"}

Init == slot = [n \in Names |-> "none"]

Move(n, from, to) == slot[n] = from /\ slot' = [slot EXCEPT ![n] = to]

Create(n) == Move(n, "none", "created")

Start(n) == Move(n, "created", "running")

Exit(n) == Move(n, "running", "exited")

Remove(n) == \E from \in Statuses : Move(n, from, "none")

Next == \E n \in Names : Create(n) \/ Start(n) \/ Exit(n) \/ Remove(n)

Spec == Init /\ [][Next]_slot

=============================================================================
