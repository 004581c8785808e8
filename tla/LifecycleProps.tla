--------------------------- MODULE LifecycleProps ---------------------------
(***************************************************************************)
(* What must hold of Lifecycle, and what the comments and messages of the  *)
(* code claim of it.  Line numbers are those of handlers/servers.go unless *)
(* another file is named.                                                  *)
(***************************************************************************)
EXTENDS Lifecycle

HandlerOn(s, pcs) == \E r \in Reqs : req[r].srv = s /\ req[r].pc \in pcs

Quiet == \A r \in Reqs : req[r].pc = "idle"

Game(c) == Exists(c) /\ containers[c].kind = "game"

\* A server never rests in a passing state: whoever set "starting" (line 250)
\* is still on its way to "running" or "crashed", and "installing" (line 72)
\* is only seen while the install goroutine lives, on every error path and
\* whatever other requests did to the same server meanwhile.
PassingStatesOwned ==
  \A s \in Srvs :
    /\ servers[s].state = "starting" =>
         HandlerOn(s, {"pull", "create", "set_id", "run", "running", "crashed"})
    /\ servers[s].state = "installing" => inst[s].pc # "none"

\* A server started by this daemon and shown as running has a running game
\* container of its own UUID, or the news of that container's end is on its
\* way: a watcher holds an exit status it has not reported yet, or the start
\* handler is about to spawn one.  Concerns line 272 against lines 275-282.
RunningAliveOrTold ==
  \A s \in Srvs :
    servers[s].state = "running" /\ servers[s].image /\ ~servers[s].cancelled =>
      \/ HandlerOn(s, {"watch"})
      \/ \E c \in Cids :
           /\ watch[c].srv = s
           /\ \/ watch[c].got \in Codes
              \/ /\ IsRunning(c) /\ Game(c)
                 /\ containers[c].uuid = servers[s].uuid

\* No container is in the hands of two owners: two Server objects, or a Server
\* object and an install goroutine, never hold the same container id, so that
\* a stop, kill or remove acts on the container of its own server only.
SoleOwner ==
  \A s1, s2 \in Srvs :
    /\ s1 # s2 /\ servers[s1].cid # Null =>
         servers[s1].cid # servers[s2].cid \/ Unreachable(s1) \/ Unreachable(s2)
    /\ inst[s1].cid # Null => inst[s1].cid # servers[s2].cid \/ Unreachable(s2)

\* Whoever still holds a Server object that left the registry can tell from
\* its context: every goroutine bound to a deleted server is told to stop
\* (Manager.Remove), and an object that is in the registry is never cancelled.
HeldOrCancelled ==
  /\ \A s \in Srvs :
       (\A u \in UUIDs : registry[u] # s) =>
         servers[s].cancelled \/ Unreachable(s)
  /\ \A u \in UUIDs : registry[u] # Null => ~servers[registry[u]].cancelled

\* With requests served one at a time, no call failing and the daemon up, no
\* game container is ever out of reach: between requests each one is the
\* container of the server registered under its UUID.
NoOrphans ==
  Quiet => \A c \in Cids :
    Game(c) => LET s == registry[containers[c].uuid] IN
                 s # Null /\ servers[s].cid = c

\* servers.go:102-103: after DELETE the server's container, its data directory
\* and its registration are gone.
DeleteLeavesNothing ==
  Quiet => \A u \in UUIDs :
    registry[u] = Null => u \notin dirs /\ ~\E c \in Managed(u) : Game(c)

\* With requests served one at a time and no call failing, no server rests in
\* "stopping" or "starting" between requests: what lines 159 and 170 set is
\* undone by the same request, though watchers report in between.
RestsSettled ==
  Quiet => \A u \in UUIDs :
    registry[u] # Null =>
      servers[registry[u]].state \notin {"starting", "stopping"}

\* A server that shows "running" though nothing of it runs any more does not
\* go on showing it: the watcher of lines 275-282 corrects the state, whatever
\* happened to the container and to the wait call.
ExitNoticed ==
  \A s \in Srvs :
    LET dead == /\ servers[s].state = "running" /\ servers[s].image
                /\ ~servers[s].cancelled
                /\ ~\E c \in Managed(servers[s].uuid) : Game(c) /\ IsRunning(c)
    IN dead ~> ~dead

\* The install goroutine of a deleted server ends even when the script does
\* not: the cancelled context ends the log stream, the timeout the container.
DeletedInstallEnds ==
  \A s \in Srvs :
    inst[s].pc # "none" /\ servers[s].cancelled ~> inst[s].pc = "none"

-----------------------------------------------------------------------------
(* What comments and messages of the code say, and the code does not do    *)

\* servers.go:240 "server is still installing, cannot start": the install
\* script and the game of one server never run side by side.
InstallAlone ==
  \A c, d \in Cids :
    IsRunning(c) /\ IsRunning(d) /\ containers[c].uuid = containers[d].uuid =>
      containers[c].kind = containers[d].kind

-----------------------------------------------------------------------------
(* Refinement: the containers seen by their names                          *)

Named(name) == {c \in Managed(name[2]) : containers[c].kind = name[1]}

SlotStatus(name) ==
  IF Named(name) = {} THEN "none"
                      ELSE containers[CHOOSE c \in Named(name) : TRUE].status

Slots == INSTANCE ContainerSlots WITH
           Names <- Kinds \X UUIDs,
           slot <- [name \in Kinds \X UUIDs |-> SlotStatus(name)]

\* Every handler, goroutine, crash and restart together use each container
\* name the way ContainerSlots says: no container is started twice.
ContainersUsedOnce == Slots!Spec

=============================================================================
