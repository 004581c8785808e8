------------------------------ MODULE Registry ------------------------------
(***************************************************************************)
(* internal/server: the registry of servers (server.Manager) and the       *)
(* Server objects it points to.  Handlers and goroutines keep the pointer  *)
(* they were given, so an object lives on after it left the registry; the  *)
(* objects are therefore a heap of their own, `servers', addressed by      *)
(* Srvs.  Every accessor of the code takes one mutex for one field: each   *)
(* operator below is one such critical section.                            *)
(***************************************************************************)
EXTENDS Node

VARIABLES
  registry,  \* Manager.servers: UUID -> address, Null when absent
  servers    \* the Server objects

registryVars == <<registry, servers>>

States == {"offline", "installing", "install_failed", "starting", "running",
           "stopping", "crashed"}

\* `image' tells whether the object knows its DockerImage: the entries the
\* daemon restores at boot do not.  `cancelled' is ctx.Done().
Server == [uuid: UUIDs \cup {Null},
           state: States,
           cid: Cids \cup {Null},
           image: BOOLEAN,
           cancelled: BOOLEAN]

\* Mutant: the state is left at its zero value.
New_ZeroState(u, image) ==
  [uuid |-> u, state |-> "", cid |-> Null, image |-> image, cancelled |-> FALSE]

\* server.New
New(u, image) ==
  [uuid |-> u, state |-> "offline", cid |-> Null, image |-> image,
   cancelled |-> FALSE]

\* An address that holds no object.
NoServer == [New(Null, FALSE) EXCEPT !.cancelled = TRUE]

RegistryTypeOK ==
  /\ registry \in [UUIDs -> Srvs \cup {Null}]
  /\ servers \in [Srvs -> Server]

RegistryInit ==
  /\ registry = [u \in UUIDs |-> Null]
  /\ servers = [s \in Srvs |-> NoServer]

\* Server.SetState and Server.SetContainerID
SetState(s, state) == servers' = [servers EXCEPT ![s].state = state]

SetContainerID(s, c) == servers' = [servers EXCEPT ![s].cid = c]

\* Manager.Add of a new object placed at the address s.
Add(s, server) ==
  /\ registry[server.uuid] = Null
  /\ registry' = [registry EXCEPT ![server.uuid] = s]
  /\ servers' = [servers EXCEPT ![s] = server]

\* Mutant: the entry is deleted and its context left alive.
Remove_NoCancel(u) ==
  /\ registry' = [registry EXCEPT ![u] = Null]
  /\ UNCHANGED servers

\* Manager.Remove: Cancel and delete under the write lock.
Remove(u) ==
  /\ registry' = [registry EXCEPT ![u] = Null]
  /\ servers' = IF registry[u] = Null
                  THEN servers
                  ELSE [servers EXCEPT ![registry[u]].cancelled = TRUE]

=============================================================================
