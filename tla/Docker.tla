------------------------------- MODULE Docker -------------------------------
(***************************************************************************)
(* The Docker daemon, as internal/docker/manager.go uses it.  Docker       *)
(* outlives the node daemon: its containers are the only state a restart   *)
(* of hostoria-node finds again.                                           *)
(*                                                                         *)
(* The operators below give the effect of one successful API call on       *)
(* `containers'; whether a call succeeds, and who is told about it, is     *)
(* decided by the module that makes the call.                              *)
(***************************************************************************)
EXTENDS Node

VARIABLE containers

\* "game": CreateContainer's; "install": RunInstallScript's (labelInstall).
Kinds == {"game", "install"}

\* Exit status: only zero against non-zero matters to the callbacks.
Codes == {"zero", "nonzero"}

NoContainer == [status |-> "none", kind |-> "none", uuid |-> Null,
                code |-> "zero"]

Container == [status: {"none", "created", "running", "exited"},
              kind: Kinds \cup {"none"},
              uuid: UUIDs \cup {Null},
              code: Codes]

DockerTypeOK == containers \in [Cids -> Container]

DockerInit == containers = [c \in Cids |-> NoContainer]

Exists(c) == c \in Cids /\ containers[c].status # "none"

IsRunning(c) == c \in Cids /\ containers[c].status = "running"

\* Containers carrying the labels hostoria.managed and hostoria.server_uuid=u.
Managed(u) == {c \in Cids : Exists(c) /\ containers[c].uuid = u}

\* Docker refuses a second container of one name.  The name is
\* "hostoria-<uuid>" for a game and "hostoria-install-<uuid>" for an installer.
NameTaken(kind, u) == \E c \in Managed(u) : containers[c].kind = kind

ContainerCreate(c, kind, u) ==
  containers' = [containers EXCEPT ![c] =
    [status |-> "created", kind |-> kind, uuid |-> u, code |-> "zero"]]

ContainerStart(c) ==
  containers' = [containers EXCEPT ![c].status = "running"]

\* A running container ends with `code'; any other is left as it is
\* (the Docker API answers 304 when it is asked to stop those).
ContainerHalt(c, code) ==
  containers' = IF IsRunning(c)
                  THEN [containers EXCEPT ![c].status = "exited",
                                          ![c].code = code]
                  ELSE containers

\* RemoveOptions{Force: true}: the container goes whatever its status.
ContainerRemove(c) == containers' = [containers EXCEPT ![c] = NoContainer]

=============================================================================
