----------------------------- MODULE Lifecycle -----------------------------
(***************************************************************************)
(* The life of game servers on a node: the HTTP handlers of                *)
(* internal/api/handlers/servers.go, each running in the goroutine of its  *)
(* request; the install goroutine of CreateServer (RunInstallScript); the  *)
(* exit watcher of startServer (WatchContainer); the restore loop of the   *)
(* daemon; and Docker, where containers end on their own.                  *)
(*                                                                         *)
(* One action is one critical section or one Docker call, so that requests *)
(* and goroutines interleave wherever the code lets them.  A goroutine's   *)
(* program counter names the call it makes next.                           *)
(***************************************************************************)
EXTENDS Docker, Registry

CONSTANTS
  Reqs,  \* request goroutines: the requests the panel has in flight at once
  Ops    \* what the panel (and the operator: "shutdown") may ask for

OpNames == {"create", "install", "delete", "start", "stop", "restart", "kill",
            "shutdown"}

ASSUME LifecycleAssumption ==
  /\ Null \notin Reqs
  /\ Ops \subseteq OpNames

VARIABLES
  req,     \* request goroutine -> its pc and local variables
  inst,    \* server address -> its install goroutine (at most one)
  watch,   \* container -> its WatchContainer goroutine (at most one)
  daemon,  \* "down", "restoring" (before the API listens), "up"
  todo,    \* restoring: the entries of RestoreContainerMap not restored yet
  dirs     \* UUIDs whose data directory exists

vars == <<containers, registry, servers, req, inst, watch, daemon, todo, dirs>>

StartPcs == {"check", "read", "remove_stale", "clear", "starting", "pull",
             "create", "set_id", "run", "running", "watch", "crashed"}

ReqPcs == StartPcs \cup
  {"idle", "mkdir", "add", "installing",
   "del_read", "del_stop", "del_remove", "del_dir", "del_entry",
   "stop_read", "stop_stopping", "stop_stop", "stop_offline",
   "re_read", "re_stopping", "re_stop", "re_remove", "re_clear",
   "kill_read", "kill_kill", "kill_crashed"}

Request == [pc: ReqPcs, uuid: UUIDs \cup {Null}, srv: Srvs \cup {Null},
            cid: Cids \cup {Null}]

Idle == [pc |-> "idle", uuid |-> Null, srv |-> Null, cid |-> Null]

InstPcs == {"none", "pull", "create", "start", "logs", "wait", "kill",
            "remove_ok", "remove_failed", "ok", "failed"}

Install == [pc: InstPcs, cid: Cids \cup {Null}]

NoInstaller == [pc |-> "none", cid |-> Null]

\* got: "waiting" until ContainerWait answers with an exit status.
Watch == [srv: Srvs \cup {Null}, got: {"none", "waiting"} \cup Codes]

NoWatch == [srv |-> Null, got |-> "none"]

TypeOK ==
  /\ DockerTypeOK
  /\ RegistryTypeOK
  /\ req \in [Reqs -> Request]
  /\ inst \in [Srvs -> Install]
  /\ watch \in [Cids -> Watch]
  /\ daemon \in {"down", "restoring", "up"}
  /\ todo \in [UUIDs -> Cids \cup {Null}]
  /\ dirs \subseteq UUIDs

Init ==
  /\ DockerInit
  /\ RegistryInit
  /\ req = [r \in Reqs |-> Idle]
  /\ inst = [s \in Srvs |-> NoInstaller]
  /\ watch = [c \in Cids |-> NoWatch]
  /\ daemon = "down"
  /\ todo = [u \in UUIDs |-> Null]
  /\ dirs = {}

-----------------------------------------------------------------------------
(* Addresses and container identifiers that may be handed out.  Go's heap  *)
(* reuses an address once nothing points to it; a fresh container id is    *)
(* one the daemon does not remember.                                       *)

Unreachable(s) ==
  /\ \A u \in UUIDs : registry[u] # s
  /\ \A r \in Reqs : req[r].srv # s
  /\ \A c \in Cids : watch[c].srv # s
  /\ inst[s].pc = "none"

Fresh(c) ==
  /\ ~Exists(c)
  /\ \A s \in Srvs : servers[s].cid = c => Unreachable(s)
  /\ \A r \in Reqs : req[r].cid # c
  /\ \A s \in Srvs : inst[s].cid # c
  /\ watch[c] = NoWatch

-----------------------------------------------------------------------------
(* Docker calls.  ContainerWait answers when its container stops running.  *)

Tell(c, code) ==
  watch' = IF IsRunning(c) /\ watch[c].got = "waiting"
             THEN [watch EXCEPT ![c].got = code]
             ELSE watch

StopCall(c) ==
  /\ Exists(c)
  /\ \E code \in Codes : ContainerHalt(c, code) /\ Tell(c, code)

RemoveCall(c) ==
  /\ Exists(c)
  /\ ContainerRemove(c)
  /\ Tell(c, "nonzero")

\* A call on a container that is gone fails, and with Faults any call may.
CallFails(c) ==
  /\ Faults \/ ~Exists(c)
  /\ UNCHANGED <<containers, watch>>

-----------------------------------------------------------------------------
(* Steps of a request goroutine.                                           *)

Goto(r, pc) == req' = [req EXCEPT ![r].pc = pc]

GotoWith(r, pc, c) == req' = [req EXCEPT ![r].pc = pc, ![r].cid = c]

GotoHolding(r, pc, s) == req' = [req EXCEPT ![r].pc = pc, ![r].srv = s]

Reply(r) == req' = [req EXCEPT ![r] = Idle]

At(r, pc) == req[r].pc = pc

Srv(r) == servers[req[r].srv]

dockerVars == <<containers, watch>>
bootVars == <<daemon, todo>>

\* POST /api/servers: refused when the UUID is registered already.
CreateRequest(r, u) ==
  /\ At(r, "idle") /\ daemon = "up" /\ "create" \in Ops
  /\ registry[u] = Null
  /\ req' = [req EXCEPT ![r] = [Idle EXCEPT !.pc = "mkdir", !.uuid = u]]
  /\ UNCHANGED <<dockerVars, registryVars, inst, bootVars, dirs>>

CreateDir(r) ==
  /\ At(r, "mkdir")
  /\ \/ dirs' = dirs \cup {req[r].uuid} /\ Goto(r, "add")
     \/ Faults /\ Reply(r) /\ UNCHANGED dirs
  /\ UNCHANGED <<dockerVars, registryVars, inst, bootVars>>

\* server.New and Manager.Add; the reply, unless an install is to follow.
AddServer(r) ==
  /\ At(r, "add")
  /\ \/ /\ registry[req[r].uuid] # Null
        /\ Reply(r)
        /\ UNCHANGED registryVars
     \/ \E s \in Srvs :
          /\ Unreachable(s)
          /\ Add(s, New(req[r].uuid, TRUE))
          /\ \/ Reply(r)
             \/ "install" \in Ops /\ GotoHolding(r, "installing", s)
  /\ UNCHANGED <<dockerVars, inst, bootVars, dirs>>

SpawnInstaller(r) ==
  /\ At(r, "installing")
  /\ SetState(req[r].srv, "installing")
  /\ inst' = [inst EXCEPT ![req[r].srv] = [pc |-> "pull", cid |-> Null]]
  /\ Reply(r)
  /\ UNCHANGED <<dockerVars, registry, bootVars, dirs>>

\* getServer, then the switch on the method and the action.
FirstPc(op) ==
  CASE op = "delete" -> "del_read"
    [] op = "start" -> "check"
    [] op = "stop" -> "stop_read"
    [] op = "restart" -> "re_read"
    [] op = "kill" -> "kill_read"

ServerRequest(r, u, op) ==
  /\ At(r, "idle") /\ daemon = "up" /\ op \in Ops
  /\ registry[u] # Null
  /\ req' = [req EXCEPT ![r] = [pc |-> FirstPc(op), uuid |-> u,
                                srv |-> registry[u], cid |-> Null]]
  /\ UNCHANGED <<dockerVars, registryVars, inst, bootVars, dirs>>

\* GetContainerID into a local, and where to go with and without one.
ReadID(r, from, none, some) ==
  /\ At(r, from)
  /\ IF Srv(r).cid # Null
       THEN GotoWith(r, some, Srv(r).cid)
       ELSE IF none = "idle" THEN Reply(r) ELSE Goto(r, none)
  /\ UNCHANGED <<dockerVars, registryVars, inst, bootVars, dirs>>

-----------------------------------------------------------------------------
(* DeleteServer                                                            *)

DeleteReadID(r) == ReadID(r, "del_read", "del_dir", "del_stop")

DeleteStop(r) ==
  /\ At(r, "del_stop")
  /\ StopCall(req[r].cid) \/ CallFails(req[r].cid)
  /\ Goto(r, "del_remove")
  /\ UNCHANGED <<registryVars, inst, bootVars, dirs>>

\* Mutant: the container is stopped and never removed.
DeleteRemove_Skipped(r) ==
  /\ At(r, "del_remove")
  /\ Goto(r, "del_dir")
  /\ UNCHANGED <<dockerVars, registryVars, inst, bootVars, dirs>>

DeleteRemove(r) ==
  /\ At(r, "del_remove")
  /\ RemoveCall(req[r].cid) \/ CallFails(req[r].cid)
  /\ Goto(r, "del_dir")
  /\ UNCHANGED <<registryVars, inst, bootVars, dirs>>

\* Mutant: the data directory stays behind.
DeleteDir_Kept(r) ==
  /\ At(r, "del_dir")
  /\ Goto(r, "del_entry")
  /\ UNCHANGED <<dockerVars, registryVars, inst, bootVars, dirs>>

DeleteDir(r) ==
  /\ At(r, "del_dir")
  /\ \/ dirs' = dirs \ {req[r].uuid}
     \/ Faults /\ UNCHANGED dirs
  /\ Goto(r, "del_entry")
  /\ UNCHANGED <<dockerVars, registryVars, inst, bootVars>>

\* Manager.Remove is given the UUID, not the server the handler looked up.
DeleteEntry(r) ==
  /\ At(r, "del_entry")
  /\ Remove(req[r].uuid)
  /\ Reply(r)
  /\ UNCHANGED <<dockerVars, inst, bootVars, dirs>>

-----------------------------------------------------------------------------
(* startServer, reached from "start" and at the end of "restart"           *)

CheckInstalling(r) ==
  /\ At(r, "check")
  /\ IF Srv(r).state = "installing" THEN Reply(r) ELSE Goto(r, "read")
  /\ UNCHANGED <<dockerVars, registryVars, inst, bootVars, dirs>>

StartReadID(r) == ReadID(r, "read", "starting", "remove_stale")

\* Mutant: a container that exists is started again.
RemoveStale_Reuse(r) ==
  /\ At(r, "remove_stale")
  /\ Goto(r, "run")
  /\ UNCHANGED <<dockerVars, registryVars, inst, bootVars, dirs>>

RemoveStale(r) ==
  /\ At(r, "remove_stale")
  /\ RemoveCall(req[r].cid) \/ CallFails(req[r].cid)
  /\ Goto(r, "clear")
  /\ UNCHANGED <<registryVars, inst, bootVars, dirs>>

ClearID(r, from, to) ==
  /\ At(r, from)
  /\ SetContainerID(req[r].srv, Null)
  /\ GotoWith(r, to, Null)
  /\ UNCHANGED <<dockerVars, registry, inst, bootVars, dirs>>

\* A SetState call on the way to the pc `to'.
Mark(r, from, state, to) ==
  /\ At(r, from)
  /\ SetState(req[r].srv, state)
  /\ IF to = "idle" THEN Reply(r) ELSE Goto(r, to)
  /\ UNCHANGED <<dockerVars, registry, inst, bootVars, dirs>>

SetStarting(r) == Mark(r, "starting", "starting", "pull")

\* Mutant: the error of the pull is returned without a state change.
PullImage_EarlyReturn(r) ==
  /\ At(r, "pull")
  /\ \/ Srv(r).image /\ Goto(r, "create")
     \/ (Faults \/ ~Srv(r).image) /\ Reply(r)
  /\ UNCHANGED <<dockerVars, registryVars, inst, bootVars, dirs>>

\* An entry restored at boot has no DockerImage: Docker rejects the empty
\* reference.
PullImage(r) ==
  /\ At(r, "pull")
  /\ \/ Srv(r).image /\ Goto(r, "create")
     \/ (Faults \/ ~Srv(r).image) /\ Goto(r, "crashed")
  /\ UNCHANGED <<dockerVars, registryVars, inst, bootVars, dirs>>

\* Mutant: on a name conflict the existing container is adopted.
CreateContainer_Adopt(r) ==
  /\ At(r, "create")
  /\ IF NameTaken("game", Srv(r).uuid)
       THEN /\ \E c \in Managed(Srv(r).uuid) : GotoWith(r, "set_id", c)
            /\ UNCHANGED containers
       ELSE \E c \in Cids :
              /\ Fresh(c)
              /\ ContainerCreate(c, "game", Srv(r).uuid)
              /\ GotoWith(r, "set_id", c)
  /\ UNCHANGED <<watch, registryVars, inst, bootVars, dirs>>

CreateContainer(r) ==
  /\ At(r, "create")
  /\ \/ /\ ~NameTaken("game", Srv(r).uuid)
        /\ \E c \in Cids :
             /\ Fresh(c)
             /\ ContainerCreate(c, "game", Srv(r).uuid)
             /\ GotoWith(r, "set_id", c)
     \/ /\ Faults \/ NameTaken("game", Srv(r).uuid)
        /\ Goto(r, "crashed")
        /\ UNCHANGED containers
  /\ UNCHANGED <<watch, registryVars, inst, bootVars, dirs>>

StoreID(r) ==
  /\ At(r, "set_id")
  /\ SetContainerID(req[r].srv, req[r].cid)
  /\ Goto(r, "run")
  /\ UNCHANGED <<dockerVars, registry, inst, bootVars, dirs>>

\* Docker makes the directory of a bind mount when it is missing.
StartContainer(r) ==
  /\ At(r, "run")
  /\ \/ /\ Exists(req[r].cid)
        /\ ContainerStart(req[r].cid)
        /\ dirs' = dirs \cup {Srv(r).uuid}
        /\ Goto(r, "running")
        /\ UNCHANGED watch
     \/ CallFails(req[r].cid) /\ Goto(r, "crashed") /\ UNCHANGED dirs
  /\ UNCHANGED <<registryVars, inst, bootVars>>

SetRunning(r) == Mark(r, "running", "running", "watch")

\* The watcher's ContainerWait answers at once when the container has ended
\* already, with an error when it is gone.
SpawnWatch(r) ==
  /\ At(r, "watch")
  /\ LET c == req[r].cid IN
       watch' = [watch EXCEPT ![c] =
         [srv |-> req[r].srv,
          got |-> CASE IsRunning(c) -> "waiting"
                    [] Exists(c) /\ ~IsRunning(c) -> containers[c].code
                    [] OTHER -> "nonzero"]]
  /\ Reply(r)
  /\ UNCHANGED <<containers, registryVars, inst, bootVars, dirs>>

StartFailed(r) == Mark(r, "crashed", "crashed", "idle")

-----------------------------------------------------------------------------
(* PowerAction: stop, restart, kill                                        *)

StopReadID(r) == ReadID(r, "stop_read", "idle", "stop_stopping")

StopStopping(r) == Mark(r, "stop_stopping", "stopping", "stop_stop")

\* Mutant: the exit watcher is left to say that the server is offline.
StopContainer_ByWatcher(r) ==
  /\ At(r, "stop_stop")
  /\ StopCall(req[r].cid) \/ CallFails(req[r].cid)
  /\ Reply(r)
  /\ UNCHANGED <<registryVars, inst, bootVars, dirs>>

\* A failing stop is reported and leaves the server in "stopping".
StopContainer(r) ==
  /\ At(r, "stop_stop")
  /\ \/ StopCall(req[r].cid) /\ Goto(r, "stop_offline")
     \/ CallFails(req[r].cid) /\ Reply(r)
  /\ UNCHANGED <<registryVars, inst, bootVars, dirs>>

StopOffline(r) == Mark(r, "stop_offline", "offline", "idle")

RestartReadID(r) == ReadID(r, "re_read", "check", "re_stopping")

RestartStopping(r) == Mark(r, "re_stopping", "stopping", "re_stop")

RestartStop(r) ==
  /\ At(r, "re_stop")
  /\ StopCall(req[r].cid) \/ CallFails(req[r].cid)
  /\ Goto(r, "re_remove")
  /\ UNCHANGED <<registryVars, inst, bootVars, dirs>>

RestartRemove(r) ==
  /\ At(r, "re_remove")
  /\ RemoveCall(req[r].cid) \/ CallFails(req[r].cid)
  /\ Goto(r, "re_clear")
  /\ UNCHANGED <<registryVars, inst, bootVars, dirs>>

RestartClear(r) == ClearID(r, "re_clear", "check")

StartClear(r) == ClearID(r, "clear", "starting")

KillReadID(r) == ReadID(r, "kill_read", "idle", "kill_kill")

\* docker kill fails on a container that is not running; ignored.
KillContainer(r) ==
  /\ At(r, "kill_kill")
  /\ LET c == req[r].cid IN
       \/ IsRunning(c) /\ ContainerHalt(c, "nonzero") /\ Tell(c, "nonzero")
       \/ (Faults \/ ~IsRunning(c)) /\ UNCHANGED dockerVars
  /\ Goto(r, "kill_crashed")
  /\ UNCHANGED <<registryVars, inst, bootVars, dirs>>

KillCrashed(r) == Mark(r, "kill_crashed", "crashed", "idle")

-----------------------------------------------------------------------------
(* The goroutine of CreateServer around RunInstallScript, for the server   *)
(* at address s.  Its context is cancelled when the server is removed.     *)

InstGoto(s, pc) == inst' = [inst EXCEPT ![s].pc = pc]

InstallPull(s) ==
  /\ inst[s].pc = "pull"
  /\ \/ ~servers[s].cancelled /\ InstGoto(s, "create")
     \/ (Faults \/ servers[s].cancelled) /\ InstGoto(s, "failed")
  /\ UNCHANGED <<dockerVars, registryVars, req, bootVars, dirs>>

InstallCreate(s) ==
  /\ inst[s].pc = "create"
  /\ LET taken == NameTaken("install", servers[s].uuid) IN
     \/ /\ ~servers[s].cancelled /\ ~taken
        /\ \E c \in Cids :
             /\ Fresh(c)
             /\ ContainerCreate(c, "install", servers[s].uuid)
             /\ inst' = [inst EXCEPT ![s] = [pc |-> "start", cid |-> c]]
     \/ /\ Faults \/ servers[s].cancelled \/ taken
        /\ InstGoto(s, "failed")
        /\ UNCHANGED containers
  /\ UNCHANGED <<watch, registryVars, req, bootVars, dirs>>

InstallStart(s) ==
  /\ inst[s].pc = "start"
  /\ \/ /\ ~servers[s].cancelled /\ Exists(inst[s].cid)
        /\ ContainerStart(inst[s].cid)
        /\ dirs' = dirs \cup {servers[s].uuid}
        /\ InstGoto(s, "logs")
     \/ /\ Faults \/ servers[s].cancelled \/ ~Exists(inst[s].cid)
        /\ InstGoto(s, "remove_failed")
        /\ UNCHANGED <<containers, dirs>>
  /\ UNCHANGED <<watch, registryVars, req, bootVars>>

\* Mutant: the logs are followed on the background context.
InstallLogs_Background(s) ==
  /\ inst[s].pc = "logs"
  /\ ~IsRunning(inst[s].cid)
  /\ InstGoto(s, "wait")
  /\ UNCHANGED <<dockerVars, registryVars, req, bootVars, dirs>>

\* The log stream follows the container: it ends when the script does or when
\* the context is cancelled ...
InstallLogs(s) ==
  /\ inst[s].pc = "logs"
  /\ servers[s].cancelled \/ ~IsRunning(inst[s].cid)
  /\ InstGoto(s, "wait")
  /\ UNCHANGED <<dockerVars, registryVars, req, bootVars, dirs>>

\* ... or it cannot be had, or breaks; the scanner's error is not looked at.
StreamBreaks(s) ==
  /\ Faults /\ inst[s].pc = "logs"
  /\ InstGoto(s, "wait")
  /\ UNCHANGED <<dockerVars, registryVars, req, bootVars, dirs>>

\* Only now does the installTimeout start to run: exit, error or timeout.  A
\* timeout makes both errCh and Done ready, and select takes either.
InstallWait(s) ==
  /\ inst[s].pc = "wait"
  /\ LET c == inst[s].cid IN
     \/ /\ Exists(c) /\ ~IsRunning(c)
        /\ InstGoto(s, IF containers[c].code = "zero" THEN "remove_ok"
                                                      ELSE "remove_failed")
     \/ (Faults \/ ~Exists(c)) /\ InstGoto(s, "remove_failed")
     \/ IsRunning(c) /\ \E pc \in {"kill", "remove_failed"} : InstGoto(s, pc)
  /\ UNCHANGED <<dockerVars, registryVars, req, bootVars, dirs>>

InstallKill(s) ==
  /\ inst[s].pc = "kill"
  /\ LET c == inst[s].cid IN
       \/ IsRunning(c) /\ ContainerHalt(c, "nonzero")
       \/ (Faults \/ ~IsRunning(c)) /\ UNCHANGED containers
  /\ InstGoto(s, "remove_failed")
  /\ UNCHANGED <<watch, registryVars, req, bootVars, dirs>>

InstallRemove(s) ==
  /\ inst[s].pc \in {"remove_ok", "remove_failed"}
  /\ RemoveCall(inst[s].cid) \/ CallFails(inst[s].cid)
  /\ InstGoto(s, IF inst[s].pc = "remove_ok" THEN "ok" ELSE "failed")
  /\ UNCHANGED <<registryVars, req, bootVars, dirs>>

InstallFinish(s) ==
  /\ inst[s].pc \in {"ok", "failed"}
  /\ SetState(s, IF inst[s].pc = "ok" THEN "offline" ELSE "install_failed")
  /\ inst' = [inst EXCEPT ![s] = NoInstaller]
  /\ UNCHANGED <<dockerVars, registry, req, bootVars, dirs>>

-----------------------------------------------------------------------------
(* WatchContainer's goroutine for container c and its exit callback        *)

\* Mutant: a clean exit is not recorded.
WatchExit_CrashOnly(c) ==
  /\ watch[c].got \in Codes
  /\ IF watch[c].got = "zero" THEN UNCHANGED servers
                              ELSE SetState(watch[c].srv, "crashed")
  /\ watch' = [watch EXCEPT ![c] = NoWatch]
  /\ UNCHANGED <<containers, registry, req, inst, bootVars, dirs>>

WatchExit(c) ==
  /\ watch[c].got \in Codes
  /\ SetState(watch[c].srv,
              IF watch[c].got = "zero" THEN "offline" ELSE "crashed")
  /\ watch' = [watch EXCEPT ![c] = NoWatch]
  /\ UNCHANGED <<containers, registry, req, inst, bootVars, dirs>>

\* Mutant: a broken wait ends the goroutine without the callback.
WaitBreaks_Silent(c) ==
  /\ Faults /\ watch[c].got = "waiting"
  /\ watch' = [watch EXCEPT ![c] = NoWatch]
  /\ UNCHANGED <<containers, registryVars, req, inst, bootVars, dirs>>

WatchFailed(c) ==
  /\ SetState(watch[c].srv, "crashed")
  /\ watch' = [watch EXCEPT ![c] = NoWatch]
  /\ UNCHANGED <<containers, registry, req, inst, bootVars, dirs>>

\* errCh: the wait broke; exitFn(-1).
WaitBreaks(c) == Faults /\ watch[c].got = "waiting" /\ WatchFailed(c)

\* errCh: the context of the wait was cancelled, or the goroutine asked only
\* after the container was removed; exitFn(-1).
WatchError(c) ==
  /\ \/ watch[c].got = "waiting" /\ servers[watch[c].srv].cancelled
     \/ watch[c].got = "zero" /\ ~Exists(c)
  /\ WatchFailed(c)

\* ctx.Done(): the goroutine leaves without a callback.
WatchCancelled(c) ==
  /\ watch[c].got # "none"
  /\ servers[watch[c].srv].cancelled
  /\ watch' = [watch EXCEPT ![c] = NoWatch]
  /\ UNCHANGED <<containers, registryVars, req, inst, bootVars, dirs>>

-----------------------------------------------------------------------------
(* Docker on its own, and the daemon's start and end                       *)

ContainerExit(c, code) ==
  /\ IsRunning(c)
  /\ ContainerHalt(c, code)
  /\ Tell(c, code)
  /\ UNCHANGED <<registryVars, req, inst, bootVars, dirs>>

\* A signal, a failure of the listener or a crash: what was in memory is gone.
Shutdown ==
  /\ daemon # "down" /\ "shutdown" \in Ops
  /\ daemon' = "down"
  /\ registry' = [u \in UUIDs |-> Null]
  /\ servers' = [s \in Srvs |-> NoServer]
  /\ req' = [r \in Reqs |-> Idle]
  /\ inst' = [s \in Srvs |-> NoInstaller]
  /\ watch' = [c \in Cids |-> NoWatch]
  /\ todo' = [u \in UUIDs |-> Null]
  /\ UNCHANGED <<containers, dirs>>

\* RestoreContainerMap: one container per UUID, the last one listed (Docker
\* chooses the order); the list call may fail, and the map is then empty.
Boot ==
  /\ daemon = "down"
  /\ daemon' = "restoring"
  /\ \/ /\ todo' \in [UUIDs -> Cids \cup {Null}]
        /\ \A u \in UUIDs : IF Managed(u) = {} THEN todo'[u] = Null
                                               ELSE todo'[u] \in Managed(u)
     \/ Faults /\ todo' = [u \in UUIDs |-> Null]
  /\ UNCHANGED <<dockerVars, registryVars, req, inst, dirs>>

\* One turn of the loop in runDaemon; a failing inspect counts as not running.
Restore(u) ==
  /\ daemon = "restoring" /\ todo[u] # Null
  /\ \E s \in Srvs, running \in BOOLEAN :
       /\ Unreachable(s)
       /\ IF running THEN IsRunning(todo[u]) ELSE Faults \/ ~IsRunning(todo[u])
       /\ Add(s, [New(u, FALSE) EXCEPT
                    !.cid = todo[u],
                    !.state = IF running THEN "running" ELSE "offline"])
  /\ todo' = [todo EXCEPT ![u] = Null]
  /\ UNCHANGED <<dockerVars, req, inst, daemon, dirs>>

\* The API listens once the loop is through.
Serve ==
  /\ daemon = "restoring"
  /\ \A u \in UUIDs : todo[u] = Null
  /\ daemon' = "up"
  /\ UNCHANGED <<dockerVars, registryVars, req, inst, todo, dirs>>

-----------------------------------------------------------------------------

CreateSteps(r) == CreateDir(r) \/ AddServer(r) \/ SpawnInstaller(r)

DeleteSteps(r) ==
  DeleteReadID(r) \/ DeleteStop(r) \/ DeleteRemove(r) \/ DeleteDir(r)
  \/ DeleteEntry(r)

StartSteps(r) ==
  \/ CheckInstalling(r) \/ StartReadID(r) \/ RemoveStale(r) \/ StartClear(r)
  \/ SetStarting(r) \/ PullImage(r) \/ CreateContainer(r) \/ StoreID(r)
  \/ StartContainer(r) \/ SetRunning(r) \/ SpawnWatch(r) \/ StartFailed(r)

PowerSteps(r) ==
  \/ StopReadID(r) \/ StopStopping(r) \/ StopContainer(r) \/ StopOffline(r)
  \/ RestartReadID(r) \/ RestartStopping(r) \/ RestartStop(r)
  \/ RestartRemove(r) \/ RestartClear(r)
  \/ KillReadID(r) \/ KillContainer(r) \/ KillCrashed(r)

\* What the goroutine of a request does on its own once it was accepted.
Handler(r) == CreateSteps(r) \/ DeleteSteps(r) \/ StartSteps(r) \/ PowerSteps(r)

Installer(s) ==
  \/ InstallPull(s) \/ InstallCreate(s) \/ InstallStart(s) \/ InstallLogs(s)
  \/ InstallWait(s) \/ InstallKill(s) \/ InstallRemove(s) \/ InstallFinish(s)

Watcher(c) == WatchExit(c) \/ WatchError(c) \/ WatchCancelled(c)

DaemonStart == Boot \/ Serve \/ \E u \in UUIDs : Restore(u)

NewRequest(r) ==
  \E u \in UUIDs :
    \/ CreateRequest(r, u)
    \/ \E op \in {"delete", "start", "stop", "restart", "kill"} :
         ServerRequest(r, u, op)

Next ==
  \/ \E r \in Reqs : NewRequest(r) \/ Handler(r)
  \/ \E s \in Srvs : Installer(s) \/ StreamBreaks(s)
  \/ \E c \in Cids : Watcher(c) \/ WaitBreaks(c)
  \/ \E c \in Cids, code \in Codes : ContainerExit(c, code)
  \/ DaemonStart
  \/ Shutdown

Spec == Init /\ [][Next]_vars

\* Goroutines keep running and Docker answers; nothing makes the panel send
\* requests, a stream or a wait call break, a game server exit or an install
\* script end.
Fairness ==
  /\ \A r \in Reqs : WF_vars(Handler(r))
  /\ \A s \in Srvs : WF_vars(Installer(s))
  /\ \A c \in Cids : WF_vars(Watcher(c))
  /\ WF_vars(DaemonStart)

FairSpec == Spec /\ Fairness

=============================================================================
