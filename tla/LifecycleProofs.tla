-------------------------- MODULE LifecycleProofs --------------------------
(***************************************************************************)
(* What holds of Lifecycle for every set of UUIDs, containers, addresses   *)
(* and requests, for every choice of Ops, with and without Faults.         *)
(*                                                                         *)
(* The types alone are not inductive: a handler reads and writes through   *)
(* the pointer it holds, so the pointer must be known to hold an object.   *)
(* `Holds' says so, and TypeInv = TypeOK /\ Holds is inductive.            *)
(*                                                                         *)
(* Then, each in a section of its own: the objects that left the registry, *)
(* the owners of containers, the power states, the refinement of           *)
(* ContainerSlots, and Monitor: the samples of every instance, and what    *)
(* holds of Lifecycle while requests are served one at a time.             *)
(***************************************************************************)
EXTENDS Monitor, TLAPS

\* Requests without a server yet: the handler of POST /api/servers.
NoSrvPcs == {"idle", "mkdir", "add"}

\* A goroutine that is past its look-up holds an object of the right UUID.
Holds ==
  /\ \A r \in Reqs : req[r].pc # "idle" => req[r].uuid \in UUIDs
  /\ \A r \in Reqs : req[r].pc \notin NoSrvPcs =>
       req[r].srv \in Srvs /\ servers[req[r].srv].uuid = req[r].uuid
  /\ \A s \in Srvs : inst[s].pc # "none" => servers[s].uuid \in UUIDs
  /\ \A u \in UUIDs : registry[u] # Null => servers[registry[u]].uuid = u
  /\ \A c \in Cids : watch[c].got # "none" => watch[c].srv \in Srvs

TypeInv == TypeOK /\ Holds

LEMMA TypeInit == Init => TypeInv
<1> SUFFICES ASSUME Init PROVE TypeInv
  OBVIOUS
<1> USE NodeAssumption DEF Init
<1>1. DockerTypeOK
  BY DEF DockerInit, DockerTypeOK, NoContainer, Container, Codes
<1>2. RegistryTypeOK
  BY DEF RegistryInit, RegistryTypeOK, NoServer, New, Server, States
<1>3. req \in [Reqs -> Request]
  BY DEF Idle, ReqPcs, Request
<1>4. inst \in [Srvs -> Install]
  BY DEF NoInstaller, Install, InstPcs
<1>5. watch \in [Cids -> Watch]
  BY DEF NoWatch, Watch
<1>6. Holds
  BY DEF RegistryInit, Idle, NoInstaller, NoWatch, Holds, NoSrvPcs
<1>7. QED
  BY <1>1, <1>2, <1>3, <1>4, <1>5, <1>6 DEF TypeInv, TypeOK

-----------------------------------------------------------------------------
(* What the operations the actions are made of do to the types             *)

LEMMA GotoType ==
  ASSUME NEW r \in Reqs, NEW pc \in ReqPcs, req \in [Reqs -> Request],
         Goto(r, pc)
  PROVE  /\ req' \in [Reqs -> Request]
         /\ \A q \in Reqs \ {r} : req'[q] = req[q]
         /\ req'[r].pc = pc /\ req'[r].uuid = req[r].uuid
         /\ req'[r].srv = req[r].srv /\ req'[r].cid = req[r].cid
  BY DEF Goto, Request

LEMMA GotoWithType ==
  ASSUME NEW r \in Reqs, NEW pc \in ReqPcs, NEW c \in Cids \cup {Null},
         req \in [Reqs -> Request], GotoWith(r, pc, c)
  PROVE  /\ req' \in [Reqs -> Request]
         /\ \A q \in Reqs \ {r} : req'[q] = req[q]
         /\ req'[r].pc = pc /\ req'[r].uuid = req[r].uuid
         /\ req'[r].srv = req[r].srv /\ req'[r].cid = c
  BY DEF GotoWith, Request

LEMMA GotoHoldingType ==
  ASSUME NEW r \in Reqs, NEW pc \in ReqPcs, NEW s \in Srvs,
         req \in [Reqs -> Request], GotoHolding(r, pc, s)
  PROVE  /\ req' \in [Reqs -> Request]
         /\ \A q \in Reqs \ {r} : req'[q] = req[q]
         /\ req'[r].pc = pc /\ req'[r].uuid = req[r].uuid
         /\ req'[r].srv = s /\ req'[r].cid = req[r].cid
  BY DEF GotoHolding, Request

LEMMA ReplyType ==
  ASSUME NEW r \in Reqs, req \in [Reqs -> Request], Reply(r)
  PROVE  /\ req' \in [Reqs -> Request]
         /\ \A q \in Reqs \ {r} : req'[q] = req[q]
         /\ req'[r] = Idle /\ req'[r].pc = "idle"
<1>1. Idle \in Request
  BY DEF Idle, ReqPcs, Request
<1>2. QED
  BY <1>1 DEF Reply, Idle

LEMMA SetStateType ==
  ASSUME NEW s, NEW state \in States, servers \in [Srvs -> Server],
         SetState(s, state)
  PROVE  /\ servers' \in [Srvs -> Server]
         /\ \A a \in Srvs \ {s} : servers'[a] = servers[a]
         /\ \A a \in Srvs : /\ servers'[a].uuid = servers[a].uuid
                            /\ servers'[a].image = servers[a].image
                            /\ servers'[a].cancelled = servers[a].cancelled
                            /\ servers'[a].cid = servers[a].cid
         /\ s \in Srvs => servers'[s].state = state
  BY DEF SetState, Server

LEMMA SetContainerIDType ==
  ASSUME NEW s, NEW c \in Cids \cup {Null}, servers \in [Srvs -> Server],
         SetContainerID(s, c)
  PROVE  /\ servers' \in [Srvs -> Server]
         /\ \A a \in Srvs : /\ servers'[a].uuid = servers[a].uuid
                            /\ servers'[a].image = servers[a].image
                            /\ servers'[a].cancelled = servers[a].cancelled
                            /\ servers'[a].state = servers[a].state
  BY DEF SetContainerID, Server

LEMMA AddType ==
  ASSUME NEW s \in Srvs, NEW server \in Server, server.uuid \in UUIDs,
         RegistryTypeOK, Add(s, server)
  PROVE  /\ RegistryTypeOK'
         /\ servers'[s] = server
         /\ registry'[server.uuid] = s
         /\ \A a \in Srvs \ {s} : servers'[a] = servers[a]
         /\ \A u \in UUIDs \ {server.uuid} : registry'[u] = registry[u]
  BY DEF Add, RegistryTypeOK

LEMMA RemoveType ==
  ASSUME NEW u \in UUIDs, RegistryTypeOK, Remove(u)
  PROVE  /\ RegistryTypeOK'
         /\ \A v \in UUIDs \ {u} : registry'[v] = registry[v]
         /\ registry'[u] = Null
         /\ \A a \in Srvs : /\ servers'[a].uuid = servers[a].uuid
                            /\ servers'[a].image = servers[a].image
                            /\ servers'[a].cid = servers[a].cid
                            /\ servers'[a].state = servers[a].state
                            /\ servers[a].cancelled => servers'[a].cancelled
  BY ZenonT(60) DEF Remove, RegistryTypeOK, Server

LEMMA CreateType ==
  ASSUME NEW c \in Cids, NEW kind \in Kinds, NEW u \in UUIDs \cup {Null},
         DockerTypeOK, ContainerCreate(c, kind, u)
  PROVE  /\ DockerTypeOK'
         /\ \A d \in Cids \ {c} : containers'[d] = containers[d]
         /\ containers'[c] = [status |-> "created", kind |-> kind, uuid |-> u,
                              code |-> "zero"]
  BY DEF DockerTypeOK, ContainerCreate, Container, Codes, Kinds

LEMMA StartType ==
  ASSUME NEW c \in Cids, DockerTypeOK, ContainerStart(c)
  PROVE  /\ DockerTypeOK'
         /\ \A d \in Cids \ {c} : containers'[d] = containers[d]
         /\ containers'[c].status = "running"
         /\ containers'[c].kind = containers[c].kind
         /\ containers'[c].uuid = containers[c].uuid
  BY DEF DockerTypeOK, ContainerStart, Container

LEMMA HaltType ==
  ASSUME NEW c, NEW code \in Codes, DockerTypeOK, ContainerHalt(c, code)
  PROVE  /\ DockerTypeOK'
         /\ \A d \in Cids \ {c} : containers'[d] = containers[d]
         /\ \A d \in Cids : /\ containers'[d].kind = containers[d].kind
                            /\ containers'[d].uuid = containers[d].uuid
                            /\ IsRunning(d)' => IsRunning(d)
                            /\ Exists(d)' <=> Exists(d)
  BY DEF DockerTypeOK, ContainerHalt, Container, IsRunning, Exists

LEMMA RemovalType ==
  ASSUME NEW c, DockerTypeOK, ContainerRemove(c), Null \notin Cids
  PROVE  /\ DockerTypeOK'
         /\ \A d \in Cids \ {c} : containers'[d] = containers[d]
         /\ c \in Cids => containers'[c] = NoContainer
<1>1. NoContainer \in Container
  BY DEF NoContainer, Container, Codes
<1>2. QED
  BY <1>1 DEF DockerTypeOK, ContainerRemove

LEMMA TellType ==
  ASSUME NEW c, NEW code \in Codes, watch \in [Cids -> Watch], Tell(c, code)
  PROVE  /\ watch' \in [Cids -> Watch]
         /\ \A d \in Cids \ {c} : watch'[d] = watch[d]
         /\ \A d \in Cids : watch'[d].srv = watch[d].srv
         /\ \A d \in Cids :
              \/ watch'[d] = watch[d]
              \/ watch[d].got = "waiting" /\ watch'[d].got = code
         /\ c \in Cids /\ IsRunning(c) => watch'[c].got # "waiting"
  BY DEF Tell, Watch, Codes, IsRunning

LEMMA InstGotoType ==
  ASSUME NEW s \in Srvs, NEW pc \in InstPcs, inst \in [Srvs -> Install],
         InstGoto(s, pc)
  PROVE  /\ inst' \in [Srvs -> Install]
         /\ \A a \in Srvs \ {s} : inst'[a] = inst[a]
         /\ inst'[s].pc = pc /\ inst'[s].cid = inst[s].cid
  BY DEF InstGoto, Install

LEMMA StopCallType ==
  ASSUME NEW c, DockerTypeOK, watch \in [Cids -> Watch], StopCall(c)
  PROVE  /\ DockerTypeOK'
         /\ watch' \in [Cids -> Watch]
         /\ \A d \in Cids : /\ watch'[d].srv = watch[d].srv
                            /\ watch'[d].got = "none" <=> watch[d].got = "none"
<1>1. PICK code \in Codes : ContainerHalt(c, code) /\ Tell(c, code)
  BY DEF StopCall
<1>2. DockerTypeOK'
  BY <1>1, HaltType
<1>3. QED
  BY <1>1, <1>2, TellType DEF Codes

LEMMA RemoveCallType ==
  ASSUME NEW c, DockerTypeOK, watch \in [Cids -> Watch], RemoveCall(c)
  PROVE  /\ DockerTypeOK'
         /\ watch' \in [Cids -> Watch]
         /\ \A d \in Cids : /\ watch'[d].srv = watch[d].srv
                            /\ watch'[d].got = "none" <=> watch[d].got = "none"
<1>1. ContainerRemove(c) /\ Tell(c, "nonzero")
  BY DEF RemoveCall
<1>2. DockerTypeOK'
  BY <1>1, RemovalType, NodeAssumption
<1>3. QED
  BY <1>1, <1>2, TellType DEF Codes

\* Most steps change no UUID, and let go of a pointer or go on holding it.
LEMMA HoldsStep ==
  ASSUME TypeInv, RegistryTypeOK',
         \A s \in Srvs : servers'[s].uuid = servers[s].uuid,
         \A r \in Reqs :
           \/ req'[r].pc = "idle"
           \/ /\ req'[r].uuid = req[r].uuid /\ req'[r].srv = req[r].srv
              /\ req[r].pc # "idle"
              /\ req[r].pc \in NoSrvPcs => req'[r].pc \in NoSrvPcs,
         \A s \in Srvs : inst'[s].pc = "none" \/ inst[s].pc # "none",
         \A u \in UUIDs : registry'[u] = Null \/ registry'[u] = registry[u],
         \A c \in Cids : \/ watch'[c].got = "none"
                         \/ /\ watch[c].got # "none"
                            /\ watch'[c].srv = watch[c].srv
  PROVE  Holds'
<1>1. \A r \in Reqs : req'[r].pc # "idle" => req'[r].uuid \in UUIDs
  BY DEF Holds, TypeInv
<1>2. \A r \in Reqs : req'[r].pc \notin NoSrvPcs =>
        req'[r].srv \in Srvs /\ servers'[req'[r].srv].uuid = req'[r].uuid
  BY DEF Holds, TypeInv, NoSrvPcs
<1>3. \A s \in Srvs : inst'[s].pc # "none" => servers'[s].uuid \in UUIDs
  BY DEF Holds, TypeInv
<1>4. \A u \in UUIDs : registry'[u] # Null => servers'[registry'[u]].uuid = u
  BY DEF Holds, TypeInv, RegistryTypeOK
<1>5. \A c \in Cids : watch'[c].got # "none" => watch'[c].srv \in Srvs
  BY DEF Holds, TypeInv
<1>6. QED
  BY <1>1, <1>2, <1>3, <1>4, <1>5 DEF Holds

\* The same for the steps of one request.
LEMMA HandlerHolds ==
  ASSUME TypeInv, RegistryTypeOK', NEW r \in Reqs, req[r].pc # "idle",
         \A q \in Reqs \ {r} : req'[q] = req[q],
         \/ req'[r].pc = "idle"
         \/ /\ req'[r].uuid = req[r].uuid /\ req'[r].srv = req[r].srv
            /\ req[r].pc \in NoSrvPcs => req'[r].pc \in NoSrvPcs,
         \A s \in Srvs : servers'[s].uuid = servers[s].uuid,
         inst' = inst,
         \A u \in UUIDs : registry'[u] = Null \/ registry'[u] = registry[u],
         \A c \in Cids : /\ watch'[c].srv = watch[c].srv
                         /\ watch'[c].got = "none" <=> watch[c].got = "none"
  PROVE  Holds'
<1>1. \A q \in Reqs :
        \/ req'[q].pc = "idle"
        \/ /\ req'[q].uuid = req[q].uuid /\ req'[q].srv = req[q].srv
           /\ req[q].pc # "idle"
           /\ req[q].pc \in NoSrvPcs => req'[q].pc \in NoSrvPcs
  OBVIOUS
<1>2. QED
  BY <1>1, HoldsStep

-----------------------------------------------------------------------------
(* The steps of a request goroutine                                        *)

LEMMA CreateDirType ==
  ASSUME TypeInv, NEW r \in Reqs, CreateDir(r) PROVE TypeInv'
<1> USE DEF CreateDir, dockerVars, registryVars, bootVars
<1>1. /\ req' \in [Reqs -> Request]
      /\ \A q \in Reqs \ {r} : req'[q] = req[q]
      /\ \/ req'[r].pc = "idle"
         \/ /\ req'[r].uuid = req[r].uuid /\ req'[r].srv = req[r].srv
            /\ req'[r].pc = "add"
  BY GotoType, ReplyType DEF TypeInv, TypeOK, ReqPcs
<1>2. dirs' \subseteq UUIDs
  BY DEF TypeInv, TypeOK, Holds, At
<1>3. TypeOK'
  BY <1>1, <1>2 DEF TypeInv, TypeOK, DockerTypeOK, RegistryTypeOK
<1>4. Holds'
  BY <1>1, <1>3, HandlerHolds DEF TypeOK, At, NoSrvPcs
<1>5. QED
  BY <1>3, <1>4 DEF TypeInv

LEMMA ReadIDType ==
  ASSUME TypeInv, NEW r \in Reqs, NEW from \in ReqPcs \ NoSrvPcs,
         NEW none \in ReqPcs, NEW some \in ReqPcs \ NoSrvPcs,
         ReadID(r, from, none, some)
  PROVE  TypeInv'
<1> USE DEF ReadID, dockerVars, registryVars, bootVars
<1>1. req[r].pc = from /\ from # "idle" /\ req[r].srv \in Srvs
  BY DEF At, TypeInv, Holds, NoSrvPcs
<1>2. Srv(r).cid \in Cids \cup {Null}
  BY <1>1 DEF TypeInv, TypeOK, RegistryTypeOK, Server, Srv
<1>3. /\ req' \in [Reqs -> Request]
      /\ \A q \in Reqs \ {r} : req'[q] = req[q]
      /\ \/ req'[r].pc = "idle"
         \/ req'[r].uuid = req[r].uuid /\ req'[r].srv = req[r].srv
  BY <1>2, GotoType, GotoWithType, ReplyType DEF TypeInv, TypeOK
<1>4. TypeOK'
  BY <1>3 DEF TypeInv, TypeOK, DockerTypeOK, RegistryTypeOK
<1>5. Holds'
  BY <1>1, <1>3, <1>4, HandlerHolds DEF TypeOK
<1>6. QED
  BY <1>4, <1>5 DEF TypeInv

LEMMA MarkType ==
  ASSUME TypeInv, NEW r \in Reqs, NEW from \in ReqPcs \ NoSrvPcs,
         NEW state \in States, NEW to \in ReqPcs, Mark(r, from, state, to)
  PROVE  TypeInv'
<1> USE DEF Mark, dockerVars, bootVars
<1>1. req[r].pc = from /\ from # "idle"
  BY DEF At, NoSrvPcs
<1>2. /\ req' \in [Reqs -> Request]
      /\ \A q \in Reqs \ {r} : req'[q] = req[q]
      /\ \/ req'[r].pc = "idle"
         \/ req'[r].uuid = req[r].uuid /\ req'[r].srv = req[r].srv
  BY GotoType, ReplyType DEF TypeInv, TypeOK
<1>3. /\ servers' \in [Srvs -> Server]
      /\ \A s \in Srvs : servers'[s].uuid = servers[s].uuid
  BY SetStateType DEF TypeInv, TypeOK, RegistryTypeOK
<1>4. TypeOK'
  BY <1>2, <1>3 DEF TypeInv, TypeOK, DockerTypeOK, RegistryTypeOK
<1>5. Holds'
  BY <1>1, <1>2, <1>3, <1>4, HandlerHolds DEF TypeOK
<1>6. QED
  BY <1>4, <1>5 DEF TypeInv

LEMMA ClearIDType ==
  ASSUME TypeInv, NEW r \in Reqs, NEW from \in ReqPcs \ NoSrvPcs,
         NEW to \in ReqPcs, ClearID(r, from, to)
  PROVE  TypeInv'
<1> USE DEF ClearID, dockerVars, bootVars
<1>1. req[r].pc = from /\ from # "idle"
  BY DEF At, NoSrvPcs
<1>2. /\ req' \in [Reqs -> Request]
      /\ \A q \in Reqs \ {r} : req'[q] = req[q]
      /\ req'[r].uuid = req[r].uuid /\ req'[r].srv = req[r].srv
  BY GotoWithType DEF TypeInv, TypeOK
<1>3. /\ servers' \in [Srvs -> Server]
      /\ \A s \in Srvs : servers'[s].uuid = servers[s].uuid
  BY SetContainerIDType DEF TypeInv, TypeOK, RegistryTypeOK
<1>4. TypeOK'
  BY <1>2, <1>3 DEF TypeInv, TypeOK, DockerTypeOK, RegistryTypeOK
<1>5. Holds'
  BY <1>1, <1>2, <1>3, <1>4, HandlerHolds DEF TypeOK
<1>6. QED
  BY <1>4, <1>5 DEF TypeInv

\* A handler's Docker call: the handler moves on or replies, and nothing of
\* the daemon's own but the watchers is touched.
LEMMA DockerCallType ==
  ASSUME TypeInv, NEW r \in Reqs, req[r].pc \notin NoSrvPcs,
         DockerTypeOK', watch' \in [Cids -> Watch], dirs' \subseteq UUIDs,
         \A c \in Cids : /\ watch'[c].srv = watch[c].srv
                         /\ watch'[c].got = "none" <=> watch[c].got = "none",
         req' \in [Reqs -> Request],
         \A q \in Reqs \ {r} : req'[q] = req[q],
         \/ req'[r].pc = "idle"
         \/ req'[r].uuid = req[r].uuid /\ req'[r].srv = req[r].srv,
         UNCHANGED <<registryVars, inst, bootVars>>
  PROVE  TypeInv'
<1>1. TypeOK'
  BY DEF TypeInv, TypeOK, RegistryTypeOK, registryVars, bootVars
<1>2. Holds'
  BY <1>1, HandlerHolds DEF TypeOK, registryVars, NoSrvPcs
<1>3. QED
  BY <1>1, <1>2 DEF TypeInv

LEMMA AddServerType ==
  ASSUME TypeInv, NEW r \in Reqs, AddServer(r) PROVE TypeInv'
<1> USE DEF AddServer, dockerVars, registryVars, bootVars
<1> DEFINE u == req[r].uuid
<1>1. u \in UUIDs /\ req[r].pc = "add"
  BY DEF At, TypeInv, Holds
<1>2. CASE registry[u] # Null /\ Reply(r) /\ UNCHANGED registryVars
  <2>1. TypeOK'
    BY <1>2, ReplyType DEF TypeInv, TypeOK, DockerTypeOK, RegistryTypeOK
  <2>2. QED
    BY <1>1, <1>2, <2>1, ReplyType, HandlerHolds DEF TypeInv, TypeOK
<1>3. ASSUME NEW s \in Srvs, Unreachable(s), Add(s, New(u, TRUE)),
             \/ Reply(r)
             \/ GotoHolding(r, "installing", s)
      PROVE  TypeInv'
  <2>1. New(u, TRUE) \in Server /\ New(u, TRUE).uuid = u
    BY <1>1 DEF New, Server, States
  <2>2. /\ RegistryTypeOK' /\ servers'[s].uuid = u /\ registry'[u] = s
        /\ \A a \in Srvs \ {s} : servers'[a] = servers[a]
        /\ \A v \in UUIDs \ {u} : registry'[v] = registry[v]
    <3> DEFINE server == New(u, TRUE)
    <3>1. server \in Server /\ server.uuid = u /\ Add(s, server) /\ RegistryTypeOK
      BY <1>3, <2>1 DEF TypeInv, TypeOK
    <3> HIDE DEF server
    <3>2. QED
      BY <1>1, <1>3, <3>1, AddType
  <2>3. /\ req' \in [Reqs -> Request]
        /\ \A q \in Reqs \ {r} : req'[q] = req[q]
        /\ \/ req'[r].pc = "idle"
           \/ req'[r].uuid = u /\ req'[r].srv = s
    <3>1. CASE Reply(r)
      BY <3>1, ReplyType DEF TypeInv, TypeOK
    <3>2. CASE GotoHolding(r, "installing", s)
      <4>1. "installing" \in ReqPcs
        BY DEF ReqPcs
      <4>2. QED
        BY <3>2, <4>1, GotoHoldingType DEF TypeInv, TypeOK
    <3>3. QED
      BY <1>3, <3>1, <3>2
  <2>4. TypeOK'
    BY <2>2, <2>3 DEF TypeInv, TypeOK, DockerTypeOK
  <2>5. \A q \in Reqs : req'[q].pc # "idle" => req'[q].uuid \in UUIDs
    BY <1>1, <2>3 DEF TypeInv, Holds
  <2>6. \A q \in Reqs : req'[q].pc \notin NoSrvPcs =>
          req'[q].srv \in Srvs /\ servers'[req'[q].srv].uuid = req'[q].uuid
    BY <1>1, <1>3, <2>2, <2>3 DEF TypeInv, Holds, Unreachable, NoSrvPcs
  <2>7. \A a \in Srvs : inst'[a].pc # "none" => servers'[a].uuid \in UUIDs
    BY <1>3, <2>2 DEF TypeInv, Holds, Unreachable
  <2>8. \A v \in UUIDs : registry'[v] # Null => servers'[registry'[v]].uuid = v
    BY <1>3, <2>2 DEF TypeInv, Holds, Unreachable, TypeOK, RegistryTypeOK
  <2>9. QED
    BY <2>4, <2>5, <2>6, <2>7, <2>8 DEF TypeInv, Holds
<1>4. QED
  BY <1>2, <1>3

LEMMA SpawnInstallerType ==
  ASSUME TypeInv, NEW r \in Reqs, SpawnInstaller(r) PROVE TypeInv'
<1> USE DEF SpawnInstaller, dockerVars, bootVars
<1> DEFINE s == req[r].srv
<1>1. req[r].pc = "installing" /\ s \in Srvs /\ servers[s].uuid \in UUIDs
  BY DEF At, TypeInv, Holds, NoSrvPcs
<1>2. /\ servers' \in [Srvs -> Server]
      /\ \A a \in Srvs : servers'[a].uuid = servers[a].uuid
  BY SetStateType DEF TypeInv, TypeOK, RegistryTypeOK, States
<1>3. /\ req' \in [Reqs -> Request]
      /\ \A q \in Reqs \ {r} : req'[q] = req[q]
      /\ req'[r].pc = "idle"
  BY ReplyType DEF TypeInv, TypeOK
<1>4. /\ inst' \in [Srvs -> Install]
      /\ \A a \in Srvs \ {s} : inst'[a] = inst[a]
  BY DEF TypeInv, TypeOK, Install, InstPcs
<1>5. TypeOK'
  BY <1>2, <1>3, <1>4 DEF TypeInv, TypeOK, DockerTypeOK, RegistryTypeOK
<1>6. \A a \in Srvs : inst'[a].pc # "none" => servers'[a].uuid \in UUIDs
  BY <1>1, <1>2, <1>4 DEF TypeInv, Holds
<1>7. QED
  BY SMTT(40), <1>2, <1>3, <1>5, <1>6 DEF TypeInv, Holds, TypeOK, RegistryTypeOK, NoSrvPcs

LEMMA CreateStepsType ==
  ASSUME TypeInv, NEW r \in Reqs, CreateSteps(r) PROVE TypeInv'
  BY CreateDirType, AddServerType, SpawnInstallerType DEF CreateSteps

LEMMA NewRequestType ==
  ASSUME TypeInv, NEW r \in Reqs, NewRequest(r) PROVE TypeInv'
<1> USE DEF dockerVars, registryVars, bootVars
<1>1. PICK u \in UUIDs :
        \/ CreateRequest(r, u)
        \/ \E op \in {"delete", "start", "stop", "restart", "kill"} :
             ServerRequest(r, u, op)
  BY DEF NewRequest
<1>2. /\ req' \in [Reqs -> Request]
      /\ \A q \in Reqs \ {r} : req'[q] = req[q]
      /\ req'[r].uuid = u
      /\ \/ req'[r].pc \in NoSrvPcs
         \/ req'[r].srv = registry[u] /\ registry[u] # Null
  <2>1. CASE CreateRequest(r, u)
    BY <2>1 DEF CreateRequest, TypeInv, TypeOK, Idle, Request, ReqPcs, NoSrvPcs
  <2>2. ASSUME NEW op \in {"delete", "start", "stop", "restart", "kill"},
               ServerRequest(r, u, op)
        PROVE  <1>2!:
    <3>1. FirstPc(op) \in ReqPcs
      BY DEF FirstPc, ReqPcs, StartPcs
    <3> DEFINE new == [pc |-> FirstPc(op), uuid |-> u, srv |-> registry[u],
                       cid |-> Null]
    <3>2. new \in Request
      BY <3>1 DEF Request, TypeInv, TypeOK, RegistryTypeOK
    <3>3. req' = [req EXCEPT ![r] = new] /\ registry[u] # Null
      BY <2>2 DEF ServerRequest
    <3>4. QED
      BY <3>2, <3>3 DEF TypeInv, TypeOK
  <2>3. QED
    BY <1>1, <2>1, <2>2
<1>3. UNCHANGED <<dockerVars, registryVars, inst, bootVars, dirs>>
  BY <1>1 DEF CreateRequest, ServerRequest
<1>4. TypeOK'
  BY <1>2, <1>3 DEF TypeInv, TypeOK, DockerTypeOK, RegistryTypeOK
<1>5. \A q \in Reqs : req'[q].pc # "idle" => req'[q].uuid \in UUIDs
  BY <1>2 DEF TypeInv, Holds
<1>6. \A q \in Reqs : req'[q].pc \notin NoSrvPcs =>
        req'[q].srv \in Srvs /\ servers'[req'[q].srv].uuid = req'[q].uuid
  BY <1>2, <1>3 DEF TypeInv, Holds, TypeOK, RegistryTypeOK
<1>7. QED
  BY <1>3, <1>4, <1>5, <1>6 DEF TypeInv, Holds

LEMMA DeleteStepsType ==
  ASSUME TypeInv, NEW r \in Reqs, DeleteSteps(r) PROVE TypeInv'
<1> USE DEF dockerVars, registryVars, bootVars
<1>1. CASE DeleteReadID(r)
  BY <1>1, ReadIDType DEF DeleteReadID, ReqPcs, NoSrvPcs
<1>2. CASE DeleteStop(r)
  <2>1. "del_remove" \in ReqPcs /\ req[r].pc \notin NoSrvPcs
    BY <1>2 DEF DeleteStop, At, ReqPcs, NoSrvPcs
  <2>2. QED
    BY <1>2, <2>1, GotoType, StopCallType, DockerCallType
       DEF DeleteStop, CallFails, TypeInv, TypeOK, DockerTypeOK
<1>3. CASE DeleteRemove(r)
  <2>1. "del_dir" \in ReqPcs /\ req[r].pc \notin NoSrvPcs
    BY <1>3 DEF DeleteRemove, At, ReqPcs, NoSrvPcs
  <2>2. QED
    BY <1>3, <2>1, GotoType, RemoveCallType, DockerCallType
       DEF DeleteRemove, CallFails, TypeInv, TypeOK, DockerTypeOK
<1>4. CASE DeleteDir(r)
  <2>1. "del_entry" \in ReqPcs /\ req[r].pc \notin NoSrvPcs
    BY <1>4 DEF DeleteDir, At, ReqPcs, NoSrvPcs
  <2>2. QED
    BY <1>4, <2>1, GotoType, DockerCallType
       DEF DeleteDir, TypeInv, TypeOK, DockerTypeOK
<1>5. CASE DeleteEntry(r)
  <2>1. req[r].pc = "del_entry" /\ req[r].uuid \in UUIDs
    BY <1>5 DEF DeleteEntry, At, TypeInv, Holds
  <2>2. /\ RegistryTypeOK'
        /\ \A a \in Srvs : servers'[a].uuid = servers[a].uuid
        /\ \A u \in UUIDs : registry'[u] = Null \/ registry'[u] = registry[u]
    BY <1>5, <2>1, RemoveType DEF DeleteEntry, TypeInv, TypeOK
  <2>3. TypeOK'
    BY <1>5, <2>2, ReplyType DEF DeleteEntry, TypeInv, TypeOK, DockerTypeOK
  <2>4. Holds'
    BY <1>5, <2>1, <2>2, ReplyType, HandlerHolds DEF DeleteEntry, TypeInv, TypeOK
  <2>5. QED
    BY <2>3, <2>4 DEF TypeInv
<1>6. QED
  BY <1>1, <1>2, <1>3, <1>4, <1>5 DEF DeleteSteps

LEMMA StartStepsType ==
  ASSUME TypeInv, NEW r \in Reqs, StartSteps(r) PROVE TypeInv'
<1> USE DEF dockerVars, registryVars, bootVars
<1>0. StartPcs \subseteq ReqPcs \ NoSrvPcs /\ "idle" \in ReqPcs
  BY DEF StartPcs, ReqPcs, NoSrvPcs
<1>1. CASE CheckInstalling(r)
  <2>1. "read" \in ReqPcs /\ req[r].pc \notin NoSrvPcs
    BY <1>1 DEF CheckInstalling, At, ReqPcs, StartPcs, NoSrvPcs
  <2>2. QED
    BY <1>1, <2>1, GotoType, ReplyType, DockerCallType
       DEF CheckInstalling, TypeInv, TypeOK, DockerTypeOK
<1>2. CASE StartReadID(r)
  BY <1>0, <1>2, ReadIDType DEF StartReadID, StartPcs
<1>3. CASE RemoveStale(r)
  <2>1. "clear" \in ReqPcs /\ req[r].pc \notin NoSrvPcs
    BY <1>3 DEF RemoveStale, At, ReqPcs, StartPcs, NoSrvPcs
  <2>2. QED
    BY <1>3, <2>1, GotoType, RemoveCallType, DockerCallType
       DEF RemoveStale, CallFails, TypeInv, TypeOK, DockerTypeOK
<1>4. CASE StartClear(r)
  BY <1>0, <1>4, ClearIDType DEF StartClear, StartPcs
<1>5. CASE SetStarting(r)
  BY <1>0, <1>5, MarkType DEF SetStarting, StartPcs, States
<1>6. CASE PullImage(r)
  <2>1. {"create", "crashed"} \subseteq ReqPcs /\ req[r].pc \notin NoSrvPcs
    BY <1>6 DEF PullImage, At, ReqPcs, StartPcs, NoSrvPcs
  <2>2. QED
    BY <1>6, <2>1, GotoType, DockerCallType
       DEF PullImage, TypeInv, TypeOK, DockerTypeOK
<1>7. CASE CreateContainer(r)
  <2>1. {"set_id", "crashed"} \subseteq ReqPcs /\ req[r].pc \notin NoSrvPcs
    BY <1>7 DEF CreateContainer, At, ReqPcs, StartPcs, NoSrvPcs
  <2>2. Srv(r).uuid \in UUIDs
    BY <2>1 DEF Srv, TypeInv, Holds, NoSrvPcs
  <2>3. DockerTypeOK'
    BY <1>7, <2>2, CreateType
       DEF CreateContainer, TypeInv, TypeOK, Kinds, DockerTypeOK
  <2>4. /\ req' \in [Reqs -> Request]
        /\ \A q \in Reqs \ {r} : req'[q] = req[q]
        /\ req'[r].uuid = req[r].uuid /\ req'[r].srv = req[r].srv
    BY <1>7, <2>1, GotoType, GotoWithType DEF CreateContainer, TypeInv, TypeOK
  <2>5. QED
    BY <1>7, <2>1, <2>3, <2>4, DockerCallType
       DEF CreateContainer, TypeInv, TypeOK
<1>8. CASE StoreID(r)
  <2>1. "run" \in ReqPcs /\ req[r].pc \notin NoSrvPcs /\ req[r].pc # "idle"
    BY <1>8 DEF StoreID, At, ReqPcs, StartPcs, NoSrvPcs
  <2>2. req[r].cid \in Cids \cup {Null}
    BY DEF TypeInv, TypeOK, Request
  <2>3. /\ servers' \in [Srvs -> Server]
        /\ \A s \in Srvs : servers'[s].uuid = servers[s].uuid
    BY <1>8, <2>2, SetContainerIDType
       DEF StoreID, TypeInv, TypeOK, RegistryTypeOK
  <2>4. TypeOK'
    BY <1>8, <2>1, <2>3, GotoType
       DEF StoreID, TypeInv, TypeOK, DockerTypeOK, RegistryTypeOK
  <2>5. Holds'
    BY <1>8, <2>1, <2>3, <2>4, GotoType, HandlerHolds DEF StoreID, TypeInv, TypeOK
  <2>6. QED
    BY <2>4, <2>5 DEF TypeInv
<1>9. CASE StartContainer(r)
  <2>1. {"running", "crashed"} \subseteq ReqPcs /\ req[r].pc \notin NoSrvPcs
    BY <1>9 DEF StartContainer, At, ReqPcs, StartPcs, NoSrvPcs
  <2>2. Srv(r).uuid \in UUIDs
    BY <2>1 DEF Srv, TypeInv, Holds, NoSrvPcs
  <2>3. DockerTypeOK'
    BY <1>9, StartType
       DEF StartContainer, CallFails, Exists, TypeInv, TypeOK, DockerTypeOK
  <2>4. /\ req' \in [Reqs -> Request]
        /\ \A q \in Reqs \ {r} : req'[q] = req[q]
        /\ req'[r].uuid = req[r].uuid /\ req'[r].srv = req[r].srv
    BY <1>9, <2>1, GotoType DEF StartContainer, TypeInv, TypeOK
  <2>5. dirs' \subseteq UUIDs /\ watch' = watch
    BY <1>9, <2>2 DEF StartContainer, CallFails, TypeInv, TypeOK
  <2>6. QED
    BY <1>9, <2>1, <2>3, <2>4, <2>5, DockerCallType
       DEF StartContainer, TypeInv, TypeOK
<1>10. CASE SetRunning(r)
  BY <1>0, <1>10, MarkType DEF SetRunning, StartPcs, States
<1>11. CASE SpawnWatch(r)
  <2> DEFINE c == req[r].cid
  <2>1. req[r].pc = "watch" /\ req[r].srv \in Srvs
    BY <1>11 DEF SpawnWatch, At, TypeInv, Holds, NoSrvPcs
  <2>2. PICK got \in {"waiting"} \cup Codes :
          watch' = [watch EXCEPT ![c] = [srv |-> req[r].srv, got |-> got]]
    BY <1>11 DEF SpawnWatch, Exists, TypeInv, TypeOK, DockerTypeOK, Container,
       Codes
  <2>3. /\ watch' \in [Cids -> Watch]
        /\ \A d \in Cids : \/ watch'[d] = watch[d]
                           \/ watch'[d].srv = req[r].srv
    BY <2>1, <2>2 DEF TypeInv, TypeOK, Watch
  <2>4. TypeOK'
    BY <1>11, <2>3, ReplyType
       DEF SpawnWatch, TypeInv, TypeOK, DockerTypeOK, RegistryTypeOK
  <2>5. \A d \in Cids : watch'[d].got # "none" => watch'[d].srv \in Srvs
    BY <2>1, <2>3 DEF TypeInv, Holds
  <2>6. QED
    BY <1>11, <2>1, <2>4, <2>5, ReplyType
       DEF SpawnWatch, TypeInv, TypeOK, Holds, NoSrvPcs
<1>12. CASE StartFailed(r)
  BY <1>0, <1>12, MarkType DEF StartFailed, StartPcs, States
<1>13. QED
  BY <1>1, <1>2, <1>3, <1>4, <1>5, <1>6, <1>7, <1>8, <1>9, <1>10, <1>11, <1>12
     DEF StartSteps

LEMMA PowerStepsType ==
  ASSUME TypeInv, NEW r \in Reqs, PowerSteps(r) PROVE TypeInv'
<1> USE DEF dockerVars, registryVars, bootVars
<1>0. {"stop_read", "stop_stopping", "stop_stop", "stop_offline", "re_read",
       "re_stopping", "re_stop", "re_remove", "re_clear", "kill_read",
       "kill_kill", "kill_crashed", "check"} \subseteq ReqPcs \ NoSrvPcs
      /\ "idle" \in ReqPcs
  BY DEF StartPcs, ReqPcs, NoSrvPcs
<1>1. CASE StopReadID(r)
  BY <1>0, <1>1, ReadIDType DEF StopReadID
<1>2. CASE StopStopping(r)
  BY <1>0, <1>2, MarkType DEF StopStopping, States
<1>3. CASE StopContainer(r)
  <2>1. req[r].pc \notin NoSrvPcs
    BY <1>0, <1>3 DEF StopContainer, At
  <2>2. QED
    BY <1>0, <1>3, <2>1, GotoType, ReplyType, StopCallType, DockerCallType
       DEF StopContainer, CallFails, TypeInv, TypeOK, DockerTypeOK
<1>4. CASE StopOffline(r)
  BY <1>0, <1>4, MarkType DEF StopOffline, States
<1>5. CASE RestartReadID(r)
  BY <1>0, <1>5, ReadIDType DEF RestartReadID
<1>6. CASE RestartStopping(r)
  BY <1>0, <1>6, MarkType DEF RestartStopping, States
<1>7. CASE RestartStop(r)
  <2>1. req[r].pc \notin NoSrvPcs
    BY <1>0, <1>7 DEF RestartStop, At
  <2>2. QED
    BY <1>0, <1>7, <2>1, GotoType, StopCallType, DockerCallType
       DEF RestartStop, CallFails, TypeInv, TypeOK, DockerTypeOK
<1>8. CASE RestartRemove(r)
  <2>1. req[r].pc \notin NoSrvPcs
    BY <1>0, <1>8 DEF RestartRemove, At
  <2>2. QED
    BY <1>0, <1>8, <2>1, GotoType, RemoveCallType, DockerCallType
       DEF RestartRemove, CallFails, TypeInv, TypeOK, DockerTypeOK
<1>9. CASE RestartClear(r)
  BY <1>0, <1>9, ClearIDType DEF RestartClear
<1>10. CASE KillReadID(r)
  BY <1>0, <1>10, ReadIDType DEF KillReadID
<1>11. CASE KillContainer(r)
  <2> DEFINE c == req[r].cid
  <2>1. req[r].pc \notin NoSrvPcs
    BY <1>0, <1>11 DEF KillContainer, At
  <2>2. \/ ContainerHalt(c, "nonzero") /\ Tell(c, "nonzero")
        \/ UNCHANGED dockerVars
    BY <1>11 DEF KillContainer
  <2>3. DockerTypeOK'
    BY <2>2, HaltType DEF Codes, TypeInv, TypeOK, DockerTypeOK
  <2>4. /\ watch' \in [Cids -> Watch]
        /\ \A d \in Cids : /\ watch'[d].srv = watch[d].srv
                           /\ watch'[d].got = "none" <=> watch[d].got = "none"
    BY <2>2, TellType DEF Codes, TypeInv, TypeOK
  <2>5. QED
    BY <1>0, <1>11, <2>1, <2>3, <2>4, GotoType, DockerCallType
       DEF KillContainer, TypeInv, TypeOK
<1>12. CASE KillCrashed(r)
  BY <1>0, <1>12, MarkType DEF KillCrashed, States
<1>13. QED
  BY <1>1, <1>2, <1>3, <1>4, <1>5, <1>6, <1>7, <1>8, <1>9, <1>10, <1>11, <1>12
     DEF PowerSteps

-----------------------------------------------------------------------------
(* The steps of the other goroutines, of Docker and of the daemon          *)

\* A step that is no request's: the requests hold what they held.
LEMMA BackgroundHolds ==
  ASSUME TypeInv, RegistryTypeOK', req' = req,
         \A s \in Srvs : servers'[s].uuid = servers[s].uuid,
         registry' = registry,
         \A s \in Srvs : inst'[s].pc = "none" \/ inst[s].pc # "none",
         \A c \in Cids : \/ watch'[c].got = "none"
                         \/ /\ watch[c].got # "none"
                            /\ watch'[c].srv = watch[c].srv
  PROVE  Holds'
<1>1. \A r \in Reqs :
        \/ req'[r].pc = "idle"
        \/ /\ req'[r].uuid = req[r].uuid /\ req'[r].srv = req[r].srv
           /\ req[r].pc # "idle"
           /\ req[r].pc \in NoSrvPcs => req'[r].pc \in NoSrvPcs
  OBVIOUS
<1>2. QED
  BY <1>1, HoldsStep

LEMMA InstallerType ==
  ASSUME TypeInv, NEW s \in Srvs, Installer(s) \/ StreamBreaks(s)
  PROVE  TypeInv'
<1> USE DEF dockerVars, registryVars, bootVars, StreamBreaks
<1>1. inst[s].pc # "none"
  BY DEF Installer, InstallPull, InstallCreate, InstallStart, InstallLogs,
     InstallWait, InstallKill, InstallRemove, InstallFinish
<1>2. servers[s].uuid \in UUIDs /\ inst[s].cid \in Cids \cup {Null}
  BY <1>1 DEF TypeInv, TypeOK, Holds, Install
<1>3. /\ inst' \in [Srvs -> Install]
      /\ \A a \in Srvs \ {s} : inst'[a] = inst[a]
  <2>1. InstPcs \subseteq InstPcs
    OBVIOUS
  <2>2. ASSUME NEW pc \in InstPcs, NEW c \in Cids \cup {Null},
               inst' = [inst EXCEPT ![s] = [pc |-> pc, cid |-> c]]
        PROVE  <1>3!:
    BY <2>2 DEF TypeInv, TypeOK, Install
  <2>3. inst \in [Srvs -> Install] /\ {"none", "create", "start", "logs", "wait",
          "kill", "remove_ok", "remove_failed", "ok", "failed"} \subseteq InstPcs
    BY DEF InstPcs, TypeInv, TypeOK
  <2>4. CASE InstallCreate(s)
    BY <2>2, <2>3, <2>4, InstGotoType DEF InstallCreate
  <2>5. CASE InstallFinish(s)
    BY <2>2, <2>3, <2>5 DEF InstallFinish, NoInstaller
  <2>6. CASE InstallPull(s) \/ InstallStart(s) \/ InstallLogs(s) \/ InstallKill(s)
           \/ StreamBreaks(s)
    BY <2>3, <2>6, InstGotoType
       DEF InstallPull, InstallStart, InstallLogs, InstallKill
  <2>7. CASE InstallWait(s) \/ InstallRemove(s)
    BY <2>3, <2>7, InstGotoType DEF InstallWait, InstallRemove
  <2>8. QED
    BY <2>4, <2>5, <2>6, <2>7 DEF Installer
<1>4. /\ servers' \in [Srvs -> Server]
      /\ \A a \in Srvs : servers'[a].uuid = servers[a].uuid
      /\ registry' = registry
  <2>1. CASE InstallFinish(s)
    BY <2>1, SetStateType
       DEF InstallFinish, States, TypeInv, TypeOK, RegistryTypeOK
  <2>2. CASE ~InstallFinish(s)
    BY <2>2 DEF Installer, InstallPull, InstallCreate, InstallStart, InstallLogs,
       InstallWait, InstallKill, InstallRemove, TypeInv, TypeOK, RegistryTypeOK
  <2>3. QED
    BY <2>1, <2>2
<1>5. DockerTypeOK'
  <2>1. CASE InstallCreate(s)
    BY <1>2, <2>1, CreateType
       DEF InstallCreate, Kinds, TypeInv, TypeOK, DockerTypeOK
  <2>2. CASE InstallStart(s)
    BY <2>2, StartType DEF InstallStart, Exists, TypeInv, TypeOK, DockerTypeOK
  <2>3. CASE InstallKill(s)
    BY <2>3, HaltType DEF InstallKill, Codes, TypeInv, TypeOK, DockerTypeOK
  <2>4. CASE InstallRemove(s)
    BY <2>4, RemoveCallType
       DEF InstallRemove, CallFails, TypeInv, TypeOK, DockerTypeOK
  <2>5. CASE InstallPull(s) \/ InstallLogs(s) \/ InstallWait(s) \/ InstallFinish(s)
           \/ StreamBreaks(s)
    BY <2>5 DEF InstallPull, InstallLogs, InstallWait, InstallFinish, TypeInv,
       TypeOK, DockerTypeOK
  <2>6. QED
    BY <2>1, <2>2, <2>3, <2>4, <2>5 DEF Installer
<1>6. /\ watch' \in [Cids -> Watch]
      /\ \A c \in Cids : /\ watch'[c].srv = watch[c].srv
                         /\ watch'[c].got = "none" <=> watch[c].got = "none"
  <2>1. CASE InstallRemove(s)
    BY <2>1, RemoveCallType DEF InstallRemove, CallFails, TypeInv, TypeOK
  <2>2. CASE ~InstallRemove(s)
    BY <2>2 DEF Installer, InstallPull, InstallCreate, InstallStart, InstallLogs,
       InstallWait, InstallKill, InstallFinish, TypeInv, TypeOK
  <2>3. QED
    BY <2>1, <2>2
<1>7. dirs' \subseteq UUIDs /\ UNCHANGED <<req, daemon, todo>>
  BY <1>2 DEF Installer, InstallPull, InstallCreate, InstallStart, InstallLogs,
     InstallWait, InstallKill, InstallRemove, InstallFinish, TypeInv, TypeOK
<1>8. TypeOK'
  BY <1>3, <1>4, <1>5, <1>6, <1>7 DEF TypeInv, TypeOK, RegistryTypeOK
<1>9. Holds'
  BY <1>1, <1>3, <1>4, <1>6, <1>7, <1>8, BackgroundHolds DEF TypeOK
<1>10. QED
  BY <1>8, <1>9 DEF TypeInv

LEMMA WatcherType ==
  ASSUME TypeInv, NEW c \in Cids, Watcher(c) \/ WaitBreaks(c)
  PROVE  TypeInv'
<1> USE DEF dockerVars, registryVars, bootVars, WaitBreaks, WatchFailed
<1>1. watch' = [watch EXCEPT ![c] = NoWatch]
  BY DEF Watcher, WatchExit, WatchError, WatchCancelled
<1>2. /\ watch' \in [Cids -> Watch]
      /\ \A d \in Cids : watch'[d] = watch[d] \/ watch'[d].got = "none"
  BY <1>1 DEF NoWatch, Watch, TypeInv, TypeOK
<1>3. /\ servers' \in [Srvs -> Server]
      /\ \A a \in Srvs : servers'[a].uuid = servers[a].uuid
  BY SetStateType DEF Watcher, WatchExit, WatchError, WatchCancelled, States,
     TypeInv, TypeOK, RegistryTypeOK
<1>4. UNCHANGED <<containers, registry, req, inst, bootVars, dirs>>
  BY DEF Watcher, WatchExit, WatchError, WatchCancelled
<1>5. TypeOK'
  BY <1>2, <1>3, <1>4 DEF TypeInv, TypeOK, DockerTypeOK, RegistryTypeOK
<1>6. Holds'
  BY <1>2, <1>3, <1>4, <1>5, BackgroundHolds DEF TypeOK
<1>7. QED
  BY <1>5, <1>6 DEF TypeInv

LEMMA ContainerExitType ==
  ASSUME TypeInv, NEW c \in Cids, NEW code \in Codes, ContainerExit(c, code)
  PROVE  TypeInv'
<1> USE DEF ContainerExit, registryVars, bootVars
<1>1. DockerTypeOK'
  BY HaltType DEF TypeInv, TypeOK
<1>2. /\ watch' \in [Cids -> Watch]
      /\ \A d \in Cids : /\ watch'[d].srv = watch[d].srv
                         /\ watch'[d].got = "none" <=> watch[d].got = "none"
  BY TellType DEF Codes, TypeInv, TypeOK
<1>3. TypeOK'
  BY <1>1, <1>2 DEF TypeInv, TypeOK, RegistryTypeOK
<1>4. Holds'
  BY <1>2, <1>3, BackgroundHolds DEF TypeOK
<1>5. QED
  BY <1>3, <1>4 DEF TypeInv

LEMMA RestoreType ==
  ASSUME TypeInv, NEW u \in UUIDs, Restore(u) PROVE TypeInv'
<1> USE DEF Restore, dockerVars, bootVars
<1>1. PICK s \in Srvs, running \in BOOLEAN :
        /\ Unreachable(s)
        /\ Add(s, [New(u, FALSE) EXCEPT
                     !.cid = todo[u],
                     !.state = IF running THEN "running" ELSE "offline"])
  OBVIOUS
<1> DEFINE server == [New(u, FALSE) EXCEPT
                        !.cid = todo[u],
                        !.state = IF running THEN "running" ELSE "offline"]
<1>2. server \in Server /\ server.uuid = u /\ Add(s, server) /\ RegistryTypeOK
  BY <1>1 DEF New, Server, States, TypeInv, TypeOK
<1> HIDE DEF server
<1>3. /\ RegistryTypeOK'
      /\ servers'[s].uuid = u /\ registry'[u] = s
      /\ \A a \in Srvs \ {s} : servers'[a] = servers[a]
      /\ \A v \in UUIDs \ {u} : registry'[v] = registry[v]
  BY <1>2, AddType
<1>4. TypeOK'
  BY <1>3 DEF TypeInv, TypeOK, DockerTypeOK
<1>5. \A q \in Reqs : req[q].pc \notin NoSrvPcs =>
        req[q].srv \in Srvs /\ servers'[req[q].srv].uuid = req[q].uuid
  BY <1>1, <1>3 DEF TypeInv, Holds, Unreachable
<1>6. \A a \in Srvs : inst[a].pc # "none" => servers'[a].uuid \in UUIDs
  BY <1>1, <1>3 DEF TypeInv, Holds, Unreachable
<1>7. \A v \in UUIDs : registry'[v] # Null => servers'[registry'[v]].uuid = v
  BY <1>1, <1>3 DEF TypeInv, Holds, Unreachable, TypeOK, RegistryTypeOK
<1>8. QED
  BY <1>4, <1>5, <1>6, <1>7 DEF TypeInv, Holds

LEMMA DaemonStartType ==
  ASSUME TypeInv, DaemonStart PROVE TypeInv'
<1> USE DEF dockerVars, registryVars, bootVars
<1>1. CASE Boot
  <2>1. TypeOK'
    BY <1>1 DEF Boot, TypeInv, TypeOK, DockerTypeOK, RegistryTypeOK
  <2>2. QED
    BY <1>1, <2>1, BackgroundHolds DEF Boot, TypeInv, TypeOK
<1>2. CASE Serve
  <2>1. TypeOK'
    BY <1>2 DEF Serve, TypeInv, TypeOK, DockerTypeOK, RegistryTypeOK
  <2>2. QED
    BY <1>2, <2>1, BackgroundHolds DEF Serve, TypeInv, TypeOK
<1>3. QED
  BY <1>1, <1>2, RestoreType DEF DaemonStart

LEMMA ShutdownType ==
  ASSUME TypeInv, Shutdown PROVE TypeInv'
<1> USE NodeAssumption DEF Shutdown
<1>1. RegistryTypeOK'
  BY DEF RegistryTypeOK, NoServer, New, Server, States
<1>2. req' \in [Reqs -> Request]
  BY DEF Idle, ReqPcs, Request
<1>3. inst' \in [Srvs -> Install]
  BY DEF NoInstaller, Install, InstPcs
<1>4. watch' \in [Cids -> Watch]
  BY DEF NoWatch, Watch
<1>5. TypeOK'
  BY <1>1, <1>2, <1>3, <1>4 DEF TypeInv, TypeOK, DockerTypeOK
<1>6. Holds'
  BY DEF Idle, NoInstaller, NoWatch, Holds, NoSrvPcs
<1>7. QED
  BY <1>5, <1>6 DEF TypeInv

LEMMA TypeStutter ==
  ASSUME TypeInv, UNCHANGED vars PROVE TypeInv'
<1>1. TypeOK'
  BY DEF vars, TypeInv, TypeOK, DockerTypeOK, RegistryTypeOK
<1>2. Holds'
  BY DEF vars, TypeInv, Holds
<1>3. QED
  BY <1>1, <1>2 DEF TypeInv

LEMMA TypeNext == TypeInv /\ [Next]_vars => TypeInv'
<1> SUFFICES ASSUME TypeInv, [Next]_vars PROVE TypeInv'
  OBVIOUS
<1>1. CASE \E r \in Reqs : NewRequest(r) \/ Handler(r)
  BY <1>1, NewRequestType, CreateStepsType, DeleteStepsType, StartStepsType,
     PowerStepsType DEF Handler
<1>2. CASE \E s \in Srvs : Installer(s) \/ StreamBreaks(s)
  BY <1>2, InstallerType
<1>3. CASE \E c \in Cids : Watcher(c) \/ WaitBreaks(c)
  BY <1>3, WatcherType
<1>4. CASE \E c \in Cids, code \in Codes : ContainerExit(c, code)
  BY <1>4, ContainerExitType
<1>5. CASE DaemonStart
  BY <1>5, DaemonStartType
<1>6. CASE Shutdown
  BY <1>6, ShutdownType
<1>7. CASE UNCHANGED vars
  BY <1>7, TypeStutter
<1>8. QED
  BY <1>1, <1>2, <1>3, <1>4, <1>5, <1>6, <1>7 DEF Next

\* Every reachable state is well typed, and no goroutine ever works through a
\* nil or recycled server pointer.
THEOREM TypeCorrect == Spec => [](TypeOK /\ Holds)
<1>1. TypeInv => TypeOK /\ Holds
  BY DEF TypeInv
<1>2. QED
  BY <1>1, TypeInit, TypeNext, PTL DEF Spec

-----------------------------------------------------------------------------
(***************************************************************************)
(* Who still holds a Server object that left the registry can tell:        *)
(* HeldOrCancelled of LifecycleProps, for every instance.  Given the types *)
(* it is inductive as it stands.  An object is cancelled in the step that  *)
(* takes it out of the registry, and nobody gets a pointer but from the    *)
(* registry or from somebody who holds it.                                 *)
(***************************************************************************)

\* A step after which nobody points to what nobody could point to before, and
\* which leaves the registry and the contexts as they are.
PointersKept ==
  /\ registry' = registry
  /\ \A a \in Srvs : servers'[a].cancelled = servers[a].cancelled
  /\ \A q \in Reqs : \/ req'[q].srv \in {Null, req[q].srv}
                     \/ \E u \in UUIDs : req'[q].srv = registry[u]
  /\ \A c \in Cids : \/ watch'[c].srv \in {Null, watch[c].srv}
                     \/ \E q \in Reqs : watch'[c].srv = req[q].srv
  /\ \A a \in Srvs : \/ inst[a].pc = "none" => inst'[a].pc = "none"
                     \/ \E q \in Reqs : req[q].srv = a

\* An object that nobody points to is lost for good.
LEMMA StaysUnreachable ==
  ASSUME PointersKept, NEW a \in Srvs, Unreachable(a)
  PROVE  Unreachable(a)'
<1>1. \A q \in Reqs : req'[q].srv # a
  BY NodeAssumption DEF PointersKept, Unreachable
<1>2. \A c \in Cids : watch'[c].srv # a
  BY NodeAssumption DEF PointersKept, Unreachable
<1>3. inst'[a].pc = "none"
  BY DEF PointersKept, Unreachable
<1>4. QED
  BY <1>1, <1>2, <1>3 DEF PointersKept, Unreachable

LEMMA HeldStep ==
  ASSUME TypeInv, HeldOrCancelled, PointersKept
  PROVE  HeldOrCancelled'
<1>1. \A u \in UUIDs : registry[u] # Null => registry[u] \in Srvs
  BY DEF TypeInv, TypeOK, RegistryTypeOK
<1>2. QED
  BY <1>1, StaysUnreachable DEF HeldOrCancelled, PointersKept

\* The steps of a request that take no pointer.
LEMMA HandlerKeeps ==
  ASSUME TypeInv, NEW r \in Reqs, registry' = registry,
         \A a \in Srvs : servers'[a].cancelled = servers[a].cancelled,
         \A q \in Reqs \ {r} : req'[q] = req[q],
         req'[r].srv \in {Null, req[r].srv},
         \A c \in Cids : watch'[c].srv = watch[c].srv,
         inst' = inst
  PROVE  PointersKept
<1>1. \A q \in Reqs : req'[q].srv \in {Null, req[q].srv}
  OBVIOUS
<1>2. QED
  BY <1>1 DEF PointersKept

\* A handler goes on, replies, or keeps what it has read.
LEMMA Moves ==
  ASSUME TypeInv, NEW r \in Reqs,
         \/ Reply(r)
         \/ \E pc \in ReqPcs : Goto(r, pc)
         \/ \E pc \in ReqPcs, c \in Cids \cup {Null} : GotoWith(r, pc, c)
  PROVE  /\ \A q \in Reqs \ {r} : req'[q] = req[q]
         /\ req'[r].srv \in {Null, req[r].srv}
<1>1. CASE Reply(r)
  BY <1>1, ReplyType DEF Idle, TypeInv, TypeOK
<1>2. CASE \E pc \in ReqPcs : Goto(r, pc)
  BY <1>2, GotoType DEF TypeInv, TypeOK
<1>3. CASE \E pc \in ReqPcs, c \in Cids \cup {Null} : GotoWith(r, pc, c)
  BY <1>3, GotoWithType DEF TypeInv, TypeOK
<1>4. QED
  BY <1>1, <1>2, <1>3

\* Calls to Docker leave watchers with the object they watch for.
LEMMA CallHeld ==
  ASSUME TypeInv, NEW c,
         StopCall(c) \/ RemoveCall(c) \/ CallFails(c)
  PROVE  \A d \in Cids : watch'[d].srv = watch[d].srv
  BY StopCallType, RemoveCallType DEF CallFails, TypeInv, TypeOK

LEMMA ReadIDKeeps ==
  ASSUME TypeInv, NEW r \in Reqs,
         NEW from \in ReqPcs \ NoSrvPcs, NEW none \in ReqPcs, NEW some \in ReqPcs,
         ReadID(r, from, none, some)
  PROVE  PointersKept
<1> USE DEF ReadID, registryVars, dockerVars
<1>1. Srv(r).cid \in Cids \cup {Null}
  BY DEF At, TypeInv, TypeOK, Holds, RegistryTypeOK, Server, Srv
<1>2. /\ \A q \in Reqs \ {r} : req'[q] = req[q]
      /\ req'[r].srv \in {Null, req[r].srv}
  BY <1>1, Moves
<1>3. QED
  BY <1>2, HandlerKeeps

LEMMA MarkKeeps ==
  ASSUME TypeInv, NEW r \in Reqs, NEW from \in ReqPcs,
         NEW state \in States, NEW to \in ReqPcs, Mark(r, from, state, to)
  PROVE  PointersKept
<1> USE DEF Mark, dockerVars
<1>1. \A a \in Srvs : servers'[a].cancelled = servers[a].cancelled
  BY SetStateType DEF TypeInv, TypeOK, RegistryTypeOK
<1>2. /\ \A q \in Reqs \ {r} : req'[q] = req[q]
      /\ req'[r].srv \in {Null, req[r].srv}
  BY Moves
<1>3. QED
  BY <1>1, <1>2, HandlerKeeps

LEMMA ClearIDKeeps ==
  ASSUME TypeInv, NEW r \in Reqs, NEW from \in ReqPcs,
         NEW to \in ReqPcs, ClearID(r, from, to)
  PROVE  PointersKept
<1> USE DEF ClearID, dockerVars
<1>1. \A a \in Srvs : servers'[a].cancelled = servers[a].cancelled
  BY SetContainerIDType DEF TypeInv, TypeOK, RegistryTypeOK
<1>2. /\ \A q \in Reqs \ {r} : req'[q] = req[q]
      /\ req'[r].srv \in {Null, req[r].srv}
  BY Moves
<1>3. QED
  BY <1>1, <1>2, HandlerKeeps

\* A handler's step that leaves the objects as they are.
LEMMA StepKeeps ==
  ASSUME TypeInv, NEW r \in Reqs,
         UNCHANGED <<registry, servers, inst>>,
         \A c \in Cids : watch'[c].srv = watch[c].srv,
         \/ Reply(r)
         \/ \E pc \in ReqPcs : Goto(r, pc)
         \/ \E pc \in ReqPcs, c \in Cids \cup {Null} : GotoWith(r, pc, c)
  PROVE  PointersKept
  BY Moves, HandlerKeeps

\* An object is placed where nobody points to.
LEMMA AddHeld ==
  ASSUME TypeInv, HeldOrCancelled, NEW s \in Srvs, Unreachable(s),
         NEW server \in Server, server.uuid \in UUIDs, ~server.cancelled,
         Add(s, server),
         \A q \in Reqs : req'[q].srv \in {Null, s, req[q].srv},
         watch' = watch, inst' = inst
  PROVE  HeldOrCancelled'
<1>1. /\ servers'[s] = server /\ registry'[server.uuid] = s
      /\ registry[server.uuid] = Null
      /\ \A a \in Srvs \ {s} : servers'[a] = servers[a]
      /\ \A v \in UUIDs \ {server.uuid} : registry'[v] = registry[v]
  BY ZenonT(60), AddType DEF Add, TypeInv, TypeOK
<1>2. ASSUME NEW a \in Srvs, \A v \in UUIDs : registry'[v] # a
      PROVE  servers'[a].cancelled \/ Unreachable(a)'
  <2>1. a # s
    BY <1>1, <1>2
  <2>2. \A v \in UUIDs : registry[v] # a
    BY <1>1, <1>2, NodeAssumption
  <2>3. servers'[a].cancelled \/ Unreachable(a)
    BY <1>1, <2>1, <2>2 DEF HeldOrCancelled
  <2>4. Unreachable(a) => Unreachable(a)'
    BY <1>2, <2>1, NodeAssumption DEF Unreachable
  <2>5. QED
    BY <2>3, <2>4
<1>3. ASSUME NEW v \in UUIDs, registry'[v] # Null
      PROVE  ~servers'[registry'[v]].cancelled
  <2>1. CASE v = server.uuid
    BY <1>1, <2>1
  <2>2. CASE v # server.uuid
    <3>1. registry'[v] = registry[v] /\ registry[v] # s /\ registry[v] \in Srvs
      BY <1>1, <1>3, <2>2 DEF Unreachable, TypeInv, TypeOK, RegistryTypeOK
    <3>2. QED
      BY <1>1, <1>3, <3>1 DEF HeldOrCancelled
  <2>3. QED
    BY <2>1, <2>2
<1>4. QED
  BY <1>2, <1>3 DEF HeldOrCancelled

LEMMA AddServerHeld ==
  ASSUME TypeInv, HeldOrCancelled, NEW r \in Reqs, AddServer(r)
  PROVE  HeldOrCancelled'
<1> USE DEF registryVars, dockerVars
<1>1. CASE Reply(r) /\ UNCHANGED registryVars
  BY <1>1, StepKeeps, HeldStep DEF AddServer
<1>2. ASSUME NEW s \in Srvs, Unreachable(s), Add(s, New(req[r].uuid, TRUE)),
             Reply(r) \/ GotoHolding(r, "installing", s)
      PROVE  HeldOrCancelled'
  <2> DEFINE server == New(req[r].uuid, TRUE)
  <2>1. req[r].uuid \in UUIDs
    BY DEF AddServer, At, TypeInv, Holds
  <2>2. server \in Server /\ server.uuid \in UUIDs /\ ~server.cancelled
    BY <2>1 DEF New, Server, States
  <2>3. \A q \in Reqs : req'[q].srv \in {Null, s, req[q].srv}
    BY <1>2 DEF Reply, Idle, GotoHolding, TypeInv, TypeOK, Request
  <2>4. Add(s, server) /\ watch' = watch /\ inst' = inst
    BY <1>2 DEF AddServer
  <2> HIDE DEF server
  <2>5. QED
    BY <1>2, <2>2, <2>3, <2>4, AddHeld
<1>3. QED
  BY <1>1, <1>2 DEF AddServer

LEMMA CreateStepsKeeps ==
  ASSUME TypeInv, NEW r \in Reqs, CreateDir(r) \/ SpawnInstaller(r)
  PROVE  PointersKept
<1> USE DEF registryVars, dockerVars
<1>1. CASE CreateDir(r)
  BY <1>1, StepKeeps DEF CreateDir, ReqPcs
<1>2. CASE SpawnInstaller(r)
  <2>1. /\ req[r].srv \in Srvs
        /\ \A a \in Srvs \ {req[r].srv} : inst'[a] = inst[a]
        /\ registry' = registry /\ watch' = watch
    BY <1>2 DEF SpawnInstaller, At, TypeInv, TypeOK, Holds, NoSrvPcs
  <2>2. \A a \in Srvs : servers'[a].cancelled = servers[a].cancelled
    BY <1>2, SetStateType
       DEF SpawnInstaller, States, TypeInv, TypeOK, RegistryTypeOK
  <2>3. \A q \in Reqs : req'[q].srv \in {Null, req[q].srv}
    BY <1>2, Moves DEF SpawnInstaller
  <2>4. QED
    BY <2>1, <2>2, <2>3 DEF PointersKept
<1>3. QED
  BY <1>1, <1>2

LEMMA NewRequestKeeps ==
  ASSUME TypeInv, NEW r \in Reqs, NewRequest(r)
  PROVE  PointersKept
<1> DEFINE Given(q) == \/ req'[q].srv \in {Null, req[q].srv}
                       \/ \E v \in UUIDs : req'[q].srv = registry[v]
<1>0. req \in [Reqs -> Request]
  BY DEF TypeInv, TypeOK
<1>1. PICK u \in UUIDs : \/ CreateRequest(r, u)
                         \/ \E op \in {"delete", "start", "stop", "restart", "kill"} :
                              ServerRequest(r, u, op)
  BY DEF NewRequest
<1>2. UNCHANGED <<registry, servers, watch, inst>>
  BY <1>1 DEF CreateRequest, ServerRequest, registryVars, dockerVars
<1>3. CASE CreateRequest(r, u)
  <2>1. \A q \in Reqs : req'[q].srv \in {Null, req[q].srv}
    BY <1>0, <1>3 DEF CreateRequest, Idle
  <2>2. QED
    BY <1>2, <2>1 DEF PointersKept
<1>4. ASSUME NEW op \in {"delete", "start", "stop", "restart", "kill"},
             ServerRequest(r, u, op)
      PROVE  PointersKept
  <2>1. \A q \in Reqs : q # r => req'[q] = req[q]
    BY <1>0, <1>4 DEF ServerRequest
  <2>2. req'[r].srv = registry[u]
    BY <1>0, <1>4 DEF ServerRequest
  <2>3. \A q \in Reqs : Given(q)
    BY <2>1, <2>2
  <2>4. QED
    BY <1>2, <2>3 DEF PointersKept
<1>5. QED
  BY <1>1, <1>3, <1>4

\* Manager.Remove: of all objects, the one it takes out is cancelled.
LEMMA DeleteEntryHeld ==
  ASSUME TypeInv, HeldOrCancelled, NEW r \in Reqs, DeleteEntry(r)
  PROVE  HeldOrCancelled'
<1> USE DEF DeleteEntry, dockerVars
<1> DEFINE u == req[r].uuid
<1>1. u \in UUIDs /\ Remove(u) /\ watch' = watch /\ inst' = inst
  BY DEF At, TypeInv, Holds
<1>2. \A q \in Reqs : req'[q].srv \in {Null, req[q].srv}
  BY Moves
<1>3. /\ \A v \in UUIDs \ {u} : registry'[v] = registry[v]
      /\ registry'[u] = Null
      /\ \A a \in Srvs : servers[a].cancelled => servers'[a].cancelled
  BY <1>1, RemoveType DEF TypeInv, TypeOK
<1>4. \A a \in Srvs : /\ a = registry[u] => servers'[a].cancelled
                      /\ a # registry[u] => servers'[a] = servers[a]
  BY <1>1, NodeAssumption DEF Remove, TypeInv, TypeOK, RegistryTypeOK, Server
<1>5. ASSUME NEW a \in Srvs, \A v \in UUIDs : registry'[v] # a
      PROVE  servers'[a].cancelled \/ Unreachable(a)'
  <2>1. CASE a = registry[u]
    BY <1>4, <2>1
  <2>2. CASE a # registry[u]
    <3>1. \A v \in UUIDs : registry[v] # a
      BY <1>3, <1>5, <2>2
    <3>2. servers[a].cancelled \/ Unreachable(a)
      BY <3>1 DEF HeldOrCancelled
    <3>3. Unreachable(a) => Unreachable(a)'
      BY <1>1, <1>2, <1>5, NodeAssumption DEF Unreachable
    <3>4. QED
      BY <1>3, <3>2, <3>3
  <2>3. QED
    BY <2>1, <2>2
<1>6. ASSUME NEW v \in UUIDs, registry'[v] # Null
      PROVE  ~servers'[registry'[v]].cancelled
  <2>1. v # u /\ registry'[v] = registry[v] /\ registry[v] # Null
    BY <1>3, <1>6
  <2>2. registry[v] \in Srvs /\ registry[v] # registry[u]
    BY <1>1, <2>1 DEF TypeInv, TypeOK, Holds, RegistryTypeOK
  <2>3. QED
    BY <1>4, <2>1, <2>2 DEF HeldOrCancelled
<1>7. QED
  BY <1>5, <1>6 DEF HeldOrCancelled

LEMMA DeleteStepsKeeps ==
  ASSUME TypeInv, NEW r \in Reqs,
         DeleteReadID(r) \/ DeleteStop(r) \/ DeleteRemove(r) \/ DeleteDir(r)
  PROVE  PointersKept
<1> USE DEF registryVars, dockerVars
<1>1. CASE DeleteReadID(r)
  BY <1>1, ReadIDKeeps DEF DeleteReadID, ReqPcs, NoSrvPcs
<1>2. CASE DeleteStop(r) \/ DeleteRemove(r)
  BY <1>2, CallHeld, StepKeeps DEF DeleteStop, DeleteRemove, ReqPcs
<1>3. CASE DeleteDir(r)
  BY <1>3, StepKeeps DEF DeleteDir, ReqPcs
<1>4. QED
  BY <1>1, <1>2, <1>3

LEMMA StartStepsKeeps ==
  ASSUME TypeInv, NEW r \in Reqs, StartSteps(r)
  PROVE  PointersKept
<1> USE DEF registryVars, dockerVars
<1>0. StartPcs \subseteq ReqPcs \ NoSrvPcs /\ "idle" \in ReqPcs
  BY DEF StartPcs, ReqPcs, NoSrvPcs
<1>1. CASE CheckInstalling(r) \/ PullImage(r)
  BY <1>0, <1>1, StepKeeps DEF CheckInstalling, PullImage, StartPcs
<1>2. CASE CreateContainer(r)
  BY <1>0, <1>2, StepKeeps DEF CreateContainer, StartPcs
<1>3. CASE RemoveStale(r)
  BY <1>0, <1>3, CallHeld, StepKeeps DEF RemoveStale, StartPcs
<1>4. CASE StartContainer(r)
  BY <1>0, <1>4, CallHeld, StepKeeps DEF StartContainer, StartPcs
<1>5. CASE StartReadID(r)
  BY <1>0, <1>5, ReadIDKeeps DEF StartReadID, StartPcs
<1>6. CASE StartClear(r)
  BY <1>0, <1>6, ClearIDKeeps DEF StartClear, StartPcs
<1>7. CASE StoreID(r)
  <2>1. req[r].cid \in Cids \cup {Null}
    BY DEF TypeInv, TypeOK, Request
  <2>2. \A a \in Srvs : servers'[a].cancelled = servers[a].cancelled
    BY <1>7, <2>1, SetContainerIDType DEF StoreID, TypeInv, TypeOK, RegistryTypeOK
  <2>3. /\ \A q \in Reqs \ {r} : req'[q] = req[q]
        /\ req'[r].srv \in {Null, req[r].srv}
    BY <1>0, <1>7, Moves DEF StoreID, StartPcs
  <2>4. QED
    BY <1>7, <2>2, <2>3, HandlerKeeps DEF StoreID
<1>8. CASE SetStarting(r) \/ SetRunning(r) \/ StartFailed(r)
  BY <1>0, <1>8, MarkKeeps DEF SetStarting, SetRunning, StartFailed, StartPcs, States
<1>9. CASE SpawnWatch(r)
  <2>1. /\ UNCHANGED <<registry, servers, inst>>
        /\ \A c \in Cids : watch'[c].srv \in {watch[c].srv, req[r].srv}
    BY <1>9 DEF SpawnWatch, TypeInv, TypeOK
  <2>2. \A q \in Reqs : req'[q].srv \in {Null, req[q].srv}
    BY <1>9, Moves DEF SpawnWatch
  <2>3. QED
    BY <2>1, <2>2 DEF PointersKept
<1>10. QED
  BY <1>1, <1>2, <1>3, <1>4, <1>5, <1>6, <1>7, <1>8, <1>9 DEF StartSteps

LEMMA PowerStepsKeeps ==
  ASSUME TypeInv, NEW r \in Reqs, PowerSteps(r)
  PROVE  PointersKept
<1> USE DEF registryVars, dockerVars
<1>0. {"stop_read", "stop_stopping", "stop_stop", "stop_offline", "re_read",
       "re_stopping", "re_stop", "re_remove", "re_clear", "kill_read",
       "kill_kill", "kill_crashed", "check"} \subseteq ReqPcs \ NoSrvPcs
      /\ "idle" \in ReqPcs
  BY DEF StartPcs, ReqPcs, NoSrvPcs
<1>1. CASE StopReadID(r) \/ RestartReadID(r) \/ KillReadID(r)
  BY <1>0, <1>1, ReadIDKeeps DEF StopReadID, RestartReadID, KillReadID
<1>2. CASE RestartClear(r)
  BY <1>0, <1>2, ClearIDKeeps DEF RestartClear
<1>3. CASE StopContainer(r) \/ RestartStop(r) \/ RestartRemove(r)
  BY <1>0, <1>3, CallHeld, StepKeeps DEF StopContainer, RestartStop, RestartRemove
<1>4. CASE KillContainer(r)
  <2>1. \A c \in Cids : watch'[c].srv = watch[c].srv
    BY <1>4, TellType DEF KillContainer, Codes, TypeInv, TypeOK
  <2>2. QED
    BY <1>0, <1>4, <2>1, StepKeeps DEF KillContainer
<1>5. CASE StopStopping(r) \/ RestartStopping(r) \/ StopOffline(r) \/ KillCrashed(r)
  BY <1>0, <1>5, MarkKeeps
     DEF StopStopping, RestartStopping, StopOffline, KillCrashed, States
<1>6. QED
  BY <1>1, <1>2, <1>3, <1>4, <1>5 DEF PowerSteps

-----------------------------------------------------------------------------
(* The goroutines, Docker and the daemon                                   *)

\* Steps of no request that take no pointer.
LEMMA BackgroundKeeps ==
  ASSUME TypeInv, registry' = registry, req' = req,
         \A a \in Srvs : servers'[a].cancelled = servers[a].cancelled,
         \A c \in Cids : watch'[c].srv \in {Null, watch[c].srv},
         \A a \in Srvs : inst[a].pc = "none" => inst'[a].pc = "none"
  PROVE  PointersKept
  BY DEF PointersKept

LEMMA InstallerKeeps ==
  ASSUME TypeInv, NEW s \in Srvs, Installer(s) \/ StreamBreaks(s)
  PROVE  PointersKept
<1>1. /\ registry' = registry /\ req' = req
      /\ inst[s].pc # "none"
      /\ \A a \in Srvs \ {s} : inst'[a] = inst[a]
  BY DEF Installer, StreamBreaks, InstallPull, InstallCreate, InstallStart,
     InstallLogs, InstallWait, InstallKill, InstallRemove, InstallFinish, InstGoto,
     registryVars, TypeInv, TypeOK
<1>2. \A a \in Srvs : servers'[a].cancelled = servers[a].cancelled
  BY DEF Installer, StreamBreaks, InstallPull, InstallCreate, InstallStart,
     InstallLogs, InstallWait, InstallKill, InstallRemove, InstallFinish, SetState,
     registryVars, TypeInv, TypeOK, RegistryTypeOK, Server
<1>3. \A c \in Cids : watch'[c].srv = watch[c].srv
  <2>1. CASE InstallRemove(s)
    BY <2>1, CallHeld DEF InstallRemove
  <2>2. CASE ~InstallRemove(s)
    BY <2>2 DEF Installer, StreamBreaks, InstallPull, InstallCreate, InstallStart,
       InstallLogs, InstallWait, InstallKill, InstallFinish, dockerVars
  <2>3. QED
    BY <2>1, <2>2
<1>4. QED
  BY <1>1, <1>2, <1>3, BackgroundKeeps

LEMMA WatcherKeeps ==
  ASSUME TypeInv, NEW c \in Cids, Watcher(c) \/ WaitBreaks(c)
  PROVE  PointersKept
<1>1. /\ registry' = registry /\ req' = req /\ inst' = inst
      /\ watch' = [watch EXCEPT ![c] = NoWatch]
  BY DEF Watcher, WaitBreaks, WatchExit, WatchError, WatchFailed, WatchCancelled,
     registryVars
<1>2. \A a \in Srvs : servers'[a].cancelled = servers[a].cancelled
  BY SMTT(40) DEF Watcher, WaitBreaks, WatchExit, WatchError, WatchFailed, WatchCancelled,
     SetState, registryVars, TypeInv, TypeOK, RegistryTypeOK, Server
<1>3. \A d \in Cids : watch'[d].srv \in {Null, watch[d].srv}
  BY <1>1 DEF NoWatch, TypeInv, TypeOK
<1>4. QED
  BY <1>1, <1>2, <1>3, BackgroundKeeps

LEMMA ContainerExitKeeps ==
  ASSUME TypeInv, NEW c \in Cids, NEW code \in Codes,
         ContainerExit(c, code)
  PROVE  PointersKept
<1>1. \A d \in Cids : watch'[d].srv = watch[d].srv
  BY TellType DEF ContainerExit, TypeInv, TypeOK
<1>2. QED
  BY <1>1, BackgroundKeeps DEF ContainerExit, registryVars

LEMMA RestoreHeld ==
  ASSUME TypeInv, HeldOrCancelled, NEW u \in UUIDs, Restore(u)
  PROVE  HeldOrCancelled'
<1>1. PICK s \in Srvs, running \in BOOLEAN :
        /\ Unreachable(s)
        /\ Add(s, [New(u, FALSE) EXCEPT
                     !.cid = todo[u],
                     !.state = IF running THEN "running" ELSE "offline"])
  BY DEF Restore
<1> DEFINE server == [New(u, FALSE) EXCEPT
                        !.cid = todo[u],
                        !.state = IF running THEN "running" ELSE "offline"]
<1>2. todo[u] \in Cids \cup {Null}
  BY DEF TypeInv, TypeOK
<1>3. server \in Server /\ server.uuid \in UUIDs /\ ~server.cancelled
  BY <1>2 DEF New, Server, States
<1>4. Add(s, server)
  BY <1>1
<1>5. req' = req /\ watch' = watch /\ inst' = inst
  BY DEF Restore, dockerVars
<1> HIDE DEF server
<1>6. QED
  BY <1>1, <1>3, <1>4, <1>5, AddHeld

\* All steps but these four leave the pointers as they are.
LEMMA StepsKeep ==
  ASSUME TypeInv, [Next]_vars,
         \A r \in Reqs : ~AddServer(r) /\ ~DeleteEntry(r),
         \A u \in UUIDs : ~Restore(u),
         ~Shutdown
  PROVE  PointersKept
<1>1. CASE \E r \in Reqs : NewRequest(r) \/ Handler(r)
  BY <1>1, NewRequestKeeps, CreateStepsKeeps, DeleteStepsKeeps, StartStepsKeeps,
     PowerStepsKeeps DEF Handler, CreateSteps, DeleteSteps
<1>2. CASE \E s \in Srvs : Installer(s) \/ StreamBreaks(s)
  BY <1>2, InstallerKeeps
<1>3. CASE \E c \in Cids : Watcher(c) \/ WaitBreaks(c)
  BY <1>3, WatcherKeeps
<1>4. CASE \E c \in Cids, code \in Codes : ContainerExit(c, code)
  BY <1>4, ContainerExitKeeps
<1>5. CASE Boot \/ Serve \/ UNCHANGED vars
  BY <1>5, BackgroundKeeps DEF Boot, Serve, vars, dockerVars, registryVars
<1>6. QED
  BY <1>1, <1>2, <1>3, <1>4, <1>5 DEF Next, DaemonStart

LEMMA HeldNext == TypeInv /\ HeldOrCancelled /\ [Next]_vars => HeldOrCancelled'
<1> SUFFICES ASSUME TypeInv, HeldOrCancelled, [Next]_vars PROVE HeldOrCancelled'
  OBVIOUS
<1>1. CASE \E r \in Reqs : AddServer(r) \/ DeleteEntry(r)
  BY <1>1, AddServerHeld, DeleteEntryHeld
<1>2. CASE \E u \in UUIDs : Restore(u)
  BY <1>2, RestoreHeld
<1>3. CASE Shutdown
  BY <1>3 DEF Shutdown, NoServer, New, HeldOrCancelled
<1>4. QED
  BY <1>1, <1>2, <1>3, StepsKeep, HeldStep

\* A Server object that left the registry is cancelled as long as anybody
\* holds it, and none in the registry is (Manager.Remove, manager.go:37-45).
THEOREM HeldCorrect == Spec => []HeldOrCancelled
<1>1. Init => HeldOrCancelled
  BY DEF Init, RegistryInit, NoServer, New, HeldOrCancelled
<1>2. QED
  BY <1>1, TypeInit, TypeNext, HeldNext, PTL DEF Spec

-----------------------------------------------------------------------------
(***************************************************************************)
(* No container in two hands: SoleOwner of LifecycleProps, for every       *)
(* instance.  It is not inductive: between ContainerCreate and             *)
(* SetContainerID a handler holds an id that no object has yet, and the    *)
(* restore loop hands out ids that nobody asked for.  OwnsStored and       *)
(* RestoresOwn say that those ids have no other owner either.              *)
(***************************************************************************)

\* The container a start is about to store is in nobody else's hands.
OwnsStored ==
  /\ \A r \in Reqs : req[r].pc = "set_id" =>
       /\ req[r].cid \in Cids
       /\ \A s \in Srvs : servers[s].cid = req[r].cid => Unreachable(s)
       /\ \A s \in Srvs : inst[s].cid # req[r].cid
  /\ \A q, r \in Reqs :
       q # r /\ req[q].pc = "set_id" /\ req[r].pc = "set_id" =>
         req[q].cid # req[r].cid

\* Before the API listens nobody works on a server, and the containers still
\* to be restored have no owner yet and differ.
RestoresOwn ==
  /\ daemon # "up" =>
       (\A r \in Reqs : req[r] = Idle) /\ (\A s \in Srvs : inst[s] = NoInstaller)
  /\ daemon = "down" => \A s \in Srvs : servers[s].cid = Null
  /\ daemon = "restoring" => \A u \in UUIDs : todo[u] # Null =>
       /\ \A v \in UUIDs \ {u} : todo[v] # todo[u]
       /\ \A s \in Srvs : servers[s].cid = todo[u] => Unreachable(s)

\* With TypeInv, the inductive invariant behind SoleOwner.
Owned == SoleOwner /\ OwnsStored /\ RestoresOwn

-----------------------------------------------------------------------------
(* Steps that hand out no container                                        *)

ClaimsKept ==
  /\ \A a \in Srvs : servers'[a].cid \in {Null, servers[a].cid}
  /\ \A a \in Srvs : inst'[a].cid \in {Null, inst[a].cid}
  /\ \A q \in Reqs : req'[q].pc = "set_id" =>
       req[q].pc = "set_id" /\ req'[q].cid = req[q].cid

LEMMA OwnersStep ==
  ASSUME SoleOwner, OwnsStored, ClaimsKept,
         \A a \in Srvs : Unreachable(a) => Unreachable(a)'
  PROVE  SoleOwner' /\ OwnsStored'
<1>1. ASSUME NEW s1 \in Srvs, NEW s2 \in Srvs, s1 # s2, servers'[s1].cid # Null
      PROVE  \/ servers'[s1].cid # servers'[s2].cid
             \/ Unreachable(s1)' \/ Unreachable(s2)'
  BY <1>1 DEF ClaimsKept, SoleOwner
<1>2. ASSUME NEW s1 \in Srvs, NEW s2 \in Srvs, inst'[s1].cid # Null
      PROVE  inst'[s1].cid # servers'[s2].cid \/ Unreachable(s2)'
  BY <1>2 DEF ClaimsKept, SoleOwner
<1>3. ASSUME NEW r \in Reqs, req'[r].pc = "set_id"
      PROVE  /\ req'[r].cid \in Cids
             /\ \A s \in Srvs : servers'[s].cid = req'[r].cid => Unreachable(s)'
             /\ \A s \in Srvs : inst'[s].cid # req'[r].cid
  BY <1>3, NodeAssumption DEF ClaimsKept, OwnsStored
<1>4. ASSUME NEW q \in Reqs, NEW r \in Reqs, q # r,
             req'[q].pc = "set_id", req'[r].pc = "set_id"
      PROVE  req'[q].cid # req'[r].cid
  BY <1>4 DEF ClaimsKept, OwnsStored
<1>5. QED
  BY <1>1, <1>2, <1>3, <1>4 DEF SoleOwner, OwnsStored

LEMMA RestoresStep ==
  ASSUME RestoresOwn, UNCHANGED bootVars,
         \A a \in Srvs : servers'[a].cid \in {Null, servers[a].cid},
         daemon # "up" => UNCHANGED <<req, inst>>,
         \A a \in Srvs : Unreachable(a) => Unreachable(a)'
  PROVE  RestoresOwn'
  BY DEF RestoresOwn, bootVars

LEMMA OwnedStep ==
  ASSUME Owned, ClaimsKept, PointersKept, UNCHANGED bootVars,
         daemon # "up" => UNCHANGED <<req, inst>>
  PROVE  Owned'
<1>1. \A a \in Srvs : Unreachable(a) => Unreachable(a)'
  BY StaysUnreachable
<1>2. QED
  BY <1>1, OwnersStep, RestoresStep DEF Owned, ClaimsKept

\* A goroutine at work: the daemon is up.
LEMMA UpWhenBusy ==
  ASSUME RestoresOwn,
         \/ \E r \in Reqs : req[r].pc # "idle"
         \/ \E s \in Srvs : inst[s].pc # "none"
  PROVE  daemon = "up"
  BY DEF RestoresOwn, Idle, NoInstaller

-----------------------------------------------------------------------------
(* Handlers                                                                *)

\* A handler that moves anywhere but to "set_id".
LEMMA HandlerClaims ==
  ASSUME TypeInv, NEW r \in Reqs,
         \/ Reply(r)
         \/ \E pc \in ReqPcs \ {"set_id"} : Goto(r, pc)
         \/ \E pc \in ReqPcs \ {"set_id"}, c \in Cids \cup {Null} : GotoWith(r, pc, c),
         \A a \in Srvs : servers'[a].cid \in {Null, servers[a].cid},
         \A a \in Srvs : inst'[a].cid \in {Null, inst[a].cid}
  PROVE  ClaimsKept
<1>1. /\ \A q \in Reqs \ {r} : req'[q] = req[q]
      /\ req'[r].pc # "set_id"
  BY ReplyType, GotoType, GotoWithType DEF TypeInv, TypeOK
<1>2. QED
  BY <1>1 DEF ClaimsKept

LEMMA ReadIDClaims ==
  ASSUME TypeInv, NEW r \in Reqs, NEW from \in ReqPcs \ NoSrvPcs,
         NEW none \in ReqPcs \ {"set_id"}, NEW some \in ReqPcs \ {"set_id"},
         ReadID(r, from, none, some)
  PROVE  ClaimsKept /\ UNCHANGED bootVars /\ req[r].pc # "idle"
<1> USE DEF ReadID, registryVars
<1>1. Srv(r).cid \in Cids \cup {Null} /\ req[r].pc # "idle"
  BY DEF At, TypeInv, TypeOK, Holds, RegistryTypeOK, Server, Srv, NoSrvPcs
<1>2. QED
  BY <1>1, HandlerClaims

LEMMA MarkClaims ==
  ASSUME TypeInv, NEW r \in Reqs, NEW from \in ReqPcs \ {"idle"},
         NEW state \in States, NEW to \in ReqPcs \ {"set_id"},
         Mark(r, from, state, to)
  PROVE  ClaimsKept /\ UNCHANGED bootVars /\ req[r].pc # "idle"
<1> USE DEF Mark
<1>1. \A a \in Srvs : servers'[a].cid = servers[a].cid
  BY SetStateType DEF TypeInv, TypeOK, RegistryTypeOK
<1>2. QED
  BY <1>1, HandlerClaims DEF At

LEMMA ClearIDClaims ==
  ASSUME TypeInv, NEW r \in Reqs, NEW from \in ReqPcs \ {"idle"},
         NEW to \in ReqPcs \ {"set_id"}, ClearID(r, from, to)
  PROVE  ClaimsKept /\ UNCHANGED bootVars /\ req[r].pc # "idle"
<1> USE DEF ClearID
<1>1. \A a \in Srvs : servers'[a].cid \in {Null, servers[a].cid}
  BY DEF SetContainerID, TypeInv, TypeOK, RegistryTypeOK, Server
<1>2. QED
  BY <1>1, HandlerClaims DEF At

\* A handler's step that leaves the objects as they are.
LEMMA StepClaims ==
  ASSUME TypeInv, NEW r \in Reqs, UNCHANGED <<servers, inst>>,
         \/ Reply(r)
         \/ \E pc \in ReqPcs \ {"set_id"} : Goto(r, pc)
         \/ \E pc \in ReqPcs \ {"set_id"}, c \in Cids \cup {Null} : GotoWith(r, pc, c)
  PROVE  ClaimsKept
  BY HandlerClaims

LEMMA CreateStepsClaims ==
  ASSUME TypeInv, NEW r \in Reqs, CreateDir(r) \/ SpawnInstaller(r)
  PROVE  ClaimsKept /\ UNCHANGED bootVars /\ req[r].pc # "idle"
<1> USE DEF registryVars, At
<1>1. CASE CreateDir(r)
  BY <1>1, StepClaims DEF CreateDir, ReqPcs
<1>2. CASE SpawnInstaller(r)
  <2>1. \A a \in Srvs : servers'[a].cid = servers[a].cid
    BY <1>2, SetStateType
       DEF SpawnInstaller, States, TypeInv, TypeOK, RegistryTypeOK
  <2>2. \A a \in Srvs : inst'[a].cid \in {Null, inst[a].cid}
    BY <1>2 DEF SpawnInstaller, TypeInv, TypeOK
  <2>3. QED
    BY <1>2, <2>1, <2>2, HandlerClaims DEF SpawnInstaller
<1>3. QED
  BY <1>1, <1>2

LEMMA DeleteStepsClaims ==
  ASSUME TypeInv, NEW r \in Reqs, DeleteSteps(r)
  PROVE  ClaimsKept /\ UNCHANGED bootVars /\ req[r].pc # "idle"
<1> USE DEF registryVars, At
<1>1. CASE DeleteReadID(r)
  BY <1>1, ReadIDClaims DEF DeleteReadID, ReqPcs, NoSrvPcs
<1>2. CASE DeleteStop(r) \/ DeleteRemove(r) \/ DeleteDir(r)
  BY <1>2, StepClaims DEF DeleteStop, DeleteRemove, DeleteDir, ReqPcs
<1>3. CASE DeleteEntry(r)
  <2>1. req[r].uuid \in UUIDs
    BY <1>3 DEF DeleteEntry, TypeInv, Holds
  <2>2. \A a \in Srvs : servers'[a].cid = servers[a].cid
    BY <1>3, <2>1, RemoveType DEF DeleteEntry, TypeInv, TypeOK
  <2>3. QED
    BY <1>3, <2>2, HandlerClaims DEF DeleteEntry
<1>4. QED
  BY <1>1, <1>2, <1>3 DEF DeleteSteps

LEMMA StartStepsClaims ==
  ASSUME TypeInv, NEW r \in Reqs, StartSteps(r), ~CreateContainer(r), ~StoreID(r)
  PROVE  ClaimsKept /\ UNCHANGED bootVars /\ req[r].pc # "idle"
<1> USE DEF registryVars
<1>0. StartPcs \subseteq ReqPcs \ NoSrvPcs /\ "idle" \in ReqPcs /\ "idle" \in NoSrvPcs
  BY DEF StartPcs, ReqPcs, NoSrvPcs
<1>1. CASE CheckInstalling(r) \/ PullImage(r) \/ RemoveStale(r)
  BY <1>0, <1>1, StepClaims DEF CheckInstalling, PullImage, RemoveStale, StartPcs, At
<1>2. CASE StartContainer(r) \/ SpawnWatch(r)
  BY <1>0, <1>2, StepClaims DEF StartContainer, SpawnWatch, StartPcs, At
<1>3. CASE StartReadID(r)
  BY <1>0, <1>3, ReadIDClaims DEF StartReadID, StartPcs
<1>4. CASE StartClear(r)
  BY <1>0, <1>4, ClearIDClaims DEF StartClear, StartPcs
<1>5. CASE SetStarting(r) \/ SetRunning(r) \/ StartFailed(r)
  BY <1>0, <1>5, MarkClaims DEF SetStarting, SetRunning, StartFailed, StartPcs, States
<1>6. QED
  BY <1>1, <1>2, <1>3, <1>4, <1>5 DEF StartSteps

LEMMA PowerStepsClaims ==
  ASSUME TypeInv, NEW r \in Reqs, PowerSteps(r)
  PROVE  ClaimsKept /\ UNCHANGED bootVars /\ req[r].pc # "idle"
<1> USE DEF registryVars
<1>0. {"stop_read", "stop_stopping", "stop_stop", "stop_offline", "re_read",
       "re_stopping", "re_stop", "re_remove", "re_clear", "kill_read",
       "kill_kill", "kill_crashed", "check"} \subseteq ReqPcs \ NoSrvPcs
      /\ "idle" \in ReqPcs /\ "idle" \in NoSrvPcs
  BY DEF StartPcs, ReqPcs, NoSrvPcs
<1>1. CASE StopReadID(r) \/ RestartReadID(r) \/ KillReadID(r)
  BY <1>0, <1>1, ReadIDClaims DEF StopReadID, RestartReadID, KillReadID
<1>2. CASE RestartClear(r)
  BY <1>0, <1>2, ClearIDClaims DEF RestartClear
<1>3. CASE StopContainer(r) \/ RestartStop(r) \/ RestartRemove(r) \/ KillContainer(r)
  BY <1>0, <1>3, StepClaims
     DEF StopContainer, RestartStop, RestartRemove, KillContainer, At
<1>4. CASE StopStopping(r) \/ RestartStopping(r) \/ StopOffline(r) \/ KillCrashed(r)
  BY <1>0, <1>4, MarkClaims
     DEF StopStopping, RestartStopping, StopOffline, KillCrashed, States
<1>5. QED
  BY <1>1, <1>2, <1>3, <1>4 DEF PowerSteps

LEMMA NewRequestClaims ==
  ASSUME TypeInv, NEW r \in Reqs, NewRequest(r)
  PROVE  ClaimsKept /\ UNCHANGED bootVars /\ daemon = "up"
<1>1. PICK u \in UUIDs : \/ CreateRequest(r, u)
                         \/ \E op \in {"delete", "start", "stop", "restart", "kill"} :
                              ServerRequest(r, u, op)
  BY DEF NewRequest
<1>2. UNCHANGED <<servers, inst, bootVars>> /\ daemon = "up"
  BY <1>1 DEF CreateRequest, ServerRequest, registryVars
<1>3. \A q \in Reqs \ {r} : req'[q] = req[q]
  BY <1>1 DEF CreateRequest, ServerRequest, TypeInv, TypeOK
<1>4. ASSUME NEW op \in {"delete", "start", "stop", "restart", "kill"},
             ServerRequest(r, u, op)
      PROVE  req'[r].pc # "set_id"
  <2>1. FirstPc(op) # "set_id"
    BY DEF FirstPc
  <2>2. QED
    BY <1>4, <2>1 DEF ServerRequest, TypeInv, TypeOK
<1>5. req'[r].pc # "set_id"
  <2>1. CASE CreateRequest(r, u)
    <3>1. req'[r].pc = "mkdir"
      BY <2>1 DEF CreateRequest, Idle, TypeInv, TypeOK
    <3>2. QED
      BY <3>1
  <2>2. QED
    BY <1>1, <1>4, <2>1
<1>6. QED
  BY <1>2, <1>3, <1>5 DEF ClaimsKept

-----------------------------------------------------------------------------
(* Steps that hand out a container, or an object to hold it                *)

\* A fresh container is in nobody's hands.
LEMMA FreshIsFree ==
  ASSUME NEW c \in Cids, Fresh(c)
  PROVE  /\ \A a \in Srvs : servers[a].cid = c => Unreachable(a)
         /\ \A q \in Reqs : req[q].cid # c
         /\ \A a \in Srvs : inst[a].cid # c
  BY DEF Fresh

LEMMA CreateContainerOwned ==
  ASSUME TypeInv, Owned, NEW r \in Reqs, CreateContainer(r)
  PROVE  Owned'
<1> USE DEF Owned, registryVars
<1>0. /\ daemon = "up" /\ daemon' = "up"
      /\ UNCHANGED <<servers, inst, bootVars>>
  BY UpWhenBusy DEF CreateContainer, At, bootVars
<1>1. "create" \in ReqPcs \ {"set_id"} /\ {"set_id", "crashed"} \subseteq ReqPcs
  BY DEF StartPcs, ReqPcs
<1>2. PointersKept
  BY StartStepsKeeps DEF StartSteps
<1>3. CASE Goto(r, "crashed")
  BY <1>0, <1>1, <1>2, <1>3, StepClaims, OwnedStep
<1>4. ASSUME NEW c \in Cids, Fresh(c), GotoWith(r, "set_id", c)
      PROVE  Owned'
  <2>1. \A a \in Srvs : Unreachable(a) => Unreachable(a)'
    BY <1>2, StaysUnreachable
  <2>2. SoleOwner'
    BY <1>0, <2>1 DEF SoleOwner
  <2>3. /\ \A q \in Reqs \ {r} : req'[q] = req[q]
        /\ req'[r].cid = c
    BY <1>1, <1>4, GotoWithType DEF TypeInv, TypeOK
  <2>4. OwnsStored'
    BY <1>0, <1>4, <2>1, <2>3, FreshIsFree DEF OwnsStored
  <2>5. RestoresOwn'
    BY <1>0 DEF RestoresOwn
  <2>6. QED
    BY <2>2, <2>4, <2>5
<1>5. QED
  BY <1>3, <1>4 DEF CreateContainer

LEMMA StoreIDOwned ==
  ASSUME TypeInv, Owned, NEW r \in Reqs, StoreID(r)
  PROVE  Owned'
<1> USE DEF Owned
<1> DEFINE s == req[r].srv
           c == req[r].cid
<1>0. daemon = "up" /\ daemon' = "up" /\ inst' = inst
  BY UpWhenBusy DEF StoreID, At, bootVars
<1>1. \A a \in Srvs : Unreachable(a) => Unreachable(a)'
  BY StartStepsKeeps, StaysUnreachable DEF StartSteps
<1>2. /\ c \in Cids
      /\ \A a \in Srvs : servers[a].cid = c => Unreachable(a)
      /\ \A a \in Srvs : inst[a].cid # c
      /\ \A q \in Reqs \ {r} : req[q].pc = "set_id" => req[q].cid # c
  BY DEF StoreID, At, OwnsStored
<1>3. /\ \A a \in Srvs : servers'[a].cid = IF a = s THEN c ELSE servers[a].cid
  BY DEF StoreID, SetContainerID, TypeInv, TypeOK, RegistryTypeOK, Server
<1>4. /\ \A q \in Reqs \ {r} : req'[q] = req[q]
      /\ req'[r].pc # "set_id"
  BY GotoType DEF StoreID, ReqPcs, StartPcs, TypeInv, TypeOK
<1> HIDE DEF s, c
<1>5. SoleOwner'
  <2>1. ASSUME NEW a \in Srvs, NEW b \in Srvs, a # b, servers'[a].cid # Null
        PROVE  servers'[a].cid # servers'[b].cid \/ Unreachable(a)' \/ Unreachable(b)'
    BY <1>1, <1>2, <1>3, <2>1 DEF SoleOwner
  <2>2. ASSUME NEW a \in Srvs, NEW b \in Srvs, inst'[a].cid # Null
        PROVE  inst'[a].cid # servers'[b].cid \/ Unreachable(b)'
    BY <1>0, <1>1, <1>2, <1>3, <2>2 DEF SoleOwner
  <2>3. QED
    BY <2>1, <2>2 DEF SoleOwner
<1>6. OwnsStored'
  BY <1>0, <1>1, <1>2, <1>3, <1>4 DEF OwnsStored
<1>7. RestoresOwn'
  BY <1>0 DEF RestoresOwn
<1>8. QED
  BY <1>5, <1>6, <1>7

\* A new object whose container, if it has one, nobody holds.
LEMMA AddOwners ==
  ASSUME TypeInv, SoleOwner, OwnsStored,
         NEW s \in Srvs, Unreachable(s), NEW server \in Server,
         server.uuid \in UUIDs, Add(s, server),
         server.cid # Null =>
           /\ \A a \in Srvs : servers[a].cid = server.cid => Unreachable(a)
           /\ \A a \in Srvs : inst[a].cid # server.cid
           /\ \A q \in Reqs : req[q].pc # "set_id",
         \A q \in Reqs : req'[q].srv \in {Null, s, req[q].srv},
         \A q \in Reqs : req'[q].pc = "set_id" =>
           req[q].pc = "set_id" /\ req'[q].cid = req[q].cid,
         watch' = watch, inst' = inst
  PROVE  /\ \A a \in Srvs \ {s} : servers'[a] = servers[a]
         /\ \A a \in Srvs \ {s} : Unreachable(a) => Unreachable(a)'
         /\ SoleOwner' /\ OwnsStored'
<1>1. /\ servers'[s] = server /\ registry'[server.uuid] = s
      /\ \A a \in Srvs \ {s} : servers'[a] = servers[a]
      /\ \A v \in UUIDs \ {server.uuid} : registry'[v] = registry[v]
  BY AddType DEF TypeInv, TypeOK
<1>2. ASSUME NEW a \in Srvs, a # s, Unreachable(a)
      PROVE  Unreachable(a)'
  BY <1>1, <1>2, NodeAssumption DEF Unreachable
<1>3. ASSUME NEW a \in Srvs, NEW b \in Srvs, a # b, servers'[a].cid # Null
      PROVE  servers'[a].cid # servers'[b].cid \/ Unreachable(a)' \/ Unreachable(b)'
  BY <1>1, <1>2, <1>3 DEF SoleOwner
<1>4. ASSUME NEW a \in Srvs, NEW b \in Srvs, inst'[a].cid # Null
      PROVE  inst'[a].cid # servers'[b].cid \/ Unreachable(b)'
  BY <1>1, <1>2, <1>4 DEF SoleOwner
<1>5. ASSUME NEW r \in Reqs, req'[r].pc = "set_id"
      PROVE  /\ req'[r].cid \in Cids
             /\ \A a \in Srvs : servers'[a].cid = req'[r].cid => Unreachable(a)'
             /\ \A a \in Srvs : inst'[a].cid # req'[r].cid
  BY <1>1, <1>2, <1>5, NodeAssumption DEF OwnsStored
<1>6. \A q, r \in Reqs :
        q # r /\ req'[q].pc = "set_id" /\ req'[r].pc = "set_id" =>
          req'[q].cid # req'[r].cid
  BY DEF OwnsStored
<1>7. QED
  BY <1>1, <1>2, <1>3, <1>4, <1>5, <1>6 DEF SoleOwner, OwnsStored

LEMMA AddServerOwned ==
  ASSUME TypeInv, Owned, NEW r \in Reqs, AddServer(r)
  PROVE  Owned'
<1> USE DEF Owned, registryVars, dockerVars
<1>0. /\ daemon = "up" /\ daemon' = "up" /\ UNCHANGED <<watch, inst, bootVars>>
  BY UpWhenBusy DEF AddServer, At, bootVars
<1>1. CASE Reply(r) /\ UNCHANGED registryVars
  BY <1>0, <1>1, StepKeeps, StepClaims, OwnedStep
<1>2. ASSUME NEW s \in Srvs, Unreachable(s), Add(s, New(req[r].uuid, TRUE)),
             Reply(r) \/ GotoHolding(r, "installing", s)
      PROVE  Owned'
  <2> DEFINE server == New(req[r].uuid, TRUE)
  <2>1. req[r].uuid \in UUIDs
    BY DEF AddServer, At, TypeInv, Holds
  <2>2. server \in Server /\ server.uuid \in UUIDs /\ server.cid = Null
    BY <2>1 DEF New, Server, States
  <2>3. /\ \A q \in Reqs : req'[q].srv \in {Null, s, req[q].srv}
        /\ \A q \in Reqs : req'[q].pc = "set_id" =>
             req[q].pc = "set_id" /\ req'[q].cid = req[q].cid
    BY <1>2 DEF Reply, Idle, GotoHolding, TypeInv, TypeOK, Request
  <2>4. Add(s, server)
    BY <1>2
  <2> HIDE DEF server
  <2>5. SoleOwner' /\ OwnsStored'
    BY <1>0, <1>2, <2>2, <2>3, <2>4, AddOwners
  <2>6. RestoresOwn'
    BY <1>0 DEF RestoresOwn
  <2>7. QED
    BY <2>5, <2>6
<1>3. QED
  BY <1>1, <1>2 DEF AddServer

\* The restore loop: the container of the turn is nobody's, and none of those
\* that are left.
LEMMA RestoreOwned ==
  ASSUME TypeInv, Owned, NEW u \in UUIDs, Restore(u)
  PROVE  Owned'
<1> USE DEF Owned
<1>1. PICK s \in Srvs, running \in BOOLEAN :
        /\ Unreachable(s)
        /\ Add(s, [New(u, FALSE) EXCEPT
                     !.cid = todo[u],
                     !.state = IF running THEN "running" ELSE "offline"])
  BY DEF Restore
<1> DEFINE server == [New(u, FALSE) EXCEPT
                        !.cid = todo[u],
                        !.state = IF running THEN "running" ELSE "offline"]
<1>2. /\ daemon = "restoring" /\ daemon' = "restoring"
      /\ todo[u] # Null /\ todo[u] \in Cids \cup {Null}
      /\ todo' = [todo EXCEPT ![u] = Null]
      /\ UNCHANGED <<req, watch, inst>>
  BY DEF Restore, dockerVars, TypeInv, TypeOK
<1>3. server \in Server /\ server.uuid \in UUIDs /\ server.cid = todo[u]
  BY <1>2 DEF New, Server, States
<1>4. Add(s, server)
  BY <1>1
<1> HIDE DEF server
<1>5. /\ \A r \in Reqs : req[r] = Idle
      /\ \A a \in Srvs : inst[a] = NoInstaller
      /\ \A v \in UUIDs : todo[v] # Null =>
           /\ \A w \in UUIDs \ {v} : todo[w] # todo[v]
           /\ \A a \in Srvs : servers[a].cid = todo[v] => Unreachable(a)
  BY <1>2 DEF RestoresOwn
<1>6. server.cid # Null =>
           /\ \A a \in Srvs : servers[a].cid = server.cid => Unreachable(a)
           /\ \A a \in Srvs : inst[a].cid # server.cid
           /\ \A q \in Reqs : req[q].pc # "set_id"
  BY <1>2, <1>3, <1>5 DEF NoInstaller, Idle
<1>7. /\ \A a \in Srvs \ {s} : servers'[a] = servers[a]
      /\ \A a \in Srvs \ {s} : Unreachable(a) => Unreachable(a)'
      /\ SoleOwner' /\ OwnsStored'
  BY <1>1, <1>2, <1>3, <1>4, <1>6, AddOwners
<1>8. servers'[s].cid = todo[u]
  BY <1>3, <1>4 DEF Add, TypeInv, TypeOK, RegistryTypeOK
<1>9. ASSUME NEW v \in UUIDs, todo'[v] # Null
      PROVE  /\ \A w \in UUIDs \ {v} : todo'[w] # todo'[v]
             /\ \A a \in Srvs : servers'[a].cid = todo'[v] => Unreachable(a)'
  <2>1. v # u /\ todo'[v] = todo[v] /\ todo[v] # todo[u]
    BY <1>2, <1>5, <1>9 DEF TypeInv, TypeOK
  <2>2. \A w \in UUIDs \ {v} : todo'[w] # todo'[v]
    BY <1>2, <1>5, <1>9, <2>1 DEF TypeInv, TypeOK
  <2>3. \A a \in Srvs : servers'[a].cid = todo'[v] => Unreachable(a)'
    BY <1>5, <1>7, <1>8, <1>9, <2>1
  <2>4. QED
    BY <2>2, <2>3
<1>10. RestoresOwn'
  BY <1>2, <1>5, <1>9 DEF RestoresOwn
<1>11. QED
  BY <1>7, <1>10

LEMMA DeleteEntryLoses ==
  ASSUME TypeInv, NEW r \in Reqs, DeleteEntry(r)
  PROVE  /\ \A u \in UUIDs : registry'[u] \in {Null, registry[u]}
         /\ \A a \in Srvs : Unreachable(a) => Unreachable(a)'
<1> USE DEF DeleteEntry, dockerVars
<1>1. req[r].uuid \in UUIDs /\ UNCHANGED <<watch, inst>>
  BY DEF At, TypeInv, Holds
<1>2. /\ \A q \in Reqs : req'[q].srv \in {Null, req[q].srv}
      /\ \A u \in UUIDs : registry'[u] \in {Null, registry[u]}
  BY <1>1, Moves, RemoveType DEF TypeInv, TypeOK
<1>3. QED
  BY <1>1, <1>2, NodeAssumption DEF Unreachable

\* A deregistered object keeps its container.
LEMMA DeleteEntryOwned ==
  ASSUME TypeInv, Owned, NEW r \in Reqs, DeleteEntry(r)
  PROVE  Owned'
<1>1. /\ ClaimsKept /\ UNCHANGED bootVars /\ daemon = "up"
  BY DeleteStepsClaims, UpWhenBusy DEF DeleteSteps, Owned, DeleteEntry
<1>2. QED
  BY <1>1, DeleteEntryLoses, OwnersStep, RestoresStep DEF Owned, ClaimsKept

-----------------------------------------------------------------------------
(* The goroutines, Docker and the daemon                                   *)

LEMMA InstallerOwned ==
  ASSUME TypeInv, Owned, NEW s \in Srvs, Installer(s) \/ StreamBreaks(s)
  PROVE  Owned'
<1> USE DEF Owned
<1>0. PointersKept
  BY InstallerKeeps
<1>1. /\ inst[s].pc # "none" /\ UNCHANGED <<req, bootVars>>
      /\ \A a \in Srvs : servers'[a].cid = servers[a].cid
      /\ \A a \in Srvs \ {s} : inst'[a] = inst[a]
  <2>1. /\ inst[s].pc # "none" /\ UNCHANGED <<req, bootVars>>
        /\ \A a \in Srvs \ {s} : inst'[a] = inst[a]
    BY DEF Installer, StreamBreaks, InstallPull, InstallCreate, InstallStart,
       InstallLogs, InstallWait, InstallKill, InstallRemove, InstallFinish,
       InstGoto, TypeInv, TypeOK
  <2>2. \A a \in Srvs : servers'[a].cid = servers[a].cid
    BY DEF Installer, StreamBreaks, InstallPull, InstallCreate, InstallStart,
       InstallLogs, InstallWait, InstallKill, InstallRemove, InstallFinish,
       SetState, registryVars, TypeInv, TypeOK, RegistryTypeOK, Server
  <2>3. QED
    BY <2>1, <2>2
<1>2. daemon = "up" /\ daemon' = "up"
  BY <1>1, UpWhenBusy DEF bootVars
<1>3. CASE inst'[s].cid \in {Null, inst[s].cid}
  <2>1. ClaimsKept
    BY <1>1, <1>3 DEF ClaimsKept
  <2>2. QED
    BY <1>0, <1>1, <1>2, <2>1, OwnedStep
<1>4. ASSUME NEW c \in Cids, Fresh(c), inst'[s].cid = c
      PROVE  Owned'
  <2>1. \A a \in Srvs : Unreachable(a) => Unreachable(a)'
    BY <1>0, StaysUnreachable
  <2>2. SoleOwner'
    <3>1. ASSUME NEW a \in Srvs, NEW b \in Srvs, inst'[a].cid # Null
          PROVE  inst'[a].cid # servers'[b].cid \/ Unreachable(b)'
      BY <1>1, <1>4, <2>1, <3>1, FreshIsFree DEF SoleOwner
    <3>2. QED
      BY <1>1, <2>1, <3>1 DEF SoleOwner
  <2>3. OwnsStored'
    BY <1>1, <1>4, <2>1, FreshIsFree DEF OwnsStored
  <2>4. RestoresOwn'
    BY <1>2 DEF RestoresOwn
  <2>5. QED
    BY <2>2, <2>3, <2>4
<1>5. \/ inst'[s].cid \in {Null, inst[s].cid}
      \/ \E c \in Cids : Fresh(c) /\ inst'[s].cid = c
  BY DEF Installer, StreamBreaks, InstallPull, InstallCreate, InstallStart,
     InstallLogs, InstallWait, InstallKill, InstallRemove, InstallFinish,
     InstGoto, NoInstaller, TypeInv, TypeOK, Install
<1>6. QED
  BY <1>3, <1>4, <1>5

\* Watchers and Docker claim nothing.
LEMMA WatcherOwned ==
  ASSUME TypeInv, Owned, NEW c \in Cids,
         \/ Watcher(c) \/ WaitBreaks(c)
         \/ \E code \in Codes : ContainerExit(c, code)
  PROVE  Owned'
<1>1. PointersKept
  BY WatcherKeeps, ContainerExitKeeps
<1>2. UNCHANGED <<req, inst, bootVars>>
  BY DEF Watcher, WaitBreaks, WatchExit, WatchError, WatchFailed, WatchCancelled,
     ContainerExit
<1>3. \A a \in Srvs : servers'[a].cid = servers[a].cid
  BY DEF Watcher, WaitBreaks, WatchExit, WatchError, WatchFailed, WatchCancelled,
     ContainerExit, SetState, registryVars, TypeInv, TypeOK, RegistryTypeOK, Server
<1>4. ClaimsKept
  BY <1>2, <1>3 DEF ClaimsKept
<1>5. QED
  BY <1>1, <1>2, <1>4, OwnedStep

\* RestoreContainerMap finds no container twice: the label gives its UUID.
LEMMA BootOwned ==
  ASSUME TypeInv, Owned, Boot
  PROVE  Owned'
<1> USE DEF Owned, registryVars, dockerVars
<1>1. /\ daemon = "down" /\ daemon' = "restoring"
      /\ UNCHANGED <<registry, servers, req, inst, watch>>
  BY DEF Boot
<1>2. SoleOwner' /\ OwnsStored'
  BY <1>1 DEF SoleOwner, OwnsStored, Unreachable
<1>3. ASSUME NEW u \in UUIDs, todo'[u] # Null
      PROVE  /\ todo'[u] \in Cids /\ containers[todo'[u]].uuid = u
             /\ \A s \in Srvs : servers'[s].cid # todo'[u]
  <2>1. todo'[u] \in Managed(u)
    BY <1>3 DEF Boot
  <2>2. QED
    BY <1>1, <1>3, <2>1 DEF Managed, RestoresOwn
<1>4. RestoresOwn'
  BY <1>1, <1>3 DEF RestoresOwn
<1>5. QED
  BY <1>2, <1>4

LEMMA ServeOwned ==
  ASSUME Owned, Serve
  PROVE  Owned'
<1> USE DEF Owned, Serve, registryVars, dockerVars
<1>1. SoleOwner' /\ OwnsStored'
  BY DEF SoleOwner, OwnsStored, Unreachable
<1>2. QED
  BY <1>1 DEF RestoresOwn

\* Nothing is held when the process is gone.
LEMMA NothingOwned ==
  ASSUME \A r \in Reqs : req[r] = Idle,
         \A s \in Srvs : inst[s] = NoInstaller /\ servers[s].cid = Null,
         daemon = "down"
  PROVE  Owned
<1>1. SoleOwner
  BY DEF SoleOwner, NoInstaller
<1>2. OwnsStored
  BY DEF OwnsStored, Idle
<1>3. RestoresOwn
  BY DEF RestoresOwn
<1>4. QED
  BY <1>1, <1>2, <1>3 DEF Owned

LEMMA ShutdownOwned ==
  ASSUME Shutdown
  PROVE  Owned'
<1>1. /\ \A r \in Reqs : req'[r] = Idle
      /\ \A s \in Srvs : inst'[s] = NoInstaller /\ servers'[s].cid = Null
      /\ daemon' = "down"
  BY DEF Shutdown, NoServer, New
<1>2. SoleOwner'
  BY <1>1 DEF SoleOwner, NoInstaller
<1>3. OwnsStored'
  BY <1>1 DEF OwnsStored, Idle
<1>4. RestoresOwn'
  BY <1>1 DEF RestoresOwn
<1>5. QED
  BY <1>2, <1>3, <1>4 DEF Owned

-----------------------------------------------------------------------------

\* Steps of handlers that hand out nothing.
LEMMA HandlerClaimsKept ==
  ASSUME TypeInv, RestoresOwn, NEW r \in Reqs, NewRequest(r) \/ Handler(r),
         ~AddServer(r), ~CreateContainer(r), ~StoreID(r)
  PROVE  ClaimsKept /\ UNCHANGED bootVars /\ daemon = "up"
<1>1. CASE NewRequest(r)
  BY <1>1, NewRequestClaims
<1>2. CASE Handler(r)
  <2>1. ClaimsKept /\ UNCHANGED bootVars /\ req[r].pc # "idle"
    BY <1>2, CreateStepsClaims, DeleteStepsClaims, StartStepsClaims,
       PowerStepsClaims DEF Handler, CreateSteps
  <2>2. QED
    BY <2>1, UpWhenBusy
<1>3. QED
  BY <1>1, <1>2

LEMMA HandlerPointersKept ==
  ASSUME TypeInv, NEW r \in Reqs, NewRequest(r) \/ Handler(r),
         ~AddServer(r), ~DeleteEntry(r)
  PROVE  PointersKept
  BY NewRequestKeeps, CreateStepsKeeps, DeleteStepsKeeps, StartStepsKeeps,
     PowerStepsKeeps DEF Handler, CreateSteps, DeleteSteps

LEMMA HandlerOwned ==
  ASSUME TypeInv, Owned, NEW r \in Reqs, NewRequest(r) \/ Handler(r),
         ~AddServer(r), ~DeleteEntry(r), ~CreateContainer(r), ~StoreID(r)
  PROVE  Owned'
  BY HandlerClaimsKept, HandlerPointersKept, OwnedStep DEF Owned

LEMMA OwnedNext == TypeInv /\ Owned /\ [Next]_vars => Owned'
<1> SUFFICES ASSUME TypeInv, Owned, [Next]_vars PROVE Owned'
  OBVIOUS
<1>1. CASE \E r \in Reqs : NewRequest(r) \/ Handler(r)
  BY <1>1, HandlerOwned, AddServerOwned, DeleteEntryOwned, CreateContainerOwned,
     StoreIDOwned
<1>2. CASE \E s \in Srvs : Installer(s) \/ StreamBreaks(s)
  BY <1>2, InstallerOwned
<1>3. CASE \E c \in Cids : \/ Watcher(c) \/ WaitBreaks(c)
                           \/ \E code \in Codes : ContainerExit(c, code)
  BY <1>3, WatcherOwned
<1>4. CASE DaemonStart
  BY <1>4, BootOwned, ServeOwned, RestoreOwned DEF DaemonStart
<1>5. CASE Shutdown
  BY <1>5, ShutdownOwned
<1>6. CASE UNCHANGED vars
  <2>1. SoleOwner' /\ OwnsStored'
    BY <1>6 DEF Owned, SoleOwner, OwnsStored, Unreachable, vars
  <2>2. RestoresOwn'
    BY <1>6 DEF Owned, RestoresOwn, Unreachable, vars
  <2>3. QED
    BY <2>1, <2>2 DEF Owned
<1>7. QED
  BY <1>1, <1>2, <1>3, <1>4, <1>5, <1>6 DEF Next

LEMMA OwnedInit == Init => Owned
  BY NothingOwned DEF Init, RegistryInit, NoServer, New

\* No container is in the hands of two Server objects, or of an object and an
\* install goroutine (servers.go:262, docker/manager.go:289 and :376).
THEOREM SoleOwnerCorrect == Spec => []SoleOwner
<1>1. Owned => SoleOwner
  BY DEF Owned
<1>2. QED
  BY <1>1, OwnedInit, TypeInit, TypeNext, OwnedNext, PTL DEF Spec

-----------------------------------------------------------------------------
(***************************************************************************)
(* The power states of Lifecycle tell the truth, for every instance:       *)
(* PassingStatesOwned and RunningAliveOrTold of LifecycleProps.            *)
(*                                                                         *)
(* The first is inductive given the types.  The second is not: a watcher   *)
(* reports only what it is told, so the container it is spawned for must   *)
(* be known to be a game container of the server's UUID that nobody else   *)
(* watches, and a kill by an installer must be known to hit no game.       *)
(***************************************************************************)

\* Where the handler of a start may be while the state is "starting".
Starting == {"pull", "create", "set_id", "run", "running", "crashed"}

\* Where the handler of a start has a container of its own, not watched yet.
Created == {"set_id", "run", "running", "watch"}

\* The container of a start under way is a game container of the request's
\* UUID unless Docker lost it, is watched by nobody, and is this start's alone.
OwnsCreated ==
  /\ \A r \in Reqs : req[r].pc \in Created =>
       LET c == req[r].cid IN
         /\ c \in Cids
         /\ watch[c].got = "none"
         /\ Exists(c) => Game(c) /\ containers[c].uuid = req[r].uuid
  /\ \A q, r \in Reqs :
       q # r /\ req[q].pc \in Created /\ req[r].pc \in Created =>
         req[q].cid # req[r].cid

\* An install goroutine kills and removes install containers only.
InstallersInstall ==
  \A s \in Srvs :
    Exists(inst[s].cid) => containers[inst[s].cid].kind = "install"

\* No watcher, no server watched over.
IdleWatchers == \A c \in Cids : watch[c].got = "none" => watch[c].srv = Null

\* With TypeInv, the inductive invariant behind RunningAliveOrTold.
Alive == RunningAliveOrTold /\ OwnsCreated /\ InstallersInstall /\ IdleWatchers

-----------------------------------------------------------------------------
(* PassingStatesOwned                                                      *)

\* A step keeps the owners of passing states, or ends these states.
LEMMA PassingStep ==
  ASSUME PassingStatesOwned,
         \A a \in Srvs : \/ servers'[a].state = servers[a].state
                         \/ servers'[a].state \notin {"starting", "installing"},
         \A q \in Reqs : req[q].pc \in Starting =>
           \/ req'[q].pc \in Starting /\ req'[q].srv = req[q].srv
           \/ servers'[req[q].srv].state # "starting",
         \A a \in Srvs : inst[a].pc # "none" =>
           inst'[a].pc # "none" \/ servers'[a].state # "installing"
  PROVE  PassingStatesOwned'
<1>1. ASSUME NEW s \in Srvs, servers'[s].state = "starting"
      PROVE  HandlerOn(s, Starting)'
  <2>1. PICK q \in Reqs : req[q].srv = s /\ req[q].pc \in Starting
    BY <1>1 DEF PassingStatesOwned, HandlerOn, Starting
  <2>2. req'[q].pc \in Starting /\ req'[q].srv = s
    BY <1>1, <2>1
  <2>3. QED
    BY <2>2 DEF HandlerOn
<1>2. ASSUME NEW s \in Srvs, servers'[s].state = "installing"
      PROVE  inst'[s].pc # "none"
  BY <1>2 DEF PassingStatesOwned
<1>3. QED
  BY <1>1, <1>2 DEF PassingStatesOwned, Starting

\* The steps of a request that set no state.
LEMMA HandlerPassing ==
  ASSUME PassingStatesOwned, NEW r \in Reqs,
         \A q \in Reqs \ {r} : req'[q] = req[q],
         req[r].pc \in Starting =>
           req'[r].pc \in Starting /\ req'[r].srv = req[r].srv,
         \A a \in Srvs : servers'[a].state = servers[a].state,
         inst' = inst
  PROVE  PassingStatesOwned'
<1>1. \A q \in Reqs : req[q].pc \in Starting =>
        req'[q].pc \in Starting /\ req'[q].srv = req[q].srv
  OBVIOUS
<1>2. QED
  BY <1>1, PassingStep

\* A state set on the way: "starting" by a handler that stays to answer for it.
LEMMA MarkPassing ==
  ASSUME TypeInv, PassingStatesOwned, NEW r \in Reqs, NEW from \in ReqPcs \ NoSrvPcs,
         NEW state \in States \ {"installing"}, NEW to \in ReqPcs,
         state = "starting" => to \in Starting,
         Mark(r, from, state, to)
  PROVE  PassingStatesOwned'
<1> USE DEF Mark
<1> DEFINE s == req[r].srv
<1>1. s \in Srvs /\ inst' = inst
  BY DEF At, TypeInv, Holds
<1>2. /\ \A q \in Reqs \ {r} : req'[q] = req[q]
      /\ to # "idle" => req'[r].pc = to /\ req'[r].srv = s
  BY GotoType, ReplyType DEF TypeInv, TypeOK
<1>3. /\ \A a \in Srvs \ {s} : servers'[a] = servers[a]
      /\ servers'[s].state = state
  BY <1>1, SetStateType DEF TypeInv, TypeOK, RegistryTypeOK
<1>4. ASSUME NEW a \in Srvs, servers'[a].state = "starting"
      PROVE  HandlerOn(a, Starting)'
  <2>1. CASE a = s
    BY <1>2, <1>3, <1>4, <2>1 DEF HandlerOn, Starting
  <2>2. CASE a # s
    <3>1. PICK q \in Reqs : req[q].srv = a /\ req[q].pc \in Starting
      BY <1>3, <1>4, <2>2 DEF PassingStatesOwned, HandlerOn, Starting
    <3>2. req'[q] = req[q]
      BY <1>2, <2>2, <3>1
    <3>3. QED
      BY <3>1, <3>2 DEF HandlerOn
  <2>3. QED
    BY <2>1, <2>2
<1>5. ASSUME NEW a \in Srvs, servers'[a].state = "installing"
      PROVE  inst'[a].pc # "none"
  BY <1>1, <1>3, <1>5 DEF PassingStatesOwned
<1>6. QED
  BY <1>4, <1>5 DEF PassingStatesOwned, Starting

LEMMA ReadIDPassing ==
  ASSUME TypeInv, PassingStatesOwned, NEW r \in Reqs,
         NEW from \in ReqPcs \ Starting, NEW none \in ReqPcs, NEW some \in ReqPcs,
         ReadID(r, from, none, some)
  PROVE  PassingStatesOwned'
<1> USE DEF ReadID, registryVars, At
<1>1. \A q \in Reqs \ {r} : req'[q] = req[q]
  BY DEF Reply, Goto, GotoWith, TypeInv, TypeOK
<1>2. QED
  BY <1>1, HandlerPassing

LEMMA ClearIDPassing ==
  ASSUME TypeInv, PassingStatesOwned, NEW r \in Reqs,
         NEW from \in ReqPcs \ Starting, NEW to \in ReqPcs, ClearID(r, from, to)
  PROVE  PassingStatesOwned'
<1> USE DEF ClearID, At
<1>1. \A q \in Reqs \ {r} : req'[q] = req[q]
  BY DEF GotoWith, TypeInv, TypeOK
<1>2. \A a \in Srvs : servers'[a].state = servers[a].state
  BY SetContainerIDType, NodeAssumption DEF TypeInv, TypeOK, RegistryTypeOK
<1>3. QED
  BY <1>1, <1>2, HandlerPassing

LEMMA AddServerPassing ==
  ASSUME TypeInv, PassingStatesOwned, NEW r \in Reqs, AddServer(r)
  PROVE  PassingStatesOwned'
<1> USE DEF AddServer, registryVars
<1>1. /\ \A q \in Reqs \ {r} : req'[q] = req[q]
      /\ req[r].pc \notin Starting
  BY DEF Reply, GotoHolding, TypeInv, TypeOK, At, Starting
<1>2. CASE servers' = servers
  BY <1>1, <1>2, HandlerPassing
<1>3. ASSUME NEW s \in Srvs, Add(s, New(req[r].uuid, TRUE))
      PROVE  PassingStatesOwned'
  <2>1. /\ \A a \in Srvs \ {s} : servers'[a] = servers[a]
        /\ servers'[s].state = "offline"
    BY <1>3 DEF Add, New, TypeInv, TypeOK, RegistryTypeOK
  <2>2. QED
    BY <1>1, <2>1, PassingStep
<1>4. QED
  BY <1>2, <1>3

LEMMA SpawnInstallerPassing ==
  ASSUME TypeInv, PassingStatesOwned, NEW r \in Reqs, SpawnInstaller(r)
  PROVE  PassingStatesOwned'
<1> USE DEF SpawnInstaller
<1> DEFINE s == req[r].srv
<1>1. /\ \A q \in Reqs \ {r} : req'[q] = req[q]
      /\ req[r].pc \notin Starting
      /\ s \in Srvs
  BY DEF Reply, TypeInv, TypeOK, Holds, NoSrvPcs, At, Starting
<1>2. /\ \A a \in Srvs \ {s} : servers'[a] = servers[a] /\ inst'[a] = inst[a]
      /\ servers'[s].state = "installing" /\ inst'[s].pc = "pull"
  BY <1>1 DEF SetState, TypeInv, TypeOK, RegistryTypeOK, Server
<1>3. ASSUME NEW a \in Srvs, servers'[a].state = "starting"
      PROVE  HandlerOn(a, Starting)'
  <2>1. PICK q \in Reqs : req[q].srv = a /\ req[q].pc \in Starting
    BY <1>2, <1>3 DEF PassingStatesOwned, HandlerOn, Starting
  <2>2. req'[q] = req[q]
    BY <1>1, <2>1
  <2>3. QED
    BY <2>1, <2>2 DEF HandlerOn
<1>4. ASSUME NEW a \in Srvs, servers'[a].state = "installing"
      PROVE  inst'[a].pc # "none"
  BY <1>2, <1>4 DEF PassingStatesOwned
<1>5. QED
  BY <1>3, <1>4 DEF PassingStatesOwned, Starting

LEMMA NewRequestPassing ==
  ASSUME TypeInv, PassingStatesOwned, NEW r \in Reqs, NewRequest(r)
  PROVE  PassingStatesOwned'
<1>1. /\ req[r].pc = "idle"
      /\ \A q \in Reqs \ {r} : req'[q] = req[q]
      /\ UNCHANGED <<servers, inst>>
  BY DEF NewRequest, CreateRequest, ServerRequest, At, registryVars, TypeInv,
     TypeOK
<1>2. QED
  BY <1>1, HandlerPassing DEF Starting

LEMMA DeleteStepsPassing ==
  ASSUME TypeInv, PassingStatesOwned, NEW r \in Reqs, DeleteSteps(r)
  PROVE  PassingStatesOwned'
<1> USE DEF registryVars, At, Starting
<1>1. CASE DeleteReadID(r)
  BY <1>1, ReadIDPassing DEF DeleteReadID, ReqPcs
<1>2. CASE DeleteStop(r) \/ DeleteRemove(r) \/ DeleteDir(r)
  <2>1. /\ \A q \in Reqs \ {r} : req'[q] = req[q]
        /\ req[r].pc \notin Starting /\ UNCHANGED <<servers, inst>>
    BY <1>2 DEF DeleteStop, DeleteRemove, DeleteDir, Goto, TypeInv, TypeOK
  <2>2. QED
    BY <2>1, HandlerPassing
<1>3. CASE DeleteEntry(r)
  <2>1. /\ \A q \in Reqs \ {r} : req'[q] = req[q]
        /\ req[r].pc \notin Starting /\ req[r].uuid \in UUIDs /\ inst' = inst
    BY <1>3 DEF DeleteEntry, Reply, TypeInv, TypeOK, Holds
  <2>2. \A a \in Srvs : servers'[a].state = servers[a].state
    BY <1>3, <2>1, RemoveType DEF DeleteEntry, TypeInv, TypeOK
  <2>3. QED
    BY <2>1, <2>2, HandlerPassing
<1>4. QED
  BY <1>1, <1>2, <1>3 DEF DeleteSteps

LEMMA StartStepsPassing ==
  ASSUME TypeInv, PassingStatesOwned, NEW r \in Reqs, StartSteps(r)
  PROVE  PassingStatesOwned'
<1> USE DEF registryVars, At
<1>0. /\ StartPcs \subseteq ReqPcs \ NoSrvPcs /\ "idle" \in ReqPcs
      /\ Starting \subseteq StartPcs
  BY DEF StartPcs, ReqPcs, NoSrvPcs, Starting
<1>1. CASE CheckInstalling(r) \/ RemoveStale(r) \/ SpawnWatch(r)
  <2>1. /\ \A q \in Reqs \ {r} : req'[q] = req[q]
        /\ req[r].pc \notin Starting /\ UNCHANGED <<servers, inst>>
    BY <1>1 DEF CheckInstalling, RemoveStale, SpawnWatch, Goto, Reply, TypeInv,
       TypeOK, Starting
  <2>2. QED
    BY <2>1, HandlerPassing
<1>2. CASE StartReadID(r)
  BY <1>0, <1>2, ReadIDPassing DEF StartReadID, StartPcs, Starting
<1>3. CASE StartClear(r)
  BY <1>0, <1>3, ClearIDPassing DEF StartClear, StartPcs, Starting
<1>4. CASE PullImage(r) \/ CreateContainer(r) \/ StartContainer(r)
  <2>1. UNCHANGED <<servers, inst>>
    BY <1>4 DEF PullImage, CreateContainer, StartContainer
  <2>2. PICK pc \in Starting, c \in Cids \cup {Null} :
          Goto(r, pc) \/ GotoWith(r, pc, c)
    BY <1>4 DEF PullImage, CreateContainer, StartContainer, Starting
  <2>3. /\ \A q \in Reqs \ {r} : req'[q] = req[q]
        /\ req'[r].pc = pc /\ req'[r].srv = req[r].srv
    BY <1>0, <2>2, GotoType, GotoWithType DEF TypeInv, TypeOK
  <2>4. QED
    BY <2>1, <2>3, HandlerPassing
<1>5. CASE StoreID(r)
  <2>1. /\ \A q \in Reqs \ {r} : req'[q] = req[q]
        /\ req'[r].pc = "run" /\ req'[r].srv = req[r].srv /\ inst' = inst
    BY <1>0, <1>5, GotoType DEF StoreID, StartPcs, TypeInv, TypeOK
  <2>2. req[r].cid \in Cids \cup {Null}
    BY DEF TypeInv, TypeOK, Request
  <2>3. \A a \in Srvs : servers'[a].state = servers[a].state
    BY <1>5, <2>2, SetContainerIDType
       DEF StoreID, TypeInv, TypeOK, RegistryTypeOK
  <2>4. QED
    BY <2>1, <2>3, HandlerPassing DEF Starting
<1>6. CASE SetStarting(r)
  BY <1>0, <1>6, MarkPassing DEF SetStarting, StartPcs, States, Starting
<1>7. CASE SetRunning(r)
  BY <1>0, <1>7, MarkPassing DEF SetRunning, StartPcs, States
<1>8. CASE StartFailed(r)
  BY <1>0, <1>8, MarkPassing DEF StartFailed, StartPcs, States
<1>9. QED
  BY <1>1, <1>2, <1>3, <1>4, <1>5, <1>6, <1>7, <1>8 DEF StartSteps

LEMMA PowerStepsPassing ==
  ASSUME TypeInv, PassingStatesOwned, NEW r \in Reqs, PowerSteps(r)
  PROVE  PassingStatesOwned'
<1> USE DEF registryVars, dockerVars, At
<1>0. {"stop_read", "stop_stopping", "stop_stop", "stop_offline", "re_read",
       "re_stopping", "re_stop", "re_remove", "re_clear", "kill_read",
       "kill_kill", "kill_crashed", "check"} \subseteq (ReqPcs \ NoSrvPcs) \ Starting
      /\ "idle" \in ReqPcs
  BY DEF StartPcs, ReqPcs, NoSrvPcs, Starting
<1>1. CASE StopReadID(r) \/ RestartReadID(r) \/ KillReadID(r)
  BY <1>0, <1>1, ReadIDPassing DEF StopReadID, RestartReadID, KillReadID
<1>2. CASE RestartClear(r)
  BY <1>0, <1>2, ClearIDPassing DEF RestartClear
<1>3. CASE StopContainer(r) \/ RestartStop(r) \/ RestartRemove(r) \/ KillContainer(r)
  <2>1. /\ \A q \in Reqs \ {r} : req'[q] = req[q]
        /\ req[r].pc \notin Starting /\ UNCHANGED <<servers, inst>>
    BY <1>0, <1>3 DEF StopContainer, RestartStop, RestartRemove, KillContainer,
       Goto, Reply, TypeInv, TypeOK
  <2>2. QED
    BY <2>1, HandlerPassing
<1>4. CASE StopStopping(r) \/ RestartStopping(r)
  BY <1>0, <1>4, MarkPassing DEF StopStopping, RestartStopping, States
<1>5. CASE StopOffline(r) \/ KillCrashed(r)
  BY <1>0, <1>5, MarkPassing DEF StopOffline, KillCrashed, States
<1>6. QED
  BY <1>1, <1>2, <1>3, <1>4, <1>5 DEF PowerSteps

LEMMA InstallerPassing ==
  ASSUME TypeInv, PassingStatesOwned, NEW s \in Srvs,
         Installer(s) \/ StreamBreaks(s)
  PROVE  PassingStatesOwned'
<1>1. /\ req' = req
      /\ \A a \in Srvs \ {s} : inst'[a] = inst[a] /\ servers'[a] = servers[a]
  BY DEF Installer, StreamBreaks, InstallPull, InstallCreate, InstallStart,
     InstallLogs, InstallWait, InstallKill, InstallRemove, InstallFinish, InstGoto,
     SetState, registryVars, TypeInv, TypeOK, RegistryTypeOK
<1>2. CASE InstallFinish(s)
  <2>1. servers'[s].state \notin {"starting", "installing"}
    BY <1>2 DEF InstallFinish, SetState, TypeInv, TypeOK, RegistryTypeOK, Server
  <2>2. QED
    BY <1>1, <2>1, PassingStep
<1>3. CASE ~InstallFinish(s)
  <2>1. servers' = servers /\ inst'[s].pc # "none"
    BY <1>3 DEF Installer, StreamBreaks, InstallPull, InstallCreate, InstallStart,
       InstallLogs, InstallWait, InstallKill, InstallRemove, InstGoto, registryVars,
       TypeInv, TypeOK, Install
  <2>2. QED
    BY <1>1, <2>1, PassingStep
<1>4. QED
  BY <1>2, <1>3

LEMMA WatcherPassing ==
  ASSUME TypeInv, PassingStatesOwned, NEW c \in Cids, Watcher(c) \/ WaitBreaks(c)
  PROVE  PassingStatesOwned'
<1>1. req' = req /\ inst' = inst
  BY DEF Watcher, WaitBreaks, WatchExit, WatchError, WatchFailed, WatchCancelled
<1>2. \A a \in Srvs : \/ servers'[a].state = servers[a].state
                      \/ servers'[a].state \notin {"starting", "installing"}
  BY DEF Watcher, WaitBreaks, WatchExit, WatchError, WatchFailed, WatchCancelled,
     SetState, registryVars, TypeInv, TypeOK, RegistryTypeOK, Server
<1>3. QED
  BY <1>1, <1>2, PassingStep

\* What the restore loop puts into the registry has no image.
LEMMA RestoreEffect ==
  ASSUME TypeInv, NEW u \in UUIDs, Restore(u)
  PROVE  /\ \E s \in Srvs :
              /\ \A a \in Srvs \ {s} : servers'[a] = servers[a]
              /\ servers'[s].state \in {"running", "offline"}
              /\ ~servers'[s].image
         /\ UNCHANGED <<containers, watch, req, inst>>
<1>1. PICK s \in Srvs, running \in BOOLEAN :
        Add(s, [New(u, FALSE) EXCEPT
                  !.cid = todo[u],
                  !.state = IF running THEN "running" ELSE "offline"])
  BY DEF Restore
<1> DEFINE server == [New(u, FALSE) EXCEPT
                        !.cid = todo[u],
                        !.state = IF running THEN "running" ELSE "offline"]
<1>2. server.state \in {"running", "offline"} /\ ~server.image
  BY DEF New
<1>3. servers' = [servers EXCEPT ![s] = server]
  BY <1>1 DEF Add
<1> HIDE DEF server
<1>4. servers \in [Srvs -> Server]
  BY DEF TypeInv, TypeOK, RegistryTypeOK
<1>5. QED
  BY <1>2, <1>3, <1>4 DEF Restore, dockerVars

LEMMA DaemonStartPassing ==
  ASSUME TypeInv, PassingStatesOwned, DaemonStart
  PROVE  PassingStatesOwned'
<1>1. req' = req /\ inst' = inst
  BY DEF DaemonStart, Boot, Restore, Serve
<1>2. \A a \in Srvs : \/ servers'[a].state = servers[a].state
                      \/ servers'[a].state \notin {"starting", "installing"}
  BY RestoreEffect DEF DaemonStart, Boot, Serve, registryVars
<1>3. QED
  BY <1>1, <1>2, PassingStep

LEMMA PassingNext == TypeInv /\ PassingStatesOwned /\ [Next]_vars => PassingStatesOwned'
<1> SUFFICES ASSUME TypeInv, PassingStatesOwned, [Next]_vars
             PROVE  PassingStatesOwned'
  OBVIOUS
<1>1. ASSUME NEW r \in Reqs, NewRequest(r) \/ Handler(r)
      PROVE  PassingStatesOwned'
  <2>1. CASE CreateDir(r)
    <3>1. /\ \A q \in Reqs \ {r} : req'[q] = req[q]
          /\ req[r].pc \notin Starting /\ UNCHANGED <<servers, inst>>
      BY <2>1 DEF CreateDir, Goto, Reply, At, Starting, registryVars, TypeInv,
         TypeOK
    <3>2. QED
      BY <3>1, HandlerPassing
  <2>2. QED
    BY <1>1, <2>1, NewRequestPassing, AddServerPassing, SpawnInstallerPassing,
       DeleteStepsPassing, StartStepsPassing, PowerStepsPassing
       DEF Handler, CreateSteps
<1>2. CASE \E s \in Srvs : Installer(s) \/ StreamBreaks(s)
  BY <1>2, InstallerPassing
<1>3. CASE \E c \in Cids : Watcher(c) \/ WaitBreaks(c)
  BY <1>3, WatcherPassing
<1>4. CASE DaemonStart
  BY <1>4, DaemonStartPassing
<1>5. CASE Shutdown
  BY <1>5 DEF Shutdown, NoServer, New, PassingStatesOwned
<1>6. CASE UNCHANGED <<req, servers, inst>>
  BY <1>6 DEF PassingStatesOwned, HandlerOn
<1>7. CASE \E c \in Cids, code \in Codes : ContainerExit(c, code)
  BY <1>6, <1>7 DEF ContainerExit, registryVars
<1>8. CASE UNCHANGED vars
  BY <1>6, <1>8 DEF vars
<1>9. QED
  BY <1>1, <1>2, <1>3, <1>4, <1>5, <1>7, <1>8 DEF Next

\* A server is shown "starting" only while a start is under way that will end
\* this, and "installing" only while its install goroutine lives.
THEOREM PassingCorrect == Spec => []PassingStatesOwned
<1>1. Init => PassingStatesOwned
  BY DEF Init, RegistryInit, NoServer, New, PassingStatesOwned
<1>2. QED
  BY <1>1, TypeInit, TypeNext, PassingNext, PTL DEF Spec

-----------------------------------------------------------------------------
(* RunningAliveOrTold: the steps in general                                *)

\* A server whose being shown as running must be justified.
Claims(s) ==
  servers[s].state = "running" /\ servers[s].image /\ ~servers[s].cancelled

\* Docker at most loses containers, and tells whoever waits for one.
DockerLoses ==
  \A c \in Cids :
    /\ Exists(c)' => /\ Exists(c)
                     /\ containers'[c].kind = containers[c].kind
                     /\ containers'[c].uuid = containers[c].uuid
    /\ Game(c) /\ IsRunning(c) /\ watch[c].got = "waiting" =>
         IsRunning(c)' \/ watch'[c].got \in Codes
    /\ watch'[c].srv = watch[c].srv
    /\ \/ watch'[c].got = watch[c].got
       \/ watch[c].got = "waiting" /\ watch'[c].got \in Codes

\* No server begins to claim that it runs, or a handler answers for it.
NoNewClaims ==
  \A s \in Srvs : Claims(s)' =>
    \/ Claims(s) /\ servers'[s].uuid = servers[s].uuid
    \/ HandlerOn(s, {"watch"})'

\* Handlers keep what they created, and stay until they spawn the watcher.
HandlersKeep ==
  \A r \in Reqs :
    /\ req[r].pc = "watch" => req'[r].pc = "watch" /\ req'[r].srv = req[r].srv
    /\ req'[r].pc \in Created =>
         /\ req[r].pc \in Created
         /\ req'[r].cid = req[r].cid /\ req'[r].uuid = req[r].uuid

LEMMA OwnsKept ==
  ASSUME TypeInv, OwnsCreated, HandlersKeep,
         \A c \in Cids : watch[c].got = "none" => watch'[c].got = "none",
         \A c \in Cids : Exists(c)' => /\ Exists(c)
                                       /\ containers'[c].kind = containers[c].kind
                                       /\ containers'[c].uuid = containers[c].uuid
  PROVE  OwnsCreated'
<1>1. ASSUME NEW r \in Reqs, req'[r].pc \in Created,
             NEW c, c = req'[r].cid
      PROVE  /\ c \in Cids
             /\ watch'[c].got = "none"
             /\ Exists(c)' => Game(c)' /\ containers'[c].uuid = req'[r].uuid
  <2>1. req[r].pc \in Created /\ c = req[r].cid /\ req'[r].uuid = req[r].uuid
    BY <1>1 DEF HandlersKeep
  <2>2. /\ c \in Cids /\ watch[c].got = "none"
        /\ Exists(c) => Game(c) /\ containers[c].uuid = req[r].uuid
    BY <2>1 DEF OwnsCreated
  <2>3. QED
    BY <2>1, <2>2 DEF Game
<1>2. ASSUME NEW q \in Reqs, NEW r \in Reqs, q # r,
             req'[q].pc \in Created, req'[r].pc \in Created
      PROVE  req'[q].cid # req'[r].cid
  BY <1>2 DEF OwnsCreated, HandlersKeep
<1>3. QED
  BY <1>1, <1>2 DEF OwnsCreated, Game, Exists

\* The witness of a claim survives a step that only loses containers.
LEMMA RunningKept ==
  ASSUME TypeInv, RunningAliveOrTold, IdleWatchers, NoNewClaims, HandlersKeep,
         DockerLoses
  PROVE  RunningAliveOrTold'
<1> SUFFICES ASSUME NEW s \in Srvs, Claims(s)', ~HandlerOn(s, {"watch"})'
             PROVE  \E c \in Cids :
                      /\ watch'[c].srv = s
                      /\ \/ watch'[c].got \in Codes
                         \/ /\ IsRunning(c)' /\ Game(c)'
                            /\ containers'[c].uuid = servers'[s].uuid
  BY DEF RunningAliveOrTold, Claims
<1>1. Claims(s) /\ servers'[s].uuid = servers[s].uuid
  BY DEF NoNewClaims
<1>2. ~HandlerOn(s, {"watch"})
  BY DEF HandlerOn, HandlersKeep
<1>3. PICK c \in Cids :
        /\ watch[c].srv = s
        /\ \/ watch[c].got \in Codes
           \/ /\ IsRunning(c) /\ Game(c)
              /\ containers[c].uuid = servers[s].uuid
  BY <1>1, <1>2 DEF RunningAliveOrTold, Claims
<1>4. watch'[c].srv = s
  BY <1>3 DEF DockerLoses
<1>5. CASE watch[c].got \in Codes
  BY <1>4, <1>5 DEF DockerLoses, Codes
<1>6. CASE watch[c].got \notin Codes
  <2>1. watch[c].got = "waiting"
    BY <1>3, <1>6, NodeAssumption DEF IdleWatchers, TypeInv, TypeOK, Watch
  <2>2. IsRunning(c)' \/ watch'[c].got \in Codes
    BY <1>3, <1>6, <2>1 DEF DockerLoses
  <2>3. IsRunning(c)' => Game(c)' /\ containers'[c].uuid = servers'[s].uuid
    BY <1>1, <1>3, <1>6 DEF DockerLoses, IsRunning, Exists, Game
  <2>4. QED
    BY <1>4, <2>2, <2>3
<1>7. QED
  BY <1>5, <1>6

\* Most steps: no new claim, handlers keep, Docker at most loses.
LEMMA AliveStep ==
  ASSUME TypeInv, Alive, NoNewClaims, HandlersKeep, DockerLoses,
         \A s \in Srvs : inst'[s].cid \in {inst[s].cid, Null}
  PROVE  Alive'
<1>1. OwnsCreated'
  BY OwnsKept DEF Alive, DockerLoses
<1>2. InstallersInstall'
  BY NodeAssumption DEF Alive, InstallersInstall, DockerLoses, Exists
<1>3. IdleWatchers'
  BY DEF Alive, IdleWatchers, DockerLoses, Codes
<1>4. QED
  BY <1>1, <1>2, <1>3, RunningKept DEF Alive

\* The steps of one request among them.
LEMMA HandlerAlive ==
  ASSUME TypeInv, Alive, NEW r \in Reqs, req[r].pc # "watch",
         \A q \in Reqs \ {r} : req'[q] = req[q],
         req'[r].pc \in Created =>
           /\ req[r].pc \in Created
           /\ req'[r].cid = req[r].cid /\ req'[r].uuid = req[r].uuid,
         NoNewClaims, DockerLoses, inst' = inst
  PROVE  Alive'
<1>1. HandlersKeep
  BY DEF HandlersKeep, Created
<1>2. QED
  BY <1>1, AliveStep

-----------------------------------------------------------------------------
(* What Docker's answers leave                                             *)

LEMMA UnchangedLoses ==
  ASSUME UNCHANGED <<containers, watch>> PROVE DockerLoses
  BY DEF DockerLoses, Exists, IsRunning

LEMMA HaltLoses ==
  ASSUME TypeInv, NEW c, NEW code \in Codes, ContainerHalt(c, code), Tell(c, code)
  PROVE  DockerLoses
<1>1. /\ \A d \in Cids \ {c} : containers'[d] = containers[d] /\ watch'[d] = watch[d]
      /\ \A d \in Cids : /\ containers'[d].kind = containers[d].kind
                         /\ containers'[d].uuid = containers[d].uuid
                         /\ Exists(d)' <=> Exists(d)
  BY HaltType, TellType DEF TypeInv, TypeOK
<1>2. \A d \in Cids : /\ watch'[d].srv = watch[d].srv
                      /\ \/ watch'[d].got = watch[d].got
                         \/ watch[d].got = "waiting" /\ watch'[d].got \in Codes
  BY TellType DEF TypeInv, TypeOK
<1>3. c \in Cids /\ IsRunning(c) /\ watch[c].got = "waiting" => watch'[c].got \in Codes
  BY DEF Tell, TypeInv, TypeOK, Watch
<1>4. QED
  BY <1>1, <1>2, <1>3 DEF DockerLoses, IsRunning

LEMMA RemoveLoses ==
  ASSUME TypeInv, NEW c, RemoveCall(c) PROVE DockerLoses
<1>1. c \in Cids /\ ContainerRemove(c) /\ Tell(c, "nonzero")
  BY DEF RemoveCall, Exists
<1>2. /\ \A d \in Cids \ {c} : containers'[d] = containers[d] /\ watch'[d] = watch[d]
      /\ ~Exists(c)'
  BY <1>1, RemovalType, TellType, NodeAssumption
     DEF TypeInv, TypeOK, Codes, Exists, NoContainer
<1>3. \A d \in Cids : /\ watch'[d].srv = watch[d].srv
                      /\ \/ watch'[d].got = watch[d].got
                         \/ watch[d].got = "waiting" /\ watch'[d].got \in Codes
  BY <1>1, TellType DEF TypeInv, TypeOK, Codes
<1>4. IsRunning(c) /\ watch[c].got = "waiting" => watch'[c].got \in Codes
  BY <1>1 DEF Tell, TypeInv, TypeOK, Watch, Codes
<1>5. \A d \in Cids \ {c} : /\ Exists(d)' <=> Exists(d)
                            /\ IsRunning(d)' <=> IsRunning(d)
  BY <1>2 DEF Exists, IsRunning
<1>6. QED
  BY <1>1, <1>2, <1>3, <1>4, <1>5 DEF DockerLoses

LEMMA StopLoses ==
  ASSUME TypeInv, NEW c, StopCall(c) PROVE DockerLoses
  BY HaltLoses DEF StopCall

LEMMA FailLoses ==
  ASSUME NEW c, CallFails(c) PROVE DockerLoses
  BY UnchangedLoses DEF CallFails

LEMMA StartLoses ==
  ASSUME TypeInv, NEW c, Exists(c), ContainerStart(c), watch' = watch
  PROVE  DockerLoses
<1>1. /\ c \in Cids
      /\ \A d \in Cids \ {c} : containers'[d] = containers[d]
      /\ containers'[c].status = "running"
      /\ containers'[c].kind = containers[c].kind
      /\ containers'[c].uuid = containers[c].uuid
  BY StartType DEF Exists, TypeInv, TypeOK
<1>2. QED
  BY <1>1 DEF DockerLoses, Exists, IsRunning

-----------------------------------------------------------------------------
(* RunningAliveOrTold: the steps of a request                              *)

LEMMA SameClaims ==
  ASSUME \A a \in Srvs : /\ servers'[a].state = servers[a].state
                         /\ servers'[a].image = servers[a].image
                         /\ servers'[a].uuid = servers[a].uuid
                         /\ servers[a].cancelled => servers'[a].cancelled
  PROVE  NoNewClaims
  BY DEF NoNewClaims, Claims

LEMMA MarkAlive ==
  ASSUME TypeInv, Alive, NEW r \in Reqs,
         NEW from \in ReqPcs \ (NoSrvPcs \cup {"watch"}),
         NEW state \in States, NEW to \in ReqPcs,
         state = "running" => to = "watch",
         to \in Created => from \in Created,
         Mark(r, from, state, to)
  PROVE  Alive'
<1> USE DEF Mark, At
<1> DEFINE s == req[r].srv
<1>1. /\ s \in Srvs /\ inst' = inst /\ DockerLoses
  BY UnchangedLoses DEF TypeInv, Holds, dockerVars
<1>2. /\ \A q \in Reqs \ {r} : req'[q] = req[q]
      /\ \/ req'[r].pc = "idle"
         \/ /\ req'[r].pc = to /\ req'[r].srv = s
            /\ req'[r].cid = req[r].cid /\ req'[r].uuid = req[r].uuid
      /\ to # "idle" => req'[r].pc = to
  BY GotoType, ReplyType DEF TypeInv, TypeOK
<1>3. /\ \A a \in Srvs \ {s} : servers'[a] = servers[a]
      /\ servers'[s].state = state
  BY <1>1, SetStateType DEF TypeInv, TypeOK, RegistryTypeOK
<1>4. NoNewClaims
  <2> SUFFICES ASSUME NEW a \in Srvs, Claims(a)'
               PROVE  \/ Claims(a) /\ servers'[a].uuid = servers[a].uuid
                      \/ HandlerOn(a, {"watch"})'
    BY DEF NoNewClaims
  <2>1. CASE a = s
    <3>1. req'[r].pc = "watch" /\ req'[r].srv = s
      BY <1>2, <1>3, <2>1 DEF Claims
    <3>2. QED
      BY <2>1, <3>1 DEF HandlerOn
  <2>2. CASE a # s
    BY <1>3, <2>2 DEF Claims
  <2>3. QED
    BY <2>1, <2>2
<1>5. req'[r].pc \in Created =>
        /\ req[r].pc \in Created
        /\ req'[r].cid = req[r].cid /\ req'[r].uuid = req[r].uuid
  BY <1>2 DEF Created
<1>6. QED
  BY <1>1, <1>2, <1>4, <1>5, HandlerAlive

LEMMA ReadIDAlive ==
  ASSUME TypeInv, Alive, NEW r \in Reqs,
         NEW from \in ReqPcs \ (NoSrvPcs \cup {"watch"}),
         NEW none \in ReqPcs \ Created, NEW some \in ReqPcs \ Created,
         ReadID(r, from, none, some)
  PROVE  Alive'
<1> USE DEF ReadID, At
<1>1. Srv(r).cid \in Cids \cup {Null}
  BY DEF TypeInv, TypeOK, Holds, RegistryTypeOK, Server, Srv
<1>2. /\ \A q \in Reqs \ {r} : req'[q] = req[q]
      /\ req'[r].pc \notin Created
  BY <1>1, GotoType, GotoWithType, ReplyType DEF TypeInv, TypeOK, Created
<1>3. DockerLoses /\ NoNewClaims
  BY UnchangedLoses, SameClaims DEF dockerVars, registryVars
<1>4. QED
  BY <1>2, <1>3, HandlerAlive

LEMMA ClearIDAlive ==
  ASSUME TypeInv, Alive, NEW r \in Reqs,
         NEW from \in ReqPcs \ (NoSrvPcs \cup {"watch"}),
         NEW to \in ReqPcs \ Created, ClearID(r, from, to)
  PROVE  Alive'
<1> USE DEF ClearID, At
<1>1. /\ \A q \in Reqs \ {r} : req'[q] = req[q]
      /\ req'[r].pc \notin Created
  BY GotoWithType DEF TypeInv, TypeOK
<1>2. NoNewClaims
  BY SetContainerIDType, SameClaims DEF TypeInv, TypeOK, RegistryTypeOK
<1>3. DockerLoses
  BY UnchangedLoses DEF dockerVars
<1>4. QED
  BY <1>1, <1>2, <1>3, HandlerAlive

\* A Docker call of a handler that then goes where it holds nothing new.
LEMMA CallAlive ==
  ASSUME TypeInv, Alive, NEW r \in Reqs, req[r].pc # "watch",
         \A q \in Reqs \ {r} : req'[q] = req[q],
         req'[r].pc \notin Created,
         DockerLoses, UNCHANGED <<servers, inst>>
  PROVE  Alive'
  BY SameClaims, HandlerAlive

LEMMA CreateStepsAlive ==
  ASSUME TypeInv, Alive, NEW r \in Reqs, CreateSteps(r)
  PROVE  Alive'
<1> USE DEF registryVars, dockerVars, At, Created
<1>1. CASE CreateDir(r)
  <2>1. /\ \A q \in Reqs \ {r} : req'[q] = req[q]
        /\ req'[r].pc \in {"add", "idle"} /\ req[r].pc = "mkdir"
    BY <1>1, GotoType, ReplyType DEF CreateDir, ReqPcs, TypeInv, TypeOK
  <2>2. QED
    BY <1>1, <2>1, UnchangedLoses, CallAlive DEF CreateDir
<1>2. CASE AddServer(r)
  <2>1. "installing" \in ReqPcs
    BY DEF ReqPcs
  <2>2. /\ \A q \in Reqs \ {r} : req'[q] = req[q]
        /\ req'[r].pc \in {"installing", "idle"} /\ req[r].pc = "add"
    BY <1>2, <2>1, GotoHoldingType, ReplyType DEF AddServer, TypeInv, TypeOK
  <2>3. NoNewClaims
    <3>1. CASE servers' = servers
      BY <3>1, SameClaims
    <3>2. ASSUME NEW s \in Srvs, Add(s, New(req[r].uuid, TRUE))
          PROVE  NoNewClaims
      <4>1. /\ \A a \in Srvs \ {s} : servers'[a] = servers[a]
            /\ servers'[s].state = "offline"
        BY <3>2 DEF Add, New, TypeInv, TypeOK, RegistryTypeOK
      <4>2. QED
        BY <4>1 DEF NoNewClaims, Claims
    <3>3. QED
      BY <1>2, <3>1, <3>2 DEF AddServer
  <2>4. QED
    BY <1>2, <2>2, <2>3, UnchangedLoses, HandlerAlive DEF AddServer
<1>3. CASE SpawnInstaller(r)
  <2>1. /\ \A q \in Reqs \ {r} : req'[q] = req[q]
        /\ req'[r].pc = "idle" /\ req[r].pc = "installing"
    BY <1>3, ReplyType DEF SpawnInstaller, TypeInv, TypeOK
  <2>2. NoNewClaims
    <3>1. /\ \A a \in Srvs \ {req[r].srv} : servers'[a] = servers[a]
          /\ req[r].srv \in Srvs => servers'[req[r].srv].state = "installing"
      BY <1>3, SetStateType
         DEF SpawnInstaller, States, TypeInv, TypeOK, RegistryTypeOK
    <3>2. QED
      BY <3>1 DEF NoNewClaims, Claims
  <2>3. \A s \in Srvs : inst'[s].cid \in {inst[s].cid, Null}
    BY <1>3 DEF SpawnInstaller, TypeInv, TypeOK, Install
  <2>4. HandlersKeep
    BY <2>1 DEF HandlersKeep
  <2>5. QED
    BY <1>3, <2>2, <2>3, <2>4, UnchangedLoses, AliveStep DEF SpawnInstaller
<1>4. QED
  BY <1>1, <1>2, <1>3 DEF CreateSteps

LEMMA NewRequestAlive ==
  ASSUME TypeInv, Alive, NEW r \in Reqs, NewRequest(r)
  PROVE  Alive'
<1>1. /\ \A q \in Reqs \ {r} : req'[q] = req[q]
      /\ req[r].pc = "idle"
      /\ UNCHANGED <<containers, watch, servers, inst>>
  BY DEF NewRequest, CreateRequest, ServerRequest, At, registryVars, dockerVars,
     TypeInv, TypeOK
<1>2. ASSUME NEW u \in UUIDs, CreateRequest(r, u) PROVE req'[r].pc = "mkdir"
  BY <1>2 DEF CreateRequest, Idle, TypeInv, TypeOK
<1>3. ASSUME NEW u \in UUIDs, NEW op \in {"delete", "start", "stop", "restart", "kill"},
             ServerRequest(r, u, op)
      PROVE  req'[r].pc \in {"del_read", "check", "stop_read", "re_read", "kill_read"}
  <2>1. req'[r].pc = FirstPc(op)
    BY <1>3 DEF ServerRequest, TypeInv, TypeOK
  <2>2. QED
    BY <2>1 DEF FirstPc
<1>4. req'[r].pc \notin Created
  BY <1>2, <1>3 DEF NewRequest, Created
<1>5. QED
  BY <1>1, <1>4, UnchangedLoses, CallAlive

LEMMA DeleteStepsAlive ==
  ASSUME TypeInv, Alive, NEW r \in Reqs, DeleteSteps(r)
  PROVE  Alive'
<1> USE DEF registryVars, dockerVars, At
<1>0. {"del_read", "del_stop", "del_remove", "del_dir", "del_entry"}
        \subseteq ReqPcs \ (NoSrvPcs \cup Created) /\ "idle" \notin Created
  BY DEF ReqPcs, NoSrvPcs, Created
<1>1. CASE DeleteReadID(r)
  BY <1>0, <1>1, ReadIDAlive DEF DeleteReadID, Created
<1>2. CASE DeleteStop(r)
  BY <1>0, <1>2, GotoType, StopLoses, FailLoses, CallAlive
     DEF DeleteStop, TypeInv, TypeOK, Created
<1>3. CASE DeleteRemove(r)
  BY <1>0, <1>3, GotoType, RemoveLoses, FailLoses, CallAlive
     DEF DeleteRemove, TypeInv, TypeOK, Created
<1>4. CASE DeleteDir(r)
  BY <1>0, <1>4, GotoType, UnchangedLoses, CallAlive
     DEF DeleteDir, TypeInv, TypeOK, Created
<1>5. CASE DeleteEntry(r)
  <2>1. req[r].pc = "del_entry" /\ req[r].uuid \in UUIDs
    BY <1>5 DEF DeleteEntry, TypeInv, Holds
  <2>2. NoNewClaims
    BY <1>5, <2>1, RemoveType, SameClaims DEF DeleteEntry, TypeInv, TypeOK
  <2>3. QED
    BY <1>0, <1>5, <2>1, <2>2, ReplyType, UnchangedLoses, HandlerAlive
       DEF DeleteEntry, TypeInv, TypeOK
<1>6. QED
  BY <1>1, <1>2, <1>3, <1>4, <1>5 DEF DeleteSteps

LEMMA PowerStepsAlive ==
  ASSUME TypeInv, Alive, NEW r \in Reqs, PowerSteps(r)
  PROVE  Alive'
<1> USE DEF registryVars, dockerVars, At
<1>0. /\ {"stop_read", "stop_stopping", "stop_stop", "stop_offline", "re_read",
          "re_stopping", "re_stop", "re_remove", "re_clear", "kill_read",
          "kill_kill", "kill_crashed", "check"}
           \subseteq (ReqPcs \ (NoSrvPcs \cup {"watch"})) \ Created
      /\ "idle" \in ReqPcs \ Created
  BY DEF StartPcs, ReqPcs, NoSrvPcs, Created
<1>1. CASE StopReadID(r) \/ RestartReadID(r) \/ KillReadID(r)
  BY <1>0, <1>1, ReadIDAlive DEF StopReadID, RestartReadID, KillReadID
<1>2. CASE RestartClear(r)
  BY <1>0, <1>2, ClearIDAlive DEF RestartClear
<1>3. CASE StopContainer(r)
  BY <1>0, <1>3, GotoType, ReplyType, StopLoses, FailLoses, CallAlive
     DEF StopContainer, TypeInv, TypeOK
<1>4. CASE RestartStop(r)
  BY <1>0, <1>4, GotoType, StopLoses, FailLoses, CallAlive
     DEF RestartStop, TypeInv, TypeOK
<1>5. CASE RestartRemove(r)
  BY <1>0, <1>5, GotoType, RemoveLoses, FailLoses, CallAlive
     DEF RestartRemove, TypeInv, TypeOK
<1>6. CASE KillContainer(r)
  <2>1. DockerLoses
    BY <1>6, HaltLoses, UnchangedLoses DEF KillContainer, Codes
  <2>2. QED
    BY <1>0, <1>6, <2>1, GotoType, CallAlive DEF KillContainer, TypeInv, TypeOK
<1>7. CASE StopStopping(r) \/ RestartStopping(r)
  BY <1>0, <1>7, MarkAlive DEF StopStopping, RestartStopping, States
<1>8. CASE StopOffline(r) \/ KillCrashed(r)
  BY <1>0, <1>8, MarkAlive DEF StopOffline, KillCrashed, States
<1>9. QED
  BY <1>1, <1>2, <1>3, <1>4, <1>5, <1>6, <1>7, <1>8 DEF PowerSteps

\* A container made under a fresh identifier is nobody's witness.
LEMMA RunningCreates ==
  ASSUME RunningAliveOrTold, NEW c \in Cids, watch[c].got = "none", ~IsRunning(c),
         \A d \in Cids \ {c} : containers'[d] = containers[d],
         \A r \in Reqs : req[r].pc = "watch" => req'[r] = req[r],
         UNCHANGED <<watch, servers>>
  PROVE  RunningAliveOrTold'
<1> SUFFICES ASSUME NEW s \in Srvs, Claims(s)', ~HandlerOn(s, {"watch"})'
             PROVE  \E d \in Cids :
                      /\ watch'[d].srv = s
                      /\ \/ watch'[d].got \in Codes
                         \/ /\ IsRunning(d)' /\ Game(d)'
                            /\ containers'[d].uuid = servers'[s].uuid
  BY DEF RunningAliveOrTold, Claims
<1>1. Claims(s) /\ ~HandlerOn(s, {"watch"})
  BY DEF Claims, HandlerOn
<1>2. PICK d \in Cids :
        /\ watch[d].srv = s
        /\ \/ watch[d].got \in Codes
           \/ IsRunning(d) /\ Game(d) /\ containers[d].uuid = servers[s].uuid
  BY <1>1 DEF RunningAliveOrTold, Claims
<1>3. d # c
  BY <1>2 DEF Codes
<1>4. containers'[d] = containers[d]
  BY <1>3
<1>5. QED
  BY <1>2, <1>4 DEF IsRunning, Game, Exists

LEMMA CreateContainerAlive ==
  ASSUME TypeInv, Alive, NEW r \in Reqs, CreateContainer(r)
  PROVE  Alive'
<1> USE DEF registryVars, At
<1>0. {"set_id", "crashed"} \subseteq ReqPcs
  BY DEF StartPcs, ReqPcs
<1>1. CASE Goto(r, "crashed") /\ UNCHANGED containers
  BY <1>0, <1>1, GotoType, UnchangedLoses, CallAlive
     DEF CreateContainer, Created, TypeInv, TypeOK
<1>2. ASSUME NEW c \in Cids, Fresh(c), ContainerCreate(c, "game", Srv(r).uuid),
             GotoWith(r, "set_id", c)
      PROVE  Alive'
  <2>1. /\ req[r].pc = "create" /\ Srv(r).uuid = req[r].uuid
        /\ Srv(r).uuid \in UUIDs \cup {Null}
        /\ UNCHANGED <<watch, servers, inst>>
    BY DEF CreateContainer, Srv, TypeInv, TypeOK, RegistryTypeOK, Server, Holds,
       NoSrvPcs
  <2>2. /\ \A d \in Cids \ {c} : containers'[d] = containers[d]
        /\ containers'[c].kind = "game" /\ containers'[c].uuid = req[r].uuid
    <3>1. PICK u \in UUIDs \cup {Null} :
            u = req[r].uuid /\ ContainerCreate(c, "game", u)
      BY <1>2, <2>1
    <3>2. "game" \in Kinds
      BY DEF Kinds
    <3>3. /\ \A d \in Cids \ {c} : containers'[d] = containers[d]
          /\ containers'[c] = [status |-> "created", kind |-> "game", uuid |-> u,
                               code |-> "zero"]
      BY <3>1, <3>2, CreateType DEF TypeInv, TypeOK
    <3>4. QED
      BY <3>1, <3>3
  <2>3. /\ \A q \in Reqs \ {r} : req'[q] = req[q]
        /\ req'[r].pc = "set_id" /\ req'[r].cid = c /\ req'[r].uuid = req[r].uuid
    BY <1>0, <1>2, GotoWithType DEF TypeInv, TypeOK
  <2>4. /\ watch[c].got = "none" /\ ~Exists(c) /\ ~IsRunning(c)
        /\ \A q \in Reqs : req[q].cid # c
        /\ \A s \in Srvs : inst[s].cid # c
    BY <1>2 DEF Fresh, NoWatch, Exists, IsRunning
  <2>5. RunningAliveOrTold'
    BY <2>1, <2>2, <2>3, <2>4, RunningCreates DEF Alive
  <2>6. OwnsCreated'
    <3>1. ASSUME NEW q \in Reqs, req'[q].pc \in Created, NEW d, d = req'[q].cid
          PROVE  /\ d \in Cids /\ watch'[d].got = "none"
                 /\ Exists(d)' => Game(d)' /\ containers'[d].uuid = req'[q].uuid
      <4>1. CASE q = r
        BY <2>1, <2>2, <2>3, <2>4, <3>1, <4>1 DEF Game
      <4>2. CASE q # r
        <5>1. req'[q] = req[q]
          BY <2>3, <4>2
        <5>2. /\ d \in Cids /\ watch[d].got = "none" /\ d # c
              /\ Exists(d) => Game(d) /\ containers[d].uuid = req[q].uuid
          BY <2>4, <3>1, <5>1 DEF Alive, OwnsCreated
        <5>3. containers'[d] = containers[d]
          BY <2>2, <5>2
        <5>4. QED
          BY <2>1, <5>1, <5>2, <5>3 DEF Game, Exists
      <4>3. QED
        BY <4>1, <4>2
    <3>2. ASSUME NEW p \in Reqs, NEW q \in Reqs, p # q,
                 req'[p].pc \in Created, req'[q].pc \in Created
          PROVE  req'[p].cid # req'[q].cid
      BY <2>3, <2>4, <3>2 DEF Alive, OwnsCreated
    <3>3. QED
      BY <3>1, <3>2 DEF OwnsCreated, Game, Exists
  <2>7. InstallersInstall'
    BY <2>1, <2>2, <2>4 DEF Alive, InstallersInstall, Exists
  <2>8. IdleWatchers'
    BY <2>1 DEF Alive, IdleWatchers
  <2>9. QED
    BY <2>5, <2>6, <2>7, <2>8 DEF Alive
<1>3. QED
  BY <1>1, <1>2 DEF CreateContainer

LEMMA SpawnWatchAlive ==
  ASSUME TypeInv, Alive, NEW r \in Reqs, SpawnWatch(r)
  PROVE  Alive'
<1> USE DEF registryVars, At
<1>1. PICK c : c = req[r].cid
  OBVIOUS
<1>2. /\ req[r].pc = "watch" /\ req[r].srv \in Srvs
      /\ servers[req[r].srv].uuid = req[r].uuid
      /\ UNCHANGED <<containers, servers, inst>>
  BY DEF SpawnWatch, TypeInv, Holds, NoSrvPcs
<1>3. /\ c \in Cids /\ watch[c].got = "none" /\ watch[c].srv = Null
      /\ Exists(c) => Game(c) /\ containers[c].uuid = req[r].uuid
      /\ \A q \in Reqs \ {r} : req[q].pc \in Created => req[q].cid # c
  BY <1>1, <1>2 DEF Alive, OwnsCreated, IdleWatchers, Created
<1>4. /\ \A q \in Reqs \ {r} : req'[q] = req[q]
      /\ req'[r].pc = "idle"
  BY ReplyType DEF SpawnWatch, TypeInv, TypeOK
<1>5. /\ \A d \in Cids \ {c} : watch'[d] = watch[d]
      /\ watch'[c].srv = req[r].srv
      /\ watch'[c].got = CASE IsRunning(c) -> "waiting"
                           [] Exists(c) /\ ~IsRunning(c) -> containers[c].code
                           [] OTHER -> "nonzero"
  BY <1>1, <1>3 DEF SpawnWatch, TypeInv, TypeOK
<1>6. IF IsRunning(c) THEN watch'[c].got = "waiting" ELSE watch'[c].got \in Codes
  <2>1. CASE IsRunning(c)
    BY <1>5, <2>1
  <2>2. CASE ~IsRunning(c) /\ Exists(c)
    <3>1. containers[c].code \in Codes
      BY <1>3 DEF TypeInv, TypeOK, DockerTypeOK, Container
    <3>2. QED
      BY <1>5, <2>2, <3>1
  <2>3. CASE ~IsRunning(c) /\ ~Exists(c)
    BY <1>5, <2>3 DEF Codes
  <2>4. QED
    BY <2>1, <2>2, <2>3
<1>7. ASSUME NEW s \in Srvs, Claims(s)', ~HandlerOn(s, {"watch"})'
      PROVE  \E d \in Cids :
               /\ watch'[d].srv = s
               /\ \/ watch'[d].got \in Codes
                  \/ /\ IsRunning(d)' /\ Game(d)'
                     /\ containers'[d].uuid = servers'[s].uuid
  <2>1. CASE s = req[r].srv
    <3>1. IsRunning(c) => Game(c) /\ containers[c].uuid = servers[s].uuid
      BY <1>2, <1>3, <2>1 DEF IsRunning, Exists
    <3>2. IsRunning(c)' = IsRunning(c) /\ Game(c)' = Game(c)
      BY <1>2 DEF IsRunning, Game, Exists
    <3>3. QED
      BY <1>2, <1>3, <1>5, <1>6, <2>1, <3>1, <3>2
  <2>2. CASE s # req[r].srv
    <3>1. Claims(s) /\ ~HandlerOn(s, {"watch"})
      BY <1>2, <1>4, <1>7, <2>2 DEF Claims, HandlerOn
    <3>2. PICK d \in Cids :
            /\ watch[d].srv = s
            /\ \/ watch[d].got \in Codes
               \/ IsRunning(d) /\ Game(d) /\ containers[d].uuid = servers[s].uuid
      BY <3>1 DEF RunningAliveOrTold, Claims, Alive
    <3>3. d # c
      BY <1>3, <3>2, NodeAssumption
    <3>4. QED
      BY <1>2, <1>5, <3>2, <3>3 DEF IsRunning, Game, Exists
  <2>3. QED
    BY <2>1, <2>2
<1>8. RunningAliveOrTold'
  BY <1>7 DEF RunningAliveOrTold, Claims
<1>9. OwnsCreated'
  <2>1. ASSUME NEW q \in Reqs, req'[q].pc \in Created
        PROVE  req'[q] = req[q] /\ req[q].cid # c /\ q # r
    BY <1>3, <1>4, <2>1 DEF Created
  <2>2. ASSUME NEW q \in Reqs, req'[q].pc \in Created, NEW d, d = req'[q].cid
        PROVE  /\ d \in Cids /\ watch'[d].got = "none"
               /\ Exists(d)' => Game(d)' /\ containers'[d].uuid = req'[q].uuid
    <3>1. req'[q] = req[q] /\ d # c
      BY <2>1, <2>2
    <3>2. /\ d \in Cids /\ watch[d].got = "none"
          /\ Exists(d) => Game(d) /\ containers[d].uuid = req[q].uuid
      BY <2>2, <3>1 DEF Alive, OwnsCreated
    <3>3. QED
      BY <1>2, <1>5, <3>1, <3>2 DEF Game, Exists
  <2>3. ASSUME NEW p \in Reqs, NEW q \in Reqs, p # q,
               req'[p].pc \in Created, req'[q].pc \in Created
        PROVE  req'[p].cid # req'[q].cid
    BY <2>1, <2>3 DEF Alive, OwnsCreated
  <2>4. QED
    BY <2>2, <2>3 DEF OwnsCreated, Game, Exists
<1>10. InstallersInstall'
  BY <1>2 DEF Alive, InstallersInstall, Exists
<1>11. IdleWatchers'
  BY <1>3, <1>5, <1>6 DEF Alive, IdleWatchers, Codes
<1>12. QED
  BY <1>8, <1>9, <1>10, <1>11 DEF Alive

LEMMA StartStepsAlive ==
  ASSUME TypeInv, Alive, NEW r \in Reqs, StartSteps(r)
  PROVE  Alive'
<1> USE DEF registryVars, dockerVars, At
<1>0. /\ StartPcs \subseteq ReqPcs \ NoSrvPcs /\ "idle" \in ReqPcs \ Created
      /\ Created \subseteq StartPcs
      /\ {"check", "read", "remove_stale", "clear", "starting", "pull", "create",
          "crashed"} \subseteq StartPcs \ Created
  BY DEF StartPcs, ReqPcs, NoSrvPcs, Created
<1>1. CASE CheckInstalling(r)
  BY <1>0, <1>1, GotoType, ReplyType, UnchangedLoses, CallAlive
     DEF CheckInstalling, TypeInv, TypeOK
<1>2. CASE StartReadID(r)
  BY <1>0, <1>2, ReadIDAlive DEF StartReadID, Created
<1>3. CASE RemoveStale(r)
  BY <1>0, <1>3, GotoType, RemoveLoses, FailLoses, CallAlive
     DEF RemoveStale, TypeInv, TypeOK
<1>4. CASE StartClear(r)
  BY <1>0, <1>4, ClearIDAlive DEF StartClear, Created
<1>5. CASE SetStarting(r)
  BY <1>0, <1>5, MarkAlive DEF SetStarting, Created, States
<1>6. CASE SetRunning(r)
  BY <1>0, <1>6, MarkAlive DEF SetRunning, Created, States
<1>7. CASE StartFailed(r)
  BY <1>0, <1>7, MarkAlive DEF StartFailed, Created, States
<1>8. CASE PullImage(r)
  BY <1>0, <1>8, GotoType, UnchangedLoses, CallAlive
     DEF PullImage, TypeInv, TypeOK
<1>9. CASE StoreID(r)
  <2>1. req[r].cid \in Cids \cup {Null}
    BY DEF TypeInv, TypeOK, Request
  <2>2. NoNewClaims /\ DockerLoses
    BY <1>9, <2>1, SetContainerIDType, SameClaims, UnchangedLoses
       DEF StoreID, TypeInv, TypeOK, RegistryTypeOK
  <2>3. /\ \A q \in Reqs \ {r} : req'[q] = req[q]
        /\ req[r].pc = "set_id" /\ inst' = inst
        /\ req'[r].cid = req[r].cid /\ req'[r].uuid = req[r].uuid
    BY <1>0, <1>9, GotoType DEF StoreID, Created, TypeInv, TypeOK
  <2>4. QED
    BY <2>2, <2>3, HandlerAlive DEF Created
<1>10. CASE StartContainer(r)
  <2>1. /\ \A q \in Reqs \ {r} : req'[q] = req[q]
        /\ req[r].pc = "run" /\ inst' = inst /\ servers' = servers
        /\ req'[r].cid = req[r].cid /\ req'[r].uuid = req[r].uuid
    BY <1>0, <1>10, GotoType DEF StartContainer, Created, TypeInv, TypeOK
  <2>2. DockerLoses
    BY <1>10, StartLoses, FailLoses DEF StartContainer
  <2>3. QED
    BY <2>1, <2>2, SameClaims, HandlerAlive DEF Created
<1>11. QED
  BY <1>1, <1>2, <1>3, <1>4, <1>5, <1>6, <1>7, <1>8, <1>9, <1>10,
     CreateContainerAlive, SpawnWatchAlive DEF StartSteps

-----------------------------------------------------------------------------
(* RunningAliveOrTold: the goroutines, Docker and the daemon               *)

\* The steps of an installer that leave `inst' its container.
LEMMA InstStep ==
  ASSUME TypeInv, Alive, NEW s \in Srvs, req' = req, NoNewClaims, DockerLoses,
         \A a \in Srvs \ {s} : inst'[a] = inst[a],
         inst'[s].cid \in {inst[s].cid, Null}
  PROVE  Alive'
<1>1. HandlersKeep
  BY DEF HandlersKeep
<1>2. \A a \in Srvs : inst'[a].cid \in {inst[a].cid, Null}
  OBVIOUS
<1>3. QED
  BY <1>1, <1>2, AliveStep

LEMMA InstallCreateAlive ==
  ASSUME TypeInv, Alive, NEW s \in Srvs, InstallCreate(s)
  PROVE  Alive'
<1> USE DEF registryVars
<1>1. UNCHANGED <<watch, servers, req>>
  BY DEF InstallCreate
<1>2. CASE InstGoto(s, "failed") /\ UNCHANGED containers
  BY <1>1, <1>2, InstGotoType, SameClaims, UnchangedLoses, InstStep
     DEF InstPcs, TypeInv, TypeOK
<1>3. ASSUME NEW c \in Cids, Fresh(c),
             ContainerCreate(c, "install", servers[s].uuid),
             inst' = [inst EXCEPT ![s] = [pc |-> "start", cid |-> c]]
      PROVE  Alive'
  <2>1. /\ \A d \in Cids \ {c} : containers'[d] = containers[d]
        /\ containers'[c].kind = "install"
    BY <1>3 DEF ContainerCreate, TypeInv, TypeOK, DockerTypeOK
  <2>2. /\ watch[c].got = "none" /\ ~IsRunning(c)
        /\ \A q \in Reqs : req[q].cid # c
        /\ \A a \in Srvs : inst[a].cid # c
    BY <1>3 DEF Fresh, NoWatch, Exists, IsRunning
  <2>3. RunningAliveOrTold'
    BY <1>1, <2>1, <2>2, RunningCreates DEF Alive
  <2>4. OwnsCreated'
    <3>1. ASSUME NEW q \in Reqs, req'[q].pc \in Created, NEW d, d = req'[q].cid
          PROVE  /\ d \in Cids /\ watch'[d].got = "none"
                 /\ Exists(d)' => Game(d)' /\ containers'[d].uuid = req'[q].uuid
      <4>1. /\ d \in Cids /\ watch[d].got = "none" /\ d # c
            /\ Exists(d) => Game(d) /\ containers[d].uuid = req[q].uuid
        BY <1>1, <2>2, <3>1 DEF Alive, OwnsCreated
      <4>2. containers'[d] = containers[d]
        BY <2>1, <4>1
      <4>3. QED
        BY <1>1, <4>1, <4>2 DEF Game, Exists
    <3>2. QED
      BY <1>1, <3>1 DEF Alive, OwnsCreated, Game, Exists
  <2>5. InstallersInstall'
    <3>1. ASSUME NEW a \in Srvs, NEW d, d = inst'[a].cid, Exists(d)'
          PROVE  containers'[d].kind = "install"
      <4>1. CASE a = s
        BY <1>3, <2>1, <3>1, <4>1 DEF TypeInv, TypeOK
      <4>2. CASE a # s
        <5>1. d = inst[a].cid /\ d # c /\ d \in Cids
          BY <1>3, <2>2, <3>1, <4>2 DEF Exists, TypeInv, TypeOK
        <5>2. containers'[d] = containers[d]
          BY <2>1, <5>1
        <5>3. QED
          BY <3>1, <5>1, <5>2 DEF Alive, InstallersInstall, Exists
      <4>3. QED
        BY <4>1, <4>2
    <3>2. QED
      BY <3>1 DEF InstallersInstall, Exists
  <2>6. IdleWatchers'
    BY <1>1 DEF Alive, IdleWatchers
  <2>7. QED
    BY <2>3, <2>4, <2>5, <2>6 DEF Alive
<1>4. QED
  BY <1>2, <1>3 DEF InstallCreate

\* A kill by an installer hits no game, so nobody needs to be told.
LEMMA InstallKillLoses ==
  ASSUME TypeInv, Alive, NEW s \in Srvs, InstallKill(s)
  PROVE  DockerLoses
<1>1. CASE UNCHANGED containers
  BY <1>1, UnchangedLoses DEF InstallKill
<1>2. ASSUME NEW c, c = inst[s].cid, IsRunning(c), ContainerHalt(c, "nonzero")
      PROVE  DockerLoses
  <2>1. /\ \A d \in Cids \ {c} : containers'[d] = containers[d]
        /\ \A d \in Cids : /\ containers'[d].kind = containers[d].kind
                           /\ containers'[d].uuid = containers[d].uuid
                           /\ Exists(d)' <=> Exists(d)
    BY <1>2, HaltType DEF Codes, TypeInv, TypeOK
  <2>2. ~Game(c) /\ watch' = watch
    BY <1>2 DEF InstallKill, Alive, InstallersInstall, Game
  <2>3. QED
    BY <2>1, <2>2 DEF DockerLoses, IsRunning
<1>3. QED
  BY <1>1, <1>2 DEF InstallKill

LEMMA InstallerAlive ==
  ASSUME TypeInv, Alive, NEW s \in Srvs, Installer(s) \/ StreamBreaks(s)
  PROVE  Alive'
<1> USE DEF registryVars, dockerVars
<1>0. {"create", "failed", "logs", "remove_failed", "wait", "remove_ok", "kill",
       "ok"} \subseteq InstPcs
  BY DEF InstPcs
<1>1. CASE \/ InstallPull(s) \/ InstallLogs(s) \/ InstallWait(s)
           \/ InstallStart(s) \/ InstallKill(s) \/ InstallRemove(s)
           \/ StreamBreaks(s)
  <2>1. req' = req /\ NoNewClaims
    BY <1>1, SameClaims DEF InstallPull, InstallLogs, InstallWait, InstallStart,
       InstallKill, InstallRemove, StreamBreaks
  <2>2. \E pc \in InstPcs : InstGoto(s, pc)
    BY <1>0, <1>1 DEF InstallPull, InstallLogs, InstallWait, InstallStart,
       InstallKill, InstallRemove, StreamBreaks
  <2>3. DockerLoses
    <3>1. CASE InstallPull(s) \/ InstallLogs(s) \/ InstallWait(s) \/ StreamBreaks(s)
      BY <3>1, UnchangedLoses DEF InstallPull, InstallLogs, InstallWait, StreamBreaks
    <3>2. CASE InstallStart(s)
      BY <3>2, StartLoses, UnchangedLoses DEF InstallStart
    <3>3. CASE InstallRemove(s)
      BY <3>3, RemoveLoses, FailLoses DEF InstallRemove
    <3>4. QED
      BY <1>1, <3>1, <3>2, <3>3, InstallKillLoses
  <2>4. QED
    BY <2>1, <2>2, <2>3, InstGotoType, InstStep DEF TypeInv, TypeOK
<1>2. CASE InstallFinish(s)
  <2>1. /\ \A a \in Srvs \ {s} : servers'[a] = servers[a]
        /\ servers'[s].state # "running"
    BY <1>2, SetStateType DEF InstallFinish, States, TypeInv, TypeOK, RegistryTypeOK
  <2>2. NoNewClaims
    BY <2>1 DEF NoNewClaims, Claims
  <2>3. /\ \A a \in Srvs \ {s} : inst'[a] = inst[a]
        /\ inst'[s].cid = Null
    BY <1>2 DEF InstallFinish, NoInstaller, TypeInv, TypeOK
  <2>4. QED
    BY <1>2, <2>2, <2>3, UnchangedLoses, InstStep DEF InstallFinish
<1>3. QED
  BY <1>1, <1>2, InstallCreateAlive DEF Installer

\* A watcher leaves only a server that is not shown as running any more, or
\* that was deleted.
LEMMA WatcherAlive ==
  ASSUME TypeInv, Alive, NEW c \in Cids, Watcher(c) \/ WaitBreaks(c)
  PROVE  Alive'
<1> USE DEF Watcher, WaitBreaks, WatchExit, WatchError, WatchFailed, WatchCancelled,
            registryVars, dockerVars
<1>0. PICK s : s = watch[c].srv
  OBVIOUS
<1>1. /\ s \in Srvs
      /\ UNCHANGED <<containers, req, inst>>
  BY <1>0 DEF TypeInv, Holds, Codes
<1>2. /\ \A d \in Cids \ {c} : watch'[d] = watch[d]
      /\ watch'[c].srv = Null /\ watch'[c].got = "none"
  BY DEF NoWatch, TypeInv, TypeOK
<1>3. /\ \A a \in Srvs \ {s} : servers'[a] = servers[a]
      /\ ~Claims(s)'
  <2>1. CASE WatchCancelled(c)
    BY <1>0, <2>1 DEF Claims
  <2>2. CASE ~WatchCancelled(c)
    <3>1. PICK state \in {"offline", "crashed"} : SetState(s, state)
      BY <1>0, <2>2
    <3>2. /\ \A a \in Srvs \ {s} : servers'[a] = servers[a]
          /\ servers'[s].state = state
      BY <1>1, <3>1, SetStateType DEF States, TypeInv, TypeOK, RegistryTypeOK
    <3>3. QED
      BY <3>2 DEF Claims
  <2>3. QED
    BY <2>1, <2>2
<1> HIDE DEF Watcher, WaitBreaks, WatchExit, WatchError, WatchFailed, WatchCancelled
<1>4. RunningAliveOrTold'
  <2> SUFFICES ASSUME NEW a \in Srvs, Claims(a)', ~HandlerOn(a, {"watch"})'
               PROVE  \E d \in Cids :
                        /\ watch'[d].srv = a
                        /\ \/ watch'[d].got \in Codes
                           \/ /\ IsRunning(d)' /\ Game(d)'
                              /\ containers'[d].uuid = servers'[a].uuid
    BY DEF RunningAliveOrTold, Claims
  <2>1. a # s
    BY <1>3
  <2>2. Claims(a) /\ ~HandlerOn(a, {"watch"})
    BY <1>1, <1>3, <2>1 DEF Claims, HandlerOn
  <2>3. PICK d \in Cids :
          /\ watch[d].srv = a
          /\ \/ watch[d].got \in Codes
             \/ IsRunning(d) /\ Game(d) /\ containers[d].uuid = servers[a].uuid
    BY <2>2 DEF Alive, RunningAliveOrTold, Claims
  <2>4. d # c
    BY <1>0, <2>1, <2>3
  <2>5. watch'[d] = watch[d] /\ servers'[a].uuid = servers[a].uuid
    BY <1>2, <1>3, <2>1, <2>4
  <2>6. QED
    BY <1>1, <2>3, <2>5 DEF IsRunning, Game, Exists
<1>5. OwnsCreated'
  BY <1>1, <1>2, OwnsKept DEF Alive, HandlersKeep, Exists
<1>6. InstallersInstall' /\ IdleWatchers'
  BY <1>1, <1>2 DEF Alive, InstallersInstall, IdleWatchers, Exists
<1>7. QED
  BY <1>4, <1>5, <1>6 DEF Alive

LEMMA DaemonStartAlive ==
  ASSUME TypeInv, Alive, DaemonStart
  PROVE  Alive'
<1>1. UNCHANGED <<containers, watch, req, inst>>
  BY DEF DaemonStart, Boot, Restore, Serve, dockerVars
<1>2. NoNewClaims
  <2>1. CASE servers' = servers
    BY <2>1, SameClaims
  <2>2. ASSUME NEW u \in UUIDs, Restore(u) PROVE NoNewClaims
    BY <2>2, RestoreEffect DEF NoNewClaims, Claims
  <2>3. QED
    BY <2>1, <2>2 DEF DaemonStart, Boot, Serve, registryVars
<1>3. QED
  BY <1>1, <1>2, UnchangedLoses, AliveStep DEF HandlersKeep

LEMMA AliveNext == TypeInv /\ Alive /\ [Next]_vars => Alive'
<1> SUFFICES ASSUME TypeInv, Alive, [Next]_vars
             PROVE  Alive'
  OBVIOUS
<1>1. CASE \E r \in Reqs : NewRequest(r) \/ Handler(r)
  BY <1>1, NewRequestAlive, CreateStepsAlive, DeleteStepsAlive, StartStepsAlive,
     PowerStepsAlive DEF Handler
<1>2. CASE \E s \in Srvs : Installer(s) \/ StreamBreaks(s)
  BY <1>2, InstallerAlive
<1>3. CASE \E c \in Cids : Watcher(c) \/ WaitBreaks(c)
  BY <1>3, WatcherAlive
<1>4. CASE \E c \in Cids, code \in Codes : ContainerExit(c, code)
  BY <1>4, HaltLoses, SameClaims, AliveStep
     DEF ContainerExit, registryVars, HandlersKeep
<1>5. CASE DaemonStart
  BY <1>5, DaemonStartAlive
<1>6. CASE Shutdown
  <2>1. /\ \A s \in Srvs : ~Claims(s)' /\ ~Exists(inst'[s].cid)
        /\ \A r \in Reqs : req'[r].pc = "idle"
        /\ \A c \in Cids : watch'[c].srv = Null
        /\ containers' = containers
    BY <1>6, NodeAssumption
       DEF Shutdown, Claims, NoServer, New, NoInstaller, Idle, NoWatch, Exists
  <2>2. QED
    BY <2>1 DEF Alive, RunningAliveOrTold, Claims, OwnsCreated, Created,
       InstallersInstall, IdleWatchers, Exists
<1>7. CASE UNCHANGED vars
  BY <1>7, UnchangedLoses, SameClaims, AliveStep DEF vars, HandlersKeep
<1>8. QED
  BY <1>1, <1>2, <1>3, <1>4, <1>5, <1>6, <1>7 DEF Next

LEMMA AliveInit == Init => Alive
  BY NodeAssumption
     DEF Init, DockerInit, RegistryInit, NoServer, New, Idle, NoInstaller, NoWatch,
         Alive, RunningAliveOrTold, OwnsCreated, Created, InstallersInstall,
         IdleWatchers, Exists

\* A server started by this daemon and shown as running has a running game
\* container of its own UUID, or the news of its end is on its way.
THEOREM RunningCorrect == Spec => []RunningAliveOrTold
<1>1. Alive => RunningAliveOrTold
  BY DEF Alive
<1>2. QED
  BY <1>1, TypeInit, TypeNext, AliveInit, AliveNext, PTL DEF Spec

-----------------------------------------------------------------------------
(***************************************************************************)
(* Lifecycle implements ContainerSlots, for every instance.  Two things    *)
(* must be known to map every step: a name has one container at most       *)
(* (OneEach), and who is about to start a container holds one that was     *)
(* never started (NeverStarted).                                           *)
(***************************************************************************)

\* Where the handler of a start has a container it did not start yet.
NewPcs == {"set_id", "run"}

\* A container about to be started was never started, and no two install
\* goroutines are about to start the same one.
NeverStarted ==
  /\ \A r \in Reqs : req[r].pc \in NewPcs /\ Exists(req[r].cid) =>
       containers[req[r].cid].status = "created"
  /\ \A s \in Srvs : inst[s].pc = "start" /\ Exists(inst[s].cid) =>
       containers[inst[s].cid].status = "created"
  /\ \A s, t \in Srvs : s # t /\ inst[s].pc = "start" /\ inst[t].pc = "start" =>
       inst[s].cid # inst[t].cid

\* Docker's names: a container has the UUID of a server, and no two containers
\* of one UUID are of the same kind.
OneEach ==
  /\ \A c \in Cids : Exists(c) =>
       containers[c].kind \in Kinds /\ containers[c].uuid \in UUIDs
  /\ \A c, d \in Cids :
       c # d /\ Exists(c) /\ Exists(d) /\ containers[c].uuid = containers[d].uuid =>
         containers[c].kind # containers[d].kind

\* What a step does to the one container it touches.
Created1(c) ==
  /\ ~Exists(c)
  /\ \E kind \in Kinds, u \in UUIDs :
       /\ ~NameTaken(kind, u)
       /\ containers'[c] = [status |-> "created", kind |-> kind, uuid |-> u,
                            code |-> "zero"]

Started(c) == containers[c].status = "created" /\ containers'[c].status = "running"

Ended(c) == containers[c].status = "running" /\ containers'[c].status = "exited"

Gone(c) == Exists(c) /\ containers'[c].status = "none"

SameName(c) ==
  containers'[c].kind = containers[c].kind /\ containers'[c].uuid = containers[c].uuid

Touches(c) ==
  /\ \A d \in Cids \ {c} : containers'[d] = containers[d]
  /\ \/ Created1(c)
     \/ Started(c) /\ SameName(c)
     \/ Ended(c) /\ SameName(c)
     \/ Gone(c)

OneMove == containers' = containers \/ \E c \in Cids : Touches(c)

\* The steps that create and start nothing.
OnlyEnds == containers' = containers \/ \E c \in Cids :
  /\ \A d \in Cids \ {c} : containers'[d] = containers[d]
  /\ (Ended(c) /\ SameName(c)) \/ Gone(c)

-----------------------------------------------------------------------------
(* What the calls to Docker do                                             *)

LEMMA HaltEnds ==
  ASSUME TypeInv, NEW c, NEW code \in Codes, ContainerHalt(c, code)
  PROVE  OnlyEnds
<1>1. CASE IsRunning(c)
  <2>1. /\ c \in Cids
        /\ \A d \in Cids \ {c} : containers'[d] = containers[d]
        /\ Ended(c) /\ SameName(c)
    BY <1>1 DEF ContainerHalt, IsRunning, Ended, SameName, TypeInv, TypeOK,
       DockerTypeOK, Container
  <2>2. QED
    BY <2>1 DEF OnlyEnds
<1>2. CASE ~IsRunning(c)
  BY <1>2 DEF ContainerHalt, OnlyEnds
<1>3. QED
  BY <1>1, <1>2

LEMMA CallEnds ==
  ASSUME TypeInv, NEW c, StopCall(c) \/ RemoveCall(c) \/ CallFails(c)
  PROVE  OnlyEnds
<1>1. CASE StopCall(c)
  BY <1>1, HaltEnds DEF StopCall
<1>2. CASE RemoveCall(c)
  <2>1. /\ c \in Cids /\ Exists(c)
        /\ \A d \in Cids \ {c} : containers'[d] = containers[d]
        /\ containers'[c].status = "none"
    BY <1>2 DEF RemoveCall, ContainerRemove, NoContainer, Exists, TypeInv, TypeOK,
       DockerTypeOK
  <2>2. QED
    BY <2>1 DEF OnlyEnds, Gone
<1>3. CASE CallFails(c)
  BY <1>3 DEF CallFails, OnlyEnds
<1>4. QED
  BY <1>1, <1>2, <1>3

LEMMA SameEnds ==
  ASSUME UNCHANGED containers PROVE OnlyEnds
  BY DEF OnlyEnds

LEMMA StartTouches ==
  ASSUME TypeInv, NEW c \in Cids, containers[c].status = "created",
         ContainerStart(c)
  PROVE  Touches(c) /\ Started(c) /\ SameName(c)
  BY StartType DEF Touches, Started, SameName, TypeInv, TypeOK

LEMMA CreateTouches ==
  ASSUME TypeInv, NEW c \in Cids, NEW kind \in Kinds, NEW u \in UUIDs,
         ~Exists(c), ~NameTaken(kind, u), ContainerCreate(c, kind, u)
  PROVE  Touches(c) /\ containers'[c].status = "created"
<1>1. /\ \A d \in Cids \ {c} : containers'[d] = containers[d]
      /\ containers'[c] = [status |-> "created", kind |-> kind, uuid |-> u,
                           code |-> "zero"]
  BY CreateType DEF TypeInv, TypeOK
<1>2. Created1(c)
  BY <1>1 DEF Created1
<1>3. QED
  BY <1>1, <1>2 DEF Touches

-----------------------------------------------------------------------------
(* OneEach                                                                 *)

LEMMA OneEachStep ==
  ASSUME OneEach, OneMove
  PROVE  OneEach'
<1>1. CASE containers' = containers
  BY <1>1 DEF OneEach, Exists
<1>2. ASSUME NEW c \in Cids, Touches(c), Created1(c)
      PROVE  OneEach'
  <2>1. PICK kind \in Kinds, u \in UUIDs :
          /\ ~NameTaken(kind, u)
          /\ containers'[c] = [status |-> "created", kind |-> kind, uuid |-> u,
                               code |-> "zero"]
    BY <1>2 DEF Created1
  <2>2. \A d \in Cids \ {c} : containers'[d] = containers[d]
    BY <1>2 DEF Touches
  <2>3. \A d \in Cids \ {c} : Exists(d) /\ containers[d].uuid = u =>
          containers[d].kind # kind
    BY <2>1 DEF NameTaken, Managed
  <2>4. QED
    BY <2>1, <2>2, <2>3 DEF OneEach, Exists
<1>3. ASSUME NEW c \in Cids, Touches(c), ~Created1(c)
      PROVE  OneEach'
  <2>1. /\ \A d \in Cids \ {c} : containers'[d] = containers[d]
        /\ Exists(c)
        /\ Exists(c)' => SameName(c)
    BY <1>3 DEF Touches, Started, Ended, Gone, Exists
  <2>2. QED
    BY <2>1 DEF OneEach, Exists, SameName
<1>4. QED
  BY <1>1, <1>2, <1>3 DEF OneMove

-----------------------------------------------------------------------------
(* NeverStarted                                                            *)

\* Nobody gets a container that is not started.
NewKept ==
  /\ \A r \in Reqs : req'[r].pc \in NewPcs =>
       req[r].pc \in NewPcs /\ req'[r].cid = req[r].cid
  /\ \A s \in Srvs : inst'[s].pc = "start" => inst[s].pc = "start"
                                               /\ inst'[s].cid = inst[s].cid

LEMMA EndsStep ==
  ASSUME NeverStarted, NewKept, OnlyEnds
  PROVE  NeverStarted' /\ OneMove
<1>1. \A c \in Cids : Exists(c)' =>
        /\ Exists(c)
        /\ containers[c].status = "created" =>
             containers'[c].status = "created"
  BY DEF OnlyEnds, Ended, Gone, Exists
<1>2. NeverStarted'
  BY <1>1 DEF NeverStarted, NewKept, Exists
<1>3. OneMove
  BY DEF OneMove, OnlyEnds, Touches
<1>4. QED
  BY <1>2, <1>3

\* A handler that goes nowhere near the start of a container.
LEMMA MovesNew ==
  ASSUME TypeInv, NEW r \in Reqs,
         \/ Reply(r)
         \/ \E pc \in ReqPcs \ NewPcs : Goto(r, pc)
         \/ \E pc \in ReqPcs \ NewPcs : \E c : GotoWith(r, pc, c)
         \/ \E pc \in ReqPcs \ NewPcs : \E s : GotoHolding(r, pc, s)
  PROVE  \A q \in Reqs : req'[q].pc \in NewPcs =>
           req[q].pc \in NewPcs /\ req'[q].cid = req[q].cid
<1>1. req \in [Reqs -> Request]
  BY DEF TypeInv, TypeOK
<1>2. CASE Reply(r)
  BY <1>1, <1>2, ReplyType DEF NewPcs
<1>3. ASSUME NEW pc \in ReqPcs \ NewPcs, NEW x,
             Goto(r, pc) \/ GotoWith(r, pc, x) \/ GotoHolding(r, pc, x)
      PROVE  req'[r].pc \notin NewPcs /\ \A q \in Reqs \ {r} : req'[q] = req[q]
  BY <1>1, <1>3 DEF Goto, GotoWith, GotoHolding, Request
<1>4. QED
  BY <1>2, <1>3

LEMMA ReadIDNew ==
  ASSUME TypeInv, NEW r \in Reqs, NEW from, NEW none \in ReqPcs \ NewPcs,
         NEW some \in ReqPcs \ NewPcs, ReadID(r, from, none, some)
  PROVE  \A q \in Reqs : req'[q].pc \in NewPcs =>
           req[q].pc \in NewPcs /\ req'[q].cid = req[q].cid
  BY MovesNew DEF ReadID

LEMMA HandlerNew ==
  ASSUME TypeInv, NEW r \in Reqs, NewRequest(r) \/ Handler(r), ~CreateContainer(r)
  PROVE  NewKept
<1>0. req \in [Reqs -> Request] /\ inst \in [Srvs -> Install]
  BY DEF TypeInv, TypeOK
<1>1. \A q \in Reqs : req'[q].pc \in NewPcs =>
       req[q].pc \in NewPcs /\ req'[q].cid = req[q].cid
  <2>1. CASE NewRequest(r)
    <3>1. PICK u \in UUIDs : \/ CreateRequest(r, u)
                             \/ \E op \in {"delete", "start", "stop", "restart", "kill"} :
                                  ServerRequest(r, u, op)
      BY <2>1 DEF NewRequest
    <3>2. CASE CreateRequest(r, u)
      <4>1. req'[r].pc = "mkdir" /\ \A q \in Reqs \ {r} : req'[q] = req[q]
        BY <1>0, <3>2 DEF CreateRequest, Idle
      <4>2. QED
        BY <4>1 DEF NewPcs
    <3>3. ASSUME NEW op \in {"delete", "start", "stop", "restart", "kill"},
                 ServerRequest(r, u, op)
          PROVE  req'[r].pc \notin NewPcs /\ \A q \in Reqs \ {r} : req'[q] = req[q]
      <4>1. FirstPc(op) \notin NewPcs
        BY DEF FirstPc, NewPcs
      <4>2. QED
        BY <1>0, <3>3, <4>1 DEF ServerRequest
    <3>4. QED
      BY <3>1, <3>2, <3>3
  <2>2. CASE CreateSteps(r)
    BY <2>2, MovesNew DEF CreateSteps, CreateDir, AddServer, SpawnInstaller, ReqPcs,
       NewPcs
  <2>3. CASE DeleteSteps(r)
    <3>1. CASE DeleteReadID(r)
      BY <3>1, ReadIDNew DEF DeleteReadID, ReqPcs, NewPcs
    <3>2. CASE ~DeleteReadID(r)
      BY <2>3, <3>2, MovesNew DEF DeleteSteps, DeleteStop, DeleteRemove, DeleteDir,
         DeleteEntry, ReqPcs, NewPcs
    <3>3. QED
      BY <3>1, <3>2
  <2>4. CASE StartSteps(r)
    <3>1. CASE StartReadID(r)
      BY <3>1, ReadIDNew DEF StartReadID, ReqPcs, StartPcs, NewPcs
    <3>2. CASE StoreID(r)
      BY <1>0, <3>2, GotoType DEF StoreID, At, ReqPcs, StartPcs, NewPcs
    <3>3. CASE SetStarting(r) \/ SetRunning(r) \/ StartFailed(r) \/ StartClear(r)
      BY <3>3, MovesNew DEF SetStarting, SetRunning, StartFailed, Mark, StartClear,
         ClearID, ReqPcs, StartPcs, NewPcs
    <3>4. CASE CheckInstalling(r) \/ RemoveStale(r) \/ PullImage(r)
               \/ StartContainer(r) \/ SpawnWatch(r)
      BY <3>4, MovesNew DEF CheckInstalling, RemoveStale, PullImage,
         StartContainer, SpawnWatch, ReqPcs, StartPcs, NewPcs
    <3>5. QED
      BY <2>4, <3>1, <3>2, <3>3, <3>4 DEF StartSteps
  <2>5. CASE PowerSteps(r)
    <3>0. {"stop_stopping", "stop_stop", "stop_offline", "re_stopping", "re_stop",
           "re_remove", "re_clear", "kill_kill", "kill_crashed", "check", "idle"}
             \subseteq ReqPcs \ NewPcs
      BY DEF ReqPcs, StartPcs, NewPcs
    <3>1. CASE StopReadID(r) \/ RestartReadID(r) \/ KillReadID(r)
      BY <3>0, <3>1, ReadIDNew DEF StopReadID, RestartReadID, KillReadID
    <3>2. CASE StopContainer(r) \/ RestartStop(r) \/ RestartRemove(r)
               \/ KillContainer(r)
      BY <3>0, <3>2, MovesNew DEF StopContainer, RestartStop, RestartRemove,
         KillContainer
    <3>3. CASE StopStopping(r) \/ StopOffline(r) \/ RestartStopping(r)
               \/ RestartClear(r) \/ KillCrashed(r)
      BY <3>0, <3>3, MovesNew DEF StopStopping, StopOffline, RestartStopping,
         RestartClear, KillCrashed, Mark, ClearID
    <3>4. QED
      BY <2>5, <3>1, <3>2, <3>3 DEF PowerSteps
  <2>6. QED
    BY <2>1, <2>2, <2>3, <2>4, <2>5 DEF Handler
<1>2. \A s \in Srvs : inst'[s].pc = "start" => inst[s].pc = "start"
                                              /\ inst'[s].cid = inst[s].cid
  <2>1. CASE SpawnInstaller(r)
    BY <1>0, <2>1 DEF SpawnInstaller
  <2>2. CASE ~SpawnInstaller(r)
    <3>1. inst' = inst
      BY <2>2 DEF NewRequest, CreateRequest, ServerRequest, Handler,
         CreateSteps, CreateDir, AddServer, DeleteSteps, DeleteReadID, ReadID,
         DeleteStop, DeleteRemove, DeleteDir, DeleteEntry, StartSteps,
         CheckInstalling, StartReadID, RemoveStale, StartClear, ClearID,
         SetStarting, Mark, PullImage, CreateContainer, StoreID, StartContainer,
         SetRunning, SpawnWatch, StartFailed, PowerSteps, StopReadID,
         StopStopping, StopContainer, StopOffline, RestartReadID,
         RestartStopping, RestartStop, RestartRemove, RestartClear, KillReadID,
         KillContainer, KillCrashed
    <3>2. QED
      BY <3>1
  <2>3. QED
    BY <2>1, <2>2
<1>3. QED
  BY <1>1, <1>2 DEF NewKept

LEMMA HandlerEnds ==
  ASSUME TypeInv, NEW r \in Reqs, NewRequest(r) \/ Handler(r),
         ~CreateContainer(r), ~StartContainer(r)
  PROVE  OnlyEnds
<1>1. CASE DeleteStop(r) \/ DeleteRemove(r) \/ RemoveStale(r) \/ StopContainer(r)
           \/ RestartStop(r) \/ RestartRemove(r)
  BY <1>1, CallEnds
     DEF DeleteStop, DeleteRemove, RemoveStale, StopContainer, RestartStop,
         RestartRemove
<1>2. CASE KillContainer(r)
  BY <1>2, HaltEnds, SameEnds DEF KillContainer, dockerVars, Codes
<1>3. CASE NewRequest(r) \/ CreateSteps(r) \/ DeleteReadID(r) \/ DeleteDir(r)
           \/ DeleteEntry(r)
  BY <1>3, SameEnds
     DEF NewRequest, CreateRequest, ServerRequest, CreateSteps, CreateDir,
         AddServer, SpawnInstaller, DeleteReadID, ReadID, DeleteDir, DeleteEntry,
         dockerVars
<1>4. CASE CheckInstalling(r) \/ StartReadID(r) \/ StartClear(r) \/ SetStarting(r)
           \/ PullImage(r) \/ StoreID(r) \/ SetRunning(r) \/ SpawnWatch(r)
           \/ StartFailed(r)
  BY <1>4, SameEnds
     DEF CheckInstalling, StartReadID, ReadID, StartClear, ClearID, SetStarting,
         Mark, PullImage, StoreID, SetRunning, SpawnWatch, StartFailed, dockerVars
<1>5. CASE StopReadID(r) \/ StopStopping(r) \/ StopOffline(r) \/ RestartReadID(r)
           \/ RestartStopping(r) \/ RestartClear(r) \/ KillReadID(r) \/ KillCrashed(r)
  BY <1>5, SameEnds
     DEF StopReadID, ReadID, StopStopping, StopOffline, RestartReadID,
         RestartStopping, RestartClear, ClearID, KillReadID, KillCrashed, Mark,
         dockerVars
<1>6. QED
  BY <1>1, <1>2, <1>3, <1>4, <1>5 DEF Handler, DeleteSteps, StartSteps, PowerSteps

\* ContainerCreate of a start: the name was free and so was the id.
LEMMA CreateContainerUsed ==
  ASSUME TypeInv, NeverStarted, NEW r \in Reqs, CreateContainer(r)
  PROVE  NeverStarted' /\ OneMove
<1> USE DEF CreateContainer, At
<1>0. /\ {"set_id", "crashed"} \subseteq ReqPcs
      /\ inst' = inst /\ "game" \in Kinds
      /\ Srv(r).uuid \in UUIDs
  BY DEF StartPcs, ReqPcs, Kinds, TypeInv, Holds, NoSrvPcs, Srv
<1>1. CASE Goto(r, "crashed") /\ UNCHANGED containers
  <2>1. /\ \A q \in Reqs \ {r} : req'[q] = req[q]
        /\ req'[r].pc = "crashed"
    BY <1>0, <1>1, GotoType DEF TypeInv, TypeOK
  <2>2. NewKept
    BY <1>0, <2>1 DEF NewKept, NewPcs
  <2>3. QED
    BY <1>1, <2>2, SameEnds, EndsStep
<1>2. ASSUME NEW c \in Cids, Fresh(c), ~NameTaken("game", Srv(r).uuid),
             ContainerCreate(c, "game", Srv(r).uuid), GotoWith(r, "set_id", c)
      PROVE  NeverStarted' /\ OneMove
  <2>1. /\ \A q \in Reqs \ {r} : req'[q] = req[q]
        /\ req'[r].cid = c
    BY <1>0, <1>2, GotoWithType DEF TypeInv, TypeOK
  <2>2. /\ ~Exists(c)
        /\ \A q \in Reqs : req[q].cid # c
        /\ \A s \in Srvs : inst[s].cid # c
    BY <1>2 DEF Fresh
  <2>3. PICK u \in UUIDs : u = Srv(r).uuid
    BY <1>0
  <2>4. Touches(c) /\ containers'[c].status = "created"
    BY <1>0, <1>2, <2>2, <2>3, CreateTouches
  <2>5. \A d \in Cids \ {c} : containers'[d] = containers[d]
    BY <2>4 DEF Touches
  <2>6. NeverStarted'
    BY <1>0, <2>1, <2>2, <2>4, <2>5 DEF NeverStarted, Exists
  <2>7. QED
    BY <2>4, <2>6 DEF OneMove
<1>3. QED
  BY <1>1, <1>2

\* ContainerStart of a start: nobody else is about to start this container.
LEMMA StartContainerUsed ==
  ASSUME TypeInv, OwnsCreated, InstallersInstall, NeverStarted,
         NEW r \in Reqs, StartContainer(r)
  PROVE  NeverStarted' /\ OneMove
<1> DEFINE c == req[r].cid
<1>0. NewKept
  BY HandlerNew DEF Handler, StartSteps, StartContainer, CreateContainer, At
<1>1. CASE UNCHANGED containers
  BY <1>0, <1>1, SameEnds, EndsStep
<1>2. CASE Exists(c) /\ ContainerStart(c) /\ Goto(r, "running")
  <2>1. /\ c \in Cids /\ containers[c].status = "created"
        /\ containers[c].kind = "game"
    BY <1>2 DEF StartContainer, At, NeverStarted, NewPcs, OwnsCreated, Created,
       Game, Exists
  <2>2. Touches(c)
    BY <1>2, <2>1, StartTouches
  <2>3. \A d \in Cids \ {c} : containers'[d] = containers[d]
    BY <2>2 DEF Touches
  <2>4. \A q \in Reqs : req'[q].pc \in NewPcs => q # r /\ req[q].cid # c
    <3>1. req'[r].pc = "running"
      BY <1>2 DEF Goto, TypeInv, TypeOK, Request
    <3>2. \A q \in Reqs : req[q].pc \in NewPcs /\ q # r => req[q].cid # c
      BY DEF StartContainer, At, OwnsCreated, NewPcs, Created
    <3>3. QED
      BY <1>0, <3>1, <3>2 DEF NewKept, NewPcs
  <2>5. \A s \in Srvs : inst'[s].pc = "start" => inst[s].cid # c
    BY <1>2, <2>1 DEF InstallersInstall
  <2>6. NeverStarted'
    BY <1>0, <2>3, <2>4, <2>5 DEF NeverStarted, NewKept, Exists
  <2>7. QED
    BY <2>1, <2>2, <2>6 DEF OneMove
<1>3. QED
  BY <1>1, <1>2 DEF StartContainer, CallFails

LEMMA InstallCreateUsed ==
  ASSUME TypeInv, NeverStarted, NEW s \in Srvs, InstallCreate(s)
  PROVE  NeverStarted' /\ OneMove
<1> USE DEF InstallCreate
<1>0. /\ req' = req /\ "install" \in Kinds
      /\ servers[s].uuid \in UUIDs
  BY DEF Kinds, TypeInv, Holds
<1>1. CASE InstGoto(s, "failed") /\ UNCHANGED containers
  <2>1. NewKept
    BY <1>0, <1>1 DEF NewKept, InstGoto, TypeInv, TypeOK, Install
  <2>2. QED
    BY <1>1, <2>1, SameEnds, EndsStep
<1>2. ASSUME NEW c \in Cids, Fresh(c), ~NameTaken("install", servers[s].uuid),
             ContainerCreate(c, "install", servers[s].uuid),
             inst' = [inst EXCEPT ![s] = [pc |-> "start", cid |-> c]]
      PROVE  NeverStarted' /\ OneMove
  <2>1. /\ \A t \in Srvs \ {s} : inst'[t] = inst[t]
        /\ inst'[s].cid = c
    BY <1>2 DEF TypeInv, TypeOK
  <2>2. /\ ~Exists(c)
        /\ \A q \in Reqs : req[q].cid # c
        /\ \A t \in Srvs : inst[t].cid # c
    BY <1>2 DEF Fresh
  <2>3. PICK u \in UUIDs : u = servers[s].uuid
    BY <1>0
  <2>4. Touches(c) /\ containers'[c].status = "created"
    BY <1>0, <1>2, <2>2, <2>3, CreateTouches
  <2>5. \A d \in Cids \ {c} : containers'[d] = containers[d]
    BY <2>4 DEF Touches
  <2>6. NeverStarted'
    BY <1>0, <2>1, <2>2, <2>4, <2>5 DEF NeverStarted, Exists
  <2>7. QED
    BY <2>4, <2>6 DEF OneMove
<1>3. QED
  BY <1>1, <1>2

LEMMA InstallStartUsed ==
  ASSUME TypeInv, OwnsCreated, InstallersInstall, NeverStarted,
         NEW s \in Srvs, InstallStart(s)
  PROVE  NeverStarted' /\ OneMove
<1> DEFINE c == inst[s].cid
<1>0. /\ req' = req /\ inst[s].pc = "start" /\ inst'[s].pc # "start"
      /\ \A t \in Srvs \ {s} : inst'[t] = inst[t]
  BY DEF InstallStart, InstGoto, TypeInv, TypeOK, Install
<1>1. CASE UNCHANGED containers
  <2>1. NewKept
    BY <1>0 DEF NewKept
  <2>2. QED
    BY <1>1, <2>1, SameEnds, EndsStep
<1>2. CASE Exists(c) /\ ContainerStart(c)
  <2>1. /\ c \in Cids /\ containers[c].status = "created"
        /\ containers[c].kind = "install"
    BY <1>0, <1>2 DEF NeverStarted, InstallersInstall, Exists
  <2>2. Touches(c)
    BY <1>2, <2>1, StartTouches
  <2>3. \A d \in Cids \ {c} : containers'[d] = containers[d]
    BY <2>2 DEF Touches
  <2>4. \A q \in Reqs : req[q].pc \in NewPcs => req[q].cid # c
    BY <1>2, <2>1 DEF OwnsCreated, Created, NewPcs, Game
  <2>5. \A t \in Srvs : inst'[t].pc = "start" => t # s /\ inst[t].cid # c
    BY <1>0 DEF NeverStarted
  <2>6. NeverStarted'
    BY <1>0, <2>3, <2>4, <2>5 DEF NeverStarted, Exists
  <2>7. QED
    BY <2>1, <2>2, <2>6 DEF OneMove
<1>3. QED
  BY <1>1, <1>2 DEF InstallStart

LEMMA InstallerUsed ==
  ASSUME TypeInv, OwnsCreated, InstallersInstall, NeverStarted,
         NEW s \in Srvs, Installer(s) \/ StreamBreaks(s)
  PROVE  NeverStarted' /\ OneMove
<1>1. CASE InstallCreate(s)
  BY <1>1, InstallCreateUsed
<1>2. CASE InstallStart(s)
  BY <1>2, InstallStartUsed
<1>3. CASE ~InstallCreate(s) /\ ~InstallStart(s)
  <2>1. NewKept
    BY <1>3 DEF Installer, StreamBreaks, InstallPull, InstallLogs, InstallWait,
       InstallKill, InstallRemove, InstallFinish, InstGoto, NoInstaller, NewKept,
       TypeInv, TypeOK, Install
  <2>2. OnlyEnds
    <3>1. CASE InstallKill(s)
      BY <3>1, HaltEnds, SameEnds DEF InstallKill, Codes
    <3>2. CASE InstallRemove(s)
      BY <3>2, CallEnds DEF InstallRemove
    <3>3. CASE ~InstallKill(s) /\ ~InstallRemove(s)
      BY <1>3, <3>3, SameEnds DEF Installer, StreamBreaks, InstallPull,
         InstallLogs, InstallWait, InstallFinish, dockerVars
    <3>4. QED
      BY <3>1, <3>2, <3>3
  <2>3. QED
    BY <2>1, <2>2, EndsStep
<1>4. QED
  BY <1>1, <1>2, <1>3

LEMMA HandlerUsed ==
  ASSUME TypeInv, OwnsCreated, InstallersInstall, NeverStarted,
         NEW r \in Reqs, NewRequest(r) \/ Handler(r)
  PROVE  NeverStarted' /\ OneMove
  BY CreateContainerUsed, StartContainerUsed, HandlerNew, HandlerEnds, EndsStep

LEMMA WatcherUsed ==
  ASSUME TypeInv, NeverStarted, NEW c \in Cids,
         \/ Watcher(c) \/ WaitBreaks(c)
         \/ \E code \in Codes : ContainerExit(c, code)
  PROVE  NeverStarted' /\ OneMove
<1>1. NewKept
  BY DEF Watcher, WaitBreaks, WatchExit, WatchError, WatchFailed, WatchCancelled,
     ContainerExit, NewKept
<1>2. OnlyEnds
  BY HaltEnds, SameEnds DEF Watcher, WaitBreaks, WatchExit, WatchError,
     WatchFailed, WatchCancelled, ContainerExit
<1>3. QED
  BY <1>1, <1>2, EndsStep

LEMMA DaemonUsed ==
  ASSUME TypeInv, NeverStarted, DaemonStart \/ Shutdown \/ UNCHANGED vars
  PROVE  NeverStarted' /\ OneMove
<1>1. NewKept /\ UNCHANGED containers
  <2>1. CASE DaemonStart \/ UNCHANGED vars
    <3>1. UNCHANGED <<containers, req, inst>>
      BY <2>1 DEF DaemonStart, Boot, Serve, Restore, dockerVars, vars
    <3>2. QED
      BY <3>1 DEF NewKept
  <2>2. CASE Shutdown
    BY <2>2 DEF Shutdown, Idle, NoInstaller, NewPcs, NewKept
  <2>3. QED
    BY <2>1, <2>2
<1>2. QED
  BY <1>1, SameEnds, EndsStep

-----------------------------------------------------------------------------
(* The invariant                                                           *)

Used == NeverStarted /\ OneEach

LEMMA UsedInit == Init => Used
  BY DEF Init, DockerInit, NoContainer, Idle, NoInstaller, Used, NeverStarted,
     NewPcs, OneEach, Exists

LEMMA UsedNext == TypeInv /\ Alive /\ Used /\ [Next]_vars => Used' /\ OneMove
<1> SUFFICES ASSUME TypeInv, Alive, Used, [Next]_vars PROVE Used' /\ OneMove
  OBVIOUS
<1> USE DEF Used, Alive
<1>1. NeverStarted' /\ OneMove
  BY HandlerUsed, InstallerUsed, WatcherUsed, DaemonUsed DEF Next
<1>2. QED
  BY <1>1, OneEachStep

-----------------------------------------------------------------------------
(* The refinement mapping                                                  *)

Name(c) == <<containers[c].kind, containers[c].uuid>>

\* The status of a name is that of its container.
LEMMA SlotOf ==
  ASSUME OneEach, NEW c \in Cids, Exists(c)
  PROVE  Name(c) \in Kinds \X UUIDs /\ SlotStatus(Name(c)) = containers[c].status
<1>1. Name(c) \in Kinds \X UUIDs
  BY DEF OneEach, Name
<1>2. Named(Name(c)) = {c}
  BY DEF OneEach, Named, Managed, Name
<1>3. QED
  BY <1>1, <1>2 DEF SlotStatus

LEMMA EmptySlot ==
  ASSUME NEW kind \in Kinds, NEW u \in UUIDs, ~NameTaken(kind, u)
  PROVE  SlotStatus(<<kind, u>>) = "none"
<1>1. Named(<<kind, u>>) = {}
  BY DEF NameTaken, Named
<1>2. QED
  BY <1>1 DEF SlotStatus

\* The names of the other containers do not move.
LEMMA OtherSlots ==
  ASSUME NEW c \in Cids, NEW name \in Kinds \X UUIDs,
         \A d \in Cids \ {c} : containers'[d] = containers[d],
         Exists(c) => name # Name(c),
         Exists(c)' => name # Name(c)'
  PROVE  SlotStatus(name)' = SlotStatus(name)
<1>1. name = <<name[1], name[2]>>
  OBVIOUS
<1>2. c \notin Named(name) /\ c \notin Named(name)'
  BY <1>1 DEF Named, Managed, Name
<1>3. Named(name)' = Named(name)
  BY <1>2 DEF Named, Managed, Exists
<1>4. CASE Named(name) = {}
  BY <1>3, <1>4 DEF SlotStatus
<1>5. CASE Named(name) # {}
  <2>1. (CHOOSE d \in Named(name) : TRUE) \in Named(name)
    BY <1>5
  <2>2. (CHOOSE d \in Named(name) : TRUE) \in Cids \ {c}
    BY <1>2, <2>1 DEF Named, Managed
  <2>3. QED
    BY <1>3, <1>5, <2>2 DEF SlotStatus
<1>6. QED
  BY <1>4, <1>5

LEMMA SlotOfNext ==
  ASSUME OneEach', NEW c \in Cids, Exists(c)'
  PROVE  Name(c)' \in Kinds \X UUIDs /\ SlotStatus(Name(c))' = containers'[c].status
<1>1. Name(c)' \in Kinds \X UUIDs
  BY DEF OneEach, Name
<1>2. Named(Name(c))' = {c}
  BY DEF OneEach, Named, Managed, Name
<1>3. QED
  BY <1>1, <1>2 DEF SlotStatus

\* A move of one container is a move of one name.
LEMMA SlotMoves ==
  ASSUME TypeInv, OneEach, OneEach', OneMove
  PROVE  [Slots!Next]_[name \in Kinds \X UUIDs |-> SlotStatus(name)]
<1> DEFINE slot == [name \in Kinds \X UUIDs |-> SlotStatus(name)]
<1>1. CASE containers' = containers
  BY <1>1 DEF SlotStatus, Named, Managed, Exists
<1>2. ASSUME NEW name \in Kinds \X UUIDs, NEW from, NEW to,
             SlotStatus(name) = from, SlotStatus(name)' = to,
             \A other \in Kinds \X UUIDs : other # name =>
               SlotStatus(other)' = SlotStatus(other)
      PROVE  Slots!Move(name, from, to)
  <2>1. slot[name] = from
    BY <1>2
  <2>2. slot' = [slot EXCEPT ![name] = to]
    BY <1>2
  <2>3. QED
    BY <2>1, <2>2 DEF Slots!Move
<1>3. ASSUME NEW c \in Cids, Touches(c), Created1(c)
      PROVE  Slots!Next
  <2>1. PICK kind \in Kinds, u \in UUIDs :
          /\ ~NameTaken(kind, u)
          /\ containers'[c] = [status |-> "created", kind |-> kind, uuid |-> u,
                               code |-> "zero"]
    BY <1>3 DEF Created1
  <2>2. /\ ~Exists(c) /\ Exists(c)' /\ Name(c)' = <<kind, u>>
        /\ \A d \in Cids \ {c} : containers'[d] = containers[d]
    BY <1>3, <2>1 DEF Created1, Touches, Exists, Name
  <2>3. SlotStatus(<<kind, u>>) = "none"
    BY <2>1, EmptySlot
  <2>4. SlotStatus(Name(c))' = "created"
    BY <2>1, <2>2, SlotOfNext
  <2>5. SlotStatus(<<kind, u>>)' = "created"
    BY <2>2, <2>4 DEF SlotStatus, Named, Managed
  <2>6. \A other \in Kinds \X UUIDs : other # <<kind, u>> =>
          SlotStatus(other)' = SlotStatus(other)
    BY <2>2, OtherSlots
  <2>7. Slots!Move(<<kind, u>>, "none", "created")
    BY <1>2, <2>3, <2>5, <2>6
  <2>8. QED
    BY <2>7 DEF Slots!Next, Slots!Create
<1>4. ASSUME NEW c \in Cids, Touches(c), SameName(c), Exists(c)', Exists(c)
      PROVE  Slots!Move(Name(c), containers[c].status, containers'[c].status)
  <2>1. /\ Name(c)' = Name(c) /\ Name(c) \in Kinds \X UUIDs
        /\ SlotStatus(Name(c)) = containers[c].status
    BY <1>4, SlotOf DEF Name, SameName
  <2>2. SlotStatus(Name(c))' = containers'[c].status
    BY <1>4, SlotOfNext
  <2>3. \A other \in Kinds \X UUIDs : other # Name(c) =>
          SlotStatus(other)' = SlotStatus(other)
    BY <1>4, <2>1, OtherSlots DEF Touches
  <2>4. PICK name \in Kinds \X UUIDs : name = Name(c)
    BY <2>1
  <2>5. SlotStatus(name)' = containers'[c].status
    BY <2>1, <2>2, <2>4 DEF SlotStatus, Named, Managed, Name
  <2>6. QED
    BY <1>2, <2>1, <2>3, <2>4, <2>5
<1>5. ASSUME NEW c \in Cids, Touches(c), (Started(c) \/ Ended(c)) /\ SameName(c)
      PROVE  Slots!Next
  <2>1. Exists(c) /\ Exists(c)' /\ SameName(c)
    BY <1>5 DEF Started, Ended, Exists
  <2>2. /\ Name(c) \in Kinds \X UUIDs
        /\ Slots!Move(Name(c), containers[c].status, containers'[c].status)
    BY <1>4, <1>5, <2>1, SlotOf
  <2>3. QED
    BY <1>5, <2>2 DEF Slots!Next, Slots!Start, Slots!Exit, Started, Ended
<1>6. ASSUME NEW c \in Cids, Touches(c), Gone(c)
      PROVE  Slots!Next
  <2>1. /\ Exists(c) /\ ~Exists(c)'
        /\ \A d \in Cids \ {c} : containers'[d] = containers[d]
    BY <1>6 DEF Gone, Touches, Exists
  <2>2. PICK name \in Kinds \X UUIDs : name = Name(c)
    BY <2>1, SlotOf
  <2>3. SlotStatus(name) = containers[c].status
    BY <2>1, <2>2, SlotOf
  <2>4. SlotStatus(name)' = "none"
    <3>1. Named(name) = {c}
      BY <2>1, <2>2 DEF OneEach, Named, Managed, Name
    <3>2. Named(name)' = {}
      BY <2>1, <3>1 DEF Named, Managed, Exists
    <3>3. QED
      BY <3>2 DEF SlotStatus
  <2>5. \A other \in Kinds \X UUIDs : other # name =>
          SlotStatus(other)' = SlotStatus(other)
    BY <2>1, <2>2, OtherSlots
  <2>6. Slots!Move(name, containers[c].status, "none")
    BY <1>2, <2>3, <2>4, <2>5
  <2>7. containers[c].status \in Slots!Statuses
    BY DEF TypeInv, TypeOK, DockerTypeOK, Container, Slots!Statuses
  <2>8. QED
    BY <2>6, <2>7 DEF Slots!Next, Slots!Remove
<1>7. QED
  BY <1>1, <1>3, <1>5, <1>6 DEF OneMove, Touches

\* The whole daemon, with failing calls, crashes and restarts, uses the
\* containers of one name as ContainerSlots says: one at a time, each started
\* once (docker/manager.go:65, servers.go:255-268).
THEOREM SlotsImplemented == Spec => ContainersUsedOnce
<1>1. Init => Slots!Init
  BY DEF Init, DockerInit, NoContainer, Slots!Init, SlotStatus, Named, Managed,
     Exists
<1>2. Init => TypeInv /\ Alive /\ Used
  BY TypeInit, AliveInit, UsedInit
<1>3. TypeInv /\ Alive /\ Used /\ [Next]_vars => (TypeInv /\ Alive /\ Used)'
  BY TypeNext, AliveNext, UsedNext
<1>4. TypeInv /\ Alive /\ Used /\ [Next]_vars =>
        [Slots!Next]_[name \in Kinds \X UUIDs |-> SlotStatus(name)]
  BY UsedNext, SlotMoves DEF Used
<1>5. QED
  BY <1>1, <1>2, <1>3, <1>4, PTL DEF Spec, ContainersUsedOnce, Slots!Spec

-----------------------------------------------------------------------------
(***************************************************************************)
(* A sample never reaches another server than the one it was measured on:  *)
(* SampleOwn of Monitor, for every instance.  A probe passes a pointer and *)
(* a container id from step to step while servers come and go, so what     *)
(* must be known is that id and pointer stay a pair: whoever can still be  *)
(* asked for its container id answers with one of its own (OwnerTrue).     *)
(***************************************************************************)

Probe == [pc : {"idle", "read_id", "read_state", "stats", "store"},
          uuid : UUIDs \cup {Null}, srv : Srvs \cup {Null},
          cid : Cids \cup {Null}, got : Srvs \cup {Null}]

\* A probe is only in flight while the API listens.
ProbesTyped ==
  /\ probe \in [Probes -> Probe]
  /\ sample \in [Srvs -> Srvs \cup {Null}]
  /\ owner \in [Cids -> Srvs \cup {Null}]
  /\ \A p \in Probes :
       /\ probe[p].pc # "idle" => probe[p].srv \in Srvs /\ daemon = "up"
       /\ probe[p].pc \in {"read_state", "stats"} => probe[p].cid \in Cids

HeldByProbe(s) == \E p \in Probes : probe[p].pc # "idle" /\ probe[p].srv = s

\* The container id in an object that somebody can still ask, and the one a
\* start is about to store, name a container of this object.
OwnerTrue ==
  /\ \A s \in Srvs :
       servers[s].cid # Null /\ (~Unreachable(s) \/ HeldByProbe(s)) =>
         owner[servers[s].cid] \in {Null, s}
  /\ \A r \in Reqs : req[r].pc = "set_id" => owner[req[r].cid] \in {Null, req[r].srv}

ProbesTrue ==
  \A p \in Probes :
    /\ probe[p].pc \in {"read_state", "stats"} =>
         owner[probe[p].cid] \in {Null, probe[p].srv}
    /\ probe[p].pc = "store" => probe[p].got \in {Null, probe[p].srv}

\* With TypeInv and Owned, the inductive invariant behind SampleOwn.
SampleInv == ProbesTyped /\ OwnerTrue /\ ProbesTrue /\ SampleOwn

-----------------------------------------------------------------------------
(* The owners after a step of Lifecycle                                    *)

LEMMA OwnerNext ==
  ASSUME LifecycleStep, NEW c \in Cids
  PROVE  /\ c \notin NewCids =>
              \/ owner'[c] \in {Null, owner[c]}
              \/ owner'[c] \in Placed /\ servers'[owner'[c]].cid = c
         /\ c \in NewCids => owner'[c] \in {Null, Maker(c)}
<1>1. owner'[c] = NewOwner(c)
  BY DEF LifecycleStep
<1>2. (\E s \in Placed : servers'[s].cid = c) =>
        /\ (CHOOSE s \in Placed : servers'[s].cid = c) \in Placed
        /\ servers'[CHOOSE s \in Placed : servers'[s].cid = c].cid = c
  OBVIOUS
<1>3. QED
  BY <1>1, <1>2 DEF NewOwner

\* What holds of the probes and their samples whatever Lifecycle does.
LEMMA ProbesStep ==
  ASSUME SampleInv, LifecycleStep,
         daemon' # "down" => daemon' = daemon \/ daemon # "up",
         owner' \in [Cids -> Srvs \cup {Null}],
         daemon = "up" => \A c \in Cids \ NewCids : owner'[c] \in {Null, owner[c]}
  PROVE  ProbesTyped' /\ ProbesTrue' /\ SampleOwn'
<1> USE DEF SampleInv, ProbesTyped, ProbesTrue
<1>1. CASE daemon' = "down"
  <2>1. /\ probe' = [p \in Probes |-> IdleProbe]
        /\ sample' = [s \in Srvs |-> Null]
    BY <1>1 DEF LifecycleStep
  <2>2. IdleProbe \in Probe /\ IdleProbe.pc = "idle"
    BY DEF IdleProbe, Probe
  <2>3. QED
    BY <2>1, <2>2 DEF SampleOwn
<1>2. CASE daemon' # "down"
  <2>1. /\ probe' = probe
        /\ sample' = [s \in Srvs |-> IF s \in Placed THEN Null ELSE sample[s]]
        /\ \A p \in Probes : probe[p].cid \notin NewCids
    BY <1>2 DEF LifecycleStep, HoldersKept
  <2>2. ProbesTyped'
    BY <1>2, <2>1
  <2>3. SampleOwn'
    BY <2>1 DEF SampleOwn
  <2>4. ProbesTrue'
    BY <2>1
  <2>5. QED
    BY <2>2, <2>3, <2>4
<1>3. QED
  BY <1>1, <1>2

\* When the process ends nothing is known of the containers.
LEMMA DownSample ==
  ASSUME TypeInv', Owned', SampleInv, LifecycleStep, daemon' = "down"
  PROVE  SampleInv'
<1>1. owner' = [c \in Cids |-> Null]
  BY DEF LifecycleStep, NewOwner
<1>2. \A s \in Srvs : servers'[s].cid # Null => servers'[s].cid \in Cids
  BY DEF TypeInv, TypeOK, RegistryTypeOK, Server
<1>3. \A r \in Reqs : req'[r].pc = "set_id" => req'[r].cid \in Cids
  BY DEF Owned, OwnsStored
<1>4. OwnerTrue'
  BY <1>1, <1>2, <1>3 DEF OwnerTrue
<1>5. ProbesTyped' /\ ProbesTrue' /\ SampleOwn'
  BY <1>1, ProbesStep
<1>6. QED
  BY <1>4, <1>5 DEF SampleInv

\* A step that makes no container and stores none.
Calm ==
  /\ NewCids = {}
  /\ daemon' # "down" => daemon' = daemon \/ daemon # "up"
  /\ \A s \in Placed : servers'[s].cid = Null
  /\ \A s \in Srvs \ Placed : servers'[s].cid \in {Null, servers[s].cid}
  /\ \A s \in Srvs \ Placed : Unreachable(s) => Unreachable(s)'
  /\ \A r \in Reqs : req'[r].pc = "set_id" => req'[r] = req[r]

LEMMA CalmOwners ==
  ASSUME SampleInv, LifecycleStep, NewCids = {},
         \A s \in Placed : servers'[s].cid \notin Cids
  PROVE  /\ owner' \in [Cids -> Srvs \cup {Null}]
         /\ \A c \in Cids : owner'[c] \in {Null, owner[c]}
<1>1. \A c \in Cids : owner'[c] \in {Null, owner[c]}
  BY OwnerNext
<1>2. owner' = [c \in Cids |-> owner'[c]]
  BY DEF LifecycleStep
<1>3. \A c \in Cids : owner'[c] \in Srvs \cup {Null}
  BY <1>1 DEF SampleInv, ProbesTyped
<1>4. QED
  BY <1>1, <1>2, <1>3

LEMMA CalmSample ==
  ASSUME TypeInv', Owned', SampleInv, LifecycleStep, Calm
  PROVE  SampleInv'
<1>1. CASE daemon' = "down"
  BY <1>1, DownSample
<1>2. CASE daemon' # "down"
  <2>1. /\ owner' \in [Cids -> Srvs \cup {Null}]
        /\ \A c \in Cids : owner'[c] \in {Null, owner[c]}
    BY CalmOwners, NodeAssumption DEF Calm
  <2>2. ProbesTyped' /\ ProbesTrue' /\ SampleOwn'
    BY <2>1, ProbesStep DEF Calm
  <2>3. probe' = probe
    BY <1>2 DEF LifecycleStep
  <2>4. \A s \in Srvs : servers'[s].cid # Null => servers'[s].cid \in Cids
    BY DEF TypeInv, TypeOK, RegistryTypeOK, Server
  <2>5. ASSUME NEW s \in Srvs, servers'[s].cid # Null,
               ~Unreachable(s)' \/ HeldByProbe(s)'
        PROVE  owner'[servers'[s].cid] \in {Null, s}
    <3>1. s \notin Placed /\ servers'[s].cid = servers[s].cid
      BY <2>5 DEF Calm
    <3>2. ~Unreachable(s) \/ HeldByProbe(s)
      BY <2>3, <2>5, <3>1 DEF Calm, HeldByProbe
    <3>3. owner[servers[s].cid] \in {Null, s}
      BY <2>5, <3>1, <3>2 DEF SampleInv, OwnerTrue
    <3>4. QED
      BY <2>1, <2>4, <2>5, <3>1, <3>3
  <2>6. ASSUME NEW r \in Reqs, req'[r].pc = "set_id"
        PROVE  owner'[req'[r].cid] \in {Null, req'[r].srv}
    <3>1. req'[r].cid \in Cids
      BY <2>6 DEF Owned, OwnsStored
    <3>2. req'[r] = req[r] /\ owner[req[r].cid] \in {Null, req[r].srv}
      BY <2>6 DEF Calm, SampleInv, OwnerTrue
    <3>3. QED
      BY <2>1, <3>1, <3>2
  <2>7. QED
    BY <2>2, <2>5, <2>6 DEF SampleInv, OwnerTrue
<1>3. QED
  BY <1>1, <1>2

-----------------------------------------------------------------------------
(* The calm steps                                                          *)

LEMMA NothingNew ==
  ASSUME OnlyEnds PROVE NewCids = {}
  BY DEF OnlyEnds, Ended, Gone, NewCids, Exists

LEMMA StartsNothingNew ==
  ASSUME TypeInv, NEW c, Exists(c), ContainerStart(c) PROVE NewCids = {}
<1>1. c \in Cids /\ \A d \in Cids \ {c} : containers'[d] = containers[d]
  BY StartType DEF Exists, TypeInv, TypeOK
<1>2. QED
  BY <1>1 DEF NewCids, Exists

LEMMA NothingPlaced ==
  ASSUME \A u \in UUIDs : registry'[u] \in {Null, registry[u]}
  PROVE  Placed = {}
  BY NodeAssumption DEF Placed

\* Only the step that stores the id is taken with it in hand.
LEMMA AtSetID ==
  ASSUME NEW r \in Reqs, req[r].pc = "set_id", NewRequest(r) \/ Handler(r)
  PROVE  StoreID(r)
<1> USE DEF At
<1>1. ~NewRequest(r) /\ ~CreateSteps(r) /\ ~DeleteSteps(r)
  BY DEF NewRequest, CreateRequest, ServerRequest, CreateSteps, CreateDir,
     AddServer, SpawnInstaller, DeleteSteps, DeleteReadID, ReadID, DeleteStop,
     DeleteRemove, DeleteDir, DeleteEntry
<1>2. ~PowerSteps(r)
  BY DEF PowerSteps, StopReadID, ReadID, StopStopping, Mark, StopContainer,
     StopOffline, RestartReadID, RestartStopping, RestartStop, RestartRemove,
     RestartClear, ClearID, KillReadID, KillContainer, KillCrashed
<1>3. StartSteps(r)
  BY <1>1, <1>2 DEF Handler
<1>4. QED
  BY <1>3 DEF StartSteps, CheckInstalling, StartReadID, ReadID, RemoveStale,
     StartClear, ClearID, SetStarting, Mark, PullImage, CreateContainer,
     StartContainer, SetRunning, SpawnWatch, StartFailed

\* The steps of a request concern this request.
LEMMA OthersWait ==
  ASSUME TypeInv, NEW r \in Reqs, NewRequest(r) \/ Handler(r)
  PROVE  \A q \in Reqs \ {r} : req'[q] = req[q]
<1> USE DEF TypeInv, TypeOK, Reply, Goto, GotoWith, GotoHolding
<1>1. CASE NewRequest(r) \/ CreateSteps(r)
  BY <1>1 DEF NewRequest, CreateRequest, ServerRequest, CreateSteps, CreateDir,
     AddServer, SpawnInstaller
<1>2. CASE DeleteSteps(r)
  BY <1>2 DEF DeleteSteps, DeleteReadID, ReadID, DeleteStop, DeleteRemove,
     DeleteDir, DeleteEntry
<1>3. CASE StartSteps(r)
  BY <1>3 DEF StartSteps, CheckInstalling, StartReadID, ReadID, RemoveStale,
     StartClear, ClearID, SetStarting, Mark, PullImage, CreateContainer, StoreID,
     StartContainer, SetRunning, SpawnWatch, StartFailed
<1>4. CASE PowerSteps(r)
  BY <1>4 DEF PowerSteps, StopReadID, ReadID, StopStopping, Mark, StopContainer,
     StopOffline, RestartReadID, RestartStopping, RestartStop, RestartRemove,
     RestartClear, ClearID, KillReadID, KillContainer, KillCrashed
<1>5. QED
  BY <1>1, <1>2, <1>3, <1>4 DEF Handler

LEMMA HandlerCalm ==
  ASSUME TypeInv, Owned, NEW r \in Reqs, NewRequest(r) \/ Handler(r),
         ~AddServer(r), ~CreateContainer(r), ~StoreID(r)
  PROVE  Calm
<1>1. ClaimsKept /\ UNCHANGED bootVars
  BY HandlerClaimsKept DEF Owned
<1>2. NewCids = {}
  <2>1. CASE StartContainer(r)
    BY <2>1, SameEnds, NothingNew, StartsNothingNew DEF StartContainer, CallFails
  <2>2. CASE ~StartContainer(r)
    BY <2>2, HandlerEnds, NothingNew
  <2>3. QED
    BY <2>1, <2>2
<1>3. /\ \A u \in UUIDs : registry'[u] \in {Null, registry[u]}
      /\ \A s \in Srvs : Unreachable(s) => Unreachable(s)'
  <2>1. CASE DeleteEntry(r)
    BY <2>1, DeleteEntryLoses
  <2>2. CASE ~DeleteEntry(r)
    <3>1. PointersKept
      BY <2>2, HandlerPointersKept
    <3>2. QED
      BY <3>1, StaysUnreachable DEF PointersKept
  <2>3. QED
    BY <2>1, <2>2
<1>4. \A q \in Reqs : req'[q].pc = "set_id" => req'[q] = req[q]
  BY <1>1, AtSetID, OthersWait DEF ClaimsKept
<1>5. Placed = {}
  BY <1>3, NothingPlaced
<1>6. QED
  BY <1>1, <1>2, <1>3, <1>4, <1>5 DEF Calm, ClaimsKept, bootVars

LEMMA BackgroundCalm ==
  ASSUME TypeInv, PointersKept, req' = req, NewCids = {},
         \A s \in Srvs : servers'[s].cid = servers[s].cid,
         daemon' # "down" => daemon' = daemon \/ daemon # "up"
  PROVE  Calm
<1>1. Placed = {} /\ \A s \in Srvs : Unreachable(s) => Unreachable(s)'
  BY NothingPlaced, StaysUnreachable DEF PointersKept
<1>2. QED
  BY <1>1 DEF Calm

LEMMA InstallerCalm ==
  ASSUME TypeInv, NEW s \in Srvs, Installer(s) \/ StreamBreaks(s), ~InstallCreate(s)
  PROVE  Calm
<1>1. PointersKept
  BY InstallerKeeps
<1>2. UNCHANGED <<req, bootVars>>
  BY DEF Installer, StreamBreaks, InstallPull, InstallCreate, InstallStart,
     InstallLogs, InstallWait, InstallKill, InstallRemove, InstallFinish
<1>3. \A a \in Srvs : servers'[a].cid = servers[a].cid
  BY DEF Installer, StreamBreaks, InstallPull, InstallStart,
     InstallLogs, InstallWait, InstallKill, InstallRemove, InstallFinish,
     SetState, registryVars, TypeInv, TypeOK, RegistryTypeOK, Server
<1>4. NewCids = {}
  <2>1. CASE InstallStart(s)
    BY <2>1, SameEnds, NothingNew, StartsNothingNew DEF InstallStart
  <2>2. CASE InstallKill(s)
    BY <2>2, HaltEnds, SameEnds, NothingNew DEF InstallKill, Codes
  <2>3. CASE InstallRemove(s)
    BY <2>3, CallEnds, NothingNew DEF InstallRemove
  <2>4. CASE InstallPull(s) \/ InstallLogs(s) \/ StreamBreaks(s) \/ InstallWait(s)
             \/ InstallFinish(s)
    BY <2>4, SameEnds, NothingNew DEF InstallPull, InstallLogs, StreamBreaks,
       InstallWait, InstallFinish, dockerVars
  <2>5. QED
    BY <2>1, <2>2, <2>3, <2>4 DEF Installer
<1>5. QED
  BY <1>1, <1>2, <1>3, <1>4, BackgroundCalm DEF bootVars

LEMMA WatcherCalm ==
  ASSUME TypeInv, NEW c \in Cids,
         \/ Watcher(c) \/ WaitBreaks(c)
         \/ \E code \in Codes : ContainerExit(c, code)
  PROVE  Calm
<1>1. PointersKept
  BY WatcherKeeps, ContainerExitKeeps
<1>2. UNCHANGED <<req, bootVars>>
  BY DEF Watcher, WaitBreaks, WatchExit, WatchError, WatchFailed, WatchCancelled,
     ContainerExit
<1>3. \A a \in Srvs : servers'[a].cid = servers[a].cid
  BY DEF Watcher, WaitBreaks, WatchExit, WatchError, WatchFailed, WatchCancelled,
     ContainerExit, SetState, registryVars, TypeInv, TypeOK, RegistryTypeOK, Server
<1>4. OnlyEnds
  BY HaltEnds, SameEnds DEF Watcher, WaitBreaks, WatchExit, WatchError,
     WatchFailed, WatchCancelled, ContainerExit
<1>5. QED
  BY <1>1, <1>2, <1>3, <1>4, NothingNew, BackgroundCalm DEF bootVars

LEMMA BootCalm ==
  ASSUME TypeInv, Boot \/ Serve
  PROVE  Calm
<1>1. /\ UNCHANGED <<containers, registry, servers, req, inst, watch>>
      /\ daemon # "up"
  BY DEF Boot, Serve, dockerVars, registryVars
<1>2. NewCids = {} /\ PointersKept
  BY <1>1, SameEnds, NothingNew DEF PointersKept
<1>3. QED
  BY <1>1, <1>2, BackgroundCalm

\* A new object has no container.
LEMMA PlacedIs ==
  ASSUME TypeInv, NEW s \in Srvs, Unreachable(s), NEW server \in Server,
         server.uuid \in UUIDs, Add(s, server), watch' = watch, inst' = inst,
         \A q \in Reqs : req'[q].srv \in {Null, s, req[q].srv}
  PROVE  /\ Placed = {s}
         /\ servers'[s] = server
         /\ \A a \in Srvs \ {s} : servers'[a] = servers[a]
         /\ \A a \in Srvs \ {s} : Unreachable(a) => Unreachable(a)'
<1>1. /\ servers'[s] = server /\ registry'[server.uuid] = s
      /\ registry[server.uuid] = Null
      /\ \A a \in Srvs \ {s} : servers'[a] = servers[a]
      /\ \A v \in UUIDs \ {server.uuid} : registry'[v] = registry[v]
  BY AddType DEF Add, TypeInv, TypeOK
<1>2. Placed = {s}
  BY <1>1, NodeAssumption DEF Placed
<1>3. \A a \in Srvs \ {s} : Unreachable(a) => Unreachable(a)'
  BY <1>1, NodeAssumption DEF Unreachable
<1>4. QED
  BY <1>1, <1>2, <1>3

LEMMA AddServerCalm ==
  ASSUME TypeInv, NEW r \in Reqs, AddServer(r)
  PROVE  Calm
<1> USE DEF registryVars, dockerVars, bootVars
<1>1. /\ UNCHANGED <<containers, watch, inst, daemon>>
      /\ req[r].pc = "add" /\ req[r].uuid \in UUIDs
  BY DEF AddServer, At, TypeInv, Holds
<1>2. NewCids = {}
  BY <1>1, SameEnds, NothingNew
<1>3. \A q \in Reqs \ {r} : req'[q] = req[q]
  BY OthersWait DEF Handler, CreateSteps
<1>4. req'[r].pc # "set_id"
  <2>1. Reply(r) => req'[r].pc = "idle"
    BY ReplyType DEF TypeInv, TypeOK
  <2>2. \A s \in Srvs : GotoHolding(r, "installing", s) => req'[r].pc = "installing"
    BY DEF GotoHolding, TypeInv, TypeOK, Request
  <2>3. QED
    BY <2>1, <2>2 DEF AddServer
<1>5. CASE Reply(r) /\ UNCHANGED registryVars
  <2>1. PointersKept
    BY <1>1, <1>5, StepKeeps
  <2>2. Placed = {} /\ \A s \in Srvs : Unreachable(s) => Unreachable(s)'
    BY <2>1, NothingPlaced, StaysUnreachable DEF PointersKept
  <2>3. QED
    BY <1>1, <1>2, <1>3, <1>4, <1>5, <2>2 DEF Calm
<1>6. ASSUME NEW s \in Srvs, Unreachable(s), Add(s, New(req[r].uuid, TRUE)),
             Reply(r) \/ GotoHolding(r, "installing", s)
      PROVE  Calm
  <2> DEFINE server == New(req[r].uuid, TRUE)
  <2>1. server \in Server /\ server.uuid \in UUIDs /\ server.cid = Null
    BY <1>1 DEF New, Server, States
  <2>2. Add(s, server)
    BY <1>6
  <2>3. \A q \in Reqs : req'[q].srv \in {Null, s, req[q].srv}
    BY <1>6 DEF Reply, Idle, GotoHolding, TypeInv, TypeOK, Request
  <2> HIDE DEF server
  <2>4. /\ Placed = {s}
        /\ servers'[s].cid = Null
        /\ \A a \in Srvs \ {s} : servers'[a] = servers[a]
        /\ \A a \in Srvs \ {s} : Unreachable(a) => Unreachable(a)'
    BY <1>1, <1>6, <2>1, <2>2, <2>3, PlacedIs
  <2>5. QED
    BY <1>1, <1>2, <1>3, <1>4, <2>4 DEF Calm
<1>7. QED
  BY <1>5, <1>6 DEF AddServer

-----------------------------------------------------------------------------
(* The steps that make or store a container                                *)

\* The id a start has had since ContainerCreate is stored in the object that
\* the container was created for.
LEMMA StoreIDSample ==
  ASSUME TypeInv, TypeInv', Owned', SampleInv, LifecycleStep, NEW r \in Reqs,
         StoreID(r)
  PROVE  SampleInv'
<1> DEFINE s == req[r].srv
           c == req[r].cid
<1>1. /\ UNCHANGED <<containers, watch, registry, inst, daemon>>
      /\ req[r].pc = "set_id" /\ SetContainerID(s, c)
      /\ s \in Srvs /\ c \in Cids \cup {Null}
  BY DEF StoreID, At, dockerVars, bootVars, TypeInv, TypeOK, Request, Holds, NoSrvPcs
<1>2. NewCids = {} /\ Placed = {}
  BY <1>1, SameEnds, NothingNew, NothingPlaced
<1>3. /\ owner' \in [Cids -> Srvs \cup {Null}]
      /\ \A d \in Cids : owner'[d] \in {Null, owner[d]}
  BY <1>2, CalmOwners
<1>4. ProbesTyped' /\ ProbesTrue' /\ SampleOwn'
  BY <1>1, <1>3, ProbesStep
<1>5. CASE daemon' = "down"
  BY <1>5, DownSample
<1>6. CASE daemon' # "down"
  <2>1. probe' = probe
    BY <1>6 DEF LifecycleStep
  <2>2. /\ \A a \in Srvs \ {s} : servers'[a].cid = servers[a].cid
        /\ servers'[s].cid = c
    BY <1>1 DEF SetContainerID, TypeInv, TypeOK, RegistryTypeOK, Server
  <2>3. \A a \in Srvs : Unreachable(a) => Unreachable(a)'
    <3>1. PointersKept
      BY StartStepsKeeps DEF StartSteps
    <3>2. QED
      BY <3>1, StaysUnreachable
  <2>4. \A a \in Srvs : servers'[a].cid # Null => servers'[a].cid \in Cids
    BY DEF TypeInv, TypeOK, RegistryTypeOK, Server
  <2>5. ASSUME NEW a \in Srvs, servers'[a].cid # Null,
               ~Unreachable(a)' \/ HeldByProbe(a)'
        PROVE  owner[servers'[a].cid] \in {Null, a}
    <3>1. CASE a = s
      BY <1>1, <2>2, <3>1 DEF SampleInv, OwnerTrue
    <3>2. CASE a # s
      BY <2>1, <2>2, <2>3, <2>5, <3>2 DEF SampleInv, OwnerTrue, HeldByProbe
    <3>3. QED
      BY <3>1, <3>2
  <2>6. \A q \in Reqs : req'[q].pc = "set_id" => req'[q] = req[q]
    <3>1. req'[r].pc = "run"
      BY DEF StoreID, Goto, TypeInv, TypeOK, Request
    <3>2. QED
      BY <3>1, OthersWait DEF Handler, StartSteps
  <2>7. \A q \in Reqs : req'[q].pc = "set_id" => req'[q].cid \in Cids
    BY DEF Owned, OwnsStored
  <2>8. OwnerTrue'
    BY <1>3, <2>4, <2>5, <2>6, <2>7 DEF OwnerTrue, SampleInv
  <2>9. QED
    BY <1>4, <2>8 DEF SampleInv
<1>7. QED
  BY <1>5, <1>6

\* A container is new, and somebody at the address s knows its id.
LEMMA MadeSample ==
  ASSUME TypeInv, TypeInv', Owned', SampleInv, LifecycleStep,
         NEW c \in Cids, Fresh(c), NEW s \in Srvs, Maker(c) = s,
         \A d \in Cids \ {c} : containers'[d] = containers[d],
         Exists(c)',
         UNCHANGED <<servers, bootVars>>, PointersKept,
         \A q \in Reqs : req'[q].pc = "set_id" =>
           req'[q] = req[q] \/ (req'[q].cid = c /\ req'[q].srv = s)
  PROVE  SampleInv'
<1>1. ~Exists(c) /\ NewCids = {c} /\ Placed = {}
  BY NothingPlaced DEF NewCids, Exists, Fresh, PointersKept
<1>2. owner' = [d \in Cids |-> owner'[d]]
  BY DEF LifecycleStep
<1>3. /\ \A d \in Cids \ {c} : owner'[d] \in {Null, owner[d]}
      /\ owner'[c] \in {Null, s}
  BY <1>1, OwnerNext
<1>4. owner' \in [Cids -> Srvs \cup {Null}]
  BY <1>2, <1>3 DEF SampleInv, ProbesTyped
<1>5. ProbesTyped' /\ ProbesTrue' /\ SampleOwn'
  BY <1>1, <1>3, <1>4, ProbesStep DEF bootVars
<1>6. CASE daemon' = "down"
  BY <1>6, DownSample
<1>7. CASE daemon' # "down"
  <2>1. /\ probe' = probe
        /\ \A p \in Probes : probe[p].srv # Null => servers[probe[p].srv].cid # c
    BY <1>1, <1>7 DEF LifecycleStep, HoldersKept
  <2>2. \A a \in Srvs : Unreachable(a) => Unreachable(a)'
    BY StaysUnreachable
  <2>3. \A a \in Srvs : servers[a].cid = c => Unreachable(a) /\ ~HeldByProbe(a)
    BY <2>1, NodeAssumption DEF Fresh, HeldByProbe
  <2>4. \A a \in Srvs : servers[a].cid # Null => servers[a].cid \in Cids
    BY DEF TypeInv, TypeOK, RegistryTypeOK, Server
  <2>5. ASSUME NEW a \in Srvs, servers'[a].cid # Null,
               ~Unreachable(a)' \/ HeldByProbe(a)'
        PROVE  owner'[servers'[a].cid] \in {Null, a}
    <3>1. /\ servers'[a].cid = servers[a].cid /\ servers[a].cid \in Cids \ {c}
          /\ owner[servers[a].cid] \in {Null, a}
      BY <2>1, <2>2, <2>3, <2>4, <2>5 DEF SampleInv, OwnerTrue, HeldByProbe
    <3>2. QED
      BY <1>3, <3>1
  <2>6. ASSUME NEW q \in Reqs, req'[q].pc = "set_id"
        PROVE  owner'[req'[q].cid] \in {Null, req'[q].srv}
    <3>1. CASE req'[q] = req[q]
      <4>1. req[q].cid # c /\ owner[req[q].cid] \in {Null, req[q].srv}
        BY <2>6, <3>1 DEF Fresh, SampleInv, OwnerTrue
      <4>2. req[q].cid \in Cids
        BY <2>6, <3>1 DEF Owned, OwnsStored
      <4>3. QED
        BY <1>3, <3>1, <4>1, <4>2
    <3>2. CASE req'[q].cid = c /\ req'[q].srv = s
      BY <1>3, <3>2
    <3>3. QED
      BY <2>6, <3>1, <3>2
  <2>7. QED
    BY <1>5, <2>5, <2>6 DEF SampleInv, OwnerTrue
<1>8. QED
  BY <1>6, <1>7

\* Whom the new container is made for is not in doubt.
LEMMA MakerIs ==
  ASSUME NEW c \in Cids, NEW s \in Srvs,
         \A t \in Srvs : (\/ \E r \in Reqs : req'[r].srv = t /\ req'[r].cid = c
                          \/ inst'[t].cid = c) <=> t = s
  PROVE  Maker(c) = s
  BY DEF Maker

LEMMA CreateContainerSample ==
  ASSUME TypeInv, TypeInv', Owned, Owned', SampleInv, LifecycleStep, NEW r \in Reqs,
         CreateContainer(r)
  PROVE  SampleInv'
<1>1. /\ UNCHANGED <<watch, servers, inst, bootVars>>
      /\ req[r].pc = "create" /\ req[r].srv \in Srvs
      /\ {"set_id", "crashed"} \subseteq ReqPcs
      /\ req \in [Reqs -> Request]
  BY DEF CreateContainer, At, registryVars, TypeInv, TypeOK, Holds, NoSrvPcs,
     ReqPcs, StartPcs
<1>2. PointersKept
  BY StartStepsKeeps DEF StartSteps
<1>3. \A q \in Reqs \ {r} : req'[q] = req[q]
  BY OthersWait DEF Handler, StartSteps
<1>4. CASE Goto(r, "crashed") /\ UNCHANGED containers
  <2>1. NewCids = {} /\ Placed = {}
    BY <1>2, <1>4, SameEnds, NothingNew, NothingPlaced DEF PointersKept
  <2>2. req'[r].pc = "crashed"
    BY <1>1, <1>4, GotoType
  <2>3. Calm
    BY <1>1, <1>2, <1>3, <2>1, <2>2, StaysUnreachable DEF Calm, bootVars
  <2>4. QED
    BY <2>3, CalmSample
<1>5. ASSUME NEW c \in Cids, Fresh(c), ContainerCreate(c, "game", Srv(r).uuid),
             GotoWith(r, "set_id", c)
      PROVE  SampleInv'
  <2>1. req'[r].cid = c /\ req'[r].srv = req[r].srv
    BY <1>1, <1>5, GotoWithType
  <2>2. /\ \A d \in Cids \ {c} : containers'[d] = containers[d]
        /\ Exists(c)'
    BY <1>5 DEF ContainerCreate, Exists, TypeInv, TypeOK, DockerTypeOK
  <2>3. Maker(c) = req[r].srv
    BY <1>1, <1>3, <1>5, <2>1, MakerIs DEF Fresh
  <2>4. QED
    BY <1>1, <1>2, <1>3, <1>5, <2>1, <2>2, <2>3, MadeSample
<1>6. QED
  BY <1>4, <1>5 DEF CreateContainer

LEMMA InstallCreateSample ==
  ASSUME TypeInv, TypeInv', Owned', SampleInv, LifecycleStep, NEW s \in Srvs,
         InstallCreate(s)
  PROVE  SampleInv'
<1>1. UNCHANGED <<watch, servers, registry, req, bootVars>>
  BY DEF InstallCreate, registryVars
<1>2. PointersKept
  BY InstallerKeeps DEF Installer
<1>3. CASE UNCHANGED containers
  <2>1. Calm
    BY <1>1, <1>2, <1>3, SameEnds, NothingNew, BackgroundCalm DEF bootVars
  <2>2. QED
    BY <2>1, CalmSample
<1>4. ASSUME NEW c \in Cids, Fresh(c),
             ContainerCreate(c, "install", servers[s].uuid),
             inst' = [inst EXCEPT ![s] = [pc |-> "start", cid |-> c]]
      PROVE  SampleInv'
  <2>1. /\ \A d \in Cids \ {c} : containers'[d] = containers[d]
        /\ Exists(c)'
    BY <1>4 DEF ContainerCreate, Exists, TypeInv, TypeOK, DockerTypeOK
  <2>2. inst'[s].cid = c /\ \A t \in Srvs \ {s} : inst'[t] = inst[t]
    BY <1>4 DEF TypeInv, TypeOK
  <2>3. Maker(c) = s
    BY <1>1, <1>4, <2>2, MakerIs DEF Fresh
  <2>4. QED
    BY <1>1, <1>2, <1>4, <2>1, <2>3, MadeSample
<1>5. QED
  BY <1>3, <1>4 DEF InstallCreate

\* The restore loop runs before there are requests or probes.
LEMMA RestoreSample ==
  ASSUME TypeInv, TypeInv', Owned, Owned', SampleInv, LifecycleStep,
         NEW u \in UUIDs, Restore(u)
  PROVE  SampleInv'
<1>1. PICK s \in Srvs, running \in BOOLEAN :
        /\ Unreachable(s)
        /\ Add(s, [New(u, FALSE) EXCEPT
                     !.cid = todo[u],
                     !.state = IF running THEN "running" ELSE "offline"])
  BY DEF Restore
<1> DEFINE server == [New(u, FALSE) EXCEPT
                        !.cid = todo[u],
                        !.state = IF running THEN "running" ELSE "offline"]
<1>2. /\ daemon = "restoring" /\ daemon' = "restoring"
      /\ todo[u] # Null /\ todo[u] \in Cids
      /\ UNCHANGED <<containers, req, watch, inst>>
  BY DEF Restore, dockerVars, TypeInv, TypeOK
<1>3. server \in Server /\ server.uuid \in UUIDs /\ server.cid = todo[u]
  BY <1>2 DEF New, Server, States
<1>4. Add(s, server)
  BY <1>1
<1> HIDE DEF server
<1>5. \A q \in Reqs : req'[q].srv \in {Null, s, req[q].srv}
  BY <1>2
<1>6. /\ Placed = {s} /\ servers'[s].cid = todo[u]
      /\ \A a \in Srvs \ {s} : servers'[a] = servers[a]
      /\ \A a \in Srvs \ {s} : Unreachable(a) => Unreachable(a)'
  BY <1>1, <1>2, <1>3, <1>4, <1>5, PlacedIs
<1>7. NewCids = {}
  BY <1>2, SameEnds, NothingNew
<1>8. /\ \A d \in Cids \ {todo[u]} : owner'[d] \in {Null, owner[d]}
      /\ owner'[todo[u]] \in {Null, owner[todo[u]], s}
  BY <1>2, <1>6, <1>7, OwnerNext
<1>9. owner'[todo[u]] \in {Null, s}
  <2>1. \E t \in Placed : servers'[t].cid = todo[u]
    BY <1>6
  <2>2. \A t \in Placed : t = s
    BY <1>6
  <2>3. (CHOOSE t \in Placed : servers'[t].cid = todo[u]) = s
    BY <2>1, <2>2
  <2>4. owner'[todo[u]] = NewOwner(todo[u])
    BY <1>2 DEF LifecycleStep
  <2>5. QED
    BY <1>7, <2>1, <2>3, <2>4 DEF NewOwner
<1>10. owner' \in [Cids -> Srvs \cup {Null}]
  <2>1. owner' = [d \in Cids |-> owner'[d]]
    BY DEF LifecycleStep
  <2>2. QED
    BY <1>8, <1>9, <2>1 DEF SampleInv, ProbesTyped
<1>11. ProbesTyped' /\ ProbesTrue' /\ SampleOwn'
  BY <1>2, <1>10, ProbesStep
<1>12. \A a \in Srvs : ~HeldByProbe(a) /\ ~HeldByProbe(a)'
  BY <1>2, <1>11 DEF SampleInv, ProbesTyped, HeldByProbe
<1>13. ASSUME NEW a \in Srvs, servers'[a].cid # Null, ~Unreachable(a)'
       PROVE  owner'[servers'[a].cid] \in {Null, a}
  <2>1. CASE a = s
    BY <1>6, <1>9, <2>1
  <2>2. CASE a # s
    <3>1. servers'[a].cid = servers[a].cid /\ ~Unreachable(a)
      BY <1>6, <1>13, <2>2
    <3>2. servers[a].cid \in Cids \ {todo[u]}
      BY <1>2, <1>13, <3>1 DEF Owned, RestoresOwn, TypeInv, TypeOK, RegistryTypeOK, Server
    <3>3. owner[servers[a].cid] \in {Null, a}
      BY <1>13, <3>1 DEF SampleInv, OwnerTrue
    <3>4. QED
      BY <1>8, <3>1, <3>2, <3>3
  <2>3. QED
    BY <2>1, <2>2
<1>14. \A r \in Reqs : req'[r].pc # "set_id"
  BY <1>2 DEF Owned, RestoresOwn, Idle
<1>15. QED
  BY <1>11, <1>12, <1>13, <1>14 DEF SampleInv, OwnerTrue

LEMMA LifecycleSample ==
  ASSUME TypeInv, Owned, SampleInv, LifecycleStep
  PROVE  SampleInv'
<1>1. Next /\ TypeInv' /\ Owned'
  BY TypeNext, OwnedNext DEF LifecycleStep
<1>2. CASE \E r \in Reqs : NewRequest(r) \/ Handler(r)
  BY <1>1, <1>2, HandlerCalm, AddServerCalm, CalmSample, CreateContainerSample,
     StoreIDSample
<1>3. CASE \E s \in Srvs : Installer(s) \/ StreamBreaks(s)
  BY <1>1, <1>3, InstallerCalm, CalmSample, InstallCreateSample
<1>4. CASE \E c \in Cids : \/ Watcher(c) \/ WaitBreaks(c)
                           \/ \E code \in Codes : ContainerExit(c, code)
  BY <1>1, <1>4, WatcherCalm, CalmSample
<1>5. CASE DaemonStart
  BY <1>1, <1>5, BootCalm, CalmSample, RestoreSample DEF DaemonStart
<1>6. CASE Shutdown
  BY <1>1, <1>6, DownSample DEF Shutdown
<1>7. QED
  BY <1>1, <1>2, <1>3, <1>4, <1>5, <1>6 DEF Next

-----------------------------------------------------------------------------
(* The steps of a probe                                                    *)

\* One probe goes on, and knows what it knows.
LEMMA ProbeSample ==
  ASSUME SampleInv, UNCHANGED <<vars, owner>>, NEW p \in Probes,
         \A q \in Probes \ {p} : probe'[q] = probe[q],
         probe' \in [Probes -> Probe],
         sample' \in [Srvs -> Srvs \cup {Null}], SampleOwn',
         probe'[p].pc # "idle" =>
           /\ daemon = "up" /\ probe'[p].srv \in Srvs
           /\ ~Unreachable(probe'[p].srv) \/ HeldByProbe(probe'[p].srv),
         probe'[p].pc \in {"read_state", "stats"} =>
           /\ probe'[p].cid \in Cids
           /\ owner[probe'[p].cid] \in {Null, probe'[p].srv},
         probe'[p].pc = "store" => probe'[p].got \in {Null, probe'[p].srv}
  PROVE  SampleInv'
<1>1. UNCHANGED <<servers, req, owner, daemon>>
  BY DEF vars
<1>2. \A s \in Srvs : Unreachable(s)' = Unreachable(s)
  BY DEF vars, Unreachable
<1>3. ProbesTyped'
  BY <1>1 DEF SampleInv, ProbesTyped
<1>4. \A s \in Srvs : HeldByProbe(s)' => HeldByProbe(s) \/ ~Unreachable(s)
  BY DEF HeldByProbe
<1>5. OwnerTrue'
  BY <1>1, <1>2, <1>4 DEF SampleInv, OwnerTrue
<1>6. ProbesTrue'
  BY <1>1 DEF SampleInv, ProbesTrue
<1>7. QED
  BY <1>3, <1>5, <1>6 DEF SampleInv

LEMMA ProbeRequestSample ==
  ASSUME TypeInv, SampleInv, NEW p \in Probes, NEW u \in UUIDs, ProbeRequest(p, u)
  PROVE  SampleInv'
<1>1. /\ daemon = "up" /\ registry[u] \in Srvs /\ UNCHANGED <<vars, sample, owner>>
      /\ probe' = [probe EXCEPT ![p] = [IdleProbe EXCEPT
                     !.pc = "read_id", !.uuid = u, !.srv = registry[u]]]
      /\ probe \in [Probes -> Probe]
  BY DEF ProbeRequest, TypeInv, TypeOK, RegistryTypeOK, SampleInv, ProbesTyped
<1>2. PICK new : new = [IdleProbe EXCEPT
                          !.pc = "read_id", !.uuid = u, !.srv = registry[u]]
  OBVIOUS
<1>3. /\ new \in Probe /\ new.pc = "read_id" /\ new.srv = registry[u]
  BY <1>1, <1>2 DEF IdleProbe, Probe
<1>4. /\ \A q \in Probes \ {p} : probe'[q] = probe[q]
      /\ probe'[p] = new /\ probe' \in [Probes -> Probe]
  BY <1>1, <1>2, <1>3
<1>5. ~Unreachable(registry[u])
  BY DEF Unreachable
<1>6. QED
  BY <1>1, <1>3, <1>4, <1>5, ProbeSample DEF SampleInv, ProbesTyped, SampleOwn

LEMMA ProbingSample ==
  ASSUME TypeInv, SampleInv, NEW p \in Probes, Probing(p)
  PROVE  SampleInv'
<1>1. /\ probe \in [Probes -> Probe] /\ probe[p] \in Probe /\ probe[p].pc # "idle"
      /\ daemon = "up" /\ probe[p].srv \in Srvs /\ HeldByProbe(probe[p].srv)
      /\ sample \in [Srvs -> Srvs \cup {Null}] /\ SampleOwn
      /\ owner \in [Cids -> Srvs \cup {Null}]
      /\ UNCHANGED <<vars, owner>>
  BY DEF Probing, ProbeReadID, ProbeReadState, GetStats, SetResources, SampleInv,
     ProbesTyped, HeldByProbe
<1>2. CASE Answer(p) /\ UNCHANGED sample
  <2>1. /\ \A q \in Probes \ {p} : probe'[q] = probe[q]
        /\ probe'[p].pc = "idle" /\ probe' \in [Probes -> Probe]
    BY <1>1, <1>2 DEF Answer, IdleProbe, Probe
  <2>2. SampleOwn'
    BY <1>1, <1>2 DEF SampleOwn
  <2>3. QED
    BY <1>1, <1>2, <2>1, <2>2, ProbeSample
<1>3. ASSUME NEW new \in Probe, probe' = [probe EXCEPT ![p] = new], UNCHANGED sample,
             new.srv = probe[p].srv,
             new.pc \in {"read_state", "stats"} =>
               new.cid \in Cids /\ owner[new.cid] \in {Null, new.srv},
             new.pc = "store" => new.got \in {Null, new.srv}
      PROVE  SampleInv'
  <2>1. /\ \A q \in Probes \ {p} : probe'[q] = probe[q]
        /\ probe'[p] = new /\ probe' \in [Probes -> Probe]
    BY <1>1, <1>3
  <2>2. SampleOwn'
    BY <1>1, <1>3 DEF SampleOwn
  <2>3. QED
    BY <1>1, <1>3, <2>1, <2>2, ProbeSample
<1>4. CASE ProbeReadID(p)
  <2> DEFINE c == servers[probe[p].srv].cid
  <2>1. c \in Cids \cup {Null}
    BY <1>1 DEF TypeInv, TypeOK, RegistryTypeOK, Server
  <2>2. c # Null => owner[c] \in {Null, probe[p].srv}
    BY <1>1 DEF SampleInv, OwnerTrue
  <2>3. CASE c # Null
    <3> DEFINE new == [probe[p] EXCEPT !.pc = "read_state", !.cid = c]
    <3>1. probe' = [probe EXCEPT ![p] = new] /\ UNCHANGED sample
      BY <1>1, <1>4, <2>3 DEF ProbeReadID
    <3>2. /\ new \in Probe /\ new.pc = "read_state" /\ new.cid = c
          /\ new.srv = probe[p].srv
      BY <1>1, <2>1 DEF Probe
    <3> HIDE DEF new
    <3>3. QED
      BY <1>3, <2>1, <2>2, <2>3, <3>1, <3>2
  <2>4. QED
    BY <1>2, <1>4, <2>3 DEF ProbeReadID
<1>5. CASE ProbeReadState(p)
  <2>1. CASE servers[probe[p].srv].state = "running"
    <3> DEFINE new == [probe[p] EXCEPT !.pc = "stats"]
    <3>1. probe' = [probe EXCEPT ![p] = new] /\ UNCHANGED sample
      BY <1>1, <1>5, <2>1 DEF ProbeReadState
    <3>2. /\ new \in Probe /\ new.pc = "stats" /\ new.cid = probe[p].cid
          /\ new.srv = probe[p].srv
      BY <1>1 DEF Probe
    <3>3. probe[p].cid \in Cids /\ owner[probe[p].cid] \in {Null, probe[p].srv}
      BY <1>5 DEF ProbeReadState, SampleInv, ProbesTyped, ProbesTrue
    <3> HIDE DEF new
    <3>4. QED
      BY <1>3, <3>1, <3>2, <3>3
  <2>2. QED
    BY <1>2, <1>5, <2>1 DEF ProbeReadState
<1>6. CASE GetStats(p)
  <2>1. probe[p].cid \in Cids /\ owner[probe[p].cid] \in {Null, probe[p].srv}
    BY <1>6 DEF GetStats, SampleInv, ProbesTyped, ProbesTrue
  <2>2. CASE ~Answer(p)
    <3> DEFINE new == [probe[p] EXCEPT !.pc = "store", !.got = owner[probe[p].cid]]
    <3>1. probe' = [probe EXCEPT ![p] = new] /\ UNCHANGED sample
      BY <1>1, <1>6, <2>2 DEF GetStats
    <3>2. /\ new \in Probe /\ new.pc = "store" /\ new.got = owner[probe[p].cid]
          /\ new.srv = probe[p].srv
      BY <1>1, <2>1 DEF Probe
    <3> HIDE DEF new
    <3>3. QED
      BY <1>3, <2>1, <3>1, <3>2
  <2>3. QED
    BY <1>2, <1>6, <2>2 DEF GetStats
<1>7. CASE SetResources(p)
  <2>1. /\ Answer(p) /\ probe[p].got \in {Null, probe[p].srv}
        /\ sample' = [sample EXCEPT ![probe[p].srv] = probe[p].got]
    BY <1>7 DEF SetResources, SampleInv, ProbesTrue
  <2>2. sample' \in [Srvs -> Srvs \cup {Null}] /\ SampleOwn'
    BY <1>1, <2>1 DEF SampleOwn
  <2>3. /\ \A q \in Probes \ {p} : probe'[q] = probe[q]
        /\ probe'[p].pc = "idle" /\ probe' \in [Probes -> Probe]
    BY <1>1, <2>1 DEF Answer, IdleProbe, Probe
  <2>4. QED
    BY <1>1, <2>2, <2>3, ProbeSample
<1>8. QED
  BY <1>4, <1>5, <1>6, <1>7 DEF Probing

-----------------------------------------------------------------------------

LEMMA MonitorStep == [MonitorNext]_monitorVars => [Next]_vars
  BY DEF MonitorNext, monitorVars, LifecycleStep, Probing, ProbeRequest, ProbeReadID,
     ProbeReadState, GetStats, SetResources

LEMMA SampleInit == MonitorInit => SampleInv
<1> SUFFICES ASSUME MonitorInit PROVE SampleInv
  OBVIOUS
<1>1. /\ probe = [p \in Probes |-> IdleProbe] /\ IdleProbe \in Probe
      /\ IdleProbe.pc = "idle"
      /\ sample = [s \in Srvs |-> Null] /\ owner = [c \in Cids |-> Null]
  BY DEF MonitorInit, IdleProbe, Probe
<1>2. ProbesTyped /\ ProbesTrue /\ SampleOwn
  BY <1>1 DEF ProbesTyped, ProbesTrue, SampleOwn
<1>3. OwnerTrue
  BY DEF MonitorInit, Init, RegistryInit, NoServer, New, Idle, OwnerTrue
<1>4. QED
  BY <1>2, <1>3 DEF SampleInv

LEMMA SampleNext ==
  TypeInv /\ Owned /\ SampleInv /\ [MonitorNext]_monitorVars => SampleInv'
<1> SUFFICES ASSUME TypeInv, Owned, SampleInv, [MonitorNext]_monitorVars
             PROVE  SampleInv'
  OBVIOUS
<1>1. CASE LifecycleStep
  BY <1>1, LifecycleSample
<1>2. CASE \E p \in Probes : Probing(p) \/ \E u \in UUIDs : ProbeRequest(p, u)
  BY <1>2, ProbingSample, ProbeRequestSample
<1>3. CASE UNCHANGED monitorVars
  BY <1>3 DEF monitorVars, vars, SampleInv, ProbesTyped, OwnerTrue, ProbesTrue,
     SampleOwn, HeldByProbe, Unreachable
<1>4. QED
  BY <1>1, <1>2, <1>3 DEF MonitorNext

\* What is stored in a Server object was measured on a container of that
\* object, however long the call to Docker lasts and whatever is deleted,
\* created and restored meanwhile (servers.go:213-218).
THEOREM SampleCorrect == MonitorSpec => []SampleOwn
<1>1. MonitorInit => TypeInv /\ Owned /\ SampleInv
  BY TypeInit, OwnedInit, SampleInit DEF MonitorInit
<1>2. TypeInv /\ Owned /\ SampleInv /\ [MonitorNext]_monitorVars =>
        (TypeInv /\ Owned /\ SampleInv)'
  BY MonitorStep, TypeNext, OwnedNext, SampleNext
<1>3. SampleInv => SampleOwn
  BY DEF SampleInv
<1>4. QED
  BY <1>1, <1>2, <1>3, PTL DEF MonitorSpec

-----------------------------------------------------------------------------
(***************************************************************************)
(* Requests one at a time, no call failing, the daemon up: NoOrphans,      *)
(* RestsSettled and DeleteLeavesNothing of LifecycleProps, for any number  *)
(* of UUIDs, objects and containers, while watchers and install goroutines *)
(* run.  None is inductive: in the middle of a request a container is out  *)
(* of the registry's reach and a state is passing, so that it must be said *)
(* at which steps, and what the request knows there.                       *)
(***************************************************************************)

\* The panel waits for each answer, nothing fails and the daemon is not ended.
Sequential ==
  /\ \A q, r \in Reqs : q = r
  /\ ~Faults
  /\ "shutdown" \notin Ops

\* Where a request has seen to it that its server has no game container, ...
GonePcs == {"del_dir", "del_entry", "clear", "re_clear"}

\* ... where the server has no container id, ...
NoIDPcs == {"starting", "pull", "create", "set_id"}

\* ... where the request has the container id of its server, ...
IDPcs == {"del_stop", "del_remove", "remove_stale", "clear", "run",
          "stop_stopping", "stop_stop", "re_stopping", "re_stop", "re_remove",
          "re_clear"}

\* ... and where it will end the state "stopping".
StoppingPcs == {"stop_stop", "stop_offline", "re_stop", "re_remove", "re_clear",
                "check", "read", "remove_stale", "clear", "starting"}

NoGame(u) == \A c \in Cids : Game(c) => containers[c].uuid # u

\* The daemon starts on an empty Docker, and only once.
BootsEmpty ==
  /\ \A u \in UUIDs : todo[u] = Null
  /\ daemon # "up" =>
       /\ \A c \in Cids : ~Exists(c)
       /\ \A r \in Reqs : req[r].pc = "idle"
       /\ \A s \in Srvs : inst[s].pc = "none"
       /\ \A c \in Cids : watch[c].got = "none"

\* What a request looked up is still what is registered.
LookUpsHold ==
  \A r \in Reqs :
    /\ req[r].pc \in {"mkdir", "add"} => registry[req[r].uuid] = Null
    /\ req[r].pc \notin NoSrvPcs => req[r].srv = registry[req[r].uuid]

GamesTracked ==
  \A c \in Cids : Game(c) =>
    LET u == containers[c].uuid IN
    /\ u \in UUIDs /\ registry[u] # Null
    /\ \/ servers[registry[u]].cid = c
       \/ \E r \in Reqs : At(r, "set_id") /\ req[r].cid = c /\ req[r].uuid = u

IDsTrue ==
  \A r \in Reqs :
    /\ req[r].pc \in NoIDPcs => Srv(r).cid = Null
    /\ req[r].pc \in IDPcs => req[r].cid = Srv(r).cid /\ req[r].cid # Null
    /\ req[r].pc \in GonePcs => NoGame(req[r].uuid)
    /\ req[r].pc = "set_id" =>
         Game(req[r].cid) /\ containers[req[r].cid].uuid = req[r].uuid

IDsExist ==
  \A u \in UUIDs :
    LET c == servers[registry[u]].cid IN
    registry[u] # Null /\ c # Null =>
      \/ Game(c) /\ containers[c].uuid = u
      \/ \E r \in Reqs : req[r].uuid = u /\ req[r].pc \in GonePcs

StoppingOwned ==
  \A u \in UUIDs :
    registry[u] # Null /\ servers[registry[u]].state = "stopping" =>
      HandlerOn(registry[u], StoppingPcs)

\* With TypeInv, the inductive invariant behind NoOrphans and RestsSettled.
Orderly == /\ BootsEmpty /\ LookUpsHold /\ GamesTracked /\ IDsTrue /\ IDsExist
           /\ StoppingOwned

-----------------------------------------------------------------------------
(* Steps that leave the games, the ids and the registry as they are        *)

GamesKept ==
  \A c \in Cids :
    /\ Game(c)' <=> Game(c)
    /\ Game(c) => containers'[c].uuid = containers[c].uuid

RegistryKept ==
  /\ registry' = registry
  /\ \A s \in Srvs : servers'[s].cid = servers[s].cid

\* A state set by a goroutine is no "stopping".
NoneStops ==
  \A s \in Srvs :
    servers'[s].state = servers[s].state \/ servers'[s].state # "stopping"

LEMMA RegistryIsType ==
  ASSUME TypeInv
  PROVE  /\ \A u \in UUIDs : registry[u] # Null =>
              registry[u] \in Srvs /\ servers[registry[u]].uuid = u
         /\ \A s \in Srvs : servers[s].cid \in Cids \cup {Null}
         /\ Null \notin Cids /\ Null \notin Srvs /\ Null \notin UUIDs
  BY NodeAssumption DEF TypeInv, TypeOK, Holds, RegistryTypeOK, Server

\* While a request is under way, or a goroutine, the daemon is up.
LEMMA UpOrEmpty ==
  ASSUME BootsEmpty
  PROVE  /\ \A r \in Reqs : req[r].pc # "idle" => daemon = "up"
         /\ \A s \in Srvs : inst[s].pc # "none" => daemon = "up"
         /\ \A c \in Cids : Exists(c) \/ watch[c].got # "none" => daemon = "up"
  BY DEF BootsEmpty

\* The steps of the goroutines beside the requests.
LEMMA BesideOrderly ==
  ASSUME TypeInv, Orderly, GamesKept, RegistryKept, NoneStops,
         req' = req, todo' = todo, daemon' = daemon, daemon = "up"
  PROVE  Orderly'
<1> USE DEF Orderly
<1>1. BootsEmpty'
  BY DEF BootsEmpty
<1>2. LookUpsHold'
  BY DEF LookUpsHold, RegistryKept
<1>3. GamesTracked'
  BY RegistryIsType DEF GamesTracked, GamesKept, RegistryKept, At
<1>4. IDsTrue'
  <2>1. \A r \in Reqs : req[r].pc \notin NoSrvPcs => req[r].srv \in Srvs
    BY DEF TypeInv, Holds
  <2>2. \A r \in Reqs : req[r].pc \notin NoSrvPcs => Srv(r).cid = Srv(r)'.cid
    BY <2>1 DEF Srv, RegistryKept
  <2>3. \A u : NoGame(u) => NoGame(u)'
    BY DEF NoGame, GamesKept
  <2>4. \A r \in Reqs : req[r].pc = "set_id" => req[r].cid \in Cids
    BY DEF IDsTrue, Game, Exists
  <2>5. QED
    BY <2>2, <2>3, <2>4
       DEF IDsTrue, GamesKept, NoIDPcs, IDPcs, NoSrvPcs
<1>5. IDsExist'
  BY RegistryIsType DEF IDsExist, GamesKept, RegistryKept
<1>6. StoppingOwned'
  BY RegistryIsType DEF StoppingOwned, RegistryKept, NoneStops, HandlerOn
<1>7. QED
  BY <1>1, <1>2, <1>3, <1>4, <1>5, <1>6

-----------------------------------------------------------------------------
(* Steps of a request that leave them as they are                          *)

\* r goes on, or answers, and knows at its next step what it must know there.
LEMMA MoveOrderly ==
  ASSUME TypeInv, Orderly, Sequential, NEW r \in Reqs, req[r].pc # "idle",
         GamesKept, RegistryKept, todo' = todo, daemon' = daemon,
         req[r].pc # "set_id" /\ req'[r].pc # "set_id",
         \/ req'[r].pc = "idle"
         \/ /\ req'[r].uuid = req[r].uuid /\ req'[r].srv = req[r].srv
            /\ req[r].pc \in NoSrvPcs <=> req'[r].pc \in NoSrvPcs,
         req'[r].pc \in NoIDPcs => Srv(r).cid = Null,
         req'[r].pc \in IDPcs => req'[r].cid = Srv(r).cid /\ req'[r].cid # Null,
         req'[r].pc \in GonePcs => NoGame(req[r].uuid),
         req[r].pc \in GonePcs => req'[r].pc \in GonePcs,
         \A s \in Srvs : \/ servers'[s].state = servers[s].state
                         \/ servers'[s].state # "stopping"
                         \/ s = req[r].srv /\ req'[r].pc \in StoppingPcs,
         req[r].pc \in StoppingPcs =>
           req'[r].pc \in StoppingPcs \/ servers'[req[r].srv].state # "stopping"
  PROVE  Orderly'
<1> USE DEF Orderly
<1>0. \A q \in Reqs : q = r
  BY DEF Sequential
<1>1. BootsEmpty'
  BY UpOrEmpty DEF BootsEmpty
<1>2. LookUpsHold'
  BY <1>0 DEF LookUpsHold, RegistryKept, NoSrvPcs
<1>3. GamesTracked'
  BY <1>0, RegistryIsType DEF GamesTracked, GamesKept, RegistryKept, At
<1>4. IDsTrue'
  <2>1. \A u : NoGame(u) => NoGame(u)'
    BY DEF NoGame, GamesKept
  <2>2. ASSUME req'[r].pc \notin NoSrvPcs
        PROVE  req'[r].uuid = req[r].uuid /\ Srv(r)'.cid = Srv(r).cid
    <3>1. req[r].srv \in Srvs /\ req'[r].srv = req[r].srv
      BY <2>2 DEF TypeInv, Holds, NoSrvPcs
    <3>2. QED
      BY <2>2, <3>1 DEF Srv, RegistryKept, NoSrvPcs
  <2>3. /\ req'[r].pc \in NoIDPcs => Srv(r)'.cid = Null
        /\ req'[r].pc \in IDPcs => req'[r].cid = Srv(r)'.cid /\ req'[r].cid # Null
    BY <2>2 DEF NoIDPcs, IDPcs, NoSrvPcs
  <2>4. req'[r].pc \in GonePcs => NoGame(req[r].uuid)'
    <3>1. SUFFICES ASSUME req'[r].pc \in GonePcs PROVE NoGame(req[r].uuid)'
      OBVIOUS
    <3>2. req'[r].uuid = req[r].uuid /\ NoGame(req[r].uuid)
      BY <2>2, <3>1 DEF GonePcs, NoSrvPcs
    <3>3. QED
      BY <3>2 DEF NoGame, GamesKept
  <2>5. QED
    BY <1>0, <2>3, <2>4 DEF IDsTrue
<1>5. IDsExist'
  BY <1>0, RegistryIsType DEF IDsExist, GamesKept, RegistryKept, GonePcs
<1>6. StoppingOwned'
  <2> SUFFICES ASSUME NEW u \in UUIDs, registry[u] # Null,
                      servers'[registry[u]].state = "stopping"
               PROVE  HandlerOn(registry[u], StoppingPcs)'
    BY DEF StoppingOwned, RegistryKept
  <2>1. registry[u] \in Srvs
    BY RegistryIsType
  <2>2. CASE servers[registry[u]].state = "stopping"
    <3>1. req[r].srv = registry[u] /\ req[r].pc \in StoppingPcs
      BY <1>0, <2>2 DEF StoppingOwned, HandlerOn
    <3>2. req'[r].pc \in StoppingPcs
      BY <3>1
    <3>3. QED
      BY <3>1, <3>2 DEF HandlerOn, StoppingPcs, RegistryKept
  <2>3. CASE registry[u] = req[r].srv /\ req'[r].pc \in StoppingPcs
    BY <2>3 DEF HandlerOn, StoppingPcs, RegistryKept
  <2>4. QED
    BY <2>1, <2>2, <2>3
<1>7. QED
  BY <1>1, <1>2, <1>3, <1>4, <1>5, <1>6

\* The ids a request holds, as IDsTrue has them.
LEMMA HasID ==
  ASSUME TypeInv, Orderly, NEW r \in Reqs, req[r].pc \in IDPcs
  PROVE  /\ req[r].cid = Srv(r).cid /\ req[r].cid \in Cids
         /\ req[r].srv = registry[req[r].uuid] /\ req[r].srv \in Srvs
         /\ req[r].uuid \in UUIDs
<1>1. req[r].pc \notin NoSrvPcs /\ req[r].pc # "idle"
  BY DEF IDPcs, NoSrvPcs
<1>2. req[r].srv \in Srvs /\ req[r].uuid \in UUIDs
  BY <1>1 DEF TypeInv, Holds
<1>3. QED
  BY <1>1, <1>2, RegistryIsType DEF Orderly, LookUpsHold, IDsTrue, Srv

LEMMA ReadIDOrderly ==
  ASSUME TypeInv, Orderly, Sequential, NEW r \in Reqs,
         NEW from \in ReqPcs, NEW none \in ReqPcs, NEW some \in ReqPcs,
         <<from, none, some>> \in
           {<<"del_read", "del_dir", "del_stop">>,
            <<"read", "starting", "remove_stale">>,
            <<"stop_read", "idle", "stop_stopping">>,
            <<"re_read", "check", "re_stopping">>,
            <<"kill_read", "idle", "kill_kill">>},
         ReadID(r, from, none, some)
  PROVE  Orderly'
<1> USE DEF ReadID, dockerVars, registryVars, bootVars
<1>1. req[r].pc = from /\ from \notin NoSrvPcs /\ from # "idle"
  BY DEF At, NoSrvPcs
<1>2. req[r].srv \in Srvs /\ req[r].uuid \in UUIDs /\ Srv(r).cid \in Cids \cup {Null}
  BY <1>1, RegistryIsType DEF TypeInv, Holds, Srv
<1>3. \/ req'[r].pc = "idle" /\ (none = "idle") /\ Srv(r).cid = Null
      \/ /\ req'[r].uuid = req[r].uuid /\ req'[r].srv = req[r].srv
         /\ \/ req'[r].pc = none /\ Srv(r).cid = Null
            \/ req'[r].pc = some /\ req'[r].cid = Srv(r).cid /\ Srv(r).cid # Null
  BY <1>2, GotoType, GotoWithType, ReplyType DEF TypeInv, TypeOK
<1>4. GamesKept /\ RegistryKept
  BY DEF GamesKept, RegistryKept, Game, Exists
<1>5. req'[r].pc = "del_dir" => NoGame(req[r].uuid)
  <2> SUFFICES ASSUME req'[r].pc = "del_dir", NEW c \in Cids, Game(c),
                      containers[c].uuid = req[r].uuid
               PROVE  FALSE
    BY DEF NoGame
  <2>1. Srv(r).cid = Null /\ req[r].srv = registry[req[r].uuid]
    BY <1>1, <1>3 DEF Orderly, LookUpsHold
  <2>2. ~At(r, "set_id")
    BY <1>1 DEF At
  <2>3. servers[registry[req[r].uuid]].cid = c
    BY <2>2 DEF Orderly, GamesTracked, Sequential
  <2>4. QED
    BY <2>1, <2>3, RegistryIsType DEF Srv
<1>6. QED
  BY <1>1, <1>3, <1>4, <1>5, MoveOrderly
     DEF NoSrvPcs, NoIDPcs, IDPcs, GonePcs, StoppingPcs, ReqPcs

LEMMA MarkOrderly ==
  ASSUME TypeInv, Orderly, Sequential, NEW r \in Reqs,
         NEW from \in ReqPcs, NEW state \in States, NEW to \in ReqPcs,
         <<from, state, to>> \in
           {<<"starting", "starting", "pull">>, <<"running", "running", "watch">>,
            <<"crashed", "crashed", "idle">>,
            <<"stop_stopping", "stopping", "stop_stop">>,
            <<"stop_offline", "offline", "idle">>,
            <<"re_stopping", "stopping", "re_stop">>,
            <<"kill_crashed", "crashed", "idle">>},
         Mark(r, from, state, to)
  PROVE  Orderly'
<1> USE DEF Mark, dockerVars, bootVars
<1>1. req[r].pc = from /\ from \notin NoSrvPcs /\ from # "idle"
  BY DEF At, NoSrvPcs
<1>2. req[r].srv \in Srvs
  BY <1>1 DEF TypeInv, Holds
<1>3. \/ req'[r].pc = "idle" /\ to = "idle"
      \/ /\ req'[r].uuid = req[r].uuid /\ req'[r].srv = req[r].srv
         /\ req'[r].pc = to /\ req'[r].cid = req[r].cid
  BY GotoType, ReplyType DEF TypeInv, TypeOK
<1>4. /\ \A a \in Srvs \ {req[r].srv} : servers'[a] = servers[a]
      /\ \A a \in Srvs : servers'[a].cid = servers[a].cid
      /\ servers'[req[r].srv].state = state
  BY <1>2, SetStateType DEF TypeInv, TypeOK, RegistryTypeOK
<1>5. GamesKept /\ RegistryKept
  BY <1>4 DEF GamesKept, RegistryKept, Game, Exists
<1>6. from \in IDPcs => req[r].cid = Srv(r).cid /\ req[r].cid # Null
  BY <1>1 DEF Orderly, IDsTrue
<1>7. from \in NoIDPcs => Srv(r).cid = Null
  BY <1>1 DEF Orderly, IDsTrue
<1>8. QED
  BY <1>1, <1>3, <1>4, <1>5, <1>6, <1>7, MoveOrderly
     DEF NoSrvPcs, NoIDPcs, IDPcs, GonePcs, StoppingPcs

-----------------------------------------------------------------------------
(* Requests that stop, start or watch a container                          *)

\* A stopped container is still there.
LEMMA HaltKeepsGames ==
  ASSUME TypeInv, NEW c, NEW code \in Codes, ContainerHalt(c, code)
  PROVE  GamesKept
  BY HaltType DEF GamesKept, Game, TypeInv, TypeOK

LEMMA CallKeepsGames ==
  ASSUME TypeInv, NEW c, StopCall(c) \/ CallFails(c)
  PROVE  GamesKept
<1>1. CASE StopCall(c)
  BY <1>1, HaltKeepsGames DEF StopCall
<1>2. CASE CallFails(c)
  BY <1>2 DEF CallFails, GamesKept, Game, Exists
<1>3. QED
  BY <1>1, <1>2

\* With requests one at a time the container of a server is there to be
\* stopped.
LEMMA StopFinds ==
  ASSUME TypeInv, Orderly, Sequential, NEW r \in Reqs,
         req[r].pc \in IDPcs \ GonePcs
  PROVE  Game(req[r].cid) /\ containers[req[r].cid].uuid = req[r].uuid
<1>1. /\ req[r].cid = Srv(r).cid /\ req[r].cid \in Cids
      /\ req[r].srv = registry[req[r].uuid] /\ req[r].srv \in Srvs
      /\ req[r].uuid \in UUIDs
  BY HasID
<1>2. \A q \in Reqs : q = r
  BY DEF Sequential
<1>3. QED
  BY <1>1, <1>2, RegistryIsType DEF Orderly, IDsExist, Srv

LEMMA StopsOrderly ==
  ASSUME TypeInv, Orderly, Sequential, NEW r \in Reqs,
         DeleteStop(r) \/ StopContainer(r) \/ RestartStop(r)
  PROVE  Orderly'
<1> USE DEF DeleteStop, StopContainer, RestartStop, At
<1>1. req[r].pc \in {"del_stop", "stop_stop", "re_stop"}
  OBVIOUS
<1>2. /\ req[r].cid = Srv(r).cid /\ req[r].cid \in Cids /\ req[r].srv \in Srvs
      /\ Game(req[r].cid)
  BY <1>1, HasID, StopFinds DEF IDPcs, GonePcs
<1>3. ~CallFails(req[r].cid)
  BY <1>2 DEF CallFails, Game, Sequential
<1>4. /\ req'[r].uuid = req[r].uuid /\ req'[r].srv = req[r].srv
      /\ req'[r].cid = req[r].cid
      /\ <<req[r].pc, req'[r].pc>> \in
           {<<"del_stop", "del_remove">>, <<"stop_stop", "stop_offline">>,
            <<"re_stop", "re_remove">>}
  BY <1>3, GotoType DEF TypeInv, TypeOK, ReqPcs
<1>5. GamesKept
  BY <1>3, CallKeepsGames
<1>6. RegistryKept /\ servers' = servers
  BY DEF RegistryKept, registryVars
<1>7. Srv(r).cid # Null
  BY <1>2, RegistryIsType
<1>8. QED
  BY <1>2, <1>4, <1>5, <1>6, <1>7, MoveOrderly
     DEF bootVars, NoSrvPcs, NoIDPcs, IDPcs, GonePcs, StoppingPcs

\* What a request does that changes none of the servers and at most the status
\* of a container.
LEMMA PassOrderly ==
  ASSUME TypeInv, Orderly, Sequential, NEW r \in Reqs,
         \/ KillContainer(r) \/ CheckInstalling(r) \/ PullImage(r)
         \/ StartContainer(r) \/ SpawnWatch(r) \/ DeleteDir(r) \/ CreateDir(r)
  PROVE  Orderly'
<1> USE DEF KillContainer, CheckInstalling, PullImage, StartContainer, SpawnWatch,
            DeleteDir, CreateDir, At
<1>1. req[r].pc \in {"kill_kill", "check", "pull", "run", "watch", "del_dir", "mkdir"}
  OBVIOUS
<1>2. \/ /\ req'[r].pc = "idle"
         /\ req[r].pc = "check" => Srv(r).state = "installing"
         /\ req[r].pc # "del_dir"
      \/ /\ req'[r].uuid = req[r].uuid /\ req'[r].srv = req[r].srv
         /\ req'[r].cid = req[r].cid
         /\ <<req[r].pc, req'[r].pc>> \in
              {<<"kill_kill", "kill_crashed">>, <<"check", "read">>,
               <<"pull", "create">>, <<"pull", "crashed">>, <<"run", "running">>,
               <<"run", "crashed">>, <<"del_dir", "del_entry">>,
               <<"mkdir", "add">>}
  <2>1. req \in [Reqs -> Request]
    BY DEF TypeInv, TypeOK
  <2>2. CASE \E pc \in ReqPcs :
          /\ Goto(r, pc)
          /\ <<req[r].pc, pc>> \in
               {<<"kill_kill", "kill_crashed">>, <<"check", "read">>,
                <<"pull", "create">>, <<"pull", "crashed">>, <<"run", "running">>,
                <<"run", "crashed">>, <<"del_dir", "del_entry">>,
                <<"mkdir", "add">>}
    BY <2>1, <2>2, GotoType
  <2>3. CASE /\ Reply(r) /\ req[r].pc # "del_dir"
             /\ req[r].pc = "check" => Srv(r).state = "installing"
    BY <2>1, <2>3, ReplyType
  <2>4. {"kill_crashed", "read", "create", "crashed", "running", "del_entry", "add"}
          \subseteq ReqPcs
    BY DEF ReqPcs, StartPcs
  <2>5. QED
    BY <2>2, <2>3, <2>4
<1>3. GamesKept
  <2>1. CASE KillContainer(r)
    BY <2>1, HaltKeepsGames DEF GamesKept, Game, Exists, dockerVars, Codes
  <2>2. CASE StartContainer(r)
    <3>1. CASE CallFails(req[r].cid)
      BY <3>1, CallKeepsGames
    <3>2. CASE Exists(req[r].cid) /\ ContainerStart(req[r].cid)
      BY <3>2, StartType DEF GamesKept, Game, Exists, TypeInv, TypeOK
    <3>3. QED
      BY <2>2, <3>1, <3>2
  <2>3. CASE containers' = containers
    BY <2>3 DEF GamesKept, Game, Exists
  <2>4. QED
    BY <2>1, <2>2, <2>3 DEF dockerVars
<1>4. RegistryKept /\ servers' = servers
  BY DEF RegistryKept, registryVars
<1>5. /\ req[r].pc \in NoIDPcs => Srv(r).cid = Null
      /\ req[r].pc \in GonePcs => NoGame(req[r].uuid)
  BY DEF Orderly, IDsTrue
<1>6. req[r].pc = "check" /\ Srv(r).state = "installing" =>
        servers'[req[r].srv].state # "stopping"
  BY <1>4 DEF Srv
<1>7. todo' = todo /\ daemon' = daemon
  BY DEF bootVars
<1>8. /\ req[r].pc # "idle"
      /\ req[r].pc # "set_id" /\ req'[r].pc # "set_id"
      /\ \/ req'[r].pc = "idle"
         \/ /\ req'[r].uuid = req[r].uuid /\ req'[r].srv = req[r].srv
            /\ req[r].pc \in NoSrvPcs <=> req'[r].pc \in NoSrvPcs
  BY <1>1, <1>2 DEF NoSrvPcs
<1>9. /\ req'[r].pc \in NoIDPcs => Srv(r).cid = Null
      /\ req'[r].pc \notin IDPcs
      /\ req'[r].pc \in GonePcs => NoGame(req[r].uuid)
      /\ req[r].pc \in GonePcs => req'[r].pc \in GonePcs
  BY <1>1, <1>2, <1>5 DEF NoIDPcs, IDPcs, GonePcs
<1>10. req[r].pc \in StoppingPcs =>
         req'[r].pc \in StoppingPcs \/ servers'[req[r].srv].state # "stopping"
  BY <1>1, <1>2, <1>6 DEF StoppingPcs
<1>11. \A s \in Srvs : servers'[s].state = servers[s].state
  BY <1>4
<1>12. QED
  BY <1>3, <1>4, <1>7, <1>8, <1>9, <1>10, <1>11, MoveOrderly

-----------------------------------------------------------------------------
(* Requests that remove a container, and what they do without it           *)

\* Whatever game the server had, it is gone when the call returns.
LEMMA RemovesOrderly ==
  ASSUME TypeInv, Orderly, Sequential, NEW r \in Reqs,
         DeleteRemove(r) \/ RemoveStale(r) \/ RestartRemove(r)
  PROVE  Orderly'
<1> USE DEF DeleteRemove, RemoveStale, RestartRemove, At, Orderly
<1>0. \A q \in Reqs : q = r
  BY DEF Sequential
<1>1. req[r].pc \in {"del_remove", "remove_stale", "re_remove"}
  OBVIOUS
<1> SUFFICES ASSUME NEW c \in Cids, NEW u \in UUIDs,
                    c = req[r].cid, u = req[r].uuid
             PROVE  Orderly'
  BY <1>1, HasID DEF IDPcs
<1>2. /\ c = Srv(r).cid /\ req[r].srv \in Srvs /\ req[r].srv = registry[u]
      /\ Game(c) /\ containers[c].uuid = u
  BY <1>1, HasID, StopFinds DEF IDPcs, GonePcs
<1>3. /\ \A d \in Cids \ {c} : containers'[d] = containers[d]
      /\ ~Exists(c)'
  <2>1. RemoveCall(c)
    BY <1>2 DEF CallFails, Game, Sequential
  <2>2. ContainerRemove(c)
    BY <2>1 DEF RemoveCall
  <2>3. /\ \A d \in Cids \ {c} : containers'[d] = containers[d]
        /\ containers'[c] = NoContainer
    BY <1>2, <2>2, RemovalType, RegistryIsType DEF TypeInv, TypeOK
  <2>4. QED
    BY <2>3 DEF Exists, NoContainer
<1>4. /\ req'[r].uuid = u /\ req'[r].srv = req[r].srv /\ req'[r].cid = c
      /\ <<req[r].pc, req'[r].pc>> \in
           {<<"del_remove", "del_dir">>, <<"remove_stale", "clear">>,
            <<"re_remove", "re_clear">>}
  BY GotoType DEF TypeInv, TypeOK, ReqPcs, StartPcs
<1>5. UNCHANGED <<registry, servers, inst, daemon, todo>>
  BY DEF registryVars, bootVars
<1>6. \A d \in Cids : Game(d)' => d # c /\ Game(d) /\ containers'[d].uuid = containers[d].uuid
  BY <1>3 DEF Game, Exists
<1>7. \A d \in Cids : Game(d)' =>
        LET v == containers[d].uuid IN
        v \in UUIDs /\ registry[v] # Null /\ servers[registry[v]].cid = d
  <2>1. \A q \in Reqs : ~At(q, "set_id")
    BY <1>0, <1>1
  <2>2. QED
    BY <1>6, <2>1 DEF GamesTracked
<1>8. \A d \in Cids : Game(d)' => containers'[d].uuid # u
  <2>1. c = servers[registry[u]].cid
    BY <1>2 DEF Srv
  <2>2. QED
    BY SMTT(40), <1>6, <1>7, <2>1
<1>9. BootsEmpty'
  BY <1>1, <1>5, UpOrEmpty DEF BootsEmpty
<1>10. LookUpsHold'
  BY <1>0, <1>2, <1>4, <1>5 DEF LookUpsHold, NoSrvPcs
<1>11. GamesTracked'
  BY <1>5, <1>6, <1>7 DEF GamesTracked
<1>12. IDsTrue'
  <2>1. NoGame(u)'
    BY <1>8 DEF NoGame
  <2>2. Srv(r)' = Srv(r)
    BY <1>4, <1>5 DEF Srv
  <2>3. c # Null
    BY <1>2, RegistryIsType
  <2>5. /\ req'[r].pc \notin NoIDPcs
        /\ req'[r].pc \in IDPcs => req'[r].cid = Srv(r)'.cid /\ req'[r].cid # Null
        /\ req'[r].pc # "set_id"
    BY <1>2, <1>4, <2>2, <2>3 DEF NoIDPcs
  <2>6. \A q \in Reqs : req'[q].uuid = u
    BY <1>0, <1>4
  <2>7. QED
    BY <1>0, <2>1, <2>5, <2>6 DEF IDsTrue, NoGame
<1>13. IDsExist'
  <2> SUFFICES ASSUME NEW v \in UUIDs, registry[v] # Null,
                      NEW d, d = servers[registry[v]].cid, d # Null
               PROVE  \/ Game(d)' /\ containers'[d].uuid = v
                      \/ \E q \in Reqs : req'[q].uuid = v /\ req'[q].pc \in GonePcs
    BY <1>5 DEF IDsExist, Game, Exists
  <2>1. CASE v = u
    BY <1>4, <2>1 DEF GonePcs
  <2>2. CASE v # u
    <3>1. Game(d) /\ containers[d].uuid = v
      BY <1>0, <2>2 DEF IDsExist
    <3>2. d # c /\ d \in Cids
      BY <1>2, <2>2, <3>1, RegistryIsType
    <3>3. QED
      BY <1>3, <3>1, <3>2 DEF Game, Exists
  <2>3. QED
    BY <2>1, <2>2
<1>14. StoppingOwned'
  BY <1>0, <1>4, <1>5 DEF StoppingOwned, HandlerOn, StoppingPcs
<1>15. QED
  BY <1>9, <1>10, <1>11, <1>12, <1>13, <1>14

LEMMA ClearIDOrderly ==
  ASSUME TypeInv, Orderly, Sequential, NEW r \in Reqs,
         NEW from \in ReqPcs, NEW to \in ReqPcs,
         <<from, to>> \in {<<"clear", "starting">>, <<"re_clear", "check">>},
         ClearID(r, from, to)
  PROVE  Orderly'
<1> USE DEF ClearID, At, Orderly, dockerVars, bootVars
<1>0. \A q \in Reqs : q = r
  BY DEF Sequential
<1>1. req[r].pc = from /\ from \in IDPcs /\ from \in GonePcs
  BY DEF IDPcs, GonePcs
<1> SUFFICES ASSUME NEW s \in Srvs, NEW u \in UUIDs,
                    s = req[r].srv, u = req[r].uuid
             PROVE  Orderly'
  BY <1>1, HasID
<1>2. s = registry[u] /\ NoGame(u)
  BY <1>1, HasID DEF IDsTrue
<1>3. /\ req'[r].uuid = u /\ req'[r].srv = s /\ req'[r].pc = to
  BY GotoWithType DEF TypeInv, TypeOK
<1>4. /\ \A a \in Srvs \ {s} : servers'[a] = servers[a]
      /\ servers'[s].cid = Null
      /\ \A a \in Srvs : servers'[a].state = servers[a].state
  BY <1>2 DEF SetContainerID, TypeInv, TypeOK, RegistryTypeOK, Server
<1>5. UNCHANGED <<registry, inst, daemon, todo, containers>>
  OBVIOUS
<1>6. \A v \in UUIDs : registry[v] # Null /\ v # u =>
        registry[v] \in Srvs /\ servers'[registry[v]] = servers[registry[v]]
  BY <1>2, <1>4, RegistryIsType
<1>7. BootsEmpty'
  BY <1>1, <1>5, UpOrEmpty DEF BootsEmpty, Exists, GonePcs
<1>8. LookUpsHold'
  BY <1>0, <1>2, <1>3, <1>5 DEF LookUpsHold, NoSrvPcs
<1>9. GamesTracked'
  <2> SUFFICES ASSUME NEW c \in Cids, Game(c)
               PROVE  LET v == containers[c].uuid IN
                        /\ v \in UUIDs /\ registry[v] # Null
                        /\ servers'[registry[v]].cid = c
    BY <1>5 DEF GamesTracked, Game, Exists
  <2>1. containers[c].uuid # u
    BY <1>2 DEF NoGame
  <2>2. QED
    BY <1>0, <1>1, <1>6, <2>1 DEF GamesTracked, GonePcs
<1>10. IDsTrue'
  <2>1. Srv(r)'.cid = Null
    BY <1>3, <1>4 DEF Srv
  <2>2. QED
    BY <1>0, <1>3, <2>1 DEF IDsTrue, NoIDPcs, IDPcs, GonePcs
<1>11. IDsExist'
  <2> SUFFICES ASSUME NEW v \in UUIDs, registry[v] # Null,
                      NEW d, d = servers'[registry[v]].cid, d # Null
               PROVE  Game(d)' /\ containers'[d].uuid = v
    BY <1>5 DEF IDsExist, Game, Exists
  <2>1. v # u
    BY <1>2, <1>4
  <2>2. d = servers[registry[v]].cid
    BY <1>6, <2>1
  <2>3. Game(d) /\ containers[d].uuid = v
    BY <1>0, <2>1, <2>2 DEF IDsExist
  <2>4. QED
    BY <1>5, <2>3 DEF Game, Exists
<1>12. StoppingOwned'
  <2>1. \A v \in UUIDs : registry[v] # Null => registry[v] \in Srvs
    BY RegistryIsType
  <2>2. QED
    BY <1>0, <1>3, <1>4, <1>5, <2>1 DEF StoppingOwned, HandlerOn, StoppingPcs
<1>13. QED
  BY <1>7, <1>8, <1>9, <1>10, <1>11, <1>12

-----------------------------------------------------------------------------
(* Requests that create a container or a server                            *)

LEMMA CreateContainerOrderly ==
  ASSUME TypeInv, Orderly, Sequential, NEW r \in Reqs, CreateContainer(r)
  PROVE  Orderly'
<1> USE DEF Orderly
<1>0. \A q \in Reqs : q = r
  BY DEF Sequential
<1>1. req[r].pc = "create"
  BY DEF CreateContainer, At
<1> SUFFICES ASSUME NEW s \in Srvs, NEW u \in UUIDs,
                    s = req[r].srv, u = req[r].uuid
             PROVE  Orderly'
  BY <1>1 DEF TypeInv, Holds, NoSrvPcs
<1>2. /\ s = registry[u] /\ servers[s].uuid = u /\ servers[s].cid = Null
      /\ Srv(r) = servers[s]
  BY <1>1 DEF LookUpsHold, IDsTrue, NoIDPcs, Srv, TypeInv, Holds, NoSrvPcs
<1>3. /\ UNCHANGED <<registry, servers, inst, daemon, todo>>
      /\ daemon = "up"
  BY <1>1, UpOrEmpty DEF CreateContainer, registryVars, bootVars
<1>4. CASE Goto(r, "crashed") /\ UNCHANGED containers
  <2>1. /\ req'[r].pc = "crashed"
        /\ req'[r].uuid = req[r].uuid /\ req'[r].srv = req[r].srv
    BY <1>4, GotoType DEF TypeInv, TypeOK, ReqPcs, StartPcs
  <2>2. GamesKept /\ RegistryKept
    BY <1>3, <1>4 DEF GamesKept, RegistryKept, Game, Exists
  <2>3. QED
    BY <1>1, <1>3, <2>1, <2>2, MoveOrderly
       DEF NoSrvPcs, NoIDPcs, IDPcs, GonePcs, StoppingPcs
<1>5. ASSUME NEW c \in Cids, Fresh(c), ContainerCreate(c, "game", u),
             GotoWith(r, "set_id", c)
      PROVE  Orderly'
  <2>1. /\ req'[r].pc = "set_id" /\ req'[r].cid = c
        /\ req'[r].uuid = u /\ req'[r].srv = s
    BY <1>5, GotoWithType DEF TypeInv, TypeOK, ReqPcs, StartPcs
  <2>2. /\ \A d \in Cids \ {c} : containers'[d] = containers[d]
        /\ containers'[c].status # "none" /\ containers'[c].kind = "game"
        /\ containers'[c].uuid = u
    <3>1. DockerTypeOK
      BY DEF TypeInv, TypeOK
    <3>2. QED
      BY <1>5, <3>1 DEF ContainerCreate, DockerTypeOK
  <2>3. ~Exists(c) /\ Game(c)'
    BY <1>5, <2>2 DEF Fresh, Game, Exists
  <2>4. \A d \in Cids \ {c} : (Game(d)' <=> Game(d)) /\ containers'[d].uuid = containers[d].uuid
    BY <2>2 DEF Game, Exists
  <2>5. BootsEmpty'
    BY <1>3 DEF BootsEmpty
  <2>6. LookUpsHold'
    BY <1>0, <1>2, <1>3, <2>1 DEF LookUpsHold, NoSrvPcs
  <2>7. GamesTracked'
    <3> SUFFICES ASSUME NEW d \in Cids, Game(d)'
                 PROVE  LET v == containers'[d].uuid IN
                        /\ v \in UUIDs /\ registry[v] # Null
                        /\ \/ servers[registry[v]].cid = d
                           \/ req'[r].pc = "set_id" /\ req'[r].cid = d /\ req'[r].uuid = v
      BY <1>3 DEF GamesTracked, At
    <3>1. CASE d = c
      BY <1>2, <2>1, <2>2, <3>1, RegistryIsType
    <3>2. CASE d # c
      <4>1. Game(d) /\ \A q \in Reqs : ~At(q, "set_id")
        BY <1>0, <1>1, <2>4, <3>2 DEF At
      <4>2. QED
        BY <2>4, <3>2, <4>1 DEF GamesTracked
    <3>3. QED
      BY <3>1, <3>2
  <2>8. IDsTrue'
    <3>1. Srv(r)'.cid = Null
      BY <1>2, <1>3, <2>1 DEF Srv
    <3>2. QED
      BY <1>0, <2>1, <2>2, <2>3, <3>1 DEF IDsTrue, NoIDPcs, IDPcs, GonePcs
  <2>9. IDsExist'
    <3> SUFFICES ASSUME NEW v \in UUIDs, registry[v] # Null,
                        NEW d, d = servers[registry[v]].cid, d # Null
                 PROVE  Game(d)' /\ containers'[d].uuid = v
      BY <1>3 DEF IDsExist, Game, Exists
    <3>1. Game(d) /\ containers[d].uuid = v /\ d \in Cids
      BY <1>0, <1>1, RegistryIsType DEF IDsExist, GonePcs
    <3>2. d # c
      BY <2>3, <3>1 DEF Game
    <3>3. QED
      BY <2>4, <3>1, <3>2
  <2>10. StoppingOwned'
    BY <1>0, <1>1, <1>3 DEF StoppingOwned, HandlerOn, StoppingPcs
  <2>11. QED
    BY <2>5, <2>6, <2>7, <2>8, <2>9, <2>10
<1>6. QED
  BY <1>2, <1>4, <1>5 DEF CreateContainer

LEMMA StoreIDOrderly ==
  ASSUME TypeInv, Orderly, Sequential, NEW r \in Reqs, StoreID(r)
  PROVE  Orderly'
<1> USE DEF Orderly
<1>0. \A q \in Reqs : q = r
  BY DEF Sequential
<1>1. req[r].pc = "set_id"
  BY DEF StoreID, At
<1> SUFFICES ASSUME NEW s \in Srvs, NEW u \in UUIDs, NEW c \in Cids,
                    s = req[r].srv, u = req[r].uuid, c = req[r].cid
             PROVE  Orderly'
  BY <1>1 DEF TypeInv, Holds, NoSrvPcs, IDsTrue, Game, Exists
<1>2. /\ s = registry[u] /\ servers[s].cid = Null
      /\ Game(c) /\ containers[c].uuid = u
  BY <1>1 DEF LookUpsHold, IDsTrue, NoIDPcs, Srv, NoSrvPcs
<1>3. /\ req'[r].pc = "run" /\ req'[r].cid = c
      /\ req'[r].uuid = u /\ req'[r].srv = s
  BY GotoType DEF StoreID, TypeInv, TypeOK, ReqPcs, StartPcs
<1>4. /\ \A a \in Srvs \ {s} : servers'[a] = servers[a]
      /\ servers'[s].cid = c
      /\ \A a \in Srvs : servers'[a].state = servers[a].state
  BY DEF StoreID, SetContainerID, TypeInv, TypeOK, RegistryTypeOK, Server
<1>5. UNCHANGED <<registry, inst, daemon, todo, containers>> /\ daemon = "up"
  BY <1>1, UpOrEmpty DEF StoreID, dockerVars, bootVars
<1>6. \A v \in UUIDs : registry[v] # Null /\ v # u =>
        registry[v] \in Srvs /\ servers'[registry[v]] = servers[registry[v]]
  BY <1>2, <1>4, RegistryIsType
<1>7. BootsEmpty'
  BY <1>5 DEF BootsEmpty
<1>8. LookUpsHold'
  BY <1>0, <1>2, <1>3, <1>5 DEF LookUpsHold, NoSrvPcs
<1>9. GamesTracked'
  <2> SUFFICES ASSUME NEW d \in Cids, Game(d)
               PROVE  LET v == containers[d].uuid IN
                        /\ v \in UUIDs /\ registry[v] # Null
                        /\ servers'[registry[v]].cid = d
    BY <1>5 DEF GamesTracked, Game, Exists
  <2>1. CASE containers[d].uuid = u
    <3>1. d = c
      BY <1>0, <1>2, <2>1, RegistryIsType DEF GamesTracked
    <3>2. QED
      BY <1>2, <1>4, <2>1, <3>1, RegistryIsType
  <2>2. CASE containers[d].uuid # u
    BY <1>0, <1>6, <2>2 DEF GamesTracked
  <2>3. QED
    BY <2>1, <2>2
<1>10. IDsTrue'
  <2>1. Srv(r)'.cid = c /\ c # Null
    BY <1>3, <1>4, RegistryIsType DEF Srv
  <2>2. QED
    BY <1>0, <1>3, <2>1 DEF IDsTrue, NoIDPcs, IDPcs, GonePcs
<1>11. IDsExist'
  <2> SUFFICES ASSUME NEW v \in UUIDs, registry[v] # Null,
                      NEW d, d = servers'[registry[v]].cid, d # Null
               PROVE  Game(d) /\ containers[d].uuid = v
    BY <1>5 DEF IDsExist, Game, Exists
  <2>1. CASE v = u
    BY <1>2, <1>4, <2>1
  <2>2. CASE v # u
    <3>1. d = servers[registry[v]].cid
      BY <1>6, <2>2
    <3>2. QED
      BY <1>0, <1>1, <3>1 DEF IDsExist, GonePcs
  <2>3. QED
    BY <2>1, <2>2
<1>12. StoppingOwned'
  <2>1. \A v \in UUIDs : registry[v] # Null => registry[v] \in Srvs
    BY RegistryIsType
  <2>2. QED
    BY <1>0, <1>1, <1>4, <1>5, <2>1 DEF StoppingOwned, HandlerOn, StoppingPcs
<1>13. QED
  BY <1>7, <1>8, <1>9, <1>10, <1>11, <1>12

\* A new object takes an address that nobody can reach.
LEMMA AddServerOrderly ==
  ASSUME TypeInv, Orderly, Sequential, NEW r \in Reqs, AddServer(r)
  PROVE  Orderly'
<1> USE DEF Orderly
<1>0. \A q \in Reqs : q = r
  BY DEF Sequential
<1>1. req[r].pc = "add"
  BY DEF AddServer, At
<1> SUFFICES ASSUME NEW u \in UUIDs, u = req[r].uuid
             PROVE  Orderly'
  BY <1>1 DEF TypeInv, Holds
<1>2. registry[u] = Null
  BY <1>1 DEF LookUpsHold
<1>3. UNCHANGED <<containers, inst, daemon, todo>> /\ daemon = "up"
  BY <1>1, UpOrEmpty DEF AddServer, dockerVars, bootVars
<1>4. PICK s \in Srvs : /\ Unreachable(s) /\ Add(s, New(u, TRUE))
                        /\ Reply(r) \/ GotoHolding(r, "installing", s)
  BY <1>2 DEF AddServer
<1>5. /\ servers'[s].cid = Null /\ servers'[s].state = "offline"
      /\ registry'[u] = s
      /\ \A a \in Srvs \ {s} : servers'[a] = servers[a]
      /\ \A v \in UUIDs \ {u} : registry'[v] = registry[v]
  <2>1. New(u, TRUE) \in Server
    BY DEF New, Server, States
  <2>2. New(u, TRUE).uuid = u /\ New(u, TRUE).cid = Null /\ New(u, TRUE).state = "offline"
    BY DEF New
  <2> DEFINE server == New(u, TRUE)
  <2>3. server \in Server /\ server.uuid = u /\ Add(s, server) /\ RegistryTypeOK
    BY <1>4, <2>1, <2>2 DEF TypeInv, TypeOK
  <2>4. server.cid = Null /\ server.state = "offline"
    BY <2>2
  <2> HIDE DEF server
  <2>5. QED
    BY <2>3, <2>4, AddType
<1>6. \A v \in UUIDs : registry[v] # Null =>
        /\ v # u /\ registry'[v] = registry[v] /\ registry[v] \in Srvs
        /\ servers'[registry[v]] = servers[registry[v]]
  BY <1>2, <1>4, <1>5, RegistryIsType DEF Unreachable
<1>7. \/ req'[r].pc = "idle"
      \/ req'[r].pc = "installing" /\ req'[r].srv = s /\ req'[r].uuid = u
  BY ZenonT(60), <1>4, ReplyType, GotoHoldingType DEF TypeInv, TypeOK, ReqPcs
<1>8. BootsEmpty'
  BY <1>3 DEF BootsEmpty
<1>9. LookUpsHold'
  BY <1>0, <1>5, <1>7 DEF LookUpsHold, NoSrvPcs
<1>10. GamesTracked'
  BY <1>0, <1>1, <1>3, <1>6 DEF GamesTracked, Game, Exists, At
<1>11. IDsTrue'
  BY <1>0, <1>7 DEF IDsTrue, NoIDPcs, IDPcs, GonePcs
<1>12. IDsExist'
  <2> SUFFICES ASSUME NEW v \in UUIDs, registry'[v] # Null,
                      NEW d, d = servers'[registry'[v]].cid, d # Null
               PROVE  Game(d) /\ containers[d].uuid = v
    BY <1>3 DEF IDsExist, Game, Exists
  <2>1. v # u
    BY <1>5
  <2>2. registry[v] # Null /\ d = servers[registry[v]].cid
    BY <1>5, <1>6, <2>1
  <2>3. QED
    BY <1>0, <1>1, <2>2 DEF IDsExist, GonePcs
<1>13. StoppingOwned'
  <2> SUFFICES ASSUME NEW v \in UUIDs, registry'[v] # Null,
                      servers'[registry'[v]].state = "stopping"
               PROVE  FALSE
    BY DEF StoppingOwned
  <2>1. v # u
    BY <1>5
  <2>2. registry[v] # Null /\ servers[registry[v]].state = "stopping"
    BY <1>5, <1>6, <2>1
  <2>3. QED
    BY <1>0, <1>1, <2>2 DEF StoppingOwned, HandlerOn, StoppingPcs
<1>14. QED
  BY <1>8, <1>9, <1>10, <1>11, <1>12, <1>13

LEMMA SpawnInstallerOrderly ==
  ASSUME TypeInv, Orderly, Sequential, NEW r \in Reqs, SpawnInstaller(r)
  PROVE  Orderly'
<1>1. req[r].pc = "installing" /\ req'[r].pc = "idle"
  BY ReplyType DEF SpawnInstaller, At, TypeInv, TypeOK
<1>2. /\ \A a \in Srvs : servers'[a].cid = servers[a].cid
      /\ \A a \in Srvs \ {req[r].srv} : servers'[a] = servers[a]
      /\ req[r].srv \in Srvs => servers'[req[r].srv].state = "installing"
  <2>1. "installing" \in States
    BY DEF States
  <2>2. servers \in [Srvs -> Server] /\ SetState(req[r].srv, "installing")
    BY DEF SpawnInstaller, TypeInv, TypeOK, RegistryTypeOK
  <2>3. QED
    BY <2>1, <2>2, SetStateType
<1>3. GamesKept /\ RegistryKept /\ daemon' = daemon /\ todo' = todo
  BY <1>2 DEF SpawnInstaller, GamesKept, RegistryKept, Game, Exists, dockerVars,
     bootVars
<1>4. QED
  BY <1>1, <1>2, <1>3, MoveOrderly DEF NoIDPcs, IDPcs, GonePcs, StoppingPcs

LEMMA DeleteEntryOrderly ==
  ASSUME TypeInv, Orderly, Sequential, NEW r \in Reqs, DeleteEntry(r)
  PROVE  Orderly'
<1> USE DEF Orderly
<1>0. \A q \in Reqs : q = r
  BY DEF Sequential
<1>1. req[r].pc = "del_entry" /\ req'[r].pc = "idle"
  BY ReplyType DEF DeleteEntry, At, TypeInv, TypeOK
<1> SUFFICES ASSUME NEW u \in UUIDs, u = req[r].uuid
             PROVE  Orderly'
  BY <1>1 DEF TypeInv, Holds
<1>2. NoGame(u) /\ req[r].srv = registry[u]
  BY <1>1 DEF IDsTrue, LookUpsHold, GonePcs, NoSrvPcs
<1>3. UNCHANGED <<containers, inst, daemon, todo>> /\ daemon = "up"
  BY <1>1, UpOrEmpty DEF DeleteEntry, dockerVars, bootVars
<1>4. /\ \A v \in UUIDs \ {u} : registry'[v] = registry[v]
      /\ registry'[u] = Null
      /\ \A a \in Srvs : /\ servers'[a].cid = servers[a].cid
                         /\ servers'[a].state = servers[a].state
  BY RemoveType DEF DeleteEntry, TypeInv, TypeOK
<1>5. BootsEmpty'
  BY <1>3 DEF BootsEmpty
<1>6. LookUpsHold'
  BY <1>0, <1>1 DEF LookUpsHold, NoSrvPcs
<1>7. GamesTracked'
  <2> SUFFICES ASSUME NEW c \in Cids, Game(c)
               PROVE  LET v == containers[c].uuid IN
                      /\ v \in UUIDs /\ registry'[v] # Null
                      /\ servers'[registry'[v]].cid = c
    BY <1>3 DEF GamesTracked, Game, Exists
  <2>1. containers[c].uuid # u
    BY <1>2 DEF NoGame
  <2>2. \A q \in Reqs : ~At(q, "set_id")
    BY <1>0, <1>1 DEF At
  <2>3. QED
    BY <1>4, <2>1, <2>2, RegistryIsType DEF GamesTracked
<1>8. IDsTrue'
  BY <1>0, <1>1 DEF IDsTrue, NoIDPcs, IDPcs, GonePcs
<1>9. IDsExist'
  <2> SUFFICES ASSUME NEW v \in UUIDs, registry'[v] # Null,
                      NEW d, d = servers'[registry'[v]].cid, d # Null
               PROVE  Game(d) /\ containers[d].uuid = v
    BY <1>3 DEF IDsExist, Game, Exists
  <2>1. v # u /\ registry[v] # Null /\ d = servers[registry[v]].cid
    BY <1>4, RegistryIsType
  <2>2. QED
    BY <1>0, <2>1 DEF IDsExist
<1>10. StoppingOwned'
  <2> SUFFICES ASSUME NEW v \in UUIDs, registry'[v] # Null,
                      servers'[registry'[v]].state = "stopping"
               PROVE  FALSE
    BY DEF StoppingOwned
  <2>1. v # u /\ registry[v] # Null /\ servers[registry[v]].state = "stopping"
    BY <1>4, RegistryIsType
  <2>2. QED
    BY <1>0, <1>1, <2>1 DEF StoppingOwned, HandlerOn, StoppingPcs
<1>11. QED
  BY <1>5, <1>6, <1>7, <1>8, <1>9, <1>10

LEMMA NewRequestOrderly ==
  ASSUME TypeInv, Orderly, Sequential, NEW r \in Reqs, NewRequest(r)
  PROVE  Orderly'
<1> USE DEF Orderly
<1>0. \A q \in Reqs : q = r
  BY DEF Sequential
<1>1. PICK u \in UUIDs :
        \/ CreateRequest(r, u)
        \/ \E op \in {"delete", "start", "stop", "restart", "kill"} :
             ServerRequest(r, u, op)
  BY DEF NewRequest
<1>2. /\ req[r].pc = "idle" /\ daemon = "up"
      /\ UNCHANGED <<containers, registry, servers, inst, daemon, todo>>
  BY <1>1 DEF CreateRequest, ServerRequest, At, dockerVars, registryVars, bootVars
<1>3. /\ req'[r].uuid = u
      /\ \/ req'[r].pc = "mkdir" /\ registry[u] = Null
         \/ /\ req'[r].pc \in {"del_read", "check", "stop_read", "re_read", "kill_read"}
            /\ req'[r].srv = registry[u]
  <2>1. CASE CreateRequest(r, u)
    BY <2>1 DEF CreateRequest, Idle, TypeInv, TypeOK
  <2>2. ASSUME NEW op \in {"delete", "start", "stop", "restart", "kill"},
               ServerRequest(r, u, op)
        PROVE  /\ req'[r].uuid = u /\ req'[r].srv = registry[u]
               /\ req'[r].pc \in {"del_read", "check", "stop_read", "re_read",
                                 "kill_read"}
    <3>1. req'[r] = [pc |-> FirstPc(op), uuid |-> u, srv |-> registry[u], cid |-> Null]
      BY <2>2 DEF ServerRequest, TypeInv, TypeOK
    <3>2. FirstPc(op) \in {"del_read", "check", "stop_read", "re_read", "kill_read"}
      BY DEF FirstPc
    <3>3. QED
      BY <3>1, <3>2
  <2>3. QED
    BY <1>1, <2>1, <2>2
<1>4. BootsEmpty'
  BY <1>2 DEF BootsEmpty
<1>5. LookUpsHold'
  BY <1>0, <1>2, <1>3 DEF LookUpsHold, NoSrvPcs
<1>6. GamesTracked'
  BY <1>0, <1>2 DEF GamesTracked, Game, Exists, At
<1>7. IDsTrue'
  BY <1>0, <1>3 DEF IDsTrue, NoIDPcs, IDPcs, GonePcs
<1>8. IDsExist'
  BY <1>0, <1>2 DEF IDsExist, Game, Exists, GonePcs
<1>9. StoppingOwned'
  BY <1>0, <1>2 DEF StoppingOwned, HandlerOn, StoppingPcs
<1>10. QED
  BY <1>4, <1>5, <1>6, <1>7, <1>8, <1>9

-----------------------------------------------------------------------------
(* The goroutines beside the requests, and the daemon                      *)

LEMMA InstallerOrderly ==
  ASSUME TypeInv, Alive, Orderly, Sequential, NEW s \in Srvs,
         Installer(s) \/ StreamBreaks(s)
  PROVE  Orderly'
<1>1. inst[s].pc # "none" /\ daemon = "up"
  <2>1. inst[s].pc # "none"
    BY DEF Installer, StreamBreaks, InstallPull, InstallCreate, InstallStart,
       InstallLogs, InstallWait, InstallKill, InstallRemove, InstallFinish
  <2>2. QED
    BY <2>1, UpOrEmpty DEF Orderly
<1>2. UNCHANGED <<registry, req, todo, daemon>>
  BY DEF Installer, StreamBreaks, InstallPull, InstallCreate, InstallStart,
     InstallLogs, InstallWait, InstallKill, InstallRemove, InstallFinish,
     registryVars, bootVars
<1>3. RegistryKept /\ NoneStops
  <2>1. CASE InstallFinish(s)
    <3>1. {"offline", "install_failed"} \subseteq States
      BY DEF States
    <3>2. PICK state \in {"offline", "install_failed"} : SetState(s, state)
      BY <2>1 DEF InstallFinish
    <3>3. QED
      BY <1>2, <3>1, <3>2, SetStateType
         DEF RegistryKept, NoneStops, TypeInv, TypeOK, RegistryTypeOK
  <2>2. CASE ~InstallFinish(s)
    <3>1. servers' = servers
      BY <2>2 DEF Installer, StreamBreaks, InstallPull, InstallCreate, InstallStart,
         InstallLogs, InstallWait, InstallKill, InstallRemove, registryVars
    <3>2. QED
      BY <1>2, <3>1 DEF RegistryKept, NoneStops
  <2>3. QED
    BY <2>1, <2>2
<1>4. GamesKept
  <2> SUFFICES ASSUME NEW c, c = inst[s].cid PROVE GamesKept
    OBVIOUS
  <2>1. ~Game(c)
    BY DEF Alive, InstallersInstall, Game
  <2>2. ASSUME NEW d, \A e \in Cids \ {d} : containers'[e] = containers[e],
               ~Game(d), ~Game(d)'
        PROVE  GamesKept
    BY <2>2 DEF GamesKept, Game, Exists
  <2>3. CASE InstallCreate(s)
    <3>1. CASE UNCHANGED containers
      BY <3>1 DEF GamesKept, Game, Exists
    <3>2. ASSUME NEW d \in Cids, Fresh(d),
                 ContainerCreate(d, "install", servers[s].uuid)
          PROVE  GamesKept
      <4>1. /\ \A e \in Cids \ {d} : containers'[e] = containers[e]
            /\ containers'[d].kind = "install"
        BY <3>2 DEF ContainerCreate, TypeInv, TypeOK, DockerTypeOK
      <4>2. QED
        BY <2>2, <3>2, <4>1 DEF Game, Fresh
    <3>3. QED
      BY <2>3, <3>1, <3>2 DEF InstallCreate
  <2>4. CASE InstallStart(s)
    <3>1. CASE UNCHANGED containers
      BY <3>1 DEF GamesKept, Game, Exists
    <3>2. CASE Exists(c) /\ ContainerStart(c)
      <4>1. c \in Cids /\ containers'[c].kind = containers[c].kind
            /\ \A e \in Cids \ {c} : containers'[e] = containers[e]
        BY <3>2, StartType DEF Exists, TypeInv, TypeOK
      <4> QED
        BY <2>1, <3>2, <4>1 DEF GamesKept, Game, Exists
    <3>3. QED
      BY <2>4, <3>1, <3>2 DEF InstallStart
  <2>5. CASE InstallKill(s)
    BY <2>5, HaltKeepsGames DEF InstallKill, Codes, GamesKept, Game, Exists
  <2>6. CASE InstallRemove(s)
    <3>1. CASE CallFails(c)
      BY <3>1, CallKeepsGames
    <3>2. CASE RemoveCall(c)
      <4>1. /\ c \in Cids /\ containers'[c].status = "none"
            /\ \A e \in Cids \ {c} : containers'[e] = containers[e]
        BY <3>2, RemovalType, NodeAssumption
           DEF RemoveCall, Exists, NoContainer, TypeInv, TypeOK
      <4>2. ~Game(c)'
        BY <4>1 DEF Game, Exists
      <4>3. QED
        BY <2>1, <2>2, <4>1, <4>2
    <3>3. QED
      BY <2>6, <3>1, <3>2 DEF InstallRemove
  <2>7. CASE containers' = containers
    BY <2>7 DEF GamesKept, Game, Exists
  <2>8. QED
    BY <2>3, <2>4, <2>5, <2>6, <2>7
       DEF Installer, StreamBreaks, InstallPull, InstallLogs, InstallWait,
           InstallFinish, dockerVars
<1>5. QED
  BY <1>1, <1>2, <1>3, <1>4, BesideOrderly

LEMMA WatcherOrderly ==
  ASSUME TypeInv, Alive, Orderly, Sequential, NEW c \in Cids,
         \/ Watcher(c) \/ WaitBreaks(c)
         \/ \E code \in Codes : ContainerExit(c, code)
  PROVE  Orderly'
<1>1. CASE \E code \in Codes : ContainerExit(c, code)
  <2>1. daemon = "up"
    BY <1>1, UpOrEmpty DEF ContainerExit, IsRunning, Exists, Orderly
  <2>2. GamesKept
    BY <1>1, HaltKeepsGames DEF ContainerExit
  <2>3. RegistryKept /\ NoneStops /\ UNCHANGED <<req, todo, daemon>>
    BY <1>1 DEF ContainerExit, RegistryKept, NoneStops, registryVars, bootVars
  <2>4. QED
    BY <2>1, <2>2, <2>3, BesideOrderly
<1>2. CASE Watcher(c) \/ WaitBreaks(c)
  <2>1. UNCHANGED <<containers, registry, req, todo, daemon, inst>>
    BY <1>2 DEF Watcher, WaitBreaks, WatchExit, WatchError, WatchCancelled,
       WatchFailed, bootVars, registryVars
  <2>2. RegistryKept /\ NoneStops
    <3>1. CASE servers' = servers
      BY <2>1, <3>1 DEF RegistryKept, NoneStops
    <3>2. ASSUME NEW state \in {"offline", "crashed"}, SetState(watch[c].srv, state)
          PROVE  RegistryKept /\ NoneStops
      <4>1. state \in States /\ servers \in [Srvs -> Server]
        BY DEF States, TypeInv, TypeOK, RegistryTypeOK
      <4>2. QED
        BY <2>1, <3>2, <4>1, SetStateType DEF RegistryKept, NoneStops
    <3>3. QED
      BY <1>2, <3>1, <3>2
         DEF Watcher, WaitBreaks, WatchExit, WatchError, WatchCancelled,
             WatchFailed, registryVars
  <2>3. GamesKept
    BY <2>1 DEF GamesKept, Game, Exists
  <2>4. CASE daemon = "up"
    BY <2>1, <2>2, <2>3, <2>4, BesideOrderly
  <2>5. watch[c].got # "none"
    BY <1>2 DEF Watcher, WaitBreaks, WatchExit, WatchError, WatchCancelled, Codes
  <2>6. QED
    BY <2>4, <2>5, UpOrEmpty DEF Orderly
<1>3. QED
  BY <1>1, <1>2

LEMMA DaemonOrderly ==
  ASSUME TypeInv, Orderly, Sequential, DaemonStart
  PROVE  Orderly'
<1> USE DEF Orderly
<1>1. daemon # "up"
  <2>1. ASSUME NEW u \in UUIDs, Restore(u) PROVE daemon # "up"
    BY <2>1 DEF Restore
  <2>2. QED
    BY <2>1 DEF DaemonStart, Boot, Serve
<1>2. /\ \A c \in Cids : ~Exists(c) /\ watch[c].got = "none"
      /\ \A r \in Reqs : req[r].pc = "idle"
      /\ \A s \in Srvs : inst[s].pc = "none"
      /\ \A u \in UUIDs : todo[u] = Null
  BY <1>1 DEF BootsEmpty
<1>3. Boot \/ Serve
  BY <1>2 DEF DaemonStart, Restore
<1>4. UNCHANGED <<containers, watch, registry, servers, req, inst>>
  BY <1>3 DEF Boot, Serve, dockerVars, registryVars
<1>5. \A u \in UUIDs : todo'[u] = Null
  <2>1. CASE Boot
    BY <1>2, <2>1 DEF Boot, Managed, Sequential
  <2>2. CASE Serve
    BY <1>2, <2>2 DEF Serve
  <2>3. QED
    BY <1>3, <2>1, <2>2
<1>6. BootsEmpty'
  BY <1>2, <1>4, <1>5 DEF BootsEmpty, Exists
<1>7. LookUpsHold'
  BY <1>2, <1>4 DEF LookUpsHold, NoSrvPcs
<1>8. GamesTracked'
  BY <1>2, <1>4 DEF GamesTracked, Game, Exists
<1>9. IDsTrue'
  BY <1>2, <1>4 DEF IDsTrue, NoIDPcs, IDPcs, GonePcs
<1>10. IDsExist'
  BY <1>2, <1>4 DEF IDsExist, Game, Exists
<1>11. StoppingOwned'
  BY <1>4 DEF StoppingOwned, HandlerOn
<1>12. QED
  BY <1>6, <1>7, <1>8, <1>9, <1>10, <1>11

LEMMA HandlerOrderly ==
  ASSUME TypeInv, Orderly, Sequential, NEW r \in Reqs, Handler(r)
  PROVE  Orderly'
<1>1. CASE CreateSteps(r)
  BY <1>1, PassOrderly, AddServerOrderly, SpawnInstallerOrderly DEF CreateSteps
<1>2. CASE DeleteReadID(r) \/ StartReadID(r) \/ StopReadID(r) \/ RestartReadID(r)
           \/ KillReadID(r)
  <2>1. {"del_read", "del_dir", "del_stop", "read", "starting", "remove_stale",
         "stop_read", "idle", "stop_stopping", "re_read", "check", "re_stopping",
         "kill_read", "kill_kill"} \subseteq ReqPcs
    BY DEF ReqPcs, StartPcs
  <2>2. PICK from \in ReqPcs, none \in ReqPcs, some \in ReqPcs :
          /\ <<from, none, some>> \in
               {<<"del_read", "del_dir", "del_stop">>,
                <<"read", "starting", "remove_stale">>,
                <<"stop_read", "idle", "stop_stopping">>,
                <<"re_read", "check", "re_stopping">>,
                <<"kill_read", "idle", "kill_kill">>}
          /\ ReadID(r, from, none, some)
    BY <1>2, <2>1
       DEF DeleteReadID, StartReadID, StopReadID, RestartReadID, KillReadID
  <2>3. QED
    BY <2>2, ReadIDOrderly
<1>3. CASE SetStarting(r) \/ SetRunning(r) \/ StartFailed(r) \/ StopStopping(r)
           \/ StopOffline(r) \/ RestartStopping(r) \/ KillCrashed(r)
  <2>1. {"starting", "running", "crashed", "stop_stopping", "stop_offline",
         "re_stopping", "kill_crashed", "pull", "watch", "idle", "stop_stop",
         "re_stop"} \subseteq ReqPcs
    BY DEF ReqPcs, StartPcs
  <2>2. {"starting", "running", "crashed", "stopping", "offline"} \subseteq States
    BY DEF States
  <2>3. PICK from \in ReqPcs, state \in States, to \in ReqPcs :
          /\ <<from, state, to>> \in
               {<<"starting", "starting", "pull">>, <<"running", "running", "watch">>,
                <<"crashed", "crashed", "idle">>,
                <<"stop_stopping", "stopping", "stop_stop">>,
                <<"stop_offline", "offline", "idle">>,
                <<"re_stopping", "stopping", "re_stop">>,
                <<"kill_crashed", "crashed", "idle">>}
          /\ Mark(r, from, state, to)
    BY <1>3, <2>1, <2>2
       DEF SetStarting, SetRunning, StartFailed, StopStopping, StopOffline,
           RestartStopping, KillCrashed
  <2>4. QED
    BY <2>3, MarkOrderly
<1>4. CASE StartClear(r) \/ RestartClear(r)
  <2>1. {"clear", "starting", "re_clear", "check"} \subseteq ReqPcs
    BY DEF ReqPcs, StartPcs
  <2>2. PICK from \in ReqPcs, to \in ReqPcs :
          /\ <<from, to>> \in {<<"clear", "starting">>, <<"re_clear", "check">>}
          /\ ClearID(r, from, to)
    BY <1>4, <2>1 DEF StartClear, RestartClear
  <2>3. QED
    BY <2>2, ClearIDOrderly
<1>5. CASE DeleteSteps(r) /\ ~DeleteReadID(r)
  BY <1>5, StopsOrderly, RemovesOrderly, PassOrderly, DeleteEntryOrderly
     DEF DeleteSteps
<1>6. CASE StartSteps(r) /\ ~StartReadID(r) /\ ~StartClear(r) /\ ~SetStarting(r)
           /\ ~SetRunning(r) /\ ~StartFailed(r)
  BY <1>6, PassOrderly, RemovesOrderly, CreateContainerOrderly, StoreIDOrderly
     DEF StartSteps
<1>7. CASE StopContainer(r) \/ RestartStop(r) \/ RestartRemove(r) \/ KillContainer(r)
  BY <1>7, StopsOrderly, RemovesOrderly, PassOrderly
<1>8. QED
  BY <1>1, <1>2, <1>3, <1>4, <1>5, <1>6, <1>7
     DEF Handler, PowerSteps

LEMMA OrderlyInit == Init => Orderly
<1> SUFFICES ASSUME Init PROVE Orderly
  OBVIOUS
<1> USE DEF Init
<1>1. /\ \A c \in Cids : ~Exists(c) /\ watch[c].got = "none"
      /\ \A r \in Reqs : req[r].pc = "idle"
      /\ \A s \in Srvs : inst[s].pc = "none"
      /\ \A u \in UUIDs : todo[u] = Null /\ registry[u] = Null
  BY DEF DockerInit, NoContainer, Exists, NoWatch, Idle, NoInstaller, RegistryInit
<1>2. QED
  BY <1>1 DEF Orderly, BootsEmpty, LookUpsHold, GamesTracked, IDsTrue, IDsExist,
     StoppingOwned, Game, NoSrvPcs, NoIDPcs, IDPcs, GonePcs

LEMMA OrderlyNext ==
  ASSUME Sequential, TypeInv, Alive, Orderly, [Next]_vars
  PROVE  Orderly'
<1>1. CASE \E r \in Reqs : NewRequest(r) \/ Handler(r)
  BY <1>1, NewRequestOrderly, HandlerOrderly
<1>2. CASE \E s \in Srvs : Installer(s) \/ StreamBreaks(s)
  BY <1>2, InstallerOrderly
<1>3. CASE \/ \E c \in Cids : Watcher(c) \/ WaitBreaks(c)
           \/ \E c \in Cids, code \in Codes : ContainerExit(c, code)
  BY <1>3, WatcherOrderly
<1>4. CASE DaemonStart
  BY <1>4, DaemonOrderly
<1>5. CASE Shutdown
  BY <1>5 DEF Shutdown, Sequential
<1>6. CASE UNCHANGED vars
  BY <1>6 DEF vars, Orderly, BootsEmpty, LookUpsHold, GamesTracked, IDsTrue, IDsExist,
     StoppingOwned, HandlerOn, NoGame, Srv, At, Game, Exists
<1>7. QED
  BY <1>1, <1>2, <1>3, <1>4, <1>5, <1>6 DEF Next

LEMMA OrderlyCorrect ==
  ASSUME Sequential
  PROVE  Spec => [](TypeInv /\ PassingStatesOwned /\ Orderly)
<1>1. Init => TypeInv /\ Alive /\ PassingStatesOwned /\ Orderly
  <2>1. Init => PassingStatesOwned
    BY DEF Init, RegistryInit, NoServer, New, PassingStatesOwned
  <2>2. QED
    BY <2>1, TypeInit, AliveInit, OrderlyInit
<1>2. TypeInv /\ Alive /\ PassingStatesOwned /\ Orderly /\ [Next]_vars =>
        (TypeInv /\ Alive /\ PassingStatesOwned /\ Orderly)'
  BY TypeNext, AliveNext, PassingNext, OrderlyNext
<1>3. QED
  BY <1>1, <1>2, PTL DEF Spec

\* With requests served one at a time, no call failing and the daemon up, no
\* game container is ever out of reach: between requests each one is the
\* container of the server registered under its UUID, while watchers and
\* install goroutines run beside the requests.
THEOREM OrphansCorrect ==
  ASSUME Sequential
  PROVE  Spec => []NoOrphans
<1>1. Orderly => NoOrphans
  BY DEF Orderly, GamesTracked, NoOrphans, Quiet, At
<1>2. QED
  BY <1>1, OrderlyCorrect, PTL

\* And no server rests in "stopping" or "starting": what stop, restart and
\* start set is undone by the same request, whatever watchers report.
THEOREM RestsCorrect ==
  ASSUME Sequential
  PROVE  Spec => []RestsSettled
<1>1. TypeInv /\ PassingStatesOwned /\ Orderly => RestsSettled
  <2> SUFFICES ASSUME TypeInv, PassingStatesOwned, Orderly, Quiet,
                      NEW u \in UUIDs, registry[u] # Null
               PROVE  servers[registry[u]].state \notin {"starting", "stopping"}
    BY DEF RestsSettled
  <2>1. servers[registry[u]].state # "stopping"
    BY DEF Orderly, StoppingOwned, HandlerOn, StoppingPcs, Quiet
  <2>2. servers[registry[u]].state # "starting"
    BY RegistryIsType DEF PassingStatesOwned, HandlerOn, Quiet
  <2>3. QED
    BY <2>1, <2>2
<1>2. QED
  BY <1>1, OrderlyCorrect, PTL

-----------------------------------------------------------------------------
(* DeleteLeavesNothing: without install scripts                            *)

\* Who makes a data directory, and who removes it.
DirsOwned ==
  /\ \A s \in Srvs : inst[s].pc = "none"
  /\ \A r \in Reqs : req[r].pc # "installing"
  /\ \A u \in dirs :
       registry[u] # Null \/ \E r \in Reqs : req[r].pc = "add" /\ req[r].uuid = u
  /\ \A r \in Reqs : req[r].pc = "del_entry" => req[r].uuid \notin dirs

LEMMA HandlerDirs ==
  ASSUME TypeInv, Orderly, Sequential, "install" \notin Ops, DirsOwned,
         NEW r \in Reqs, NewRequest(r) \/ Handler(r)
  PROVE  DirsOwned'
<1>0. /\ \A q \in Reqs : q = r
      /\ req \in [Reqs -> Request] /\ dirs \subseteq UUIDs
  BY DEF Sequential, TypeInv, TypeOK
<1>1. CASE NewRequest(r)
  <2>1. /\ req[r].pc = "idle" /\ UNCHANGED <<registry, inst, dirs>>
        /\ req'[r].pc \notin {"installing", "del_entry"}
    <3>1. ASSUME NEW u \in UUIDs, CreateRequest(r, u)
          PROVE  /\ req[r].pc = "idle" /\ UNCHANGED <<registry, inst, dirs>>
                 /\ req'[r].pc \notin {"installing", "del_entry"}
      BY <1>0, <3>1 DEF CreateRequest, At, Idle, registryVars
    <3>2. ASSUME NEW u \in UUIDs,
                 NEW op \in {"delete", "start", "stop", "restart", "kill"},
                 ServerRequest(r, u, op)
          PROVE  /\ req[r].pc = "idle" /\ UNCHANGED <<registry, inst, dirs>>
                 /\ req'[r].pc \notin {"installing", "del_entry"}
      BY <1>0, <3>2 DEF ServerRequest, At, FirstPc, registryVars
    <3>3. QED
      BY <1>1, <3>1, <3>2 DEF NewRequest
  <2>2. QED
    BY <1>0, <2>1 DEF DirsOwned
<1>2. CASE CreateDir(r)
  <2>1. /\ req'[r].pc = "add" /\ req'[r].uuid = req[r].uuid
        /\ dirs' = dirs \cup {req[r].uuid}
        /\ req[r].pc = "mkdir" /\ UNCHANGED <<registry, inst>>
    BY <1>0, <1>2, GotoType
       DEF CreateDir, At, ReqPcs, Sequential, registryVars
  <2>2. QED
    BY <1>0, <2>1 DEF DirsOwned
<1>3. CASE AddServer(r)
  <2>1. /\ registry[req[r].uuid] = Null /\ req[r].uuid \in UUIDs
        /\ req[r].pc = "add"
    BY <1>3 DEF AddServer, At, Orderly, LookUpsHold, TypeInv, Holds
  <2>2. PICK s \in Srvs : Add(s, New(req[r].uuid, TRUE)) /\ Reply(r)
    BY <1>3, <2>1 DEF AddServer
  <2>3. registry' = [registry EXCEPT ![req[r].uuid] = s] /\ s # Null
    BY <2>2, NodeAssumption DEF Add, New
  <2>4. UNCHANGED <<inst, dirs>> /\ req'[r].pc = "idle"
    BY <1>0, <1>3, <2>2, ReplyType DEF AddServer
  <2>5. QED
    BY <1>0, <2>1, <2>3, <2>4 DEF DirsOwned, TypeInv, TypeOK, RegistryTypeOK
<1>4. CASE DeleteDir(r)
  <2>1. /\ req'[r].pc = "del_entry" /\ req'[r].uuid = req[r].uuid
        /\ dirs' = dirs \ {req[r].uuid}
        /\ req[r].pc = "del_dir" /\ UNCHANGED <<registry, inst>>
    BY <1>0, <1>4, GotoType
       DEF DeleteDir, At, ReqPcs, Sequential, registryVars
  <2>2. QED
    BY <1>0, <2>1 DEF DirsOwned
<1>5. CASE DeleteEntry(r)
  <2>1. /\ req[r].pc = "del_entry" /\ req[r].uuid \in UUIDs
        /\ req'[r].pc = "idle" /\ UNCHANGED <<inst, dirs>>
    BY <1>0, <1>5, ReplyType DEF DeleteEntry, At, TypeInv, Holds
  <2>2. \A v \in UUIDs \ {req[r].uuid} : registry'[v] = registry[v]
    BY <1>5, <2>1, RemoveType DEF DeleteEntry, TypeInv, TypeOK
  <2>3. QED
    BY <1>0, <2>1, <2>2 DEF DirsOwned
<1>6. CASE StartContainer(r)
  <2>1. /\ req[r].pc = "run" /\ req'[r].pc \in {"running", "crashed"}
        /\ UNCHANGED <<registry, inst>>
        /\ dirs' = dirs \/ dirs' = dirs \cup {Srv(r).uuid}
    BY <1>0, <1>6, GotoType DEF StartContainer, At, ReqPcs, StartPcs, registryVars
  <2>2. /\ req[r].srv = registry[req[r].uuid] /\ req[r].srv \in Srvs
        /\ Srv(r).uuid = req[r].uuid
    BY <2>1 DEF Orderly, LookUpsHold, TypeInv, Holds, NoSrvPcs, Srv
  <2>3. registry[Srv(r).uuid] # Null
    BY <2>2, NodeAssumption
  <2>4. QED
    BY <1>0, <2>1, <2>3 DEF DirsOwned
<1>7. ASSUME UNCHANGED <<registry, inst, dirs>>, req[r].pc # "add",
             req'[r].pc \notin {"installing", "del_entry"}
      PROVE  DirsOwned'
  BY <1>0, <1>7 DEF DirsOwned
<1>8. CASE SpawnInstaller(r)
  BY <1>8 DEF SpawnInstaller, At, DirsOwned
<1>9. CASE \/ DeleteReadID(r) \/ StartReadID(r) \/ StopReadID(r) \/ RestartReadID(r)
           \/ KillReadID(r)
  <2>1. UNCHANGED <<registry, inst, dirs>> /\ req[r].pc # "add"
    BY <1>9 DEF DeleteReadID, StartReadID, StopReadID, RestartReadID, KillReadID,
       ReadID, At, registryVars
  <2>2. req'[r].pc \notin {"installing", "del_entry"}
    BY <1>0, <1>9
       DEF DeleteReadID, StartReadID, StopReadID, RestartReadID, KillReadID,
           ReadID, Goto, GotoWith, Reply, Idle, Request
  <2>3. QED
    BY <1>7, <2>1, <2>2
<1>10. CASE \/ SetStarting(r) \/ SetRunning(r) \/ StartFailed(r) \/ StopStopping(r)
            \/ StopOffline(r) \/ RestartStopping(r) \/ KillCrashed(r)
            \/ StartClear(r) \/ RestartClear(r)
  <2>1. UNCHANGED <<registry, inst, dirs>> /\ req[r].pc # "add"
    BY <1>10 DEF SetStarting, SetRunning, StartFailed, StopStopping, StopOffline,
       RestartStopping, KillCrashed, StartClear, RestartClear, Mark, ClearID, At
  <2>2. req'[r].pc \notin {"installing", "del_entry"}
    BY <1>0, <1>10
       DEF SetStarting, SetRunning, StartFailed, StopStopping, StopOffline,
           RestartStopping, KillCrashed, StartClear, RestartClear, Mark, ClearID,
           Goto, GotoWith, Reply, Idle, Request
  <2>3. QED
    BY <1>7, <2>1, <2>2
<1>11. CASE \/ DeleteStop(r) \/ DeleteRemove(r) \/ RemoveStale(r) \/ StopContainer(r)
            \/ RestartStop(r) \/ RestartRemove(r) \/ KillContainer(r)
            \/ CheckInstalling(r) \/ PullImage(r) \/ CreateContainer(r)
            \/ StoreID(r) \/ SpawnWatch(r)
  <2>1. UNCHANGED <<registry, inst, dirs>> /\ req[r].pc # "add"
    BY <1>11 DEF DeleteStop, DeleteRemove, RemoveStale, StopContainer, RestartStop,
       RestartRemove, KillContainer, CheckInstalling, PullImage, CreateContainer,
       StoreID, SpawnWatch, At, registryVars
  <2>2. req'[r].pc \notin {"installing", "del_entry"}
    BY <1>0, <1>11
       DEF DeleteStop, DeleteRemove, RemoveStale, StopContainer, RestartStop,
           RestartRemove, KillContainer, CheckInstalling, PullImage, CreateContainer,
           StoreID, SpawnWatch, Goto, GotoWith, Reply, Idle, Request
  <2>3. QED
    BY <1>7, <2>1, <2>2
<1>12. QED
  BY <1>1, <1>2, <1>3, <1>4, <1>5, <1>6, <1>8, <1>9, <1>10, <1>11
     DEF Handler, CreateSteps, DeleteSteps, StartSteps, PowerSteps

LEMMA DirsNext ==
  ASSUME Sequential, "install" \notin Ops, TypeInv, Orderly, DirsOwned, [Next]_vars
  PROVE  DirsOwned'
<1>1. CASE \E r \in Reqs : NewRequest(r) \/ Handler(r)
  BY <1>1, HandlerDirs
<1>2. CASE \E s \in Srvs : Installer(s) \/ StreamBreaks(s)
  BY <1>2 DEF DirsOwned, Installer, StreamBreaks, InstallPull, InstallCreate,
     InstallStart, InstallLogs, InstallWait, InstallKill, InstallRemove,
     InstallFinish
<1>3. CASE UNCHANGED <<req, registry, inst, dirs>>
  BY <1>3 DEF DirsOwned
<1>4. CASE DaemonStart
  <2>1. ~\E u \in UUIDs : Restore(u)
    BY DEF Restore, Orderly, BootsEmpty
  <2>2. QED
    BY <1>3, <1>4, <2>1 DEF DaemonStart, Boot, Serve, registryVars
<1>5. CASE \/ \E c \in Cids : Watcher(c) \/ WaitBreaks(c)
           \/ \E c \in Cids, code \in Codes : ContainerExit(c, code)
  BY <1>3, <1>5 DEF Watcher, WaitBreaks, WatchExit, WatchError, WatchCancelled,
     WatchFailed, ContainerExit, registryVars
<1>6. CASE Shutdown
  BY <1>6 DEF Shutdown, Sequential
<1>7. CASE UNCHANGED vars
  BY <1>3, <1>7 DEF vars
<1>8. QED
  BY <1>1, <1>2, <1>4, <1>5, <1>6, <1>7 DEF Next

\* servers.go:102-103: after DELETE the server's container, its data directory
\* and its registration are gone, when requests come one at a time, nothing
\* fails and no install script is left to run.
THEOREM LeavesNothingCorrect ==
  ASSUME Sequential, "install" \notin Ops
  PROVE  Spec => []DeleteLeavesNothing
<1>1. Init => DirsOwned
  BY DEF Init, DirsOwned, NoInstaller, Idle
<1>2. TypeInv /\ Orderly /\ DirsOwned /\ [Next]_vars => DirsOwned'
  BY DirsNext
<1>3. TypeInv /\ Orderly /\ DirsOwned => DeleteLeavesNothing
  <2> SUFFICES ASSUME TypeInv, Orderly, DirsOwned, Quiet, NEW u \in UUIDs,
                      registry[u] = Null
               PROVE  u \notin dirs /\ ~\E c \in Managed(u) : Game(c)
    BY DEF DeleteLeavesNothing
  <2>1. u \notin dirs
    BY DEF DirsOwned, Quiet
  <2>2. ~\E c \in Managed(u) : Game(c)
    BY DEF Orderly, GamesTracked, Managed
  <2>3. QED
    BY <2>1, <2>2
<1>4. QED
  BY <1>1, <1>2, <1>3, OrderlyCorrect, PTL DEF Spec

=============================================================================
