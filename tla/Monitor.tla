------------------------------ MODULE Monitor ------------------------------
(***************************************************************************)
(* GetResources of handlers/servers.go beside the life of the servers: a   *)
(* "probe" measures a container and stores the sample in the Server object *)
(* it looked up, whatever becomes of the registry, the container or the    *)
(* object meanwhile.  This module composes the probes with Lifecycle.  The *)
(* console sends its clients the sample stored last (console.go:84).       *)
(*                                                                         *)
(* A sample is known by the Server object whose start (or restore) brought *)
(* forth the container it was measured on; its figures are left out.       *)
(***************************************************************************)
EXTENDS LifecycleProps

CONSTANT Probes  \* requests for resources in flight at once

VARIABLES
  probe,   \* probe -> its pc and local variables
  sample,  \* address -> Server.resources, Null while they are zero
  owner    \* container -> the object it is a container of, Null if unknown

monitorVars == <<vars, probe, sample, owner>>

IdleProbe == [pc |-> "idle", uuid |-> Null, srv |-> Null, cid |-> Null,
              got |-> Null]

MonitorInit ==
  /\ Init
  /\ probe = [p \in Probes |-> IdleProbe]
  /\ sample = [s \in Srvs |-> Null]
  /\ owner = [c \in Cids |-> Null]

-----------------------------------------------------------------------------
(* The steps of Lifecycle, and what they do to the state of this module.   *)

\* Addresses that get a new object, containers that get a new process.
Placed == {s \in Srvs : \E u \in UUIDs : registry'[u] = s /\ registry[u] # s}

NewCids == {c \in Cids : ~Exists(c) /\ Exists(c)'}

\* The object a new container is made for.
Maker(c) ==
  CHOOSE s \in Srvs : \/ \E r \in Reqs : req'[r].srv = s /\ req'[r].cid = c
                      \/ inst'[s].cid = c

NewOwner(c) ==
  IF daemon' = "down" \/ ~Exists(c)' THEN Null
  ELSE IF c \in NewCids THEN Maker(c)
  ELSE IF \E s \in Placed : servers'[s].cid = c
         THEN CHOOSE s \in Placed : servers'[s].cid = c
  ELSE IF owner[c] \in Placed THEN Null ELSE owner[c]

\* What probes hold is not handed out anew.
HoldersKept ==
  /\ \A p \in Probes :
       /\ probe[p].srv \notin Placed /\ probe[p].cid \notin NewCids
       /\ probe[p].srv # Null => servers[probe[p].srv].cid \notin NewCids

LifecycleStep ==
  /\ Next
  /\ HoldersKept
  /\ owner' = [c \in Cids |-> NewOwner(c)]
  /\ sample' = [s \in Srvs |-> IF s \in Placed \/ daemon' = "down"
                                 THEN Null ELSE sample[s]]
  /\ probe' = IF daemon' = "down" THEN [p \in Probes |-> IdleProbe] ELSE probe

-----------------------------------------------------------------------------
(* GetResources                                                            *)

Answer(p) == probe' = [probe EXCEPT ![p] = IdleProbe]

ProbeRequest(p, u) ==
  /\ probe[p].pc = "idle" /\ daemon = "up" /\ registry[u] # Null
  /\ probe' = [probe EXCEPT ![p] = [IdleProbe EXCEPT
                 !.pc = "read_id", !.uuid = u, !.srv = registry[u]]]
  /\ UNCHANGED <<vars, sample, owner>>

ProbeReadID(p) ==
  /\ probe[p].pc = "read_id"
  /\ LET c == servers[probe[p].srv].cid IN
     IF c = Null
       THEN Answer(p)
       ELSE probe' = [probe EXCEPT ![p].pc = "read_state", ![p].cid = c]
  /\ UNCHANGED <<vars, sample, owner>>

ProbeReadState(p) ==
  /\ probe[p].pc = "read_state"
  /\ IF servers[probe[p].srv].state # "running"
       THEN Answer(p)
       ELSE probe' = [probe EXCEPT ![p].pc = "stats"]
  /\ UNCHANGED <<vars, sample, owner>>

\* Docker answers for a container that is not running as well.
GetStats(p) ==
  /\ probe[p].pc = "stats"
  /\ \/ /\ Exists(probe[p].cid)
        /\ probe' = [probe EXCEPT ![p].pc = "store",
                                  ![p].got = owner[probe[p].cid]]
     \/ /\ Faults \/ ~Exists(probe[p].cid)
        /\ Answer(p)
  /\ UNCHANGED <<vars, sample, owner>>

\* Mutant: the server is looked up again.
SetResources_ByUUID(p) ==
  /\ probe[p].pc = "store"
  /\ sample' = [s \in Srvs |-> IF registry[probe[p].uuid] = s
                                 THEN probe[p].got ELSE sample[s]]
  /\ Answer(p)
  /\ UNCHANGED <<vars, owner>>

SetResources(p) ==
  /\ probe[p].pc = "store"
  /\ sample' = [sample EXCEPT ![probe[p].srv] = probe[p].got]
  /\ Answer(p)
  /\ UNCHANGED <<vars, owner>>

Probing(p) == ProbeReadID(p) \/ ProbeReadState(p) \/ GetStats(p) \/ SetResources(p)

MonitorNext ==
  \/ LifecycleStep
  \/ \E p \in Probes : Probing(p) \/ \E u \in UUIDs : ProbeRequest(p, u)

MonitorSpec == MonitorInit /\ [][MonitorNext]_monitorVars

-----------------------------------------------------------------------------

\* What is stored in a Server object was measured on a container of that
\* object, and never on one of an earlier server of the same UUID, however
\* long the call to Docker lasts and whatever is deleted and created again
\* meanwhile (servers.go:213-218).
SampleOwn == \A s \in Srvs : sample[s] \in {Null, s}

=============================================================================
