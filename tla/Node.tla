-------------------------------- MODULE Node --------------------------------
(***************************************************************************)
(* The constants the modules of the node daemon share.                     *)
(***************************************************************************)
CONSTANTS
  UUIDs,   \* server UUIDs the panel uses
  Cids,    \* container identifiers Docker hands out
  Srvs,    \* addresses of server.Server objects
  Null,    \* Go's nil pointer and the empty string
  Faults   \* TRUE when calls to Docker and to the OS may fail for no
           \* reason of the daemon's own (registry down, disk full, EOF)

ASSUME NodeAssumption ==
  /\ Null \notin UUIDs
  /\ Null \notin Cids
  /\ Null \notin Srvs
  /\ Faults \in BOOLEAN

=============================================================================
