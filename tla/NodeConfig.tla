----------------------------- MODULE NodeConfig -----------------------------
(***************************************************************************)
(* The configuration file: `hostoria-node configure' (cmd/configure.go)    *)
(* fetches the node's configuration from the panel and writes the file in  *)
(* place; the daemon (cmd/daemon.go, internal/config/config.go) reads it   *)
(* once, when it starts.  Nothing keeps the two, or two runs of configure, *)
(* apart, and each may end at any moment.                                  *)
(*                                                                         *)
(* The file is a sequence of cells, the k-th cell of the response v being  *)
(* <<v, k>>: first the node's UUID, then its data directory, then the      *)
(* rest.  A response or a file without a value has Blank there.            *)
(***************************************************************************)
EXTENDS Naturals, SequencesExt

CONSTANTS
  Responses,  \* what the panel may send: [uuid, data, cells]
  Procs,      \* runs of configure
  Blank, Default, Missing, Null,
  Crashes     \* TRUE when a run of configure may be killed or fail half-way

ASSUME NodeConfigAssumption ==
  /\ Blank # Default /\ Null \notin Responses
  /\ \A v \in Responses : v.cells \in Nat /\ v.cells >= 2 /\ v.data # Default

VARIABLES
  file,    \* the cells of config.yml, or Missing
  run,     \* run of configure -> its pc and the response it holds
  daemon,  \* "down" or "up"
  config,  \* config.instance
  saved    \* history: the response said to be saved, until the file is opened

vars == <<file, run, daemon, config, saved>>

NoRun == [pc |-> "idle", got |-> Null]

Init ==
  /\ file = Missing
  /\ run = [p \in Procs |-> NoRun]
  /\ daemon = "down" /\ config = Null
  /\ saved = Null

Text(v) == [k \in 1 .. v.cells |-> <<v, k>>]

-----------------------------------------------------------------------------
(* runConfigure                                                            *)

At(p, pc) == run[p].pc = pc

Goto(p, pc) == run' = [run EXCEPT ![p].pc = pc]

Return(p) == run' = [run EXCEPT ![p] = NoRun]

\* The panel answers 200 with a configuration, or the run ends with an error.
Fetch(p) ==
  /\ At(p, "idle")
  /\ \E v \in Responses : run' = [run EXCEPT ![p] = [pc |-> "check", got |-> v]]
  /\ UNCHANGED <<file, daemon, config, saved>>

\* Mutant: what the panel sends is taken as it is.
CheckUUID_Skipped(p) ==
  /\ At(p, "check")
  /\ Goto(p, "open")
  /\ UNCHANGED <<file, daemon, config, saved>>

CheckUUID(p) ==
  /\ At(p, "check")
  /\ IF run[p].got.uuid = Blank THEN Return(p) ELSE Goto(p, "open")
  /\ UNCHANGED <<file, daemon, config, saved>>

\* Mutant: the file is opened without being truncated.
OpenFile_NoTrunc(p) ==
  /\ At(p, "open")
  /\ file' = IF file = Missing THEN <<>> ELSE file
  /\ Goto(p, "write")
  /\ saved' = Null
  /\ UNCHANGED <<daemon, config>>

\* os.WriteFile opens with O_CREATE and O_TRUNC ...
OpenFile(p) ==
  /\ At(p, "open")
  /\ file' = <<>>
  /\ Goto(p, "write")
  /\ saved' = Null
  /\ UNCHANGED <<daemon, config>>

\* ... and writes from offset 0, whatever the file holds by then.
Overlay(old, new) ==
  new \o (IF Len(old) > Len(new) THEN SubSeq(old, Len(new) + 1, Len(old)) ELSE <<>>)

WriteFile(p) ==
  /\ At(p, "write")
  /\ file' = Overlay(file, Text(run[p].got))
  /\ saved' = run[p].got
  /\ Return(p)
  /\ UNCHANGED <<daemon, config>>

\* The disk is full after some cells.
WriteFails(p) ==
  /\ Crashes /\ At(p, "write")
  /\ \E n \in 0 .. run[p].got.cells - 1 :
       file' = Overlay(file, SubSeq(Text(run[p].got), 1, n))
  /\ Return(p)
  /\ UNCHANGED <<daemon, config, saved>>

\* The run is killed, or fails before it comes to the file.
Ends(p) ==
  /\ ~At(p, "idle") /\ Crashes
  /\ Return(p)
  /\ UNCHANGED <<file, daemon, config, saved>>

-----------------------------------------------------------------------------
(* config.Load and runDaemon                                               *)

\* yaml.Unmarshal into a zero Config.  An empty file is a configuration.
Parsed(text) ==
  [uuid |-> IF Len(text) >= 1 THEN text[1][1].uuid ELSE Blank,
   data |-> IF Len(text) >= 2 THEN text[2][1].data ELSE Blank]

ApplyDefaults(c) == [c EXCEPT !.data = IF @ = Blank THEN Default ELSE @]

\* A file that is no configuration as a whole may parse or not; an error ends
\* the daemon at once.
Load ==
  /\ daemon = "down" /\ file # Missing
  /\ daemon' = "up"
  /\ config' = ApplyDefaults(Parsed(file))
  /\ UNCHANGED <<file, run, saved>>

Stop ==
  /\ daemon = "up"
  /\ daemon' = "down" /\ config' = Null
  /\ UNCHANGED <<file, run, saved>>

Next ==
  \/ \E p \in Procs : Fetch(p) \/ CheckUUID(p) \/ OpenFile(p) \/ WriteFile(p)
                      \/ WriteFails(p) \/ Ends(p)
  \/ Load \/ Stop

Spec == Init /\ [][Next]_vars

-----------------------------------------------------------------------------

\* configure.go:97 "Configuration saved": from then on, until another run
\* opens the file, it holds just the response of that run, however runs that
\* failed or were killed left it before.  Holds of one run at a time.
SavedIsThere == saved # Null => file = Text(saved)

WithDefault(data) == IF data = Blank THEN Default ELSE data

\* A daemon starts with the configuration of one response, which names the
\* node, or with what a run that ended half-way left of one: a beginning, with
\* the default for what is missing.  It never starts with the node of one
\* response and the directory of another, and a response said to be saved
\* (configure.go:97) is the one it starts with, whatever runs came before and
\* however they ended.  Holds of one run at a time.
StartsFromOneResponse ==
  [][daemon = "down" /\ daemon' = "up" =>
       /\ \E v \in Responses :
            /\ v.uuid # Blank
            /\ \/ config' = [uuid |-> v.uuid, data |-> WithDefault(v.data)]
               \/ config' \in [uuid: {v.uuid, Blank}, data: {Default}]
       /\ saved # Null =>
            config' = [uuid |-> saved.uuid, data |-> WithDefault(saved.data)]]_vars

=============================================================================
