----------------------------- MODULE Heartbeat -----------------------------
(***************************************************************************)
(* The heartbeat goroutine of cmd/daemon.go: a beat at once and then one   *)
(* per tick, the request to the panel (internal/client/panel.go) under a   *)
(* timeout, and printHealth, which writes to the log only when the health  *)
(* of the panel connection changed.                                        *)
(***************************************************************************)
EXTENDS Naturals, Sequences

CONSTANT MaxLog  \* bound on the messages printed

ASSUME HeartbeatAssumption == MaxLog \in Nat \ {0}

VARIABLES
  panel,        \* what a request to the panel meets
  stats,        \* whether system.Gather works
  pc,           \* the goroutine: what it does next
  tick,         \* a tick waits in the ticker's channel, which holds one
  outcome,      \* the result of the beat that is about to be printed
  initialized,  \* heartbeatInitialized
  healthy,      \* heartbeatHealthy
  log           \* messages printed since the daemon started

vars == <<panel, stats, pc, tick, outcome, initialized, healthy, log>>

Messages == {"healthy", "lost connection", "cannot reach"}

TypeOK ==
  /\ panel \in {"ok", "error status", "refused", "hangs"}
  /\ stats \in BOOLEAN
  /\ pc \in {"gather", "post", "print", "wait"}
  /\ tick \in BOOLEAN
  /\ outcome \in BOOLEAN
  /\ initialized \in BOOLEAN
  /\ healthy \in BOOLEAN
  /\ log \in Seq(Messages)

Init ==
  /\ panel \in {"ok", "error status", "refused", "hangs"}
  /\ stats \in BOOLEAN
  /\ pc = "gather"
  /\ tick = FALSE
  /\ outcome = FALSE
  /\ initialized = FALSE
  /\ healthy = FALSE
  /\ log = <<>>

\* time.Ticker drops a tick when the one before was not taken yet.
Tick ==
  /\ tick' = TRUE
  /\ UNCHANGED <<panel, stats, pc, outcome, initialized, healthy, log>>

NextBeat ==
  /\ pc = "wait" /\ tick
  /\ pc' = "gather"
  /\ tick' = FALSE
  /\ UNCHANGED <<panel, stats, outcome, initialized, healthy, log>>

Gather ==
  /\ pc = "gather"
  /\ IF stats THEN pc' = "post" /\ UNCHANGED outcome
              ELSE pc' = "print" /\ outcome' = FALSE
  /\ UNCHANGED <<panel, stats, tick, initialized, healthy, log>>

\* Mutant: the answer's status code is not looked at.
Post_AnyStatus ==
  /\ pc = "post"
  /\ pc' = "print"
  /\ outcome' = (panel \in {"ok", "error status"})
  /\ UNCHANGED <<panel, stats, tick, initialized, healthy, log>>

\* Mutant: no timeout on the request.
Post_NoTimeout ==
  /\ pc = "post" /\ panel # "hangs"
  /\ pc' = "print"
  /\ outcome' = (panel = "ok")
  /\ UNCHANGED <<panel, stats, tick, initialized, healthy, log>>

\* A panel that does not answer is given 10 s.
Post ==
  /\ pc = "post"
  /\ pc' = "print"
  /\ outcome' = (panel = "ok")
  /\ UNCHANGED <<panel, stats, tick, initialized, healthy, log>>

\* Mutant: no text for a panel that was never reached.
Message_Lost == IF outcome THEN "healthy" ELSE IF healthy THEN "lost connection" ELSE ""

Message == IF outcome THEN "healthy"
           ELSE IF healthy THEN "lost connection" ELSE "cannot reach"

LogMessage == Len(log) < MaxLog /\ log' = Append(log, Message)

\* Mutant: the first beat is treated as any other.
PrintHealth_NoFirst ==
  /\ pc = "print"
  /\ pc' = "wait"
  /\ IF healthy = outcome
       THEN UNCHANGED <<initialized, healthy, log>>
       ELSE /\ healthy' = outcome
            /\ initialized' = TRUE
            /\ LogMessage
  /\ UNCHANGED <<panel, stats, tick, outcome>>

\* Mutant: the health is remembered only when it is good.
PrintHealth_ForgetBad ==
  /\ pc = "print"
  /\ pc' = "wait"
  /\ IF initialized /\ healthy = outcome
       THEN UNCHANGED <<initialized, healthy, log>>
       ELSE /\ healthy' = (healthy \/ outcome)
            /\ initialized' = TRUE
            /\ LogMessage
  /\ UNCHANGED <<panel, stats, tick, outcome>>

PrintHealth ==
  /\ pc = "print"
  /\ pc' = "wait"
  /\ IF initialized /\ healthy = outcome
       THEN UNCHANGED <<initialized, healthy, log>>
       ELSE /\ healthy' = outcome
            /\ initialized' = TRUE
            /\ LogMessage
  /\ UNCHANGED <<panel, stats, tick, outcome>>

\* The panel and the machine change as they like.
Environment ==
  /\ panel' \in {"ok", "error status", "refused", "hangs"}
  /\ stats' \in BOOLEAN
  /\ UNCHANGED <<pc, tick, outcome, initialized, healthy, log>>

Beat == NextBeat \/ Gather \/ Post \/ PrintHealth

Next == Tick \/ Beat \/ Environment

Spec == Init /\ [][Next]_vars

\* The ticker ticks and the goroutine runs; the panel owes nothing.
FairSpec == Spec /\ WF_vars(Tick) /\ WF_vars(Beat)

-----------------------------------------------------------------------------
(* Properties                                                              *)

\* After the first beat the last message in the log tells the result of the
\* last beat, though most beats print nothing.
LogTellsHealth ==
  pc = "wait" => log # <<>> /\ (log[Len(log)] = "healthy" <=> outcome)

\* Only changes are logged: good news and bad alternate, "lost connection"
\* follows good news and "cannot reach" comes first or never.
LogAlternates ==
  \A i \in 1..Len(log) :
    /\ log[i] = "lost connection" => i > 1 /\ log[i - 1] = "healthy"
    /\ log[i] = "cannot reach" => i = 1
    /\ log[i] = "healthy" /\ i > 1 => log[i - 1] # "healthy"

\* The log does not call a panel healthy that answers with an error or not at
\* all: once it behaves so for good, bad news is the last message (as long as
\* the log has room, here its bound).
OutageLogged ==
  []<>(Len(log) = MaxLog) \/
  (<>[](panel # "ok") => <>[](log # <<>> /\ log[Len(log)] # "healthy"))

\* A panel that hangs never stops the beats: the goroutine is back at its
\* ticker again and again.
BeatsGoOn == []<>(pc = "wait" \/ Len(log) = MaxLog)

=============================================================================
