-------------------------- MODULE HeartbeatProofs --------------------------
(***************************************************************************)
(* What the log of the heartbeat tells, proved for logs of every length.   *)
(***************************************************************************)
EXTENDS Heartbeat, SequenceTheorems, TLAPS

\* The last message is the health that printHealth remembers, if there is any.
LogRemembers ==
  /\ initialized <=> log # <<>>
  /\ healthy => initialized
  /\ log # <<>> => (log[Len(log)] = "healthy" <=> healthy)

\* Between two beats the result of the last one is remembered.
BeatRemembered == pc = "wait" => initialized /\ (healthy <=> outcome)

LogInv == TypeOK /\ LogRemembers /\ BeatRemembered /\ LogAlternates

LEMMA LogInit ==
  Init => LogInv
<1> SUFFICES ASSUME Init PROVE LogInv
  OBVIOUS
<1>1. log = <<>> /\ Len(log) = 0 /\ pc = "gather" /\ ~initialized /\ ~healthy
  BY DEF Init
<1>2. TypeOK
  BY EmptySeq DEF Init, TypeOK
<1>3. LogRemembers /\ BeatRemembered /\ LogAlternates
  BY <1>1 DEF LogRemembers, BeatRemembered, LogAlternates
<1> QED BY <1>2, <1>3 DEF LogInv

\* What a message that is printed adds to the log.
LEMMA LogGrows ==
  ASSUME LogInv, LogMessage
  PROVE  /\ log' \in Seq(Messages)
         /\ Len(log') = Len(log) + 1
         /\ log'[Len(log')] = Message
         /\ \A i \in 1 .. Len(log) : log'[i] = log[i]
<1>1. log \in Seq(Messages) /\ Message \in Messages
  BY DEF LogInv, TypeOK, Message, Messages
<1>2. log' = Append(log, Message)
  BY DEF LogMessage
<1> QED BY <1>1, <1>2

LEMMA PrintKeeps ==
  ASSUME LogInv, PrintHealth
  PROVE  LogInv'
<1> USE DEF LogInv
<1>1. CASE initialized /\ healthy = outcome
  <2>1. /\ pc' = "wait"
        /\ UNCHANGED <<panel, stats, tick, outcome, initialized, healthy, log>>
    BY <1>1 DEF PrintHealth
  <2>2. TypeOK'
    BY <2>1 DEF TypeOK
  <2>3. LogRemembers' /\ LogAlternates'
    BY <2>1 DEF LogRemembers, LogAlternates
  <2>4. BeatRemembered'
    BY <2>1, <1>1 DEF BeatRemembered
  <2> QED BY <2>2, <2>3, <2>4
<1>2. CASE ~(initialized /\ healthy = outcome)
  <2>1. /\ pc' = "wait" /\ healthy' = outcome /\ initialized' = TRUE
        /\ LogMessage
        /\ UNCHANGED <<panel, stats, tick, outcome>>
    BY <1>2 DEF PrintHealth
  <2>2. /\ log' \in Seq(Messages)
        /\ Len(log') = Len(log) + 1
        /\ log'[Len(log')] = Message
        /\ \A i \in 1 .. Len(log) : log'[i] = log[i]
    BY <2>1, LogGrows
  <2>3. Len(log) \in Nat /\ (log = <<>> <=> Len(log) = 0)
    <3>1. log \in Seq(Messages)
      BY DEF TypeOK
    <3> QED BY <3>1, EmptySeq
  <2>4. TypeOK'
    BY <2>1, <2>2 DEF TypeOK
  <2>5. Message = "healthy" <=> outcome
    BY DEF Message, TypeOK
  <2>6. LogRemembers'
    <3>1. log' # <<>>
      BY <2>2, <2>3
    <3> QED BY <3>1, <2>1, <2>2, <2>5 DEF LogRemembers
  <2>7. BeatRemembered'
    BY <2>1 DEF BeatRemembered
  <2>8. LogAlternates'
    <3> SUFFICES ASSUME NEW i \in 1 .. Len(log')
                 PROVE  /\ log'[i] = "lost connection" =>
                             i > 1 /\ log'[i - 1] = "healthy"
                        /\ log'[i] = "cannot reach" => i = 1
                        /\ log'[i] = "healthy" /\ i > 1 => log'[i - 1] # "healthy"
      BY DEF LogAlternates
    <3>1. CASE i \in 1 .. Len(log)
      <4>1. log'[i] = log[i] /\ (i > 1 => log'[i - 1] = log[i - 1])
        BY <3>1, <2>2, <2>3
      <4> QED BY <4>1, <3>1 DEF LogAlternates
    <3>2. CASE i = Len(log) + 1
      <4>1. log'[i] = Message /\ (i > 1 => log'[i - 1] = log[Len(log)])
        BY <3>2, <2>2, <2>3
      <4>2. CASE log = <<>>
        <5>1. i = 1 /\ ~healthy
          BY <4>2, <3>2, <2>3 DEF LogRemembers
        <5>2. Message # "lost connection"
          BY <5>1 DEF Message
        <5>3. log'[i] # "lost connection"
          BY <5>2, <4>1
        <5>4. i = 1 /\ ~(i > 1)
          BY <5>1
        <5> QED BY <5>3, <5>4
      <4>3. CASE log # <<>>
        <5>1. i > 1 /\ (log[Len(log)] = "healthy" <=> healthy)
          BY <4>3, <3>2, <2>3 DEF LogRemembers
        <5>2. healthy \in BOOLEAN /\ outcome \in BOOLEAN /\ healthy # outcome
          BY <4>3, <1>2 DEF LogRemembers, TypeOK
        <5>3. CASE outcome
          BY <5>1, <5>2, <5>3, <4>1 DEF Message
        <5>4. CASE ~outcome
          BY <5>1, <5>2, <5>4, <4>1 DEF Message
        <5> QED BY <5>3, <5>4
      <4> QED BY <4>2, <4>3
    <3>3. i \in 1 .. Len(log) \/ i = Len(log) + 1
      BY <2>2, <2>3
    <3> QED BY <3>1, <3>2, <3>3, <2>3
  <2> QED BY <2>4, <2>6, <2>7, <2>8
<1> QED BY <1>1, <1>2

LEMMA LogStep ==
  ASSUME LogInv, [Next]_vars
  PROVE  LogInv'
<1> USE DEF LogInv
<1>1. CASE PrintHealth
  BY <1>1, PrintKeeps
<1>2. CASE Tick \/ NextBeat \/ Gather \/ Post \/ Environment \/ UNCHANGED vars
  <2>1. /\ UNCHANGED <<initialized, healthy, log>>
        /\ pc' = "wait" => pc = "wait" /\ UNCHANGED outcome
    BY <1>2 DEF Tick, NextBeat, Gather, Post, Environment, vars
  <2>2. TypeOK'
    BY <1>2 DEF TypeOK, Tick, NextBeat, Gather, Post, Environment, vars
  <2>3. LogRemembers' /\ LogAlternates'
    BY <2>1 DEF LogRemembers, LogAlternates
  <2>4. BeatRemembered'
    BY <2>1 DEF BeatRemembered
  <2> QED BY <2>2, <2>3, <2>4
<1> QED BY <1>1, <1>2 DEF Next, Beat

\* Types, and that printHealth remembers the last message (daemon.go:139-161):
\* the invariant the two theorems below follow from.
THEOREM LogInvariant == Spec => []LogInv
BY LogInit, LogStep, PTL DEF Spec

\* The state of heartbeat loop, connection and log is well typed: outcome and
\* healthy are known where they are read (daemon.go:121-161).
THEOREM TypeCorrect == Spec => []TypeOK
<1>1. LogInv => TypeOK
  BY DEF LogInv
<1> QED BY <1>1, LogInvariant, PTL

\* After the first beat the last message tells the result of the last beat
\* (daemon.go:139-161), however many beats printed nothing in between.
THEOREM LogTells == Spec => []LogTellsHealth
<1>1. LogInv => LogTellsHealth
  BY DEF LogInv, LogTellsHealth, BeatRemembered, LogRemembers
<1> QED BY <1>1, LogInvariant, PTL

\* The log holds changes of health and nothing else (daemon.go:142-146).
THEOREM LogOnlyChanges == Spec => []LogAlternates
<1>1. LogInv => LogAlternates
  BY DEF LogInv
<1> QED BY <1>1, LogInvariant, PTL

=============================================================================
