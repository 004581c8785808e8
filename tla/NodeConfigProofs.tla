-------------------------- MODULE NodeConfigProofs --------------------------
(***************************************************************************)
(* What configure and the daemon may rely on in the configuration file,    *)
(* proved for any responses of the panel and of one run of configure at a   *)
(* time.  It is not true of two: the second run writes over the first from *)
(* offset 0.                                                               *)
(***************************************************************************)
EXTENDS NodeConfig, SequenceTheorems, TLAPS

-----------------------------------------------------------------------------
(* One run at a time                                                       *)

OneRun == \A p, q \in Procs : p = q

RunPcs == {"idle", "check", "open", "write"}

\* The file is a beginning of the text of a response that names its node.
BeginningOf(v, text) == \E n \in 0..v.cells : text = [k \in 1..n |-> <<v, k>>]

Named == {v \in Responses : v.uuid # Blank}

\* Between opening and writing the file is empty, as nobody else writes to it,
\* and nothing is said to be saved: SavedIsThere is not inductive without.  A
\* run that has come to the file holds a response that names its node.
SavedInv ==
  /\ run \in [Procs -> [pc: RunPcs, got: Responses \cup {Null}]]
  /\ \A p \in Procs : run[p].pc # "idle" => run[p].got \in Responses
  /\ \A p \in Procs : run[p].pc = "write" => file = <<>> /\ saved = Null
  /\ saved # Null => saved \in Responses /\ file = Text(saved)
  /\ \A p \in Procs : run[p].pc \in {"open", "write"} => run[p].got \in Named
  /\ file # Missing => \E v \in Named : BeginningOf(v, file)

\* A beginning of a text, written over an empty file, is all of it.
LEMMA OverlayEmpty ==
  ASSUME NEW v \in Responses, NEW n \in 0..v.cells
  PROVE  /\ SubSeq(Text(v), 1, n) = [k \in 1..n |-> <<v, k>>]
         /\ Overlay(<<>>, [k \in 1..n |-> <<v, k>>]) = [k \in 1..n |-> <<v, k>>]
<1>1. v.cells \in Nat /\ n \in Nat /\ n <= v.cells
  BY NodeConfigAssumption
<1> DEFINE S == {<<v, k>> : k \in 1..v.cells}
           t == [k \in 1..n |-> <<v, k>>]
<1>2. t \in Seq(S) /\ Len(t) = n
  BY <1>1
<1>3. Text(v) \in Seq(S) /\ Len(Text(v)) = v.cells /\ \A k \in 1..v.cells : Text(v)[k] = <<v, k>>
  BY <1>1 DEF Text
<1>4. SubSeq(Text(v), 1, n) = t
  <2>1. \A k \in 1..n : Text(v)[k] \in S /\ Text(v)[k] = <<v, k>>
    BY <1>1, <1>3
  <2>2. /\ SubSeq(Text(v), 1, n) \in Seq(S)
        /\ Len(SubSeq(Text(v), 1, n)) = IF 1 <= n THEN n - 1 + 1 ELSE 0
        /\ \A i \in 1..(n - 1 + 1) : SubSeq(Text(v), 1, n)[i] = Text(v)[1 + i - 1]
    BY <1>1, <1>3, <2>1, SubSeqProperties
  <2>3. /\ Len(SubSeq(Text(v), 1, n)) = n
        /\ \A i \in 1..n : SubSeq(Text(v), 1, n)[i] = t[i]
    BY <1>1, <2>1, <2>2
  <2>4. QED
    BY <1>2, <2>2, <2>3, SeqEqual
<1>5. Overlay(<<>>, t) = t
  <2>1. ~(Len(<<>>) > Len(t))
    BY <1>1, <1>2
  <2>2. t \o <<>> = t
    BY <1>2, ConcatEmptySeq
  <2>3. QED
    BY <2>1, <2>2 DEF Overlay
<1>6. QED
  BY <1>4, <1>5

LEMMA SavedInit == Init => SavedInv
  BY NodeConfigAssumption DEF Init, SavedInv, NoRun, RunPcs

LEMMA SavedNext ==
  ASSUME OneRun, SavedInv, [Next]_vars
  PROVE  SavedInv'
<1>0. /\ run \in [Procs -> [pc: RunPcs, got: Responses \cup {Null}]]
      /\ Null \notin Responses
  BY NodeConfigAssumption DEF SavedInv
<1>1. CASE UNCHANGED vars
  BY <1>1 DEF vars, SavedInv
<1>2. CASE Load \/ Stop
  BY <1>2 DEF Load, Stop, SavedInv
<1>3. ASSUME NEW p \in Procs,
             Fetch(p) \/ CheckUUID(p) \/ OpenFile(p) \/ WriteFile(p)
               \/ WriteFails(p) \/ Ends(p)
      PROVE  SavedInv'
  <2>0. \A q \in Procs : q = p
    BY DEF OneRun
\* What becomes of the run.
  <2>1. ASSUME NEW r \in [pc: RunPcs, got: Responses \cup {Null}],
               run' = [run EXCEPT ![p] = r]
        PROVE  run' \in [Procs -> [pc: RunPcs, got: Responses \cup {Null}]] /\ run'[p] = r
    BY <1>0, <2>1
  <2>2. NoRun \in [pc: RunPcs, got: Responses \cup {Null}] /\ NoRun.pc = "idle"
    BY DEF NoRun, RunPcs
  <2>3. ASSUME NEW pc \in RunPcs, Goto(p, pc)
        PROVE  /\ run' \in [Procs -> [pc: RunPcs, got: Responses \cup {Null}]]
               /\ run'[p].pc = pc /\ run'[p].got = run[p].got
    <3>1. run' = [run EXCEPT ![p] = [run[p] EXCEPT !.pc = pc]]
      BY <2>3 DEF Goto
    <3>2. /\ [run[p] EXCEPT !.pc = pc] \in [pc: RunPcs, got: Responses \cup {Null}]
          /\ [run[p] EXCEPT !.pc = pc].pc = pc
          /\ [run[p] EXCEPT !.pc = pc].got = run[p].got
      BY <1>0
    <3>3. QED
      BY <2>1, <3>1, <3>2
  <2>4. CASE Fetch(p)
    <3>1. PICK v \in Responses : run' = [run EXCEPT ![p] = [pc |-> "check", got |-> v]]
      BY <2>4 DEF Fetch
    <3>2. UNCHANGED <<file, saved>>
      BY <2>4 DEF Fetch
    <3>3. QED
      BY <2>0, <2>1, <3>1, <3>2 DEF SavedInv, RunPcs
  <2>5. CASE CheckUUID(p)
    <3>1. UNCHANGED <<file, saved>> /\ run[p].got \in Responses
      BY <2>5 DEF CheckUUID, At, SavedInv
    <3>2. Return(p) \/ Goto(p, "open")
      BY <2>5 DEF CheckUUID
    <3>3. QED
      <4>1. CASE Return(p)
        BY <2>0, <2>1, <2>2, <3>1, <4>1 DEF SavedInv, Return
      <4>2. CASE Goto(p, "open")
        <5>1. run[p].got.uuid # Blank \/ Return(p)
          BY <2>5 DEF CheckUUID
        <5>2. CASE run[p].got.uuid # Blank
          <6>1. run[p].got \in Named
            BY <3>1, <5>2 DEF Named
          <6>2. QED
            BY <2>0, <2>3, <3>1, <4>2, <6>1 DEF SavedInv, RunPcs
        <5>3. QED
          BY <4>1, <5>1, <5>2
      <4>3. QED
        BY <3>2, <4>1, <4>2
  <2>6. CASE OpenFile(p)
    <3>1. /\ file' = <<>> /\ saved' = Null /\ Goto(p, "write")
          /\ run[p].got \in Responses /\ run[p].got \in Named
      BY <2>6 DEF OpenFile, At, SavedInv
    <3>2. BeginningOf(run[p].got, <<>>)
      <4>1. 0 \in 0..run[p].got.cells
        BY <3>1, NodeConfigAssumption
      <4>2. [k \in 1..0 |-> <<run[p].got, k>>] = <<>>
        OBVIOUS
      <4>3. QED
        BY <4>1, <4>2 DEF BeginningOf
    <3>3. QED
      BY <2>0, <2>3, <3>1, <3>2 DEF SavedInv, RunPcs
  <2>7. CASE WriteFile(p)
    <3>1. /\ run[p].got \in Responses /\ run[p].got \in Named /\ file = <<>>
          /\ file' = Overlay(file, Text(run[p].got)) /\ saved' = run[p].got
          /\ run' = [run EXCEPT ![p] = NoRun]
      BY <2>7 DEF WriteFile, At, Return, SavedInv
    <3>2. run[p].got.cells \in 0..run[p].got.cells
      BY <3>1, NodeConfigAssumption
    <3>3. file' = Text(run[p].got)
      BY <3>1, <3>2, OverlayEmpty DEF Text
    <3>4. BeginningOf(run[p].got, file')
      BY <3>2, <3>3 DEF BeginningOf, Text
    <3>5. QED
      BY <2>0, <2>1, <2>2, <3>1, <3>3, <3>4 DEF SavedInv
  <2>8. CASE WriteFails(p) \/ Ends(p)
    <3>1. run' = [run EXCEPT ![p] = NoRun] /\ saved' = saved
      BY <2>8 DEF WriteFails, Ends, Return
    <3>2. saved # Null => file' = file
      BY <2>8 DEF WriteFails, Ends, At, SavedInv
    <3>3. file' # Missing => \E v \in Named : BeginningOf(v, file')
      <4>1. CASE Ends(p)
        BY <4>1 DEF Ends, SavedInv
      <4>2. CASE WriteFails(p)
        <5>1. /\ run[p].got \in Responses /\ run[p].got \in Named /\ file = <<>>
              /\ run[p].got.cells \in Nat
          BY <4>2, NodeConfigAssumption DEF WriteFails, At, SavedInv
        <5>2. PICK n \in 0 .. run[p].got.cells - 1 :
                file' = Overlay(file, SubSeq(Text(run[p].got), 1, n))
          BY <4>2 DEF WriteFails
        <5>3. n \in 0..run[p].got.cells
          BY <5>1
        <5>4. file' = [k \in 1..n |-> <<run[p].got, k>>]
          BY <5>1, <5>2, <5>3, OverlayEmpty
        <5>5. BeginningOf(run[p].got, file')
          BY <5>3, <5>4 DEF BeginningOf
        <5>6. QED
          BY <5>1, <5>5
      <4>3. QED
        BY <2>8, <4>1, <4>2
    <3>4. QED
      BY <2>0, <2>1, <2>2, <3>1, <3>2, <3>3 DEF SavedInv
  <2>9. QED
    BY <1>3, <2>4, <2>5, <2>6, <2>7, <2>8
<1>4. QED
  BY <1>1, <1>2, <1>3 DEF Next

\* As long as runs of configure do not overlap, a file said to be saved holds
\* the whole response and nothing of what was there before, however earlier
\* runs ended (configure.go:91-97).
THEOREM SavedCorrect ==
  ASSUME OneRun
  PROVE  Spec => []SavedIsThere
<1>1. SavedInv /\ [Next]_vars => SavedInv'
  BY SavedNext
<1>2. SavedInv => SavedIsThere
  BY DEF SavedInv, SavedIsThere
<1>3. QED
  BY <1>1, <1>2, SavedInit, PTL DEF Spec

\* What a daemon makes of a beginning of the text of a response.
LEMMA BeginningParsed ==
  ASSUME NEW v \in Named, NEW text, BeginningOf(v, text)
  PROVE  \/ ApplyDefaults(Parsed(text)) = [uuid |-> v.uuid, data |-> WithDefault(v.data)]
         \/ ApplyDefaults(Parsed(text)) \in [uuid: {v.uuid, Blank}, data: {Default}]
<1>1. PICK n \in 0..v.cells : text = [k \in 1..n |-> <<v, k>>]
  BY DEF BeginningOf
<1>2. v.cells \in Nat /\ n \in Nat /\ Len(text) = n
  BY <1>1, NodeConfigAssumption DEF Named
<1> DEFINE u == IF n >= 1 THEN v.uuid ELSE Blank
           d == IF n >= 2 THEN v.data ELSE Blank
<1>3. Parsed(text) = [uuid |-> u, data |-> d]
  BY <1>1, <1>2 DEF Parsed
<1>4. ApplyDefaults(Parsed(text)) = [uuid |-> u, data |-> WithDefault(d)]
  BY <1>3 DEF ApplyDefaults, WithDefault
<1>5. CASE n >= 2
  BY <1>2, <1>4, <1>5
<1>6. CASE ~(n >= 2)
  BY <1>4, <1>6 DEF WithDefault
<1>7. QED
  BY <1>5, <1>6

\* As long as runs of configure do not overlap, a daemon starts with one
\* response, whole or cut short, and with the last one that was said to be
\* saved if no run has come to the file since (configure.go:78-97,
\* config.go:50-90).
THEOREM StartsCorrect ==
  ASSUME OneRun
  PROVE  Spec => StartsFromOneResponse
<1>1. SavedInv /\ [Next]_vars => SavedInv'
  BY SavedNext
<1> DEFINE Start ==
             daemon = "down" /\ daemon' = "up" =>
               /\ \E v \in Responses :
                    /\ v.uuid # Blank
                    /\ \/ config' = [uuid |-> v.uuid, data |-> WithDefault(v.data)]
                       \/ config' \in [uuid: {v.uuid, Blank}, data: {Default}]
               /\ saved # Null =>
                    config' = [uuid |-> saved.uuid, data |-> WithDefault(saved.data)]
<1>2. SavedInv /\ [Next]_vars => [Start]_vars
  <2> SUFFICES ASSUME SavedInv, [Next]_vars, daemon = "down", daemon' = "up"
               PROVE  /\ \E v \in Responses :
                           /\ v.uuid # Blank
                           /\ \/ config' = [uuid |-> v.uuid, data |-> WithDefault(v.data)]
                              \/ config' \in [uuid: {v.uuid, Blank}, data: {Default}]
                      /\ saved # Null =>
                           config' = [uuid |-> saved.uuid, data |-> WithDefault(saved.data)]
    OBVIOUS
  <2>1. file # Missing /\ config' = ApplyDefaults(Parsed(file))
    <3>1. daemon' # daemon
      OBVIOUS
    <3>2. Load
      BY <3>1 DEF Next, vars, Stop, Fetch, CheckUUID, OpenFile, WriteFile, WriteFails, Ends
    <3>3. QED
      BY <3>2 DEF Load
  <2>2. PICK v \in Named : BeginningOf(v, file)
    BY <2>1 DEF SavedInv
  <2>3. \/ config' = [uuid |-> v.uuid, data |-> WithDefault(v.data)]
        \/ config' \in [uuid: {v.uuid, Blank}, data: {Default}]
    BY <2>1, <2>2, BeginningParsed
  <2>4. ASSUME saved # Null
        PROVE  config' = [uuid |-> saved.uuid, data |-> WithDefault(saved.data)]
    <3>1. saved \in Responses /\ file = Text(saved)
      BY <2>4 DEF SavedInv
    <3>2. saved.cells \in Nat /\ saved.cells >= 2
      BY <3>1, NodeConfigAssumption
    <3>3. Len(file) = saved.cells /\ file[1] = <<saved, 1>> /\ file[2] = <<saved, 2>>
      BY <3>1, <3>2 DEF Text
    <3>4. Parsed(file) = [uuid |-> saved.uuid, data |-> saved.data]
      BY <3>2, <3>3 DEF Parsed
    <3>5. QED
      BY <2>1, <3>4 DEF ApplyDefaults, WithDefault
  <2>5. QED
    BY <2>2, <2>3, <2>4 DEF Named
<1>3. QED
  BY <1>1, <1>2, SavedInit, PTL DEF Spec, StartsFromOneResponse

=============================================================================
