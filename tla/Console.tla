------------------------------ MODULE Console ------------------------------
(***************************************************************************)
(* The live console of one server: BroadcastConsole and the listeners of   *)
(* internal/server/server.go, and the WebSocket handler of                 *)
(* internal/api/handlers/console.go with its writer goroutine.             *)
(*                                                                         *)
(* A console line is its number in the order of broadcast.  A client is    *)
(* one WebSocket connection.  Its peer may stop reading, so that writes    *)
(* block, and may leave, so that reads and sooner or later writes fail.    *)
(***************************************************************************)
EXTENDS Naturals, Sequences, SequencesExt

CONSTANTS
  Clients,   \* WebSocket connections
  Cap,       \* capacity of a listener's channel (256)
  MaxLines   \* bound on the lines broadcast

ASSUME ConsoleAssumption == Cap \in Nat \ {0} /\ MaxLines \in Nat

VARIABLES
  listeners,  \* Server.consoleListeners, in order of subscription
  chan,       \* client -> its channel
  handler,    \* client -> what its ConsoleWebSocket goroutine does next
  writer,     \* client -> its writer goroutine and the line in its hand
  conn,       \* client -> the connection, as the peer makes it
  got,        \* client -> the lines its peer received
  lines       \* number of lines broadcast so far

vars == <<listeners, chan, handler, writer, conn, got, lines>>

HandlerPcs == {"none", "subscribe", "status", "spawn", "read", "wait_done",
               "unsubscribe", "closed"}

WriterPcs == {"none", "select", "line", "stats", "done"}

Lines == 1..MaxLines

TypeOK ==
  /\ listeners \in Seq(Clients)
  /\ chan \in [Clients -> [buf: Seq(Lines), closed: BOOLEAN]]
  /\ handler \in [Clients -> HandlerPcs]
  /\ writer \in [Clients -> [pc: WriterPcs, line: 0..MaxLines]]
  /\ conn \in [Clients -> {"none", "reading", "stalled", "left", "reset"}]
  /\ got \in [Clients -> Seq(Lines)]
  /\ lines \in 0..MaxLines

Init ==
  /\ listeners = <<>>
  /\ chan = [c \in Clients |-> [buf |-> <<>>, closed |-> FALSE]]
  /\ handler = [c \in Clients |-> "none"]
  /\ writer = [c \in Clients |-> [pc |-> "none", line |-> 0]]
  /\ conn = [c \in Clients |-> "none"]
  /\ got = [c \in Clients |-> <<>>]
  /\ lines = 0

-----------------------------------------------------------------------------
(* Server: the listeners, under consoleMu                                   *)

\* Mutant: the loop ends at the first channel without room.
BroadcastConsole_StopsAtFull ==
  /\ lines < MaxLines
  /\ lines' = lines + 1
  /\ chan' = [c \in Clients |->
       IF \E i \in 1..Len(listeners) :
            /\ listeners[i] = c
            /\ \A j \in 1..i : Len(chan[listeners[j]].buf) < Cap
         THEN [chan[c] EXCEPT !.buf = Append(@, lines')]
         ELSE chan[c]]
  /\ UNCHANGED <<listeners, handler, writer, conn, got>>

\* Mutant: the last place of a channel is never used.
BroadcastConsole_OffByOne ==
  /\ lines < MaxLines
  /\ lines' = lines + 1
  /\ chan' = [c \in Clients |->
       IF c \in ToSet(listeners) /\ Len(chan[c].buf) + 1 < Cap
         THEN [chan[c] EXCEPT !.buf = Append(@, lines')]
         ELSE chan[c]]
  /\ UNCHANGED <<listeners, handler, writer, conn, got>>

\* Mutant: the line before is sent.
BroadcastConsole_Previous ==
  /\ lines < MaxLines
  /\ lines' = lines + 1
  /\ chan' = [c \in Clients |->
       IF c \in ToSet(listeners) /\ Len(chan[c].buf) < Cap
         THEN [chan[c] EXCEPT !.buf = Append(@, lines)]
         ELSE chan[c]]
  /\ UNCHANGED <<listeners, handler, writer, conn, got>>

\* The line goes to every listener with room and is dropped for the others.
BroadcastConsole ==
  /\ lines < MaxLines
  /\ lines' = lines + 1
  /\ chan' = [c \in Clients |->
       IF c \in ToSet(listeners) /\ Len(chan[c].buf) < Cap
         THEN [chan[c] EXCEPT !.buf = Append(@, lines')]
         ELSE chan[c]]
  /\ UNCHANGED <<listeners, handler, writer, conn, got>>

AddConsoleListener(c) == listeners' = Append(listeners, c)

\* Mutant: the channel is closed and stays in the list.
RemoveConsoleListener_Kept(c) ==
  /\ chan' = [chan EXCEPT ![c].closed = TRUE]
  /\ UNCHANGED listeners

\* A channel that is not in the list stays open.
RemoveConsoleListener(c) ==
  /\ listeners' = RemoveFirst(listeners, c)
  /\ chan' = [chan EXCEPT ![c].closed = @ \/ c \in ToSet(listeners)]

-----------------------------------------------------------------------------
(* ConsoleWebSocket: the goroutine of the request                          *)

HandlerGoto(c, from, to) ==
  /\ handler[c] = from
  /\ handler' = [handler EXCEPT ![c] = to]

Upgrade(c) ==
  /\ HandlerGoto(c, "none", "subscribe")
  /\ conn' = [conn EXCEPT ![c] = "reading"]
  /\ UNCHANGED <<listeners, chan, writer, got, lines>>

Subscribe(c) ==
  /\ HandlerGoto(c, "subscribe", "status")
  /\ AddConsoleListener(c)
  /\ UNCHANGED <<chan, writer, conn, got, lines>>

\* A write that may block; its error is ignored.
SendInitialStatus(c) ==
  /\ HandlerGoto(c, "status", "spawn")
  /\ conn[c] # "stalled"
  /\ UNCHANGED <<listeners, chan, writer, conn, got, lines>>

SpawnWriter(c) ==
  /\ HandlerGoto(c, "spawn", "read")
  /\ writer' = [writer EXCEPT ![c].pc = "select"]
  /\ UNCHANGED <<listeners, chan, conn, got, lines>>

\* Well-formed messages change nothing; the loop ends when the peer is gone
ReadFails(c) ==
  /\ HandlerGoto(c, "read", "wait_done")
  /\ conn[c] \in {"left", "reset"}
  /\ UNCHANGED <<listeners, chan, writer, conn, got, lines>>

\* or when a message of a peer that stays is not the JSON ReadJSON expects.
BadMessage(c) ==
  /\ HandlerGoto(c, "read", "wait_done")
  /\ conn[c] \in {"reading", "stalled"}
  /\ UNCHANGED <<listeners, chan, writer, conn, got, lines>>

WaitDone(c) ==
  /\ HandlerGoto(c, "wait_done", "unsubscribe")
  /\ writer[c].pc = "done"
  /\ UNCHANGED <<listeners, chan, writer, conn, got, lines>>

\* The deferred calls: the listener goes and the connection closes.
Unsubscribe(c) ==
  /\ HandlerGoto(c, "unsubscribe", "closed")
  /\ RemoveConsoleListener(c)
  /\ UNCHANGED <<writer, conn, got, lines>>

-----------------------------------------------------------------------------
(* The writer goroutine                                                    *)

WriterGoto(c, pc) == writer' = [writer EXCEPT ![c] = [pc |-> pc, line |-> 0]]

\* Mutant: the newest line is taken first.
TakeLine_Newest(c) ==
  /\ writer[c].pc = "select" /\ chan[c].buf # <<>>
  /\ writer' = [writer EXCEPT ![c] = [pc |-> "line", line |-> Last(chan[c].buf)]]
  /\ chan' = [chan EXCEPT ![c].buf = Front(@)]
  /\ UNCHANGED <<listeners, handler, conn, got, lines>>

TakeLine(c) ==
  /\ writer[c].pc = "select" /\ chan[c].buf # <<>>
  /\ writer' = [writer EXCEPT ![c] = [pc |-> "line", line |-> Head(chan[c].buf)]]
  /\ chan' = [chan EXCEPT ![c].buf = Tail(@)]
  /\ UNCHANGED <<listeners, handler, conn, got, lines>>

\* Mutant: the error of the write is ignored.
WriteLine_Unchecked(c) ==
  /\ writer[c].pc = "line" /\ conn[c] # "stalled"
  /\ got' = [got EXCEPT ![c] = IF conn[c] = "reading"
                                  THEN Append(@, writer[c].line) ELSE @]
  /\ conn' = [conn EXCEPT ![c] = IF @ = "left" THEN "reset" ELSE @]
  /\ WriterGoto(c, "select")
  /\ UNCHANGED <<listeners, chan, handler, lines>>

\* A write to a peer that has left goes nowhere once, and is then refused.
WriteLine(c) ==
  /\ writer[c].pc = "line"
  /\ \/ /\ conn[c] = "reading"
        /\ got' = [got EXCEPT ![c] = Append(@, writer[c].line)]
        /\ WriterGoto(c, "select")
        /\ UNCHANGED conn
     \/ /\ conn[c] = "left"
        /\ conn' = [conn EXCEPT ![c] = "reset"]
        /\ WriterGoto(c, "select")
        /\ UNCHANGED got
     \/ /\ conn[c] \in {"left", "reset"}
        /\ WriterGoto(c, "done")
        /\ UNCHANGED <<conn, got>>
  /\ UNCHANGED <<listeners, chan, handler, lines>>

\* Every 5 s, whatever the state of the server.
Tick(c) ==
  /\ writer[c].pc = "select"
  /\ WriterGoto(c, "stats")
  /\ UNCHANGED <<listeners, chan, handler, conn, got, lines>>

\* Mutant: the writer returns after its first stats event.
WriteStats_Returns(c) ==
  /\ writer[c].pc = "stats" /\ conn[c] # "stalled"
  /\ WriterGoto(c, "done")
  /\ UNCHANGED <<listeners, chan, handler, conn, got, lines>>

\* The error of this write is ignored.
WriteStats(c) ==
  /\ writer[c].pc = "stats" /\ conn[c] # "stalled"
  /\ WriterGoto(c, "select")
  /\ conn' = [conn EXCEPT ![c] = IF @ = "left" THEN "reset" ELSE @]
  /\ UNCHANGED <<listeners, chan, handler, got, lines>>

-----------------------------------------------------------------------------
(* The peer                                                                *)

PeerMoves(c) ==
  /\ \/ conn[c] = "reading" /\ conn' = [conn EXCEPT ![c] = "stalled"]
     \/ conn[c] = "stalled" /\ conn' = [conn EXCEPT ![c] = "reading"]
     \/ /\ conn[c] \in {"reading", "stalled"}
        /\ conn' = [conn EXCEPT ![c] = "left"]
  /\ UNCHANGED <<listeners, chan, handler, writer, got, lines>>

-----------------------------------------------------------------------------

Handler(c) ==
  \/ Subscribe(c) \/ SendInitialStatus(c) \/ SpawnWriter(c)
  \/ ReadFails(c) \/ WaitDone(c) \/ Unsubscribe(c)

Writer(c) == TakeLine(c) \/ WriteLine(c) \/ Tick(c) \/ WriteStats(c)

Next ==
  \/ BroadcastConsole
  \/ \E c \in Clients :
       Upgrade(c) \/ Handler(c) \/ BadMessage(c) \/ Writer(c) \/ PeerMoves(c)

Spec == Init /\ [][Next]_vars

\* The goroutines run, and select, which chooses at random among the ready
\* cases, cannot pass over a waiting line for ever.  Nothing makes a peer
\* come, read, write or leave, or the server print.
Fairness ==
  \A c \in Clients : WF_vars(Handler(c)) /\ WF_vars(Writer(c)) /\ SF_vars(TakeLine(c))

FairSpec == Spec /\ Fairness

-----------------------------------------------------------------------------
(* Properties                                                              *)

\* Everything of the console that is on its way to a client, oldest first.
Hand(c) == IF writer[c].pc = "line" THEN <<writer[c].line>> ELSE <<>>

Pipeline(c) == got[c] \o Hand(c) \o chan[c].buf

\* A client sees the lines in the order they were broadcast and none twice,
\* from AddConsoleListener through channel and writer to the peer.
InOrder ==
  \A c \in Clients : \A i, j \in 1..Len(Pipeline(c)) :
    i < j => Pipeline(c)[i] < Pipeline(c)[j]

\* The non-blocking send of BroadcastConsole drops lines only when a channel
\* is full: while no more lines were broadcast than a channel holds, a
\* connected subscriber misses none, whoever else comes, stalls or leaves.
NothingLostBelowCap ==
  lines <= Cap => \A c \in ToSet(listeners) :
    conn[c] \in {"reading", "stalled"} =>
      \A n \in Lines :
        n <= lines /\ (\E m \in ToSet(Pipeline(c)) : m <= n) =>
          n \in ToSet(Pipeline(c))

\* A channel in the list is open: BroadcastConsole would panic on a closed
\* one, and nobody is in the list twice, or the second close would panic.
ListenersOpen ==
  \A i, j \in 1..Len(listeners) :
    /\ ~chan[listeners[i]].closed
    /\ i # j => listeners[i] # listeners[j]

\* The lines on their way, and the clients whose peer has left.
Way == [c \in Clients |-> Hand(c) \o chan[c].buf]

Gone == {c \in Clients : conn[c] \in {"left", "reset"}}

Queues == INSTANCE LossyQueues WITH
  queue <- Way, seen <- got, open <- ToSet(listeners), gone <- Gone, count <- lines

\* Channels and writers implement one lossy queue per client: a line passes a
\* client by only when its own queue is full, however slow, stalled or gone
\* the others are; what its queue took is lost only with its peer; and no
\* client is unsubscribed whose peer is there.
QueuesImplemented == Queues!Spec

\* A line that a channel took reaches the peer, unless the peer stops reading
\* or leaves.
TakenLinesArrive ==
  \A c \in Clients, n \in Lines :
    n \in ToSet(chan[c].buf) ~>
      n \in ToSet(got[c]) \/ conn[c] # "reading"

\* A client that is gone is unsubscribed once the server prints two more
\* lines: the writes of these fail and end the writer the handler waits for.
GoneUnsubscribedByOutput ==
  \A c \in Clients :
    conn[c] \in {"left", "reset"} /\ Len(chan[c].buf) >= 2 ~>
      c \notin ToSet(listeners)

=============================================================================

