----------------------------- MODULE LossyQueues -----------------------------
(***************************************************************************)
(* What the live console promises its subscribers: one queue per client    *)
(* that takes every line while fewer than Cap are waiting and none while   *)
(* more than Cap are, whatever the queues of the others hold; the lines go *)
(* to the peer in order and are lost only when the peer is gone; only a    *)
(* client that is gone is unsubscribed.                                    *)
(***************************************************************************)
EXTENDS Naturals, Sequences

CONSTANTS
  Clients,
  Cap        \* lines a queue surely takes

VARIABLES
  queue,  \* client -> the lines on their way to it, oldest first
  seen,   \* client -> the lines its peer received
  open,   \* the subscribed clients
  gone,   \* the clients whose peer has left
  count   \* number of lines sent so far

vars == <<queue, seen, open, gone, count>>

Init ==
  /\ queue = [c \in Clients |-> <<>>]
  /\ seen = [c \in Clients |-> <<>>]
  /\ open = {} /\ gone = {}
  /\ count = 0

\* With exactly Cap lines on their way, one of them may be in the writer's
\* hand or not, so that the channel may have room for another or not.
Send ==
  /\ count' = count + 1
  /\ \E took \in SUBSET open :
       /\ \A c \in open : Len(queue[c]) < Cap => c \in took
       /\ \A c \in took : Len(queue[c]) <= Cap
       /\ queue' = [c \in Clients |-> IF c \in took THEN Append(queue[c], count')
                                                    ELSE queue[c]]
  /\ UNCHANGED <<seen, open, gone>>

TakeFirst(c) ==
  /\ queue[c] # <<>>
  /\ queue' = [queue EXCEPT ![c] = Tail(@)]

Deliver(c) ==
  /\ c \notin gone /\ TakeFirst(c)
  /\ seen' = [seen EXCEPT ![c] = Append(@, Head(queue[c]))]
  /\ UNCHANGED <<open, gone, count>>

Lose(c) == c \in gone /\ TakeFirst(c) /\ UNCHANGED <<seen, open, gone, count>>

Open(c) ==
  /\ c \notin open /\ open' = open \union {c}
  /\ UNCHANGED <<queue, seen, gone, count>>

Leave(c) ==
  /\ c \notin gone /\ gone' = gone \union {c}
  /\ UNCHANGED <<queue, seen, open, count>>

Close(c) ==
  /\ c \in open \intersect gone /\ open' = open \ {c}
  /\ UNCHANGED <<queue, seen, gone, count>>

Next ==
  \/ Send
  \/ \E c \in Clients : Deliver(c) \/ Lose(c) \/ Open(c) \/ Leave(c) \/ Close(c)

Spec == Init /\ [][Next]_vars

=============================================================================
