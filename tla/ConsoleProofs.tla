---------------------------- MODULE ConsoleProofs ----------------------------
(***************************************************************************)
(* Console lines arrive in order and never twice, proved for any number of *)
(* clients, any capacity of the channels and any number of lines.  InOrder *)
(* is not inductive: nothing in it says that the next line to be broadcast *)
(* is greater than all that are on their way.  Ordered adds that, and says *)
(* the rest for the three parts of the way, which the steps change apart.  *)
(***************************************************************************)
EXTENDS Console, SequenceTheorems, TLAPS

Rising(s) == \A i, j \in 1..Len(s) : i < j => s[i] < s[j]

Before(s, t) == \A i \in 1..Len(s), j \in 1..Len(t) : s[i] < t[j]

UpTo(s, n) == \A i \in 1..Len(s) : 0 < s[i] /\ s[i] <= n

\* The parts of TypeOK the order depends on.
LinesTyped ==
  /\ lines \in Nat
  /\ chan \in [Clients -> [buf: Seq(Nat), closed: BOOLEAN]]
  /\ writer \in [Clients -> [pc: WriterPcs, line: Nat]]
  /\ got \in [Clients -> Seq(Nat)]

\* What client c received is before what its writer holds, and that before
\* what waits in the channel; all of it has been broadcast.
Ordered(c) ==
  /\ Rising(got[c]) /\ Rising(chan[c].buf) /\ Before(got[c], chan[c].buf)
  /\ UpTo(got[c], lines) /\ UpTo(chan[c].buf, lines)
  /\ writer[c].pc = "line" =>
       /\ writer[c].line \in 1..lines
       /\ \A i \in 1..Len(got[c]) : got[c][i] < writer[c].line
       /\ \A j \in 1..Len(chan[c].buf) : writer[c].line < chan[c].buf[j]

OrderInv == LinesTyped /\ \A c \in Clients : Ordered(c)

\* The handler of a listed channel is between AddConsoleListener and
\* RemoveConsoleListener, and a channel is not closed before it is listed.
ListenersInv ==
  /\ \A i \in 1..Len(listeners) :
       /\ handler[listeners[i]] \in {"status", "spawn", "read", "wait_done", "unsubscribe"}
       /\ ~chan[listeners[i]].closed
  /\ \A i, j \in 1..Len(listeners) : i # j => listeners[i] # listeners[j]
  /\ \A c \in Clients : handler[c] \in {"none", "subscribe"} => ~chan[c].closed

\* Line n is on its way to client c or has arrived.
Carried(c, n) ==
  \/ \E i \in 1..Len(got[c]) : got[c][i] = n
  \/ writer[c].pc = "line" /\ writer[c].line = n
  \/ \E i \in 1..Len(chan[c].buf) : chan[c].buf[i] = n

\* While a channel still has room for every line, it takes each of them: what
\* a listed client carries reaches up to the newest line without a gap.
Gapless(c) ==
  lines <= Cap /\ conn[c] \in {"reading", "stalled"} =>
    \A m, n \in 1..lines : Carried(c, m) /\ m < n => Carried(c, n)

\* Nothing is under way before AddConsoleListener, nor in a writer's hand
\* before there is one; a channel holds no more lines than there were.
LostInv ==
  /\ \A i \in 1..Len(listeners) : Gapless(listeners[i])
  /\ \A c \in Clients :
       /\ handler[c] \in {"none", "subscribe"} => got[c] = <<>> /\ chan[c].buf = <<>>
       /\ handler[c] \in {"none", "subscribe", "status", "spawn"} => writer[c].pc = "none"
       /\ Len(chan[c].buf) <= lines

-----------------------------------------------------------------------------
(* The parts and the whole                                                 *)

\* The elements of a sequence, as ToSet and the positions name them.
LEMMA SeqDomain ==
  ASSUME NEW S, NEW s \in Seq(S)
  PROVE  DOMAIN s = 1..Len(s)
  BY LenProperties

LEMMA ConcatElements ==
  ASSUME NEW s \in Seq(Nat), NEW t \in Seq(Nat)
  PROVE  s \o t \in Seq(Nat) /\ ToSet(s \o t) = ToSet(s) \cup ToSet(t)
<1>1. /\ s \o t \in Seq(Nat)
      /\ Len(s \o t) = Len(s) + Len(t)
      /\ \A i \in 1..(Len(s) + Len(t)) :
           (s \o t)[i] = IF i <= Len(s) THEN s[i] ELSE t[i - Len(s)]
  BY ConcatProperties
<1>2. Len(s) \in Nat /\ Len(t) \in Nat
  OBVIOUS
<1>3. DOMAIN s = 1..Len(s) /\ DOMAIN t = 1..Len(t) /\ DOMAIN (s \o t) = 1..(Len(s) + Len(t))
  BY <1>1, SeqDomain
<1> DEFINE u == s \o t
<1> HIDE DEF u
<1>4. ASSUME NEW i \in 1..(Len(s) + Len(t)) PROVE u[i] \in ToSet(s) \cup ToSet(t)
  <2>1. CASE i <= Len(s)
    BY SMTT(40), <1>1, <1>2, <1>3, <2>1 DEF ToSet, u
  <2>2. CASE ~(i <= Len(s))
    <3>1. i - Len(s) \in 1..Len(t)
      BY <1>2, <2>2
    <3>2. QED
      BY <1>1, <1>3, <2>2, <3>1 DEF ToSet, u
  <2>3. QED
    BY <2>1, <2>2
<1>5. ASSUME NEW i \in 1..Len(s) PROVE s[i] \in ToSet(u)
  <2>1. i \in 1..(Len(s) + Len(t)) /\ i <= Len(s)
    BY <1>2
  <2>2. QED
    BY <1>1, <1>3, <2>1 DEF ToSet, u
<1>6. ASSUME NEW i \in 1..Len(t) PROVE t[i] \in ToSet(u)
  <2>1. /\ i + Len(s) \in 1..(Len(s) + Len(t)) /\ ~(i + Len(s) <= Len(s))
        /\ (i + Len(s)) - Len(s) = i
    BY <1>2
  <2>2. u[i + Len(s)] = t[i]
    BY <1>1, <2>1 DEF u
  <2>3. QED
    BY <1>3, <2>1, <2>2 DEF ToSet, u
<1>7. ToSet(u) = ToSet(s) \cup ToSet(t)
  BY <1>3, <1>4, <1>5, <1>6 DEF ToSet, u
<1>8. QED
  BY <1>1, <1>7 DEF u

LEMMA HeadTailElements ==
  ASSUME NEW S, NEW s \in Seq(S), s # <<>>, NEW n
  PROVE  (\E i \in 1..Len(s) : s[i] = n)
           <=> (n = Head(s) \/ \E i \in 1..Len(Tail(s)) : Tail(s)[i] = n)
<1>1. /\ Len(s) \in Nat /\ Len(s) >= 1 /\ Head(s) = s[1]
      /\ Len(Tail(s)) = Len(s) - 1
      /\ \A i \in 1..Len(Tail(s)) : Tail(s)[i] = s[i + 1]
  BY HeadTailProperties
<1>2. ASSUME NEW i \in 1..Len(s), i # 1
      PROVE  i - 1 \in 1..Len(Tail(s)) /\ Tail(s)[i - 1] = s[i]
  <2>1. i - 1 \in 1..Len(Tail(s)) /\ (i - 1) + 1 = i
    BY <1>1, <1>2
  <2>2. QED
    BY <1>1, <2>1
<1>3. \A i \in 1..Len(Tail(s)) : i + 1 \in 1..Len(s)
  BY <1>1
<1>4. 1 \in 1..Len(s)
  BY <1>1
<1>5. ASSUME NEW i \in 1..Len(s), s[i] = n
      PROVE  n = Head(s) \/ \E j \in 1..Len(Tail(s)) : Tail(s)[j] = n
  BY <1>1, <1>2, <1>5
<1>6. ASSUME NEW i \in 1..Len(Tail(s)), Tail(s)[i] = n
      PROVE  \E j \in 1..Len(s) : s[j] = n
  BY <1>1, <1>3, <1>6
<1>7. QED
  BY <1>1, <1>4, <1>5, <1>6

LEMMA AppendSet ==
  ASSUME NEW S, NEW s \in Seq(S), NEW e, NEW n
  PROVE  (\E i \in 1..Len(Append(s, e)) : Append(s, e)[i] = n)
           <=> (n = e \/ \E i \in 1..Len(s) : s[i] = n)
<1>1. /\ Len(Append(s, e)) = Len(s) + 1 /\ Len(s) \in Nat
      /\ \A i \in 1..Len(s) : Append(s, e)[i] = s[i]
      /\ Append(s, e)[Len(s) + 1] = e
  OBVIOUS
<1>2. \A i \in 1..(Len(s) + 1) : i \in 1..Len(s) \/ i = Len(s) + 1
  BY <1>1
<1>3. \A i \in 1..Len(s) : i \in 1..(Len(s) + 1)
  BY <1>1
<1>4. Len(s) + 1 \in 1..(Len(s) + 1)
  BY <1>1
<1>5. QED
  BY <1>1, <1>2, <1>3, <1>4

LEMMA ConcatRising ==
  ASSUME NEW s \in Seq(Nat), NEW t \in Seq(Nat), Rising(s), Rising(t), Before(s, t)
  PROVE  s \o t \in Seq(Nat) /\ Rising(s \o t)
<1>1. /\ s \o t \in Seq(Nat) /\ Len(s \o t) = Len(s) + Len(t)
      /\ \A i \in 1..(Len(s) + Len(t)) :
           (s \o t)[i] = IF i <= Len(s) THEN s[i] ELSE t[i - Len(s)]
  BY ConcatProperties
<1>2. Len(s) \in Nat /\ Len(t) \in Nat
  OBVIOUS
<1>3. ASSUME NEW i \in 1..(Len(s) + Len(t)), NEW j \in 1..(Len(s) + Len(t)), i < j
      PROVE  (s \o t)[i] < (s \o t)[j]
  <2>1. CASE j <= Len(s)
    <3>1. i \in 1..Len(s) /\ j \in 1..Len(s)
      BY <1>2, <1>3, <2>1
    <3>2. (s \o t)[i] = s[i] /\ (s \o t)[j] = s[j]
      BY <1>1, <3>1, <1>3, <2>1
    <3>3. QED
      BY <1>3, <3>1, <3>2 DEF Rising
  <2>2. CASE i <= Len(s) /\ j > Len(s)
    <3>1. i \in 1..Len(s) /\ j - Len(s) \in 1..Len(t) /\ ~(j <= Len(s))
      BY <1>2, <1>3, <2>2
    <3>2. (s \o t)[i] = s[i] /\ (s \o t)[j] = t[j - Len(s)]
      BY <1>1, <3>1, <1>3, <2>2
    <3>3. QED
      BY <3>1, <3>2 DEF Before
  <2>3. CASE i > Len(s)
    <3>1. /\ i - Len(s) \in 1..Len(t) /\ j - Len(s) \in 1..Len(t)
          /\ ~(i <= Len(s)) /\ ~(j <= Len(s)) /\ i - Len(s) < j - Len(s)
      BY <1>2, <1>3, <2>3
    <3>2. (s \o t)[i] = t[i - Len(s)] /\ (s \o t)[j] = t[j - Len(s)]
      BY <1>1, <3>1, <1>3
    <3>3. QED
      BY <3>1, <3>2 DEF Rising
  <2>4. QED
    BY <1>2, <1>3, <2>1, <2>2, <2>3
<1>4. QED
  BY <1>1, <1>3 DEF Rising

LEMMA AppendRising ==
  ASSUME NEW s \in Seq(Nat), NEW n \in Nat, Rising(s), \A i \in 1..Len(s) : s[i] < n
  PROVE  Append(s, n) \in Seq(Nat) /\ Rising(Append(s, n))
<1> DEFINE a == Append(s, n)
<1>1. /\ a \in Seq(Nat) /\ Len(a) = Len(s) + 1 /\ Len(s) \in Nat
      /\ \A i \in 1..Len(s) : a[i] = s[i]
      /\ a[Len(s) + 1] = n
  BY AppendProperties
<1>2. ASSUME NEW i \in 1..(Len(s) + 1), NEW j \in 1..(Len(s) + 1), i < j
      PROVE  a[i] < a[j]
  <2>0. i \in 1..Len(s)
    BY <1>1, <1>2
  <2>1. CASE j \in 1..Len(s)
    <3>1. a[i] = s[i] /\ a[j] = s[j]
      BY <1>1, <2>0, <2>1
    <3>2. s[i] < s[j]
      BY <1>2, <2>0, <2>1 DEF Rising
    <3>3. QED
      BY <3>1, <3>2
  <2>2. CASE j = Len(s) + 1
    <3>1. a[i] = s[i] /\ a[j] = n
      BY <1>1, <2>0, <2>2
    <3>2. QED
      BY <2>0, <3>1
  <2>3. QED
    BY <1>1, <2>1, <2>2
<1>3. QED
  BY <1>1, <1>2 DEF Rising

\* What holds of a sequence's elements and of one more.
LEMMA AppendElements ==
  ASSUME NEW s \in Seq(Nat), NEW n \in Nat, NEW i \in 1..Len(Append(s, n))
  PROVE  Append(s, n)[i] = n \/ (i \in 1..Len(s) /\ Append(s, n)[i] = s[i])
<1>1. /\ Len(Append(s, n)) = Len(s) + 1 /\ Len(s) \in Nat
      /\ \A k \in 1..Len(s) : Append(s, n)[k] = s[k]
      /\ Append(s, n)[Len(s) + 1] = n
  BY AppendProperties
<1>2. i \in 1..Len(s) \/ i = Len(s) + 1
  BY <1>1
<1>3. QED
  BY <1>1, <1>2

\* The rest of a sequence that rises comes after its first element.
LEMMA TailRising ==
  ASSUME NEW s \in Seq(Nat), s # <<>>, Rising(s)
  PROVE  /\ Head(s) = s[1] /\ 1 \in 1..Len(s)
         /\ Tail(s) \in Seq(Nat) /\ Rising(Tail(s))
         /\ \A i \in 1..Len(Tail(s)) : i + 1 \in 1..Len(s) /\ Tail(s)[i] = s[i + 1]
         /\ \A i \in 1..Len(Tail(s)) : s[1] < Tail(s)[i]
<1>1. /\ Tail(s) \in Seq(Nat) /\ Len(Tail(s)) = Len(s) - 1
      /\ \A i \in 1..Len(Tail(s)) : Tail(s)[i] = s[i + 1]
  BY HeadTailProperties
<1>2. Head(s) = s[1] /\ Len(s) \in Nat /\ Len(s) >= 1
  OBVIOUS
<1>3. \A i \in 1..Len(Tail(s)) : i + 1 \in 1..Len(s) /\ 1 < i + 1
  BY <1>1, <1>2
<1>4. 1 \in 1..Len(s)
  BY <1>2
<1>5. \A i \in 1..Len(Tail(s)) : s[1] < Tail(s)[i]
  BY <1>1, <1>3, <1>4 DEF Rising
<1>6. ASSUME NEW i \in 1..Len(Tail(s)), NEW j \in 1..Len(Tail(s)), i < j
      PROVE  Tail(s)[i] < Tail(s)[j]
  <2>1. i + 1 < j + 1
    BY <1>1, <1>2, <1>6
  <2>2. QED
    BY <1>1, <1>3, <1>6, <2>1 DEF Rising
<1>7. QED
  BY <1>1, <1>2, <1>3, <1>4, <1>5, <1>6 DEF Rising

LEMMA OrderedInOrder == OrderInv => InOrder
<1> SUFFICES ASSUME OrderInv, NEW c \in Clients PROVE Rising(Pipeline(c))
  BY DEF InOrder, Rising
<1> DEFINE g == got[c]
           b == chan[c].buf
           l == writer[c].line
<1>1. g \in Seq(Nat) /\ b \in Seq(Nat) /\ l \in Nat
  BY DEF OrderInv, LinesTyped
<1>2. Rising(g) /\ Rising(b) /\ Before(g, b)
  BY DEF OrderInv, Ordered
<1>3. CASE writer[c].pc = "line"
  <2>1. Append(g, l) = g \o <<l>>
    BY <1>1, AppendIsConcat
  <2>2. /\ \A i \in 1..Len(g) : g[i] < l
        /\ \A j \in 1..Len(b) : l < b[j]
    BY <1>3 DEF OrderInv, Ordered
  <2>3. Append(g, l) \in Seq(Nat) /\ Rising(Append(g, l))
    BY <1>1, <1>2, <2>2, AppendRising
  <2>4. Before(Append(g, l), b)
    <3>1. ASSUME NEW i \in 1..Len(Append(g, l)), NEW j \in 1..Len(b)
          PROVE  Append(g, l)[i] < b[j]
      BY <1>1, <1>2, <2>2, AppendElements DEF Before
    <3>2. QED
      BY <3>1 DEF Before
  <2>5. Rising(Append(g, l) \o b)
    BY <1>1, <1>2, <2>3, <2>4, ConcatRising
  <2>6. QED
    BY <1>3, <2>1, <2>5 DEF Pipeline, Hand
<1>4. CASE writer[c].pc # "line"
  <2>1. g \o <<>> = g
    BY <1>1, ConcatEmptySeq
  <2>2. Rising(g \o b)
    BY <1>1, <1>2, ConcatRising
  <2>3. QED
    BY <1>4, <2>1, <2>2 DEF Pipeline, Hand
<1>5. QED
  BY <1>3, <1>4

-----------------------------------------------------------------------------
(* The steps                                                               *)

LEMMA OrderInit == Init => OrderInv
<1> SUFFICES ASSUME Init PROVE OrderInv
  OBVIOUS
<1>1. <<>> \in Seq(Nat) /\ Len(<<>>) = 0
  OBVIOUS
<1>2. LinesTyped
  BY <1>1 DEF Init, LinesTyped, WriterPcs
<1>3. \A c \in Clients : Ordered(c)
  BY <1>1 DEF Init, Ordered, Rising, Before, UpTo
<1>4. QED
  BY <1>2, <1>3 DEF OrderInv

\* A client none of whose lines moves.
LEMMA OrderKept ==
  ASSUME OrderInv, NEW c \in Clients, lines' = lines,
         chan'[c].buf = chan[c].buf, got'[c] = got[c],
         writer'[c].pc = "line" => writer'[c] = writer[c]
  PROVE  Ordered(c)'
  BY DEF OrderInv, Ordered, Rising, Before, UpTo

\* A line that is broadcast comes after all others.
LEMMA BroadcastOrder ==
  ASSUME OrderInv, BroadcastConsole
  PROVE  OrderInv'
<1>0. /\ lines \in Nat /\ lines' = lines + 1 /\ lines' \in Nat
      /\ got' = got /\ writer' = writer
      /\ got \in [Clients -> Seq(Nat)] /\ writer \in [Clients -> [pc: WriterPcs, line: Nat]]
  BY DEF BroadcastConsole, OrderInv, LinesTyped
<1>1. ASSUME NEW c \in Clients
      PROVE  /\ chan[c] \in [buf: Seq(Nat), closed: BOOLEAN]
             /\ \/ chan'[c] = chan[c]
                \/ chan'[c] = [chan[c] EXCEPT !.buf = Append(chan[c].buf, lines')]
  BY DEF BroadcastConsole, OrderInv, LinesTyped
<1>2. LinesTyped'
  <2>1. \A c \in Clients : Append(chan[c].buf, lines') \in Seq(Nat)
    <3>1. \A c \in Clients : chan[c].buf \in Seq(Nat)
      BY DEF OrderInv, LinesTyped
    <3>2. QED
      BY <1>0, <3>1, AppendProperties
  <2>2. \A c \in Clients : chan'[c] \in [buf: Seq(Nat), closed: BOOLEAN]
    BY <1>1, <2>1
  <2>3. \E f : chan' = [c \in Clients |-> f[c]]
    <3> DEFINE F == [c \in Clients |->
                 IF c \in ToSet(listeners) /\ Len(chan[c].buf) < Cap
                   THEN [chan[c] EXCEPT !.buf = Append(@, lines')]
                   ELSE chan[c]]
    <3>1. chan' = F
      BY DEF BroadcastConsole
    <3>2. F = [c \in Clients |-> F[c]]
      OBVIOUS
    <3>3. QED
      BY <3>1, <3>2
  <2>4. chan' \in [Clients -> [buf: Seq(Nat), closed: BOOLEAN]]
    BY <2>2, <2>3
  <2>5. QED
    BY <1>0, <2>4 DEF LinesTyped
<1>3. ASSUME NEW c \in Clients PROVE Ordered(c)'
  <2> DEFINE b == chan[c].buf
             g == got[c]
             l == writer[c].line
  <2>0. b \in Seq(Nat) /\ g \in Seq(Nat)
    BY DEF OrderInv, LinesTyped
  <2>1. /\ UpTo(g, lines) /\ UpTo(b, lines) /\ Rising(b) /\ Rising(g) /\ Before(g, b)
    BY DEF OrderInv, Ordered
  <2>2. /\ \A i \in 1..Len(b) : 0 < b[i] /\ b[i] <= lines' /\ b[i] < lines'
        /\ \A i \in 1..Len(g) : 0 < g[i] /\ g[i] <= lines' /\ g[i] < lines'
    <3>1. /\ \A i \in 1..Len(b) : b[i] \in Nat /\ 0 < b[i] /\ b[i] <= lines
          /\ \A i \in 1..Len(g) : g[i] \in Nat /\ 0 < g[i] /\ g[i] <= lines
      BY SMTT(40), <2>0, <2>1 DEF UpTo
    <3>2. QED
      BY <1>0, <3>1
  <2>3. writer[c].pc = "line" =>
          /\ l \in 1..lines' /\ l < lines'
          /\ \A i \in 1..Len(g) : g[i] < l
          /\ \A j \in 1..Len(b) : l < b[j]
    <3>1. SUFFICES ASSUME writer[c].pc = "line"
                   PROVE  l \in 1..lines' /\ l < lines'
      BY DEF OrderInv, Ordered
    <3>2. l \in 1..lines
      BY <3>1 DEF OrderInv, Ordered
    <3>3. QED
      BY <1>0, <3>2
  <2>4. UpTo(g, lines')
    BY <2>2 DEF UpTo
  <2>5. CASE chan'[c] = chan[c]
    <3>1. UpTo(b, lines')
      BY <2>2 DEF UpTo
    <3>2. QED
      BY <1>0, <2>1, <2>3, <2>4, <2>5, <3>1 DEF Ordered
  <2>6. CASE chan'[c] = [chan[c] EXCEPT !.buf = Append(b, lines')]
    <3>1. chan'[c].buf = Append(b, lines')
      BY <1>1, <2>6
    <3>2. Rising(Append(b, lines'))
      BY <1>0, <2>0, <2>1, <2>2, AppendRising
    <3>3. ASSUME NEW i \in 1..Len(Append(b, lines'))
          PROVE  /\ 0 < Append(b, lines')[i] /\ Append(b, lines')[i] <= lines'
                 /\ \A k \in 1..Len(g) : g[k] < Append(b, lines')[i]
                 /\ writer[c].pc = "line" => l < Append(b, lines')[i]
      <4>1. CASE Append(b, lines')[i] = lines'
        BY SMTT(40), <1>0, <2>2, <2>3, <4>1
      <4>2. CASE i \in 1..Len(b) /\ Append(b, lines')[i] = b[i]
        <5>1. 0 < b[i] /\ b[i] <= lines'
          BY <1>0, <2>2, <4>2
        <5>2. QED
          BY <2>1, <2>3, <4>2, <5>1 DEF Before
      <4>3. QED
        BY <1>0, <2>0, <4>1, <4>2, AppendElements
    <3>4. UpTo(Append(b, lines'), lines') /\ Before(g, Append(b, lines'))
      BY <3>3 DEF UpTo, Before
    <3>5. QED
      BY <1>0, <2>1, <2>3, <2>4, <3>1, <3>2, <3>3, <3>4 DEF Ordered
  <2>7. QED
    BY <1>1, <2>5, <2>6
<1>4. QED
  BY <1>2, <1>3 DEF OrderInv

\* From the channel into the writer's hand.
LEMMA TakeOrder ==
  ASSUME OrderInv, NEW c \in Clients, TakeLine(c)
  PROVE  OrderInv'
<1> DEFINE b == chan[c].buf
           g == got[c]
<1>0. /\ b \in Seq(Nat) /\ b # <<>> /\ g \in Seq(Nat)
      /\ lines' = lines /\ got' = got /\ lines \in Nat
  BY DEF TakeLine, OrderInv, LinesTyped
<1>1. /\ Rising(b) /\ Rising(g) /\ Before(g, b) /\ UpTo(b, lines) /\ UpTo(g, lines)
  BY DEF OrderInv, Ordered
<1>2. /\ Head(b) = b[1] /\ 1 \in 1..Len(b)
      /\ Tail(b) \in Seq(Nat) /\ Rising(Tail(b))
      /\ \A i \in 1..Len(Tail(b)) : i + 1 \in 1..Len(b) /\ Tail(b)[i] = b[i + 1]
      /\ \A i \in 1..Len(Tail(b)) : b[1] < Tail(b)[i]
  BY <1>0, <1>1, TailRising
<1>3. b[1] \in Nat
  BY <1>0, <1>2, ElementOfSeq
<1>4. /\ chan' = [chan EXCEPT ![c] = [chan[c] EXCEPT !.buf = Tail(b)]]
      /\ writer' = [writer EXCEPT ![c] = [pc |-> "line", line |-> b[1]]]
  BY <1>2 DEF TakeLine
<1>5. /\ chan \in [Clients -> [buf: Seq(Nat), closed: BOOLEAN]]
      /\ writer \in [Clients -> [pc: WriterPcs, line: Nat]]
      /\ got \in [Clients -> Seq(Nat)]
  BY DEF OrderInv, LinesTyped
<1>6. /\ chan'[c].buf = Tail(b) /\ writer'[c] = [pc |-> "line", line |-> b[1]]
      /\ \A d \in Clients \ {c} : chan'[d] = chan[d] /\ writer'[d] = writer[d]
  BY <1>4, <1>5
<1>7. LinesTyped'
  <2>1. [chan[c] EXCEPT !.buf = Tail(b)] \in [buf: Seq(Nat), closed: BOOLEAN]
    BY ZenonT(60), <1>2, <1>5
  <2>2. chan' \in [Clients -> [buf: Seq(Nat), closed: BOOLEAN]]
    BY <1>4, <1>5, <2>1
  <2>3. writer' \in [Clients -> [pc: WriterPcs, line: Nat]]
    BY <1>3, <1>4, <1>5 DEF WriterPcs
  <2>4. QED
    BY <1>0, <1>5, <2>2, <2>3 DEF LinesTyped
<1>8. Ordered(c)'
  <2>1. UpTo(Tail(b), lines) /\ Before(g, Tail(b))
    BY <1>1, <1>2 DEF UpTo, Before
  <2>2. 0 < b[1] /\ b[1] <= lines
    BY <1>1, <1>2 DEF UpTo
  <2>3. b[1] \in 1..lines
    BY <1>0, <1>3, <2>2
  <2>4. \A i \in 1..Len(g) : g[i] < b[1]
    BY <1>1, <1>2 DEF Before
  <2>5. QED
    BY <1>0, <1>1, <1>2, <1>6, <2>1, <2>3, <2>4 DEF Ordered
<1>9. \A d \in Clients \ {c} : Ordered(d)'
  BY <1>0, <1>6, OrderKept
<1>10. QED
  BY <1>7, <1>8, <1>9 DEF OrderInv

\* From the hand to the peer; or the hand is emptied.
LEMMA WriteOrder ==
  ASSUME OrderInv, NEW c \in Clients, WriteLine(c)
  PROVE  OrderInv'
<1> DEFINE g == got[c]
           b == chan[c].buf
           l == writer[c].line
<1>0. /\ g \in Seq(Nat) /\ l \in Nat /\ b \in Seq(Nat)
      /\ lines' = lines /\ chan' = chan /\ lines \in Nat
      /\ writer[c].pc = "line"
      /\ got \in [Clients -> Seq(Nat)]
      /\ chan \in [Clients -> [buf: Seq(Nat), closed: BOOLEAN]]
      /\ writer \in [Clients -> [pc: WriterPcs, line: Nat]]
  BY DEF OrderInv, LinesTyped, WriteLine
<1>1. PICK pc \in {"select", "done"} :
        writer' = [writer EXCEPT ![c] = [pc |-> pc, line |-> 0]]
  BY DEF WriteLine, WriterGoto
<1>2. /\ writer'[c].pc # "line" /\ writer' \in [Clients -> [pc: WriterPcs, line: Nat]]
      /\ \A d \in Clients \ {c} : writer'[d] = writer[d]
  BY <1>0, <1>1 DEF WriterPcs
<1>3. CASE got' = got
  <2>1. LinesTyped'
    BY <1>0, <1>2, <1>3 DEF LinesTyped
  <2>2. \A d \in Clients : Ordered(d)'
    BY <1>0, <1>2, <1>3, OrderKept
  <2>3. QED
    BY <2>1, <2>2 DEF OrderInv
<1>4. CASE got' = [got EXCEPT ![c] = Append(g, l)]
  <2>1. /\ Rising(g) /\ UpTo(g, lines) /\ Before(g, b) /\ Rising(b) /\ UpTo(b, lines)
        /\ l \in 1..lines
        /\ \A i \in 1..Len(g) : g[i] < l
        /\ \A j \in 1..Len(b) : l < b[j]
    BY <1>0 DEF OrderInv, Ordered
  <2>2. Append(g, l) \in Seq(Nat) /\ Rising(Append(g, l))
    BY <1>0, <2>1, AppendRising
  <2>3. /\ got' \in [Clients -> Seq(Nat)] /\ got'[c] = Append(g, l)
        /\ \A d \in Clients \ {c} : got'[d] = got[d]
    BY <1>0, <1>4, <2>2
  <2>4. LinesTyped'
    BY <1>0, <1>2, <2>3 DEF LinesTyped
  <2>5. Ordered(c)'
    <3>1. l <= lines
      BY <1>0, <2>1
    <3>2. UpTo(Append(g, l), lines) /\ Before(Append(g, l), b)
      BY <1>0, <2>1, <3>1, AppendElements DEF UpTo, Before
    <3>3. QED
      BY <1>0, <1>2, <2>1, <2>2, <2>3, <3>2 DEF Ordered
  <2>6. \A d \in Clients \ {c} : Ordered(d)'
    BY <1>0, <1>2, <2>3, OrderKept
  <2>7. QED
    BY <2>4, <2>5, <2>6 DEF OrderInv
<1>5. QED
  BY <1>3, <1>4 DEF WriteLine

\* The steps that move no line.
LEMMA OtherOrder ==
  ASSUME OrderInv, NEW c \in Clients,
         Upgrade(c) \/ Handler(c) \/ BadMessage(c) \/ Tick(c) \/ WriteStats(c) \/ PeerMoves(c)
  PROVE  OrderInv'
<1>0. /\ chan \in [Clients -> [buf: Seq(Nat), closed: BOOLEAN]]
      /\ writer \in [Clients -> [pc: WriterPcs, line: Nat]]
      /\ got \in [Clients -> Seq(Nat)] /\ lines \in Nat
  BY DEF OrderInv, LinesTyped
<1>1. /\ lines' = lines /\ got' = got
      /\ \/ chan' = chan
         \/ chan' = [chan EXCEPT ![c].closed = @ \/ c \in ToSet(listeners)]
  BY DEF Upgrade, Handler, Subscribe, SendInitialStatus, SpawnWriter, ReadFails, BadMessage,
     WaitDone, Unsubscribe, RemoveConsoleListener, Tick, WriteStats, PeerMoves
<1>2. /\ chan' \in [Clients -> [buf: Seq(Nat), closed: BOOLEAN]]
      /\ \A d \in Clients : chan'[d].buf = chan[d].buf
  <2>1. CASE chan' = chan
    BY <1>0, <2>1
  <2>2. CASE chan' = [chan EXCEPT ![c].closed = @ \/ c \in ToSet(listeners)]
    <3> DEFINE b == chan[c].closed \/ c \in ToSet(listeners)
    <3> HIDE DEF b
    <3>0. b \in BOOLEAN /\ chan' = [chan EXCEPT ![c].closed = b]
      BY <2>2 DEF b
    <3>1. chan' = [chan EXCEPT ![c] = [chan[c] EXCEPT !.closed = b]]
      BY <3>0
    <3>2. chan[c] \in [buf: Seq(Nat), closed: BOOLEAN]
      BY <1>0
    <3>3. /\ [chan[c] EXCEPT !.closed = b] \in [buf: Seq(Nat), closed: BOOLEAN]
          /\ [chan[c] EXCEPT !.closed = b].buf = chan[c].buf
      BY <3>0, <3>2
    <3>4. QED
      BY <1>0, <3>1, <3>3
  <2>3. QED
    BY <1>1, <2>1, <2>2
<1>3. \/ writer' = writer
      \/ writer' = [writer EXCEPT ![c].pc = "select"]
      \/ writer' = [writer EXCEPT ![c] = [pc |-> "stats", line |-> 0]]
      \/ writer' = [writer EXCEPT ![c] = [pc |-> "select", line |-> 0]]
  BY DEF Upgrade, Handler, Subscribe, SendInitialStatus, SpawnWriter, ReadFails, BadMessage,
     WaitDone, Unsubscribe, Tick, WriteStats, PeerMoves, WriterGoto
<1>4. /\ writer' \in [Clients -> [pc: WriterPcs, line: Nat]]
      /\ \A d \in Clients : writer'[d].pc = "line" => writer'[d] = writer[d]
  <2>1. CASE writer' = writer
    BY <1>0, <2>1
  <2>2. ASSUME NEW pc \in WriterPcs \ {"line"}, NEW n \in Nat,
               writer' = [writer EXCEPT ![c] = [pc |-> pc, line |-> n]]
        PROVE  /\ writer' \in [Clients -> [pc: WriterPcs, line: Nat]]
               /\ \A d \in Clients : writer'[d].pc = "line" => writer'[d] = writer[d]
    BY <1>0, <2>2
  <2>3. CASE writer' = [writer EXCEPT ![c].pc = "select"]
    <3>1. /\ [writer[c] EXCEPT !.pc = "select"] = [pc |-> "select", line |-> writer[c].line]
          /\ writer[c].line \in Nat
      BY <1>0
    <3>2. writer' = [writer EXCEPT ![c] = [pc |-> "select", line |-> writer[c].line]]
      BY <2>3, <3>1
    <3>3. QED
      BY <2>2, <3>1, <3>2 DEF WriterPcs
  <2>4. QED
    BY <1>3, <2>1, <2>2, <2>3 DEF WriterPcs
<1>5. \A d \in Clients : Ordered(d)'
  BY <1>1, <1>2, <1>4, OrderKept
<1>6. QED
  BY <1>0, <1>1, <1>2, <1>4, <1>5 DEF OrderInv, LinesTyped

LEMMA OrderNext == OrderInv /\ [Next]_vars => OrderInv'
<1> SUFFICES ASSUME OrderInv, [Next]_vars PROVE OrderInv'
  OBVIOUS
<1>1. CASE UNCHANGED vars
  BY <1>1 DEF vars, OrderInv, LinesTyped, Ordered
<1>2. QED
  BY <1>1, BroadcastOrder, TakeOrder, WriteOrder, OtherOrder DEF Next, Writer

\* A client sees the lines in the order they were broadcast and none twice,
\* through AddConsoleListener, channel, writer and connection, whatever other
\* clients do (server.go:153-184, console.go:58-93).
THEOREM OrderCorrect == Spec => []InOrder
  BY OrderInit, OrderNext, OrderedInOrder, PTL DEF Spec

-----------------------------------------------------------------------------
(* The listeners                                                           *)

\* RemoveFirst, in a list that names nobody twice.
LEMMA RemoveFirstUnique ==
  ASSUME NEW S, NEW s \in Seq(S), NEW k \in 1..Len(s),
         \A i, j \in 1..Len(s) : i # j => s[i] # s[j]
  PROVE  /\ RemoveFirst(s, s[k]) \in Seq(S)
         /\ Len(RemoveFirst(s, s[k])) = Len(s) - 1
         /\ \A i \in 1..(Len(s) - 1) :
              RemoveFirst(s, s[k])[i] = IF i < k THEN s[i] ELSE s[i + 1]
<1>1. Len(s) \in Nat /\ k \in Nat /\ 1 <= k /\ k <= Len(s)
  OBVIOUS
<1>2. RemoveFirst(s, s[k]) = RemoveAt(s, k)
  <2>1. {i \in 1..Len(s) : s[i] = s[k]} = {k}
    OBVIOUS
  <2>2. Min({k}) = k
    BY <1>1 DEF Min
  <2>3. QED
    BY <2>1, <2>2 DEF RemoveFirst, SelectInSeq
<1> DEFINE p == SubSeq(s, 1, k - 1)
           q == SubSeq(s, k + 1, Len(s))
<1>3. \A i \in 1..Len(s) : s[i] \in S
  BY ElementOfSeq
<1>4. p \in Seq(S) /\ Len(p) = k - 1 /\ \A i \in 1..(k - 1) : p[i] = s[i]
  <2>1. 1 \in Int /\ k - 1 \in Int /\ \A i \in 1..(k - 1) : s[i] \in S
    BY <1>1, <1>3
  <2>2. /\ p \in Seq(S) /\ Len(p) = IF 1 <= k - 1 THEN (k - 1) - 1 + 1 ELSE 0
        /\ \A i \in 1..((k - 1) - 1 + 1) : p[i] = s[1 + i - 1]
    BY <2>1, SubSeqProperties
  <2>3. QED
    BY <1>1, <2>2
<1>5. q \in Seq(S) /\ Len(q) = Len(s) - k /\ \A i \in 1..(Len(s) - k) : q[i] = s[k + i]
  <2>1. k + 1 \in Int /\ Len(s) \in Int /\ \A i \in (k + 1)..Len(s) : s[i] \in S
    BY <1>1, <1>3
  <2>2. /\ q \in Seq(S)
        /\ Len(q) = IF k + 1 <= Len(s) THEN Len(s) - (k + 1) + 1 ELSE 0
        /\ \A i \in 1..(Len(s) - (k + 1) + 1) : q[i] = s[(k + 1) + i - 1]
    BY <2>1, SubSeqProperties
  <2>3. QED
    BY <1>1, <2>2
<1>6. /\ p \o q \in Seq(S) /\ Len(p \o q) = Len(p) + Len(q)
      /\ \A i \in 1..(Len(p) + Len(q)) :
           (p \o q)[i] = IF i <= Len(p) THEN p[i] ELSE q[i - Len(p)]
  BY ZenonT(60), <1>4, <1>5, ConcatProperties
<1>7. p \o q = RemoveAt(s, k)
  BY DEF RemoveAt
<1> HIDE DEF p, q
<1>8. Len(p) = k - 1 /\ Len(q) = Len(s) - k /\ Len(p) + Len(q) = Len(s) - 1
  BY <1>1, <1>4, <1>5
<1>9. ASSUME NEW i \in 1..(Len(s) - 1)
      PROVE  (p \o q)[i] = IF i < k THEN s[i] ELSE s[i + 1]
  <2>1. (p \o q)[i] = IF i <= k - 1 THEN p[i] ELSE q[i - (k - 1)]
    BY <1>6, <1>8
  <2>2. CASE i < k
    <3>1. i <= k - 1 /\ i \in 1..(k - 1)
      BY <1>1, <2>2
    <3>2. QED
      BY <1>4, <2>1, <2>2, <3>1
  <2>3. CASE ~(i < k)
    <3>1. ~(i <= k - 1) /\ i - (k - 1) \in 1..(Len(s) - k) /\ k + (i - (k - 1)) = i + 1
      BY <1>1, <2>3
    <3>2. QED
      BY <1>5, <2>1, <2>3, <3>1
  <2>4. QED
    BY <2>2, <2>3
<1>10. QED
  BY <1>2, <1>6, <1>7, <1>8, <1>9

\* There is a line in the hand of a writer that says so, or got would not be
\* typed after its next step.
HandTyped == \A c \in Clients : writer[c].pc = "line" => writer[c].line \in Lines

ConsoleInv == TypeOK /\ HandTyped /\ ListenersInv

LEMMA ConsoleInit == Init => ConsoleInv
<1> SUFFICES ASSUME Init PROVE ConsoleInv
  OBVIOUS
<1>1. /\ <<>> \in Seq(Clients) /\ <<>> \in Seq(Lines) /\ Len(<<>>) = 0
      /\ MaxLines \in Nat
  BY ConsoleAssumption
<1>2. TypeOK
  BY <1>1 DEF Init, TypeOK, HandlerPcs, WriterPcs
<1>3. ListenersInv
  BY <1>1 DEF Init, ListenersInv
<1>4. HandTyped
  BY DEF Init, HandTyped
<1>5. QED
  BY <1>2, <1>3, <1>4 DEF ConsoleInv

\* A step on one client's channel keeps the type if the new record is typed.
LEMMA ChanTyped ==
  ASSUME TypeOK, NEW c \in Clients, NEW b \in Seq(Lines), NEW closed \in BOOLEAN
  PROVE  [chan EXCEPT ![c] = [chan[c] EXCEPT !.buf = b, !.closed = closed]]
           \in [Clients -> [buf: Seq(Lines), closed: BOOLEAN]]
<1>1. chan[c] \in [buf: Seq(Lines), closed: BOOLEAN]
  BY DEF TypeOK
<1>2. [chan[c] EXCEPT !.buf = b, !.closed = closed] \in [buf: Seq(Lines), closed: BOOLEAN]
  BY <1>1
<1>3. QED
  BY <1>2 DEF TypeOK

LEMMA BroadcastConsoleInv ==
  ASSUME ConsoleInv, BroadcastConsole
  PROVE  ConsoleInv'
<1>0. /\ TypeOK /\ ListenersInv /\ MaxLines \in Nat
      /\ chan \in [Clients -> [buf: Seq(Lines), closed: BOOLEAN]]
  BY ConsoleAssumption DEF ConsoleInv, TypeOK
<1>1. /\ lines' = lines + 1 /\ lines' \in Lines /\ lines' \in 0..MaxLines
      /\ UNCHANGED <<listeners, handler, writer, conn, got>>
  BY <1>0 DEF BroadcastConsole, TypeOK, Lines
<1> DEFINE G(c) == IF c \in ToSet(listeners) /\ Len(chan[c].buf) < Cap
                     THEN [chan[c] EXCEPT !.buf = Append(chan[c].buf, lines')]
                     ELSE chan[c]
<1>2. chan' = [c \in Clients |-> G(c)]
  BY DEF BroadcastConsole
<1>3. ASSUME NEW c \in Clients
      PROVE  /\ G(c) \in [buf: Seq(Lines), closed: BOOLEAN]
             /\ G(c).closed = chan[c].closed
  <2>1. chan[c] \in [buf: Seq(Lines), closed: BOOLEAN]
    BY <1>0
  <2>2. Append(chan[c].buf, lines') \in Seq(Lines)
    BY <1>1, <2>1, AppendProperties
  <2>3. QED
    BY <2>1, <2>2
<1> HIDE DEF G
<1>4. /\ chan' \in [Clients -> [buf: Seq(Lines), closed: BOOLEAN]]
      /\ \A c \in Clients : chan'[c].closed = chan[c].closed
  BY <1>2, <1>3
<1>5. TypeOK'
  BY <1>0, <1>1, <1>4 DEF TypeOK
<1>6. ListenersInv'
  <2>1. \A i \in 1..Len(listeners) : listeners[i] \in Clients
    BY <1>0, ElementOfSeq DEF TypeOK
  <2>2. QED
    BY <1>0, <1>1, <1>4, <2>1 DEF ListenersInv
<1>7. HandTyped'
  BY <1>1 DEF ConsoleInv, HandTyped
<1>8. QED
  BY <1>5, <1>6, <1>7 DEF ConsoleInv

LEMMA SubscribeInv ==
  ASSUME ConsoleInv, NEW c \in Clients, Subscribe(c)
  PROVE  ConsoleInv'
<1>0. /\ TypeOK /\ ListenersInv /\ listeners \in Seq(Clients)
      /\ handler \in [Clients -> HandlerPcs]
  BY DEF ConsoleInv, TypeOK
<1>1. /\ handler[c] = "subscribe" /\ handler' = [handler EXCEPT ![c] = "status"]
      /\ listeners' = Append(listeners, c)
      /\ UNCHANGED <<chan, writer, conn, got, lines>>
  BY DEF Subscribe, HandlerGoto, AddConsoleListener
<1>2. /\ listeners' \in Seq(Clients) /\ Len(listeners') = Len(listeners) + 1
      /\ Len(listeners) \in Nat
      /\ \A i \in 1..Len(listeners) : listeners'[i] = listeners[i]
      /\ listeners'[Len(listeners) + 1] = c
  BY <1>0, <1>1, AppendProperties
<1>3. \A i \in 1..Len(listeners) : listeners[i] # c /\ listeners[i] \in Clients
  BY <1>0, <1>1, ElementOfSeq DEF ListenersInv
<1>4. handler' \in [Clients -> HandlerPcs]
  BY <1>0, <1>1 DEF HandlerPcs
<1>5. TypeOK'
  BY <1>0, <1>1, <1>2, <1>4 DEF TypeOK
<1>6. ListenersInv'
  <2>1. \A i \in 1..Len(listeners') : i \in 1..Len(listeners) \/ i = Len(listeners) + 1
    BY <1>2
  <2>2. ~chan[c].closed
    BY <1>0, <1>1 DEF ListenersInv
  <2>3. \A i \in 1..Len(listeners') :
          /\ handler'[listeners'[i]]
               \in {"status", "spawn", "read", "wait_done", "unsubscribe"}
          /\ ~chan'[listeners'[i]].closed
    BY <1>0, <1>1, <1>2, <1>3, <2>1, <2>2 DEF ListenersInv
  <2>4. \A i, j \in 1..Len(listeners') : i # j => listeners'[i] # listeners'[j]
    BY <1>0, <1>2, <1>3, <2>1 DEF ListenersInv
  <2>5. \A d \in Clients : handler'[d] \in {"none", "subscribe"} => ~chan'[d].closed
    BY <1>0, <1>1 DEF ListenersInv
  <2>6. QED
    BY <2>3, <2>4, <2>5 DEF ListenersInv
<1>7. HandTyped'
  BY <1>1 DEF ConsoleInv, HandTyped
<1>8. QED
  BY <1>5, <1>6, <1>7 DEF ConsoleInv

\* RemoveConsoleListener takes c out of the list and leaves the others.
LEMMA UnsubscribeKeeps ==
  ASSUME ConsoleInv, NEW c \in Clients, Unsubscribe(c)
  PROVE  /\ listeners' \in Seq(Clients)
         /\ \A i \in 1..Len(listeners') : \E m \in 1..Len(listeners) :
              listeners'[i] = listeners[m] /\ listeners[m] # c
         /\ \A i, j \in 1..Len(listeners') : i # j => listeners'[i] # listeners'[j]
         /\ \A m \in 1..Len(listeners) : listeners[m] # c =>
              \E i \in 1..Len(listeners') : listeners'[i] = listeners[m]
<1>0. /\ listeners \in Seq(Clients) /\ Len(listeners) \in Nat
      /\ listeners' = RemoveFirst(listeners, c)
      /\ \A i, j \in 1..Len(listeners) : i # j => listeners[i] # listeners[j]
  BY DEF ConsoleInv, TypeOK, ListenersInv, Unsubscribe, RemoveConsoleListener
<1>1. CASE \E k \in 1..Len(listeners) : listeners[k] = c
  <2>1. PICK k \in 1..Len(listeners) : listeners[k] = c
    BY <1>1
  <2>2. /\ listeners' \in Seq(Clients) /\ Len(listeners') = Len(listeners) - 1
        /\ \A i \in 1..(Len(listeners) - 1) :
             listeners'[i] = IF i < k THEN listeners[i] ELSE listeners[i + 1]
    BY <1>0, <2>1, RemoveFirstUnique
  <2> DEFINE At(i) == IF i < k THEN i ELSE i + 1
  <2>3. \A i \in 1..Len(listeners') : At(i) \in 1..Len(listeners) /\ At(i) # k
    BY <1>0, <2>2
  <2>4. \A i \in 1..Len(listeners') : listeners'[i] = listeners[At(i)]
    BY <2>2
  <2>5. \A i, j \in 1..Len(listeners') : i # j => At(i) # At(j)
    BY <1>0, <2>2
  <2> HIDE DEF At
  <2>6. ASSUME NEW i \in 1..Len(listeners')
        PROVE  \E m \in 1..Len(listeners) : listeners'[i] = listeners[m] /\ listeners[m] # c
    BY <1>0, <2>1, <2>3, <2>4
  <2>7. ASSUME NEW i \in 1..Len(listeners'), NEW j \in 1..Len(listeners'), i # j
        PROVE  listeners'[i] # listeners'[j]
    BY <1>0, <2>3, <2>4, <2>5, <2>7
  <2>8. ASSUME NEW m \in 1..Len(listeners), listeners[m] # c
        PROVE  \E i \in 1..Len(listeners') : listeners'[i] = listeners[m]
    <3>1. CASE m < k
      <4>1. m \in 1..(Len(listeners) - 1)
        BY <1>0, <3>1
      <4>2. QED
        BY <2>2, <3>1, <4>1
    <3>2. CASE ~(m < k)
      <4>1. m # k
        BY <2>1, <2>8
      <4>2. m - 1 \in 1..(Len(listeners) - 1) /\ ~(m - 1 < k) /\ (m - 1) + 1 = m
        BY <1>0, <3>2, <4>1
      <4>3. listeners'[m - 1] = listeners[m]
        BY <2>2, <4>2
      <4>4. QED
        BY <2>2, <4>2, <4>3
    <3>3. QED
      BY <3>1, <3>2
  <2>9. QED
    BY <2>2, <2>6, <2>7, <2>8
<1>2. CASE ~ \E k \in 1..Len(listeners) : listeners[k] = c
  <2>1. listeners' = listeners
    BY <1>0, <1>2 DEF RemoveFirst
  <2>2. QED
    BY <1>0, <1>2, <2>1
<1>3. QED
  BY <1>1, <1>2

LEMMA UnsubscribeInv ==
  ASSUME ConsoleInv, NEW c \in Clients, Unsubscribe(c)
  PROVE  ConsoleInv'
<1>0. /\ TypeOK /\ ListenersInv /\ listeners \in Seq(Clients) /\ Len(listeners) \in Nat
      /\ handler \in [Clients -> HandlerPcs]
      /\ chan \in [Clients -> [buf: Seq(Lines), closed: BOOLEAN]]
      /\ \A i \in 1..Len(listeners) : listeners[i] \in Clients
  BY ElementOfSeq DEF ConsoleInv, TypeOK
<1>1. /\ handler[c] = "unsubscribe" /\ handler' = [handler EXCEPT ![c] = "closed"]
      /\ listeners' = RemoveFirst(listeners, c)
      /\ UNCHANGED <<writer, conn, got, lines>>
  BY DEF Unsubscribe, HandlerGoto, RemoveConsoleListener
<1>2. PICK closed \in BOOLEAN :
        chan' = [chan EXCEPT ![c] = [chan[c] EXCEPT !.buf = chan[c].buf, !.closed = closed]]
  <2>1. chan[c] \in [buf: Seq(Lines), closed: BOOLEAN]
    BY <1>0
  <2> DEFINE closed == chan[c].closed \/ c \in ToSet(listeners)
  <2>2. chan' = [chan EXCEPT ![c].closed = closed]
    BY DEF Unsubscribe, RemoveConsoleListener
  <2>3. closed \in BOOLEAN
    OBVIOUS
  <2> HIDE DEF closed
  <2>4. [chan[c] EXCEPT !.buf = chan[c].buf, !.closed = closed]
          = [chan[c] EXCEPT !.closed = closed]
    BY <2>1
  <2>5. chan' = [chan EXCEPT ![c] = [chan[c] EXCEPT !.closed = closed]]
    BY <2>2
  <2>6. QED
    BY <2>3, <2>4, <2>5
<1>3. chan[c].buf \in Seq(Lines)
  BY <1>0
<1>4. chan' \in [Clients -> [buf: Seq(Lines), closed: BOOLEAN]]
  BY <1>0, <1>2, <1>3, ChanTyped
<1>5. /\ handler' \in [Clients -> HandlerPcs]
      /\ \A d \in Clients \ {c} : handler'[d] = handler[d] /\ chan'[d] = chan[d]
      /\ handler'[c] = "closed"
  BY <1>0, <1>1, <1>2 DEF HandlerPcs
<1>6. /\ listeners' \in Seq(Clients)
      /\ \A i \in 1..Len(listeners') : \E m \in 1..Len(listeners) :
           listeners'[i] = listeners[m] /\ listeners[m] # c
      /\ \A i, j \in 1..Len(listeners') : i # j => listeners'[i] # listeners'[j]
  BY UnsubscribeKeeps
<1>7. TypeOK'
  BY <1>0, <1>1, <1>4, <1>5, <1>6 DEF TypeOK
<1>8. ListenersInv'
  <2>1. \A i \in 1..Len(listeners') :
          /\ handler'[listeners'[i]]
               \in {"status", "spawn", "read", "wait_done", "unsubscribe"}
          /\ ~chan'[listeners'[i]].closed
    <3> TAKE i \in 1..Len(listeners')
    <3>1. PICK m \in 1..Len(listeners) : listeners'[i] = listeners[m] /\ listeners[m] # c
      BY <1>6
    <3>2. listeners[m] \in Clients \ {c}
      BY <1>0, <3>1
    <3>3. handler'[listeners[m]] = handler[listeners[m]] /\ chan'[listeners[m]] = chan[listeners[m]]
      BY <1>5, <3>2
    <3>4. QED
      BY <1>0, <3>1, <3>3 DEF ListenersInv
  <2>2. \A d \in Clients : handler'[d] \in {"none", "subscribe"} => ~chan'[d].closed
    BY <1>0, <1>5 DEF ListenersInv
  <2>3. QED
    BY <1>6, <2>1, <2>2 DEF ListenersInv
<1>9. HandTyped'
  BY <1>1 DEF ConsoleInv, HandTyped
<1>10. QED
  BY <1>7, <1>8, <1>9 DEF ConsoleInv

\* The other steps of a handler, and the peer's.
LEMMA HandlerConsoleInv ==
  ASSUME ConsoleInv, NEW c \in Clients,
         \/ Upgrade(c) \/ SendInitialStatus(c) \/ SpawnWriter(c) \/ ReadFails(c) \/ BadMessage(c)
         \/ WaitDone(c) \/ PeerMoves(c)
  PROVE  ConsoleInv'
<1>0. TypeOK /\ ListenersInv /\ \A i \in 1..Len(listeners) : listeners[i] \in Clients
  BY ElementOfSeq DEF ConsoleInv, TypeOK
<1>1. UNCHANGED <<listeners, chan, got, lines>>
  BY DEF Upgrade, SendInitialStatus, SpawnWriter, ReadFails, BadMessage, WaitDone, PeerMoves
<1>2. conn' \in [Clients -> {"none", "reading", "stalled", "left", "reset"}]
  BY <1>0 DEF TypeOK, Upgrade, SendInitialStatus, SpawnWriter, ReadFails, BadMessage, WaitDone, PeerMoves
<1>3. writer' \in [Clients -> [pc: WriterPcs, line: 0..MaxLines]] /\ HandTyped'
  <2>0. HandTyped
    BY DEF ConsoleInv
  <2>1. writer \in [Clients -> [pc: WriterPcs, line: 0..MaxLines]]
    BY <1>0 DEF TypeOK
  <2>2. writer' = writer \/ writer' = [writer EXCEPT ![c].pc = "select"]
    BY DEF Upgrade, SendInitialStatus, SpawnWriter, ReadFails, BadMessage, WaitDone, PeerMoves
  <2>3. CASE writer' = [writer EXCEPT ![c].pc = "select"]
    <3>1. writer' = [writer EXCEPT ![c] = [writer[c] EXCEPT !.pc = "select"]]
      BY <2>3
    <3>2. /\ [writer[c] EXCEPT !.pc = "select"] \in [pc: WriterPcs, line: 0..MaxLines]
          /\ [writer[c] EXCEPT !.pc = "select"].pc = "select"
      BY <2>1 DEF WriterPcs
    <3>3. QED
      BY <2>0, <2>1, <3>1, <3>2 DEF HandTyped
  <2>4. CASE writer' = writer
    BY <2>0, <2>1, <2>4 DEF HandTyped
  <2>5. QED
    BY <2>2, <2>3, <2>4
<1>4. /\ handler' \in [Clients -> HandlerPcs]
      /\ \A d \in Clients : \/ handler'[d] = handler[d]
                            \/ /\ handler[d] = "none" /\ handler'[d] = "subscribe"
                            \/ /\ handler[d] \in {"status", "spawn", "read", "wait_done"}
                               /\ handler'[d] \in {"spawn", "read", "wait_done", "unsubscribe"}
  <2>1. handler \in [Clients -> HandlerPcs]
    BY <1>0 DEF TypeOK
  <2>2. CASE PeerMoves(c)
    BY <2>1, <2>2 DEF PeerMoves
  <2>3. CASE Upgrade(c)
    BY <2>1, <2>3 DEF Upgrade, HandlerGoto, HandlerPcs
  <2>4. CASE SendInitialStatus(c) \/ SpawnWriter(c) \/ ReadFails(c) \/ BadMessage(c) \/ WaitDone(c)
    BY <2>1, <2>4 DEF SendInitialStatus, SpawnWriter, ReadFails, BadMessage, WaitDone, HandlerGoto, HandlerPcs
  <2>5. QED
    BY <2>2, <2>3, <2>4
<1>5. TypeOK'
  BY <1>0, <1>1, <1>2, <1>3, <1>4 DEF TypeOK
<1>6. ListenersInv'
  BY <1>0, <1>1, <1>4 DEF ListenersInv
<1>7. QED
  BY <1>3, <1>5, <1>6 DEF ConsoleInv

LEMMA WriterConsoleInv ==
  ASSUME ConsoleInv, NEW c \in Clients, Writer(c)
  PROVE  ConsoleInv'
<1>0. /\ TypeOK /\ ListenersInv /\ MaxLines \in Nat
      /\ \A i \in 1..Len(listeners) : listeners[i] \in Clients
      /\ chan \in [Clients -> [buf: Seq(Lines), closed: BOOLEAN]]
      /\ writer \in [Clients -> [pc: WriterPcs, line: 0..MaxLines]]
      /\ conn \in [Clients -> {"none", "reading", "stalled", "left", "reset"}]
      /\ got \in [Clients -> Seq(Lines)]
  BY ElementOfSeq, ConsoleAssumption DEF ConsoleInv, TypeOK
<1>1. UNCHANGED <<listeners, handler, lines>>
  BY DEF Writer, TakeLine, WriteLine, Tick, WriteStats
<1>2. ASSUME \A d \in Clients : chan'[d].closed = chan[d].closed
      PROVE  ListenersInv'
  BY <1>0, <1>1, <1>2 DEF ListenersInv
<1>3. CASE TakeLine(c)
  <2> DEFINE b == chan[c].buf
  <2>1. /\ b \in Seq(Lines) /\ b # <<>> /\ UNCHANGED <<conn, got>>
        /\ chan' = [chan EXCEPT ![c].buf = Tail(b)]
        /\ writer' = [writer EXCEPT ![c] = [pc |-> "line", line |-> Head(b)]]
    BY <1>0, <1>3 DEF TakeLine
  <2>2. Head(b) \in Lines /\ Tail(b) \in Seq(Lines)
    BY <2>1, HeadTailProperties
  <2>3. Head(b) \in 0..MaxLines
    BY <1>0, <2>2 DEF Lines
  <2> HIDE DEF b
  <2>4. /\ [chan[c] EXCEPT !.buf = Tail(b)] \in [buf: Seq(Lines), closed: BOOLEAN]
        /\ [chan[c] EXCEPT !.buf = Tail(b)].closed = chan[c].closed
    BY <1>0, <2>2
  <2>5. chan' = [chan EXCEPT ![c] = [chan[c] EXCEPT !.buf = Tail(b)]]
    BY <2>1
  <2>6. /\ chan' \in [Clients -> [buf: Seq(Lines), closed: BOOLEAN]]
        /\ \A d \in Clients : chan'[d].closed = chan[d].closed
    BY <1>0, <2>4, <2>5
  <2>7. writer' \in [Clients -> [pc: WriterPcs, line: 0..MaxLines]]
    BY <1>0, <2>1, <2>3 DEF WriterPcs
  <2>8. TypeOK'
    BY <1>0, <1>1, <2>1, <2>6, <2>7 DEF TypeOK
  <2>9. HandTyped'
    BY <1>0, <2>1, <2>2 DEF ConsoleInv, HandTyped
  <2>10. QED
    BY <1>2, <2>6, <2>8, <2>9 DEF ConsoleInv
<1>4. CASE WriteLine(c) \/ Tick(c) \/ WriteStats(c)
  <2>1. PICK pc \in {"select", "stats", "done"} :
          writer' = [writer EXCEPT ![c] = [pc |-> pc, line |-> 0]]
    BY <1>4 DEF WriteLine, Tick, WriteStats, WriterGoto
  <2>2. writer' \in [Clients -> [pc: WriterPcs, line: 0..MaxLines]]
    BY <1>0, <2>1 DEF WriterPcs
  <2>3. conn' \in [Clients -> {"none", "reading", "stalled", "left", "reset"}]
    BY <1>0, <1>4 DEF WriteLine, Tick, WriteStats
  <2>4. got' \in [Clients -> Seq(Lines)]
    <3>1. CASE got' = got
      BY <1>0, <3>1
    <3>2. CASE writer[c].pc = "line" /\ got' = [got EXCEPT ![c] = Append(got[c], writer[c].line)]
      <4>1. writer[c].line \in Lines /\ got[c] \in Seq(Lines)
        BY <1>0, <3>2 DEF ConsoleInv, HandTyped
      <4>2. Append(got[c], writer[c].line) \in Seq(Lines)
        BY <4>1, AppendProperties
      <4>3. QED
        BY <1>0, <3>2, <4>2
    <3>3. QED
      BY <1>4, <3>1, <3>2 DEF WriteLine, Tick, WriteStats
  <2>5. chan' = chan
    BY <1>4 DEF WriteLine, Tick, WriteStats
  <2>6. TypeOK'
    BY <1>0, <1>1, <2>2, <2>3, <2>4, <2>5 DEF TypeOK
  <2>7. HandTyped'
    BY <1>0, <2>1 DEF ConsoleInv, HandTyped
  <2>8. QED
    BY <1>2, <2>5, <2>6, <2>7 DEF ConsoleInv
<1>5. QED
  BY <1>3, <1>4 DEF Writer

LEMMA ConsoleNext == ConsoleInv /\ [Next]_vars => ConsoleInv'
<1> SUFFICES ASSUME ConsoleInv, [Next]_vars PROVE ConsoleInv'
  OBVIOUS
<1>1. CASE UNCHANGED vars
  BY <1>1 DEF vars, ConsoleInv, TypeOK, HandTyped, ListenersInv
<1>2. CASE BroadcastConsole
  BY <1>2, BroadcastConsoleInv
<1>3. ASSUME NEW c \in Clients, Upgrade(c) \/ Handler(c) \/ BadMessage(c) \/ PeerMoves(c)
      PROVE  ConsoleInv'
  BY <1>3, SubscribeInv, UnsubscribeInv, HandlerConsoleInv DEF Handler
<1>4. QED
  BY <1>1, <1>2, <1>3, WriterConsoleInv DEF Next

LEMMA ConsoleInvariant == Spec => []ConsoleInv
  BY ConsoleInit, ConsoleNext, PTL DEF Spec

\* The state of listeners, channels, handlers, writers and connections is well
\* typed, whatever clients do (server.go:152-184, console.go:42-105).
THEOREM TypeCorrect == Spec => []TypeOK
  BY ConsoleInvariant, PTL DEF ConsoleInv

\* BroadcastConsole never sends on a closed channel and RemoveConsoleListener
\* never closes one twice, whoever subscribes and leaves (server.go:161-184).
THEOREM ListenersCorrect == Spec => []ListenersOpen
<1>1. ConsoleInv => ListenersOpen
  BY DEF ConsoleInv, ListenersInv, ListenersOpen
<1>2. QED
  BY <1>1, ConsoleInvariant, PTL

-----------------------------------------------------------------------------
(* Nothing is lost while a channel has room for every line                 *)

\* The lists have what ToSet and Pipeline say they have.
LEMMA PipelineCarries ==
  ASSUME LinesTyped, NEW c \in Clients, NEW n
  PROVE  n \in ToSet(Pipeline(c)) <=> Carried(c, n)
<1> DEFINE g == got[c]
           b == chan[c].buf
           h == IF writer[c].pc = "line" THEN <<writer[c].line>> ELSE <<>>
<1>1. g \in Seq(Nat) /\ b \in Seq(Nat) /\ h \in Seq(Nat)
  BY DEF LinesTyped
<1>2. \A i \in 1..Len(h) : writer[c].pc = "line" /\ h[i] = writer[c].line
  OBVIOUS
<1>3. writer[c].pc = "line" => 1 \in 1..Len(h) /\ h[1] = writer[c].line
  OBVIOUS
<1> HIDE DEF h, g, b
<1>4. (g \o h) \in Seq(Nat) /\ ToSet(g \o h) = ToSet(g) \cup ToSet(h)
  BY <1>1, ConcatElements
<1>5. ToSet((g \o h) \o b) = ToSet(g \o h) \cup ToSet(b)
  BY <1>1, <1>4, ConcatElements
<1>6. Pipeline(c) = (g \o h) \o b
  BY DEF Pipeline, Hand, g, h, b
<1>7. n \in ToSet(h) <=> writer[c].pc = "line" /\ writer[c].line = n
  BY <1>1, <1>2, <1>3, SeqDomain DEF ToSet
<1>8. /\ n \in ToSet(g) <=> \E i \in 1..Len(g) : g[i] = n
      /\ n \in ToSet(b) <=> \E i \in 1..Len(b) : b[i] = n
  BY <1>1, SeqDomain DEF ToSet
<1>9. QED
  BY <1>4, <1>5, <1>6, <1>7, <1>8 DEF Carried, g, b

LEMMA LostInit == Init => LostInv
<1> SUFFICES ASSUME Init PROVE LostInv
  OBVIOUS
<1>1. Len(<<>>) = 0
  OBVIOUS
<1>2. QED
  BY <1>1 DEF Init, LostInv

\* A client whose lines stay where they are, or move within what it carries.
LEMMA GaplessKept ==
  ASSUME NEW c \in Clients, Gapless(c), lines' = lines,
         conn'[c] \in {"reading", "stalled"} => conn[c] \in {"reading", "stalled"},
         conn'[c] \in {"reading", "stalled"} => \A n \in 1..lines : Carried(c, n)' <=> Carried(c, n)
  PROVE  Gapless(c)'
  BY DEF Gapless

\* A broadcast gives its line to every channel that has room.
LEMMA BroadcastLost ==
  ASSUME ConsoleInv, LostInv, BroadcastConsole
  PROVE  LostInv'
<1>0. /\ chan \in [Clients -> [buf: Seq(Lines), closed: BOOLEAN]]
      /\ lines \in Nat /\ Cap \in Nat
      /\ listeners \in Seq(Clients)
      /\ \A i \in 1..Len(listeners) : listeners[i] \in Clients
  BY ConsoleAssumption, ElementOfSeq DEF ConsoleInv, TypeOK
<1>1. lines' = lines + 1 /\ UNCHANGED <<listeners, handler, writer, conn, got>>
  BY DEF BroadcastConsole
<1> DEFINE G(c) == IF c \in ToSet(listeners) /\ Len(chan[c].buf) < Cap
                     THEN [chan[c] EXCEPT !.buf = Append(chan[c].buf, lines')]
                     ELSE chan[c]
<1>2. chan' = [c \in Clients |-> G(c)]
  BY DEF BroadcastConsole
\* What a channel holds after the broadcast.
<1>3. ASSUME NEW c \in Clients
      PROVE  \/ chan'[c] = chan[c] /\ ~(c \in ToSet(listeners) /\ Len(chan[c].buf) < Cap)
             \/ chan'[c].buf = Append(chan[c].buf, lines') /\ c \in ToSet(listeners)
  <2>1. chan[c] \in [buf: Seq(Lines), closed: BOOLEAN]
    BY <1>0
  <2>2. chan'[c] = G(c)
    BY <1>2
  <2>3. QED
    BY <2>1, <2>2
<1> HIDE DEF G
<1>4. \A i \in 1..Len(listeners) : listeners[i] \in ToSet(listeners)
  BY <1>0, SeqDomain DEF ToSet
<1>5. \A c \in ToSet(listeners) : handler[c] \notin {"none", "subscribe"}
  BY <1>0, SeqDomain DEF ToSet, ConsoleInv, ListenersInv
<1>6. ASSUME NEW c \in Clients
      PROVE  /\ Len(chan'[c].buf) <= lines'
             /\ handler'[c] \in {"none", "subscribe"} => got'[c] = <<>> /\ chan'[c].buf = <<>>
             /\ handler'[c] \in {"none", "subscribe", "status", "spawn"} => writer'[c].pc = "none"
  <2>1. chan[c].buf \in Seq(Lines) /\ Len(chan[c].buf) \in Nat /\ Len(chan[c].buf) <= lines
    BY <1>0 DEF LostInv
  <2>2. Len(Append(chan[c].buf, lines')) = Len(chan[c].buf) + 1
    BY <2>1, AppendProperties
  <2>3. Len(chan'[c].buf) <= lines'
    BY SMTT(40), <1>0, <1>1, <1>3, <2>1, <2>2
  <2>4. QED
    BY <1>1, <1>3, <1>5, <2>3 DEF LostInv
<1>7. ASSUME NEW c \in Clients, NEW i \in 1..Len(listeners), listeners[i] = c
      PROVE  Gapless(c)'
  <2> DEFINE b == chan[c].buf
  <2>0. c \in Clients /\ c \in ToSet(listeners) /\ Gapless(c)
    BY <1>4, <1>7 DEF LostInv
  <2> SUFFICES ASSUME lines' <= Cap, conn'[c] \in {"reading", "stalled"},
                      NEW m \in 1..lines', NEW n \in 1..lines', Carried(c, m)', m < n
               PROVE  Carried(c, n)'
    BY <1>1 DEF Gapless
  <2>1. b \in Seq(Lines) /\ Len(b) \in Nat /\ Len(b) < Cap
    <3>1. b \in Seq(Lines) /\ Len(b) \in Nat /\ Len(b) <= lines
      BY <1>0, <2>0 DEF LostInv
    <3>2. QED
      BY <1>0, <1>1, <3>1
  <2>2. chan'[c].buf = Append(b, lines')
    BY <1>3, <2>0, <2>1
  <2>3. /\ Len(chan'[c].buf) = Len(b) + 1
        /\ \A k \in 1..Len(b) : chan'[c].buf[k] = b[k]
        /\ chan'[c].buf[Len(b) + 1] = lines'
    BY <2>1, <2>2, AppendProperties
  <2>4. \A k \in 1..Len(chan'[c].buf) : k \in 1..Len(b) \/ k = Len(b) + 1
    BY <2>1, <2>3
  <2>5. \A k \in 1..Len(b) : k \in 1..Len(chan'[c].buf)
    BY <2>1, <2>3
  <2>6. Len(b) + 1 \in 1..Len(chan'[c].buf)
    BY <2>1, <2>3
  <2> HIDE DEF b
  <2>7. CASE n = lines'
    BY <2>3, <2>6, <2>7 DEF Carried
  <2>8. CASE n # lines'
    <3>1. m \in 1..lines /\ n \in 1..lines /\ m # lines'
      BY <1>0, <1>1, <2>8
    <3>2. Carried(c, m)
      BY <1>1, <2>3, <2>4, <3>1 DEF Carried, b
    <3>3. lines <= Cap /\ conn[c] \in {"reading", "stalled"}
      BY <1>0, <1>1
    <3>4. Carried(c, n)
      BY <2>0, <3>1, <3>2, <3>3 DEF Gapless
    <3>5. QED
      BY <1>1, <2>3, <2>5, <3>4 DEF Carried, b
  <2>9. QED
    BY <2>7, <2>8
<1>8. QED
  BY <1>0, <1>1, <1>6, <1>7 DEF LostInv

\* The steps of one client, in three kinds: those that move no line,
LEMMA StillLost ==
  ASSUME ConsoleInv, LostInv, NEW c \in Clients,
         \/ Upgrade(c) \/ Subscribe(c) \/ SendInitialStatus(c) \/ SpawnWriter(c)
         \/ ReadFails(c) \/ BadMessage(c) \/ WaitDone(c) \/ Unsubscribe(c) \/ PeerMoves(c)
         \/ Tick(c) \/ WriteStats(c)
  PROVE  LostInv'
<1>0. /\ chan \in [Clients -> [buf: Seq(Lines), closed: BOOLEAN]]
      /\ writer \in [Clients -> [pc: WriterPcs, line: 0..MaxLines]]
      /\ handler \in [Clients -> HandlerPcs]
      /\ conn \in [Clients -> {"none", "reading", "stalled", "left", "reset"}]
      /\ listeners \in Seq(Clients) /\ lines \in Nat /\ MaxLines \in Nat
      /\ \A i \in 1..Len(listeners) : listeners[i] \in Clients
  BY ConsoleAssumption, ElementOfSeq DEF ConsoleInv, TypeOK
<1>1. UNCHANGED <<got, lines>>
  BY DEF Upgrade, Subscribe, SendInitialStatus, SpawnWriter, ReadFails, BadMessage, WaitDone,
     Unsubscribe, PeerMoves, Tick, WriteStats
<1>2. \A d \in Clients : chan'[d].buf = chan[d].buf
  <2>1. CASE chan' = chan
    BY <2>1
  <2>2. CASE Unsubscribe(c)
    <3> DEFINE closed == chan[c].closed \/ c \in ToSet(listeners)
    <3>1. chan' = [chan EXCEPT ![c].closed = closed]
      BY <2>2 DEF Unsubscribe, RemoveConsoleListener
    <3> HIDE DEF closed
    <3>2. chan' = [chan EXCEPT ![c] = [chan[c] EXCEPT !.closed = closed]]
      BY <3>1
    <3>3. [chan[c] EXCEPT !.closed = closed].buf = chan[c].buf
      BY <1>0
    <3>4. QED
      BY <1>0, <3>2, <3>3
  <2>3. QED
    BY <2>1, <2>2 DEF Upgrade, Subscribe, SendInitialStatus, SpawnWriter, ReadFails, BadMessage,
       WaitDone, PeerMoves, Tick, WriteStats
\* What a writer holds stays in its hand.
<1>3. \A d \in Clients :
        (writer'[d].pc = "line" <=> writer[d].pc = "line")
          /\ (writer[d].pc = "line" => writer'[d].line = writer[d].line)
  <2>1. CASE writer' = writer
    BY <2>1
  <2>2. CASE SpawnWriter(c)
    <3>1. writer[c].pc = "none"
      BY <2>2 DEF LostInv, SpawnWriter, HandlerGoto
    <3>2. writer' = [writer EXCEPT ![c] = [writer[c] EXCEPT !.pc = "select"]]
      BY <2>2 DEF SpawnWriter
    <3>3. [writer[c] EXCEPT !.pc = "select"].pc = "select"
      BY <1>0
    <3>4. QED
      BY <1>0, <3>1, <3>2, <3>3
  <2>3. CASE Tick(c) \/ WriteStats(c)
    <3>1. PICK pc \in {"select", "stats"} : writer' = [writer EXCEPT ![c] = [pc |-> pc, line |-> 0]]
      BY <2>3 DEF Tick, WriteStats, WriterGoto
    <3>2. writer[c].pc # "line"
      BY <2>3 DEF Tick, WriteStats
    <3>3. QED
      BY <1>0, <3>1, <3>2
  <2>4. QED
    BY <2>1, <2>2, <2>3 DEF Upgrade, Subscribe, SendInitialStatus, ReadFails, BadMessage,
       WaitDone, Unsubscribe, PeerMoves
<1>4. \A d \in Clients : \A n : Carried(d, n)' <=> Carried(d, n)
  BY <1>1, <1>2, <1>3 DEF Carried
\* Nobody comes back, and who comes has nothing under way.
<1>5. \A d \in Clients :
        /\ conn'[d] \in {"reading", "stalled"} =>
             conn[d] \in {"reading", "stalled"} \/ handler[d] = "none"
  <2>1. CASE Upgrade(c)
    BY <1>0, <2>1 DEF Upgrade, HandlerGoto
  <2>2. CASE ~Upgrade(c)
    BY <1>0, <2>2 DEF Subscribe, SendInitialStatus, SpawnWriter, ReadFails, BadMessage, WaitDone,
       Unsubscribe, PeerMoves, Tick, WriteStats
  <2>3. QED
    BY <2>1, <2>2
<1>6. ASSUME NEW d \in Clients, NEW i \in 1..Len(listeners'), listeners'[i] = d
      PROVE  Gapless(d)'
  <2>1. CASE Subscribe(c)
    <3>1. /\ listeners' = Append(listeners, c) /\ handler[c] = "subscribe"
          /\ UNCHANGED conn
      BY <2>1 DEF Subscribe, HandlerGoto, AddConsoleListener
    <3>2. /\ Len(listeners') = Len(listeners) + 1 /\ Len(listeners) \in Nat
          /\ \A k \in 1..Len(listeners) : listeners'[k] = listeners[k]
          /\ listeners'[Len(listeners) + 1] = c
      BY <1>0, <3>1, AppendProperties
    <3>3. CASE i \in 1..Len(listeners)
      <4>1. Gapless(d)
        BY <1>6, <3>2, <3>3 DEF LostInv
      <4>2. QED
        BY <1>1, <1>4, <3>1, <4>1, GaplessKept
    <3>4. CASE i = Len(listeners) + 1
      <4>1. d = c
        BY <1>6, <3>2, <3>4
      <4>2. \A n : ~Carried(c, n)
        <5>1. got[c] = <<>> /\ chan[c].buf = <<>> /\ writer[c].pc = "none"
          BY <3>1 DEF LostInv
        <5>2. QED
          BY <5>1 DEF Carried
      <4>3. QED
        BY <1>1, <1>4, <4>1, <4>2 DEF Gapless
    <3>5. QED
      BY <3>2, <3>3, <3>4
  <2>2. CASE ~Subscribe(c)
    <3>1. PICK k \in 1..Len(listeners) : d = listeners[k]
      <4>1. CASE listeners' = listeners
        BY <1>6, <4>1
      <4>2. CASE Unsubscribe(c)
        BY <1>6, <4>2, UnsubscribeKeeps
      <4>3. QED
        BY <2>2, <4>1, <4>2 DEF Upgrade, SendInitialStatus, SpawnWriter, ReadFails, BadMessage,
           WaitDone, PeerMoves, Tick, WriteStats
    <3>2. Gapless(d) /\ handler[d] # "none"
      BY <3>1 DEF LostInv, ConsoleInv, ListenersInv
    <3>3. conn'[d] \in {"reading", "stalled"} => conn[d] \in {"reading", "stalled"}
      BY <1>5, <3>2
    <3>4. QED
      BY <1>1, <1>4, <3>2, <3>3, GaplessKept
  <2>3. QED
    BY <2>1, <2>2
<1>7. ASSUME NEW d \in Clients
      PROVE  /\ handler'[d] \in {"none", "subscribe"} => handler[d] \in {"none", "subscribe"}
             /\ handler'[d] \in {"none", "subscribe", "status", "spawn"} =>
                  /\ handler[d] \in {"none", "subscribe", "status", "spawn"}
                  /\ writer'[d] = writer[d]
  <2>1. CASE Upgrade(c) \/ Subscribe(c) \/ SendInitialStatus(c)
    BY <1>0, <2>1 DEF Upgrade, Subscribe, SendInitialStatus, HandlerGoto
  <2>2. CASE SpawnWriter(c) \/ ReadFails(c) \/ BadMessage(c) \/ WaitDone(c) \/ Unsubscribe(c)
    <3>1. PICK pc \in {"read", "wait_done", "unsubscribe", "closed"} :
            handler' = [handler EXCEPT ![c] = pc]
      BY <2>2 DEF SpawnWriter, ReadFails, BadMessage, WaitDone, Unsubscribe, HandlerGoto
    <3>2. \A e \in Clients \ {c} : writer'[e] = writer[e]
      BY <1>0, <2>2 DEF SpawnWriter, ReadFails, BadMessage, WaitDone, Unsubscribe
    <3>3. QED
      BY <1>0, <3>1, <3>2
  <2>3. CASE PeerMoves(c)
    BY <2>3 DEF PeerMoves
  <2>4. CASE Tick(c) \/ WriteStats(c)
    <3>1. handler' = handler /\ writer[c].pc \in {"select", "stats"}
      BY <2>4 DEF Tick, WriteStats
    <3>2. handler[c] \notin {"none", "subscribe", "status", "spawn"}
      BY <3>1 DEF LostInv
    <3>3. \A e \in Clients \ {c} : writer'[e] = writer[e]
      BY <1>0, <2>4 DEF Tick, WriteStats, WriterGoto
    <3>4. QED
      BY <3>1, <3>2, <3>3
  <2>5. QED
    BY <2>1, <2>2, <2>3, <2>4
<1>8. /\ listeners' \in Seq(Clients)
      /\ \A i \in 1..Len(listeners') : listeners'[i] \in Clients
  <2>1. TypeOK'
    BY ConsoleNext DEF ConsoleInv, Next, Handler, Writer
  <2>2. QED
    BY <2>1, ElementOfSeq DEF TypeOK
<1>9. \A i \in 1..Len(listeners') : Gapless(listeners[i])'
  BY <1>6, <1>8
<1>10. ASSUME NEW d \in Clients
       PROVE  /\ handler'[d] \in {"none", "subscribe"} => got'[d] = <<>> /\ chan'[d].buf = <<>>
              /\ handler'[d] \in {"none", "subscribe", "status", "spawn"} => writer'[d].pc = "none"
              /\ Len(chan'[d].buf) <= lines'
  BY <1>1, <1>2, <1>7 DEF LostInv
<1>11. QED
  BY <1>9, <1>10 DEF LostInv

\* and those that move one on its way.
LEMMA MovesLost ==
  ASSUME ConsoleInv, LostInv, NEW c \in Clients, TakeLine(c) \/ WriteLine(c)
  PROVE  LostInv'
<1>0. /\ chan \in [Clients -> [buf: Seq(Lines), closed: BOOLEAN]]
      /\ writer \in [Clients -> [pc: WriterPcs, line: 0..MaxLines]]
      /\ conn \in [Clients -> {"none", "reading", "stalled", "left", "reset"}]
      /\ got \in [Clients -> Seq(Lines)]
      /\ listeners \in Seq(Clients) /\ lines \in Nat
      /\ \A i \in 1..Len(listeners) : listeners[i] \in Clients
  BY ConsoleAssumption, ElementOfSeq DEF ConsoleInv, TypeOK
<1>1. UNCHANGED <<listeners, handler, lines>> /\ writer[c].pc # "none"
  BY DEF TakeLine, WriteLine
<1>2. handler[c] \notin {"none", "subscribe", "status", "spawn"}
  BY <1>1 DEF LostInv
<1>3. \A d \in Clients \ {c} : /\ chan'[d] = chan[d] /\ writer'[d] = writer[d]
                               /\ got'[d] = got[d] /\ conn'[d] = conn[d]
  BY <1>0 DEF TakeLine, WriteLine, WriterGoto
<1>4. ASSUME NEW n, conn'[c] \in {"reading", "stalled"}
      PROVE  (Carried(c, n)' <=> Carried(c, n)) /\ conn[c] \in {"reading", "stalled"}
  <2>1. CASE TakeLine(c)
    <3> DEFINE b == chan[c].buf
    <3>1. /\ b \in Seq(Lines) /\ b # <<>> /\ writer[c].pc = "select" /\ UNCHANGED <<got, conn>>
          /\ writer' = [writer EXCEPT ![c] = [pc |-> "line", line |-> Head(b)]]
          /\ chan' = [chan EXCEPT ![c].buf = Tail(b)]
      BY <1>0, <2>1 DEF TakeLine
    <3>2. chan' = [chan EXCEPT ![c] = [chan[c] EXCEPT !.buf = Tail(b)]]
      BY <3>1
    <3>3. [chan[c] EXCEPT !.buf = Tail(b)].buf = Tail(b)
      BY <1>0
    <3>4. chan'[c].buf = Tail(b) /\ writer'[c] = [pc |-> "line", line |-> Head(b)]
      BY <1>0, <3>1, <3>2, <3>3
    <3>5. (\E i \in 1..Len(b) : b[i] = n) <=> (n = Head(b) \/ \E i \in 1..Len(Tail(b)) : Tail(b)[i] = n)
      <4>1. \A s \in Seq(Lines) : s # <<>> =>
              ((\E i \in 1..Len(s) : s[i] = n) <=> (n = Head(s) \/ \E i \in 1..Len(Tail(s)) : Tail(s)[i] = n))
        BY HeadTailElements
      <4> HIDE DEF b
      <4>2. QED
        BY <3>1, <4>1
    <3> HIDE DEF b
    <3>6. QED
      BY <1>4, <3>1, <3>4, <3>5 DEF Carried, b
  <2>2. CASE WriteLine(c)
    <3>1. /\ conn[c] = "reading" /\ UNCHANGED conn /\ chan' = chan /\ writer[c].pc = "line"
          /\ got' = [got EXCEPT ![c] = Append(got[c], writer[c].line)]
          /\ writer' = [writer EXCEPT ![c] = [pc |-> "select", line |-> 0]]
      BY <1>0, <1>4, <2>2 DEF WriteLine, WriterGoto
    <3>2. got'[c] = Append(got[c], writer[c].line) /\ writer'[c].pc = "select"
      BY <1>0, <3>1
    <3>3. (\E i \in 1..Len(got'[c]) : got'[c][i] = n)
             <=> (n = writer[c].line \/ \E i \in 1..Len(got[c]) : got[c][i] = n)
      <4>1. got[c] \in Seq(Lines)
        BY <1>0
      <4>2. QED
        BY <3>2, <4>1, AppendSet
    <3>4. QED
      BY <1>4, <3>1, <3>2, <3>3 DEF Carried
  <2>3. QED
    BY <2>1, <2>2
<1>5. ASSUME NEW d \in Clients, NEW i \in 1..Len(listeners), listeners[i] = d
      PROVE  Gapless(d)'
  <2>1. Gapless(d)
    BY <1>5 DEF LostInv
  <2>2. CASE d = c
    BY <1>1, <1>4, <2>1, <2>2, GaplessKept
  <2>3. CASE d # c
    <3>1. \A n : Carried(d, n)' <=> Carried(d, n)
      BY <1>3, <2>3 DEF Carried
    <3>2. conn'[d] = conn[d]
      BY <1>3, <2>3
    <3>3. QED
      BY <1>1, <2>1, <3>1, <3>2, GaplessKept
  <2>4. QED
    BY <2>2, <2>3
<1>6. Len(chan'[c].buf) <= lines
  <2>1. chan[c].buf \in Seq(Lines) /\ Len(chan[c].buf) \in Nat /\ Len(chan[c].buf) <= lines
    BY <1>0 DEF LostInv
  <2>2. CASE TakeLine(c)
    <3>1. /\ chan' = [chan EXCEPT ![c] = [chan[c] EXCEPT !.buf = Tail(chan[c].buf)]]
          /\ chan[c].buf # <<>>
      BY <2>2 DEF TakeLine
    <3>2. chan'[c].buf = Tail(chan[c].buf)
      BY <1>0, <3>1
    <3>3. Len(Tail(chan[c].buf)) = Len(chan[c].buf) - 1
      BY <2>1, <3>1, HeadTailProperties
    <3>4. QED
      BY <1>0, <2>1, <3>2, <3>3
  <2>3. CASE WriteLine(c)
    BY <2>1, <2>3 DEF WriteLine
  <2>4. QED
    BY <2>2, <2>3
<1>7. QED
  BY <1>0, <1>1, <1>2, <1>3, <1>5, <1>6 DEF LostInv

LEMMA LostNext == ConsoleInv /\ LostInv /\ [Next]_vars => LostInv'
<1> SUFFICES ASSUME ConsoleInv, LostInv, [Next]_vars PROVE LostInv'
  OBVIOUS
<1>1. CASE UNCHANGED vars
  BY SMTT(40), <1>1 DEF vars, LostInv, Gapless, Carried
<1>2. CASE BroadcastConsole
  BY <1>2, BroadcastLost
<1>3. ASSUME NEW c \in Clients, Upgrade(c) \/ Handler(c) \/ BadMessage(c) \/ Writer(c) \/ PeerMoves(c)
      PROVE  LostInv'
  BY <1>3, StillLost, MovesLost DEF Handler, Writer
<1>4. QED
  BY <1>1, <1>2, <1>3 DEF Next

\* As long as no more lines were broadcast than a channel holds, a connected
\* subscriber has a suffix of all of them and misses none, whoever else comes,
\* stalls or leaves: the non-blocking send drops only what a full channel
\* cannot take (server.go:174-184).
THEOREM LostCorrect == Spec => []NothingLostBelowCap
<1>1. ASSUME OrderInv, ConsoleInv, LostInv PROVE NothingLostBelowCap
  <2> SUFFICES ASSUME lines <= Cap, NEW c \in ToSet(listeners),
                      conn[c] \in {"reading", "stalled"},
                      NEW n \in Lines, n <= lines,
                      NEW m \in ToSet(Pipeline(c)), m <= n
               PROVE  n \in ToSet(Pipeline(c))
    BY DEF NothingLostBelowCap
  <2>1. c \in Clients /\ Gapless(c) /\ lines \in Nat /\ MaxLines \in Nat
    <3>1. listeners \in Seq(Clients)
      BY <1>1 DEF ConsoleInv, TypeOK
    <3>2. PICK i \in 1..Len(listeners) : c = listeners[i]
      BY <3>1, SeqDomain DEF ToSet
    <3>3. QED
      BY <1>1, <3>1, <3>2, ElementOfSeq, ConsoleAssumption DEF LostInv, ConsoleInv, TypeOK
  <2>2. Carried(c, m)
    BY <1>1, <2>1, PipelineCarries DEF OrderInv
  <2>3. m \in 1..lines
    <3>1. /\ got[c] \in Seq(Nat) /\ chan[c].buf \in Seq(Nat)
          /\ UpTo(got[c], lines) /\ UpTo(chan[c].buf, lines)
          /\ writer[c].pc = "line" => writer[c].line \in 1..lines
      BY <1>1, <2>1 DEF OrderInv, LinesTyped, Ordered
    <3>2. \A s \in Seq(Nat) : UpTo(s, lines) => \A i \in 1..Len(s) : s[i] \in 1..lines
      BY <2>1, ElementOfSeq DEF UpTo
    <3>3. QED
      BY <2>2, <3>1, <3>2 DEF Carried
  <2>4. n \in 1..lines
    BY <2>1 DEF Lines
  <2>5. m < n \/ m = n
    BY <2>1, <2>3, <2>4
  <2>6. Carried(c, n)
    BY <2>1, <2>2, <2>3, <2>4, <2>5 DEF Gapless
  <2>7. QED
    BY <1>1, <2>1, <2>6, PipelineCarries DEF OrderInv
<1>2. Spec => []OrderInv
  BY OrderInit, OrderNext, PTL DEF Spec
<1>3. Spec => []LostInv
  BY LostInit, LostNext, ConsoleInvariant, PTL DEF Spec
<1>4. QED
  BY <1>1, <1>2, <1>3, ConsoleInvariant, PTL

-----------------------------------------------------------------------------
(* Console implements LossyQueues                                          *)

\* Nobody leaves who has not come; the writer ends only when a write to a peer
\* that has left fails, and the handler unsubscribes only after it.
ClosingInv ==
  \A c \in Clients :
    /\ handler[c] = "none" => conn[c] = "none"
    /\ handler[c] \in {"none", "subscribe", "status", "spawn"} => writer[c].pc = "none"
    /\ handler[c] = "unsubscribe" => writer[c].pc = "done"
    /\ writer[c].pc = "done" => conn[c] \in {"left", "reset"}

LEMMA ClosingInit == Init => ClosingInv
  BY DEF Init, ClosingInv

LEMMA ClosingNext == ConsoleInv /\ ClosingInv /\ [Next]_vars => ClosingInv'
<1> SUFFICES ASSUME ConsoleInv, ClosingInv, [Next]_vars PROVE ClosingInv'
  OBVIOUS
<1>0. /\ handler \in [Clients -> HandlerPcs]
      /\ writer \in [Clients -> [pc: WriterPcs, line: 0..MaxLines]]
      /\ conn \in [Clients -> {"none", "reading", "stalled", "left", "reset"}]
  BY DEF ConsoleInv, TypeOK
<1>1. CASE UNCHANGED vars \/ BroadcastConsole
  BY <1>1 DEF vars, BroadcastConsole, ClosingInv
<1>2. ASSUME NEW c \in Clients, Upgrade(c) \/ Handler(c) \/ BadMessage(c)
      PROVE  ClosingInv'
  <2>1. CASE SpawnWriter(c)
    <3>1. /\ writer' = [writer EXCEPT ![c] = [writer[c] EXCEPT !.pc = "select"]]
          /\ handler' = [handler EXCEPT ![c] = "read"] /\ conn' = conn
      BY <2>1 DEF SpawnWriter, HandlerGoto
    <3>2. [writer[c] EXCEPT !.pc = "select"].pc = "select"
      BY <1>0
    <3>3. QED
      BY <1>0, <3>1, <3>2 DEF ClosingInv
  <2>2. CASE Upgrade(c)
    BY <1>0, <2>2 DEF Upgrade, HandlerGoto, ClosingInv
  <2>3. CASE \/ Subscribe(c) \/ SendInitialStatus(c) \/ ReadFails(c) \/ WaitDone(c)
             \/ Unsubscribe(c) \/ BadMessage(c)
    BY <1>0, <2>3 DEF Subscribe, SendInitialStatus, ReadFails, BadMessage, WaitDone,
       Unsubscribe, HandlerGoto, ClosingInv
  <2>4. QED
    BY <1>2, <2>1, <2>2, <2>3 DEF Handler
<1>3. ASSUME NEW c \in Clients, Writer(c)
      PROVE  ClosingInv'
  <2>1. handler' = handler /\ writer[c].pc \in {"select", "line", "stats"}
    BY <1>3 DEF Writer, TakeLine, WriteLine, Tick, WriteStats
  <2>2. PICK h \in [pc: {"line", "select", "stats", "done"}, line: 0..MaxLines \union Lines] :
          /\ writer' = [writer EXCEPT ![c] = h]
          /\ h.pc = "done" => conn[c] \in {"left", "reset"}
    <3>1. CASE TakeLine(c)
      <4>1. chan[c].buf \in Seq(Lines) /\ chan[c].buf # <<>>
        BY <3>1 DEF TakeLine, ConsoleInv, TypeOK
      <4>2. Head(chan[c].buf) \in Lines
        BY <4>1, HeadTailProperties
      <4>3. writer' = [writer EXCEPT ![c] = [pc |-> "line", line |-> Head(chan[c].buf)]]
        BY <3>1 DEF TakeLine
      <4>4. /\ [pc |-> "line", line |-> Head(chan[c].buf)]
                 \in [pc: {"line", "select", "stats", "done"}, line: 0..MaxLines \union Lines]
            /\ [pc |-> "line", line |-> Head(chan[c].buf)].pc # "done"
        BY <4>2
      <4>5. QED
        BY <4>3, <4>4
    <3>2. CASE WriteLine(c) \/ Tick(c) \/ WriteStats(c)
      <4>1. 0 \in 0..MaxLines
        BY ConsoleAssumption
      <4>2. QED
        BY <3>2, <4>1 DEF WriteLine, Tick, WriteStats, WriterGoto
    <3>3. QED
      BY <1>3, <3>1, <3>2 DEF Writer
  <2>3. \/ conn' = conn
        \/ conn[c] \in {"left", "reset"} /\ conn' = [conn EXCEPT ![c] = "reset"]
        \/ conn' = [conn EXCEPT ![c] = conn[c]]
    BY <1>3 DEF Writer, TakeLine, WriteLine, Tick, WriteStats
  <2>4. \A d \in Clients : /\ conn[d] \in {"left", "reset"} => conn'[d] \in {"left", "reset"}
                           /\ conn[d] = "none" => conn'[d] = "none"
    BY <1>0, <2>3
  <2>5. \A d \in Clients : d # c => writer'[d] = writer[d]
    BY <1>0, <2>2
  <2>6. writer'[c] = h
    BY <1>0, <2>2
  <2>7. handler[c] \notin {"none", "subscribe", "status", "spawn", "unsubscribe"}
    BY <2>1 DEF ClosingInv
  <2>8. QED
    BY <2>1, <2>2, <2>4, <2>5, <2>6, <2>7 DEF ClosingInv
<1>4. ASSUME NEW c \in Clients, PeerMoves(c)
      PROVE  ClosingInv'
  BY <1>0, <1>4 DEF PeerMoves, ClosingInv
<1>5. QED
  BY <1>1, <1>2, <1>3, <1>4 DEF Next

\* A head taken from a sequence that is the tail of another.
LEMMA HeadFirst ==
  ASSUME NEW n \in Nat, NEW t \in Seq(Nat)
  PROVE  /\ <<n>> \o t # <<>> /\ Head(<<n>> \o t) = n /\ Tail(<<n>> \o t) = t
         /\ <<n>> \o t \in Seq(Nat) /\ Len(<<n>> \o t) = Len(t) + 1
<1>1. /\ <<n>> \in Seq(Nat) /\ Len(<<n>>) = 1 /\ <<n>>[1] = n
      /\ <<n>> \o t \in Seq(Nat) /\ Len(<<n>> \o t) = 1 + Len(t)
      /\ \A i \in 1..(1 + Len(t)) :
           (<<n>> \o t)[i] = IF i <= 1 THEN <<n>>[i] ELSE t[i - 1]
  <2>1. <<n>> \in Seq(Nat) /\ Len(<<n>>) = 1 /\ <<n>>[1] = n
    OBVIOUS
  <2>2. QED
    BY <2>1, ConcatProperties
<1> DEFINE s == <<n>> \o t
<1> HIDE DEF s
<1>2. /\ s \in Seq(Nat) /\ Len(s) = 1 + Len(t) /\ s[1] = n
      /\ \A i \in 1..Len(t) : s[i + 1] = t[i]
  BY <1>1 DEF s
<1>3. s # <<>>
  BY <1>2
<1>4. /\ Head(s) = n /\ Tail(s) \in Seq(Nat) /\ Len(Tail(s)) = Len(t)
      /\ \A i \in 1..Len(Tail(s)) : Tail(s)[i] = s[i + 1]
  BY <1>2, <1>3, HeadTailProperties
<1>5. Tail(s) = t
  BY <1>2, <1>4, SeqEqual
<1>6. QED
  BY <1>2, <1>3, <1>4, <1>5 DEF s

\* What waits behind an empty hand, and behind a hand with a line in it.
LEMMA WayOf ==
  ASSUME LinesTyped, NEW c \in Clients
  PROVE  /\ writer[c].pc # "line" => Way[c] = chan[c].buf
         /\ writer[c].pc = "line" => Way[c] = <<writer[c].line>> \o chan[c].buf
         /\ Way[c] \in Seq(Nat)
         /\ Len(chan[c].buf) <= Len(Way[c]) /\ Len(Way[c]) <= Len(chan[c].buf) + 1
<1>1. chan[c].buf \in Seq(Nat) /\ writer[c].line \in Nat /\ Len(chan[c].buf) \in Nat
  BY DEF LinesTyped
<1>2. Way[c] = Hand(c) \o chan[c].buf
  BY DEF Way
<1>3. CASE writer[c].pc = "line"
  BY <1>1, <1>2, <1>3, HeadFirst DEF Hand
<1>4. CASE writer[c].pc # "line"
  <2>1. <<>> \o chan[c].buf = chan[c].buf
    BY <1>1
  <2>2. QED
    BY <1>1, <1>2, <1>4, <2>1 DEF Hand
<1>5. QED
  BY <1>3, <1>4

LEMMA ConcatAppend ==
  ASSUME NEW s \in Seq(Nat), NEW t \in Seq(Nat), NEW e \in Nat
  PROVE  s \o Append(t, e) = Append(s \o t, e)
<1> DEFINE u == s \o t
           a == Append(t, e)
<1>1. /\ u \in Seq(Nat) /\ Len(u) = Len(s) + Len(t)
      /\ \A i \in 1..(Len(s) + Len(t)) : u[i] = IF i <= Len(s) THEN s[i] ELSE t[i - Len(s)]
  BY ConcatProperties
<1>2. /\ a \in Seq(Nat) /\ Len(a) = Len(t) + 1 /\ a[Len(t) + 1] = e
      /\ \A i \in 1..Len(t) : a[i] = t[i]
  OBVIOUS
<1> HIDE DEF u, a
<1>3. /\ s \o a \in Seq(Nat) /\ Len(s \o a) = Len(s) + Len(a)
      /\ \A i \in 1..(Len(s) + Len(a)) : (s \o a)[i] = IF i <= Len(s) THEN s[i] ELSE a[i - Len(s)]
  BY <1>2, ConcatProperties
<1>4. /\ Append(u, e) \in Seq(Nat) /\ Len(Append(u, e)) = Len(u) + 1
      /\ Append(u, e)[Len(u) + 1] = e
      /\ \A i \in 1..Len(u) : Append(u, e)[i] = u[i]
  <2>1. u \in Seq(Nat)
    BY <1>1
  <2>2. QED
    BY <2>1, AppendProperties
<1>5. Len(s) \in Nat /\ Len(t) \in Nat
  OBVIOUS
<1>6. ASSUME NEW i \in 1..Len(s \o a) PROVE (s \o a)[i] = Append(u, e)[i]
  <2>0. i \in 1..(Len(s) + Len(t) + 1)
    BY <1>2, <1>3, <1>5
  <2>1. CASE i <= Len(s)
    BY SMTT(40), <1>1, <1>3, <1>4, <1>5, <2>0, <2>1
  <2>2. CASE Len(s) < i /\ i <= Len(s) + Len(t)
    <3>1. i - Len(s) \in 1..Len(t) /\ i \in 1..Len(u) /\ ~(i <= Len(s))
      BY <1>1, <1>5, <2>0, <2>2
    <3>2. (s \o a)[i] = t[i - Len(s)]
      BY <1>2, <1>3, <3>1
    <3>3. Append(u, e)[i] = t[i - Len(s)]
      BY <1>1, <1>4, <3>1
    <3>4. QED
      BY <3>2, <3>3
  <2>3. CASE i = Len(s) + Len(t) + 1
    <3>1. i - Len(s) = Len(t) + 1 /\ i = Len(u) + 1 /\ ~(i <= Len(s))
      BY <1>1, <1>5, <2>3
    <3>2. QED
      BY <1>2, <1>3, <1>4, <3>1
  <2>4. QED
    <3>1. i <= Len(s) \/ (Len(s) < i /\ i <= Len(s) + Len(t)) \/ i = Len(s) + Len(t) + 1
      BY <1>5, <2>0
    <3>2. QED
      BY <2>1, <2>2, <2>3, <3>1
<1>7. Len(s \o a) = Len(Append(u, e))
  BY <1>1, <1>2, <1>3, <1>4, <1>5
<1>8. s \o a = Append(u, e)
  BY <1>3, <1>4, <1>6, <1>7, SeqEqual
<1>9. QED
  BY <1>8 DEF u, a

LEMMA WayKept ==
  ASSUME \A d \in Clients : /\ chan'[d].buf = chan[d].buf
                            /\ writer[d].pc = "line" <=> writer'[d].pc = "line"
                            /\ writer[d].pc = "line" => writer'[d].line = writer[d].line
  PROVE  Way' = Way
<1>1. \A d \in Clients : Hand(d)' = Hand(d)
  BY DEF Hand
<1>2. QED
  BY <1>1 DEF Way

\* The line goes to a queue with fewer than Cap lines and to none with more.
LEMMA BroadcastSends ==
  ASSUME LinesTyped, ConsoleInv, BroadcastConsole
  PROVE  Queues!Send
<1> DEFINE took == {c \in ToSet(listeners) : Len(chan[c].buf) < Cap}
<1>0. /\ Cap \in Nat /\ lines \in Nat
      /\ chan \in [Clients -> [buf: Seq(Nat), closed: BOOLEAN]]
  BY ConsoleAssumption DEF LinesTyped
<1>1. ToSet(listeners) \subseteq Clients
  <2>1. listeners \in Seq(Clients)
    BY DEF ConsoleInv, TypeOK
  <2>2. QED
    BY <2>1, SeqDomain, ElementOfSeq DEF ToSet
<1>2. /\ lines' = lines + 1 /\ UNCHANGED <<listeners, handler, writer, conn, got>>
      /\ chan' = [c \in Clients |-> IF c \in took
                                      THEN [chan[c] EXCEPT !.buf = Append(chan[c].buf, lines')]
                                      ELSE chan[c]]
  BY DEF BroadcastConsole
<1>3. took \subseteq ToSet(listeners)
  OBVIOUS
<1>4. \A c \in ToSet(listeners) : Len(Way[c]) < Cap => c \in took
  <2> SUFFICES ASSUME NEW c \in ToSet(listeners), Len(Way[c]) < Cap
               PROVE  Len(chan[c].buf) < Cap
    OBVIOUS
  <2>1. Len(chan[c].buf) \in Nat /\ Len(Way[c]) \in Nat /\ Len(chan[c].buf) <= Len(Way[c])
    <3>1. c \in Clients
      BY <1>1
    <3>2. /\ Way[c] \in Seq(Nat) /\ Len(chan[c].buf) <= Len(Way[c])
          /\ Len(Way[c]) <= Len(chan[c].buf) + 1
      BY <3>1, WayOf
    <3>3. chan[c].buf \in Seq(Nat)
      BY <1>0, <3>1
    <3>4. QED
      BY <3>2, <3>3
  <2>2. QED
    BY <1>0, <2>1
<1>5. \A c \in took : Len(Way[c]) <= Cap
  <2> SUFFICES ASSUME NEW c \in ToSet(listeners), Len(chan[c].buf) < Cap
               PROVE  Len(Way[c]) <= Cap
    OBVIOUS
  <2>1. /\ Len(chan[c].buf) \in Nat /\ Len(Way[c]) \in Nat
        /\ Len(Way[c]) <= Len(chan[c].buf) + 1
    <3>1. c \in Clients
      BY <1>1
    <3>2. /\ Way[c] \in Seq(Nat) /\ Len(chan[c].buf) <= Len(Way[c])
          /\ Len(Way[c]) <= Len(chan[c].buf) + 1
      BY <3>1, WayOf
    <3>3. chan[c].buf \in Seq(Nat)
      BY <1>0, <3>1
    <3>4. QED
      BY <3>2, <3>3
  <2>2. QED
    BY <1>0, <2>1
<1>6. ASSUME NEW c \in Clients
      PROVE  Way'[c] = IF c \in took THEN Append(Way[c], lines') ELSE Way[c]
  <2> DEFINE b == chan[c].buf
  <2>0. Hand(c)' = Hand(c)
    BY <1>2 DEF Hand
  <2>1. /\ Way[c] = Hand(c) \o b /\ Way'[c] = Hand(c) \o chan'[c].buf
        /\ b \in Seq(Nat) /\ lines' \in Nat
    <3>1. lines' \in Nat /\ b \in Seq(Nat)
      BY <1>0, <1>2
    <3>2. Way[c] = Hand(c) \o b
      BY DEF Way
    <3>3. Way'[c] = Hand(c)' \o chan'[c].buf
      BY DEF Way
    <3>4. QED
      BY <2>0, <3>1, <3>2, <3>3
  <2>2. Hand(c) \in Seq(Nat)
    BY DEF Hand, LinesTyped
  <2>3. CASE c \in took
    <3>1. chan'[c] = [chan[c] EXCEPT !.buf = Append(b, lines')]
      BY <1>2, <2>3
    <3>2. chan[c] \in [buf: Seq(Nat), closed: BOOLEAN]
      BY <1>0
    <3>3. chan'[c].buf = Append(b, lines')
      BY <3>1, <3>2
    <3>4. Hand(c) \o Append(b, lines') = Append(Hand(c) \o b, lines')
      BY <2>1, <2>2, ConcatAppend
    <3>5. QED
      BY <2>1, <2>3, <3>3, <3>4
  <2>4. CASE c \notin took
    BY <1>2, <2>1, <2>4
  <2>5. QED
    BY <2>3, <2>4
<1>7. Way' = [c \in Clients |-> IF c \in took THEN Append(Way[c], lines') ELSE Way[c]]
  BY <1>6 DEF Way
<1>8. Gone' = Gone
  BY <1>2 DEF Gone
<1> HIDE DEF took
<1>9. took \in SUBSET ToSet(listeners)
  BY <1>3
<1>10. QED
  BY <1>2, <1>4, <1>5, <1>7, <1>8, <1>9 DEF Queues!Send

\* Taking a line from the channel into the hand moves nothing on the way.
LEMMA TakeStutters ==
  ASSUME LinesTyped, NEW c \in Clients, TakeLine(c)
  PROVE  UNCHANGED Queues!vars
<1> DEFINE b == chan[c].buf
<1>0. /\ chan \in [Clients -> [buf: Seq(Nat), closed: BOOLEAN]]
      /\ writer \in [Clients -> [pc: WriterPcs, line: Nat]]
      /\ b \in Seq(Nat)
  BY DEF LinesTyped
<1>1. /\ writer[c].pc = "select" /\ b # <<>>
      /\ writer' = [writer EXCEPT ![c] = [pc |-> "line", line |-> Head(b)]]
      /\ chan' = [chan EXCEPT ![c].buf = Tail(b)]
      /\ UNCHANGED <<listeners, handler, conn, got, lines>>
  BY DEF TakeLine
<1> HIDE DEF b
<1>2. /\ Head(b) \in Nat /\ Tail(b) \in Seq(Nat) /\ Len(b) \in Nat \ {0} /\ Head(b) = b[1]
      /\ Len(Tail(b)) = Len(b) - 1 /\ \A i \in 1..Len(Tail(b)) : Tail(b)[i] = b[i + 1]
  BY <1>0, <1>1, HeadTailProperties, EmptySeq
<1>3. chan' = [chan EXCEPT ![c] = [chan[c] EXCEPT !.buf = Tail(b)]]
  BY <1>1
<1>4. [chan[c] EXCEPT !.buf = Tail(b)].buf = Tail(b)
  BY <1>0
<1>5. <<Head(b)>> \o Tail(b) = b
  BY <1>0, <1>1, <1>2
<1>6. ASSUME NEW d \in Clients PROVE Hand(d)' \o chan'[d].buf = Hand(d) \o chan[d].buf
  <2>1. CASE d = c
    <3>1. chan'[c].buf = Tail(b) /\ Hand(c)' = <<Head(b)>> /\ Hand(c) = <<>>
      BY <1>0, <1>1, <1>3, <1>4 DEF Hand
    <3>2. <<>> \o b = b
      BY <1>0
    <3>3. QED
      BY <1>5, <2>1, <3>1, <3>2 DEF b
  <2>2. CASE d # c
    BY <1>0, <1>1, <1>3, <2>2 DEF Hand
  <2>3. QED
    BY <2>1, <2>2
<1>7. Way' = Way
  BY <1>6 DEF Way
<1>8. QED
  BY <1>1, <1>7 DEF Queues!vars, Gone

\* The line in the hand reaches a peer that is there and is lost with one that
\* has left.
LEMMA WriteTakesFirst ==
  ASSUME LinesTyped, ConsoleInv, NEW c \in Clients, WriteLine(c)
  PROVE  [Queues!Next]_(Queues!vars)
<1> DEFINE n == writer[c].line
           b == chan[c].buf
<1>0. /\ chan \in [Clients -> [buf: Seq(Nat), closed: BOOLEAN]]
      /\ writer \in [Clients -> [pc: WriterPcs, line: Nat]]
      /\ b \in Seq(Nat) /\ n \in Nat
      /\ conn \in [Clients -> {"none", "reading", "stalled", "left", "reset"}]
  BY DEF LinesTyped, ConsoleInv, TypeOK
<1>1. /\ writer[c].pc = "line" /\ UNCHANGED <<listeners, chan, handler, lines>>
      /\ \/ writer' = [writer EXCEPT ![c] = [pc |-> "select", line |-> 0]]
         \/ writer' = [writer EXCEPT ![c] = [pc |-> "done", line |-> 0]]
  BY DEF WriteLine, WriterGoto
<1>2. Way[c] = <<n>> \o b /\ Way[c] # <<>> /\ Head(Way[c]) = n /\ Tail(Way[c]) = b
  <2>1. Way[c] = <<n>> \o b
    BY <1>1, WayOf
  <2>2. QED
    BY <1>0, <2>1, HeadFirst
<1>3. Way' = [Way EXCEPT ![c] = Tail(Way[c])]
  <2>1. Hand(c)' = <<>> /\ \A d \in Clients : d # c => Hand(d)' = Hand(d)
    BY <1>0, <1>1 DEF Hand
  <2>2. <<>> \o b = b
    BY <1>0
  <2>3. Way'[c] = b /\ \A d \in Clients : d # c => Way'[d] = Way[d]
    BY <1>1, <2>1, <2>2 DEF Way
  <2>4. DOMAIN Way = Clients /\ Way' = [d \in Clients |-> Way'[d]] /\ Way = [d \in Clients |-> Way[d]]
    BY DEF Way
  <2>5. QED
    BY <1>2, <2>3, <2>4
<1>4. CASE conn[c] = "reading"
  <2>1. got' = [got EXCEPT ![c] = Append(got[c], n)] /\ conn' = conn
    BY <1>4 DEF WriteLine
  <2>2. c \notin Gone /\ Gone' = Gone
    BY <1>4, <2>1 DEF Gone
  <2>3. Queues!Deliver(c)
    BY <1>1, <1>2, <1>3, <2>1, <2>2 DEF Queues!Deliver, Queues!TakeFirst
  <2>4. QED
    BY <2>3 DEF Queues!Next
<1>5. CASE conn[c] # "reading"
  <2>1. /\ conn[c] \in {"left", "reset"} /\ got' = got
        /\ conn' = conn \/ conn' = [conn EXCEPT ![c] = "reset"]
    BY <1>5 DEF WriteLine
  <2>2. c \in Gone /\ Gone' = Gone
    BY <1>0, <2>1 DEF Gone
  <2>3. Queues!Lose(c)
    BY <1>1, <1>2, <1>3, <2>1, <2>2 DEF Queues!Lose, Queues!TakeFirst
  <2>4. QED
    BY <2>3 DEF Queues!Next
<1>6. QED
  BY <1>4, <1>5

LEMMA QueuesInit == Init => Queues!Init
<1> SUFFICES ASSUME Init PROVE Queues!Init
  OBVIOUS
<1>1. \A c \in Clients : Hand(c) = <<>> /\ chan[c].buf = <<>>
  BY DEF Init, Hand
<1>2. Way = [c \in Clients |-> <<>>]
  <2>1. <<>> \o <<>> = <<>>
    OBVIOUS
  <2>2. \A c \in Clients : Hand(c) \o chan[c].buf = <<>>
    BY <1>1, <2>1
  <2>3. QED
    BY <2>2 DEF Way
<1>3. ToSet(listeners) = {}
  <2>1. listeners = <<>> /\ DOMAIN <<>> = {}
    BY DEF Init
  <2>2. QED
    BY <2>1 DEF ToSet
<1>4. Gone = {}
  BY DEF Init, Gone
<1>5. QED
  BY <1>2, <1>3, <1>4 DEF Init, Queues!Init

\* Subscribing opens a queue, and only a client that is gone has its closed.
LEMMA HandlerMoves ==
  ASSUME LinesTyped, ConsoleInv, ClosingInv, NEW c \in Clients,
         Upgrade(c) \/ Handler(c) \/ BadMessage(c)
  PROVE  [Queues!Next]_(Queues!vars)
<1>0. /\ chan \in [Clients -> [buf: Seq(Nat), closed: BOOLEAN]]
      /\ writer \in [Clients -> [pc: WriterPcs, line: Nat]]
      /\ conn \in [Clients -> {"none", "reading", "stalled", "left", "reset"}]
      /\ listeners \in Seq(Clients)
      /\ handler \in [Clients -> HandlerPcs]
  BY DEF LinesTyped, ConsoleInv, TypeOK
<1>1. UNCHANGED <<got, lines>>
  BY DEF Upgrade, BadMessage, Handler, Subscribe, SendInitialStatus, SpawnWriter,
     ReadFails, WaitDone, Unsubscribe
<1>2. Gone' = Gone
  <2>1. CASE conn' = conn
    BY <2>1 DEF Gone
  <2>2. CASE Upgrade(c)
    <3>1. conn[c] = "none" /\ conn' = [conn EXCEPT ![c] = "reading"]
      BY <2>2 DEF ClosingInv, Upgrade, HandlerGoto
    <3>2. QED
      BY <1>0, <3>1 DEF Gone
  <2>3. QED
    BY <2>1, <2>2 DEF BadMessage, Handler, Subscribe, SendInitialStatus, SpawnWriter,
       ReadFails, WaitDone, Unsubscribe
<1>3. Way' = Way
  <2>1. CASE UNCHANGED <<chan, writer>>
    BY <2>1 DEF Way, Hand
  <2>2. CASE SpawnWriter(c)
    <3>1. /\ writer' = [writer EXCEPT ![c] = [writer[c] EXCEPT !.pc = "select"]]
          /\ chan' = chan /\ writer[c].pc = "none"
      BY <2>2 DEF SpawnWriter, HandlerGoto, ClosingInv
    <3>2. [writer[c] EXCEPT !.pc = "select"].pc = "select"
      BY <1>0
    <3>3. \A d \in Clients : /\ writer[d].pc = "line" <=> writer'[d].pc = "line"
                             /\ writer[d].pc = "line" => writer'[d].line = writer[d].line
      BY <1>0, <3>1, <3>2
    <3>4. QED
      BY <3>1, <3>3, WayKept
  <2>3. CASE Unsubscribe(c)
    <3> DEFINE closed == chan[c].closed \/ c \in ToSet(listeners)
    <3>1. chan' = [chan EXCEPT ![c].closed = closed] /\ writer' = writer
      BY <2>3 DEF Unsubscribe, RemoveConsoleListener
    <3> HIDE DEF closed
    <3>2. chan' = [chan EXCEPT ![c] = [chan[c] EXCEPT !.closed = closed]]
      BY <3>1
    <3>3. [chan[c] EXCEPT !.closed = closed].buf = chan[c].buf
      BY <1>0
    <3>4. \A d \in Clients : chan'[d].buf = chan[d].buf
      BY <1>0, <3>2, <3>3
    <3>5. QED
      BY <3>1, <3>4, WayKept
  <2>4. QED
    BY <2>1, <2>2, <2>3 DEF Upgrade, BadMessage, Handler, Subscribe, SendInitialStatus,
       ReadFails, WaitDone
<1>4. CASE Subscribe(c)
  <2>1. handler[c] = "subscribe" /\ listeners' = Append(listeners, c)
    BY <1>4 DEF Subscribe, HandlerGoto, AddConsoleListener
  <2>2. listeners' \in Seq(Clients)
    BY <1>0, <2>1, AppendProperties
  <2>3. DOMAIN listeners = 1..Len(listeners) /\ DOMAIN listeners' = 1..Len(listeners')
    BY <1>0, <2>2, SeqDomain
  <2>4. c \notin ToSet(listeners)
    BY <2>1, <2>3 DEF ToSet, ConsoleInv, ListenersInv
  <2>5. \A d : d \in ToSet(listeners') <=> d = c \/ d \in ToSet(listeners)
    <3>1. \A d : (\E i \in 1..Len(listeners') : listeners'[i] = d)
                   <=> (d = c \/ \E i \in 1..Len(listeners) : listeners[i] = d)
      <4>1. ASSUME NEW d
            PROVE  (\E i \in 1..Len(Append(listeners, c)) : Append(listeners, c)[i] = d)
                     <=> (d = c \/ \E i \in 1..Len(listeners) : listeners[i] = d)
        <5>1. listeners \in Seq(Clients)
          BY <1>0
        <5>2. QED
          BY <5>1, AppendSet
      <4>2. QED
        BY <2>1, <4>1
    <3>2. QED
      BY <2>3, <3>1 DEF ToSet
  <2>6. ToSet(listeners)' = ToSet(listeners) \union {c}
    BY <2>5
  <2>7. Queues!Open(c)
    BY <1>1, <1>2, <1>3, <2>4, <2>6 DEF Queues!Open
  <2>8. QED
    BY <2>7 DEF Queues!Next
<1>5. CASE Unsubscribe(c)
  <2>1. c \in Gone
    BY <1>5 DEF Unsubscribe, HandlerGoto, ClosingInv, Gone
  <2>2. /\ listeners' \in Seq(Clients)
        /\ \A i \in 1..Len(listeners') : \E m \in 1..Len(listeners) :
             listeners'[i] = listeners[m] /\ listeners[m] # c
        /\ \A m \in 1..Len(listeners) : listeners[m] # c =>
             \E i \in 1..Len(listeners') : listeners'[i] = listeners[m]
    BY <1>5, UnsubscribeKeeps
  <2>3. DOMAIN listeners = 1..Len(listeners) /\ DOMAIN listeners' = 1..Len(listeners')
    BY <1>0, <2>2, SeqDomain
  <2>4. ToSet(listeners)' = ToSet(listeners) \ {c}
    <3>1. /\ ToSet(listeners) = {listeners[i] : i \in 1..Len(listeners)}
          /\ ToSet(listeners)' = {listeners'[i] : i \in 1..Len(listeners')}
      BY <2>3 DEF ToSet
    <3>2. ASSUME NEW d \in {listeners'[i] : i \in 1..Len(listeners')}
          PROVE  d \in {listeners[i] : i \in 1..Len(listeners)} \ {c}
      <4>1. PICK i \in 1..Len(listeners') : d = listeners'[i]
        OBVIOUS
      <4>2. PICK m \in 1..Len(listeners) : listeners'[i] = listeners[m] /\ listeners[m] # c
        BY <2>2
      <4>3. QED
        BY <4>1, <4>2
    <3>3. ASSUME NEW d \in {listeners[i] : i \in 1..Len(listeners)}, d # c
          PROVE  d \in {listeners'[i] : i \in 1..Len(listeners')}
      BY <2>2, <3>3
    <3>4. QED
      BY <3>1, <3>2, <3>3
  <2>5. CASE c \in ToSet(listeners)
    <3>1. Queues!Close(c)
      BY <1>1, <1>2, <1>3, <2>1, <2>4, <2>5 DEF Queues!Close
    <3>2. QED
      BY <3>1 DEF Queues!Next
  <2>6. CASE c \notin ToSet(listeners)
    <3>1. ToSet(listeners)' = ToSet(listeners)
      BY <2>4, <2>6
    <3>2. QED
      BY <1>1, <1>2, <1>3, <3>1 DEF Queues!vars
  <2>7. QED
    BY <2>5, <2>6
<1>6. CASE listeners' = listeners
  BY <1>1, <1>2, <1>3, <1>6 DEF Queues!vars
<1>7. QED
  BY <1>4, <1>5, <1>6 DEF Upgrade, BadMessage, Handler, SendInitialStatus, SpawnWriter,
     ReadFails, WaitDone

\* Statistics pass the queue by, and a peer that leaves leaves for good.
LEMMA OtherMoves ==
  ASSUME LinesTyped, ConsoleInv, NEW c \in Clients,
         Tick(c) \/ WriteStats(c) \/ PeerMoves(c)
  PROVE  [Queues!Next]_(Queues!vars)
<1>0. /\ writer \in [Clients -> [pc: WriterPcs, line: Nat]]
      /\ conn \in [Clients -> {"none", "reading", "stalled", "left", "reset"}]
  BY DEF LinesTyped, ConsoleInv, TypeOK
<1>1. UNCHANGED <<got, lines, chan, listeners>>
  BY DEF Tick, WriteStats, PeerMoves
<1>2. Way' = Way
  <2>1. CASE writer' = writer
    BY <1>1, <2>1 DEF Way, Hand
  <2>2. CASE Tick(c) \/ WriteStats(c)
    <3>1. PICK pc \in {"select", "stats"} :
            writer' = [writer EXCEPT ![c] = [pc |-> pc, line |-> 0]]
      BY <2>2 DEF Tick, WriteStats, WriterGoto
    <3>2. writer[c].pc # "line"
      BY <2>2 DEF Tick, WriteStats
    <3>3. \A d \in Clients : /\ writer[d].pc = "line" <=> writer'[d].pc = "line"
                             /\ writer[d].pc = "line" => writer'[d].line = writer[d].line
      BY <1>0, <3>1, <3>2
    <3>4. QED
      BY <1>1, <3>3, WayKept
  <2>3. QED
    BY <2>1, <2>2 DEF PeerMoves
<1>3. CASE Gone' = Gone
  BY <1>1, <1>2, <1>3 DEF Queues!vars
<1>4. CASE Gone' # Gone
  <2>1. conn[c] \in {"reading", "stalled"} /\ conn' = [conn EXCEPT ![c] = "left"]
    <3>1. CASE Tick(c) \/ WriteStats(c)
      <4>1. conn' = conn \/ conn' = [conn EXCEPT ![c] = IF conn[c] = "left" THEN "reset" ELSE conn[c]]
        BY <3>1 DEF Tick, WriteStats
      <4>2. Gone' = Gone
        BY <1>0, <4>1 DEF Gone
      <4>3. QED
        BY <1>4, <4>2
    <3>2. CASE PeerMoves(c)
      <4>1. \A pc \in {"reading", "stalled"} :
              conn[c] \in {"reading", "stalled"} /\ conn' = [conn EXCEPT ![c] = pc] => Gone' = Gone
        BY <1>0 DEF Gone
      <4>2. QED
        BY <1>4, <3>2, <4>1 DEF PeerMoves
    <3>3. QED
      BY <3>1, <3>2
  <2>2. c \notin Gone /\ Gone' = Gone \union {c}
    BY <1>0, <2>1 DEF Gone
  <2>3. Queues!Leave(c)
    BY <1>1, <1>2, <2>2 DEF Queues!Leave
  <2>4. QED
    BY <2>3 DEF Queues!Next
<1>5. QED
  BY <1>3, <1>4

LEMMA QueuesNext ==
  LinesTyped /\ ConsoleInv /\ ClosingInv /\ [Next]_vars => [Queues!Next]_(Queues!vars)
<1> SUFFICES ASSUME LinesTyped, ConsoleInv, ClosingInv, [Next]_vars
             PROVE  [Queues!Next]_(Queues!vars)
  OBVIOUS
<1>1. CASE UNCHANGED vars
  <2>1. UNCHANGED <<Way, Gone, got, lines, listeners>>
    BY <1>1 DEF vars, Way, Gone, Hand
  <2>2. QED
    BY <2>1 DEF Queues!vars
<1>2. CASE BroadcastConsole
  BY <1>2, BroadcastSends DEF Queues!Next
<1>3. ASSUME NEW c \in Clients, Writer(c) PROVE [Queues!Next]_(Queues!vars)
  BY <1>3, TakeStutters, WriteTakesFirst, OtherMoves DEF Writer
<1>4. ASSUME NEW c \in Clients, Upgrade(c) \/ Handler(c) \/ BadMessage(c) \/ PeerMoves(c)
      PROVE  [Queues!Next]_(Queues!vars)
  BY <1>4, HandlerMoves, OtherMoves
<1>5. QED
  BY <1>1, <1>2, <1>3, <1>4 DEF Next

\* The listeners' channels and the writers implement one lossy queue per client,
\* for any number of clients and any capacity: a slow client loses lines of its
\* own and no other's, and none is unsubscribed whose peer is there
\* (server.go:152-184, console.go:58-105).
THEOREM QueuesCorrect == Spec => QueuesImplemented
<1>1. Spec => []OrderInv
  BY OrderInit, OrderNext, PTL DEF Spec
<1>2. OrderInv => LinesTyped
  BY DEF OrderInv
<1>3. Spec => []ClosingInv
  BY ClosingInit, ClosingNext, ConsoleInvariant, PTL DEF Spec
<1>4. QED
  BY <1>1, <1>2, <1>3, QueuesInit, QueuesNext, ConsoleInvariant, PTL
     DEF Spec, QueuesImplemented, Queues!Spec

=============================================================================
