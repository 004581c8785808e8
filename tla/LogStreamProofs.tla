-------------------------- MODULE LogStreamProofs ---------------------------
(***************************************************************************)
(* What StreamLogs passes on is made of all the bytes of the log, in their *)
(* order: LinesAsSent of LogStream, for any lines and any number of them,  *)
(* any widths and limits, and however the bytes are cut into reads.        *)
(*                                                                         *)
(* The invariant is about the bytes under way: while the scanner runs, the *)
(* bytes it is done with and, one after the other, those it holds, those   *)
(* in the pipe and those Docker still has are the whole log; and the lines *)
(* passed on are those of the bytes it is done with.                       *)
(***************************************************************************)
EXTENDS LogStream, FlattenTheorems

-----------------------------------------------------------------------------
(* Sequences                                                               *)

LEMMA CutInTwo ==
  ASSUME NEW S, NEW s \in Seq(S), NEW n \in 0 .. Len(s)
  PROVE  /\ SubSeq(s, 1, n) \in Seq(S) /\ Len(SubSeq(s, 1, n)) = n
         /\ SubSeq(s, n + 1, Len(s)) \in Seq(S)
         /\ Len(SubSeq(s, n + 1, Len(s))) = Len(s) - n
         /\ SubSeq(s, 1, n) \o SubSeq(s, n + 1, Len(s)) = s
<1>1. Len(s) \in Nat /\ \A i \in 1 .. Len(s) : s[i] \in S
  BY LenProperties, ElementOfSeq
<1>2. SubSeq(s, 1, n) \in Seq(S) /\ Len(SubSeq(s, 1, n)) = n
  BY <1>1, SubSeqProperties
<1>3. /\ SubSeq(s, n + 1, Len(s)) \in Seq(S)
      /\ Len(SubSeq(s, n + 1, Len(s))) = Len(s) - n
  BY <1>1, SubSeqProperties
<1>4. SubSeq(s, 1, n) \o SubSeq(s, n + 1, Len(s)) = SubSeq(s, 1, Len(s))
  <2>1. /\ 1 \in 1 .. Len(s) + 1 /\ n \in 1 - 1 .. Len(s)
        /\ Len(s) \in n .. Len(s)
    BY <1>1
  <2>2. QED
    BY <2>1, ConcatAdjacentSubSeq
<1>5. QED
  BY <1>2, <1>3, <1>4, SubSeqFull

LEMMA Regroup ==
  \A s, t, u \in Seq(Nat) : (s \o t) \o u = s \o (t \o u)
  BY SMTT(40), ConcatAssociative

LEMMA TimesMonotonic ==
  ASSUME NEW m \in Nat, NEW n \in Nat, NEW f \in Nat, m <= n
  PROVE  m * f \in Nat /\ m * f <= n * f
<1>1. PICK d \in Nat : n = m + d
  <2>1. n - m \in Nat /\ n = m + (n - m)
    OBVIOUS
  <2>2. QED
    BY <2>1
<1>2. n * f = m * f + d * f /\ d * f \in Nat /\ m * f \in Nat
  BY <1>1
<1>3. QED
  BY <1>2

-----------------------------------------------------------------------------
(* Frames                                                                  *)

LEMMA FrameBytes ==
  ASSUME NEW payload \in Seq(Nat)
  PROVE  /\ Frame(payload) \in Seq(Nat)
         /\ Len(Frame(payload)) = Header + Len(payload)
         /\ \A i \in 1 .. Len(payload) : Frame(payload)[Header + i] = payload[i]
<1> DEFINE h == [i \in 1 .. Header |-> IF i = 1 /\ Header > 1 THEN 1
                                       ELSE IF i = Header THEN Len(payload) ELSE 0]
<1>1. Header \in Nat /\ Len(payload) \in Nat
  BY LogStreamAssumption, LenProperties
<1>2. h \in Seq(Nat) /\ Len(h) = Header
  BY <1>1
<1>3. Frame(payload) = h \o payload
  BY DEF Frame
<1> HIDE DEF h
<1>4. /\ h \o payload \in Seq(Nat) /\ Len(h \o payload) = Header + Len(payload)
      /\ \A i \in 1 .. Header + Len(payload) :
           (h \o payload)[i] = IF i <= Header THEN h[i] ELSE payload[i - Header]
  BY <1>2, ConcatProperties
<1>5. ASSUME NEW i \in 1 .. Len(payload)
      PROVE  (h \o payload)[Header + i] = payload[i]
  <2>1. /\ Header + i \in 1 .. Header + Len(payload)
        /\ ~(Header + i <= Header) /\ (Header + i) - Header = i
    BY <1>1
  <2>2. QED
    BY <1>4, <2>1
<1>6. QED
  BY <1>3, <1>4, <1>5

\* A line ends with the newline, and with it its last frame.
LEMMA FramedBytes ==
  ASSUME NEW line \in Lines
  PROVE  /\ Framed(line) \in Seq(Nat)
         /\ Len(Framed(line)) >= 1
         /\ Framed(line)[Len(Framed(line))] = NL
<1> DEFINE full == Len(line) \div FrameMax
           part(k) == SubSeq(line, (k - 1) * FrameMax + 1, k * FrameMax)
           last == Append(SubSeq(line, full * FrameMax + 1, Len(line)), NL)
           before == FlattenSeq([k \in 1 .. full |-> Frame(part(k))])
<1>1. /\ line \in Seq(Nat) /\ NL \in Nat /\ FrameMax \in Nat /\ FrameMax > 0
      /\ Len(line) \in Nat /\ \A i \in 1 .. Len(line) : line[i] \in Nat
  BY LogStreamAssumption, LenProperties, ElementOfSeq
<1>2. full \in Nat /\ full * FrameMax <= Len(line)
  BY <1>1
<1>3. ASSUME NEW k \in 1 .. full PROVE Frame(part(k)) \in Seq(Nat)
  <2> HIDE DEF full
  <2>0. k \in Nat /\ k - 1 \in Nat /\ k <= full
    BY <1>2
  <2>1. k * FrameMax <= full * FrameMax
    BY <1>1, <1>2, <2>0, TimesMonotonic
  <2>2. (k - 1) * FrameMax \in Nat /\ k * FrameMax \in Nat
    BY <1>1, <2>0, TimesMonotonic
  <2>3. \A i \in (k - 1) * FrameMax + 1 .. k * FrameMax : line[i] \in Nat
    BY SMTT(40), <1>1, <1>2, <2>1, <2>2
  <2>4. part(k) \in Seq(Nat)
    BY <2>2, <2>3, SubSeqProperties
  <2>5. QED
    BY <2>4, FrameBytes
<1>4. before \in Seq(Nat)
  <2>1. [k \in 1 .. full |-> Frame(part(k))] \in Seq(Seq(Nat))
    <3> DEFINE f(k) == Frame(part(k))
    <3>1. \A k \in 1 .. full : f(k) \in Seq(Nat)
      BY <1>3
    <3> HIDE DEF f, full
    <3>2. [k \in 1 .. full |-> f(k)] \in Seq(Seq(Nat))
      BY <1>2, <3>1
    <3>3. QED
      BY <3>2 DEF f
  <2> HIDE DEF full, part
  <2>2. QED
    BY <2>1, FlattenType
<1>5. last \in Seq(Nat) /\ Len(last) >= 1 /\ last[Len(last)] = NL
  <2>1. full * FrameMax + 1 \in Int /\ full * FrameMax >= 0
    BY <1>1, <1>2
  <2>2. SubSeq(line, full * FrameMax + 1, Len(line)) \in Seq(Nat)
    BY <1>1, <2>1, SubSeqProperties
  <2> HIDE DEF full
  <2>3. QED
    BY <1>1, <2>2, AppendProperties, LenProperties
<1>6. Framed(line) = before \o Frame(last)
  BY DEF Framed
<1> HIDE DEF before, last
<1>7. /\ Frame(last) \in Seq(Nat) /\ Len(Frame(last)) = Header + Len(last)
      /\ Frame(last)[Header + Len(last)] = NL
  <2>1. Len(last) \in 1 .. Len(last)
    BY <1>5, LenProperties
  <2>2. QED
    BY <1>5, <2>1, FrameBytes
<1>8. Len(Frame(last)) \in Nat /\ Len(Frame(last)) >= 1 /\ Len(before) \in Nat
  BY <1>4, <1>5, <1>7, LogStreamAssumption, LenProperties
<1>9. QED
  BY <1>4, <1>6, <1>7, <1>8, ConcatProperties

-----------------------------------------------------------------------------
(* The frames of several lines                                             *)

LEMMA MapFramed ==
  ASSUME NEW lines \in Seq(Lines)
  PROVE  [i \in DOMAIN lines |-> Framed(lines[i])] \in Seq(Seq(Nat))
<1> DEFINE f(i) == Framed(lines[i])
<1>1. DOMAIN lines = 1 .. Len(lines) /\ Len(lines) \in Nat
  BY LenProperties
<1>2. \A i \in 1 .. Len(lines) : f(i) \in Seq(Nat)
  BY ElementOfSeq, FramedBytes
<1> HIDE DEF f
<1>3. [i \in 1 .. Len(lines) |-> f(i)] \in Seq(Seq(Nat))
  BY <1>1, <1>2
<1>4. QED
  BY <1>1, <1>3 DEF f

LEMMA FramedAllType ==
  ASSUME NEW lines \in Seq(Lines)
  PROVE  FramedAll(lines) \in Seq(Nat)
  BY MapFramed, FlattenType DEF FramedAll

LEMMA FramedAllEmpty == FramedAll(<<>>) = <<>>
<1>1. [i \in DOMAIN <<>> |-> Framed(<<>>[i])] = <<>>
  OBVIOUS
<1>2. QED
  BY <1>1, FlattenEmpty DEF FramedAll

LEMMA FramedAllConcat ==
  ASSUME NEW s \in Seq(Lines), NEW t \in Seq(Lines)
  PROVE  FramedAll(s \o t) = FramedAll(s) \o FramedAll(t)
<1> DEFINE m(l) == [i \in DOMAIN l |-> Framed(l[i])]
<1>1. /\ s \o t \in Seq(Lines) /\ Len(s) \in Nat /\ Len(t) \in Nat
      /\ Len(s \o t) = Len(s) + Len(t)
      /\ \A i \in 1 .. Len(s) + Len(t) :
           (s \o t)[i] = IF i <= Len(s) THEN s[i] ELSE t[i - Len(s)]
  BY ConcatProperties, LenProperties
<1>2. ASSUME NEW l \in Seq(Lines)
      PROVE  /\ m(l) \in Seq(Seq(Nat)) /\ Len(m(l)) = Len(l)
             /\ \A i \in 1 .. Len(l) : m(l)[i] = Framed(l[i])
  <2> DEFINE f(i) == Framed(l[i])
  <2>1. DOMAIN l = 1 .. Len(l) /\ Len(l) \in Nat
    BY LenProperties
  <2>2. m(l) = [i \in 1 .. Len(l) |-> f(i)]
    BY <2>1
  <2>3. m(l) \in Seq(Seq(Nat))
    BY MapFramed
  <2> HIDE DEF m, f
  <2>4. Len(m(l)) = Len(l) /\ \A i \in 1 .. Len(l) : m(l)[i] = f(i)
    BY <2>1, <2>2
  <2>5. QED
    BY <2>3, <2>4 DEF f
<1> HIDE DEF m
<1>3. /\ m(s) \o m(t) \in Seq(Seq(Nat))
      /\ Len(m(s) \o m(t)) = Len(s) + Len(t)
      /\ \A i \in 1 .. Len(s) + Len(t) :
           (m(s) \o m(t))[i] = IF i <= Len(s) THEN m(s)[i] ELSE m(t)[i - Len(s)]
  <2>1. /\ m(s) \in Seq(Seq(Nat)) /\ Len(m(s)) = Len(s)
        /\ m(t) \in Seq(Seq(Nat)) /\ Len(m(t)) = Len(t)
    BY <1>2
  <2>2. /\ m(s) \o m(t) \in Seq(Seq(Nat))
        /\ Len(m(s) \o m(t)) = Len(m(s)) + Len(m(t))
        /\ \A i \in 1 .. Len(m(s)) + Len(m(t)) :
             (m(s) \o m(t))[i] =
               IF i <= Len(m(s)) THEN m(s)[i] ELSE m(t)[i - Len(m(s))]
    BY <2>1, ConcatProperties
  <2>3. QED
    BY <2>1, <2>2
<1>4. ASSUME NEW i \in 1 .. Len(s) + Len(t)
      PROVE  m(s \o t)[i] = (m(s) \o m(t))[i]
  <2>1. m(s \o t)[i] = Framed((s \o t)[i])
    BY <1>1, <1>2
  <2>2. CASE i <= Len(s)
    <3>1. i \in 1 .. Len(s)
      BY <1>1, <2>2
    <3>2. QED
      BY <1>1, <1>2, <1>3, <2>1, <2>2, <3>1
  <2>3. CASE ~(i <= Len(s))
    <3>1. i - Len(s) \in 1 .. Len(t)
      BY <1>1, <2>3
    <3>2. QED
      BY <1>1, <1>2, <1>3, <2>1, <2>3, <3>1
  <2>4. QED
    BY <2>2, <2>3
<1>5. m(s \o t) = m(s) \o m(t)
  <2>1. m(s \o t) \in Seq(Seq(Nat)) /\ Len(m(s \o t)) = Len(s) + Len(t)
    BY <1>1, <1>2
  <2>2. QED
    BY <1>3, <1>4, <2>1, SeqEqual
<1>6. FlattenSeq(m(s) \o m(t)) = FlattenSeq(m(s)) \o FlattenSeq(m(t))
  BY <1>2, FlattenConcat
<1>7. QED
  BY <1>5, <1>6 DEF FramedAll, m

LEMMA FramedAllOne ==
  ASSUME NEW line \in Lines
  PROVE  FramedAll(<<line>>) = Framed(line)
<1>1. [i \in DOMAIN <<line>> |-> Framed(<<line>>[i])] = <<Framed(line)>>
  OBVIOUS
<1>2. QED
  BY <1>1, FramedBytes, FlattenOne DEF FramedAll

-----------------------------------------------------------------------------
(* Reading bytes from left to right                                         *)

\* The fold of the first n characters, as the library computes it.
TakesTo(f, seq, n) ==
  f = [s \in SUBSET (1 .. n) |->
         IF s = {} THEN NoBytes ELSE Taken(f[s \ {Max(s)}], seq[Max(s)])]

LEMMA TakesToExists ==
  ASSUME NEW seq, NEW n \in Nat
  PROVE  \E f : TakesTo(f, seq, n)
<1> DEFINE T == {m \in Nat : \E f : TakesTo(f, seq, m)}
<1>1. 0 \in T
  <2> DEFINE f == [s \in SUBSET (1 .. 0) |-> NoBytes]
  <2>1. \A s \in SUBSET (1 .. 0) : s = {}
    OBVIOUS
  <2>2. f = [s \in SUBSET (1 .. 0) |->
               IF s = {} THEN NoBytes ELSE Taken(f[s \ {Max(s)}], seq[Max(s)])]
    BY <2>1
  <2>3. TakesTo(f, seq, 0)
    BY <2>2 DEF TakesTo
  <2>4. QED
    BY <2>3
<1>2. ASSUME NEW m \in Nat, m \in T PROVE m + 1 \in T
  <2>1. PICK f : TakesTo(f, seq, m)
    BY <1>2
  <2> DEFINE g == [s \in SUBSET (1 .. m + 1) |->
                     IF m + 1 \in s THEN Taken(f[s \ {m + 1}], seq[m + 1]) ELSE f[s]]
             val(s) == IF s = {} THEN NoBytes ELSE Taken(g[s \ {Max(s)}], seq[Max(s)])
  <2>2. \A s \in SUBSET (1 .. m) :
          f[s] = IF s = {} THEN NoBytes ELSE Taken(f[s \ {Max(s)}], seq[Max(s)])
    BY <2>1 DEF TakesTo
  <2>3. \A s \in SUBSET (1 .. m) : s \in SUBSET (1 .. m + 1) /\ m + 1 \notin s /\ g[s] = f[s]
    OBVIOUS
  <2>4. ASSUME NEW s \in SUBSET (1 .. m + 1) PROVE g[s] = val(s)
    <3>1. CASE m + 1 \in s
      <4>1. Max(s) \in s /\ \A y \in s : y <= Max(s)
        BY <3>1, MaxOf
      <4>2. Max(s) = m + 1
        <5>1. Max(s) \in 1 .. m + 1 /\ m + 1 <= Max(s)
          BY <3>1, <4>1
        <5>2. QED
          BY <5>1
      <4>3. s \ {m + 1} \in SUBSET (1 .. m)
        OBVIOUS
      <4>4. g[s \ {m + 1}] = f[s \ {m + 1}]
        BY <2>3, <4>3
      <4>5. g[s] = Taken(f[s \ {m + 1}], seq[m + 1])
        BY <3>1
      <4> HIDE DEF g
      <4>6. QED
        BY <3>1, <4>2, <4>4, <4>5
    <3>2. CASE m + 1 \notin s
      <4>1. s \in SUBSET (1 .. m)
        BY <3>2
      <4>2. g[s] = f[s]
        BY <2>3, <4>1
      <4>3. CASE s = {}
        BY <2>2, <4>1, <4>2, <4>3
      <4>4. CASE s # {}
        <5>1. s \ {Max(s)} \in SUBSET (1 .. m)
          BY <4>1
        <5>2. g[s \ {Max(s)}] = f[s \ {Max(s)}]
          BY <2>3, <5>1
        <5> HIDE DEF g
        <5>3. QED
          BY <2>2, <4>1, <4>2, <4>4, <5>2
      <4>5. QED
        BY <4>3, <4>4
    <3>3. QED
      BY <3>1, <3>2
  <2>5. g = [s \in SUBSET (1 .. m + 1) |-> val(s)]
    <3>1. g = [s \in SUBSET (1 .. m + 1) |-> g[s]]
      OBVIOUS
    <3> HIDE DEF g, val
    <3>2. QED
      BY <2>4, <3>1
  <2>6. TakesTo(g, seq, m + 1)
    <3> HIDE DEF g
    <3>1. QED
      BY <2>5 DEF TakesTo
  <2>7. \E h : TakesTo(h, seq, m + 1)
    <3> HIDE DEF g
    <3>1. QED
      BY <2>6
  <2>8. QED
    BY <2>7
<1> HIDE DEF T
<1>3. Nat \subseteq T
  BY <1>1, <1>2, NatSetInduction
<1>4. QED
  BY <1>3 DEF T

LEMMA TakesToAgree ==
  ASSUME NEW a, NEW b, NEW f, NEW g, NEW m \in Nat, NEW n \in Nat, m <= n,
         TakesTo(f, a, m), TakesTo(g, b, n), \A i \in 1 .. m : a[i] = b[i]
  PROVE  \A s \in SUBSET (1 .. m) : f[s] = g[s]
<1> DEFINE T == {k \in Nat : k <= m => \A s \in SUBSET (1 .. k) : f[s] = g[s]}
<1>1. /\ \A s \in SUBSET (1 .. m) :
           f[s] = IF s = {} THEN NoBytes ELSE Taken(f[s \ {Max(s)}], a[Max(s)])
      /\ \A s \in SUBSET (1 .. n) :
           g[s] = IF s = {} THEN NoBytes ELSE Taken(g[s \ {Max(s)}], b[Max(s)])
  BY DEF TakesTo
<1>2. \A k \in Nat : k <= m =>
        \A s \in SUBSET (1 .. k) : s \in SUBSET (1 .. m) /\ s \in SUBSET (1 .. n)
  OBVIOUS
<1>3. 0 \in T
  <2>1. \A s \in SUBSET (1 .. 0) : s = {}
    OBVIOUS
  <2>2. {} \in SUBSET (1 .. m) /\ {} \in SUBSET (1 .. n)
    OBVIOUS
  <2>3. f[{}] = NoBytes /\ g[{}] = NoBytes
    BY <1>1, <2>2
  <2>4. QED
    BY <2>1, <2>3
<1>4. ASSUME NEW k \in Nat, k \in T PROVE k + 1 \in T
  <2> SUFFICES k + 1 <= m => \A s \in SUBSET (1 .. k + 1) : f[s] = g[s]
    BY <1>4
  <2> SUFFICES ASSUME k + 1 <= m, NEW s \in SUBSET (1 .. k + 1) PROVE f[s] = g[s]
    OBVIOUS
  <2>1. k <= m /\ \A u \in SUBSET (1 .. k) : f[u] = g[u]
    BY <1>4
  <2>2. s \in SUBSET (1 .. m) /\ s \in SUBSET (1 .. n)
    BY <1>2
  <2>3. CASE s = {}
    BY <1>1, <2>2, <2>3
  <2>4. CASE s # {}
    <3>1. Max(s) \in 1 .. k + 1 /\ \A y \in s : y <= Max(s)
      BY <2>4, MaxOf
    <3>2. s \ {Max(s)} \in SUBSET (1 .. k) /\ Max(s) \in 1 .. m
      <4> DEFINE x == Max(s)
      <4>1. x \in 1 .. k + 1 /\ \A y \in s : y <= x
        BY <3>1
      <4> HIDE DEF x
      <4>2. \A y \in s \ {x} : y \in 1 .. k
        BY <4>1
      <4>3. x \in 1 .. m
        BY <4>1
      <4>4. QED
        BY <4>2, <4>3 DEF x
    <3>3. f[s \ {Max(s)}] = g[s \ {Max(s)}] /\ a[Max(s)] = b[Max(s)]
      BY <2>1, <3>2
    <3>4. QED
      BY <1>1, <2>2, <2>4, <3>3
  <2>5. QED
    BY <2>3, <2>4
<1> HIDE DEF T
<1>5. Nat \subseteq T
  BY <1>3, <1>4, NatSetInduction
<1>6. QED
  BY <1>5 DEF T

LEMMA ScanIsFold ==
  ASSUME NEW S, NEW text \in Seq(S)
  PROVE  \E f : /\ TakesTo(f, text, Len(text))
                /\ Scan(text) = f[1 .. Len(text)]
<1> DEFINE F(f) == f = [s \in SUBSET DOMAIN text |->
                          IF s = {} THEN NoBytes
                          ELSE Taken(f[s \ {Max(s)}], text[Max(s)])]
<1>1. DOMAIN text = 1 .. Len(text) /\ Len(text) \in Nat
  BY LenProperties
<1>2. Scan(text) = (CHOOSE f : F(f))[DOMAIN text]
  BY DEF Scan, FoldLeft, MapThenFoldSet
<1>3. \A f : F(f) <=> TakesTo(f, text, Len(text))
  BY <1>1 DEF TakesTo
<1> HIDE DEF F
<1>4. \E f : F(f)
  BY <1>1, <1>3, TakesToExists
<1>5. F(CHOOSE f : F(f))
  BY <1>4
<1>6. QED
  BY <1>1, <1>2, <1>3, <1>5

LEMMA ScanEmpty == Scan(<<>>) = NoBytes
<1>1. <<>> \in Seq({}) /\ Len(<<>>) = 0
  OBVIOUS
<1>2. PICK f : TakesTo(f, <<>>, 0) /\ Scan(<<>>) = f[1 .. 0]
  BY <1>1, ScanIsFold
<1>3. 1 .. 0 = {} /\ {} \in SUBSET (1 .. 0)
  OBVIOUS
<1>4. f[{}] = NoBytes
  BY <1>2, <1>3 DEF TakesTo
<1>5. QED
  BY <1>2, <1>3, <1>4

LEMMA ScanAppend ==
  ASSUME NEW S, NEW text \in Seq(S), NEW c \in S
  PROVE  Scan(Append(text, c)) = Taken(Scan(text), c)
<1> DEFINE n == Len(text)
           a == Append(text, c)
<1>1. /\ n \in Nat /\ a \in Seq(S) /\ Len(a) = n + 1 /\ a[n + 1] = c
      /\ \A i \in 1 .. n : text[i] = a[i]
  BY AppendProperties, LenProperties
<1>2. PICK f : TakesTo(f, text, n) /\ Scan(text) = f[1 .. n]
  BY ScanIsFold
<1> HIDE DEF n, a
<1>3. PICK g : TakesTo(g, a, n + 1) /\ Scan(a) = g[1 .. n + 1]
  BY <1>1, ScanIsFold
<1>4. f[1 .. n] = g[1 .. n]
  <2>1. n <= n + 1 /\ n + 1 \in Nat /\ 1 .. n \in SUBSET (1 .. n)
    BY <1>1
  <2>2. QED
    BY <1>1, <1>2, <1>3, <2>1, TakesToAgree
<1> DEFINE s == 1 .. n + 1
<1>5. s \in SUBSET (1 .. n + 1) /\ s # {} /\ n + 1 \in s
  <2>1. n + 1 \in 1 .. n + 1
    BY <1>1
  <2>2. QED
    BY <2>1
<1>6. Max(s) = n + 1
  <2> HIDE DEF s
  <2>0. n + 1 \in Nat
    BY <1>1
  <2>1. Max(s) \in 1 .. n + 1 /\ \A y \in s : y <= Max(s)
    BY <1>5, <2>0, MaxOf
  <2>2. n + 1 <= Max(s)
    BY <1>5, <2>1
  <2> DEFINE x == Max(s)
  <2>3. x \in 1 .. n + 1 /\ n + 1 <= x
    BY <2>1, <2>2
  <2> HIDE DEF x
  <2>4. x = n + 1
    BY <1>1, <2>3
  <2>5. QED
    BY <2>4 DEF x
<1>7. s \ {n + 1} = 1 .. n
  BY <1>1
<1> HIDE DEF s
<1>8. g[s] = Taken(g[s \ {Max(s)}], a[Max(s)])
  BY <1>3, <1>5 DEF TakesTo
<1>9. g[s] = Taken(f[1 .. n], c)
  BY <1>1, <1>4, <1>6, <1>7, <1>8
<1>10. QED
  BY <1>2, <1>3, <1>9 DEF s, n, a

-----------------------------------------------------------------------------
(* The lines of bytes                                                      *)

LEMMA FirstNewline ==
  ASSUME NEW b \in Seq(Nat), \E i \in DOMAIN b : b[i] = NL,
         NEW n, n = SelectInSeq(b, LAMBDA x : x = NL)
  PROVE  /\ n \in 1 .. Len(b) /\ b[n] = NL
         /\ \A j \in 1 .. n - 1 : b[j] # NL
<1> DEFINE I == {i \in 1 .. Len(b) : b[i] = NL}
<1>1. DOMAIN b = 1 .. Len(b) /\ Len(b) \in Nat
  BY LenProperties
<1>2. I # {} /\ I \in SUBSET Nat
  BY <1>1
<1>3. n = Min(I)
  BY <1>2 DEF SelectInSeq
<1> HIDE DEF I
<1>4. n \in I /\ \A m \in I : n <= m
  BY <1>2, <1>3, NatLeast DEF Min
<1>5. n \in 1 .. Len(b) /\ b[n] = NL
  BY <1>4 DEF I
<1>6. ASSUME NEW j \in 1 .. n - 1, b[j] = NL PROVE FALSE
  <2>1. j \in 1 .. Len(b) /\ ~(n <= j)
    BY <1>1, <1>5
  <2>2. j \in I
    BY <1>6, <2>1 DEF I
  <2>3. QED
    BY <1>4, <2>1, <2>2
<1>7. QED
  BY <1>5, <1>6

LEMMA LinesAppend ==
  \A s, t \in Seq(Seq(Nat)), l \in Seq(Nat) : s \o Append(t, l) = Append(s \o t, l)
<1>1. ASSUME NEW s \in Seq(Seq(Nat)), NEW t \in Seq(Seq(Nat)), NEW l \in Seq(Nat)
      PROVE  s \o Append(t, l) = Append(s \o t, l)
  BY AppendConcat
<1>2. QED
  BY <1>1

LEMMA BytesAppend ==
  \A s, t \in Seq(Nat), b \in Nat : s \o Append(t, b) = Append(s \o t, b)
<1>1. ASSUME NEW s \in Seq(Nat), NEW t \in Seq(Nat), NEW b \in Nat
      PROVE  s \o Append(t, b) = Append(s \o t, b)
  BY AppendConcat
<1>2. QED
  BY <1>1

LEMMA BytesLast ==
  \A s \in Seq(Nat), b \in Nat : s \o <<b>> = Append(s, b)
<1>1. ASSUME NEW s \in Seq(Nat), NEW b \in Nat
      PROVE  s \o <<b>> = Append(s, b)
  BY AppendIsConcat
<1>2. QED
  BY <1>1

Scans == [lines : Seq(Seq(Nat)), open : Seq(Nat)]

LEMMA LineType ==
  ASSUME NEW line \in Seq(Nat)
  PROVE  Strip(DropCR(line)) \in Seq(Nat)
<1>1. ASSUME NEW s \in Seq(Nat) PROVE DropCR(s) \in Seq(Nat)
  <2>1. CASE s # <<>> /\ s[Len(s)] = CR
    <3>1. Len(s) - 1 \in 0 .. Len(s)
      BY <2>1, EmptySeq, LenProperties
    <3>2. SubSeq(s, 1, Len(s) - 1) \in Seq(Nat)
      BY <3>1, CutInTwo
    <3>3. QED
      BY <2>1, <3>2 DEF DropCR
  <2>2. CASE ~(s # <<>> /\ s[Len(s)] = CR)
    BY <2>2 DEF DropCR
  <2>3. QED
    BY <2>1, <2>2
<1>2. ASSUME NEW s \in Seq(Nat) PROVE Strip(s) \in Seq(Nat)
  <2>0. Header \in Nat /\ Len(s) \in Nat
    BY LogStreamAssumption, LenProperties
  <2>1. CASE Len(s) > Header
    <3>1. Header \in 0 .. Len(s)
      BY <2>0, <2>1
    <3>2. QED
      BY <2>1, <3>1, CutInTwo DEF Strip
  <2>2. CASE ~(Len(s) > Header)
    BY <2>2 DEF Strip
  <2>3. QED
    BY <2>1, <2>2
<1>3. QED
  BY <1>1, <1>2

LEMMA TakenType ==
  ASSUME NEW scan \in Scans, NEW b \in Nat
  PROVE  Taken(scan, b) \in Scans
<1>1. scan.lines \in Seq(Seq(Nat)) /\ scan.open \in Seq(Nat)
  BY DEF Scans
<1>2. Strip(DropCR(scan.open)) \in Seq(Nat)
  BY <1>1, LineType
<1> DEFINE line == Strip(DropCR(scan.open))
<1> HIDE DEF line
<1>3. \A s \in Seq(Seq(Nat)), l \in Seq(Nat) : Append(s, l) \in Seq(Seq(Nat))
  BY AppendProperties
<1>4. \A s \in Seq(Nat) : Append(s, b) \in Seq(Nat)
  BY AppendProperties
<1>5. Append(scan.lines, line) \in Seq(Seq(Nat)) /\ Append(scan.open, b) \in Seq(Nat)
  BY <1>1, <1>2, <1>3, <1>4 DEF line
<1>6. CASE b = NL
  <2>1. Taken(scan, b) = [lines |-> Append(scan.lines, line), open |-> <<>>]
    BY <1>6 DEF Taken, line
  <2>2. <<>> \in Seq(Nat)
    OBVIOUS
  <2>3. QED
    BY <1>5, <2>1, <2>2 DEF Scans
<1>7. CASE b # NL
  <2>1. Taken(scan, b) = [lines |-> scan.lines, open |-> Append(scan.open, b)]
    BY <1>7 DEF Taken
  <2>2. QED
    BY <1>1, <1>5, <2>1 DEF Scans
<1>8. QED
  BY <1>6, <1>7

LEMMA ScanType ==
  ASSUME NEW bytes \in Seq(Nat)
  PROVE  /\ Scan(bytes) \in Scans
         /\ Scan(bytes).lines \in Seq(Seq(Nat)) /\ Scan(bytes).open \in Seq(Nat)
<1> DEFINE T == {s \in Seq(Nat) : Scan(s) \in Scans}
<1>1. <<>> \in T
  <2>1. <<>> \in Seq(Nat) /\ NoBytes \in Scans
    BY DEF NoBytes, Scans
  <2>2. QED
    BY <2>1, ScanEmpty
<1>2. ASSUME NEW s \in Seq(Nat), NEW b \in Nat, s \in T PROVE Append(s, b) \in T
  <2>1. Scan(Append(s, b)) = Taken(Scan(s), b)
    BY ScanAppend
  <2>2. Append(s, b) \in Seq(Nat)
    BY AppendProperties
  <2>3. QED
    BY <1>2, <2>1, <2>2, TakenType
<1> HIDE DEF T
<1>3. Seq(Nat) \subseteq T
  BY <1>1, <1>2, SeqSetInduction
<1>4. Scan(bytes) \in Scans
  BY <1>3 DEF T
<1>5. QED
  BY <1>4 DEF Scans

\* Bytes without a newline end no line.
LEMMA ScanOpen ==
  ASSUME NEW s \in Seq(Nat), NEW t \in Seq(Nat \ {NL})
  PROVE  Scan(s \o t) = [lines |-> Scan(s).lines, open |-> Scan(s).open \o t]
<1> DEFINE N == Nat \ {NL}
           l == Scan(s).lines
           o == Scan(s).open
           T == {u \in Seq(N) : Scan(s \o u) = [lines |-> l, open |-> o \o u]}
<1>1. Scan(s) \in Scans /\ l \in Seq(Seq(Nat)) /\ o \in Seq(Nat)
  BY ScanType
<1>2. Scan(s) = [lines |-> l, open |-> o]
  BY <1>1 DEF Scans
<1> HIDE DEF l, o
<1>3. <<>> \in T
  <2>1. s \o <<>> = s /\ o \o <<>> = o /\ <<>> \in Seq(N)
    BY <1>1, ConcatEmptySeq
  <2>2. QED
    BY <1>2, <2>1
<1>4. ASSUME NEW u \in Seq(N), NEW b \in N, u \in T PROVE Append(u, b) \in T
  <2>1. u \in Seq(Nat) /\ b \in Nat /\ b # NL
    BY SeqMonotonic
  <2>2. \A x \in Seq(Nat) : x \o Append(u, b) = Append(x \o u, b) /\ x \o u \in Seq(Nat)
    <3>1. \A x \in Seq(Nat) : x \o Append(u, b) = Append(x \o u, b)
      BY <2>1, BytesAppend
    <3>2. \A x \in Seq(Nat) : x \o u \in Seq(Nat)
      BY <2>1, ConcatProperties
    <3>3. QED
      BY <3>1, <3>2
  <2>3. Scan(Append(s \o u, b)) = Taken(Scan(s \o u), b)
    BY <2>1, <2>2, ScanAppend
  <2>4. Scan(s \o u) = [lines |-> l, open |-> o \o u]
    BY <1>4
  <2>5. Taken([lines |-> l, open |-> o \o u], b) = [lines |-> l, open |-> Append(o \o u, b)]
    BY <2>1 DEF Taken
  <2>6. Append(u, b) \in Seq(N)
    BY AppendProperties
  <2>7. QED
    BY <1>1, <2>2, <2>3, <2>4, <2>5, <2>6
<1> HIDE DEF T
<1>5. Seq(N) \subseteq T
  BY <1>3, <1>4, SeqSetInduction
<1>6. QED
  BY <1>5 DEF T, l, o

\* A newline ends one.
LEMMA ScanNewline ==
  ASSUME NEW s \in Seq(Nat)
  PROVE  Scan(Append(s, NL))
           = [lines |-> Append(Scan(s).lines, Strip(DropCR(Scan(s).open))), open |-> <<>>]
<1>1. NL \in Nat
  BY LogStreamAssumption
<1>2. QED
  BY <1>1, ScanAppend DEF Taken

Begins(o, lines) == \E more \in Seq(Seq(Nat)) : lines = o \o more

LEMMA BeginsPrefix ==
  ASSUME NEW o \in Seq(Seq(Nat)), NEW lines, Begins(o, lines)
  PROVE  IsPrefix(o, lines)
<1>1. PICK more \in Seq(Seq(Nat)) : lines = o \o more
  BY DEF Begins
<1>2. /\ lines \in Seq(Seq(Nat)) /\ Len(lines) = Len(o) + Len(more)
      /\ \A i \in 1 .. Len(o) + Len(more) :
           lines[i] = IF i <= Len(o) THEN o[i] ELSE more[i - Len(o)]
  BY <1>1, ConcatProperties
<1>3. Len(o) \in Nat /\ Len(more) \in Nat
  BY <1>1, LenProperties
<1>4. \A i \in 1 .. Len(o) : i \in 1 .. Len(o) + Len(more) /\ i <= Len(o)
  BY <1>3
<1>5. Len(o) <= Len(lines)
  BY <1>2, <1>3
<1>6. \A i \in 1 .. Len(o) : o[i] = lines[i]
  BY <1>2, <1>4
<1>7. /\ SubSeq(o, 1, Len(o)) = [i \in 1 .. Len(o) |-> o[i]]
      /\ SubSeq(lines, 1, Len(o)) = [i \in 1 .. Len(o) |-> lines[i]]
  BY <1>2, <1>3, <1>5
<1>8. SubSeq(o, 1, Len(o)) = SubSeq(lines, 1, Len(o))
  BY <1>6, <1>7
<1>9. QED
  BY <1>5, <1>8 DEF IsPrefix

LEMMA ConcatThree ==
  \A s, t, u \in Seq(Seq(Nat)) : (s \o t) \o u = s \o (t \o u)
  BY SMTT(40), ConcatAssociative

\* More bytes leave the lines there were.
LEMMA ScanMore ==
  ASSUME NEW s \in Seq(Nat), NEW t \in Seq(Nat)
  PROVE  Begins(Scan(s).lines, Scan(s \o t).lines)
<1> DEFINE l == Scan(s).lines
           T == {u \in Seq(Nat) : Begins(l, Scan(s \o u).lines)}
<1>1. l \in Seq(Seq(Nat))
  BY ScanType
<1>2. <<>> \in T
  <2>1. s \o <<>> = s /\ l \o <<>> = l /\ <<>> \in Seq(Nat) /\ <<>> \in Seq(Seq(Nat))
    BY <1>1, ConcatEmptySeq
  <2>2. QED
    BY <2>1 DEF Begins
<1> HIDE DEF l
<1>3. ASSUME NEW u \in Seq(Nat), NEW b \in Nat, u \in T PROVE Append(u, b) \in T
  <2>1. s \o Append(u, b) = Append(s \o u, b) /\ s \o u \in Seq(Nat)
    BY AppendConcat, ConcatProperties
  <2> DEFINE scan == Scan(s \o u)
             line == Strip(DropCR(scan.open))
  <2>2. Scan(s \o Append(u, b)) = Taken(scan, b)
    BY <2>1, ScanAppend
  <2>3. scan.open \in Seq(Nat) /\ line \in Seq(Nat)
    BY <2>1, ScanType, LineType
  <2>4. PICK more \in Seq(Seq(Nat)) : scan.lines = l \o more
    BY <1>3 DEF Begins
  <2>5. \/ Taken(scan, b).lines = scan.lines
        \/ Taken(scan, b).lines = Append(scan.lines, line)
    BY DEF Taken
  <2> HIDE DEF scan, line
  <2>6. Append(l \o more, line) = l \o Append(more, line) /\ Append(more, line) \in Seq(Seq(Nat))
    <3>1. Append(more, line) \in Seq(Seq(Nat))
      BY <2>3, AppendProperties
    <3>2. l \o Append(more, line) = Append(l \o more, line)
      BY <1>1, <2>3, LinesAppend
    <3>3. QED
      BY <3>1, <3>2
  <2>7. Begins(l, Taken(scan, b).lines)
    BY <2>4, <2>5, <2>6 DEF Begins
  <2>8. Append(u, b) \in Seq(Nat)
    BY AppendProperties
  <2>9. QED
    BY <2>2, <2>7, <2>8
<1> HIDE DEF T
<1>4. Seq(Nat) \subseteq T
  BY <1>2, <1>3, SeqSetInduction
<1>5. QED
  BY <1>4 DEF T, l

LEMMA BeginsMore ==
  ASSUME NEW s \in Seq(Nat), NEW t \in Seq(Nat), NEW o \in Seq(Seq(Nat)),
         Begins(o, Scan(s).lines)
  PROVE  Begins(o, Scan(s \o t).lines)
<1>1. PICK more \in Seq(Seq(Nat)) : Scan(s).lines = o \o more
  BY DEF Begins
<1>2. PICK rest \in Seq(Seq(Nat)) : Scan(s \o t).lines = Scan(s).lines \o rest
  BY ScanMore DEF Begins
<1>3. more \o rest \in Seq(Seq(Nat))
  BY ConcatProperties
<1>4. Scan(s \o t).lines = o \o (more \o rest)
  <2>1. Scan(s).lines \o rest = (o \o more) \o rest
    BY <1>1
  <2>2. (o \o more) \o rest = o \o (more \o rest)
    BY ConcatThree
  <2>3. QED
    BY <1>2, <2>1, <2>2
<1>5. QED
  BY <1>3, <1>4 DEF Begins

-----------------------------------------------------------------------------
(* The invariant                                                           *)

StreamTypes ==
  /\ printed \in Seq(Lines) /\ first \in 0 .. Len(printed)
  /\ wire \in Seq(Nat) /\ pipe \in Seq(Nat) /\ buf \in Seq(Nat)
  /\ out \in Seq(Seq(Nat))
  /\ copier \in {"none", "copy", "closed"} /\ reader \in {"none", "scan", "done"}

\* All that Docker has sent or will send of what is printed.
Log == Sent(Len(printed))

\* The bytes under way.
Stream == buf \o (pipe \o wire)

\* The scanner is done with some bytes: o are their lines, and s come next.
Behind(o, s) ==
  \E taken \in Seq(Nat) : taken \o s = Log /\ Scan(taken) = [lines |-> o, open |-> <<>>]

StreamInv ==
  /\ StreamTypes
  /\ reader = "none" => /\ copier = "none" /\ out = <<>>
                        /\ buf = <<>> /\ pipe = <<>>
  /\ copier = "none" => reader = "none"
  /\ reader = "scan" => Behind(out, Stream)
  /\ reader = "scan" /\ copier = "closed" /\ ~cut => wire = <<>> /\ state = "ended"
  /\ reader = "done" =>
       \/ Begins(out, Scan(Log).lines)
       \/ cut /\ out # <<>> /\ Begins(Front(out), Scan(Log).lines)

LEMMA LogType ==
  ASSUME NEW p \in Seq(Lines), NEW m \in 0 .. Len(p)
  PROVE  /\ SubSeq(p, m + 1, Len(p)) \in Seq(Lines)
         /\ FramedAll(SubSeq(p, m + 1, Len(p))) \in Seq(Nat)
  BY CutInTwo, FramedAllType

LEMMA StreamFacts ==
  ASSUME StreamTypes
  PROVE  /\ Log \in Seq(Nat) /\ pipe \o wire \in Seq(Nat) /\ Stream \in Seq(Nat)
<1>1. Log \in Seq(Nat)
  BY LogType DEF StreamTypes, Log, Sent
<1>2. pipe \o wire \in Seq(Nat)
  BY ConcatProperties DEF StreamTypes
<1>3. QED
  BY <1>1, <1>2, ConcatProperties DEF StreamTypes, Stream

LEMMA FrontType ==
  ASSUME NEW o \in Seq(Seq(Nat)), o # <<>>
  PROVE  Front(o) \in Seq(Seq(Nat))
<1>1. Len(o) - 1 \in 0 .. Len(o)
  BY EmptySeq, LenProperties
<1>2. QED
  BY <1>1, CutInTwo DEF Front

LEMMA StreamInit == Init => StreamInv
<1> SUFFICES ASSUME Init PROVE StreamInv
  OBVIOUS
<1>1. StreamTypes
  BY DEF Init, StreamTypes
<1>2. QED
  BY <1>1 DEF Init, StreamInv

\* Lines that have been passed on are those of a beginning of the log.
LEMMA BehindBegins ==
  ASSUME NEW o \in Seq(Seq(Nat)), NEW s \in Seq(Nat), Behind(o, s)
  PROVE  Begins(o, Scan(Log).lines)
<1>1. PICK taken \in Seq(Nat) : /\ taken \o s = Log
                                /\ Scan(taken) = [lines |-> o, open |-> <<>>]
  BY DEF Behind
<1>2. Scan(taken).lines = o
  BY <1>1
<1>3. Begins(Scan(taken).lines, Scan(taken \o s).lines)
  BY ScanMore
<1>4. QED
  BY <1>1, <1>2, <1>3

LEMMA StreamExact == StreamInv => LinesAsSent
<1> SUFFICES ASSUME StreamInv PROVE LinesAsSent
  OBVIOUS
<1>1. StreamTypes /\ Stream \in Seq(Nat) /\ Log \in Seq(Nat) /\ out \in Seq(Seq(Nat))
  BY StreamFacts DEF StreamInv, StreamTypes
<1> DEFINE due == Scan(Log).lines
<1>2. due \in Seq(Seq(Nat))
  BY <1>1, ScanType
<1>3. Begins(out, due) \/ (cut /\ out # <<>> /\ Begins(Front(out), due))
  <2>1. CASE reader = "none"
    <3>1. out = <<>> /\ <<>> \o due = due
      BY <1>2, <2>1, ConcatEmptySeq DEF StreamInv
    <3>2. QED
      BY <1>2, <3>1 DEF Begins
  <2>2. CASE reader = "scan"
    BY <1>1, <2>2, BehindBegins DEF StreamInv
  <2>3. CASE reader = "done"
    BY <2>3 DEF StreamInv
  <2>4. QED
    BY <1>1, <2>1, <2>2, <2>3 DEF StreamTypes
<1> HIDE DEF due
<1>4. CASE Begins(out, due)
  <2>1. IsPrefix(out, due)
    BY <1>1, <1>4, BeginsPrefix
  <2>2. QED
    BY <2>1 DEF LinesAsSent, due, Log
<1>5. CASE cut /\ out # <<>> /\ Begins(Front(out), due)
  <2>1. Front(out) \in Seq(Seq(Nat))
    BY <1>1, <1>5, FrontType
  <2>2. IsPrefix(Front(out), due)
    BY <1>5, <2>1, BeginsPrefix
  <2>3. QED
    BY <1>5, <2>2 DEF LinesAsSent, due, Log
<1>6. QED
  BY <1>3, <1>4, <1>5

-----------------------------------------------------------------------------
(* The steps                                                               *)

LEMMA LogGrows ==
  ASSUME NEW p \in Seq(Lines), NEW m \in 0 .. Len(p), NEW line \in Lines
  PROVE  FramedAll(SubSeq(Append(p, line), m + 1, Len(p) + 1))
           = FramedAll(SubSeq(p, m + 1, Len(p))) \o Framed(line)
<1> DEFINE q == Append(p, line)
           n == Len(p)
           s == SubSeq(p, m + 1, n)
           t == SubSeq(q, m + 1, n)
<1>1. /\ q \in Seq(Lines) /\ Len(q) = n + 1 /\ q[n + 1] = line
      /\ \A i \in 1 .. n : q[i] = p[i]
      /\ n \in Nat /\ m \in Nat /\ m <= n
  BY AppendProperties, LenProperties
<1> HIDE DEF q
<1>2. s \in Seq(Lines)
  BY LogType
<1>3. t = s
  <2>1. \A i \in m + 1 .. n : p[i] \in Lines /\ q[i] = p[i]
    BY <1>1, ElementOfSeq
  <2> HIDE DEF n
  <2>2. /\ t \in Seq(Lines) /\ s \in Seq(Lines)
        /\ Len(t) = IF m + 1 <= n THEN n - (m + 1) + 1 ELSE 0
        /\ Len(s) = IF m + 1 <= n THEN n - (m + 1) + 1 ELSE 0
        /\ \A i \in 1 .. n - (m + 1) + 1 : t[i] = q[m + 1 + i - 1] /\ s[i] = p[m + 1 + i - 1]
    BY <1>1, <2>1, SubSeqProperties
  <2>3. ASSUME NEW i \in 1 .. Len(t) PROVE t[i] = s[i]
    <3> HIDE DEF s, t
    <3>1. i \in 1 .. n - (m + 1) + 1 /\ m + 1 + i - 1 \in m + 1 .. n
      BY <1>1, <2>2
    <3>2. QED
      BY <2>1, <2>2, <3>1
  <2>4. QED
    BY <2>2, <2>3, SeqEqual
<1>4. SubSeq(q, m + 1, n + 1) = t \o <<q[n + 1]>>
  <2> HIDE DEF n
  <2>1. m + 1 \in 1 .. Len(q) /\ n + 1 \in m + 1 .. Len(q) /\ (n + 1) - 1 = n
    BY <1>1
  <2>2. QED
    BY <1>1, <2>1, SubSeqRecursiveSecond
<1>5. SubSeq(q, m + 1, n + 1) = s \o <<line>>
  BY <1>1, <1>3, <1>4
<1> HIDE DEF s, t, n
<1>6. FramedAll(s \o <<line>>) = FramedAll(s) \o Framed(line)
  <2>1. <<line>> \in Seq(Lines)
    OBVIOUS
  <2>2. QED
    BY <1>2, <2>1, FramedAllConcat, FramedAllOne
<1>7. QED
  BY <1>5, <1>6 DEF q, n, s

LEMMA PrintLineKeeps ==
  ASSUME StreamInv, NEW line \in Lines, PrintLine(line)
  PROVE  StreamInv'
<1> USE DEF PrintLine
<1>1. StreamTypes /\ Framed(line) \in Seq(Nat)
  BY FramedBytes DEF StreamInv
<1>2. /\ printed \in Seq(Lines) /\ first \in 0 .. Len(printed)
      /\ printed' = Append(printed, line) /\ first' = first /\ out' = out
  BY <1>1 DEF StreamTypes
<1>3. printed' \in Seq(Lines) /\ Len(printed') = Len(printed) + 1
  BY <1>2, AppendProperties
<1>4. Log' = Log \o Framed(line) /\ Log \in Seq(Nat)
  <2>1. FramedAll(SubSeq(Append(printed, line), first + 1, Len(printed) + 1))
          = FramedAll(SubSeq(printed, first + 1, Len(printed))) \o Framed(line)
    BY <1>2, LogGrows
  <2>2. Log' = FramedAll(SubSeq(Append(printed, line), first + 1, Len(printed) + 1))
    BY <1>2, <1>3 DEF Log, Sent
  <2>3. QED
    BY <1>1, <2>1, <2>2, StreamFacts DEF Log, Sent
<1>5. wire' \in Seq(Nat)
  BY <1>1, ConcatProperties DEF StreamTypes
<1>6. first' \in 0 .. Len(printed')
  <2>1. Len(printed) \in Nat
    BY <1>2, LenProperties
  <2>2. QED
    BY <1>2, <1>3, <2>1
<1>7. StreamTypes'
  BY <1>1, <1>3, <1>5, <1>6 DEF StreamTypes
<1>8. ASSUME reader = "scan"
      PROVE  Behind(out, Stream)'
  <2>1. copier # "none" /\ Behind(out, Stream)
    BY <1>8 DEF StreamInv
  <2>2. PICK taken \in Seq(Nat) : /\ taken \o Stream = Log
                                  /\ Scan(taken) = [lines |-> out, open |-> <<>>]
    BY <2>1 DEF Behind
  <2>3. wire' = wire \o Framed(line) /\ buf' = buf /\ pipe' = pipe
    BY <2>1
  <2>4. Stream' = Stream \o Framed(line)
    <3>1. /\ buf \in Seq(Nat) /\ pipe \in Seq(Nat) /\ wire \in Seq(Nat)
          /\ pipe \o wire \in Seq(Nat)
      BY <1>1, StreamFacts DEF StreamTypes
    <3>2. pipe \o (wire \o Framed(line)) = (pipe \o wire) \o Framed(line)
      BY SMTT(40), <1>1, <3>1, Regroup
    <3>3. buf \o ((pipe \o wire) \o Framed(line)) = (buf \o (pipe \o wire)) \o Framed(line)
      BY ZenonT(60), <1>1, <3>1, Regroup
    <3>4. QED
      BY <2>3, <3>2, <3>3 DEF Stream
  <2>5. taken \o (Stream \o Framed(line)) = (taken \o Stream) \o Framed(line)
    BY <1>1, StreamFacts, Regroup
  <2>6. taken \o Stream' = Log'
    BY <1>4, <2>2, <2>4, <2>5
  <2>7. QED
    BY <1>2, <2>2, <2>6 DEF Behind
<1>9. Begins(out, Scan(Log).lines) => Begins(out', Scan(Log').lines)
  BY <1>1, <1>2, <1>4, BeginsMore DEF StreamTypes
<1>10. out # <<>> /\ Begins(Front(out), Scan(Log).lines)
         => out' # <<>> /\ Begins(Front(out'), Scan(Log').lines)
  <2>1. out # <<>> => Front(out) \in Seq(Seq(Nat))
    BY <1>1, FrontType DEF StreamTypes
  <2>2. QED
    BY <1>1, <1>2, <1>4, <2>1, BeginsMore
<1>11. state = "running" /\ UNCHANGED <<state, cut, copier, pipe, reader, buf, out>>
  OBVIOUS
<1>12. QED
  BY <1>7, <1>8, <1>9, <1>10, <1>11 DEF StreamInv

LEMMA AttachKeeps ==
  ASSUME StreamInv, Attach
  PROVE  StreamInv'
<1> USE DEF Attach
<1>1. /\ StreamTypes /\ out = <<>> /\ buf = <<>> /\ pipe = <<>>
      /\ UNCHANGED <<printed, state, cut, pipe, buf, out>>
  BY DEF StreamInv
<1>2. Len(printed) \in Nat /\ TailLines \in Nat /\ printed \in Seq(Lines)
  BY <1>1, LogStreamAssumption, LenProperties DEF StreamTypes
<1>3. CASE ~cut /\ reader' = "scan"
  <2>1. /\ first' \in 0 .. Len(printed)
        /\ wire' = FramedAll(SubSeq(printed, first' + 1, Len(printed)))
        /\ copier' = "copy"
    BY <1>2, <1>3
  <2>2. wire' \in Seq(Nat)
    BY <1>2, <2>1, LogType
  <2>3. StreamTypes'
    BY <1>1, <1>3, <2>1, <2>2 DEF StreamTypes
  <2>4. Log' = wire'
    BY <1>1, <2>1 DEF Log, Sent
  <2>5. Stream' = wire' /\ <<>> \o wire' = wire'
    BY <1>1, <2>2, ConcatEmptySeq DEF Stream
  <2>6. Scan(<<>>) = [lines |-> out', open |-> <<>>] /\ <<>> \in Seq(Nat)
    BY <1>1, ScanEmpty DEF NoBytes
  <2>7. Behind(out, Stream)'
    BY <2>4, <2>5, <2>6 DEF Behind
  <2>8. QED
    BY <1>3, <2>1, <2>3, <2>7 DEF StreamInv
<1>4. CASE cut /\ reader' = "done"
  <2>1. UNCHANGED <<first, wire>> /\ copier' = "closed"
    BY <1>4
  <2>2. StreamTypes'
    BY <1>1, <1>4, <2>1 DEF StreamTypes
  <2>3. Scan(Log').lines \in Seq(Seq(Nat))
    BY <1>1, <2>1, StreamFacts, ScanType DEF Log, Sent
  <2>4. Begins(out', Scan(Log').lines)
    BY <1>1, <2>3, ConcatEmptySeq DEF Begins
  <2>5. QED
    BY <1>4, <2>1, <2>2, <2>4 DEF StreamInv
<1>5. QED
  BY <1>3, <1>4

\* A step that moves bytes on but neither changes nor scans them.
LEMMA BytesMoved ==
  ASSUME StreamInv, StreamTypes', Stream' = Stream,
         UNCHANGED <<printed, first, cut, out, reader>>,
         reader # "none", copier' # "none",
         reader = "scan" /\ copier' = "closed" /\ ~cut => wire' = <<>> /\ state' = "ended"
  PROVE  StreamInv'
<1>1. Log' = Log
  BY DEF Log, Sent
<1>2. Behind(out, Stream) => Behind(out, Stream)'
  BY <1>1 DEF Behind
<1>3. Front(out)' = Front(out)
  BY DEF Front
<1>4. QED
  BY <1>1, <1>2, <1>3 DEF StreamInv

LEMMA CopyReadKeeps ==
  ASSUME StreamInv, CopyRead
  PROVE  StreamInv'
<1> USE DEF CopyRead
<1>1. /\ StreamTypes /\ copier = "copy" /\ pipe = <<>>
      /\ UNCHANGED <<printed, first, state, cut, copier, reader, buf, out>>
  BY DEF StreamInv
<1>2. pipe' \in Seq(Nat) /\ wire' \in Seq(Nat) /\ pipe' \o wire' = wire
  <2>1. Len(wire) \in Nat /\ wire \in Seq(Nat)
    BY <1>1, LenProperties DEF StreamTypes
  <2>2. PICK n \in 1 .. Len(wire) : /\ pipe' = SubSeq(wire, 1, n)
                                    /\ wire' = SubSeq(wire, n + 1, Len(wire))
    OBVIOUS
  <2>3. n \in 0 .. Len(wire)
    BY <2>1
  <2>4. QED
    BY <2>1, <2>2, <2>3, CutInTwo
<1>3. Stream' = Stream
  <2>1. pipe \o wire = wire
    BY <1>1, ConcatEmptySeq DEF StreamTypes
  <2>2. QED
    BY <1>1, <1>2, <2>1 DEF Stream
<1>4. StreamTypes'
  BY <1>1, <1>2 DEF StreamTypes
<1>5. reader # "none"
  BY <1>1 DEF StreamInv
<1>6. QED
  BY <1>1, <1>3, <1>4, <1>5, BytesMoved

LEMMA ReadPipeKeeps ==
  ASSUME StreamInv, ReadPipe
  PROVE  StreamInv'
<1> DEFINE room == TokenMax - Len(buf)
           n == IF Len(pipe) < room THEN Len(pipe) ELSE room
<1>1. /\ StreamTypes /\ reader = "scan" /\ Len(buf) < TokenMax
      /\ buf' = buf \o SubSeq(pipe, 1, n)
      /\ pipe' = SubSeq(pipe, n + 1, Len(pipe))
      /\ UNCHANGED <<printed, first, wire, state, cut, copier, reader, out>>
  BY DEF StreamInv, ReadPipe, Scanning
<1>2. n \in 0 .. Len(pipe)
  <2>1. /\ Len(buf) \in Nat /\ Len(pipe) \in Nat /\ TokenMax \in Nat
        /\ Len(buf) < TokenMax
    BY <1>1, LogStreamAssumption, LenProperties DEF StreamTypes
  <2>2. CASE Len(pipe) < room
    BY <2>1, <2>2
  <2>3. CASE ~(Len(pipe) < room)
    BY <2>1, <2>3
  <2>4. QED
    BY <2>2, <2>3
<1> HIDE DEF n
<1> DEFINE head == SubSeq(pipe, 1, n)
<1>3. /\ head \in Seq(Nat) /\ pipe' \in Seq(Nat)
      /\ head \o pipe' = pipe
      /\ buf \in Seq(Nat) /\ wire \in Seq(Nat)
  BY <1>1, <1>2, CutInTwo DEF StreamTypes
<1>4. buf' = buf \o head
  BY <1>1
<1> HIDE DEF head
<1>5. buf' \in Seq(Nat)
  BY <1>3, <1>4, ConcatProperties
<1>6. Stream' = Stream
  <2>1. pipe' \o wire \in Seq(Nat)
    BY <1>3, ConcatProperties
  <2>2. (buf \o head) \o (pipe' \o wire) = buf \o (head \o (pipe' \o wire))
    BY <1>3, <2>1, Regroup
  <2>3. head \o (pipe' \o wire) = (head \o pipe') \o wire
    BY <1>3, Regroup
  <2>4. QED
    BY <1>1, <1>3, <1>4, <2>2, <2>3 DEF Stream
<1>7. StreamTypes'
  BY <1>1, <1>3, <1>5 DEF StreamTypes
<1>8. /\ copier # "none"
      /\ copier = "closed" /\ ~cut => wire = <<>> /\ state = "ended"
  BY <1>1 DEF StreamInv
<1>9. QED
  BY <1>1, <1>6, <1>7, <1>8, BytesMoved

LEMMA ScanLineKeeps ==
  ASSUME StreamInv, ScanLine
  PROVE  StreamInv'
<1> DEFINE n == SelectInSeq(buf, LAMBDA b : b = NL)
           piece == SubSeq(buf, 1, n - 1)
           rest == SubSeq(buf, n + 1, Len(buf))
           x == pipe \o wire
<1>1. /\ StreamTypes /\ reader = "scan" /\ Broken
      /\ out' = Append(out, Strip(DropCR(piece))) /\ buf' = rest
      /\ UNCHANGED <<printed, first, wire, state, cut, copier, pipe, reader>>
  BY DEF StreamInv, ScanLine
<1>2. /\ Behind(out, Stream)
      /\ (copier = "closed" /\ ~cut) => wire = <<>> /\ state = "ended"
      /\ copier # "none"
  BY <1>1 DEF StreamInv
<1>3. /\ buf \in Seq(Nat) /\ x \in Seq(Nat) /\ out \in Seq(Seq(Nat)) /\ Len(buf) \in Nat
  BY <1>1, StreamFacts, LenProperties DEF StreamTypes
<1>4. /\ n \in 1 .. Len(buf) /\ buf[n] = NL
      /\ \A j \in 1 .. n - 1 : buf[j] # NL
  BY <1>1, <1>3, FirstNewline DEF Broken
<1> HIDE DEF n, x
<1>5. piece \in Seq(Nat \ {NL}) /\ piece \in Seq(Nat)
  <2>1. \A i \in 1 .. n - 1 : buf[i] \in Nat \ {NL}
    <3>1. \A i \in 1 .. n - 1 : i \in 1 .. Len(buf)
      BY <1>3, <1>4
    <3>2. QED
      BY <1>3, <1>4, <3>1, ElementOfSeq
  <2>2. n - 1 \in Int /\ 1 \in Int
    BY <1>3, <1>4
  <2>3. piece \in Seq(Nat \ {NL})
    BY <2>1, <2>2, SubSeqProperties
  <2>4. QED
    BY <2>3, SeqMonotonic
<1>6. rest \in Seq(Nat) /\ Append(piece, NL) \o rest = buf /\ Append(piece, NL) \in Seq(Nat)
  <2>1. n \in 0 .. Len(buf) /\ 1 \in 1 .. Len(buf) /\ n \in 1 .. Len(buf)
    BY <1>3, <1>4
  <2>2. /\ SubSeq(buf, 1, n) \in Seq(Nat) /\ rest \in Seq(Nat)
        /\ SubSeq(buf, 1, n) \o rest = buf
    BY <1>3, <2>1, CutInTwo
  <2>3. SubSeq(buf, 1, n) = piece \o <<buf[n]>>
    BY <1>3, <2>1, SubSeqRecursiveSecond
  <2>4. piece \o <<NL>> = Append(piece, NL) /\ Append(piece, NL) \in Seq(Nat)
    <3>1. NL \in Nat
      BY LogStreamAssumption
    <3>2. Append(piece, NL) \in Seq(Nat)
      BY <1>5, <3>1, AppendProperties
    <3>3. QED
      BY <1>5, <3>1, <3>2, BytesLast
  <2>5. QED
    BY <1>4, <2>2, <2>3, <2>4
<1> HIDE DEF piece, rest
<1> DEFINE line == Strip(DropCR(piece))
<1>7. line \in Seq(Nat)
  BY <1>5, LineType
<1>8. PICK taken \in Seq(Nat) : /\ taken \o Stream = Log
                                /\ Scan(taken) = [lines |-> out, open |-> <<>>]
  BY <1>2 DEF Behind
<1>9. Scan(taken \o piece) = [lines |-> out, open |-> piece] /\ taken \o piece \in Seq(Nat)
  <2>1. Scan(taken \o piece) = [lines |-> Scan(taken).lines, open |-> Scan(taken).open \o piece]
    BY <1>5, ScanOpen
  <2>2. Scan(taken).lines = out /\ Scan(taken).open = <<>>
    BY <1>8
  <2>3. <<>> \o piece = piece
    BY <1>5, ConcatEmptySeq
  <2>4. taken \o piece \in Seq(Nat)
    BY <1>5, ConcatProperties
  <2>5. QED
    BY <2>1, <2>2, <2>3, <2>4
<1> DEFINE more == Append(taken \o piece, NL)
<1>10. Scan(more) = [lines |-> Append(out, line), open |-> <<>>]
  <2>1. Scan(taken \o piece).lines = out /\ Scan(taken \o piece).open = piece
    BY <1>9
  <2>2. QED
    BY <1>9, <2>1, ScanNewline
<1>11. more \in Seq(Nat) /\ more = taken \o Append(piece, NL)
  <2>1. NL \in Nat
    BY LogStreamAssumption
  <2>2. more \in Seq(Nat)
    BY <1>9, <2>1, AppendProperties
  <2>3. taken \o Append(piece, NL) = Append(taken \o piece, NL)
    BY <1>5, <2>1, BytesAppend
  <2>4. QED
    BY <2>2, <2>3
<1> HIDE DEF more
<1>12. more \o Stream' = Log
  <2>1. Stream' = rest \o x
    BY <1>1 DEF Stream, x
  <2>2. Stream = Append(piece, NL) \o (rest \o x)
    <3>1. (Append(piece, NL) \o rest) \o x = Append(piece, NL) \o (rest \o x)
      BY ZenonT(60), <1>3, <1>6, Regroup
    <3>2. QED
      BY <1>6, <3>1 DEF Stream, x
  <2>3. rest \o x \in Seq(Nat)
    BY <1>3, <1>6, ConcatProperties
  <2>4. (taken \o Append(piece, NL)) \o (rest \o x) = taken \o (Append(piece, NL) \o (rest \o x))
    BY <1>6, <2>3, Regroup
  <2>5. QED
    BY <1>8, <1>11, <2>1, <2>2, <2>4
<1>13. Log' = Log
  BY <1>1 DEF Log, Sent
<1>14. Behind(out, Stream)'
  BY <1>1, <1>10, <1>11, <1>12, <1>13 DEF Behind
<1>15. out' \in Seq(Seq(Nat))
  BY <1>1, <1>3, <1>7, AppendProperties
<1>16. StreamTypes'
  BY <1>1, <1>6, <1>15 DEF StreamTypes
<1>17. QED
  BY <1>1, <1>2, <1>14, <1>16 DEF StreamInv

\* A log is empty or ends with a newline.
LEMMA LogEnds ==
  ASSUME NEW lines \in Seq(Lines), FramedAll(lines) # <<>>
  PROVE  FramedAll(lines)[Len(FramedAll(lines))] = NL
<1> DEFINE n == Len(lines)
           front == SubSeq(lines, 1, n - 1)
           line == lines[n]
<1>1. lines # <<>>
  BY FramedAllEmpty
<1>2. n \in Nat /\ n >= 1 /\ line \in Lines
  BY <1>1, EmptySeq, LenProperties, ElementOfSeq
<1>3. front \in Seq(Lines) /\ lines = front \o <<line>>
  <2>1. 1 \in 1 .. n /\ n \in 1 .. n /\ n - 1 \in 0 .. n
    BY <1>2
  <2>2. SubSeq(lines, 1, n) = front \o <<line>>
    BY <2>1, SubSeqRecursiveSecond
  <2>3. QED
    BY <2>1, <2>2, CutInTwo, SubSeqFull
<1> HIDE DEF front, line
<1> DEFINE f == FramedAll(front)
           g == Framed(line)
<1>4. FramedAll(lines) = f \o g
  <2>1. <<line>> \in Seq(Lines)
    BY <1>2
  <2>2. QED
    BY <1>2, <1>3, <2>1, FramedAllConcat, FramedAllOne
<1>5. /\ f \in Seq(Nat) /\ g \in Seq(Nat) /\ Len(f) \in Nat /\ Len(g) \in Nat
      /\ Len(g) >= 1 /\ g[Len(g)] = NL
  BY <1>2, <1>3, FramedAllType, FramedBytes, LenProperties
<1> HIDE DEF f, g
<1>6. Len(f \o g) = Len(f) + Len(g) /\ (f \o g)[Len(f) + Len(g)] = NL
  <2>1. /\ Len(f) + Len(g) \in 1 .. Len(f) + Len(g)
        /\ ~(Len(f) + Len(g) <= Len(f))
        /\ (Len(f) + Len(g)) - Len(f) = Len(g)
    BY <1>5
  <2>2. QED
    BY <1>5, <2>1, ConcatProperties
<1>7. QED
  BY <1>4, <1>6

\* Once the pipe is closed and empty the scanner passes on what it has left:
\* nothing, unless the stream was cancelled in the middle of a line.
LEMMA ScanLastKeeps ==
  ASSUME StreamInv, ScanLast
  PROVE  StreamInv'
<1> DEFINE line == Strip(DropCR(buf))
<1>1. /\ StreamTypes /\ reader = "scan" /\ ~Broken /\ pipe = <<>>
      /\ copier = "closed" /\ buf' = <<>> /\ reader' = "done"
      /\ out' = IF buf = <<>> THEN out ELSE Append(out, line)
      /\ UNCHANGED <<printed, first, wire, state, cut, copier, pipe>>
  BY DEF StreamInv, ScanLast, Scanning
<1>2. Behind(out, Stream) /\ (~cut => wire = <<>>)
  BY <1>1 DEF StreamInv
<1>3. /\ buf \in Seq(Nat) /\ Len(buf) \in Nat /\ out \in Seq(Seq(Nat))
      /\ Stream \in Seq(Nat) /\ Log \in Seq(Nat) /\ line \in Seq(Nat)
  BY <1>1, StreamFacts, LenProperties, LineType DEF StreamTypes
<1> HIDE DEF line
<1>4. Begins(out, Scan(Log).lines)
  BY <1>2, <1>3, BehindBegins
<1>5. Log' = Log
  BY <1>1 DEF Log, Sent
<1>6. CASE buf = <<>>
  <2>1. out' = out
    BY <1>1, <1>6
  <2>2. StreamTypes'
    BY <1>1, <2>1 DEF StreamTypes
  <2>3. QED
    BY <1>1, <1>4, <1>5, <2>1, <2>2 DEF StreamInv
<1>7. CASE buf # <<>>
  <2>1. cut
    <3> SUFFICES ASSUME ~cut PROVE FALSE
      OBVIOUS
    <3>1. Stream = buf
      <4>1. pipe \o wire = <<>>
        BY <1>1, <1>2, ConcatEmptySeq
      <4>2. QED
        BY <1>3, <4>1, ConcatEmptySeq DEF Stream
    <3>2. PICK taken \in Seq(Nat) : taken \o buf = Log
      BY <1>2, <3>1 DEF Behind
    <3> DEFINE m == Len(taken)
               n == Len(buf)
    <3>3. m \in Nat /\ n \in Nat /\ n >= 1
      BY <1>3, <1>7, EmptySeq, LenProperties
    <3>4. /\ Len(Log) = m + n
          /\ \A i \in 1 .. m + n : Log[i] = IF i <= m THEN taken[i] ELSE buf[i - m]
      BY <1>3, <3>2, ConcatProperties
    <3> HIDE DEF m
    <3>5. Log[m + n] = buf[n]
      <4> HIDE DEF n
      <4>1. m + n \in 1 .. m + n /\ ~(m + n <= m) /\ (m + n) - m = n
        BY <3>3
      <4>2. QED
        BY <3>4, <4>1
    <3>6. Log # <<>>
      BY <3>3, <3>4, <1>3, EmptySeq
    <3>7. Log[Len(Log)] = NL
      <4>1. SubSeq(printed, first + 1, Len(printed)) \in Seq(Lines)
        BY <1>1, LogType DEF StreamTypes
      <4>2. QED
        BY <3>6, <4>1, LogEnds DEF Log, Sent
    <3>8. n \in DOMAIN buf
      BY <1>3, <3>3, LenProperties
    <3>9. buf[n] = NL
      BY <3>4, <3>5, <3>7
    <3>10. QED
      BY <1>1, <3>8, <3>9 DEF Broken
  <2>2. /\ out' = Append(out, line) /\ out' \in Seq(Seq(Nat)) /\ out' # <<>>
        /\ Len(out') = Len(out) + 1 /\ \A i \in 1 .. Len(out) : out'[i] = out[i]
    <3>1. \A o \in Seq(Seq(Nat)), l \in Seq(Nat) :
            /\ Append(o, l) \in Seq(Seq(Nat)) /\ Append(o, l) # <<>>
            /\ Len(Append(o, l)) = Len(o) + 1
            /\ \A i \in 1 .. Len(o) : Append(o, l)[i] = o[i]
      BY SMTT(40), AppendProperties
    <3>2. out' = Append(out, line) /\ line \in Seq(Nat)
      BY <1>1, <1>3, <1>7, LineType
    <3>3. QED
      BY <1>3, <3>1, <3>2
  <2>3. Front(out') = out
    <3>1. Len(out) \in Nat
      BY <1>3, LenProperties
    <3>2. Len(out') - 1 = Len(out) /\ Len(out) \in 0 .. Len(out')
      BY <2>2, <3>1
    <3>3. SubSeq(out', 1, Len(out)) \in Seq(Seq(Nat))
          /\ Len(SubSeq(out', 1, Len(out))) = Len(out)
      BY <2>2, <3>2, CutInTwo
    <3>4. \A i \in 1 .. Len(out) : SubSeq(out', 1, Len(out))[i] = out'[i]
      <4>1. \A i \in 1 .. Len(out) : out'[i] \in Seq(Nat)
        BY <1>3, <2>2, ElementOfSeq
      <4>2. QED
        BY <3>1, <4>1, SubSeqProperties
    <3>5. SubSeq(out', 1, Len(out)) = out
      BY <1>3, <2>2, <3>3, <3>4, SeqEqual
    <3>6. QED
      BY <3>2, <3>5 DEF Front
  <2>4. Begins(Front(out'), Scan(Log').lines)
    BY <1>4, <1>5, <2>3
  <2>5. StreamTypes'
    BY <1>1, <2>2 DEF StreamTypes
  <2>6. QED
    BY <1>1, <2>1, <2>2, <2>4, <2>5 DEF StreamInv
<1>8. QED
  BY <1>6, <1>7

LEMMA StreamNext ==
  ASSUME StreamInv, [Next]_vars
  PROVE  StreamInv'
<1>1. ASSUME NEW line \in Lines, PrintLine(line) PROVE StreamInv'
  BY <1>1, PrintLineKeeps
<1>2. CASE End \/ Cancel \/ UNCHANGED vars
  <2>1. /\ UNCHANGED <<printed, first, wire, copier, pipe, reader, buf, out>>
        /\ cut => cut'
        /\ state' \in {state, "ended"}
    BY <1>2 DEF End, Cancel, vars
  <2>2. Stream' = Stream /\ Log' = Log /\ StreamTypes'
    BY <2>1 DEF Stream, Log, Sent, StreamInv, StreamTypes
  <2>3. Behind(out, Stream) => Behind(out, Stream)'
    BY <2>1, <2>2 DEF Behind
  <2>4. Front(out)' = Front(out)
    BY <2>1 DEF Front
  <2>5. reader' = "scan" /\ copier' = "closed" /\ ~cut' => wire' = <<>> /\ state' = "ended"
    BY <2>1 DEF StreamInv
  <2>6. QED
    BY <2>1, <2>2, <2>3, <2>4, <2>5 DEF StreamInv
<1>3. CASE CopyRead
  BY <1>3, CopyReadKeeps
<1>4. CASE CopyEnd
  <2>1. /\ UNCHANGED <<printed, first, wire, state, cut, pipe, reader, buf, out>>
        /\ copier = "copy" /\ copier' = "closed"
        /\ cut \/ reader = "done" \/ (wire = <<>> /\ state = "ended")
    BY <1>4 DEF CopyEnd
  <2>2. Stream' = Stream /\ StreamTypes'
    BY <2>1 DEF Stream, StreamInv, StreamTypes
  <2>3. reader # "none"
    BY <2>1 DEF StreamInv
  <2>4. QED
    BY <2>1, <2>2, <2>3, BytesMoved
<1>5. CASE Attach
  BY <1>5, AttachKeeps
<1>6. CASE ReadPipe
  BY <1>6, ReadPipeKeeps
<1>7. CASE ScanLine
  BY <1>7, ScanLineKeeps
<1>8. CASE ScanLast
  BY <1>8, ScanLastKeeps
<1>9. CASE TooLong
  <2>1. /\ reader' = "done" /\ reader = "scan"
        /\ UNCHANGED <<printed, first, wire, state, cut, copier, pipe, buf, out>>
    BY <1>9 DEF TooLong, Scanning
  <2>2. StreamTypes' /\ copier' # "none" /\ Log' = Log
    BY <2>1 DEF StreamInv, StreamTypes, Log, Sent
  <2>3. Begins(out, Scan(Log).lines)
    <3>1. Behind(out, Stream) /\ StreamTypes
      BY <2>1 DEF StreamInv
    <3>2. QED
      BY <3>1, StreamFacts, BehindBegins DEF StreamTypes
  <2>4. QED
    BY <2>1, <2>2, <2>3 DEF StreamInv
<1>10. QED
  BY <1>1, <1>2, <1>3, <1>4, <1>5, <1>6, <1>7, <1>8, <1>9 DEF Next, Copier, Reader

\* Whatever the container prints and however the bytes are cut into reads, what
\* StreamLogs passes on are the lines of all the bytes of the log, from the
\* TailLines on and in their order (manager.go:383-411); only the last one of a
\* stream that is cancelled may be a piece.
THEOREM LinesCorrect == Spec => []LinesAsSent
<1>1. StreamInv /\ [Next]_vars => StreamInv'
  BY StreamNext
<1>2. QED
  BY <1>1, StreamInit, StreamExact, PTL DEF Spec

=============================================================================
