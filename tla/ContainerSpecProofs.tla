------------------------ MODULE ContainerSpecProofs -------------------------
(***************************************************************************)
(* What CreateContainer makes of a configuration, proved for commands,     *)
(* environments and port lists of every length and integers of every       *)
(* width: the command, the port bindings, and the limits.                  *)
(***************************************************************************)
EXTENDS ContainerSpec, FlattenTheorems

-----------------------------------------------------------------------------
(* Reading a text from left to right                                       *)

\* The fold of the first n characters, as the library computes it.
ScansTo(f, old, new, seq, n) ==
  f = [s \in SUBSET (1 .. n) |->
         IF s = {} THEN Unread ELSE Scan(f[s \ {Max(s)}], seq[Max(s)], old, new)]

LEMMA ScansToExists ==
  ASSUME NEW old, NEW new, NEW seq, NEW n \in Nat
  PROVE  \E f : ScansTo(f, old, new, seq, n)
<1> DEFINE T == {m \in Nat : \E f : ScansTo(f, old, new, seq, m)}
<1>1. 0 \in T
  <2> DEFINE f == [s \in SUBSET (1 .. 0) |-> Unread]
  <2>1. \A s \in SUBSET (1 .. 0) : s = {}
    OBVIOUS
  <2>2. f = [s \in SUBSET (1 .. 0) |->
               IF s = {} THEN Unread ELSE Scan(f[s \ {Max(s)}], seq[Max(s)], old, new)]
    BY <2>1
  <2>3. ScansTo(f, old, new, seq, 0)
    BY <2>2 DEF ScansTo
  <2>4. QED
    BY <2>3
<1>2. ASSUME NEW m \in Nat, m \in T PROVE m + 1 \in T
  <2>1. PICK f : ScansTo(f, old, new, seq, m)
    BY <1>2
  <2> DEFINE g == [s \in SUBSET (1 .. m + 1) |->
                     IF m + 1 \in s THEN Scan(f[s \ {m + 1}], seq[m + 1], old, new) ELSE f[s]]
             val(s) == IF s = {} THEN Unread ELSE Scan(g[s \ {Max(s)}], seq[Max(s)], old, new)
  <2>2. \A s \in SUBSET (1 .. m) :
          f[s] = IF s = {} THEN Unread ELSE Scan(f[s \ {Max(s)}], seq[Max(s)], old, new)
    BY <2>1 DEF ScansTo
  <2>3. \A s \in SUBSET (1 .. m) : s \in SUBSET (1 .. m + 1) /\ m + 1 \notin s /\ g[s] = f[s]
    OBVIOUS
  <2>4. ASSUME NEW s \in SUBSET (1 .. m + 1) PROVE g[s] = val(s)
    <3>1. CASE m + 1 \in s
      <4>1. Max(s) \in s /\ \A y \in s : y <= Max(s)
        BY <3>1, MaxOf
      <4>2. Max(s) = m + 1
        <5>1. Max(s) \in 1 .. m + 1 /\ m + 1 <= Max(s)
          BY <3>1, <4>1
        <5>2. QED
          BY <5>1
      <4>3. s \ {m + 1} \in SUBSET (1 .. m)
        OBVIOUS
      <4>4. g[s \ {m + 1}] = f[s \ {m + 1}]
        BY <2>3, <4>3
      <4>5. g[s] = Scan(f[s \ {m + 1}], seq[m + 1], old, new)
        BY <3>1
      <4> HIDE DEF g
      <4>6. QED
        BY <3>1, <4>2, <4>4, <4>5
    <3>2. CASE m + 1 \notin s
      <4>1. s \in SUBSET (1 .. m)
        BY <3>2
      <4>2. g[s] = f[s]
        BY <2>3, <4>1
      <4>3. CASE s = {}
        BY <2>2, <4>1, <4>2, <4>3
      <4>4. CASE s # {}
        <5>1. s \ {Max(s)} \in SUBSET (1 .. m)
          BY <4>1
        <5>2. g[s \ {Max(s)}] = f[s \ {Max(s)}]
          BY <2>3, <5>1
        <5> HIDE DEF g
        <5>3. QED
          BY <2>2, <4>1, <4>2, <4>4, <5>2
      <4>5. QED
        BY <4>3, <4>4
    <3>3. QED
      BY <3>1, <3>2
  <2>5. g = [s \in SUBSET (1 .. m + 1) |-> val(s)]
    <3>1. g = [s \in SUBSET (1 .. m + 1) |-> g[s]]
      OBVIOUS
    <3> HIDE DEF g, val
    <3>2. QED
      BY <2>4, <3>1
  <2>6. ScansTo(g, old, new, seq, m + 1)
    <3> HIDE DEF g
    <3>1. QED
      BY <2>5 DEF ScansTo
  <2>7. \E h : ScansTo(h, old, new, seq, m + 1)
    <3> HIDE DEF g
    <3>1. QED
      BY <2>6
  <2>8. QED
    BY <2>7
<1> HIDE DEF T
<1>3. Nat \subseteq T
  BY <1>1, <1>2, NatSetInduction
<1>4. QED
  BY <1>3 DEF T

LEMMA ScansToAgree ==
  ASSUME NEW old, NEW new, NEW a, NEW b, NEW f, NEW g, NEW m \in Nat, NEW n \in Nat, m <= n,
         ScansTo(f, old, new, a, m), ScansTo(g, old, new, b, n), \A i \in 1 .. m : a[i] = b[i]
  PROVE  \A s \in SUBSET (1 .. m) : f[s] = g[s]
<1> DEFINE T == {k \in Nat : k <= m => \A s \in SUBSET (1 .. k) : f[s] = g[s]}
<1>1. /\ \A s \in SUBSET (1 .. m) :
           f[s] = IF s = {} THEN Unread ELSE Scan(f[s \ {Max(s)}], a[Max(s)], old, new)
      /\ \A s \in SUBSET (1 .. n) :
           g[s] = IF s = {} THEN Unread ELSE Scan(g[s \ {Max(s)}], b[Max(s)], old, new)
  BY DEF ScansTo
<1>2. \A k \in Nat : k <= m =>
        \A s \in SUBSET (1 .. k) : s \in SUBSET (1 .. m) /\ s \in SUBSET (1 .. n)
  OBVIOUS
<1>3. 0 \in T
  <2>1. \A s \in SUBSET (1 .. 0) : s = {}
    OBVIOUS
  <2>2. {} \in SUBSET (1 .. m) /\ {} \in SUBSET (1 .. n)
    OBVIOUS
  <2>3. f[{}] = Unread /\ g[{}] = Unread
    BY <1>1, <2>2
  <2>4. QED
    BY <2>1, <2>3
<1>4. ASSUME NEW k \in Nat, k \in T PROVE k + 1 \in T
  <2> SUFFICES k + 1 <= m => \A s \in SUBSET (1 .. k + 1) : f[s] = g[s]
    BY <1>4
  <2> SUFFICES ASSUME k + 1 <= m, NEW s \in SUBSET (1 .. k + 1) PROVE f[s] = g[s]
    OBVIOUS
  <2>1. k <= m /\ \A u \in SUBSET (1 .. k) : f[u] = g[u]
    BY <1>4
  <2>2. s \in SUBSET (1 .. m) /\ s \in SUBSET (1 .. n)
    BY <1>2
  <2>3. CASE s = {}
    BY <1>1, <2>2, <2>3
  <2>4. CASE s # {}
    <3>1. Max(s) \in 1 .. k + 1 /\ \A y \in s : y <= Max(s)
      BY <2>4, MaxOf
    <3>2. s \ {Max(s)} \in SUBSET (1 .. k) /\ Max(s) \in 1 .. m
      <4> DEFINE x == Max(s)
      <4>1. x \in 1 .. k + 1 /\ \A y \in s : y <= x
        BY <3>1
      <4> HIDE DEF x
      <4>2. \A y \in s \ {x} : y \in 1 .. k
        BY <4>1
      <4>3. x \in 1 .. m
        BY <4>1
      <4>4. QED
        BY <4>2, <4>3 DEF x
    <3>3. f[s \ {Max(s)}] = g[s \ {Max(s)}] /\ a[Max(s)] = b[Max(s)]
      BY <2>1, <3>2
    <3>4. QED
      BY <1>1, <2>2, <2>4, <3>3
  <2>5. QED
    BY <2>3, <2>4
<1> HIDE DEF T
<1>5. Nat \subseteq T
  BY <1>3, <1>4, NatSetInduction
<1>6. QED
  BY <1>5 DEF T

LEMMA ScannedIsFold ==
  ASSUME NEW S, NEW text \in Seq(S), NEW old, NEW new
  PROVE  \E f : /\ ScansTo(f, old, new, text, Len(text))
                /\ Scanned(text, old, new) = f[1 .. Len(text)]
<1> DEFINE F(f) == f = [s \in SUBSET DOMAIN text |->
                          IF s = {} THEN Unread
                          ELSE Scan(f[s \ {Max(s)}], text[Max(s)], old, new)]
<1>1. DOMAIN text = 1 .. Len(text) /\ Len(text) \in Nat
  BY LenProperties
<1>2. Scanned(text, old, new) = (CHOOSE f : F(f))[DOMAIN text]
  BY DEF Scanned, FoldLeft, MapThenFoldSet
<1>3. \A f : F(f) <=> ScansTo(f, old, new, text, Len(text))
  BY <1>1 DEF ScansTo
<1> HIDE DEF F
<1>4. \E f : F(f)
  BY <1>1, <1>3, ScansToExists
<1>5. F(CHOOSE f : F(f))
  BY <1>4
<1>6. QED
  BY <1>1, <1>2, <1>3, <1>5

LEMMA ScannedEmpty ==
  ASSUME NEW old, NEW new
  PROVE  Scanned(<<>>, old, new) = Unread
<1>1. <<>> \in Seq({}) /\ Len(<<>>) = 0
  OBVIOUS
<1>2. PICK f : ScansTo(f, old, new, <<>>, 0) /\ Scanned(<<>>, old, new) = f[1 .. 0]
  BY <1>1, ScannedIsFold
<1>3. 1 .. 0 = {} /\ {} \in SUBSET (1 .. 0)
  OBVIOUS
<1>4. f[{}] = Unread
  BY <1>2, <1>3 DEF ScansTo
<1>5. QED
  BY <1>2, <1>3, <1>4

LEMMA ScannedAppend ==
  ASSUME NEW S, NEW text \in Seq(S), NEW c \in S, NEW old, NEW new
  PROVE  Scanned(Append(text, c), old, new) = Scan(Scanned(text, old, new), c, old, new)
<1> DEFINE n == Len(text)
           a == Append(text, c)
<1>1. /\ n \in Nat /\ a \in Seq(S) /\ Len(a) = n + 1 /\ a[n + 1] = c
      /\ \A i \in 1 .. n : text[i] = a[i]
  BY AppendProperties, LenProperties
<1>2. PICK f : ScansTo(f, old, new, text, n) /\ Scanned(text, old, new) = f[1 .. n]
  BY ScannedIsFold
<1> HIDE DEF n, a
<1>3. PICK g : ScansTo(g, old, new, a, n + 1) /\ Scanned(a, old, new) = g[1 .. n + 1]
  BY <1>1, ScannedIsFold
<1>4. f[1 .. n] = g[1 .. n]
  <2>1. n <= n + 1 /\ n + 1 \in Nat /\ 1 .. n \in SUBSET (1 .. n)
    BY <1>1
  <2>2. QED
    BY <1>1, <1>2, <1>3, <2>1, ScansToAgree
<1> DEFINE s == 1 .. n + 1
<1>5. s \in SUBSET (1 .. n + 1) /\ s # {} /\ n + 1 \in s
  <2>1. n + 1 \in 1 .. n + 1
    BY <1>1
  <2>2. QED
    BY <2>1
<1>6. Max(s) = n + 1
  <2> HIDE DEF s
  <2>0. n + 1 \in Nat
    BY <1>1
  <2>1. Max(s) \in 1 .. n + 1 /\ \A y \in s : y <= Max(s)
    BY <1>5, <2>0, MaxOf
  <2>2. n + 1 <= Max(s)
    BY <1>5, <2>1
  <2> DEFINE x == Max(s)
  <2>3. x \in 1 .. n + 1 /\ n + 1 <= x
    BY <2>1, <2>2
  <2> HIDE DEF x
  <2>4. x = n + 1
    BY <1>1, <2>3
  <2>5. QED
    BY <2>4 DEF x
<1>7. s \ {n + 1} = 1 .. n
  BY <1>1
<1> HIDE DEF s
<1>8. g[s] = Scan(g[s \ {Max(s)}], a[Max(s)], old, new)
  BY <1>3, <1>5 DEF ScansTo
<1>9. g[s] = Scan(f[1 .. n], c, old, new)
  BY <1>1, <1>4, <1>6, <1>7, <1>8
<1>10. QED
  BY <1>2, <1>3, <1>9 DEF s, n, a

-----------------------------------------------------------------------------
(* Texts and placeholders                                                  *)

Scans == [done : Seq(Chars), open : Seq(Chars)]

Letters == Chars \ {"{", "}"}

\* What a scan has after reading more that does not complete a placeholder.
Read(scan, text) == [done |-> scan.done, open |-> scan.open \o text]

\* The end of what was read, character by character.
LEMMA SuffixIs ==
  ASSUME NEW S, NEW s \in Seq(S), NEW t \in Seq(S)
  PROVE  IsSuffix(s, t) <=>
           /\ Len(s) <= Len(t)
           /\ \A i \in 1 .. Len(s) : s[i] = t[Len(t) - Len(s) + i]
<1> DEFINE m == Len(s)
           n == Len(t)
           a == Reverse(s)
           b == Reverse(t)
<1>1. m \in Nat /\ n \in Nat
  OBVIOUS
<1>2. /\ a \in Seq(S) /\ Len(a) = m /\ \A i \in 1 .. m : a[i] = s[m - i + 1]
      /\ b \in Seq(S) /\ Len(b) = n /\ \A i \in 1 .. n : b[i] = t[n - i + 1]
  <2>1. \A i \in 1 .. m : m - i + 1 \in 1 .. m
    BY <1>1
  <2>2. \A i \in 1 .. n : n - i + 1 \in 1 .. n
    BY <1>1
  <2>3. \A i \in 1 .. m : s[m - i + 1] \in S
    BY <2>1, ElementOfSeq
  <2>4. \A i \in 1 .. n : t[n - i + 1] \in S
    BY <2>2, ElementOfSeq
  <2>5. a = [i \in 1 .. m |-> s[m - i + 1]] /\ b = [i \in 1 .. n |-> t[n - i + 1]]
    BY <1>1 DEF Reverse
  <2> HIDE DEF a, b, m, n
  <2>6. a \in [1 .. m -> S] /\ b \in [1 .. n -> S]
    BY <2>3, <2>4, <2>5
  <2>7. a \in Seq(S) /\ b \in Seq(S)
    BY <1>1, <2>6, SeqDef
  <2>8. Len(a) = m /\ Len(b) = n
    BY <1>1, <2>6, <2>7, LenProperties
  <2>9. QED
    BY <2>5, <2>7, <2>8
<1>3. IsSuffix(s, t) <=> m <= n /\ \A i \in 1 .. m : a[i] = b[i]
  <2>1. IsSuffix(s, t) <=> (Len(a) <= Len(b) /\ \A i \in 1 .. Len(a) : a[i] = b[i])
    BY DEF IsSuffix, IsPrefix
  <2>2. QED
    BY <1>2, <2>1
<1> HIDE DEF a, b, m, n
<1>4. ASSUME m <= n, \A i \in 1 .. m : a[i] = b[i], NEW i \in 1 .. m
      PROVE  s[i] = t[n - m + i]
  <2>1. m - i + 1 \in 1 .. m /\ m - i + 1 \in 1 .. n
    BY <1>1, <1>4
  <2>2. a[m - i + 1] = s[m - (m - i + 1) + 1] /\ b[m - i + 1] = t[n - (m - i + 1) + 1]
    BY <1>2, <2>1
  <2>3. m - (m - i + 1) + 1 = i /\ n - (m - i + 1) + 1 = n - m + i
    BY <1>1
  <2>4. QED
    BY <1>4, <2>1, <2>2, <2>3
<1>5. ASSUME m <= n, \A i \in 1 .. m : s[i] = t[n - m + i], NEW i \in 1 .. m
      PROVE  a[i] = b[i]
  <2>1. m - i + 1 \in 1 .. m /\ i \in 1 .. n /\ n - m + (m - i + 1) = n - i + 1
    BY <1>1, <1>5
  <2>2. a[i] = s[m - i + 1] /\ b[i] = t[n - i + 1]
    BY <1>2, <2>1
  <2>3. s[m - i + 1] = t[n - m + (m - i + 1)]
    BY <1>5, <2>1
  <2>4. QED
    BY <2>1, <2>2, <2>3
<1>6. QED
  BY <1>3, <1>4, <1>5 DEF m, n

LEMMA PlaceholderIs ==
  ASSUME NEW k \in Seq(Chars)
  PROVE  /\ Placeholder(k) \in Seq(Chars) /\ Len(Placeholder(k)) = Len(k) + 4
         /\ Placeholder(k)[1] = "{" /\ Placeholder(k)[2] = "{"
         /\ \A i \in 1 .. Len(k) : Placeholder(k)[i + 2] = k[i]
         /\ Placeholder(k)[Len(k) + 3] = "}" /\ Placeholder(k)[Len(k) + 4] = "}"
<1> DEFINE n == Len(k)
           l == <<"{", "{">>
           r == <<"}", "}">>
           h == l \o k
           p == h \o r
<1>n. n \in Nat
  BY LenProperties
<1>0. "{" \in Chars /\ "}" \in Chars /\ n \in Nat
  <2>1. {"{", "}"} \subseteq Chars
    BY TextAssumption
  <2>2. n \in Nat
    BY LenProperties
  <2>3. QED
    BY <2>1, <2>2
<1>1. /\ n \in Nat /\ l \in Seq(Chars) /\ r \in Seq(Chars) /\ Len(l) = 2 /\ Len(r) = 2
      /\ l[1] = "{" /\ l[2] = "{" /\ r[1] = "}" /\ r[2] = "}"
  <2>1. \A e \in Chars : <<e, e>> \in Seq(Chars)
    OBVIOUS
  <2>2. Len(l) = 2 /\ Len(r) = 2 /\ l[1] = "{" /\ l[2] = "{" /\ r[1] = "}" /\ r[2] = "}"
    OBVIOUS
  <2>3. QED
    BY <1>0, <2>1, <2>2
<1> HIDE DEF l, r
<1>2. /\ h \in Seq(Chars) /\ Len(h) = 2 + n
      /\ \A i \in 1 .. 2 + n : h[i] = IF i <= 2 THEN l[i] ELSE k[i - 2]
  <2>1. /\ h \in Seq(Chars) /\ Len(h) = Len(l) + Len(k)
        /\ \A i \in 1 .. Len(l) + Len(k) : h[i] = IF i <= Len(l) THEN l[i] ELSE k[i - Len(l)]
    BY <1>1, ConcatProperties
  <2>2. QED
    BY <1>1, <2>1
<1> HIDE DEF h
<1>3. /\ p \in Seq(Chars) /\ Len(p) = (2 + n) + 2
      /\ \A i \in 1 .. (2 + n) + 2 : p[i] = IF i <= 2 + n THEN h[i] ELSE r[i - (2 + n)]
  <2>1. /\ p \in Seq(Chars) /\ Len(p) = Len(h) + Len(r)
        /\ \A i \in 1 .. Len(h) + Len(r) : p[i] = IF i <= Len(h) THEN h[i] ELSE r[i - Len(h)]
    BY <1>1, <1>2, ConcatProperties
  <2>2. QED
    BY <1>1, <1>2, <2>1
<1> HIDE DEF p, n
<1>4. p[1] = "{" /\ p[2] = "{"
  <2>1. /\ \A i \in {1, 2} : i \in 1 .. 2 + n /\ i \in 1 .. (2 + n) + 2
        /\ \A i \in {1, 2} : i <= 2 + n /\ i <= 2
    BY <1>n
  <2>2. h[1] = l[1] /\ h[2] = l[2] /\ p[1] = h[1] /\ p[2] = h[2]
    BY <1>2, <1>3, <2>1
  <2>3. QED
    BY <1>1, <2>2
<1>5. ASSUME NEW i \in 1 .. n PROVE p[i + 2] = k[i]
  <2>1. i + 2 \in 1 .. 2 + n /\ i + 2 \in 1 .. (2 + n) + 2 /\ ~(i + 2 <= 2)
        /\ i + 2 <= 2 + n /\ (i + 2) - 2 = i
    BY <1>n
  <2>2. QED
    BY <1>2, <1>3, <2>1
<1>6. p[n + 3] = "}" /\ p[n + 4] = "}"
  <2>1. /\ n + 3 \in 1 .. (2 + n) + 2 /\ ~(n + 3 <= 2 + n) /\ (n + 3) - (2 + n) = 1
        /\ n + 4 \in 1 .. (2 + n) + 2 /\ ~(n + 4 <= 2 + n) /\ (n + 4) - (2 + n) = 2
    BY <1>n
  <2>2. p[n + 3] = r[1] /\ p[n + 4] = r[2]
    BY <1>3, <2>1
  <2>3. QED
    BY <1>1, <2>2
<1>7. p = Placeholder(k)
  BY DEF p, h, l, r, Placeholder
<1>8. Len(p) = n + 4
  BY <1>n, <1>3
<1>9. /\ Placeholder(k) \in Seq(Chars) /\ Len(Placeholder(k)) = n + 4
      /\ Placeholder(k)[1] = "{" /\ Placeholder(k)[2] = "{"
      /\ \A i \in 1 .. n : Placeholder(k)[i + 2] = k[i]
      /\ Placeholder(k)[n + 3] = "}" /\ Placeholder(k)[n + 4] = "}"
  BY <1>3, <1>4, <1>5, <1>6, <1>7, <1>8
<1>10. QED
  BY <1>9 DEF n
-----------------------------------------------------------------------------
(* Reading one piece of a command                                          *)

\* All characters but the closing brace.
Others == Chars \ {"}"}

\* Nothing but a closing brace completes a placeholder.
LEMMA ScanOther ==
  ASSUME NEW k \in Seq(Chars), NEW new, NEW scan \in Scans, NEW c \in Others
  PROVE  Scan(scan, c, Placeholder(k), new) = Read(scan, <<c>>)
<1> DEFINE old == Placeholder(k)
           open == Append(scan.open, c)
<1>1. scan.open \in Seq(Chars) /\ scan.done \in Seq(Chars) /\ c \in Chars
  BY DEF Scans, Others
<1>2. open \in Seq(Chars) /\ Len(open) = Len(scan.open) + 1 /\ open[Len(scan.open) + 1] = c
  <2>1. \A x \in Seq(Chars) : /\ Append(x, c) \in Seq(Chars) /\ Len(Append(x, c)) = Len(x) + 1
                              /\ Append(x, c)[Len(x) + 1] = c
    BY <1>1, AppendProperties
  <2>2. QED
    BY <1>1, <2>1
<1>3. open = scan.open \o <<c>>
  BY <1>1, AppendIsConcat
<1>4. old \in Seq(Chars) /\ Len(old) = Len(k) + 4 /\ old[Len(k) + 4] = "}"
  BY PlaceholderIs
<1>5. Len(k) \in Nat /\ Len(scan.open) \in Nat
  BY <1>1, LenProperties
<1> HIDE DEF old, open
<1>6. ~IsSuffix(old, open)
  <2> DEFINE m == Len(k)
             q == Len(scan.open)
  <2>1. Len(old) = m + 4 /\ Len(open) = q + 1 /\ m \in Nat /\ q \in Nat
    BY <1>2, <1>4, <1>5
  <2> HIDE DEF m, q
  <2>2. /\ Len(old) \in 1 .. Len(old)
        /\ Len(open) - Len(old) + Len(old) = q + 1
    BY <2>1
  <2>3. old[Len(old)] = "}" /\ open[q + 1] = c /\ c # "}"
    BY <1>2, <1>4 DEF m, q, Others
  <2>4. IsSuffix(old, open) =>
          \A i \in 1 .. Len(old) : old[i] = open[Len(open) - Len(old) + i]
    BY <1>2, <1>4, SuffixIs
  <2>5. QED
    BY <2>2, <2>3, <2>4
<1>7. Scan(scan, c, old, new) = [done |-> scan.done, open |-> open]
  BY <1>6 DEF Scan, open
<1>8. QED
  BY <1>3, <1>7 DEF Read, old

LEMMA ScannedType ==
  ASSUME NEW old \in Seq(Chars), NEW new \in Seq(Chars), NEW text \in Seq(Chars)
  PROVE  Scanned(text, old, new) \in Scans
<1> DEFINE T == {u \in Seq(Chars) : Scanned(u, old, new) \in Scans}
<1>1. <<>> \in T
  <2>1. Unread \in Scans /\ <<>> \in Seq(Chars)
    BY DEF Unread, Scans
  <2>2. QED
    BY <2>1, ScannedEmpty
<1>2. ASSUME NEW u \in Seq(Chars), NEW c \in Chars, u \in T PROVE Append(u, c) \in T
  <2> DEFINE scan == Scanned(u, old, new)
             open == Append(scan.open, c)
             some == SubSeq(open, 1, Len(open) - Len(old))
  <2>1. scan.open \in Seq(Chars) /\ scan.done \in Seq(Chars) /\ scan \in Scans
    BY <1>2 DEF Scans
  <2>2. open \in Seq(Chars)
    BY <2>1, AppendProperties
  <2>3. Scanned(Append(u, c), old, new) = Scan(scan, c, old, new)
    BY ScannedAppend
  <2>4. Append(u, c) \in Seq(Chars)
    BY AppendProperties
  <2> HIDE DEF scan
  <2>5. Scan(scan, c, old, new) \in Scans
    <3>1. CASE IsSuffix(old, open)
      <4>1. Scan(scan, c, old, new) = [done |-> scan.done \o some \o new, open |-> <<>>]
        BY <3>1 DEF Scan
      <4> HIDE DEF open
      <4>2. some \in Seq(Chars)
        <5>1. Len(old) <= Len(open) /\ Len(old) \in Nat /\ Len(open) \in Nat
          BY <2>2, <3>1, SuffixIs, LenProperties
        <5>2. QED
          BY <2>2, <5>1, SubSeqProperties
      <4> HIDE DEF some
      <4>3. scan.done \o some \in Seq(Chars)
        BY <2>1, <4>2, ConcatProperties
      <4>4. scan.done \o some \o new \in Seq(Chars) /\ <<>> \in Seq(Chars)
        BY <4>3, ConcatProperties
      <4>5. QED
        BY <4>1, <4>4 DEF Scans
    <3>2. CASE ~IsSuffix(old, open)
      <4>1. Scan(scan, c, old, new) = [done |-> scan.done, open |-> open]
        BY <3>2 DEF Scan
      <4> HIDE DEF open
      <4>2. QED
        BY <2>1, <2>2, <4>1 DEF Scans
    <3>3. QED
      BY <3>1, <3>2
  <2>6. QED
    BY <2>3, <2>4, <2>5
<1> HIDE DEF T
<1>3. Seq(Chars) \subseteq T
  BY <1>1, <1>2, SeqSetInduction
<1>4. QED
  BY <1>3 DEF T

LEMMA LettersOthers == \A u \in Seq(Letters) : u \in Seq(Others) /\ u \in Seq(Chars)
<1>1. Letters \subseteq Others /\ Letters \subseteq Chars
  BY DEF Letters, Others
<1>2. QED
  BY <1>1, SeqMonotonic

\* A text without a closing brace is only read.
LEMMA ScanOthers ==
  ASSUME NEW k \in Seq(Chars), NEW new \in Seq(Chars), NEW s \in Seq(Chars),
         NEW u \in Seq(Others)
  PROVE  Scanned(s \o u, Placeholder(k), new) = Read(Scanned(s, Placeholder(k), new), u)
<1> DEFINE old == Placeholder(k)
           T == {t \in Seq(Others) :
                   Scanned(s \o t, old, new) = Read(Scanned(s, old, new), t)}
<1>0. old \in Seq(Chars) /\ Others \subseteq Chars
  BY PlaceholderIs DEF Others
<1>1. Scanned(s, old, new) \in Scans
  BY <1>0, ScannedType
<1> HIDE DEF old
<1> DEFINE scan == Scanned(s, old, new)
<1>2. scan.done \in Seq(Chars) /\ scan.open \in Seq(Chars)
      /\ scan = [done |-> scan.done, open |-> scan.open]
  BY <1>1 DEF Scans
<1>a. \A x, y \in Seq(Chars), c \in Chars : x \o Append(y, c) = Append(x \o y, c)
  BY AppendConcat
<1>b. \A x \in Seq(Chars), c \in Chars :
        Scanned(Append(x, c), old, new) = Scan(Scanned(x, old, new), c, old, new)
  BY ScannedAppend
<1>3. <<>> \in T
  <2>1. s \o <<>> = s /\ scan.open \o <<>> = scan.open
    BY <1>2, ConcatEmptySeq
  <2>2. <<>> \in Seq(Others)
    OBVIOUS
  <2>3. Read(scan, <<>>) = scan
    BY <1>2, <2>1 DEF Read
  <2>4. QED
    BY <2>1, <2>2, <2>3
<1>4. ASSUME NEW t \in Seq(Others), NEW c \in Others, t \in T PROVE Append(t, c) \in T
  <2>1. t \in Seq(Chars) /\ c \in Chars
    BY <1>0, SeqMonotonic DEF Others
  <2>2. s \o Append(t, c) = Append(s \o t, c) /\ s \o t \in Seq(Chars)
    <3>1. s \o Append(t, c) = Append(s \o t, c)
      BY <1>a, <2>1
    <3>2. s \o t \in Seq(Chars)
      BY <2>1, ConcatProperties
    <3>3. QED
      BY <3>1, <3>2
  <2>3. scan.open \o t \in Seq(Chars)
    BY <1>2, <2>1, ConcatProperties
  <2>4. Scanned(s \o t, old, new) = Read(scan, t)
    BY <1>4
  <2> HIDE DEF scan
  <2>5. Read(scan, t) \in Scans
    BY <1>2, <2>3 DEF Read, Scans
  <2>6. Scanned(Append(s \o t, c), old, new) = Scan(Read(scan, t), c, old, new)
    <3>1. Scanned(Append(s \o t, c), old, new) = Scan(Scanned(s \o t, old, new), c, old, new)
      BY <1>b, <2>1, <2>2
    <3>2. QED
      BY <2>4, <3>1
  <2>7. Scan(Read(scan, t), c, old, new) = Read(Read(scan, t), <<c>>)
    BY <2>1, <2>5, ScanOther DEF old
  <2>8. (scan.open \o t) \o <<c>> = scan.open \o Append(t, c)
    <3>1. (scan.open \o t) \o <<c>> = Append(scan.open \o t, c)
      BY <2>1, <2>3, AppendIsConcat
    <3>2. scan.open \o Append(t, c) = Append(scan.open \o t, c)
      BY <1>2, <1>a, <2>1
    <3>3. QED
      BY <3>1, <3>2
  <2>9. Read(Read(scan, t), <<c>>) = Read(scan, Append(t, c))
    BY <2>8 DEF Read
  <2>10. Append(t, c) \in Seq(Others)
    BY AppendProperties
  <2>11. QED
    BY <2>2, <2>6, <2>7, <2>9, <2>10 DEF scan
<1> HIDE DEF T
<1>5. Seq(Others) \subseteq T
  BY <1>3, <1>4, SeqSetInduction
<1>6. QED
  BY <1>5 DEF T, old

\* A text that ends in the placeholder of j ends in that of j only.
LEMMA SuffixSame ==
  ASSUME NEW k \in Seq(Letters), NEW j \in Seq(Letters), NEW o \in Seq(Chars),
         IsSuffix(Placeholder(k), o \o Placeholder(j))
  PROVE  k = j
<1> DEFINE a == Placeholder(k)
           b == Placeholder(j)
           t == o \o b
           m == Len(k)
           n == Len(j)
           q == Len(o)
<1>1. m \in Nat /\ n \in Nat /\ q \in Nat /\ k \in Seq(Chars) /\ j \in Seq(Chars)
  BY LettersOthers, LenProperties
<1>2. /\ a \in Seq(Chars) /\ Len(a) = m + 4 /\ a[2] = "{"
      /\ \A i \in 1 .. m : a[i + 2] = k[i]
  BY <1>1, PlaceholderIs
<1>3. /\ b \in Seq(Chars) /\ Len(b) = n + 4 /\ b[2] = "{"
      /\ \A i \in 1 .. n : b[i + 2] = j[i]
  BY <1>1, PlaceholderIs
<1>4. \A i \in 1 .. m : k[i] # "{"
  <2>1. \A i \in 1 .. m : k[i] \in Letters
    BY ElementOfSeq
  <2>2. QED
    BY <2>1 DEF Letters
<1>5. \A i \in 1 .. n : j[i] # "{"
  <2>1. \A i \in 1 .. n : j[i] \in Letters
    BY ElementOfSeq
  <2>2. QED
    BY <2>1 DEF Letters
<1> HIDE DEF a, b
<1>6. t \in Seq(Chars) /\ Len(t) = q + (n + 4) /\ \A i \in 1 .. n + 4 : t[q + i] = b[i]
  <2>1. /\ t \in Seq(Chars) /\ Len(t) = Len(o) + Len(b)
        /\ \A i \in 1 .. Len(o) + Len(b) : t[i] = IF i <= Len(o) THEN o[i] ELSE b[i - Len(o)]
    BY <1>3, ConcatProperties
  <2>2. ASSUME NEW i \in 1 .. n + 4 PROVE t[q + i] = b[i]
    <3>1. q + i \in 1 .. q + (n + 4) /\ ~(q + i <= q) /\ (q + i) - q = i
      BY <1>1
    <3> HIDE DEF t
    <3>2. QED
      BY <1>3, <2>1, <3>1
  <2>3. QED
    BY <1>3, <2>1, <2>2
<1> HIDE DEF t
<1>7. m + 4 <= q + (n + 4) /\ \A i \in 1 .. m + 4 : a[i] = t[(q + (n + 4)) - (m + 4) + i]
  <2>1. IsSuffix(a, t)
    BY DEF a, b, t
  <2>2. Len(a) <= Len(t) /\ \A i \in 1 .. Len(a) : a[i] = t[Len(t) - Len(a) + i]
    BY <1>2, <1>6, <2>1, SuffixIs
  <2>3. QED
    BY <1>2, <1>6, <2>2
<1> HIDE DEF m, n, q
\* The last characters of the one are those of the other.
<1>8. ASSUME NEW i \in 1 .. m + 4, NEW h \in 1 .. n + 4, (m + 4) - i = (n + 4) - h
      PROVE  a[i] = b[h]
  <2>1. (q + (n + 4)) - (m + 4) + i = q + h
    BY <1>1, <1>8
  <2>2. QED
    BY <1>6, <1>7, <2>1
<1>9. ~(m < n)
  <2> SUFFICES ASSUME m < n PROVE FALSE
    OBVIOUS
  <2>1. /\ 2 \in 1 .. m + 4 /\ (n - m) + 2 \in 1 .. n + 4 /\ n - m \in 1 .. n
        /\ (m + 4) - 2 = (n + 4) - ((n - m) + 2)
    BY <1>1
  <2>2. a[2] = b[(n - m) + 2]
    BY <1>8, <2>1
  <2>3. b[(n - m) + 2] = j[n - m] /\ j[n - m] # "{"
    BY <1>3, <1>5, <2>1
  <2>4. QED
    BY <1>2, <2>2, <2>3
<1>10. ~(n < m)
  <2> SUFFICES ASSUME n < m PROVE FALSE
    OBVIOUS
  <2>1. /\ 2 \in 1 .. n + 4 /\ (m - n) + 2 \in 1 .. m + 4 /\ m - n \in 1 .. m
        /\ (m + 4) - ((m - n) + 2) = (n + 4) - 2
    BY <1>1
  <2>2. a[(m - n) + 2] = b[2]
    BY <1>8, <2>1
  <2>3. a[(m - n) + 2] = k[m - n] /\ k[m - n] # "{"
    BY <1>2, <1>4, <2>1
  <2>4. QED
    BY <1>3, <2>2, <2>3
<1>11. m = n
  BY <1>1, <1>9, <1>10
<1>12. ASSUME NEW i \in 1 .. m PROVE k[i] = j[i]
  <2>1. i + 2 \in 1 .. m + 4 /\ i + 2 \in 1 .. n + 4 /\ (m + 4) - (i + 2) = (n + 4) - (i + 2)
    BY <1>1, <1>11
  <2>2. a[i + 2] = b[i + 2]
    BY <1>8, <2>1
  <2>3. QED
    BY <1>2, <1>3, <1>11, <2>2
<1>13. QED
  BY <1>11, <1>12, SeqEqual DEF m, n

\* A text that ends in a placeholder, and what comes before it.
LEMMA SuffixOwn ==
  ASSUME NEW b \in Seq(Chars), NEW o \in Seq(Chars)
  PROVE  /\ IsSuffix(b, o \o b)
         /\ SubSeq(o \o b, 1, Len(o \o b) - Len(b)) = o
<1> DEFINE t == o \o b
           m == Len(b)
           q == Len(o)
<1>1. m \in Nat /\ q \in Nat
  BY LenProperties
<1>2. /\ t \in Seq(Chars) /\ Len(t) = q + m
      /\ \A i \in 1 .. q + m : t[i] = IF i <= q THEN o[i] ELSE b[i - q]
  BY ConcatProperties
<1> HIDE DEF t
<1>3. IsSuffix(b, t)
  <2>1. m <= Len(t)
    BY <1>1, <1>2
  <2>2. ASSUME NEW i \in 1 .. m PROVE b[i] = t[Len(t) - m + i]
    <3>1. /\ Len(t) - m + i = q + i /\ q + i \in 1 .. q + m /\ ~(q + i <= q)
          /\ (q + i) - q = i
      BY <1>1, <1>2
    <3>2. QED
      BY <1>2, <3>1
  <2>3. QED
    BY <1>2, <2>1, <2>2, SuffixIs
<1>4. SubSeq(t, 1, Len(t) - m) = o
  <2> DEFINE s == SubSeq(t, 1, q)
  <2>1. s \in Seq(Chars) /\ Len(s) = q /\ \A i \in 1 .. q : s[i] = t[i]
    <3>1. SubSeq(t, 1, q) = [i \in 1 .. q |-> t[i]]
      BY <1>1, <1>2
    <3>2. \A i \in 1 .. q : t[i] \in Chars
      <4>1. \A i \in 1 .. q : i \in 1 .. q + m
        BY <1>1
      <4>2. QED
        BY <1>2, <4>1, ElementOfSeq
    <3>3. s \in [1 .. q -> Chars]
      BY <3>1, <3>2
    <3>4. s \in Seq(Chars)
      BY <1>1, <3>3, SeqDef
    <3>5. Len(s) = q
      BY <1>1, <3>1
    <3> HIDE DEF s
    <3>6. QED
      BY <3>1, <3>4, <3>5 DEF s
  <2> HIDE DEF s
  <2>2. \A i \in 1 .. q : s[i] = o[i]
    <3>1. \A i \in 1 .. q : i \in 1 .. q + m /\ i <= q
      BY <1>1
    <3>2. QED
      BY <1>2, <2>1, <3>1
  <2>3. s = o
    BY <2>1, <2>2, SeqEqual
  <2>4. Len(t) - m = q
    BY <1>1, <1>2
  <2>5. QED
    BY <2>3, <2>4 DEF s
<1>5. QED
  BY <1>3, <1>4 DEF t, m

-----------------------------------------------------------------------------
(* Replacing in a text, piece by piece                                     *)

\* What a scan for the placeholder of k has after reading that of j: its own is
\* replaced, another one is only read.
ReadWhole(scan, j, k, new) ==
  IF j = k THEN [done |-> scan.done \o scan.open \o new, open |-> <<>>]
           ELSE Read(scan, Placeholder(j))

LEMMA ScanPlaceholder ==
  ASSUME NEW k \in Seq(Letters), NEW j \in Seq(Letters), NEW new \in Seq(Chars),
         NEW s \in Seq(Chars)
  PROVE  Scanned(s \o Placeholder(j), Placeholder(k), new)
           = ReadWhole(Scanned(s, Placeholder(k), new), j, k, new)
<1> DEFINE old == Placeholder(k)
           l == <<"{", "{">>
           h == l \o j
           g == Append(h, "}")
           b == Append(g, "}")
           scan == Scanned(s, old, new)
           x == scan.open \o h
           y == Append(x, "}")
           z == Append(y, "}")
<1>1. k \in Seq(Chars) /\ j \in Seq(Chars) /\ j \in Seq(Others)
  BY LettersOthers
<1>2. old \in Seq(Chars) /\ Len(old) = Len(k) + 4
      /\ old[Len(k) + 3] = "}" /\ old[Len(k) + 4] = "}"
  BY <1>1, PlaceholderIs
<1>3. "}" \in Chars /\ "{" \in Chars /\ "{" \in Others /\ Others \subseteq Chars
  <2>1. {"{", "}"} \subseteq Chars
    BY TextAssumption
  <2>2. QED
    BY <2>1 DEF Others
<1>4. scan \in Scans /\ scan.done \in Seq(Chars) /\ scan.open \in Seq(Chars)
  <2>1. scan \in Scans
    BY <1>2, ScannedType
  <2> HIDE DEF scan
  <2>2. QED
    BY <2>1 DEF Scans
<1>5. l \in Seq(Others) /\ Len(l) = 2
  <2>1. \A e \in Others : <<e, e>> \in Seq(Others) /\ Len(<<e, e>>) = 2
    OBVIOUS
  <2>2. QED
    BY <1>3, <2>1
<1> HIDE DEF l, scan, old
<1>6. h \in Seq(Others) /\ h \in Seq(Chars) /\ Len(h) = 2 + Len(j)
  <2>1. h \in Seq(Others) /\ Len(h) = Len(l) + Len(j)
    BY <1>1, <1>5, ConcatProperties
  <2>2. h \in Seq(Chars)
    BY <1>3, <2>1, SeqMonotonic
  <2>3. QED
    BY <1>5, <2>1, <2>2
<1> HIDE DEF h
<1>7. g \in Seq(Chars) /\ b \in Seq(Chars)
  BY <1>3, <1>6, AppendProperties
<1>8. b = Placeholder(j)
  <2> DEFINE r == <<"}", "}">>
  <2>1. \A e \in Chars, u \in Seq(Chars) : u \o <<e, e>> = Append(Append(u, e), e)
    <3> TAKE e \in Chars, u \in Seq(Chars)
    <3>1. <<e>> \in Seq(Chars) /\ <<e, e>> = Append(<<e>>, e)
      OBVIOUS
    <3>2. u \o Append(<<e>>, e) = Append(u \o <<e>>, e)
      BY <3>1, AppendConcat
    <3>3. u \o <<e>> = Append(u, e)
      BY AppendIsConcat
    <3>4. QED
      BY <3>1, <3>2, <3>3
  <2>2. h \o r = b
    BY <1>3, <1>6, <2>1
  <2>3. QED
    BY <2>2 DEF Placeholder, h, l
<1>9. x \in Seq(Chars) /\ Len(x) = Len(scan.open) + Len(h)
  BY <1>4, <1>6, ConcatProperties
<1>10. y \in Seq(Chars) /\ z \in Seq(Chars)
  BY <1>3, <1>9, AppendProperties
\* The characters up to the closing braces.
<1>11. s \o h \in Seq(Chars) /\ Scanned(s \o h, old, new) = [done |-> scan.done, open |-> x]
  <2>1. s \o h \in Seq(Chars)
    BY <1>6, ConcatProperties
  <2>2. Scanned(s \o h, old, new) = Read(scan, h)
    BY <1>1, <1>6, ScanOthers DEF scan, old
  <2>3. QED
    BY <2>1, <2>2 DEF Read
<1>12. s \o g = Append(s \o h, "}") /\ s \o g \in Seq(Chars) /\ s \o b = Append(s \o g, "}")
  <2>1. \A u \in Seq(Chars), e \in Chars : s \o Append(u, e) = Append(s \o u, e)
    BY AppendConcat
  <2>2. s \o g \in Seq(Chars)
    BY <1>7, ConcatProperties
  <2>3. QED
    BY <1>3, <1>6, <1>7, <2>1, <2>2
\* The first closing brace comes after something else.
<1>13. ~IsSuffix(old, y)
  <2> DEFINE m == Len(k)
             n == Len(scan.open)
             q == Len(j)
  <2>1. /\ m \in Nat /\ n \in Nat /\ q \in Nat
        /\ Len(old) = m + 4 /\ Len(x) = n + (2 + q) /\ Len(h) = 2 + q
    BY <1>1, <1>2, <1>4, <1>6, <1>9, LenProperties
  <2>2. Len(y) = Len(x) + 1 /\ \A i \in 1 .. Len(x) : y[i] = x[i]
    <3>1. \A u \in Seq(Chars), e \in Chars :
            Len(Append(u, e)) = Len(u) + 1 /\ \A i \in 1 .. Len(u) : Append(u, e)[i] = u[i]
      BY AppendProperties
    <3> HIDE DEF x
    <3>2. QED
      BY <1>3, <1>9, <3>1
  <2>3. \A i \in 1 .. Len(scan.open) + Len(h) :
          x[i] = IF i <= Len(scan.open) THEN scan.open[i] ELSE h[i - Len(scan.open)]
    <3>1. \A u, w \in Seq(Chars) : \A i \in 1 .. Len(u) + Len(w) :
            (u \o w)[i] = IF i <= Len(u) THEN u[i] ELSE w[i - Len(u)]
      BY ConcatProperties
    <3>2. QED
      BY <1>4, <1>6, <3>1
  <2>a. m \in Nat /\ n \in Nat /\ q \in Nat
    BY <2>1
  <2> HIDE DEF m, n, q, x, y
  <2>4. /\ Len(x) \in 1 .. Len(x) /\ ~(Len(x) <= n) /\ Len(x) - n = 2 + q
        /\ Len(x) \in 1 .. n + (2 + q) /\ 2 + q \in 1 .. 2 + q
        /\ m + 3 \in 1 .. m + 4 /\ Len(y) - (m + 4) + (m + 3) = Len(x)
    <3>1. Len(x) = n + (2 + q) /\ Len(y) = Len(x) + 1
      BY <2>1, <2>2
    <3>2. QED
      BY <2>a, <3>1
  <2>5. y[Len(x)] = x[Len(x)]
    BY <2>2, <2>4
  <2>6. x[Len(x)] = h[2 + q]
    <3>1. \A i \in 1 .. n + (2 + q) : x[i] = IF i <= n THEN scan.open[i] ELSE h[i - n]
      BY <2>1, <2>3 DEF n
    <3>2. QED
      BY <2>4, <3>1
  <2>7. h[2 + q] \in Others
    BY <1>6, <2>1, <2>4, ElementOfSeq
  <2>8. IsSuffix(old, y) => \A i \in 1 .. Len(old) : old[i] = y[Len(y) - Len(old) + i]
    BY <1>2, <1>10, SuffixIs
  <2>9. IsSuffix(old, y) => old[m + 3] = y[Len(x)]
    BY <2>1, <2>4, <2>8
  <2>10. old[m + 3] = "}" /\ h[2 + q] # "}"
    BY <1>2, <2>7 DEF Others, m
  <2>11. QED
    BY <2>5, <2>6, <2>9, <2>10
<1> HIDE DEF x, g
<1>b. \A u \in Seq(Chars), e \in Chars :
        Scanned(Append(u, e), old, new) = Scan(Scanned(u, old, new), e, old, new)
  BY ScannedAppend
<1>14. Scanned(s \o g, old, new) = [done |-> scan.done, open |-> y]
  <2>1. Scanned(s \o g, old, new) = Scan([done |-> scan.done, open |-> x], "}", old, new)
    BY <1>3, <1>11, <1>12, <1>b
  <2>2. QED
    BY <1>13, <2>1 DEF Scan
<1> HIDE DEF y
<1>15. Scanned(s \o b, old, new) = Scan([done |-> scan.done, open |-> y], "}", old, new)
  BY <1>3, <1>12, <1>14, <1>b
<1>16. z = scan.open \o b
  <2>1. \A u \in Seq(Chars), e \in Chars : scan.open \o Append(u, e) = Append(scan.open \o u, e)
    <3>1. \A w, u \in Seq(Chars), e \in Chars : w \o Append(u, e) = Append(w \o u, e)
      BY AppendConcat
    <3>2. QED
      BY <1>4, <3>1
  <2>2. scan.open \o g = y
    BY <1>3, <1>6, <2>1 DEF g, x, y
  <2>3. QED
    BY <1>3, <1>7, <2>1, <2>2
<1> HIDE DEF z
<1>17. Scanned(s \o b, old, new) = ReadWhole(scan, j, k, new)
  <2>1. CASE j = k
    <3>1. b = old
      BY <1>8, <2>1 DEF old
    <3>2. IsSuffix(old, z) /\ SubSeq(z, 1, Len(z) - Len(old)) = scan.open
      BY <1>4, <1>7, <1>16, <3>1, SuffixOwn
    <3>3. Scan([done |-> scan.done, open |-> y], "}", old, new)
            = [done |-> scan.done \o scan.open \o new, open |-> <<>>]
      BY <3>2 DEF Scan, z
    <3>4. QED
      BY <1>15, <2>1, <3>3 DEF ReadWhole
  <2>2. CASE j # k
    <3>1. ~IsSuffix(old, z)
      BY <1>4, <1>8, <1>16, <2>2, SuffixSame DEF old
    <3>2. Scan([done |-> scan.done, open |-> y], "}", old, new)
            = [done |-> scan.done, open |-> z]
      BY <3>1 DEF Scan, z
    <3>3. Scan([done |-> scan.done, open |-> y], "}", old, new) = Read(scan, b)
      BY <1>16, <3>2 DEF Read
    <3>4. QED
      BY <1>8, <1>15, <2>2, <3>3 DEF ReadWhole
  <2>3. QED
    BY <2>1, <2>2
<1>18. QED
  BY <1>8, <1>17 DEF scan, old

LEMMA ConcatThree ==
  \A d, o, w \in Seq(Chars) : d \o (o \o w) = (d \o o) \o w
<1> TAKE d \in Seq(Chars), o \in Seq(Chars), w \in Seq(Chars)
<1>1. QED
  BY SMTT(40), ConcatAssociative

LEMMA ReplaceType ==
  ASSUME NEW k \in Seq(Chars), NEW v \in Seq(Chars), NEW s \in Seq(Chars)
  PROVE  ReplaceKey(s, k, v) \in Seq(Chars)
<1>1. Placeholder(k) \in Seq(Chars)
  BY PlaceholderIs
<1>2. Scanned(s, Placeholder(k), v) \in Scans
  BY <1>1, ScannedType
<1>3. \A scan \in Scans : scan.done \in Seq(Chars) /\ scan.open \in Seq(Chars)
  BY DEF Scans
<1>4. \A d, o \in Seq(Chars) : d \o o \in Seq(Chars)
  BY ConcatProperties
<1>5. QED
  BY <1>2, <1>3, <1>4 DEF ReplaceKey, ReplaceText

\* A piece of text without braces stays as it is.
LEMMA ReplaceLetters ==
  ASSUME NEW k \in Seq(Letters), NEW v \in Seq(Letters), NEW s \in Seq(Chars),
         NEW u \in Seq(Letters)
  PROVE  ReplaceKey(s \o u, k, v) = ReplaceKey(s, k, v) \o u
<1> DEFINE scan == Scanned(s, Placeholder(k), v)
<1>1. k \in Seq(Chars) /\ v \in Seq(Chars) /\ u \in Seq(Chars) /\ u \in Seq(Others)
  BY LettersOthers
<1>2. Placeholder(k) \in Seq(Chars)
  BY <1>1, PlaceholderIs
<1>3. scan \in Scans
  BY <1>1, <1>2, ScannedType
<1>4. Scanned(s \o u, Placeholder(k), v) = Read(scan, u)
  BY <1>1, ScanOthers
<1> HIDE DEF scan
<1>5. scan.done \in Seq(Chars) /\ scan.open \in Seq(Chars)
  BY <1>3 DEF Scans
<1>6. scan.done \o (scan.open \o u) = (scan.done \o scan.open) \o u
  <2>1. u \in Seq(Chars)
    BY <1>1
  <2>2. QED
    BY <1>5, <2>1, ConcatThree
<1>7. ReplaceKey(s, k, v) = scan.done \o scan.open
  BY DEF ReplaceKey, ReplaceText, scan
<1>8. ReplaceKey(s \o u, k, v) = Read(scan, u).done \o Read(scan, u).open
  BY <1>4 DEF ReplaceKey, ReplaceText
<1>9. Read(scan, u).done = scan.done /\ Read(scan, u).open = scan.open \o u
  BY DEF Read
<1>10. QED
  BY <1>6, <1>7, <1>8, <1>9

\* A placeholder becomes the value, if it is the one replaced.
Becomes(j, k, v) == IF j = k THEN v ELSE Placeholder(j)

LEMMA ReplacePlaceholder ==
  ASSUME NEW k \in Seq(Letters), NEW j \in Seq(Letters), NEW v \in Seq(Letters),
         NEW s \in Seq(Chars)
  PROVE  ReplaceKey(s \o Placeholder(j), k, v)
           = ReplaceKey(s, k, v) \o Becomes(j, k, v)
<1> DEFINE scan == Scanned(s, Placeholder(k), v)
           b == Placeholder(j)
<1>1. k \in Seq(Chars) /\ j \in Seq(Chars) /\ v \in Seq(Chars)
  BY LettersOthers
<1>2. Placeholder(k) \in Seq(Chars) /\ b \in Seq(Chars)
  BY <1>1, PlaceholderIs
<1>3. scan \in Scans
  BY <1>1, <1>2, ScannedType
<1>4. Scanned(s \o b, Placeholder(k), v) = ReadWhole(scan, j, k, v)
  BY <1>1, ScanPlaceholder
<1>5. ReplaceKey(s, k, v) = scan.done \o scan.open
  BY DEF ReplaceKey, ReplaceText
<1>6. ReplaceKey(s \o b, k, v)
        = Scanned(s \o b, Placeholder(k), v).done \o Scanned(s \o b, Placeholder(k), v).open
  BY DEF ReplaceKey, ReplaceText
<1> HIDE DEF scan, b
<1>7. scan.done \in Seq(Chars) /\ scan.open \in Seq(Chars)
  BY <1>3 DEF Scans
<1>8. CASE j = k
  <2>1. scan.done \o scan.open \o v \in Seq(Chars)
    <3>1. \A d, o \in Seq(Chars) : d \o o \in Seq(Chars)
      BY ConcatProperties
    <3>2. QED
      BY <1>1, <1>7, <3>1
  <2>2. (scan.done \o scan.open \o v) \o <<>> = scan.done \o scan.open \o v
    BY <2>1, ConcatEmptySeq
  <2>3. ReplaceKey(s \o b, k, v) = (scan.done \o scan.open \o v) \o <<>>
    <3>1. Scanned(s \o b, Placeholder(k), v)
            = [done |-> scan.done \o scan.open \o v, open |-> <<>>]
      BY <1>4, <1>8 DEF ReadWhole
    <3> DEFINE w == scan.done \o scan.open \o v
    <3> HIDE DEF w
    <3>2. Scanned(s \o b, Placeholder(k), v) = [done |-> w, open |-> <<>>]
      BY <3>1 DEF w
    <3>3. ReplaceKey(s \o b, k, v) = w \o <<>>
      BY <1>6, <3>2
    <3>4. QED
      BY <3>3 DEF w
  <2>4. QED
    BY <1>5, <1>8, <2>2, <2>3 DEF b, Becomes
<1>9. CASE j # k
  <2>1. scan.done \o (scan.open \o b) = (scan.done \o scan.open) \o b
    <3>1. b \in Seq(Chars)
      BY <1>2
    <3>2. QED
      BY <1>7, <3>1, ConcatThree
  <2>2. Read(scan, b).done = scan.done /\ Read(scan, b).open = scan.open \o b
    BY DEF Read
  <2>3. ReplaceKey(s \o b, k, v) = scan.done \o (scan.open \o b)
    BY <1>4, <1>6, <1>9, <2>2 DEF ReadWhole, b
  <2>4. QED
    BY <1>5, <1>9, <2>1, <2>3 DEF b, Becomes
<1>10. QED
  BY <1>8, <1>9

-----------------------------------------------------------------------------
(* The command                                                             *)

\* Pieces without braces, and values of variables without braces.
Pieces == [named : BOOLEAN, text : Seq(Letters)]

Plain(f) == \A t \in DOMAIN f : t \in Seq(Letters) /\ f[t] \in Seq(Letters)

\* What a piece spells once the keys D are replaced, and a whole command.
Put(piece, f, D) ==
  IF piece.named /\ piece.text \in D THEN f[piece.text] ELSE Spelled(piece)

Text(pieces, f, D) == FlattenSeq([i \in DOMAIN pieces |-> Put(pieces[i], f, D)])

LEMMA PutType ==
  ASSUME NEW f, Plain(f), NEW D \in SUBSET DOMAIN f, NEW piece \in Pieces
  PROVE  Put(piece, f, D) \in Seq(Chars)
<1>1. piece.text \in Seq(Letters)
  BY DEF Pieces
<1>2. piece.text \in Seq(Chars)
  BY <1>1, LettersOthers
<1>3. Placeholder(piece.text) \in Seq(Chars)
  BY <1>2, PlaceholderIs
<1>4. \A t \in D : f[t] \in Seq(Chars)
  BY LettersOthers DEF Plain
<1>5. QED
  BY <1>2, <1>3, <1>4 DEF Put, Spelled

LEMMA TextEmpty ==
  ASSUME NEW f, NEW D
  PROVE  Text(<<>>, f, D) = <<>>
<1>1. [i \in DOMAIN <<>> |-> Put(<<>>[i], f, D)] = <<>>
  OBVIOUS
<1>2. QED
  BY <1>1, FlattenEmpty DEF Text

\* One more piece at the end of a command.
LEMMA TextAppend ==
  ASSUME NEW f, Plain(f), NEW D \in SUBSET DOMAIN f, NEW u \in Seq(Pieces), NEW e \in Pieces
  PROVE  Text(Append(u, e), f, D) = Text(u, f, D) \o Put(e, f, D)
<1> DEFINE m(w) == [i \in DOMAIN w |-> Put(w[i], f, D)]
           a == Append(u, e)
           n == Len(u)
<1>1. \A w \in Pieces : Put(w, f, D) \in Seq(Chars)
  BY PutType
<1>2. \A w : Text(w, f, D) = FlattenSeq(m(w))
  BY DEF Text
<1>3. /\ a \in Seq(Pieces) /\ n \in Nat /\ Len(a) = n + 1 /\ a[n + 1] = e
      /\ \A i \in 1 .. n : a[i] = u[i]
      /\ DOMAIN u = 1 .. n /\ DOMAIN a = 1 .. (n + 1)
  BY AppendProperties, LenProperties
<1>4. \A i \in 1 .. n : u[i] \in Pieces
  BY ElementOfSeq
<1> HIDE DEF a, n
<1>5. m(u) = [i \in 1 .. n |-> Put(u[i], f, D)]
  BY <1>3
<1>6. m(u) \in Seq(Seq(Chars)) /\ Len(m(u)) = n
  BY <1>1, <1>3, <1>4, <1>5
<1>7. /\ Append(m(u), Put(e, f, D)) \in Seq(Seq(Chars))
      /\ Len(Append(m(u), Put(e, f, D))) = n + 1
      /\ \A i \in 1 .. n : Append(m(u), Put(e, f, D))[i] = m(u)[i]
      /\ Append(m(u), Put(e, f, D))[n + 1] = Put(e, f, D)
  BY <1>1, <1>6, AppendProperties
<1>8. m(a) = [i \in 1 .. (n + 1) |-> Put(a[i], f, D)]
  BY <1>3
<1>9. m(a) \in Seq(Seq(Chars)) /\ Len(m(a)) = n + 1
  <2>1. \A i \in 1 .. (n + 1) : a[i] \in Pieces
    BY <1>3, ElementOfSeq
  <2>2. QED
    BY <1>1, <1>3, <1>8, <2>1
<1>10. \A i \in 1 .. (n + 1) : m(a)[i] = Append(m(u), Put(e, f, D))[i]
  <2> TAKE i \in 1 .. (n + 1)
  <2>1. m(a)[i] = Put(a[i], f, D)
    BY <1>8
  <2>2. CASE i = n + 1
    BY <1>3, <1>7, <2>1, <2>2
  <2>3. CASE i \in 1 .. n
    BY <1>3, <1>5, <1>7, <2>1, <2>3
  <2>4. QED
    BY <1>3, <2>2, <2>3
<1> HIDE DEF m
<1>11. m(a) = Append(m(u), Put(e, f, D))
  BY <1>7, <1>9, <1>10, SeqEqual
<1>12. FlattenSeq(Append(m(u), Put(e, f, D))) = FlattenSeq(m(u)) \o Put(e, f, D)
  BY <1>1, <1>6, FlattenAppend
<1>13. QED
  BY <1>2, <1>11, <1>12 DEF a

LEMMA TextType ==
  ASSUME NEW f, Plain(f), NEW D \in SUBSET DOMAIN f, NEW pieces \in Seq(Pieces)
  PROVE  Text(pieces, f, D) \in Seq(Chars)
<1> DEFINE T == {u \in Seq(Pieces) : Text(u, f, D) \in Seq(Chars)}
<1>1. <<>> \in T
  <2>1. <<>> \in Seq(Pieces) /\ <<>> \in Seq(Chars)
    OBVIOUS
  <2>2. QED
    BY <2>1, TextEmpty
<1>2. ASSUME NEW u \in Seq(Pieces), NEW e \in Pieces, u \in T PROVE Append(u, e) \in T
  <2>1. Put(e, f, D) \in Seq(Chars) /\ Text(u, f, D) \in Seq(Chars)
    BY <1>2, PutType
  <2>2. Text(u, f, D) \o Put(e, f, D) \in Seq(Chars)
    BY <2>1, ConcatProperties
  <2>3. Append(u, e) \in Seq(Pieces)
    BY AppendProperties
  <2>4. QED
    BY <2>2, <2>3, TextAppend
<1> HIDE DEF T
<1>3. Seq(Pieces) \subseteq T
  BY <1>1, <1>2, SeqSetInduction
<1>4. QED
  BY <1>3 DEF T

\* One turn of the loop, for a command of any length.
LEMMA ReplaceNext ==
  ASSUME NEW f, Plain(f), NEW D \in SUBSET DOMAIN f, NEW k \in DOMAIN f, k \notin D,
         NEW pieces \in Seq(Pieces)
  PROVE  ReplaceKey(Text(pieces, f, D), k, f[k]) = Text(pieces, f, D \cup {k})
<1> DEFINE E == D \cup {k}
           v == f[k]
           T == {u \in Seq(Pieces) : ReplaceKey(Text(u, f, D), k, v) = Text(u, f, E)}
<1>1. k \in Seq(Letters) /\ v \in Seq(Letters) /\ \A t \in D : f[t] \in Seq(Letters)
  BY DEF Plain
<1>2. E \in SUBSET DOMAIN f
  OBVIOUS
<1>a. k \in E /\ D \subseteq E /\ (\A t \in E : t = k \/ t \in D) /\ k \notin D
  OBVIOUS
<1> HIDE DEF E, v
<1>3. <<>> \in T
  <2>1. Scanned(<<>>, Placeholder(k), v) = Unread
    BY ScannedEmpty
  <2>2. <<>> \o <<>> = <<>> /\ <<>> \in Seq(Pieces)
    OBVIOUS
  <2>3. ReplaceKey(<<>>, k, v) = <<>>
    BY <2>1, <2>2 DEF ReplaceKey, ReplaceText, Unread
  <2>4. QED
    BY <2>2, <2>3, TextEmpty
<1>4. ASSUME NEW u \in Seq(Pieces), NEW e \in Pieces, u \in T PROVE Append(u, e) \in T
  <2> DEFINE s == Text(u, f, D)
  <2>1. s \in Seq(Chars) /\ e.text \in Seq(Letters)
    BY TextType DEF Pieces
  <2>2. Text(Append(u, e), f, D) = s \o Put(e, f, D)
    BY TextAppend
  <2>3. Text(Append(u, e), f, E) = Text(u, f, E) \o Put(e, f, E)
    BY <1>2, TextAppend
  <2>4. ReplaceKey(s, k, v) = Text(u, f, E)
    BY <1>4
  <2> HIDE DEF s
  <2>a. \A w \in Seq(Letters) : ReplaceKey(s \o w, k, v) = ReplaceKey(s, k, v) \o w
    BY <1>1, <2>1, ReplaceLetters
  <2>b. \A w \in Seq(Letters) :
          ReplaceKey(s \o Placeholder(w), k, v) = ReplaceKey(s, k, v) \o Becomes(w, k, v)
    BY ZenonT(60), <1>1, <2>1, ReplacePlaceholder
  <2>5. ReplaceKey(s \o Put(e, f, D), k, v) = ReplaceKey(s, k, v) \o Put(e, f, E)
    <3>1. CASE ~e.named
      <4>1. Put(e, f, D) = e.text /\ Put(e, f, E) = e.text
        BY <3>1 DEF Put, Spelled
      <4>2. ReplaceKey(s \o e.text, k, v) = ReplaceKey(s, k, v) \o e.text
        BY <2>1, <2>a
      <4>3. QED
        BY <4>1, <4>2
    <3>2. CASE e.named /\ e.text \in D
      <4>1. Put(e, f, D) = f[e.text] /\ Put(e, f, E) = f[e.text] /\ f[e.text] \in Seq(Letters)
        BY <1>1, <1>a, <3>2 DEF Put
      <4>2. ReplaceKey(s \o f[e.text], k, v) = ReplaceKey(s, k, v) \o f[e.text]
        BY <2>a, <4>1
      <4>3. QED
        BY <4>1, <4>2
    <3>3. CASE e.named /\ e.text \notin D
      <4>1. Put(e, f, D) = Placeholder(e.text)
        BY <3>3 DEF Put, Spelled
      <4>2. Put(e, f, E) = Becomes(e.text, k, v)
        BY <1>a, <3>3 DEF Put, Spelled, Becomes, v
      <4>3. ReplaceKey(s \o Placeholder(e.text), k, v)
              = ReplaceKey(s, k, v) \o Becomes(e.text, k, v)
        BY <2>1, <2>b
      <4>4. QED
        BY <4>1, <4>2, <4>3
    <3>4. QED
      BY <3>1, <3>2, <3>3
  <2>6. Append(u, e) \in Seq(Pieces)
    BY AppendProperties
  <2>7. QED
    BY <2>2, <2>3, <2>4, <2>5, <2>6
<1> HIDE DEF T
<1>5. Seq(Pieces) \subseteq T
  BY <1>3, <1>4, SeqSetInduction
<1>6. QED
  BY <1>5 DEF T, E, v

\* Without braces a text is one of letters.
LEMMA BracelessType == \A text \in Seq(Chars) : Braceless(text) => text \in Seq(Letters)
<1> TAKE text \in Seq(Chars)
<1> SUFFICES ASSUME Braceless(text) PROVE text \in Seq(Letters)
  OBVIOUS
<1>1. text \in [1 .. Len(text) -> Chars] /\ DOMAIN text = 1 .. Len(text) /\ Len(text) \in Nat
  BY LenProperties
<1>2. \A i \in 1 .. Len(text) : text[i] \in Letters
  <2> TAKE i \in 1 .. Len(text)
  <2>1. text[i] \in Chars /\ text[i] \in ToSet(text)
    BY <1>1, ElementOfSeq DEF ToSet
  <2>2. text[i] \notin {"{", "}"}
    BY <2>1 DEF Braceless
  <2>3. QED
    BY <2>1, <2>2 DEF Letters
<1>3. text \in [1 .. Len(text) -> Letters]
  BY <1>1, <1>2
<1>4. QED
  BY <1>1, <1>3, SeqDef

\* The command while the loop runs: the keys it has been to are replaced, and
\* no others.
CommandInv ==
  /\ pc \in {"command", "ports", "limits", "done"}
  /\ env \in [DOMAIN env -> Values] /\ DOMAIN env \subseteq Keys /\ startup \in Commands
  /\ keys \subseteq DOMAIN env
  /\ pc # "command" => keys = {}
  /\ Clean => cmd = Text(startup, env, DOMAIN env \ keys)

\* What a clean configuration is made of.
LEMMA CleanTypes ==
  ASSUME env \in [DOMAIN env -> Values], DOMAIN env \subseteq Keys, startup \in Commands, Clean
  PROVE  Plain(env) /\ startup \in Seq(Pieces)
<1>1. /\ \A t \in Keys \cup Values : t \in Seq(Chars)
      /\ startup \in Seq([named : BOOLEAN, text : Seq(Chars)])
  BY TextAssumption
<1>2. Plain(env)
  <2> SUFFICES ASSUME NEW t \in DOMAIN env PROVE t \in Seq(Letters) /\ env[t] \in Seq(Letters)
    BY DEF Plain
  <2>1. t \in Seq(Chars) /\ env[t] \in Seq(Chars)
    BY <1>1
  <2>2. Braceless(t) /\ Braceless(env[t])
    BY DEF Clean
  <2>3. QED
    BY <2>1, <2>2, BracelessType
<1>3. startup \in Seq(Pieces)
  <2> DEFINE n == Len(startup)
  <2>1. /\ startup \in [1 .. n -> [named : BOOLEAN, text : Seq(Chars)]]
        /\ DOMAIN startup = 1 .. n /\ n \in Nat
    BY <1>1, LenProperties
  <2> HIDE DEF n
  <2>2. \A i \in 1 .. n : startup[i] \in Pieces
    <3> TAKE i \in 1 .. n
    <3>1. startup[i] \in [named : BOOLEAN, text : Seq(Chars)]
      BY <2>1
    <3>2. startup[i].text \in Seq(Chars) /\ Braceless(startup[i].text)
      BY <2>1, <3>1 DEF Clean
    <3>3. startup[i].text \in Seq(Letters)
      BY <3>2, BracelessType
    <3>4. QED
      BY <3>1, <3>3 DEF Pieces
  <2>3. startup \in [1 .. n -> Pieces]
    BY <2>1, <2>2
  <2>4. QED
    BY <2>1, <2>3, SeqDef
<1>4. QED
  BY <1>2, <1>3

LEMMA CommandStart ==
  StartupCommand(startup) = Text(startup, env, DOMAIN env \ DOMAIN env)
<1>1. \A x : Put(x, env, DOMAIN env \ DOMAIN env) = Spelled(x)
  BY DEF Put
<1>2. [i \in DOMAIN startup |-> Put(startup[i], env, DOMAIN env \ DOMAIN env)]
        = [i \in DOMAIN startup |-> Spelled(startup[i])]
  BY <1>1
<1>3. QED
  BY <1>2 DEF StartupCommand, Text

LEMMA CommandInit == Init => CommandInv
<1> SUFFICES ASSUME Init PROVE CommandInv
  OBVIOUS
<1>1. /\ startup \in Commands /\ cmd = StartupCommand(startup) /\ keys = DOMAIN env
      /\ pc = "command"
  BY DEF Init
<1>2. env \in [DOMAIN env -> Values] /\ DOMAIN env \subseteq Keys
  BY DEF Init
<1>3. cmd = Text(startup, env, DOMAIN env \ keys)
  BY <1>1, CommandStart
<1>4. QED
  BY <1>1, <1>2, <1>3 DEF CommandInv

LEMMA CommandNext == CommandInv /\ [Next]_vars => CommandInv'
<1> SUFFICES ASSUME CommandInv, [Next]_vars PROVE CommandInv'
  OBVIOUS
<1>0. env' = env /\ startup' = startup
  BY DEF Next, Resolve, BindPort, SetLimits, Again, vars, config
<1>a. Clean' <=> Clean
  BY <1>0 DEF Clean
<1>1. CASE Resolve
  <2>1. CASE keys = {}
    <3>1. UNCHANGED <<cmd, keys>> /\ pc' = "ports"
      BY <1>1, <2>1 DEF Resolve
    <3>2. QED
      BY <1>0, <1>a, <2>1, <3>1 DEF CommandInv
  <2>2. CASE keys # {}
    <3>1. PICK k \in keys : cmd' = ReplaceKey(cmd, k, env[k]) /\ keys' = keys \ {k}
      BY <1>1, <2>2 DEF Resolve
    <3>2. pc = "command" /\ pc' = pc /\ k \in DOMAIN env
      BY <1>1, <2>2, <3>1 DEF Resolve, CommandInv
    <3>3. ASSUME Clean
          PROVE  cmd' = Text(startup, env, DOMAIN env \ keys')
      <4> DEFINE D == DOMAIN env \ keys
      <4>1. Plain(env) /\ startup \in Seq(Pieces)
        BY <3>3, CleanTypes DEF CommandInv
      <4>2. D \in SUBSET DOMAIN env /\ k \notin D /\ DOMAIN env \ keys' = D \cup {k}
        BY <3>1, <3>2 DEF CommandInv
      <4>3. cmd = Text(startup, env, D)
        BY <3>3 DEF CommandInv
      <4> HIDE DEF D
      <4>4. ReplaceKey(Text(startup, env, D), k, env[k]) = Text(startup, env, D \cup {k})
        BY <3>2, <4>1, <4>2, ReplaceNext
      <4>5. QED
        BY <3>1, <4>2, <4>3, <4>4
    <3>4. QED
      BY <1>0, <1>a, <3>1, <3>2, <3>3 DEF CommandInv
  <2>3. QED
    BY <2>1, <2>2
<1>2. CASE BindPort \/ SetLimits \/ UNCHANGED vars
  <2>1. /\ cmd' = cmd /\ keys' = keys /\ pc' \in {"command", "ports", "limits", "done"}
        /\ pc' # "command" => pc # "command"
    BY <1>2 DEF BindPort, SetLimits, vars, CommandInv
  <2>2. pc' # "command" => keys' = {}
    BY <2>1 DEF CommandInv
  <2>3. Clean' => cmd' = Text(startup', env', DOMAIN env' \ keys')
    BY <1>0, <1>a, <2>1 DEF CommandInv
  <2>4. QED
    BY <1>0, <2>1, <2>2, <2>3 DEF CommandInv
<1>3. CASE Again
  <2>1. cmd' = StartupCommand(startup) /\ keys' = DOMAIN env /\ pc' = "command"
    BY <1>3 DEF Again
  <2>2. cmd' = Text(startup, env, DOMAIN env \ keys')
    BY <2>1, CommandStart
  <2>3. QED
    BY <1>0, <1>a, <2>1, <2>2 DEF CommandInv
<1>4. QED
  BY <1>1, <1>2, <1>3 DEF Next

\* The command of every start is the one that was meant, for commands of any
\* length, any variables and any values as long as none has a brace in it, in
\* whatever order the loop of CreateContainer goes through the map.
THEOREM CommandCorrect == Spec => []SameCommand
<1>1. CommandInv => SameCommand
  <2> SUFFICES ASSUME CommandInv, Clean, pc = "done" PROVE cmd = Meant(startup)
    BY DEF SameCommand
  <2>1. keys = {} /\ cmd = Text(startup, env, DOMAIN env \ keys)
    BY DEF CommandInv
  <2>2. cmd = Text(startup, env, DOMAIN env)
    BY <2>1
  <2>3. QED
    BY <2>2 DEF Text, Put, Meant
<1>2. QED
  BY <1>1, CommandInit, CommandNext, PTL DEF Spec


-----------------------------------------------------------------------------
(* The port bindings                                                       *)

\* The bindings are those of the entries the loop has been to.
PortsInv ==
  /\ pc \in {"command", "ports", "limits", "done"}
  /\ ports \in PortLists
  /\ next \in 1..(Len(ports) + 1)
  /\ pc = "command" => next = 1 /\ bindings = <<>>
  /\ pc \in {"limits", "done"} => next = Len(ports) + 1
  /\ \A i \in 1..(next - 1) : NatPort(ports[i]) \in DOMAIN bindings
  /\ \A b \in DOMAIN bindings : \E i \in 1..(next - 1) :
       NatPort(ports[i]) = b /\ bindings[b] = << <<HostIP(ports[i]), ports[i].port>> >>

LEMMA PortsLen == \A list \in PortLists : Len(list) \in Nat /\ DOMAIN list = 1..Len(list)
  BY ContainerSpecAssumption, LenProperties

LEMMA PortsInit == Init => PortsInv
<1> SUFFICES ASSUME Init PROVE PortsInv
  OBVIOUS
<1>1. ports \in PortLists /\ next = 1 /\ bindings = <<>> /\ pc = "command"
  BY DEF Init
<1>2. DOMAIN bindings = {} /\ next \in 1..(Len(ports) + 1) /\ 1..(next - 1) = {}
  BY <1>1, PortsLen
<1>3. QED
  BY <1>1, <1>2 DEF PortsInv

LEMMA PortsNext == PortsInv /\ [Next]_vars => PortsInv'
<1> SUFFICES ASSUME PortsInv, [Next]_vars PROVE PortsInv'
  OBVIOUS
<1>0. /\ ports' = ports /\ ports \in PortLists /\ Len(ports) \in Nat
      /\ next \in Nat /\ 1 <= next /\ next <= Len(ports) + 1
  BY PortsLen DEF PortsInv, Next, Resolve, BindPort, SetLimits, Again, vars, config
<1>1. CASE Resolve \/ SetLimits \/ UNCHANGED vars
  <2>1. /\ UNCHANGED <<bindings, next>> /\ pc' \in {"command", "ports", "limits", "done"}
        /\ pc' = "command" => pc = "command"
        /\ pc' \in {"limits", "done"} => pc \in {"limits", "done"}
    BY <1>1 DEF Resolve, SetLimits, vars, PortsInv
  <2>2. QED
    BY <1>0, <2>1 DEF PortsInv
<1>2. CASE BindPort
  <2>1. CASE next > Len(ports)
    <3>1. /\ UNCHANGED <<bindings, next>> /\ pc' = "limits" /\ next = Len(ports) + 1
      BY <1>0, <1>2, <2>1 DEF BindPort
    <3>2. QED
      BY <1>0, <3>1 DEF PortsInv
  <2>2. CASE ~(next > Len(ports))
    <3> DEFINE p == ports[next]
               entry == << <<HostIP(p), p.port>> >>
    <3>1. /\ bindings' = [b \in DOMAIN bindings \cup {NatPort(p)} |->
                            IF b = NatPort(p) THEN entry ELSE bindings[b]]
          /\ next' = next + 1 /\ pc' = "ports"
      BY <1>2, <2>2 DEF BindPort
    <3>2. /\ DOMAIN bindings' = DOMAIN bindings \cup {NatPort(p)}
          /\ bindings'[NatPort(p)] = entry
          /\ \A b \in DOMAIN bindings \ {NatPort(p)} : bindings'[b] = bindings[b]
      BY <3>1
    <3>3. /\ next' \in 1..(Len(ports) + 1) /\ next \in 1..(next' - 1)
          /\ \A i \in 1..(next - 1) : i \in 1..(next' - 1)
          /\ \A i \in 1..(next' - 1) : i \in 1..(next - 1) \/ i = next
      BY <1>0, <2>2, <3>1
    <3>4. \A i \in 1..(next' - 1) : NatPort(ports[i]) \in DOMAIN bindings'
      BY <3>2, <3>3 DEF PortsInv
    <3>5. ASSUME NEW b \in DOMAIN bindings'
          PROVE  \E i \in 1..(next' - 1) :
                   NatPort(ports[i]) = b /\ bindings'[b] = << <<HostIP(ports[i]), ports[i].port>> >>
      <4>1. CASE b = NatPort(p)
        BY <3>2, <3>3, <4>1
      <4>2. CASE b # NatPort(p)
        <5>1. b \in DOMAIN bindings /\ bindings'[b] = bindings[b]
          BY <3>2, <4>2
        <5>2. QED
          BY <3>3, <5>1 DEF PortsInv
      <4>3. QED
        BY <4>1, <4>2
    <3>6. QED
      BY <1>0, <3>1, <3>3, <3>4, <3>5 DEF PortsInv
  <2>3. QED
    BY <2>1, <2>2
<1>3. CASE Again
  <2>1. next' = 1 /\ bindings' = <<>> /\ pc' = "command"
    BY <1>3 DEF Again
  <2>2. DOMAIN bindings' = {} /\ next' \in 1..(Len(ports) + 1) /\ 1..(next' - 1) = {}
    BY <1>0, <2>1
  <2>3. QED
    BY <1>0, <2>1, <2>2 DEF PortsInv
<1>4. QED
  BY <1>1, <1>2, <1>3 DEF Next

\* Every port asked for is bound, once, and to an address that was asked for
\* it, however many entries name it (manager.go:76-91).
THEOREM PortsCorrect == Spec => []PortsBoundOnce
<1>1. PortsInv => PortsBoundOnce
  <2> SUFFICES ASSUME PortsInv, pc = "done"
               PROVE  /\ \A i \in DOMAIN ports : NatPort(ports[i]) \in DOMAIN bindings
                      /\ \A b \in DOMAIN bindings :
                           /\ Len(bindings[b]) = 1
                           /\ \E i \in DOMAIN ports :
                                /\ NatPort(ports[i]) = b
                                /\ bindings[b][1] = <<HostIP(ports[i]), ports[i].port>>
    BY DEF PortsBoundOnce
  <2>1. DOMAIN ports = 1..(next - 1)
    BY PortsLen DEF PortsInv
  <2>2. QED
    BY <2>1 DEF PortsInv
<1>2. QED
  BY <1>1, PortsInit, PortsNext, PTL DEF Spec

-----------------------------------------------------------------------------
(* The limits                                                              *)

LEMMA WrapFacts ==
  ASSUME NEW n \in Int
  PROVE  /\ Wrap(n) \in -Half .. Half - 1
         /\ n >= 0 => Wrap(n) <= n
         /\ n \in -Half .. Half - 1 => Wrap(n) = n
<1> DEFINE d == 2 * Half
           a == n + Half
<1>1. Half \in Nat /\ Half > 0 /\ d \in Nat /\ d > 0 /\ a \in Int
  BY ContainerSpecAssumption
<1>2. d = Half + Half /\ Wrap(n) = (a % d) - Half
  BY <1>1 DEF Wrap
<1> HIDE DEF a, d
<1>3. a % d \in 0 .. d - 1
  BY <1>1
<1>4. a \in Nat => a % d <= a
  BY <1>1
<1>5. a \in Nat /\ a < d => a % d = a
  BY <1>1
<1>6. a = n + Half
  BY DEF a
<1>7. QED
  BY <1>1, <1>2, <1>3, <1>4, <1>5, <1>6

\* No limit that is asked for is exceeded, and there always is one.
LEMMA MemBytesFacts ==
  ASSUME NEW mb \in Int
  PROVE  MemBytes(mb) > 0 /\ (mb > 0 => MemBytes(mb) <= mb * Unit)
<1> DEFINE bytes == mb * Unit
           default == DefaultMB * Unit
<1>1. /\ Unit \in Nat /\ Unit > 0 /\ DefaultMB \in Nat /\ DefaultMB > 0
      /\ Half \in Nat /\ Half > 0
  BY ContainerSpecAssumption
<1>2. bytes \in Int /\ default \in Nat /\ default > 0
  BY <1>1
<1>3. default < Half
  <2>1. default = Unit * DefaultMB
    BY <1>1
  <2>2. QED
    BY <2>1, ContainerSpecAssumption
<1>4. mb > 0 => bytes > 0
  BY <1>1
<1>5. MemBytes(mb) = IF Wrap(bytes) <= 0 THEN default ELSE Wrap(bytes)
  BY DEF MemBytes
<1> HIDE DEF bytes, default
<1>6. /\ Wrap(bytes) \in -Half .. Half - 1
      /\ bytes >= 0 => Wrap(bytes) <= bytes
      /\ bytes \in -Half .. Half - 1 => Wrap(bytes) = bytes
  BY <1>2, WrapFacts
<1>7. MemBytes(mb) > 0
  BY <1>1, <1>2, <1>5, <1>6
<1>8. ASSUME mb > 0 PROVE MemBytes(mb) <= bytes
  BY <1>1, <1>2, <1>3, <1>4, <1>5, <1>6, <1>8
<1>9. QED
  BY <1>7, <1>8 DEF bytes

LEMMA CpuQuotaFacts ==
  ASSUME NEW percent \in Int, percent * Period < Half
  PROVE  CpuQuota(percent) >= Period \div Hundred
<1> DEFINE p == IF percent > 1 THEN percent ELSE 1
           product == p * Period
<1>1. /\ Period \in Nat /\ Period > 0 /\ Hundred \in Nat /\ Hundred > 0
      /\ Half \in Nat /\ Half > 0
  BY ContainerSpecAssumption
<1>2. p \in Nat /\ p >= 1
  OBVIOUS
<1>3. CpuQuota(percent) = Quotient(Wrap(product), Hundred)
  BY DEF CpuQuota
<1>4. p = percent \/ p = 1
  OBVIOUS
<1> HIDE DEF p
<1>5. product \in Nat /\ product >= Period
  BY <1>1, <1>2
\* A product that overflows wraps to some other number: excluded, or p = 1.
<1>6. CASE product < Half
  <2>1. Wrap(product) = product
    BY <1>1, <1>5, <1>6, WrapFacts
  <2>2. Quotient(product, Hundred) = product \div Hundred
    BY <1>5 DEF Quotient
  <2> HIDE DEF product
  <2>3. Period \div Hundred <= product \div Hundred
    BY <1>1, <1>5
  <2>4. product \div Hundred \in Nat /\ Period \div Hundred \in Nat
    BY <1>1, <1>5
  <2>5. QED
    BY <1>3, <2>1, <2>2, <2>3, <2>4
<1>7. CASE ~(product < Half)
  <2>1. p = 1 /\ product = Period
    BY <1>1, <1>2, <1>4, <1>7
  <2>2. FALSE
    BY <1>1, <1>7, <2>1, ContainerSpecAssumption
  <2>3. QED
    BY <2>2
<1>8. QED
  BY <1>6, <1>7

\* Where the limits have been computed, they are those of the configuration.
LimitsInv ==
  /\ limits \in [mb : Ints, percent : Ints]
  /\ pc = "done" => /\ memory = MemBytes(limits.mb)
                    /\ quota = CpuQuota(limits.percent)

LEMMA LimitsInit == Init => LimitsInv
  BY DEF Init, LimitsInv

LEMMA LimitsNext == LimitsInv /\ [Next]_vars => LimitsInv'
<1> SUFFICES ASSUME LimitsInv, [Next]_vars PROVE LimitsInv'
  OBVIOUS
<1>1. limits' = limits
  BY DEF Next, Resolve, BindPort, SetLimits, Again, vars, config
<1>2. CASE SetLimits
  BY <1>1, <1>2 DEF SetLimits, LimitsInv
<1>3. CASE ~SetLimits
  <2>1. pc' = "done" => pc = "done" /\ UNCHANGED <<memory, quota>>
    BY <1>3 DEF Next, Resolve, BindPort, Again, vars
  <2>2. QED
    BY <1>1, <2>1 DEF LimitsInv
<1>4. QED
  BY <1>2, <1>3

LEMMA LimitsAreInts == LimitsInv => limits.mb \in Int /\ limits.percent \in Int
<1>1. Ints \subseteq Int
  <2>1. Half \in Nat
    BY ContainerSpecAssumption
  <2>2. -Half .. Half - 1 \subseteq Int
    BY <2>1
  <2>3. QED
    BY <2>2, ContainerSpecAssumption
<1>2. LimitsInv => limits.mb \in Ints /\ limits.percent \in Ints
  BY DEF LimitsInv
<1>3. QED
  BY <1>1, <1>2

\* A container never runs without a memory limit and never gets more than was
\* asked for it, whatever the product of manager.go:94 overflows to.
THEOREM MemoryCorrect == Spec => []MemoryLimited
<1>1. LimitsInv => MemoryLimited
  BY LimitsAreInts, MemBytesFacts DEF LimitsInv, MemoryLimited
<1>2. QED
  BY <1>1, LimitsInit, LimitsNext, PTL DEF Spec

\* Nor without a CPU limit, where the product of line 99 does not overflow.
THEOREM CpuCorrect == Spec => []CpuLimited
<1>1. LimitsInv => CpuLimited
  BY LimitsAreInts, CpuQuotaFacts DEF LimitsInv, CpuLimited
<1>2. QED
  BY <1>1, LimitsInit, LimitsNext, PTL DEF Spec

=============================================================================
