-------------------------- MODULE FileStoreProofs --------------------------
(***************************************************************************)
(* The file API on any tree, with any number of requests and of inodes.    *)
(*                                                                         *)
(* FilesInv says that the tree is one and that each request carries what   *)
(* it was given; with it every step keeps the types.                       *)
(*                                                                         *)
(* StoreInv relates the file system to `store', the tree of the requests   *)
(* answered so far.  Elsewhere: a path that no request is changing holds   *)
(* what the store says, or is a directory that a request just made above   *)
(* its own path.  OwnFit: on the paths of a request that no other overlaps *)
(* the file system is Left(r), what the items it is done with make of the  *)
(* store, up to what the call in hand has changed, and what it has read is *)
(* from there.  ClashFit: two requests of which one is not overlapped have *)
(* paths apart, so that the steps of one keep what is said of the other.   *)
(*                                                                         *)
(* A request step (HandlerStep) stays on its own paths, an answer          *)
(* (ReplyStep) makes Left(r) the store.  The four properties follow.       *)
(***************************************************************************)
EXTENDS FileStore, FlattenTheorems

Names == UNION {ToSet(p) : p \in Paths}

Blocks == UNION {ToSet(c) : c \in Contents}

-----------------------------------------------------------------------------
(* Prefixes                                                                *)

LEMMA PathsAreSeqs == Paths \subseteq Seq(Names)
<1> SUFFICES ASSUME NEW p \in Paths PROVE p \in Seq(Names)
  OBVIOUS
<1>1. p \in Seq(ToSet(p)) /\ ToSet(p) \subseteq Names
  BY FilesAssumption DEF Names
<1>2. QED
  BY <1>1, SeqMonotonic

LEMMA ContentsAreSeqs == Contents \subseteq Seq(Blocks)
<1> SUFFICES ASSUME NEW c \in Contents PROVE c \in Seq(Blocks)
  OBVIOUS
<1>1. c \in Seq(ToSet(c)) /\ ToSet(c) \subseteq Blocks
  BY FilesAssumption DEF Blocks
<1>2. QED
  BY <1>1, SeqMonotonic

LEMMA CutInTwo ==
  ASSUME NEW S, NEW s \in Seq(S), NEW n \in 0 .. Len(s)
  PROVE  /\ SubSeq(s, 1, n) \in Seq(S) /\ Len(SubSeq(s, 1, n)) = n
         /\ \A i \in 1 .. n : SubSeq(s, 1, n)[i] = s[i]
         /\ SubSeq(s, n + 1, Len(s)) \in Seq(S)
         /\ Len(SubSeq(s, n + 1, Len(s))) = Len(s) - n
         /\ \A i \in 1 .. Len(s) - n : SubSeq(s, n + 1, Len(s))[i] = s[n + i]
         /\ SubSeq(s, 1, n) \o SubSeq(s, n + 1, Len(s)) = s
<1>1. Len(s) \in Nat /\ \A i \in 1 .. Len(s) : s[i] \in S
  BY LenProperties, ElementOfSeq
<1>2. /\ SubSeq(s, 1, n) \in Seq(S) /\ Len(SubSeq(s, 1, n)) = n
      /\ \A i \in 1 .. n : SubSeq(s, 1, n)[i] = s[i]
  BY <1>1, SubSeqProperties
<1>3. /\ SubSeq(s, n + 1, Len(s)) \in Seq(S)
      /\ Len(SubSeq(s, n + 1, Len(s))) = Len(s) - n
      /\ \A i \in 1 .. Len(s) - n : SubSeq(s, n + 1, Len(s))[i] = s[n + i]
  <2>1. /\ SubSeq(s, n + 1, Len(s)) \in Seq(S)
        /\ Len(SubSeq(s, n + 1, Len(s))) =
             IF n + 1 <= Len(s) THEN Len(s) - (n + 1) + 1 ELSE 0
        /\ \A i \in 1 .. Len(s) - (n + 1) + 1 :
             SubSeq(s, n + 1, Len(s))[i] = s[n + 1 + i - 1]
    BY <1>1, SubSeqProperties
  <2>2. Len(s) - (n + 1) + 1 = Len(s) - n
    BY <1>1
  <2>3. ~(n + 1 <= Len(s)) => Len(s) - n = 0
    BY <1>1
  <2>4. \A i \in 1 .. Len(s) - n : n + 1 + i - 1 = n + i
    BY <1>1
  <2>5. QED
    BY <2>1, <2>2, <2>3, <2>4
<1>4. SubSeq(s, 1, n) \o SubSeq(s, n + 1, Len(s)) = SubSeq(s, 1, Len(s))
  <2>1. /\ 1 \in 1 .. Len(s) + 1 /\ n \in 1 - 1 .. Len(s)
        /\ Len(s) \in n .. Len(s)
    BY <1>1
  <2>2. QED
    BY <2>1, ConcatAdjacentSubSeq
<1>5. QED
  BY <1>2, <1>3, <1>4, SubSeqFull

\* A prefix, name by name.
LEMMA PrefixIs ==
  ASSUME NEW S, NEW p \in Seq(S), NEW q \in Seq(S)
  PROVE  IsPrefix(p, q) <=> /\ Len(p) <= Len(q)
                            /\ \A i \in 1 .. Len(p) : p[i] = q[i]
<1>1. Len(p) \in Nat /\ Len(q) \in Nat /\ SubSeq(p, 1, Len(p)) = p
  BY LenProperties, SubSeqFull
<1>2. ASSUME Len(p) <= Len(q)
      PROVE  p = SubSeq(q, 1, Len(p)) <=> \A i \in 1 .. Len(p) : p[i] = q[i]
  <2>1. Len(p) \in 0 .. Len(q)
    BY <1>1, <1>2
  <2>2. /\ SubSeq(q, 1, Len(p)) \in Seq(S) /\ Len(SubSeq(q, 1, Len(p))) = Len(p)
        /\ \A i \in 1 .. Len(p) : SubSeq(q, 1, Len(p))[i] = q[i]
    BY <2>1, CutInTwo
  <2>3. QED
    BY <2>2, SeqEqual
<1>3. QED
  BY <1>1, <1>2 DEF IsPrefix

LEMMA FrontIs ==
  ASSUME NEW S, NEW q \in Seq(S), q # <<>>
  PROVE  /\ Len(q) \in Nat \ {0} /\ Front(q) \in Seq(S)
         /\ Len(Front(q)) = Len(q) - 1
         /\ \A i \in 1 .. Len(q) - 1 : Front(q)[i] = q[i]
<1>1. Len(q) \in Nat \ {0} /\ Len(q) - 1 \in 0 .. Len(q)
  BY EmptySeq, LenProperties
<1>2. /\ SubSeq(q, 1, Len(q) - 1) \in Seq(S)
      /\ Len(SubSeq(q, 1, Len(q) - 1)) = Len(q) - 1
      /\ \A i \in 1 .. Len(q) - 1 : SubSeq(q, 1, Len(q) - 1)[i] = q[i]
  BY ZenonT(60), <1>1, CutInTwo
<1>3. QED
  BY <1>1, <1>2 DEF Front

LEMMA PrefixOrder ==
  ASSUME NEW S
  PROVE  /\ \A p \in Seq(S) : IsPrefix(p, p) /\ IsPrefix(<<>>, p)
         /\ \A p, q, t \in Seq(S) :
              IsPrefix(p, q) /\ IsPrefix(q, t) => IsPrefix(p, t)
         /\ \A p, q \in Seq(S) : IsPrefix(p, q) /\ IsPrefix(q, p) => p = q
         /\ \A p, q \in Seq(S) : IsPrefix(p, q) /\ Len(p) = Len(q) => p = q
         /\ \A p, q, t \in Seq(S) :
              IsPrefix(p, t) /\ IsPrefix(q, t) => IsPrefix(p, q) \/ IsPrefix(q, p)
<1>0. \A p \in Seq(S) : Len(p) \in Nat
  BY LenProperties
<1>1. \A p \in Seq(S) : IsPrefix(p, p) /\ IsPrefix(<<>>, p)
  <2> TAKE p \in Seq(S)
  <2>1. IsPrefix(p, p)
    BY <1>0, PrefixIs
  <2>2. <<>> \in Seq(S) /\ Len(<<>>) = 0 /\ \A i \in 1 .. 0 : FALSE
    OBVIOUS
  <2>3. Len(<<>>) <= Len(p) /\ \A i \in 1 .. Len(<<>>) : <<>>[i] = p[i]
    BY <1>0, <2>2
  <2>4. IsPrefix(<<>>, p)
    BY <2>2, <2>3, PrefixIs
  <2>5. QED
    BY <2>1, <2>4
<1>2. \A p, q, t \in Seq(S) : IsPrefix(p, q) /\ IsPrefix(q, t) => IsPrefix(p, t)
  <2> SUFFICES ASSUME NEW p \in Seq(S), NEW q \in Seq(S), NEW t \in Seq(S),
                      IsPrefix(p, q), IsPrefix(q, t)
               PROVE  IsPrefix(p, t)
    OBVIOUS
  <2>1. /\ Len(p) <= Len(q) /\ \A i \in 1 .. Len(p) : p[i] = q[i]
        /\ Len(q) <= Len(t) /\ \A i \in 1 .. Len(q) : q[i] = t[i]
    BY PrefixIs
  <2>2. \A i \in 1 .. Len(p) : i \in 1 .. Len(q)
    BY <1>0, <2>1
  <2>3. Len(p) <= Len(t) /\ \A i \in 1 .. Len(p) : p[i] = t[i]
    BY <1>0, <2>1, <2>2
  <2>4. QED
    BY <2>3, PrefixIs
<1>3. \A p, q \in Seq(S) : IsPrefix(p, q) /\ Len(p) = Len(q) => p = q
  BY PrefixIs, SeqEqual
<1>4. \A p, q \in Seq(S) : IsPrefix(p, q) /\ IsPrefix(q, p) => p = q
  <2> SUFFICES ASSUME NEW p \in Seq(S), NEW q \in Seq(S),
                      IsPrefix(p, q), IsPrefix(q, p)
               PROVE  p = q
    OBVIOUS
  <2>1. Len(p) <= Len(q) /\ Len(q) <= Len(p)
    BY PrefixIs
  <2>2. QED
    BY <1>0, <1>3, <2>1
<1>5. \A p, q, t \in Seq(S) :
        IsPrefix(p, t) /\ IsPrefix(q, t) => IsPrefix(p, q) \/ IsPrefix(q, p)
  <2> SUFFICES ASSUME NEW p \in Seq(S), NEW q \in Seq(S), NEW t \in Seq(S),
                      IsPrefix(p, t), IsPrefix(q, t)
               PROVE  IsPrefix(p, q) \/ IsPrefix(q, p)
    OBVIOUS
  <2>1. /\ \A i \in 1 .. Len(p) : p[i] = t[i]
        /\ \A i \in 1 .. Len(q) : q[i] = t[i]
    BY PrefixIs
  <2>2. CASE Len(p) <= Len(q)
    <3>1. \A i \in 1 .. Len(p) : i \in 1 .. Len(q)
      BY <1>0, <2>2
    <3>2. QED
      BY <2>1, <2>2, <3>1, PrefixIs
  <2>3. CASE Len(q) <= Len(p)
    <3>1. \A i \in 1 .. Len(q) : i \in 1 .. Len(p)
      BY <1>0, <2>3
    <3>2. QED
      BY <2>1, <2>3, <3>1, PrefixIs
  <2>4. QED
    BY <1>0, <2>2, <2>3
<1>6. QED
  BY <1>1, <1>2, <1>3, <1>4, <1>5

\* What is strictly below a path is below it with its last name left out.
LEMMA PrefixFront ==
  ASSUME NEW S, NEW p \in Seq(S), NEW q \in Seq(S), q # <<>>
  PROVE  /\ Front(q) \in Seq(S) /\ IsPrefix(Front(q), q) /\ Front(q) # q
         /\ IsPrefix(p, q) /\ p # q => IsPrefix(p, Front(q))
         /\ IsPrefix(p, Front(q)) => IsPrefix(p, q) /\ p # q
<1>1. /\ Len(q) \in Nat \ {0} /\ Front(q) \in Seq(S)
      /\ Len(Front(q)) = Len(q) - 1 /\ Len(p) \in Nat
      /\ \A i \in 1 .. Len(q) - 1 : Front(q)[i] = q[i]
  BY FrontIs, LenProperties
<1>2. IsPrefix(Front(q), q) /\ Front(q) # q
  <2>1. Len(Front(q)) <= Len(q) /\ Len(Front(q)) # Len(q)
    BY <1>1
  <2>2. \A i \in 1 .. Len(Front(q)) : Front(q)[i] = q[i]
    BY <1>1
  <2>3. QED
    BY <1>1, <2>1, <2>2, PrefixIs
<1>3. ASSUME IsPrefix(p, q), p # q PROVE IsPrefix(p, Front(q))
  <2>1. Len(p) <= Len(q) /\ Len(p) # Len(q) /\ \A i \in 1 .. Len(p) : p[i] = q[i]
    BY <1>3, PrefixIs, PrefixOrder
  <2>2. \A i \in 1 .. Len(p) : i \in 1 .. Len(q) - 1
    BY <1>1, <2>1
  <2>3. Len(p) <= Len(Front(q)) /\ \A i \in 1 .. Len(p) : p[i] = Front(q)[i]
    BY <1>1, <2>1, <2>2
  <2>4. QED
    BY <1>1, <2>3, PrefixIs
<1>4. ASSUME IsPrefix(p, Front(q)) PROVE IsPrefix(p, q) /\ p # q
  <2>1. IsPrefix(p, q)
    BY <1>1, <1>2, <1>4, PrefixOrder
  <2>2. Len(p) <= Len(Front(q))
    BY <1>1, <1>4, PrefixIs
  <2>3. QED
    BY <1>1, <2>1, <2>2
<1>5. QED
  BY <1>1, <1>2, <1>3, <1>4

\* A path with its beginning replaced, as a move replaces it.
Carried(from, to, q) == from \o SubSeq(q, Len(to) + 1, Len(q))

LEMMA Shift ==
  ASSUME NEW S, NEW from \in Seq(S), NEW to \in Seq(S), NEW q \in Seq(S),
         IsPrefix(to, q)
  PROVE  /\ Carried(from, to, q) \in Seq(S) /\ IsPrefix(from, Carried(from, to, q))
         /\ q = Carried(to, from, Carried(from, to, q))
         /\ q = to <=> Carried(from, to, q) = from
         /\ q # to => /\ q # <<>> /\ Carried(from, to, q) # <<>>
                      /\ IsPrefix(to, Front(q))
                      /\ Front(Carried(from, to, q)) = Carried(from, to, Front(q))
<1> DEFINE o == Carried(from, to, q)
           x == SubSeq(q, Len(to) + 1, Len(q))
<1>1. /\ Len(from) \in Nat /\ Len(to) \in Nat /\ Len(q) \in Nat
      /\ Len(to) <= Len(q) /\ \A i \in 1 .. Len(to) : to[i] = q[i]
  BY LenProperties, PrefixIs
<1>2. /\ x \in Seq(S) /\ Len(x) = Len(q) - Len(to) /\ to \o x = q
      /\ \A i \in 1 .. Len(q) - Len(to) : x[i] = q[Len(to) + i]
  <2>1. Len(to) \in 0 .. Len(q)
    BY <1>1
  <2>2. /\ SubSeq(q, 1, Len(to)) \in Seq(S) /\ Len(SubSeq(q, 1, Len(to))) = Len(to)
        /\ \A i \in 1 .. Len(to) : SubSeq(q, 1, Len(to))[i] = q[i]
        /\ SubSeq(q, 1, Len(to)) \o x = q
        /\ x \in Seq(S) /\ Len(x) = Len(q) - Len(to)
        /\ \A i \in 1 .. Len(q) - Len(to) : x[i] = q[Len(to) + i]
    BY ZenonT(60), <2>1, CutInTwo
  <2> HIDE DEF x
  <2>3. SubSeq(q, 1, Len(to)) = to
    BY <1>1, <2>2, SeqEqual
  <2>4. QED
    BY <2>2, <2>3
<1>3. o = from \o x
  BY DEF Carried
<1> HIDE DEF x, o
<1>4. /\ o \in Seq(S) /\ Len(o) = Len(from) + Len(x)
      /\ \A i \in 1 .. Len(from) + Len(x) :
           o[i] = IF i <= Len(from) THEN from[i] ELSE x[i - Len(from)]
  <2>1. /\ from \o x \in Seq(S) /\ Len(from \o x) = Len(from) + Len(x)
        /\ \A i \in 1 .. Len(from) + Len(x) :
             (from \o x)[i] = IF i <= Len(from) THEN from[i] ELSE x[i - Len(from)]
    BY <1>2, ConcatProperties
  <2>2. QED
    BY <1>3, <2>1
<1>5. IsPrefix(from, o)
  <2>1. /\ Len(from) <= Len(o)
        /\ \A i \in 1 .. Len(from) : i \in 1 .. Len(from) + Len(x) /\ i <= Len(from)
    BY <1>1, <1>2, <1>4
  <2>2. \A i \in 1 .. Len(from) : from[i] = o[i]
    BY <1>4, <2>1
  <2>3. QED
    BY <1>4, <2>1, <2>2, PrefixIs
<1>6. Len(o) = Len(from) + Len(q) - Len(to)
  BY <1>1, <1>2, <1>4
<1>7. q = to \o SubSeq(o, Len(from) + 1, Len(o))
  <2> DEFINE y == SubSeq(o, Len(from) + 1, Len(o))
  <2>1. Len(from) \in 0 .. Len(o)
    BY <1>1, <1>2, <1>4
  <2>2. /\ y \in Seq(S) /\ Len(y) = Len(o) - Len(from)
        /\ \A i \in 1 .. Len(o) - Len(from) : y[i] = o[Len(from) + i]
    BY <1>4, <2>1, CutInTwo
  <2> HIDE DEF y
  <2>3. Len(y) = Len(x)
    BY <1>1, <1>2, <1>4, <2>2
  <2>4. ASSUME NEW i \in 1 .. Len(y) PROVE y[i] = x[i]
    <3>1. /\ i \in 1 .. Len(o) - Len(from)
          /\ Len(from) + i \in 1 .. Len(from) + Len(x) /\ ~(Len(from) + i <= Len(from))
          /\ Len(from) + i - Len(from) = i
      BY <1>1, <1>2, <1>4, <2>2
    <3>2. o[Len(from) + i] = x[i]
      <4> DEFINE k == Len(from) + i
      <4>1. k \in 1 .. Len(from) + Len(x) /\ ~(k <= Len(from)) /\ k - Len(from) = i
        BY <3>1
      <4> HIDE DEF k
      <4>2. o[k] = x[k - Len(from)]
        BY <1>4, <4>1
      <4>3. QED
        BY <4>1, <4>2 DEF k
    <3>3. QED
      BY <2>2, <3>1, <3>2
  <2>5. y = x
    BY <1>2, <2>2, <2>3, <2>4, SeqEqual
  <2>6. QED
    BY <1>2, <2>5 DEF y
<1>8. q = to <=> o = from
  <2>1. q = to <=> Len(q) = Len(to)
    BY PrefixOrder
  <2>2. o = from <=> Len(o) = Len(from)
    BY <1>4, <1>5, PrefixOrder
  <2>3. Len(q) = Len(to) <=> Len(o) = Len(from)
    BY <1>1, <1>6
  <2>4. QED
    BY <2>1, <2>2, <2>3
<1>9. ASSUME q # to
      PROVE  /\ q # <<>> /\ o # <<>> /\ IsPrefix(to, Front(q))
             /\ Front(o) = from \o SubSeq(Front(q), Len(to) + 1, Len(Front(q)))
  <2>1. Len(to) < Len(q)
    BY <1>1, <1>9, PrefixOrder
  <2>2. q # <<>>
    BY <1>1, <2>1
  <2>3. o # <<>>
    <3>1. Len(o) # 0
      BY <1>1, <1>6, <2>1
    <3>2. QED
      BY <3>1
  <2>4. IsPrefix(to, Front(q)) /\ Front(q) \in Seq(S)
    BY <1>9, <2>2, PrefixFront
  <2>5. /\ Len(Front(q)) = Len(q) - 1
        /\ \A i \in 1 .. Len(q) - 1 : Front(q)[i] = q[i]
        /\ Front(o) \in Seq(S) /\ Len(Front(o)) = Len(o) - 1
        /\ \A i \in 1 .. Len(o) - 1 : Front(o)[i] = o[i]
    BY <1>4, <2>2, <2>3, FrontIs
  <2> DEFINE z == SubSeq(Front(q), Len(to) + 1, Len(Front(q)))
  <2>6. /\ z \in Seq(S) /\ Len(z) = Len(q) - 1 - Len(to)
        /\ \A i \in 1 .. Len(q) - 1 - Len(to) : z[i] = Front(q)[Len(to) + i]
    <3>1. Len(to) \in 0 .. Len(Front(q))
      BY <1>1, <2>1, <2>5
    <3>2. QED
      BY <2>4, <2>5, <3>1, CutInTwo
  <2> HIDE DEF z
  <2>7. /\ from \o z \in Seq(S) /\ Len(from \o z) = Len(from) + Len(z)
        /\ \A i \in 1 .. Len(from) + Len(z) :
             (from \o z)[i] = IF i <= Len(from) THEN from[i] ELSE z[i - Len(from)]
    BY <2>6, ConcatProperties
  <2>8. Len(from \o z) = Len(Front(o)) /\ Len(from) + Len(z) = Len(o) - 1
    <3>1. Len(from \o z) = Len(from) + Len(z) /\ Len(Front(o)) = Len(o) - 1
      BY <2>5, <2>7
    <3>2. Len(from) + Len(z) = Len(o) - 1
      BY <1>1, <1>6, <2>6
    <3>3. QED
      BY <3>1, <3>2
  <2>9. ASSUME NEW i \in 1 .. Len(Front(o)) PROVE Front(o)[i] = (from \o z)[i]
    <3>1. i \in 1 .. Len(o) - 1 /\ i \in 1 .. Len(from) + Len(z) /\ i \in Nat
      BY <2>5, <2>8
    <3>2. Front(o)[i] = o[i] /\ i \in 1 .. Len(from) + Len(x)
      <4>1. Len(o) = Len(from) + Len(x) /\ Len(o) \in Nat
        BY <1>4, LenProperties
      <4>2. i \in 1 .. Len(o)
        BY <3>1, <4>1
      <4>3. QED
        BY <2>5, <3>1, <4>1, <4>2
    <3>3. CASE i <= Len(from)
      BY <1>4, <2>7, <3>1, <3>2, <3>3
    <3>4. CASE ~(i <= Len(from))
      <4> DEFINE j == i - Len(from)
      <4>1. /\ j \in 1 .. Len(q) - 1 - Len(to) /\ j \in 1 .. Len(q) - Len(to)
            /\ Len(to) + j \in 1 .. Len(q) - 1
        BY <1>1, <2>6, <3>1, <3>4
      <4> HIDE DEF j
      <4>2. z[j] = q[Len(to) + j] /\ x[j] = q[Len(to) + j]
        BY <1>2, <2>5, <2>6, <4>1
      <4>3. QED
        BY <1>4, <2>7, <3>1, <3>2, <3>4, <4>2 DEF j
    <3>5. QED
      BY <3>3, <3>4
  <2>10. Front(o) = from \o z
    BY <2>5, <2>7, <2>8, <2>9, SeqEqual
  <2>11. QED
    BY <2>2, <2>3, <2>4, <2>10 DEF z
<1>10. q # to => Front(o) = Carried(from, to, Front(q))
  BY <1>9 DEF Carried
<1>11. q = Carried(to, from, o)
  BY <1>7 DEF Carried
<1>12. QED
  BY <1>4, <1>5, <1>8, <1>9, <1>10, <1>11 DEF o

\* With a path its prefixes are paths.
LEMMA PrefixesArePaths ==
  ASSUME NEW q \in Paths, NEW p \in Seq(Names), IsPrefix(p, q)
  PROVE  p \in Paths
<1> DEFINE T == {n \in Nat : \A u \in Paths :
                   IsPrefix(p, u) /\ Len(u) = Len(p) + n => p \in Paths}
<1>0. Len(p) \in Nat /\ \A u \in Paths : u \in Seq(Names) /\ Len(u) \in Nat
  BY PathsAreSeqs, LenProperties
<1>1. 0 \in T
  <2> SUFFICES ASSUME NEW u \in Paths, IsPrefix(p, u), Len(u) = Len(p) + 0
               PROVE  p \in Paths
    OBVIOUS
  <2>1. p = u
    BY <1>0, PrefixOrder
  <2>2. QED
    BY <2>1
<1>2. ASSUME NEW n \in Nat, n \in T PROVE n + 1 \in T
  <2> SUFFICES ASSUME NEW u \in Paths, IsPrefix(p, u), Len(u) = Len(p) + (n + 1)
               PROVE  p \in Paths
    OBVIOUS
  <2>1. Len(u) # Len(p) /\ Len(u) # 0
    BY <1>0
  <2>2. p # u /\ u # <<>>
    BY <2>1
  <2>3. Front(u) \in Paths /\ IsPrefix(p, Front(u)) /\ Len(Front(u)) = Len(u) - 1
    BY <1>0, <2>2, FilesAssumption, PrefixFront, FrontIs
  <2>4. Len(Front(u)) = Len(p) + n
    BY <1>0, <2>3
  <2>5. QED
    BY <1>2, <2>3, <2>4
<1> HIDE DEF T
<1>3. Nat \subseteq T
  BY <1>1, <1>2, NatSetInduction
<1>4. Len(q) - Len(p) \in Nat /\ Len(q) = Len(p) + (Len(q) - Len(p))
  BY <1>0, PrefixIs
<1>5. QED
  BY <1>3, <1>4 DEF T

-----------------------------------------------------------------------------
(* The tree                                                                *)

\* A tree of files and directories: no inode has two names, and what is
\* present is in a directory.
IsTree(t) ==
  /\ t \in [Paths -> Inodes \cup {Absent, Dir}]
  /\ \A p, q \in Paths : t[p] \in Inodes /\ t[p] = t[q] => p = q
  /\ \A p \in Paths : t[p] # Absent => p = <<>> \/ t[Front(p)] = Dir

LEMMA Distinct ==
  /\ Absent # Dir /\ Absent \notin Inodes /\ Dir \notin Inodes /\ Null \notin Inodes
  /\ Outside \notin Paths /\ <<>> \in Paths
  /\ \A p \in Paths : p \in Seq(Names) /\ Len(p) \in Nat
  /\ \A p \in Paths : p # <<>> => Front(p) \in Paths
  BY FilesAssumption, PathsAreSeqs, LenProperties

\* Below and Above, as what they are.
LEMMA BelowIs ==
  ASSUME NEW p \in Paths
  PROVE  /\ \A q : q \in Below[p] <=> q \in Paths /\ IsPrefix(p, q)
         /\ \A q : q \in Above[p] <=> q \in Paths /\ IsPrefix(q, p) /\ q # p
  BY DEF Below, Above, IsStrictPrefix

\* Above what is present there are directories only.
LEMMA AboveIsDir ==
  ASSUME NEW t, IsTree(t), NEW q \in Paths, t[q] # Absent,
         NEW p \in Paths, IsPrefix(p, q), p # q
  PROVE  t[p] = Dir
<1> DEFINE Rooted(n) ==
             \A u \in Paths : (t[u] # Absent /\ IsPrefix(p, u) /\ p # u
                               /\ Len(u) = Len(p) + n) => t[p] = Dir
           T == {n \in Nat : Rooted(n)}
<1>1. Rooted(0)
  <2> SUFFICES ASSUME NEW u \in Paths, IsPrefix(p, u), p # u, Len(u) = Len(p) + 0
               PROVE  FALSE
    OBVIOUS
  <2>1. Len(u) = Len(p)
    BY Distinct
  <2>2. QED
    BY <2>1, Distinct, PrefixOrder
<1>2. ASSUME NEW n \in Nat, Rooted(n) PROVE Rooted(n + 1)
  <2> SUFFICES ASSUME NEW u \in Paths, t[u] # Absent, IsPrefix(p, u), p # u,
                      Len(u) = Len(p) + (n + 1)
               PROVE  t[p] = Dir
    OBVIOUS
  <2>1. u # <<>>
    <3>1. Len(u) # 0
      BY Distinct
    <3>2. QED
      BY <3>1
  <2>2. /\ Front(u) \in Paths /\ IsPrefix(p, Front(u)) /\ Len(Front(u)) = Len(u) - 1
        /\ t[Front(u)] = Dir
    BY <2>1, Distinct, PrefixFront, FrontIs DEF IsTree
  <2>3. Len(Front(u)) = Len(p) + n
    BY <2>2, Distinct
  <2>4. CASE p = Front(u)
    BY <2>2, <2>4
  <2>5. CASE p # Front(u)
    BY <1>2, <2>2, <2>3, <2>5, Distinct
  <2>6. QED
    BY <2>4, <2>5
<1>3. Nat \subseteq T
  <2> HIDE DEF Rooted
  <2>1. 0 \in T /\ \A n \in Nat : n \in T => n + 1 \in T
    BY <1>1, <1>2
  <2> HIDE DEF T
  <2>2. QED
    BY <2>1, NatSetInduction
<1>4. Len(q) - Len(p) \in Nat /\ Len(q) = Len(p) + (Len(q) - Len(p))
  BY Distinct, PrefixIs
<1>5. QED
  BY <1>3, <1>4 DEF T

\* A name is given to a directory or an inode that has none.
LEMMA NameTree ==
  ASSUME NEW t, IsTree(t), NEW p \in Paths, p = <<>> \/ t[Front(p)] = Dir,
         NEW i \in Inodes \cup {Dir},
         t[p] # Dir, i \in Inodes => \A q \in Paths : t[q] = i => q = p
  PROVE  IsTree([t EXCEPT ![p] = i])
<1> DEFINE u == [t EXCEPT ![p] = i]
<1>1. /\ u \in [Paths -> Inodes \cup {Absent, Dir}] /\ u[p] = i
      /\ \A q \in Paths : q # p => u[q] = t[q]
  BY DEF IsTree
<1> HIDE DEF u
<1>2. ASSUME NEW q \in Paths, NEW s \in Paths, u[q] \in Inodes, u[q] = u[s]
      PROVE  q = s
  BY <1>1, <1>2 DEF IsTree
<1>3. ASSUME NEW q \in Paths, u[q] # Absent, q # <<>>
      PROVE  u[Front(q)] = Dir
  <2>1. Front(q) \in Paths /\ Front(q) # q
    BY <1>3, Distinct, PrefixFront
  <2>2. t[Front(q)] = Dir
    BY <1>1, <1>3 DEF IsTree
  <2>3. QED
    BY <1>1, <2>1, <2>2
<1>4. QED
  BY <1>1, <1>2, <1>3 DEF IsTree, u

LEMMA UnnameTree ==
  ASSUME NEW t, IsTree(t), NEW p \in Paths,
         \A q \in Paths : q # <<>> /\ Front(q) = p => t[q] = Absent
  PROVE  IsTree([t EXCEPT ![p] = Absent])
<1> DEFINE u == [t EXCEPT ![p] = Absent]
<1>1. /\ u \in [Paths -> Inodes \cup {Absent, Dir}] /\ u[p] = Absent
      /\ \A q \in Paths : q # p => u[q] = t[q]
  BY DEF IsTree
<1> HIDE DEF u
<1>2. ASSUME NEW q \in Paths, NEW s \in Paths, u[q] \in Inodes, u[q] = u[s]
      PROVE  q = s
  BY <1>1, <1>2, Distinct DEF IsTree
<1>3. ASSUME NEW q \in Paths, u[q] # Absent, q # <<>>
      PROVE  u[Front(q)] = Dir
  <2>1. t[q] # Absent /\ Front(q) \in Paths
    BY <1>1, <1>3, Distinct
  <2>2. t[Front(q)] = Dir /\ Front(q) # p
    BY <1>3, <2>1 DEF IsTree
  <2>3. QED
    BY <1>1, <2>1, <2>2
<1>4. QED
  BY <1>1, <1>2, <1>3 DEF IsTree, u

\* What Moved does, path by path.
LEMMA MovedIs ==
  ASSUME NEW t, NEW from \in Paths, NEW to \in Paths, NEW q \in Paths
  PROVE  /\ IsPrefix(to, q) =>
              Moved(t, from, to)[q] =
                IF Carried(from, to, q) \in Paths THEN t[Carried(from, to, q)] ELSE Absent
         /\ ~IsPrefix(to, q) /\ IsPrefix(from, q) => Moved(t, from, to)[q] = Absent
         /\ ~IsPrefix(to, q) /\ ~IsPrefix(from, q) => Moved(t, from, to)[q] = t[q]
  BY DEF Moved, Carried

LEMMA MovedTree ==
  ASSUME NEW t, IsTree(t), NEW from \in Paths, NEW to \in Paths,
         t[from] # Absent, t[to] # Dir, to = <<>> \/ t[Front(to)] = Dir,
         ~IsPrefix(from, to), t[from] = Dir => t[to] = Absent
  PROVE  IsTree(Moved(t, from, to))
<1> DEFINE u == Moved(t, from, to)
           orig(q) == Carried(from, to, q)
<1>0. from \in Seq(Names) /\ to \in Seq(Names)
  BY Distinct
<1>1. ASSUME NEW q \in Paths
      PROVE  /\ IsPrefix(to, q) => u[q] = IF orig(q) \in Paths THEN t[orig(q)] ELSE Absent
             /\ ~IsPrefix(to, q) /\ IsPrefix(from, q) => u[q] = Absent
             /\ ~IsPrefix(to, q) /\ ~IsPrefix(from, q) => u[q] = t[q]
  BY MovedIs
<1>2. u \in [Paths -> Inodes \cup {Absent, Dir}]
  <2> DEFINE val(q) ==
        IF IsPrefix(to, q)
          THEN LET o == orig(q) IN IF o \in Paths THEN t[o] ELSE Absent
          ELSE IF IsPrefix(from, q) THEN Absent ELSE t[q]
  <2>1. u = [q \in Paths |-> val(q)]
    BY DEF Moved, Carried
  <2>2. \A q \in Paths : val(q) \in Inodes \cup {Absent, Dir}
    BY DEF IsTree
  <2>3. QED
    BY <2>1, <2>2
<1> HIDE DEF u
<1>3. ASSUME NEW q \in Paths, IsPrefix(to, q)
      PROVE  /\ orig(q) \in Seq(Names) /\ IsPrefix(from, orig(q))
             /\ q = Carried(to, from, orig(q))
             /\ q = to <=> orig(q) = from
             /\ q # to => /\ q # <<>> /\ orig(q) # <<>> /\ IsPrefix(to, Front(q))
                          /\ Front(orig(q)) = orig(Front(q))
  <2>1. /\ q \in Seq(Names) /\ from \in Seq(Names) /\ to \in Seq(Names)
        /\ IsPrefix(to, q)
    BY <1>0, <1>3, Distinct
  <2>2. QED
    BY <2>1, Shift
<1>4. ASSUME NEW q \in Paths, NEW s \in Paths, u[q] \in Inodes, u[q] = u[s]
      PROVE  q = s
  <2>1. CASE IsPrefix(to, q) /\ IsPrefix(to, s)
    <3>1. /\ orig(q) \in Paths /\ orig(s) \in Paths
          /\ u[q] = t[orig(q)] /\ u[s] = t[orig(s)]
      BY <1>1, <1>4, <2>1, Distinct
    <3>2. orig(q) = orig(s)
      BY <1>4, <3>1 DEF IsTree
    <3>3. QED
      BY <1>3, <2>1, <3>2
  <2>2. ASSUME NEW x \in Paths, NEW y \in Paths, u[x] \in Inodes, u[x] = u[y],
               IsPrefix(to, x), ~IsPrefix(to, y)
        PROVE  FALSE
    <3>1. orig(x) \in Paths /\ u[x] = t[orig(x)] /\ IsPrefix(from, orig(x))
      BY <1>1, <1>3, <2>2, Distinct
    <3>2. ~IsPrefix(from, y) /\ u[y] = t[y]
      BY <1>1, <2>2, Distinct
    <3>3. orig(x) = y
      BY <2>2, <3>1, <3>2 DEF IsTree
    <3>4. QED
      BY <3>1, <3>2, <3>3
  <2>3. CASE ~IsPrefix(to, q) /\ ~IsPrefix(to, s)
    BY <1>1, <1>4, <2>3, Distinct DEF IsTree
  <2>4. QED
    BY <1>4, <2>1, <2>2, <2>3
<1>5. ASSUME NEW q \in Paths, u[q] # Absent, q # <<>>
      PROVE  u[Front(q)] = Dir
  <2>0. Front(q) \in Paths /\ q \in Seq(Names) /\ Front(q) \in Seq(Names)
    BY <1>5, Distinct
  <2>1. CASE q = to
    <3>1. t[Front(q)] = Dir /\ ~IsPrefix(to, Front(q)) /\ ~IsPrefix(from, Front(q))
      BY <1>0, <1>5, <2>0, <2>1, PrefixFront
    <3>2. QED
      BY <1>1, <2>0, <3>1
  <2>2. CASE IsPrefix(to, q) /\ q # to
    <3>1. orig(q) \in Paths /\ t[orig(q)] # Absent
      BY <1>1, <1>5, <2>2
    <3>2. /\ orig(q) # <<>> /\ IsPrefix(to, Front(q))
          /\ Front(orig(q)) = orig(Front(q))
      BY <1>3, <2>2
    <3>3. t[orig(Front(q))] = Dir /\ orig(Front(q)) \in Paths
      BY <3>1, <3>2, Distinct DEF IsTree
    <3>4. QED
      BY <1>1, <2>0, <3>2, <3>3
  <2>3. CASE ~IsPrefix(to, q)
    <3>1. ~IsPrefix(from, q) /\ t[q] # Absent
      BY <1>1, <1>5, <2>3
    <3>2. t[Front(q)] = Dir
      BY <1>5, <3>1 DEF IsTree
    <3>3. ~IsPrefix(to, Front(q)) /\ ~IsPrefix(from, Front(q))
      BY <1>0, <1>5, <2>0, <2>3, <3>1, PrefixFront
    <3>4. QED
      BY <1>1, <2>0, <3>2, <3>3
  <2>4. QED
    BY <2>1, <2>2, <2>3
<1>6. QED
  BY <1>2, <1>4, <1>5 DEF IsTree, u

-----------------------------------------------------------------------------
(* The requests                                                            *)

Given == Paths \cup {Outside}

RequestType ==
  [pc : Pcs, op : OpNames \cup {"none"},
   items : Seq(Given) \cup Seq(Given \X Given), done : Nat, made : Nat,
   ino : Inodes \cup {Null}, buf : Seq(Blocks),
   seen : SUBSET Paths, found : SUBSET Paths, hit : BOOLEAN]

\* The paths a request works on, and what each of its steps works for.
ItemsFit(q) ==
  /\ q.op = "rename" => q.items \in Seq(Given \X Given)
  /\ q.op # "rename" => q.items \in Seq(Given)
  /\ q.op \notin {"delete", "rename"} => Len(q.items) = 1 /\ q.done = 0
  /\ q.op \in {"create", "drop"} => q.items[1] = <<>>
  /\ q.done <= Len(q.items)
  /\ q.pc # "ok" => q.done < Len(q.items)

StepsFit(q) ==
  /\ q.pc \in {"mkdir", "make"} => q.op \in {"create", "write", "folder"}
  /\ q.pc \in {"open_write", "write"} => q.op = "write"
  /\ q.pc \in {"remove", "removing"} => q.op \in {"drop", "delete"}
  /\ q.pc = "rename" => q.op = "rename"
  /\ q.pc \in {"open", "copy"} => q.op \in {"read", "download"}
  /\ q.pc \in {"list", "info"} => q.op = "list"
  /\ q.pc = "add" => q.op = "create"
  /\ q.pc = "entry" => q.op = "drop"
  /\ q.op # "none"

\* What SafePath has let through, and what has been opened or made.
ChecksFit(q) ==
  /\ q.pc \in {"make", "open_write", "write", "removing", "copy", "info"} =>
       q.items[q.done + 1] \in Paths
  /\ q.pc \in {"write", "copy"} => q.ino \in Inodes
  /\ q.pc = "make" =>
       q.made <= IF q.op = "write" THEN Len(q.items[q.done + 1])
                                   ELSE Len(q.items[q.done + 1]) + 1

\* The items dealt with were let through as well.
Inside(q, n) ==
  IF q.op = "rename" THEN q.items[n][1] \in Paths /\ q.items[n][2] \in Paths
                     ELSE q.items[n] \in Paths

DoneFit(q) == \A n \in 1 .. q.done : Inside(q, n)

Sound(q) ==
  /\ q \in RequestType
  /\ q.pc = "idle" => q = Idle
  /\ q.pc # "idle" => ItemsFit(q) /\ StepsFit(q) /\ ChecksFit(q) /\ DoneFit(q)

\* The invariant: a tree, and sound requests on it.
FilesInv ==
  /\ registered \in BOOLEAN
  /\ IsTree(tree)
  /\ data \in [Inodes -> Seq(Blocks)]
  /\ req = [r \in Reqs |-> req[r]]
  /\ \A r \in Reqs : Sound(req[r])

LEMMA IdleIsSound == Sound(Idle)
<1>1. Idle \in RequestType
  <2>1. <<>> \in Seq(Given) /\ <<>> \in Seq(Blocks) /\ {} \in SUBSET Paths
    OBVIOUS
  <2>2. QED
    BY <2>1 DEF Idle, RequestType, Pcs
<1>2. QED
  BY <1>1 DEF Sound, Idle

LEMMA FilesTypes ==
  ASSUME FilesInv
  PROVE  TypeOK
<1>1. ASSUME NEW r \in Reqs
      PROVE  /\ req[r].pc \in Pcs /\ req[r].ino \in Inodes \cup {Null}
             /\ req[r].done <= Len(req[r].items)
  <2>1. Sound(req[r])
    BY DEF FilesInv
  <2>2. CASE req[r].pc = "idle"
    <3>1. req[r] = Idle
      BY <2>1, <2>2 DEF Sound
    <3>2. Len(<<>>) = 0
      OBVIOUS
    <3>3. QED
      BY <3>1, <3>2 DEF Idle, Pcs
  <2>3. CASE req[r].pc # "idle"
    BY <2>1, <2>3 DEF Sound, ItemsFit, RequestType
  <2>4. QED
    BY <2>2, <2>3
<1>2. QED
  BY <1>1 DEF FilesInv, IsTree, TypeOK, Present, InDir

\* A step changes one request.
LEMMA OneSound ==
  ASSUME FilesInv, NEW r \in Reqs, NEW q, Sound(q),
         req' = [req EXCEPT ![r] = q],
         registered' \in BOOLEAN, IsTree(tree)', data' \in [Inodes -> Seq(Blocks)]
  PROVE  FilesInv'
<1>1. /\ req' = [s \in Reqs |-> IF s = r THEN q ELSE req[s]]
      /\ \A s \in Reqs : req'[s] = IF s = r THEN q ELSE req[s]
  <2>1. req = [s \in Reqs |-> req[s]]
    BY DEF FilesInv
  <2>2. DOMAIN req = Reqs
    BY <2>1
  <2>3. QED
    BY <2>2
<1>2. req' = [s \in Reqs |-> req'[s]]
  BY <1>1
<1>3. \A s \in Reqs : Sound(req'[s])
  BY <1>1 DEF FilesInv
<1>4. QED
  BY <1>2, <1>3 DEF FilesInv

LEMMA FilesInit == Init => FilesInv
<1> SUFFICES ASSUME Init PROVE FilesInv
  OBVIOUS
<1>1. IsTree(tree)
  BY Distinct DEF Init, IsTree
<1>2. data \in [Inodes -> Seq(Blocks)]
  <2>1. <<>> \in Seq(Blocks)
    OBVIOUS
  <2>2. QED
    BY <2>1 DEF Init
<1>3. \A r \in Reqs : Sound(req[r])
  BY IdleIsSound DEF Init
<1>4. req = [r \in Reqs |-> req[r]] /\ registered \in BOOLEAN
  BY DEF Init
<1>5. QED
  BY <1>1, <1>2, <1>3, <1>4 DEF FilesInv

LEMMA ItemsAre ==
  ASSUME NEW op \in OpNames, NEW items \in Items(op)
  PROVE  /\ op = "rename" => items \in Seq(Given \X Given) /\ Len(items) # 0
         /\ op = "delete" => items \in Seq(Given) /\ Len(items) # 0
         /\ op \notin {"delete", "rename"} => items \in Seq(Given) /\ Len(items) = 1
         /\ op \in {"create", "drop"} => items[1] = <<>>
<1>1. CASE op = "delete"
  <2>1. PICK n \in 1 .. Batch : items \in [1 .. n -> Given]
    BY <1>1 DEF Items, Given
  <2>2. n \in Nat \ {0}
    BY FilesAssumption
  <2>3. items \in Seq(Given) /\ Len(items) = n
    BY <2>1, <2>2
  <2>4. QED
    BY <1>1, <2>2, <2>3
<1>2. CASE op = "rename"
  <2>1. PICK n \in 1 .. Batch : items \in [1 .. n -> RenameItems]
    BY <1>2 DEF Items
  <2>2. n \in Nat \ {0} /\ RenameItems \subseteq Given \X Given
    BY FilesAssumption DEF RenameItems, Given
  <2>3. items \in [1 .. n -> Given \X Given]
    BY <2>1, <2>2
  <2> HIDE DEF Given
  <2>4. items \in Seq(Given \X Given) /\ Len(items) = n
    BY <2>2, <2>3
  <2>5. QED
    BY <1>2, <2>2, <2>4
<1>3. CASE op \in {"create", "drop"}
  <2>1. items = << <<>> >> /\ <<>> \in Given
    BY <1>3, Distinct DEF Items, Given
  <2>2. QED
    BY <1>3, <2>1
<1>4. CASE op \in OpNames \ {"create", "drop", "delete", "rename"}
  <2>1. \E p \in Given : items = <<p>>
    BY <1>4 DEF Items, Given, OpNames
  <2>2. QED
    BY <1>4, <2>1
<1>5. QED
  BY <1>1, <1>2, <1>3, <1>4

\* What is known of a request under way, and of one whose paths stay.
LEMMA UnderWay ==
  ASSUME FilesInv, NEW r \in Reqs, req[r].pc # "idle"
  PROVE  /\ req[r] \in RequestType /\ DOMAIN req = Reqs
         /\ ItemsFit(req[r]) /\ StepsFit(req[r]) /\ ChecksFit(req[r])
         /\ DoneFit(req[r])
<1>1. Sound(req[r])
  BY DEF FilesInv
<1>2. req = [s \in Reqs |-> req[s]]
  BY DEF FilesInv
<1>3. DOMAIN req = Reqs
  BY <1>2
<1>4. QED
  BY <1>1, <1>3 DEF Sound

LEMMA KeepSound ==
  ASSUME FilesInv, NEW r \in Reqs, req[r].pc # "idle",
         NEW q \in RequestType, q.pc # "idle",
         q.op = req[r].op, q.items = req[r].items, q.done = req[r].done,
         q.pc = "ok" \/ req[r].done < Len(req[r].items),
         StepsFit(q), ChecksFit(q)
  PROVE  Sound(q)
<1>1. ItemsFit(req[r]) /\ DoneFit(req[r])
  BY UnderWay
<1>2. ItemsFit(q)
  BY <1>1 DEF ItemsFit
<1>3. DoneFit(q)
  BY <1>1 DEF DoneFit, Inside
<1>4. QED
  BY <1>2, <1>3 DEF Sound

\* A request that goes to another place and does nothing else.
LEMMA GotoSound ==
  ASSUME FilesInv, NEW r \in Reqs, req[r].pc # "idle",
         NEW pc \in {"failed", "ok", "open_write", "add", "entry"},
         Goto(r, pc),
         pc = "ok" \/ req[r].done < Len(req[r].items),
         pc = "open_write" => req[r].op = "write" /\ req[r].items[req[r].done + 1] \in Paths,
         pc = "add" => req[r].op = "create",
         pc = "entry" => req[r].op = "drop"
  PROVE  \E q : Sound(q) /\ req' = [req EXCEPT ![r] = q]
<1> DEFINE q == [req[r] EXCEPT !.pc = pc]
<1>1. /\ req[r] \in RequestType /\ DOMAIN req = Reqs
      /\ ItemsFit(req[r]) /\ StepsFit(req[r]) /\ ChecksFit(req[r])
  BY UnderWay
<1>2. req' = [req EXCEPT ![r] = q]
  BY <1>1 DEF Goto
<1>3. /\ q \in RequestType /\ q.pc = pc
      /\ q.op = req[r].op /\ q.items = req[r].items /\ q.done = req[r].done
  BY <1>1 DEF RequestType, Pcs
<1> HIDE DEF q
<1>4. StepsFit(q)
  BY <1>1, <1>3 DEF StepsFit
<1>5. ChecksFit(q)
  BY <1>3 DEF ChecksFit
<1>6. Sound(q)
  BY <1>3, <1>4, <1>5, KeepSound
<1>7. QED
  BY <1>2, <1>6

\* The next item of a batch, or the answer.
LEMMA ItemDoneSound ==
  ASSUME FilesInv, NEW r \in Reqs, req[r].pc # "idle", req[r].pc # "ok",
         req[r].op \in {"delete", "rename"}, Inside(req[r], req[r].done + 1),
         NEW next, next = IF req[r].op = "rename" THEN "rename" ELSE "remove",
         ItemDone(r, next)
  PROVE  \E q : Sound(q) /\ req' = [req EXCEPT ![r] = q]
<1> DEFINE pc == IF req[r].done + 1 = Len(req[r].items) THEN "ok" ELSE next
           q == [req[r] EXCEPT !.done = req[r].done + 1, !.seen = {}, !.pc = pc]
<1>1. /\ req[r] \in RequestType /\ DOMAIN req = Reqs
      /\ ItemsFit(req[r]) /\ StepsFit(req[r]) /\ DoneFit(req[r])
  BY UnderWay
<1>2. req' = [req EXCEPT ![r] = q]
  BY <1>1 DEF ItemDone, RequestType
<1>3. /\ req[r].done \in Nat /\ Len(req[r].items) \in Nat
      /\ req[r].done < Len(req[r].items)
  BY <1>1, LenProperties DEF RequestType, ItemsFit
<1>4. /\ q \in RequestType /\ q.pc = pc /\ q.pc # "idle"
      /\ q.pc = "ok" \/ q.pc = IF q.op = "rename" THEN "rename" ELSE "remove"
      /\ q.op = req[r].op /\ q.items = req[r].items /\ q.done = req[r].done + 1
      /\ q.pc = "ok" <=> req[r].done + 1 = Len(req[r].items)
  <2>1. next \in {"rename", "remove"}
    OBVIOUS
  <2>2. pc \in {"ok", "rename", "remove"} /\ pc \in Pcs
    BY <2>1 DEF Pcs
  <2>3. pc = "ok" <=> req[r].done + 1 = Len(req[r].items)
    BY <2>1
  <2>4. pc = "ok" \/ pc = next
    OBVIOUS
  <2> HIDE DEF pc
  <2>5. /\ q.pc = pc /\ q.op = req[r].op /\ q.items = req[r].items
        /\ q.done = req[r].done + 1
    BY <1>1 DEF RequestType
  <2>6. req[r].done + 1 \in Nat /\ {} \in SUBSET Paths
    BY <1>3
  <2>7. q \in RequestType
    BY <1>1, <2>2, <2>6 DEF RequestType
  <2>8. QED
    BY <2>2, <2>3, <2>4, <2>5, <2>7
<1> HIDE DEF q
<1>5. ItemsFit(q)
  BY <1>1, <1>3, <1>4 DEF ItemsFit
<1>6. StepsFit(q)
  BY <1>4 DEF StepsFit
<1>7. ChecksFit(q)
  BY <1>4 DEF ChecksFit
<1>8. DoneFit(q)
  <2>1. \A n \in 1 .. q.done : n \in 1 .. req[r].done \/ n = req[r].done + 1
    BY <1>3, <1>4
  <2>2. \A n \in 1 .. q.done : Inside(req[r], n)
    BY <1>1, <2>1 DEF DoneFit
  <2>3. QED
    BY <1>4, <2>2 DEF DoneFit, Inside
<1>9. Sound(q)
  BY <1>4, <1>5, <1>6, <1>7, <1>8 DEF Sound
<1>10. QED
  BY <1>2, <1>9 DEF q

-----------------------------------------------------------------------------
(* One lemma for each action                                               *)

LEMMA RequestKeeps ==
  ASSUME FilesInv, NEW r \in Reqs, NEW op \in Ops, Request(r, op)
  PROVE  FilesInv'
<1>1. PICK items \in Items(op), c \in (IF op = "write" THEN Contents ELSE {<<>>}) :
        req' = [req EXCEPT ![r] = [Idle EXCEPT !.pc = FirstPc(op), !.op = op,
                                               !.items = items, !.buf = c]]
  BY DEF Request
<1> DEFINE q == [Idle EXCEPT !.pc = FirstPc(op), !.op = op, !.items = items, !.buf = c]
<1>2. op \in OpNames
  BY FilesAssumption
<1>3. FirstPc(op) \in {"mkdir", "remove", "rename", "open", "list"}
  BY <1>2 DEF FirstPc, OpNames
<1>4. c \in Seq(Blocks)
  <2>1. c \in Contents \/ c = <<>>
    OBVIOUS
  <2>2. <<>> \in Seq(Blocks)
    OBVIOUS
  <2>3. QED
    BY <2>1, <2>2, ContentsAreSeqs
<1>5. /\ q.pc = FirstPc(op) /\ q.op = op /\ q.items = items /\ q.done = 0
      /\ q \in RequestType
  <2>1. items \in Seq(Given) \cup Seq(Given \X Given)
    BY <1>2, ItemsAre
  <2>2. Idle \in RequestType
    BY IdleIsSound DEF Sound
  <2>3. FirstPc(op) \in Pcs
    BY <1>3 DEF Pcs
  <2>4. QED
    BY <1>2, <1>4, <2>1, <2>2, <2>3 DEF RequestType, Idle
<1> HIDE DEF q
<1>6. ItemsFit(q)
  <2>1. /\ op = "rename" => items \in Seq(Given \X Given) /\ Len(items) # 0
        /\ op = "delete" => items \in Seq(Given) /\ Len(items) # 0
        /\ op \notin {"delete", "rename"} => items \in Seq(Given) /\ Len(items) = 1
        /\ op \in {"create", "drop"} => items[1] = <<>>
    BY <1>2, ItemsAre
  <2>2. Len(items) \in Nat \ {0}
    BY <2>1, LenProperties
  <2>3. 0 <= Len(items) /\ 0 < Len(items)
    BY <2>2
  <2>4. op # "rename" => items \in Seq(Given)
    BY <2>1
  <2>5. QED
    BY <1>5, <2>1, <2>3, <2>4 DEF ItemsFit
<1>7. StepsFit(q)
  BY <1>2, <1>5 DEF StepsFit, FirstPc, OpNames
<1>8. ChecksFit(q)
  BY <1>3, <1>5 DEF ChecksFit
<1>9. Sound(q)
  <2>1. DoneFit(q)
    BY <1>5 DEF DoneFit
  <2>2. QED
    BY <1>3, <1>5, <1>6, <1>7, <1>8, <2>1 DEF Sound
<1>10. registered' = registered /\ tree' = tree /\ data' = data
  BY DEF Request
<1>11. registered' \in BOOLEAN /\ IsTree(tree)' /\ data' \in [Inodes -> Seq(Blocks)]
  BY <1>10 DEF FilesInv, IsTree
<1>12. req' = [req EXCEPT ![r] = q]
  BY <1>1 DEF q
<1>13. QED
  BY <1>9, <1>11, <1>12, OneSound

\* A step that leaves everything but its request alone.
LEMMA OnlyRequest ==
  ASSUME FilesInv, NEW r \in Reqs, UNCHANGED <<registered, tree, data>>,
         \E q : Sound(q) /\ req' = [req EXCEPT ![r] = q]
  PROVE  FilesInv'
<1>1. registered' \in BOOLEAN /\ IsTree(tree)' /\ data' \in [Inodes -> Seq(Blocks)]
  BY DEF FilesInv, IsTree
<1>2. QED
  BY <1>1, OneSound

LEMMA OnErrorIs ==
  ASSUME NEW r
  PROVE  /\ OnError(r) \in {"entry", "failed", "ok"}
         /\ OnError(r) = "entry" <=> req[r].op = "drop"
         /\ OnError(r) = "ok" <=> req[r].op = "download"
  BY DEF OnError

LEMMA RefusedKeeps ==
  ASSUME FilesInv, NEW r \in Reqs, Refused(r)
  PROVE  FilesInv'
<1> DEFINE pc == OnError(r)
<1>1. req[r].pc \in {"mkdir", "remove", "open", "list", "rename"} /\ Goto(r, pc)
      /\ UNCHANGED <<registered, tree, data>>
  BY DEF Refused, Escapes
<1>2. req[r].done < Len(req[r].items)
  BY <1>1, UnderWay DEF ItemsFit
<1>3. \E q : Sound(q) /\ req' = [req EXCEPT ![r] = q]
  <2>1. pc \in {"entry", "failed", "ok"} /\ (pc = "entry" => req[r].op = "drop")
    BY OnErrorIs
  <2> HIDE DEF pc
  <2>2. QED
    BY <1>1, <1>2, <2>1, GotoSound
<1>4. QED
  BY <1>1, <1>3, OnlyRequest

LEMMA CallFailsKeeps ==
  ASSUME FilesInv, NEW r \in Reqs, CallFails(r)
  PROVE  FilesInv'
<1> DEFINE pc == OnError(r)
           q == [req[r] EXCEPT !.hit = TRUE, !.pc = pc]
<1>1. /\ req[r].pc \in {"make", "open_write", "removing", "rename", "open", "copy", "list"}
      /\ UNCHANGED <<registered, tree, data>>
  BY DEF CallFails
<1>2. /\ req[r] \in RequestType /\ DOMAIN req = Reqs
      /\ ItemsFit(req[r]) /\ StepsFit(req[r])
  BY <1>1, UnderWay
<1>3. req' = [req EXCEPT ![r] = q]
  BY <1>2 DEF CallFails, RequestType
<1>4. pc \in {"entry", "failed", "ok"} /\ (pc = "entry" => req[r].op = "drop")
  BY OnErrorIs
<1> HIDE DEF pc
<1>5. /\ q \in RequestType /\ q.pc = pc
      /\ q.op = req[r].op /\ q.items = req[r].items /\ q.done = req[r].done
  BY <1>2, <1>4 DEF RequestType, Pcs
<1> HIDE DEF q
<1>6. StepsFit(q)
  BY <1>2, <1>4, <1>5 DEF StepsFit
<1>7. ChecksFit(q)
  BY <1>4, <1>5 DEF ChecksFit
<1>8. req[r].done < Len(req[r].items)
  BY <1>1, <1>2 DEF ItemsFit
<1>9. Sound(q)
  BY <1>1, <1>4, <1>5, <1>6, <1>7, <1>8, KeepSound
<1>10. QED
  BY <1>1, <1>3, <1>9, OnlyRequest

LEMMA ReplyKeeps ==
  ASSUME FilesInv, NEW r \in Reqs, Reply(r)
  PROVE  FilesInv'
<1>1. UNCHANGED <<registered, tree, data>> /\ req' = [req EXCEPT ![r] = Idle]
  BY DEF Reply
<1>2. QED
  BY <1>1, IdleIsSound, OnlyRequest

\* The directories MkdirAll looks at and makes.
LEMMA ChainIs ==
  ASSUME FilesInv, NEW r \in Reqs, req[r].pc \in {"mkdir", "make"},
         Item(r) \in Paths
  PROVE  /\ ChainLen(r) \in Nat
         /\ ChainLen(r) = IF req[r].op = "write" THEN Len(Item(r)) ELSE Len(Item(r)) + 1
         /\ \A k \in 1 .. ChainLen(r) :
              /\ Chain(r, k) \in Paths /\ IsPrefix(Chain(r, k), Item(r))
              /\ Len(Chain(r, k)) = k - 1
<1>1. Item(r) \in Seq(Names) /\ Len(Item(r)) \in Nat
  BY Distinct
<1>2. /\ ChainLen(r) = IF req[r].op = "write" THEN Len(Item(r)) ELSE Len(Item(r)) + 1
      /\ ChainLen(r) \in Nat
  BY <1>1 DEF ChainLen
<1>3. ASSUME NEW k \in 1 .. ChainLen(r)
      PROVE  /\ Chain(r, k) \in Paths /\ IsPrefix(Chain(r, k), Item(r))
             /\ Len(Chain(r, k)) = k - 1
  <2> DEFINE n == k - 1
             p == SubSeq(Item(r), 1, n)
  <2>1. n \in 0 .. Len(Item(r)) /\ n \in Nat
    BY <1>1, <1>2
  <2>2. Chain(r, k) = p
    BY DEF Chain
  <2> HIDE DEF n
  <2>3. /\ p \in Seq(Names) /\ Len(p) = n
        /\ \A i \in 1 .. n : p[i] = Item(r)[i]
    BY <1>1, <2>1, CutInTwo
  <2> HIDE DEF p
  <2>4. Len(p) <= Len(Item(r)) /\ \A i \in 1 .. Len(p) : p[i] = Item(r)[i]
    BY <1>1, <2>1, <2>3
  <2>5. IsPrefix(p, Item(r))
    BY <1>1, <2>3, <2>4, PrefixIs
  <2>6. p \in Paths
    BY <2>3, <2>5, PrefixesArePaths
  <2>7. QED
    BY <2>2, <2>3, <2>5, <2>6 DEF n
<1>4. QED
  BY <1>2, <1>3

LEMMA GivenItem ==
  ASSUME FilesInv, NEW r \in Reqs, req[r].pc \notin {"idle", "ok"},
         req[r].op # "rename", Item(r) # Outside
  PROVE  Item(r) \in Paths
<1>1. /\ req[r] \in RequestType /\ ItemsFit(req[r])
  BY UnderWay
<1>2. /\ req[r].items \in Seq(Given) /\ req[r].done \in Nat
      /\ req[r].done < Len(req[r].items)
  BY <1>1 DEF ItemsFit, RequestType
<1>3. req[r].done + 1 \in 1 .. Len(req[r].items)
  BY <1>2, LenProperties
<1>4. req[r].items[req[r].done + 1] \in Given
  BY <1>2, <1>3, ElementOfSeq
<1>5. QED
  BY <1>4 DEF Item, Given

LEMMA MkdirKeeps ==
  ASSUME FilesInv, NEW r \in Reqs, Mkdir(r)
  PROVE  FilesInv'
<1> DEFINE there == {k \in 1 .. ChainLen(r) : tree[Chain(r, k)] = Dir}
           m == Max(there \cup {0})
           q == [req[r] EXCEPT !.pc = "make", !.made = m]
<1>1. /\ req[r].pc = "mkdir" /\ Item(r) # Outside
      /\ UNCHANGED <<registered, tree, data>>
  BY DEF Mkdir, At
<1>2. /\ req[r] \in RequestType /\ DOMAIN req = Reqs
      /\ ItemsFit(req[r]) /\ StepsFit(req[r])
  BY <1>1, UnderWay
<1>3. req[r].op \in {"create", "write", "folder"}
  BY <1>1, <1>2 DEF StepsFit
<1>4. Item(r) \in Paths
  BY <1>1, <1>3, GivenItem
<1>5. req[r].done < Len(req[r].items)
  BY <1>1, <1>2 DEF ItemsFit
<1>6. ChainLen(r) \in Nat
  BY <1>1, <1>4, ChainIs
<1>7. m \in 0 .. ChainLen(r)
  <2>1. there \cup {0} \in SUBSET (0 .. ChainLen(r)) /\ there \cup {0} # {}
    BY <1>6
  <2> HIDE DEF there
  <2>2. Max(there \cup {0}) \in there \cup {0}
    BY <1>6, <2>1, MaxIs
  <2>3. QED
    BY <2>1, <2>2
<1>8. Goto(r, "failed") \/ req' = [req EXCEPT ![r].pc = "make", ![r].made = m]
  BY DEF Mkdir
<1> HIDE DEF m
<1>9. CASE Goto(r, "failed")
  BY <1>1, <1>5, <1>9, GotoSound, OnlyRequest
<1>10. CASE req' = [req EXCEPT ![r].pc = "make", ![r].made = m]
  <2>1. req' = [req EXCEPT ![r] = q]
    BY <1>2, <1>10 DEF RequestType
  <2>2. /\ q \in RequestType /\ q.pc = "make" /\ q.made = m
        /\ q.op = req[r].op /\ q.items = req[r].items /\ q.done = req[r].done
    <3>1. m \in Nat /\ "make" \in Pcs
      BY <1>6, <1>7 DEF Pcs
    <3>2. QED
      BY <1>2, <3>1 DEF RequestType
  <2> HIDE DEF q
  <2>3. StepsFit(q)
    BY <1>2, <1>3, <2>2 DEF StepsFit
  <2>4. m <= ChainLen(r)
    BY <1>6, <1>7
  <2>5. ChecksFit(q)
    BY <1>4, <2>2, <2>4 DEF ChecksFit, ChainLen, Item
  <2>6. Sound(q)
    BY <1>1, <1>5, <2>2, <2>3, <2>5, KeepSound
  <2>7. QED
    BY <1>1, <2>1, <2>6, OnlyRequest
<1>11. QED
  BY <1>8, <1>9, <1>10

LEMMA MakeKeeps ==
  ASSUME FilesInv, NEW r \in Reqs, Make(r)
  PROVE  FilesInv'
<1> DEFINE k == req[r].made + 1
           p == Chain(r, k)
           q == [req[r] EXCEPT !.made = k]
<1>1. /\ req[r].pc = "make" /\ req[r].made < ChainLen(r)
      /\ registered' = registered /\ data' = data
  BY DEF Make, At
<1>2. /\ req[r] \in RequestType /\ DOMAIN req = Reqs
      /\ ItemsFit(req[r]) /\ StepsFit(req[r]) /\ ChecksFit(req[r])
  BY <1>1, UnderWay
<1>3. Item(r) \in Paths
  BY <1>1, <1>2 DEF ChecksFit, Item
<1>4. req[r].done < Len(req[r].items)
  BY <1>1, <1>2 DEF ItemsFit
<1>5. ChainLen(r) \in Nat /\ req[r].made \in Nat
  BY <1>1, <1>2, <1>3, ChainIs DEF RequestType
<1>6. k \in 1 .. ChainLen(r)
  BY <1>1, <1>5
<1>7. p \in Paths
  <2> HIDE DEF k
  <2>1. QED
    BY <1>1, <1>3, <1>6, ChainIs
<1>8. \/ tree' = tree /\ req' = [req EXCEPT ![r].made = k]
      \/ /\ tree[p] = Absent /\ InDir(p) /\ tree' = [tree EXCEPT ![p] = Dir]
         /\ req' = [req EXCEPT ![r].made = k]
      \/ Goto(r, "failed") /\ tree' = tree
  BY DEF Make
<1>9. ASSUME req' = [req EXCEPT ![r].made = k]
      PROVE  \E x : Sound(x) /\ req' = [req EXCEPT ![r] = x]
  <2>1. req' = [req EXCEPT ![r] = q]
    BY <1>2, <1>9 DEF RequestType
  <2>2. /\ q \in RequestType /\ q.pc = "make" /\ q.made = k
        /\ q.op = req[r].op /\ q.items = req[r].items /\ q.done = req[r].done
    BY SMTT(40), <1>1, <1>2, <1>5 DEF RequestType
  <2> HIDE DEF q
  <2>3. StepsFit(q)
    BY <1>1, <1>2, <2>2 DEF StepsFit
  <2>4. k <= ChainLen(r)
    BY <1>5, <1>6
  <2>5. ChecksFit(q)
    BY <1>3, <2>2, <2>4 DEF ChecksFit, ChainLen, Item
  <2>6. Sound(q)
    BY <1>1, <1>4, <2>2, <2>3, <2>5, KeepSound
  <2>7. QED
    BY <2>1, <2>6
<1> HIDE DEF k, p
<1>10. CASE tree' = tree
  <2>1. UNCHANGED <<registered, tree, data>>
    BY <1>1, <1>10
  <2>2. \E x : Sound(x) /\ req' = [req EXCEPT ![r] = x]
    BY <1>1, <1>4, <1>8, <1>9, GotoSound
  <2>3. QED
    BY <2>1, <2>2, OnlyRequest
<1>11. CASE /\ tree[p] = Absent /\ InDir(p) /\ tree' = [tree EXCEPT ![p] = Dir]
            /\ req' = [req EXCEPT ![r].made = k]
  <2>1. IsTree(tree) /\ (p = <<>> \/ tree[Front(p)] = Dir)
    BY <1>11 DEF FilesInv, InDir
  <2>2. tree[p] # Dir /\ Dir \in Inodes \cup {Dir} /\ Dir \notin Inodes
    BY <1>11, Distinct
  <2>3. IsTree([tree EXCEPT ![p] = Dir])
    BY <1>7, <2>1, <2>2, NameTree
  <2>4. IsTree(tree)'
    BY <1>11, <2>3 DEF IsTree
  <2>5. \E x : Sound(x) /\ req' = [req EXCEPT ![r] = x]
    BY <1>9, <1>11
  <2>6. registered' \in BOOLEAN /\ data' \in [Inodes -> Seq(Blocks)]
    BY <1>1 DEF FilesInv
  <2>7. QED
    BY <2>4, <2>5, <2>6, OneSound
<1>12. QED
  BY <1>8, <1>10, <1>11

LEMMA MadeKeeps ==
  ASSUME FilesInv, NEW r \in Reqs, Made(r)
  PROVE  FilesInv'
<1>1. req[r].pc = "make" /\ UNCHANGED <<registered, tree, data>>
  BY DEF Made, At
<1>2. ItemsFit(req[r]) /\ StepsFit(req[r]) /\ ChecksFit(req[r])
  BY <1>1, UnderWay
<1>3. /\ req[r].op \in {"create", "write", "folder"}
      /\ req[r].items[req[r].done + 1] \in Paths
      /\ req[r].done < Len(req[r].items)
  BY <1>1, <1>2 DEF ItemsFit, StepsFit, ChecksFit
<1>4. \/ req[r].op = "write" /\ Goto(r, "open_write")
      \/ Goto(r, "ok")
      \/ req[r].op = "create" /\ Goto(r, "add")
  BY <1>3 DEF Made
<1>5. \E q : Sound(q) /\ req' = [req EXCEPT ![r] = q]
  <2>1. CASE req[r].op = "write" /\ Goto(r, "open_write")
    BY <1>1, <1>3, <2>1, GotoSound
  <2>2. CASE Goto(r, "ok")
    BY <1>1, <1>3, <2>2, GotoSound
  <2>3. CASE req[r].op = "create" /\ Goto(r, "add")
    BY <1>1, <1>3, <2>3, GotoSound
  <2>4. QED
    BY <1>4, <2>1, <2>2, <2>3
<1>6. QED
  BY <1>1, <1>5, OnlyRequest

LEMMA OverlayType ==
  ASSUME NEW S, NEW old \in Seq(S), NEW new \in Seq(S)
  PROVE  Overlay(old, new) \in Seq(S) /\ Overlay(<<>>, new) = new
<1> DEFINE n == IF Len(old) > Len(new) THEN Len(old) ELSE Len(new)
           f == [i \in 1 .. n |-> IF i \in DOMAIN new THEN new[i] ELSE old[i]]
<1>1. /\ Len(old) \in Nat /\ Len(new) \in Nat
      /\ DOMAIN new = 1 .. Len(new) /\ DOMAIN old = 1 .. Len(old)
      /\ \A i \in 1 .. Len(new) : new[i] \in S
      /\ \A i \in 1 .. Len(old) : old[i] \in S
  BY LenProperties, ElementOfSeq
<1>2. Overlay(old, new) \in Seq(S)
  <2>1. n \in Nat /\ n >= Len(old) /\ n >= Len(new) /\ (n = Len(old) \/ n = Len(new))
    BY <1>1
  <2>2. Overlay(old, new) = f
    BY DEF Overlay
  <2> HIDE DEF n
  <2>3. \A i \in 1 .. n : (IF i \in DOMAIN new THEN new[i] ELSE old[i]) \in S
    <3> TAKE i \in 1 .. n
    <3>1. i \in 1 .. Len(new) \/ i \in 1 .. Len(old)
      BY <1>1, <2>1
    <3>2. QED
      BY <1>1, <3>1
  <2>4. f \in [1 .. n -> S]
    BY <2>3
  <2>5. QED
    BY <2>1, <2>2, <2>4
<1>3. Overlay(<<>>, new) = new
  <2>1. (IF Len(<<>>) > Len(new) THEN Len(<<>>) ELSE Len(new)) = Len(new)
    BY <1>1
  <2>2. Overlay(<<>>, new) = [i \in 1 .. Len(new) |-> IF i \in DOMAIN new THEN new[i] ELSE <<>>[i]]
    BY <2>1 DEF Overlay
  <2>3. Overlay(<<>>, new) = [i \in 1 .. Len(new) |-> new[i]]
    BY <1>1, <2>2
  <2>4. new = [i \in DOMAIN new |-> new[i]]
    OBVIOUS
  <2>5. QED
    BY <1>1, <2>3, <2>4
<1>4. QED
  BY <1>2, <1>3

LEMMA OpenWriteKeeps ==
  ASSUME FilesInv, NEW r \in Reqs, OpenWrite(r)
  PROVE  FilesInv'
<1> DEFINE p == Item(r)
<1>1. req[r].pc = "open_write" /\ registered' = registered
  BY DEF OpenWrite, At
<1>2. /\ req[r] \in RequestType /\ DOMAIN req = Reqs
      /\ ItemsFit(req[r]) /\ StepsFit(req[r]) /\ ChecksFit(req[r])
  BY <1>1, UnderWay
<1>3. p \in Paths
  BY <1>1, <1>2 DEF ChecksFit, Item
<1>4. req[r].done < Len(req[r].items)
  BY <1>1, <1>2 DEF ItemsFit
<1>5. IsTree(tree) /\ data \in [Inodes -> Seq(Blocks)] /\ registered \in BOOLEAN
  BY DEF FilesInv
<1>6. CASE ~(InDir(p) /\ tree[p] # Dir)
  <2>1. Goto(r, "failed") /\ UNCHANGED <<registered, tree, data>>
    BY <1>1, <1>6 DEF OpenWrite
  <2>2. QED
    BY <1>1, <1>4, <2>1, GotoSound, OnlyRequest
<1>7. CASE InDir(p) /\ tree[p] # Dir
  <2>1. PICK i \in Inodes :
          /\ IF tree[p] \in Inodes THEN i = tree[p] ELSE FreeInode(i)
          /\ tree' = [tree EXCEPT ![p] = i]
          /\ data' = [data EXCEPT ![i] = <<>>]
          /\ req' = [req EXCEPT ![r].pc = "write", ![r].ino = i]
    BY <1>7 DEF OpenWrite
  <2> HIDE DEF p
  <2>2. \A q \in Paths : tree[q] = i => q = p
    BY <1>3, <1>5, <2>1 DEF IsTree, FreeInode
  <2>3. p = <<>> \/ tree[Front(p)] = Dir
    BY <1>7 DEF InDir
  <2>4. IsTree([tree EXCEPT ![p] = i])
    BY <1>3, <1>5, <1>7, <2>2, <2>3, NameTree
  <2>5. IsTree(tree)'
    BY <2>1, <2>4 DEF IsTree
  <2>6. data' \in [Inodes -> Seq(Blocks)]
    <3>1. <<>> \in Seq(Blocks)
      OBVIOUS
    <3>2. QED
      BY <1>5, <2>1, <3>1
  <2> DEFINE q == [req[r] EXCEPT !.pc = "write", !.ino = i]
  <2>7. req' = [req EXCEPT ![r] = q]
    BY <1>2, <2>1 DEF RequestType
  <2>8. /\ q \in RequestType /\ q.pc = "write" /\ q.ino = i
        /\ q.op = req[r].op /\ q.items = req[r].items /\ q.done = req[r].done
    BY <1>2 DEF RequestType, Pcs
  <2> HIDE DEF q
  <2>9. StepsFit(q)
    BY <1>1, <1>2, <2>8 DEF StepsFit
  <2>10. ChecksFit(q)
    BY <1>3, <2>8 DEF ChecksFit, Item, p
  <2>11. Sound(q)
    BY <1>1, <1>4, <2>8, <2>9, <2>10, KeepSound
  <2>12. QED
    BY <1>1, <1>5, <2>5, <2>6, <2>7, <2>11, OneSound
<1>8. QED
  BY <1>6, <1>7

\* A prefix of the buffer, written over what the file holds.
LEMMA WriteKeeps ==
  ASSUME FilesInv, NEW r \in Reqs, Write(r)
  PROVE  FilesInv'
<1>1. req[r].pc = "write" /\ registered' = registered /\ tree' = tree
  BY DEF Write, At
<1>2. /\ req[r] \in RequestType /\ DOMAIN req = Reqs
      /\ ItemsFit(req[r]) /\ StepsFit(req[r]) /\ ChecksFit(req[r])
  BY <1>1, UnderWay
<1>3. req[r].done < Len(req[r].items)
  BY <1>1, <1>2 DEF ItemsFit
<1>4. /\ IsTree(tree) /\ data \in [Inodes -> Seq(Blocks)] /\ registered \in BOOLEAN
      /\ req[r].ino \in Inodes /\ req[r].buf \in Seq(Blocks)
  BY <1>1, <1>2 DEF FilesInv, ChecksFit, RequestType
<1>5. PICK n \in 0 .. Len(req[r].buf) :
        /\ data' = [data EXCEPT ![req[r].ino] =
                      Overlay(data[req[r].ino], SubSeq(req[r].buf, 1, n))]
        /\ Goto(r, "ok") \/ req' = [req EXCEPT ![r].pc = "failed", ![r].hit = TRUE]
  BY DEF Write
<1>6. Overlay(data[req[r].ino], SubSeq(req[r].buf, 1, n)) \in Seq(Blocks)
  <2>1. SubSeq(req[r].buf, 1, n) \in Seq(Blocks)
    BY <1>4, CutInTwo
  <2>2. data[req[r].ino] \in Seq(Blocks)
    BY <1>4
  <2>3. QED
    BY <2>1, <2>2, OverlayType
<1>7. data' \in [Inodes -> Seq(Blocks)]
  BY <1>4, <1>5, <1>6
<1>8. IsTree(tree)' /\ registered' \in BOOLEAN
  BY <1>1, <1>4 DEF IsTree
<1>9. CASE Goto(r, "ok")
  BY <1>1, <1>7, <1>8, <1>9, GotoSound, OneSound
<1>10. CASE req' = [req EXCEPT ![r].pc = "failed", ![r].hit = TRUE]
  <2> DEFINE q == [req[r] EXCEPT !.pc = "failed", !.hit = TRUE]
  <2>1. req' = [req EXCEPT ![r] = q]
    BY <1>2, <1>10 DEF RequestType
  <2>2. /\ q \in RequestType /\ q.pc = "failed"
        /\ q.op = req[r].op /\ q.items = req[r].items /\ q.done = req[r].done
    BY <1>2 DEF RequestType, Pcs
  <2> HIDE DEF q
  <2>3. StepsFit(q) /\ ChecksFit(q)
    BY <1>1, <1>2, <2>2 DEF StepsFit, ChecksFit
  <2>4. Sound(q)
    BY <1>1, <1>3, <2>2, <2>3, KeepSound
  <2>5. QED
    BY <1>7, <1>8, <2>1, <2>4, OneSound
<1>11. QED
  BY <1>5, <1>9, <1>10

LEMMA RemoveAllKeeps ==
  ASSUME FilesInv, NEW r \in Reqs, RemoveAll(r)
  PROVE  FilesInv'
<1> DEFINE seen == {x \in Below[Item(r)] : Present(x)}
           q == [req[r] EXCEPT !.pc = "removing", !.seen = seen]
<1>1. /\ req[r].pc = "remove" /\ Item(r) # Outside
      /\ UNCHANGED <<registered, tree, data>>
  BY DEF RemoveAll, At
<1>2. /\ req[r] \in RequestType /\ DOMAIN req = Reqs
      /\ ItemsFit(req[r]) /\ StepsFit(req[r])
  BY <1>1, UnderWay
<1>3. req[r].op \in {"drop", "delete"} /\ req[r].done < Len(req[r].items)
  BY <1>1, <1>2 DEF StepsFit, ItemsFit
<1>4. Item(r) \in Paths
  BY <1>1, <1>3, GivenItem
<1>5. seen \in SUBSET Paths
  BY <1>4, BelowIs
<1>6. Goto(r, "failed") \/ req' = [req EXCEPT ![r].pc = "removing", ![r].seen = seen]
  BY DEF RemoveAll
<1> HIDE DEF seen
<1>7. CASE Goto(r, "failed")
  BY <1>1, <1>3, <1>7, GotoSound, OnlyRequest
<1>8. CASE req' = [req EXCEPT ![r].pc = "removing", ![r].seen = seen]
  <2>1. req' = [req EXCEPT ![r] = q]
    BY <1>2, <1>8 DEF RequestType
  <2>2. /\ q \in RequestType /\ q.pc = "removing"
        /\ q.op = req[r].op /\ q.items = req[r].items /\ q.done = req[r].done
    BY <1>2, <1>5 DEF RequestType, Pcs
  <2> HIDE DEF q
  <2>3. StepsFit(q) /\ ChecksFit(q)
    BY <1>2, <1>3, <1>4, <2>2 DEF StepsFit, ChecksFit, Item
  <2>4. Sound(q)
    BY <1>1, <1>3, <2>2, <2>3, KeepSound
  <2>5. QED
    BY <1>1, <2>1, <2>4, OnlyRequest
<1>9. QED
  BY <1>6, <1>7, <1>8

LEMMA RemoveNameKeeps ==
  ASSUME FilesInv, NEW r \in Reqs, RemoveName(r)
  PROVE  FilesInv'
<1>1. /\ req[r].pc = "removing" /\ registered' = registered /\ data' = data /\ req' = req
  BY DEF RemoveName, At
<1>2. ChecksFit(req[r]) /\ IsTree(tree)
  BY <1>1, UnderWay DEF FilesInv
<1>3. Item(r) \in Paths
  BY <1>1, <1>2 DEF ChecksFit, Item
<1>4. PICK p \in Below[Item(r)] :
        /\ \A d \in Children[p] : ~Present(d)
        /\ tree' = [tree EXCEPT ![p] = Absent]
  BY DEF RemoveName
<1>5. p \in Paths
  BY <1>3, <1>4, BelowIs
<1>6. ASSUME NEW x \in Paths, x # <<>>, Front(x) = p
      PROVE  tree[x] = Absent
  <2>1. p \in Seq(Names) /\ x \in Seq(Names)
    BY <1>5, Distinct
  <2>2. IsPrefix(p, x) /\ Len(p) = Len(x) - 1 /\ Len(x) \in Nat
    BY <1>6, <2>1, PrefixFront, FrontIs
  <2>3. x \in Children[p]
    BY <1>5, <2>2, BelowIs DEF Children
  <2>4. QED
    BY <1>4, <2>3 DEF Present
<1>7. IsTree([tree EXCEPT ![p] = Absent])
  BY <1>2, <1>5, <1>6, UnnameTree
<1>8. IsTree(tree)'
  BY <1>4, <1>7 DEF IsTree
<1>9. QED
  BY <1>1, <1>8 DEF FilesInv

LEMMA RemovedKeeps ==
  ASSUME FilesInv, NEW r \in Reqs, Removed(r)
  PROVE  FilesInv'
<1>1. /\ req[r].pc = "removing" /\ UNCHANGED <<registered, tree, data>>
      /\ IF req[r].op = "drop" THEN Goto(r, "entry") ELSE ItemDone(r, "remove")
  BY DEF Removed, At
<1>2. req[r].op \in {"drop", "delete"} /\ req[r].done < Len(req[r].items)
  BY <1>1, UnderWay DEF StepsFit, ItemsFit
<1>3. CASE req[r].op = "drop"
  BY <1>1, <1>2, <1>3, GotoSound, OnlyRequest
<1>4. CASE req[r].op = "delete"
  <2>1. Inside(req[r], req[r].done + 1)
    BY <1>1, <1>4, UnderWay DEF ChecksFit, Inside
  <2>2. QED
    BY <1>1, <1>4, <2>1, ItemDoneSound, OnlyRequest
<1>5. QED
  BY <1>2, <1>3, <1>4

LEMMA RemoveFailsKeeps ==
  ASSUME FilesInv, NEW r \in Reqs, RemoveFails(r)
  PROVE  FilesInv'
<1>1. /\ req[r].pc = "removing" /\ UNCHANGED <<registered, tree, data>>
      /\ Goto(r, OnError(r))
  BY DEF RemoveFails, At
<1>2. req[r].op \in {"drop", "delete"} /\ req[r].done < Len(req[r].items)
  BY <1>1, UnderWay DEF StepsFit, ItemsFit
<1>3. CASE req[r].op = "drop"
  <2>1. Goto(r, "entry")
    BY <1>1, <1>3 DEF OnError
  <2>2. QED
    BY <1>1, <1>2, <1>3, <2>1, GotoSound, OnlyRequest
<1>4. CASE req[r].op = "delete"
  <2>1. Goto(r, "failed")
    BY <1>1, <1>4 DEF OnError
  <2>2. QED
    BY <1>1, <1>2, <1>4, <2>1, GotoSound, OnlyRequest
<1>5. QED
  BY <1>2, <1>3, <1>4

\* The two paths of a rename, once SafePath has let them through.
LEMMA RenamePaths ==
  ASSUME FilesInv, NEW r \in Reqs, req[r].pc = "rename",
         Outside \notin {Item(r)[1], Item(r)[2]}
  PROVE  Item(r)[1] \in Paths /\ Item(r)[2] \in Paths
<1>1. req[r] \in RequestType /\ ItemsFit(req[r]) /\ StepsFit(req[r])
  BY UnderWay
<1>2. /\ req[r].items \in Seq(Given \X Given) /\ req[r].done \in Nat
      /\ req[r].done < Len(req[r].items)
  BY <1>1 DEF ItemsFit, StepsFit, RequestType
<1>3. req[r].done + 1 \in 1 .. Len(req[r].items)
  BY <1>2, LenProperties
<1>4. req[r].items[req[r].done + 1] \in Given \X Given
  BY <1>2, <1>3, ElementOfSeq
<1>5. Item(r)[1] \in Given /\ Item(r)[2] \in Given
  BY <1>4 DEF Item
<1>6. QED
  BY <1>5 DEF Given

LEMMA RenameKeeps ==
  ASSUME FilesInv, NEW r \in Reqs, Rename(r)
  PROVE  FilesInv'
<1> DEFINE from == Item(r)[1]
           to == Item(r)[2]
<1>1. /\ req[r].pc = "rename" /\ Outside \notin {from, to}
      /\ registered' = registered /\ data' = data
  BY DEF Rename, At
<1>2. req[r].op = "rename" /\ req[r].done < Len(req[r].items)
  BY <1>1, UnderWay DEF StepsFit, ItemsFit
<1>3. from \in Paths /\ to \in Paths
  BY <1>1, RenamePaths
<1>4. /\ IsTree(tree) /\ data' \in [Inodes -> Seq(Blocks)] /\ registered' \in BOOLEAN
  BY <1>1 DEF FilesInv
<1>5. \/ CanRename(from, to) /\ from # to /\ tree' = Moved(tree, from, to)
         /\ ItemDone(r, "rename")
      \/ ItemDone(r, "rename") /\ tree' = tree
      \/ Goto(r, "failed") /\ tree' = tree
  BY DEF Rename
<1>10. Inside(req[r], req[r].done + 1)
  BY <1>2, <1>3 DEF Inside, Item
<1> HIDE DEF from, to
<1>6. \E q : Sound(q) /\ req' = [req EXCEPT ![r] = q]
  <2>1. CASE ItemDone(r, "rename")
    BY <1>1, <1>2, <1>10, <2>1, ItemDoneSound
  <2>2. CASE Goto(r, "failed")
    BY <1>1, <1>2, <2>2, GotoSound
  <2>3. QED
    BY <1>5, <2>1, <2>2
<1>7. CASE tree' = tree
  <2>1. IsTree(tree)'
    BY <1>4, <1>7 DEF IsTree
  <2>2. QED
    BY <1>4, <1>6, <2>1, OneSound
<1>8. CASE CanRename(from, to) /\ from # to /\ tree' = Moved(tree, from, to)
  <2>1. /\ tree[from] # Absent /\ tree[to] # Dir
        /\ to = <<>> \/ tree[Front(to)] = Dir
        /\ ~IsPrefix(from, to)
        /\ tree[from] = Dir => tree[to] = Absent
    BY <1>8 DEF CanRename, Present, InDir, IsStrictPrefix
  <2>2. IsTree(Moved(tree, from, to))
    BY <1>3, <1>4, <2>1, MovedTree
  <2>3. IsTree(tree)'
    BY <1>8, <2>2 DEF IsTree
  <2>4. QED
    BY <1>4, <1>6, <2>3, OneSound
<1>9. QED
  BY <1>5, <1>7, <1>8

LEMMA OpenKeeps ==
  ASSUME FilesInv, NEW r \in Reqs, Open(r)
  PROVE  FilesInv'
<1> DEFINE i == tree[Item(r)]
           q == [req[r] EXCEPT !.pc = "copy", !.ino = i]
<1>1. /\ req[r].pc = "open" /\ Item(r) # Outside
      /\ UNCHANGED <<registered, tree, data>>
  BY DEF Open, At
<1>2. /\ req[r] \in RequestType /\ DOMAIN req = Reqs
      /\ ItemsFit(req[r]) /\ StepsFit(req[r])
  BY <1>1, UnderWay
<1>3. req[r].op \in {"read", "download"} /\ req[r].done < Len(req[r].items)
  BY <1>1, <1>2 DEF StepsFit, ItemsFit
<1>4. Item(r) \in Paths
  BY <1>1, <1>3, GivenItem
<1>5. \/ Goto(r, "failed")
      \/ Goto(r, "ok")
      \/ i \in Inodes /\ req' = [req EXCEPT ![r].pc = "copy", ![r].ino = i]
  BY <1>3 DEF Open, OnError
<1> HIDE DEF i
<1>6. CASE Goto(r, "failed") \/ Goto(r, "ok")
  BY <1>1, <1>3, <1>6, GotoSound, OnlyRequest
<1>7. CASE i \in Inodes /\ req' = [req EXCEPT ![r].pc = "copy", ![r].ino = i]
  <2>1. req' = [req EXCEPT ![r] = q]
    BY <1>2, <1>7 DEF RequestType
  <2>2. /\ q \in RequestType /\ q.pc = "copy" /\ q.ino = i
        /\ q.op = req[r].op /\ q.items = req[r].items /\ q.done = req[r].done
    BY <1>2, <1>7 DEF RequestType, Pcs
  <2> HIDE DEF q
  <2>3. StepsFit(q) /\ ChecksFit(q)
    BY <1>2, <1>3, <1>4, <1>7, <2>2 DEF StepsFit, ChecksFit, Item
  <2>4. Sound(q)
    BY <1>1, <1>3, <2>2, <2>3, KeepSound
  <2>5. QED
    BY <1>1, <2>1, <2>4, OnlyRequest
<1>8. QED
  BY <1>5, <1>6, <1>7

LEMMA CopyKeeps ==
  ASSUME FilesInv, NEW r \in Reqs, Copy(r)
  PROVE  FilesInv'
<1> DEFINE b == Append(req[r].buf, data[req[r].ino][Len(req[r].buf) + 1])
           q == [req[r] EXCEPT !.buf = b]
<1>1. req[r].pc = "copy" /\ UNCHANGED <<registered, tree, data>>
  BY DEF Copy, At
<1>2. /\ req[r] \in RequestType /\ DOMAIN req = Reqs
      /\ ItemsFit(req[r]) /\ StepsFit(req[r]) /\ ChecksFit(req[r])
  BY <1>1, UnderWay
<1>3. req[r].done < Len(req[r].items)
  BY <1>1, <1>2 DEF ItemsFit
<1>4. /\ data \in [Inodes -> Seq(Blocks)] /\ req[r].ino \in Inodes
      /\ req[r].buf \in Seq(Blocks)
  BY <1>1, <1>2 DEF FilesInv, ChecksFit, RequestType
<1>5. CASE Goto(r, "ok")
  BY <1>1, <1>3, <1>5, GotoSound, OnlyRequest
<1>6. CASE ~Goto(r, "ok")
  <2>1. Len(req[r].buf) < Len(data[req[r].ino]) /\ req' = [req EXCEPT ![r].buf = b]
    BY <1>6 DEF Copy
  <2>2. b \in Seq(Blocks)
    <3> DEFINE s == data[req[r].ino]
    <3>1. s \in Seq(Blocks)
      BY <1>4
    <3> HIDE DEF s
    <3>2. Len(req[r].buf) + 1 \in 1 .. Len(s)
      BY <1>4, <2>1, <3>1, LenProperties DEF s
    <3>3. s[Len(req[r].buf) + 1] \in Blocks
      BY <3>1, <3>2, ElementOfSeq
    <3>4. QED
      BY <1>4, <3>3, AppendProperties DEF s
  <2> HIDE DEF b
  <2>3. req' = [req EXCEPT ![r] = q]
    BY <1>2, <2>1 DEF RequestType
  <2>4. /\ q \in RequestType /\ q.pc = "copy" /\ q.ino = req[r].ino
        /\ q.op = req[r].op /\ q.items = req[r].items /\ q.done = req[r].done
    BY <1>1, <1>2, <2>2 DEF RequestType
  <2> HIDE DEF q
  <2>5. StepsFit(q) /\ ChecksFit(q)
    BY <1>1, <1>2, <2>4 DEF StepsFit, ChecksFit
  <2>6. Sound(q)
    BY <1>1, <1>3, <2>4, <2>5, KeepSound
  <2>7. QED
    BY <1>1, <2>3, <2>6, OnlyRequest
<1>7. QED
  BY <1>5, <1>6

LEMMA ListKeeps ==
  ASSUME FilesInv, NEW r \in Reqs, List(r)
  PROVE  FilesInv'
<1> DEFINE seen == {x \in Children[Item(r)] : Present(x)}
           q == [req[r] EXCEPT !.pc = "info", !.seen = seen]
<1>1. /\ req[r].pc = "list" /\ Item(r) # Outside
      /\ UNCHANGED <<registered, tree, data>>
  BY DEF List, At
<1>2. /\ req[r] \in RequestType /\ DOMAIN req = Reqs
      /\ ItemsFit(req[r]) /\ StepsFit(req[r])
  BY <1>1, UnderWay
<1>3. req[r].op = "list" /\ req[r].done < Len(req[r].items)
  BY <1>1, <1>2 DEF StepsFit, ItemsFit
<1>4. Item(r) \in Paths
  BY <1>1, <1>3, GivenItem
<1>5. seen \in SUBSET Paths
  BY <1>4, BelowIs DEF Children
<1>6. Goto(r, "failed") \/ req' = [req EXCEPT ![r].pc = "info", ![r].seen = seen]
  BY DEF List
<1> HIDE DEF seen
<1>7. CASE Goto(r, "failed")
  BY <1>1, <1>3, <1>7, GotoSound, OnlyRequest
<1>8. CASE req' = [req EXCEPT ![r].pc = "info", ![r].seen = seen]
  <2>1. req' = [req EXCEPT ![r] = q]
    BY <1>2, <1>8 DEF RequestType
  <2>2. /\ q \in RequestType /\ q.pc = "info"
        /\ q.op = req[r].op /\ q.items = req[r].items /\ q.done = req[r].done
    BY <1>2, <1>5 DEF RequestType, Pcs
  <2> HIDE DEF q
  <2>3. StepsFit(q) /\ ChecksFit(q)
    BY <1>2, <1>3, <1>4, <2>2 DEF StepsFit, ChecksFit, Item
  <2>4. Sound(q)
    BY <1>1, <1>3, <2>2, <2>3, KeepSound
  <2>5. QED
    BY <1>1, <2>1, <2>4, OnlyRequest
<1>9. QED
  BY <1>6, <1>7, <1>8

LEMMA InfoKeeps ==
  ASSUME FilesInv, NEW r \in Reqs, Info(r)
  PROVE  FilesInv'
<1>1. req[r].pc = "info" /\ UNCHANGED <<registered, tree, data>>
  BY DEF Info, At
<1>2. /\ req[r] \in RequestType /\ DOMAIN req = Reqs
      /\ ItemsFit(req[r]) /\ StepsFit(req[r]) /\ ChecksFit(req[r])
  BY <1>1, UnderWay
<1>3. req[r].done < Len(req[r].items)
  BY <1>1, <1>2 DEF ItemsFit
<1>4. CASE Goto(r, "ok")
  BY <1>1, <1>3, <1>4, GotoSound, OnlyRequest
<1>5. CASE ~Goto(r, "ok")
  <2>1. PICK x \in req[r].seen :
          req' = [req EXCEPT ![r].seen = req[r].seen \ {x},
                   ![r].found = IF Present(x) THEN req[r].found \cup {x} ELSE req[r].found]
    BY <1>5 DEF Info
  <2> DEFINE seen == req[r].seen \ {x}
             found == IF Present(x) THEN req[r].found \cup {x} ELSE req[r].found
             q == [req[r] EXCEPT !.seen = seen, !.found = found]
  <2>2. seen \in SUBSET Paths /\ found \in SUBSET Paths
    BY <1>2 DEF RequestType
  <2>3. req' = [req EXCEPT ![r].seen = seen, ![r].found = found]
    BY <2>1
  <2> HIDE DEF seen, found
  <2>4. req' = [req EXCEPT ![r] = q]
    BY <1>2, <2>3 DEF RequestType
  <2>5. /\ q \in RequestType /\ q.pc = "info"
        /\ q.op = req[r].op /\ q.items = req[r].items /\ q.done = req[r].done
    BY <1>1, <1>2, <2>2 DEF RequestType
  <2> HIDE DEF q
  <2>6. StepsFit(q) /\ ChecksFit(q)
    BY <1>1, <1>2, <2>5 DEF StepsFit, ChecksFit
  <2>7. Sound(q)
    BY <1>1, <1>3, <2>5, <2>6, KeepSound
  <2>8. QED
    BY <1>1, <2>4, <2>7, OnlyRequest
<1>6. QED
  BY <1>4, <1>5

LEMMA InfoFailsKeeps ==
  ASSUME FilesInv, NEW r \in Reqs, InfoFails(r)
  PROVE  FilesInv'
<1>1. req[r].pc = "info" /\ UNCHANGED <<registered, tree, data>>
  BY DEF InfoFails, At
<1>2. /\ req[r] \in RequestType /\ DOMAIN req = Reqs
      /\ ItemsFit(req[r]) /\ StepsFit(req[r]) /\ ChecksFit(req[r])
  BY <1>1, UnderWay
<1>3. req[r].done < Len(req[r].items)
  BY <1>1, <1>2 DEF ItemsFit
<1>4. PICK x \in req[r].seen :
        req' = [req EXCEPT ![r].seen = req[r].seen \ {x}, ![r].hit = TRUE]
  BY DEF InfoFails
<1> DEFINE seen == req[r].seen \ {x}
           q == [req[r] EXCEPT !.seen = seen, !.hit = TRUE]
<1>5. seen \in SUBSET Paths
  BY <1>2 DEF RequestType
<1>6. req' = [req EXCEPT ![r].seen = seen, ![r].hit = TRUE]
  BY <1>4
<1> HIDE DEF seen
<1>7. req' = [req EXCEPT ![r] = q]
  BY <1>2, <1>6 DEF RequestType
<1>8. /\ q \in RequestType /\ q.pc = "info"
      /\ q.op = req[r].op /\ q.items = req[r].items /\ q.done = req[r].done
  BY <1>1, <1>2, <1>5 DEF RequestType
<1> HIDE DEF q
<1>9. StepsFit(q) /\ ChecksFit(q)
  BY <1>1, <1>2, <1>8 DEF StepsFit, ChecksFit
<1>10. Sound(q)
  BY <1>1, <1>3, <1>8, <1>9, KeepSound
<1>11. QED
  BY <1>1, <1>7, <1>10, OnlyRequest

LEMMA AddServerKeeps ==
  ASSUME FilesInv, NEW r \in Reqs, AddServer(r)
  PROVE  FilesInv'
<1>1. /\ req[r].pc = "add" /\ registered' = TRUE /\ tree' = tree /\ data' = data
      /\ Goto(r, "failed") \/ Goto(r, "ok")
  BY DEF AddServer, At
<1>2. req[r].done < Len(req[r].items)
  BY <1>1, UnderWay DEF ItemsFit
<1>3. \E q : Sound(q) /\ req' = [req EXCEPT ![r] = q]
  BY <1>1, <1>2, GotoSound
<1>4. IsTree(tree)' /\ data' \in [Inodes -> Seq(Blocks)] /\ registered' \in BOOLEAN
  BY <1>1 DEF FilesInv, IsTree
<1>5. QED
  BY <1>3, <1>4, OneSound

LEMMA RemoveServerKeeps ==
  ASSUME FilesInv, NEW r \in Reqs, RemoveServer(r)
  PROVE  FilesInv'
<1>1. /\ req[r].pc = "entry" /\ registered' = FALSE /\ tree' = tree /\ data' = data
      /\ Goto(r, "ok")
  BY DEF RemoveServer, At
<1>2. \E q : Sound(q) /\ req' = [req EXCEPT ![r] = q]
  BY <1>1, GotoSound
<1>3. IsTree(tree)' /\ data' \in [Inodes -> Seq(Blocks)] /\ registered' \in BOOLEAN
  BY <1>1 DEF FilesInv, IsTree
<1>4. QED
  BY <1>2, <1>3, OneSound

LEMMA FilesStep == FilesInv /\ [Next]_vars => FilesInv'
<1> SUFFICES ASSUME FilesInv, [Next]_vars PROVE FilesInv'
  OBVIOUS
<1>1. CASE UNCHANGED vars
  BY <1>1 DEF FilesInv, vars, IsTree
<1>2. ASSUME NEW r \in Reqs, CallFails(r) \/ Handler(r) \/ \E op \in Ops : Request(r, op)
      PROVE  FilesInv'
  <2>1. CASE CallFails(r)
    BY <2>1, CallFailsKeeps
  <2>2. CASE \E op \in Ops : Request(r, op)
    BY <2>2, RequestKeeps
  <2>3. CASE Handler(r)
    BY <2>3, RefusedKeeps, MkdirKeeps, MakeKeeps, MadeKeeps, OpenWriteKeeps,
       WriteKeeps, RemoveAllKeeps, RemoveNameKeeps, RemovedKeeps,
       RemoveFailsKeeps, RenameKeeps, OpenKeeps, CopyKeeps, ListKeeps,
       InfoKeeps, InfoFailsKeeps, AddServerKeeps, RemoveServerKeeps, ReplyKeeps DEF Handler
  <2>4. QED
    BY <1>2, <2>1, <2>2, <2>3
<1>3. QED
  BY <1>1, <1>2 DEF Next

\* However the calls of requests interleave, and wherever they fail, the data
\* directory stays a tree: what has a name is in a directory, no file has two
\* names (a rename takes the old one away, manager.go:127-137), and a request
\* never works past the end of its batch (files.go:135-142).
THEOREM TypeCorrect == StoreSpec => []TypeOK
<1>1. StoreInit => FilesInv
  BY FilesInit DEF StoreInit
<1>2. FilesInv /\ [StoreNext]_storeVars => FilesInv'
  BY FilesStep DEF StoreNext, storeVars, vars
<1>3. FilesInv => TypeOK
  BY FilesTypes
<1>4. QED
  BY <1>1, <1>2, <1>3, PTL DEF StoreSpec

-----------------------------------------------------------------------------
(* The tree and the store                                                  *)

\* A request that no other overlaps.
Alone(r) == r \in Busy /\ r \notin clash

Changes(q) == q.op \in {"create", "drop", "write", "delete", "rename", "folder"}

Maker(q) == q.op \in {"create", "folder", "write"}

\* A call that failed leaves nothing to say of a request, unless it only reads.
Accounted(q) == q.hit => Reads(q)

\* The directories a request makes where they are missing.
MadePaths(q) == IF q.op = "write" THEN Needs(q) ELSE Needs(q) \cup Targets(q)

\* What only this request may change: a write that others overlap may hold a
\* file by any name.
Owned(r) == IF r \in clash /\ req[r].op = "write" THEN Paths ELSE Region(req[r])

\* A request that goes on making directories, or has made them all.
MakesOn(r) ==
  \/ req[r].hit
  \/ /\ req[r].pc \in {"make", "add", "open_write", "write", "ok"}
     /\ req[r].op = "write" => tree[Item(r)] # Dir

\* A directory that is there for a request the store has not been told of; when
\* it is answered, the store has the directory too, or knows nothing of it.
Making(r, p) ==
  /\ r \in Busy /\ Maker(req[r])
  /\ p \in MadePaths(req[r]) /\ tree[p] = Dir
  /\ r \in clash \/ MakesOn(r)

\* Who overlaps whom.
ClashFit ==
  /\ clash \subseteq Busy
  /\ \A r \in clash : req[r].op = "write" => clash = Busy
  /\ \A r, s \in Busy : Alone(r) /\ r # s => ~Conflict(req[r], req[s])

\* The paths no request owns.
Elsewhere ==
  \A p \in Paths :
    store[p] # Unknown /\ (\A r \in Busy : Changes(req[r]) => p \notin Owned(r))
      => View[p] = store[p] \/ \E r \in Reqs : Making(r, p)

\* The paths of a request that nobody overlaps: what its finished items leave
\* of the store, but for what the item in hand has changed.
InHand(r, p) ==
  \/ req[r].op = "drop" /\ req[r].pc \in {"entry", "ok"}
  \/ req[r].pc = "removing" /\ IsPrefix(Item(r), p) /\ tree[p] = Absent
  \/ req[r].op \in {"folder", "create"} /\ req[r].pc \in {"make", "add", "ok"}
       /\ p = Item(r) /\ tree[p] = Dir
  \/ req[r].op = "write" /\ req[r].pc \in {"write", "ok"} /\ IsPrefix(Item(r), p)

Left(r) == BatchDone(store, req[r], req[r].done)

OwnPaths(r) ==
  Changes(req[r]) =>
    \A p \in Region(req[r]) :
      Left(r)[p] # Unknown => View[p] = Left(r)[p] \/ InHand(r, p)

\* What it has found or made stays.
MakingFit(r) ==
  \/ req[r].pc \in {"make", "add", "open_write", "write"}
  \/ req[r].pc = "ok" /\ Maker(req[r])
  => \A p \in MadePaths(req[r]) :
       /\ tree[p] \notin Inodes
       /\ (req[r].pc = "make" => Len(p) < req[r].made) => tree[p] = Dir

WritingFit(r) ==
  /\ req[r].pc = "write" => tree[Item(r)] = req[r].ino /\ data[req[r].ino] = <<>>
  /\ req[r].pc = "ok" /\ req[r].op = "write" =>
       tree[Item(r)] \in Inodes /\ data[tree[Item(r)]] = req[r].buf

RemovingFit(r) ==
  /\ req[r].op = "drop" => req[r].pc # "failed"
  /\ req[r].op = "drop" /\ req[r].pc \in {"entry", "ok"} =>
       \A p \in Paths : tree[p] = Absent
  /\ req[r].pc = "removing" =>
       \A p \in Below[Item(r)] : tree[p] # Absent => p \in req[r].seen

\* What is sent of a file is a beginning of it, and of what is no file nothing.
SentFit(r) ==
  LET file == data[tree[Item(r)]] IN
  IF Item(r) # Outside /\ tree[Item(r)] \in Inodes
    THEN /\ Len(req[r].buf) <= Len(file)
         /\ req[r].buf = SubSeq(file, 1, Len(req[r].buf))
         /\ ~req[r].hit => req[r].buf = file
    ELSE req[r].buf = <<>>

ReadingFit(r) ==
  /\ req[r].pc = "open" => req[r].buf = <<>>
  /\ req[r].pc = "copy" =>
       /\ tree[Item(r)] = req[r].ino
       /\ Len(req[r].buf) <= Len(data[req[r].ino])
       /\ req[r].buf = SubSeq(data[req[r].ino], 1, Len(req[r].buf))
  /\ req[r].pc = "ok" /\ req[r].op = "read" =>
       tree[Item(r)] \in Inodes /\ data[tree[Item(r)]] = req[r].buf
  /\ req[r].pc = "ok" /\ req[r].op = "download" => SentFit(r)

ListingFit(r) ==
  /\ req[r].pc = "list" => req[r].found = {}
  /\ req[r].pc = "info" =>
       \A p \in Children[Item(r)] :
         /\ p \in req[r].seen \cup req[r].found => tree[p] # Absent
         /\ tree[p] # Absent => p \in req[r].seen \cup req[r].found \/ req[r].hit
  /\ req[r].pc = "ok" /\ req[r].op = "list" =>
       \A p \in Children[Item(r)] :
         /\ p \in req[r].found => tree[p] # Absent
         /\ tree[p] # Absent => p \in req[r].found \/ req[r].hit

CreatingFit(r) ==
  req[r].op = "create" /\ req[r].pc \in {"mkdir", "make", "add"} => registered = FALSE

OwnFit(r) ==
  /\ OwnPaths(r) /\ MakingFit(r) /\ WritingFit(r) /\ RemovingFit(r)
  /\ ReadingFit(r) /\ ListingFit(r) /\ CreatingFit(r)

AloneFit(r) == Alone(r) /\ Accounted(req[r]) => OwnFit(r)

\* A request whose call failed is at its end, or lists the other entries, and
\* SafePath has let the path of one that succeeds through, but for a download.
EndFit(r) ==
  /\ req[r].hit => \/ req[r].pc = "failed"
                   \/ req[r].op = "drop" /\ req[r].pc \in {"entry", "ok"}
                   \/ req[r].op = "list" /\ req[r].pc \in {"info", "ok"}
                   \/ req[r].op = "download" /\ req[r].pc = "ok"
  /\ req[r].pc = "ok" /\ req[r].op \notin {"delete", "rename", "download"} =>
       Item(r) \in Paths

StoreInv ==
  /\ FilesInv /\ ClashFit /\ Elsewhere
  /\ \A r \in Reqs : EndFit(r) /\ AloneFit(r)

-----------------------------------------------------------------------------
(* What the finished items of a batch leave                                *)

\* The fold of the first n items, as the library computes it.
FoldsTo(f, t, q, seq, n) ==
  f = [s \in SUBSET (1 .. n) |->
         IF s = {} THEN t ELSE OneDone(f[s \ {Max(s)}], q, seq[Max(s)])]

LEMMA FoldsToExists ==
  ASSUME NEW t, NEW q, NEW seq, NEW n \in Nat
  PROVE  \E f : FoldsTo(f, t, q, seq, n)
<1> DEFINE T == {m \in Nat : \E f : FoldsTo(f, t, q, seq, m)}
<1>1. 0 \in T
  <2> DEFINE f == [s \in SUBSET (1 .. 0) |-> t]
  <2>1. \A s \in SUBSET (1 .. 0) : s = {}
    OBVIOUS
  <2>2. f = [s \in SUBSET (1 .. 0) |->
               IF s = {} THEN t ELSE OneDone(f[s \ {Max(s)}], q, seq[Max(s)])]
    BY <2>1
  <2>3. FoldsTo(f, t, q, seq, 0)
    BY <2>2 DEF FoldsTo
  <2>4. QED
    BY <2>3
<1>2. ASSUME NEW m \in Nat, m \in T PROVE m + 1 \in T
  <2>1. PICK f : FoldsTo(f, t, q, seq, m)
    BY <1>2
  <2> DEFINE g == [s \in SUBSET (1 .. m + 1) |->
                     IF m + 1 \in s THEN OneDone(f[s \ {m + 1}], q, seq[m + 1]) ELSE f[s]]
             val(s) == IF s = {} THEN t ELSE OneDone(g[s \ {Max(s)}], q, seq[Max(s)])
  <2>2. \A s \in SUBSET (1 .. m) :
          f[s] = IF s = {} THEN t ELSE OneDone(f[s \ {Max(s)}], q, seq[Max(s)])
    BY <2>1 DEF FoldsTo
  <2>3. \A s \in SUBSET (1 .. m) : s \in SUBSET (1 .. m + 1) /\ m + 1 \notin s /\ g[s] = f[s]
    OBVIOUS
  <2>4. ASSUME NEW s \in SUBSET (1 .. m + 1) PROVE g[s] = val(s)
    <3>1. CASE m + 1 \in s
      <4>1. Max(s) \in s /\ \A y \in s : y <= Max(s)
        BY <3>1, MaxOf
      <4>2. Max(s) = m + 1
        <5>1. Max(s) \in 1 .. m + 1 /\ m + 1 <= Max(s)
          BY <3>1, <4>1
        <5>2. QED
          BY <5>1
      <4>3. s \ {m + 1} \in SUBSET (1 .. m)
        OBVIOUS
      <4>4. g[s \ {m + 1}] = f[s \ {m + 1}]
        BY <2>3, <4>3
      <4>5. g[s] = OneDone(f[s \ {m + 1}], q, seq[m + 1])
        BY <3>1
      <4> HIDE DEF g
      <4>6. QED
        BY <3>1, <4>2, <4>4, <4>5
    <3>2. CASE m + 1 \notin s
      <4>1. s \in SUBSET (1 .. m)
        BY <3>2
      <4>2. g[s] = f[s]
        BY <2>3, <4>1
      <4>3. CASE s = {}
        BY <2>2, <4>1, <4>2, <4>3
      <4>4. CASE s # {}
        <5>1. s \ {Max(s)} \in SUBSET (1 .. m)
          BY <4>1
        <5>2. g[s \ {Max(s)}] = f[s \ {Max(s)}]
          BY <2>3, <5>1
        <5> HIDE DEF g
        <5>3. QED
          BY <2>2, <4>1, <4>2, <4>4, <5>2
      <4>5. QED
        BY <4>3, <4>4
    <3>3. QED
      BY <3>1, <3>2
  <2>5. g = [s \in SUBSET (1 .. m + 1) |-> val(s)]
    <3>1. g = [s \in SUBSET (1 .. m + 1) |-> g[s]]
      OBVIOUS
    <3> HIDE DEF g, val
    <3>2. QED
      BY <2>4, <3>1
  <2>6. FoldsTo(g, t, q, seq, m + 1)
    <3> HIDE DEF g
    <3>1. QED
      BY <2>5 DEF FoldsTo
  <2>7. \E h : FoldsTo(h, t, q, seq, m + 1)
    <3> HIDE DEF g
    <3>1. QED
      BY <2>6
  <2>8. QED
    BY <2>7
<1> HIDE DEF T
<1>3. Nat \subseteq T
  BY <1>1, <1>2, NatSetInduction
<1>4. QED
  BY <1>3 DEF T

LEMMA FoldsToAgree ==
  ASSUME NEW t, NEW q, NEW a, NEW b, NEW f, NEW g, NEW m \in Nat, NEW n \in Nat, m <= n,
         FoldsTo(f, t, q, a, m), FoldsTo(g, t, q, b, n), \A i \in 1 .. m : a[i] = b[i]
  PROVE  \A s \in SUBSET (1 .. m) : f[s] = g[s]
<1> DEFINE T == {k \in Nat : k <= m => \A s \in SUBSET (1 .. k) : f[s] = g[s]}
<1>1. /\ \A s \in SUBSET (1 .. m) :
           f[s] = IF s = {} THEN t ELSE OneDone(f[s \ {Max(s)}], q, a[Max(s)])
      /\ \A s \in SUBSET (1 .. n) :
           g[s] = IF s = {} THEN t ELSE OneDone(g[s \ {Max(s)}], q, b[Max(s)])
  BY DEF FoldsTo
<1>2. \A k \in Nat : k <= m =>
        \A s \in SUBSET (1 .. k) : s \in SUBSET (1 .. m) /\ s \in SUBSET (1 .. n)
  OBVIOUS
<1>3. 0 \in T
  <2>1. \A s \in SUBSET (1 .. 0) : s = {}
    OBVIOUS
  <2>2. {} \in SUBSET (1 .. m) /\ {} \in SUBSET (1 .. n)
    OBVIOUS
  <2>3. f[{}] = t /\ g[{}] = t
    BY <1>1, <2>2
  <2>4. QED
    BY <2>1, <2>3
<1>4. ASSUME NEW k \in Nat, k \in T PROVE k + 1 \in T
  <2> SUFFICES ASSUME k + 1 <= m, NEW s \in SUBSET (1 .. k + 1) PROVE f[s] = g[s]
    OBVIOUS
  <2>1. k <= m /\ \A u \in SUBSET (1 .. k) : f[u] = g[u]
    BY <1>4
  <2>2. s \in SUBSET (1 .. m) /\ s \in SUBSET (1 .. n)
    BY <1>2
  <2>3. CASE s = {}
    BY <1>1, <2>2, <2>3
  <2>4. CASE s # {}
    <3>1. Max(s) \in 1 .. k + 1 /\ \A y \in s : y <= Max(s)
      BY <2>4, MaxOf
    <3>2. s \ {Max(s)} \in SUBSET (1 .. k) /\ Max(s) \in 1 .. m
      <4> DEFINE x == Max(s)
      <4>1. x \in 1 .. k + 1 /\ \A y \in s : y <= x
        BY <3>1
      <4> HIDE DEF x
      <4>2. \A y \in s \ {x} : y \in 1 .. k
        BY <4>1
      <4>3. x \in 1 .. m
        BY <4>1
      <4>4. QED
        BY <4>2, <4>3 DEF x
    <3>3. f[s \ {Max(s)}] = g[s \ {Max(s)}] /\ a[Max(s)] = b[Max(s)]
      BY <2>1, <3>2
    <3>4. QED
      BY <1>1, <2>2, <2>4, <3>3
  <2>5. QED
    BY <2>3, <2>4
<1> HIDE DEF T
<1>5. Nat \subseteq T
  BY <1>3, <1>4, NatSetInduction
<1>6. QED
  BY <1>5 DEF T

LEMMA BatchIsFold ==
  ASSUME NEW t, NEW q, NEW S, q.items \in Seq(S), NEW n \in 0 .. Len(q.items)
  PROVE  \E f : /\ FoldsTo(f, t, q, SubSeq(q.items, 1, n), n)
                /\ BatchDone(t, q, n) = f[1 .. n]
<1> DEFINE seq == SubSeq(q.items, 1, n)
           F(f) == f = [s \in SUBSET DOMAIN seq |->
                          IF s = {} THEN t ELSE OneDone(f[s \ {Max(s)}], q, seq[Max(s)])]
<1>1. DOMAIN seq = 1 .. n /\ n \in Nat
  <2>1. seq \in Seq(S) /\ Len(seq) = n
    BY CutInTwo
  <2>2. QED
    BY <2>1, LenProperties
<1>2. BatchDone(t, q, n) = (CHOOSE f : F(f))[DOMAIN seq]
  BY DEF BatchDone, FoldLeft, MapThenFoldSet
<1>3. \A f : F(f) <=> FoldsTo(f, t, q, seq, n)
  BY <1>1 DEF FoldsTo
<1> HIDE DEF F
<1>4. \E f : F(f)
  <2> HIDE DEF seq
  <2>1. QED
    BY <1>1, <1>3, FoldsToExists
<1>5. F(CHOOSE f : F(f))
  BY <1>4
<1>6. QED
  BY <1>1, <1>2, <1>3, <1>5

LEMMA BatchStep ==
  ASSUME NEW t, NEW q, NEW S, q.items \in Seq(S)
  PROVE  /\ BatchDone(t, q, 0) = t
         /\ \A n \in Nat : n < Len(q.items) =>
              BatchDone(t, q, n + 1) = OneDone(BatchDone(t, q, n), q, q.items[n + 1])
<1>0. Len(q.items) \in Nat
  BY LenProperties
<1>1. BatchDone(t, q, 0) = t
  <2>1. 0 \in 0 .. Len(q.items)
    BY <1>0
  <2>2. PICK f : /\ FoldsTo(f, t, q, SubSeq(q.items, 1, 0), 0)
                 /\ BatchDone(t, q, 0) = f[1 .. 0]
    BY <2>1, BatchIsFold
  <2>3. 1 .. 0 = {} /\ {} \in SUBSET (1 .. 0)
    OBVIOUS
  <2>4. f[{}] = t
    BY <2>2, <2>3 DEF FoldsTo
  <2>5. QED
    BY <2>2, <2>3, <2>4
<1>2. ASSUME NEW n \in Nat, n < Len(q.items)
      PROVE  BatchDone(t, q, n + 1) = OneDone(BatchDone(t, q, n), q, q.items[n + 1])
  <2> DEFINE a == SubSeq(q.items, 1, n)
             b == SubSeq(q.items, 1, n + 1)
  <2>1. n \in 0 .. Len(q.items) /\ n + 1 \in 0 .. Len(q.items) /\ n + 1 \in Nat
    BY <1>0, <1>2
  <2>2. /\ \A i \in 1 .. n : a[i] = q.items[i]
        /\ \A i \in 1 .. n + 1 : b[i] = q.items[i]
    BY <2>1, CutInTwo
  <2>3. PICK f : FoldsTo(f, t, q, a, n) /\ BatchDone(t, q, n) = f[1 .. n]
    BY <2>1, BatchIsFold
  <2>4. PICK g : FoldsTo(g, t, q, b, n + 1) /\ BatchDone(t, q, n + 1) = g[1 .. n + 1]
    BY <2>1, BatchIsFold
  <2> HIDE DEF a, b
  <2>5. \A i \in 1 .. n : a[i] = b[i]
    BY <2>2
  <2>6. f[1 .. n] = g[1 .. n]
    <3>1. n <= n + 1
      OBVIOUS
    <3>2. \A u \in SUBSET (1 .. n) : f[u] = g[u]
      BY <2>1, <2>3, <2>4, <2>5, <3>1, FoldsToAgree
    <3>3. 1 .. n \in SUBSET (1 .. n)
      OBVIOUS
    <3>4. QED
      BY <3>2, <3>3
  <2> DEFINE s == 1 .. n + 1
  <2>7. s \in SUBSET (1 .. n + 1) /\ s # {} /\ n + 1 \in s
    <3>1. n + 1 \in 1 .. n + 1
      BY <1>2
    <3>2. 1 .. n + 1 \in SUBSET (1 .. n + 1)
      OBVIOUS
    <3>3. QED
      BY <3>1, <3>2
  <2>8. Max(s) = n + 1
    <3>1. Max(s) \in 1 .. n + 1 /\ n + 1 <= Max(s)
      BY <2>1, <2>7, MaxOf
    <3>2. QED
      BY <3>1
  <2>9. s \ {n + 1} = 1 .. n
    BY <2>1
  <2>10. g[s] = OneDone(g[s \ {Max(s)}], q, b[Max(s)])
    <3> HIDE DEF s
    <3>1. QED
      BY <2>4, <2>7 DEF FoldsTo
  <2>11. b[n + 1] = q.items[n + 1]
    BY <2>2, <2>7
  <2> HIDE DEF s
  <2>12. g[s] = OneDone(g[1 .. n], q, q.items[n + 1])
    BY <2>8, <2>9, <2>10, <2>11
  <2>13. QED
    BY <2>3, <2>4, <2>6, <2>12 DEF s
<1>3. QED
  BY <1>1, <1>2

-----------------------------------------------------------------------------
(* The paths of a request                                                  *)

LEMMA TargetsIn ==
  ASSUME NEW q \in RequestType, ItemsFit(q)
  PROVE  /\ Targets(q) \subseteq Paths
         /\ \A n \in 1 .. Len(q.items) : Inside(q, n) =>
              /\ q.op = "rename" => q.items[n][1] \in Targets(q) /\ q.items[n][2] \in Targets(q)
              /\ q.op # "rename" => q.items[n] \in Targets(q)
<1>1. CASE q.op = "rename"
  <2>1. q.items \in Seq(Given \X Given)
    BY <1>1 DEF ItemsFit
  <2>2. DOMAIN q.items = 1 .. Len(q.items)
    BY <2>1, LenProperties
  <2>3. \A n \in 1 .. Len(q.items) : q.items[n] \in Given \X Given
    BY <2>1, ElementOfSeq
  <2>4. ToSet(q.items) = {q.items[n] : n \in 1 .. Len(q.items)}
    BY <2>2 DEF ToSet
  <2>5. \A x : x \in Targets(q) <=>
               x # Outside /\ \E i \in ToSet(q.items) : x = i[1] \/ x = i[2]
    BY <1>1 DEF Targets
  <2>6. Targets(q) \subseteq Paths
    <3>1. \A i \in ToSet(q.items) : i \in Given \X Given
      BY <2>3, <2>4
    <3>2. \A i \in ToSet(q.items) : i[1] \in Given /\ i[2] \in Given
      BY <3>1
    <3>3. QED
      BY <2>5, <3>2 DEF Given
  <2>7. ASSUME NEW n \in 1 .. Len(q.items), Inside(q, n)
        PROVE  q.items[n][1] \in Targets(q) /\ q.items[n][2] \in Targets(q)
    <3>1. q.items[n] \in ToSet(q.items)
      BY <2>4
    <3>2. q.items[n][1] \in Paths /\ q.items[n][2] \in Paths
      BY <1>1, <2>7 DEF Inside
    <3>3. QED
      BY <2>5, <3>1, <3>2, Distinct
  <2>8. QED
    BY <1>1, <2>6, <2>7
<1>2. CASE q.op # "rename"
  <2>1. q.items \in Seq(Given)
    BY <1>2 DEF ItemsFit
  <2>2. DOMAIN q.items = 1 .. Len(q.items)
    BY <2>1, LenProperties
  <2>3. \A n \in 1 .. Len(q.items) : q.items[n] \in Given
    BY <2>1, ElementOfSeq
  <2>4. ToSet(q.items) = {q.items[n] : n \in 1 .. Len(q.items)}
    BY <2>2 DEF ToSet
  <2>5. Targets(q) = ToSet(q.items) \ {Outside}
    BY <1>2 DEF Targets
  <2>6. QED
    BY <1>2, <2>3, <2>4, <2>5, Distinct DEF Given, Inside
<1>3. QED
  BY <1>1, <1>2

LEMMA RegionIs ==
  ASSUME NEW q, Targets(q) \subseteq Paths
  PROVE  /\ \A p : p \in Region(q) <=> p \in Paths /\ \E u \in Targets(q) : IsPrefix(u, p)
         /\ \A p : p \in Needs(q) <=>
                     p \in Paths /\ \E u \in Targets(q) : IsPrefix(p, u) /\ p # u
<1>1. \A u \in Targets(q) :
        /\ \A p : p \in Below[u] <=> p \in Paths /\ IsPrefix(u, p)
        /\ \A p : p \in Above[u] <=> p \in Paths /\ IsPrefix(p, u) /\ p # u
  BY BelowIs
<1>2. \A p : p \in Region(q) <=> \E u \in Targets(q) : p \in Below[u]
  BY DEF Region
<1>3. \A p : p \in Needs(q) <=> \E u \in Targets(q) : p \in Above[u]
  BY DEF Needs
<1>4. QED
  BY <1>1, <1>2, <1>3

LEMMA BusyIs ==
  ASSUME FilesInv, NEW r \in Busy
  PROVE  /\ r \in Reqs /\ req[r].pc # "idle"
         /\ req[r] \in RequestType /\ ItemsFit(req[r]) /\ StepsFit(req[r])
         /\ ChecksFit(req[r]) /\ DoneFit(req[r]) /\ DOMAIN req = Reqs
         /\ req[r].op \in OpNames
         /\ Reads(req[r]) <=> ~Changes(req[r])
         /\ Maker(req[r]) => Changes(req[r])
         /\ Targets(req[r]) \subseteq Paths
<1>1. r \in Reqs /\ req[r].pc # "idle"
  BY DEF Busy
<1>2. /\ req[r] \in RequestType /\ ItemsFit(req[r]) /\ StepsFit(req[r])
      /\ ChecksFit(req[r]) /\ DoneFit(req[r]) /\ DOMAIN req = Reqs
  BY <1>1, UnderWay
<1>3. req[r].op \in OpNames
  BY <1>2 DEF RequestType, StepsFit
<1>4. /\ Reads(req[r]) <=> ~Changes(req[r])
      /\ Maker(req[r]) => Changes(req[r])
  BY <1>3 DEF OpNames, Reads, Changes, Maker
<1>5. Targets(req[r]) \subseteq Paths
  BY <1>2, TargetsIn
<1>6. QED
  BY <1>1, <1>2, <1>3, <1>4, <1>5

\* A request that is not a batch has one path.
LEMMA OneTarget ==
  ASSUME FilesInv, NEW r \in Busy, req[r].op \notin {"delete", "rename"}
  PROVE  /\ Item(r) = req[r].items[1] /\ req[r].done = 0 /\ Len(req[r].items) = 1
         /\ Item(r) # Outside => Item(r) \in Paths /\ Targets(req[r]) = {Item(r)}
         /\ Item(r) = Outside => Targets(req[r]) = {}
<1>1. /\ req[r].items \in Seq(Given) /\ Len(req[r].items) = 1 /\ req[r].done = 0
  BY BusyIs DEF ItemsFit
<1>2. Item(r) = req[r].items[1] /\ Item(r) \in Given
  <2>1. 1 \in 1 .. Len(req[r].items) /\ 0 + 1 = 1
    BY <1>1
  <2>2. req[r].items[1] \in Given
    BY <1>1, <2>1, ElementOfSeq
  <2>3. QED
    BY <1>1, <2>1, <2>2 DEF Item
<1>3. ToSet(req[r].items) = {req[r].items[1]}
  <2>1. DOMAIN req[r].items = 1 .. 1
    BY <1>1, LenProperties
  <2>2. DOMAIN req[r].items = {1}
    BY <2>1
  <2>3. QED
    BY <2>2 DEF ToSet
<1>4. Targets(req[r]) = {Item(r)} \ {Outside}
  BY <1>2, <1>3 DEF Targets
<1>5. QED
  BY <1>1, <1>2, <1>4 DEF Given

\* A request that nobody overlaps has its paths for itself.
LEMMA Apart ==
  ASSUME FilesInv, ClashFit, NEW r \in Busy, r \notin clash, NEW s \in Busy, r # s,
         Changes(req[r]) \/ Changes(req[s])
  PROVE  /\ \A p \in Region(req[r]) : p \notin Region(req[s]) /\ p \notin Needs(req[s])
         /\ \A p \in Needs(req[r]) : p \notin Region(req[s])
<1>1. ~Conflict(req[r], req[s])
  BY DEF ClashFit, Alone
<1>2. ~(Reads(req[r]) /\ Reads(req[s]))
  BY BusyIs
<1>3. req[r].pc # "idle" /\ req[s].pc # "idle"
  BY BusyIs
<1>4. QED
  BY <1>1, <1>2, <1>3 DEF Conflict

LEMMA MadeIs ==
  ASSUME NEW q, Targets(q) \subseteq Paths
  PROVE  /\ \A p \in MadePaths(q) : p \in Paths /\ (p \in Needs(q) \/ p \in Region(q))
         /\ \A p \in MadePaths(q) : p \notin Region(q) => p \in Needs(q)
<1>1. \A p \in Targets(q) : p \in Region(q) /\ p \in Paths
  BY RegionIs, Distinct, PrefixOrder
<1>2. \A p \in Needs(q) : p \in Paths
  BY RegionIs
<1>3. QED
  BY <1>1, <1>2 DEF MadePaths

LEMMA BatchOf ==
  ASSUME NEW q, q.items \in Seq(Given) \/ q.items \in Seq(Given \X Given), NEW t
  PROVE  /\ BatchDone(t, q, 0) = t
         /\ \A n \in Nat : n < Len(q.items) =>
              BatchDone(t, q, n + 1) = OneDone(BatchDone(t, q, n), q, q.items[n + 1])
<1>1. CASE q.items \in Seq(Given)
  BY <1>1, BatchStep
<1>2. CASE q.items \in Seq(Given \X Given)
  BY <1>2, BatchStep
<1>3. QED
  BY <1>1, <1>2

\* OneDone, operation by operation.
LEMMA OneDoneIs ==
  ASSUME NEW t, NEW q, NEW item
  PROVE  /\ q.op \in {"folder", "create"} => OneDone(t, q, item) = Makes(t, item)
         /\ q.op = "write" => OneDone(t, q, item) = Writes(t, item, q.buf)
         /\ q.op = "delete" => OneDone(t, q, item) = Deletes(t, item)
         /\ q.op = "rename" /\ item[1] = item[2] => OneDone(t, q, item) = t
         /\ q.op = "rename" /\ item[1] # item[2] =>
              OneDone(t, q, item) = Moved(t, item[1], item[2])
  BY DEF OneDone

\* An item of a batch changes, and looks at, the paths of its request only.
LEMMA ItemLocal ==
  ASSUME NEW q \in RequestType, ItemsFit(q), q.op \in {"delete", "rename"},
         NEW n \in 1 .. Len(q.items), Inside(q, n), NEW t, NEW u
  PROVE  /\ \A p \in Paths : p \notin Region(q) => OneDone(t, q, q.items[n])[p] = t[p]
         /\ (\A p \in Region(q) : t[p] = u[p]) =>
              \A p \in Region(q) : OneDone(t, q, q.items[n])[p] = OneDone(u, q, q.items[n])[p]
<1>1. /\ Targets(q) \subseteq Paths
      /\ q.op = "rename" => q.items[n][1] \in Targets(q) /\ q.items[n][2] \in Targets(q)
      /\ q.op # "rename" => q.items[n] \in Targets(q)
  BY TargetsIn
<1>2. \A p : p \in Region(q) <=> p \in Paths /\ \E w \in Targets(q) : IsPrefix(w, p)
  BY <1>1, RegionIs
<1>3. CASE q.op = "delete"
  <2> DEFINE item == q.items[n]
  <2>1. item \in Targets(q)
    BY <1>1, <1>3
  <2>2. OneDone(t, q, item) = Deletes(t, item) /\ OneDone(u, q, item) = Deletes(u, item)
    BY <1>3, OneDoneIs
  <2> HIDE DEF item
  <2>3. \A p \in Paths : /\ Deletes(t, item)[p] = IF IsPrefix(item, p) THEN Absent ELSE t[p]
                         /\ Deletes(u, item)[p] = IF IsPrefix(item, p) THEN Absent ELSE u[p]
    BY DEF Deletes
  <2>4. QED
    BY <1>2, <2>1, <2>2, <2>3 DEF item
<1>4. CASE q.op = "rename"
  <2> DEFINE item == q.items[n]
             from == item[1]
             to == item[2]
  <2>1. from \in Targets(q) /\ to \in Targets(q) /\ from \in Paths /\ to \in Paths
    BY <1>1, <1>4
  <2>2. CASE from = to
    <3>1. OneDone(t, q, item) = t /\ OneDone(u, q, item) = u
      BY <1>4, <2>2, OneDoneIs
    <3>2. QED
      BY <1>2, <3>1
  <2>3. CASE from # to
    <3>1. OneDone(t, q, item) = Moved(t, from, to) /\ OneDone(u, q, item) = Moved(u, from, to)
      BY <1>4, <2>3, OneDoneIs
    <3> HIDE DEF item, from, to
    <3>2. ASSUME NEW v, NEW p \in Paths
          PROVE  /\ IsPrefix(to, p) =>
                      Moved(v, from, to)[p] =
                        IF Carried(from, to, p) \in Paths THEN v[Carried(from, to, p)] ELSE Absent
                 /\ ~IsPrefix(to, p) /\ IsPrefix(from, p) => Moved(v, from, to)[p] = Absent
                 /\ ~IsPrefix(to, p) /\ ~IsPrefix(from, p) => Moved(v, from, to)[p] = v[p]
      BY ZenonT(60), <2>1, MovedIs
    <3>3. \A p \in Paths : p \notin Region(q) => Moved(t, from, to)[p] = t[p]
      BY <1>2, <2>1, <3>2
    <3>4. ASSUME \A p \in Region(q) : t[p] = u[p], NEW p \in Region(q)
          PROVE  Moved(t, from, to)[p] = Moved(u, from, to)[p]
      <4>1. p \in Paths
        BY <1>2
      <4>2. CASE IsPrefix(to, p)
        <5>1. from \in Seq(Names) /\ to \in Seq(Names) /\ p \in Seq(Names)
          BY <2>1, <4>1, Distinct
        <5>2. IsPrefix(from, Carried(from, to, p))
          BY <4>2, <5>1, Shift
        <5>3. Carried(from, to, p) \in Paths => Carried(from, to, p) \in Region(q)
          BY <1>2, <2>1, <5>2
        <5>4. QED
          BY <3>2, <3>4, <4>1, <4>2, <5>3
      <4>3. CASE ~IsPrefix(to, p)
        BY <3>2, <3>4, <4>1, <4>3
      <4>4. QED
        BY <4>2, <4>3
    <3>5. QED
      BY <3>1, <3>3, <3>4 DEF item
  <2>4. QED
    BY <2>2, <2>3
<1>5. QED
  BY <1>3, <1>4

LEMMA BatchLocal ==
  ASSUME NEW q \in RequestType, ItemsFit(q), DoneFit(q), q.op \in {"delete", "rename"},
         NEW t, NEW u
  PROVE  /\ \A p \in Paths : p \notin Region(q) => BatchDone(t, q, q.done)[p] = t[p]
         /\ (\A p \in Region(q) : t[p] = u[p]) =>
              \A p \in Region(q) : BatchDone(t, q, q.done)[p] = BatchDone(u, q, q.done)[p]
<1> DEFINE Local(n) ==
             /\ \A p \in Paths : p \notin Region(q) => BatchDone(t, q, n)[p] = t[p]
             /\ (\A p \in Region(q) : t[p] = u[p]) =>
                  \A p \in Region(q) : BatchDone(t, q, n)[p] = BatchDone(u, q, n)[p]
           T == {n \in Nat : n <= q.done => Local(n)}
<1>1. /\ q.done \in Nat /\ q.done <= Len(q.items) /\ Len(q.items) \in Nat
      /\ q.items \in Seq(Given) \/ q.items \in Seq(Given \X Given)
  BY LenProperties DEF RequestType, ItemsFit
<1>2. \A v : /\ BatchDone(v, q, 0) = v
             /\ \A n \in Nat : n < Len(q.items) =>
                  BatchDone(v, q, n + 1) = OneDone(BatchDone(v, q, n), q, q.items[n + 1])
  BY <1>1, BatchOf
<1>3. 0 \in T
  BY <1>2
<1>4. ASSUME NEW n \in Nat, n \in T PROVE n + 1 \in T
  <2> SUFFICES ASSUME n + 1 <= q.done PROVE Local(n + 1)
    OBVIOUS
  <2>1. Local(n)
    BY <1>1, <1>4
  <2>2. n + 1 \in 1 .. Len(q.items) /\ n < Len(q.items) /\ n + 1 \in 1 .. q.done
    BY <1>1
  <2>3. Inside(q, n + 1)
    BY <2>2 DEF DoneFit
  <2> DEFINE a == BatchDone(t, q, n)
             b == BatchDone(u, q, n)
             k == n + 1
  <2>4. /\ BatchDone(t, q, k) = OneDone(a, q, q.items[k])
        /\ BatchDone(u, q, k) = OneDone(b, q, q.items[k])
    BY <1>2, <2>2
  <2>5. k \in 1 .. Len(q.items) /\ Inside(q, k)
    BY <2>2, <2>3
  <2>6. /\ \A p \in Paths : p \notin Region(q) => a[p] = t[p]
        /\ (\A p \in Region(q) : t[p] = u[p]) => \A p \in Region(q) : a[p] = b[p]
    BY <2>1
  <2> HIDE DEF a, b, k
  <2>7. /\ \A p \in Paths : p \notin Region(q) => OneDone(a, q, q.items[k])[p] = a[p]
        /\ (\A p \in Region(q) : a[p] = b[p]) =>
             \A p \in Region(q) : OneDone(a, q, q.items[k])[p] = OneDone(b, q, q.items[k])[p]
    BY <2>5, ItemLocal
  <2>8. Local(k)
    BY <2>4, <2>6, <2>7
  <2>9. QED
    BY <2>8 DEF k
<1> HIDE DEF T
<1>5. Nat \subseteq T
  BY <1>3, <1>4, NatSetInduction
<1>6. QED
  BY <1>1, <1>5 DEF T

-----------------------------------------------------------------------------
(* What a step of one request leaves of the others                         *)

LEMMA ViewIs ==
  ASSUME NEW p \in Paths
  PROVE  View[p] = IF tree[p] \in Inodes THEN data[tree[p]] ELSE tree[p]
  BY DEF View

LEMMA ViewNext ==
  ASSUME NEW p \in Paths
  PROVE  View'[p] = IF tree'[p] \in Inodes THEN data'[tree'[p]] ELSE tree'[p]
  BY DEF View

\* Whoever is overlapped stays so until the answer.
LEMMA ClashGrows ==
  ASSUME clash' = Clashing(req')
  PROVE  /\ ClashFit'
         /\ \A r \in clash : r \in Busy' => r \in clash'
<1> DEFINE busy == {r \in Reqs : req'[r].pc # "idle"}
           met == {r \in busy : r \in clash \/ \E s \in busy \ {r} : Conflict(req'[r], req'[s])}
<1>1. Busy' = busy
  BY DEF Busy
<1>2. clash' = IF \E r \in met : req'[r].op = "write" THEN busy ELSE met
  BY DEF Clashing
<1>3. met \subseteq busy
  OBVIOUS
<1>4. \A r, s \in busy : r \notin met /\ r # s => ~Conflict(req'[r], req'[s])
  OBVIOUS
<1>5. \A r \in clash : r \in busy => r \in met
  OBVIOUS
<1> HIDE DEF busy, met
<1>6. clash' \subseteq busy /\ met \subseteq clash'
  BY <1>2, <1>3
<1>7. \A r \in clash' : req'[r].op = "write" => clash' = busy
  BY <1>2
<1>8. \A r, s \in busy : r \notin clash' /\ r # s => ~Conflict(req'[r], req'[s])
  BY <1>4, <1>6
<1>9. ClashFit'
  BY <1>1, <1>6, <1>7, <1>8 DEF ClashFit, Alone
<1>10. QED
  BY <1>1, <1>5, <1>6, <1>9

\* What the finished items leave depends on the paths of the request only.
LEMMA LeftLocal ==
  ASSUME FilesInv, NEW r \in Busy, NEW u,
         \A p \in Region(req[r]) : u[p] = store[p]
  PROVE  \A p \in Region(req[r]) : BatchDone(u, req[r], req[r].done)[p] = Left(r)[p]
<1>1. /\ req[r] \in RequestType /\ ItemsFit(req[r]) /\ DoneFit(req[r])
  BY BusyIs
<1>2. CASE req[r].op \in {"delete", "rename"}
  BY <1>1, <1>2, BatchLocal DEF Left
<1>3. CASE req[r].op \notin {"delete", "rename"}
  <2>1. req[r].done = 0
    BY <1>1, <1>3 DEF ItemsFit
  <2>2. req[r].items \in Seq(Given) \/ req[r].items \in Seq(Given \X Given)
    BY <1>1 DEF ItemsFit
  <2>3. BatchDone(u, req[r], 0) = u /\ BatchDone(store, req[r], 0) = store
    BY <2>2, BatchOf
  <2>4. QED
    BY <2>1, <2>3 DEF Left
<1>4. QED
  BY <1>2, <1>3

\* Where the item in hand is a path, it and what is below it belong to the
\* request.
LEMMA ItemInside ==
  ASSUME FilesInv, NEW r \in Busy, req[r].op # "rename", Item(r) \in Paths,
         req[r].done < Len(req[r].items) \/ req[r].op # "delete"
  PROVE  /\ Item(r) \in Targets(req[r])
         /\ \A p \in Paths : IsPrefix(Item(r), p) => p \in Region(req[r])
         /\ \A p \in Paths : IsPrefix(p, Item(r)) /\ p # Item(r) => p \in Needs(req[r])
         /\ \A p \in Below[Item(r)] : p \in Region(req[r]) /\ p \in Paths /\ IsPrefix(Item(r), p)
         /\ \A p \in Children[Item(r)] : p \in Region(req[r]) /\ p \in Paths
         /\ Item(r) \in Region(req[r])
<1>1. /\ req[r] \in RequestType /\ ItemsFit(req[r]) /\ Targets(req[r]) \subseteq Paths
  BY BusyIs
<1>2. Item(r) \in Targets(req[r])
  <2>1. CASE req[r].op # "delete"
    BY <2>1, OneTarget, Distinct
  <2>2. CASE req[r].op = "delete"
    <3>1. req[r].done + 1 \in 1 .. Len(req[r].items)
      BY <1>1, <2>2, LenProperties DEF RequestType, ItemsFit
    <3>2. Inside(req[r], req[r].done + 1)
      BY <2>2 DEF Inside, Item
    <3>3. QED
      BY <1>1, <2>2, <3>1, <3>2, TargetsIn DEF Item
  <2>3. QED
    BY <2>1, <2>2
<1>3. /\ \A p \in Paths : IsPrefix(Item(r), p) => p \in Region(req[r])
      /\ \A p \in Paths : IsPrefix(p, Item(r)) /\ p # Item(r) => p \in Needs(req[r])
  BY <1>1, <1>2, RegionIs
<1>4. \A p \in Below[Item(r)] : p \in Paths /\ IsPrefix(Item(r), p)
  BY BelowIs
<1>5. \A p \in Children[Item(r)] : p \in Below[Item(r)]
  BY DEF Children
<1>6. IsPrefix(Item(r), Item(r))
  BY Distinct, PrefixOrder
<1>7. QED
  BY <1>2, <1>3, <1>4, <1>5, <1>6

\* A request stays fit while its paths, and what it knows of the store, stay.
LEMMA OthersFit ==
  ASSUME FilesInv, NEW s \in Busy, EndFit(s), OwnFit(s), req'[s] = req[s],
         \A p \in Region(req[s]) :
           tree'[p] = tree[p] /\ (tree[p] \in Inodes => data'[tree[p]] = data[tree[p]]),
         \A p \in Needs(req[s]) :
           tree'[p] = tree[p] \/ (tree[p] = Absent /\ tree'[p] = Dir),
         Changes(req[s]) => \A p \in Region(req[s]) : store'[p] = store[p],
         req[s].op = "create" /\ registered = FALSE => registered' = FALSE
  PROVE  OwnFit(s)'
<1>1. /\ req[s] \in RequestType /\ ItemsFit(req[s]) /\ StepsFit(req[s]) /\ ChecksFit(req[s])
      /\ Targets(req[s]) \subseteq Paths
  BY BusyIs
<1>2. \A p \in Region(req[s]) : p \in Paths
  BY <1>1, RegionIs
<1>3. \A p \in Region(req[s]) : View'[p] = View[p]
  BY <1>2, ViewIs, ViewNext
<1>4. ASSUME req[s].op # "rename", Item(s) \in Paths,
             req[s].done < Len(req[s].items) \/ req[s].op # "delete"
      PROVE  /\ tree'[Item(s)] = tree[Item(s)]
             /\ tree[Item(s)] \in Inodes => data'[tree[Item(s)]] = data[tree[Item(s)]]
             /\ \A p \in Below[Item(s)] : tree'[p] = tree[p]
             /\ \A p \in Children[Item(s)] : tree'[p] = tree[p]
  BY <1>4, ItemInside
<1>5. /\ req[s].pc \in {"write", "copy", "removing", "info"} =>
           /\ req[s].op # "rename" /\ Item(s) \in Paths
           /\ req[s].done < Len(req[s].items) \/ req[s].op # "delete"
      /\ req[s].pc = "ok" /\ req[s].op \notin {"delete", "rename", "download"} =>
           Item(s) \in Paths
  BY <1>1 DEF EndFit, ItemsFit, StepsFit, ChecksFit, Item
<1>6. Item(s)' = Item(s)
  BY DEF Item
<1>7. OwnPaths(s)'
  <2> SUFFICES ASSUME Changes(req[s]), NEW p \in Region(req[s]), Left(s)'[p] # Unknown
               PROVE  View'[p] = Left(s)'[p] \/ InHand(s, p)'
    BY DEF OwnPaths
  <2>1. Left(s)' = BatchDone(store', req[s], req[s].done)
    BY DEF Left
  <2>2. Left(s)'[p] = Left(s)[p]
    BY <2>1, LeftLocal
  <2>3. View[p] = Left(s)[p] \/ InHand(s, p)
    BY <2>2 DEF OwnFit, OwnPaths
  <2>4. InHand(s, p) => InHand(s, p)'
    BY <1>6 DEF InHand
  <2>5. QED
    BY <1>3, <2>2, <2>3, <2>4
<1>8. MakingFit(s)'
  <2> SUFFICES ASSUME \/ req[s].pc \in {"make", "add", "open_write", "write"}
                      \/ req[s].pc = "ok" /\ Maker(req[s]),
                      NEW p \in MadePaths(req[s])
               PROVE  /\ tree'[p] \notin Inodes
                      /\ (req[s].pc = "make" => Len(p) < req[s].made) => tree'[p] = Dir
    BY DEF MakingFit
  <2>1. /\ tree[p] \notin Inodes
        /\ (req[s].pc = "make" => Len(p) < req[s].made) => tree[p] = Dir
    BY DEF OwnFit, MakingFit
  <2>2. p \in Needs(req[s]) \/ p \in Region(req[s])
    BY <1>1, MadeIs
  <2>3. tree'[p] = tree[p] \/ (tree[p] = Absent /\ tree'[p] = Dir)
    BY <2>2
  <2>4. QED
    BY <2>1, <2>3, Distinct
<1>9. WritingFit(s)'
  <2>1. CASE req[s].pc = "write"
    BY <1>1, <1>4, <1>5, <1>6, <2>1 DEF OwnFit, WritingFit, ChecksFit, Item
  <2>2. CASE req[s].pc = "ok" /\ req[s].op = "write"
    BY <1>4, <1>5, <1>6, <2>2 DEF OwnFit, WritingFit
  <2>3. CASE req[s].pc # "write" /\ ~(req[s].pc = "ok" /\ req[s].op = "write")
    BY <2>3 DEF WritingFit
  <2>4. QED
    BY <2>1, <2>2, <2>3
<1>10. RemovingFit(s)'
  <2>1. CASE req[s].op = "drop"
    <3>1. Item(s) = <<>> /\ <<>> \in Paths
      BY <2>1, BusyIs, OneTarget, Distinct DEF ItemsFit
    <3>2. \A p \in Paths : IsPrefix(Item(s), p)
      BY <3>1, Distinct, PrefixOrder
    <3>3. \A p \in Paths : tree'[p] = tree[p]
      BY <2>1, <3>1, <3>2, ItemInside
    <3>4. \A p \in Below[Item(s)] : p \in Paths
      BY <3>1, BelowIs
    <3>5. QED
      BY <1>6, <3>3, <3>4 DEF OwnFit, RemovingFit
  <2>2. CASE req[s].op # "drop"
    BY <1>4, <1>5, <1>6, <2>2 DEF OwnFit, RemovingFit
  <2>3. QED
    BY <2>1, <2>2
<1>11. ReadingFit(s)'
  <2>1. CASE req[s].pc = "copy"
    BY SMTT(40), <1>1, <1>4, <1>5, <1>6, <2>1 DEF OwnFit, ReadingFit, ChecksFit, Item
  <2>2. CASE req[s].pc = "ok" /\ req[s].op = "read"
    BY <1>4, <1>5, <1>6, <2>2 DEF OwnFit, ReadingFit
  <2>3. CASE req[s].pc = "ok" /\ req[s].op = "download"
    <3>1. SentFit(s)
      BY <2>3 DEF OwnFit, ReadingFit
    <3>2. CASE Item(s) = Outside
      BY <1>6, <2>3, <3>1, <3>2 DEF SentFit, ReadingFit
    <3>3. CASE Item(s) # Outside
      <4>1. Item(s) \in Paths
        BY <2>3, <3>3, OneTarget
      <4>2. /\ tree'[Item(s)] = tree[Item(s)]
            /\ tree[Item(s)] \in Inodes => data'[tree[Item(s)]] = data[tree[Item(s)]]
        BY <1>4, <2>3, <4>1
      <4>3. SentFit(s)'
        BY <1>6, <3>1, <4>2 DEF SentFit
      <4>4. QED
        BY <2>3, <4>3 DEF ReadingFit
    <3>4. QED
      BY <3>2, <3>3
  <2>4. CASE req[s].pc # "copy" /\ ~(req[s].pc = "ok" /\ req[s].op \in {"read", "download"})
    BY <2>4 DEF OwnFit, ReadingFit
  <2>5. QED
    BY <2>1, <2>2, <2>3, <2>4
<1>12. ListingFit(s)'
  <2>1. CASE req[s].pc = "info"
    BY <1>4, <1>5, <1>6, <2>1 DEF OwnFit, ListingFit
  <2>2. CASE req[s].pc = "ok" /\ req[s].op = "list"
    BY <1>4, <1>5, <1>6, <2>2 DEF OwnFit, ListingFit
  <2>3. CASE req[s].pc # "info" /\ ~(req[s].pc = "ok" /\ req[s].op = "list")
    BY <2>3 DEF OwnFit, ListingFit
  <2>4. QED
    BY <2>1, <2>2, <2>3
<1>13. CreatingFit(s)'
  BY DEF OwnFit, CreatingFit
<1>14. QED
  BY <1>7, <1>8, <1>9, <1>10, <1>11, <1>12, <1>13 DEF OwnFit

\* A step of a request that is not its answer: it changes no path and no file
\* of others, but for the directories it makes above its own paths.
Within(r) ==
  /\ r \in Busy
  /\ \A s \in Reqs : s # r => req'[s] = req[s]
  /\ req'[r].pc # "idle" /\ req'[r].op = req[r].op /\ req'[r].items = req[r].items
  /\ req[r].hit => req'[r].hit
  /\ registered' = registered \/ registered' = FALSE \/ req[r].op = "create"
  /\ Reads(req[r]) => tree' = tree /\ data' = data /\ registered' = registered
  /\ \A p \in Paths : p \notin Region(req[r]) =>
       \/ tree'[p] = tree[p]
       \/ Maker(req[r]) /\ p \in MadePaths(req[r]) /\ tree[p] = Absent /\ tree'[p] = Dir
  /\ \A i \in Inodes :
       \/ data'[i] = data[i]
       \/ r \in clash /\ req[r].op = "write"
       \/ \A p \in Paths : tree[p] = i => p \in Region(req[r])

LEMMA WithinHistory ==
  ASSUME FilesInv, NEW r \in Reqs, Within(r), History
  PROVE  /\ Busy' = Busy /\ store' = store /\ clash' = Clashing(req')
         /\ \A s \in Busy : /\ req'[s].op = req[s].op
                            /\ Region(req'[s]) = Region(req[s])
                            /\ Needs(req'[s]) = Needs(req[s])
                            /\ MadePaths(req'[s]) = MadePaths(req[s])
<1>1. Busy' = Busy
  BY DEF Busy, Within
<1>2. store' = store /\ clash' = Clashing(req')
  BY <1>1 DEF History
<1>3. ASSUME NEW s \in Busy
      PROVE  /\ req'[s].op = req[s].op
             /\ Region(req'[s]) = Region(req[s])
             /\ Needs(req'[s]) = Needs(req[s])
             /\ MadePaths(req'[s]) = MadePaths(req[s])
  <2>1. s \in Reqs
    BY DEF Busy
  <2>2. req'[s].op = req[s].op /\ req'[s].items = req[s].items
    BY <2>1 DEF Within
  <2>3. Targets(req'[s]) = Targets(req[s])
    BY <2>2 DEF Targets
  <2>4. Region(req'[s]) = Region(req[s]) /\ Needs(req'[s]) = Needs(req[s])
    BY <2>3 DEF Region, Needs
  <2>5. MadePaths(req'[s]) = MadePaths(req[s])
    BY <2>2, <2>3, <2>4 DEF MadePaths
  <2>6. QED
    BY <2>2, <2>4, <2>5
<1>4. QED
  BY <1>1, <1>2, <1>3

\* The data directory itself is the path of a creation.
LEMMA CreatesAll ==
  ASSUME FilesInv, NEW r \in Busy, req[r].op \in {"create", "drop"}
  PROVE  /\ Item(r) = <<>> /\ <<>> \in Paths /\ \A p \in Paths : p \in Region(req[r])
         /\ \A p \in Paths : IsPrefix(Item(r), p)
<1>1. Item(r) = <<>> /\ <<>> \in Paths
  BY BusyIs, OneTarget, Distinct DEF ItemsFit
<1>2. \A p \in Paths : IsPrefix(Item(r), p)
  BY <1>1, Distinct, PrefixOrder
<1>3. QED
  BY <1>1, <1>2, ItemInside

LEMMA OthersStay ==
  ASSUME FilesInv, ClashFit, NEW r \in Reqs, Within(r), History,
         NEW s \in Reqs, s # r, EndFit(s), AloneFit(s)
  PROVE  AloneFit(s)'
<1> SUFFICES ASSUME Alone(s)', Accounted(req'[s]) PROVE OwnFit(s)'
  BY DEF AloneFit, Accounted
<1>1. /\ Busy' = Busy /\ store' = store /\ clash' = Clashing(req')
      /\ req'[s] = req[s] /\ r \in Busy
  BY WithinHistory DEF Within
<1>2. s \in Busy /\ s \notin clash
  BY <1>1, ClashGrows DEF Alone
<1>3. OwnFit(s)
  BY <1>1, <1>2 DEF AloneFit, Accounted, Alone
<1>4. CASE Reads(req[s]) /\ Reads(req[r])
  <2>1. tree' = tree /\ data' = data /\ registered' = registered
    BY <1>4 DEF Within
  <2>2. QED
    BY <1>1, <1>2, <1>3, <2>1, OthersFit
<1>5. CASE Changes(req[s]) \/ Changes(req[r])
  <2>1. /\ \A p \in Region(req[s]) : p \notin Region(req[r]) /\ p \notin Needs(req[r])
        /\ \A p \in Needs(req[s]) : p \notin Region(req[r])
    BY <1>1, <1>2, <1>5, Apart
  <2>2. /\ \A p \in MadePaths(req[r]) : p \in Needs(req[r]) \/ p \in Region(req[r])
        /\ \A p \in Region(req[s]) : p \in Paths
        /\ \A p \in Needs(req[s]) : p \in Paths
    BY <1>1, <1>2, BusyIs, MadeIs, RegionIs
  <2>3. \A p \in Region(req[s]) : tree'[p] = tree[p]
    BY <2>1, <2>2 DEF Within
  <2>4. ~(r \in clash /\ req[r].op = "write")
    BY <1>2 DEF ClashFit
  <2>5. ASSUME NEW p \in Region(req[s]), tree[p] \in Inodes
        PROVE  data'[tree[p]] = data[tree[p]]
    BY <2>1, <2>2, <2>4, <2>5 DEF Within
  <2>6. \A p \in Needs(req[s]) : tree'[p] = tree[p] \/ (tree[p] = Absent /\ tree'[p] = Dir)
    BY <2>1, <2>2 DEF Within
  <2>7. ASSUME req[s].op = "create", registered = FALSE PROVE registered' = FALSE
    <3>1. req[r].op # "create"
      BY <1>1, <1>2, <2>1, <2>7, CreatesAll
    <3>2. QED
      BY <2>7, <3>1 DEF Within
  <2>8. \A p \in Region(req[s]) : store'[p] = store[p]
    BY <1>1
  <2>9. QED
    BY <1>1, <1>2, <1>3, <2>3, <2>5, <2>6, <2>7, <2>8, OthersFit
<1>6. QED
  BY <1>1, <1>2, <1>4, <1>5, BusyIs

\* The directories of another request stay with it.
LEMMA OthersMake ==
  ASSUME FilesInv, ClashFit, NEW r \in Reqs, Within(r), History,
         NEW s \in Reqs, s # r, NEW p \in Paths, p \notin Region(req[r]), Making(s, p)
  PROVE  Making(s, p)'
<1>1. /\ Busy' = Busy /\ clash' = Clashing(req') /\ r \in Busy
      /\ req'[s] = req[s] /\ s \in Busy
  BY WithinHistory DEF Within, Making
<1>2. Maker(req'[s]) /\ p \in MadePaths(req'[s])
  BY <1>1 DEF Making
<1>3. tree'[p] = Dir
  BY Distinct DEF Within, Making
<1>4. CASE s \in clash
  BY <1>1, <1>2, <1>3, <1>4, ClashGrows DEF Making
<1>5. CASE s \notin clash /\ req[s].op = "write"
  <2>1. Changes(req[s]) /\ Item(s) \in Paths
    <3>1. p \in Needs(req[s])
      BY <1>5 DEF Making, MadePaths
    <3>2. \E u \in Targets(req[s]) : TRUE
      BY <1>1, <3>1, BusyIs, RegionIs
    <3>3. QED
      BY <1>1, <1>5, <3>2, OneTarget, BusyIs DEF Changes
  <2>2. Item(s) \in Region(req[s])
    BY <1>1, <1>5, <2>1, ItemInside
  <2>3. Item(s) \notin Region(req[r]) /\ Item(s) \notin MadePaths(req[r])
    <3>1. Item(s) \notin Region(req[r]) /\ Item(s) \notin Needs(req[r])
      BY <1>1, <1>5, <2>1, <2>2, Apart
    <3>2. QED
      BY <1>1, <3>1, BusyIs, MadeIs
  <2>4. tree'[Item(s)] = tree[Item(s)]
    BY <2>1, <2>3 DEF Within
  <2>5. Item(s)' = Item(s)
    BY <1>1 DEF Item
  <2>6. MakesOn(s)'
    BY <1>1, <1>5, <2>4, <2>5 DEF Making, MakesOn
  <2>7. QED
    BY <1>1, <1>2, <1>3, <2>6 DEF Making
<1>6. CASE s \notin clash /\ req[s].op # "write"
  <2>1. MakesOn(s)'
    BY <1>1, <1>6 DEF Making, MakesOn
  <2>2. QED
    BY <1>1, <1>2, <1>3, <2>1 DEF Making
<1>7. QED
  BY <1>4, <1>5, <1>6

\* Nor does it lose its own.
MakesOnwards(r) ==
  r \notin clash /\ Maker(req[r])
    /\ (MakesOn(r) \/ \E p \in Paths : p \notin Region(req[r]) /\ tree'[p] # tree[p])
  => MakesOn(r)'

LEMMA ElsewhereStays ==
  ASSUME FilesInv, ClashFit, Elsewhere, NEW r \in Reqs, Within(r), History,
         MakesOnwards(r)
  PROVE  Elsewhere'
<1> SUFFICES ASSUME NEW p \in Paths, store'[p] # Unknown,
                    \A s \in Busy' : Changes(req'[s]) => p \notin Owned(s)'
             PROVE  View'[p] = store'[p] \/ \E s \in Reqs : Making(s, p)'
  BY DEF Elsewhere
<1>1. /\ Busy' = Busy /\ store' = store /\ clash' = Clashing(req') /\ r \in Busy
      /\ \A s \in Busy : /\ req'[s].op = req[s].op
                         /\ Region(req'[s]) = Region(req[s])
                         /\ Needs(req'[s]) = Needs(req[s])
                         /\ MadePaths(req'[s]) = MadePaths(req[s])
  BY WithinHistory DEF Within
<1>2. \A s \in clash : s \in Busy => s \in clash'
  BY <1>1, ClashGrows
<1>3. \A s \in Busy : Changes(req[s]) => p \notin Owned(s)
  <2> SUFFICES ASSUME NEW s \in Busy, Changes(req[s]) PROVE p \notin Owned(s)
    OBVIOUS
  <2>1. p \notin Owned(s)'
    BY <1>1 DEF Changes
  <2>2. CASE s \in clash /\ req[s].op = "write"
    BY <1>1, <1>2, <2>1, <2>2 DEF Owned
  <2>3. CASE ~(s \in clash /\ req[s].op = "write")
    <3>1. Owned(s) = Region(req[s])
      BY <2>3 DEF Owned
    <3>2. p \notin Region(req'[s])
      BY <2>1 DEF Owned
    <3>3. QED
      BY <1>1, <3>1, <3>2
  <2>4. QED
    BY <2>2, <2>3
<1>4. View[p] = store[p] \/ \E s \in Reqs : Making(s, p)
  BY <1>1, <1>3 DEF Elsewhere
<1>5. CASE Reads(req[r])
  <2>1. tree' = tree /\ data' = data
    BY <1>5 DEF Within
  <2>2. View'[p] = View[p]
    BY <2>1, ViewIs, ViewNext
  <2>3. ASSUME NEW s \in Reqs, Making(s, p) PROVE Making(s, p)'
    <3>1. s # r /\ s \in Busy /\ req'[s] = req[s]
      BY <1>1, <1>5, <2>3, BusyIs DEF Making, Within
    <3>2. Item(s)' = Item(s)
      BY <3>1 DEF Item
    <3>3. MakesOn(s)' <=> MakesOn(s)
      BY <2>1, <3>1, <3>2 DEF MakesOn
    <3>4. QED
      BY <1>1, <1>2, <2>1, <2>3, <3>1, <3>3 DEF Making
  <2>4. QED
    BY <1>1, <1>4, <2>2, <2>3
<1>6. CASE Changes(req[r])
  <2>1. p \notin Region(req[r]) /\ ~(r \in clash /\ req[r].op = "write")
    BY <1>1, <1>3, <1>6 DEF Owned
  <2>2. CASE tree'[p] = tree[p]
    <3>1. View'[p] = View[p]
      <4>1. tree[p] \in Inodes => data'[tree[p]] = data[tree[p]]
        BY <2>1 DEF Within
      <4>2. QED
        BY <2>2, <4>1, ViewIs, ViewNext
    <3>2. ASSUME NEW s \in Reqs, Making(s, p) PROVE Making(s, p)'
      <4>1. CASE s # r
        BY <2>1, <3>2, <4>1, OthersMake
      <4>2. CASE s = r
        <5>1. /\ r \in Busy /\ Maker(req[r]) /\ p \in MadePaths(req[r]) /\ tree[p] = Dir
              /\ r \in clash \/ MakesOn(r)
          BY <3>2, <4>2 DEF Making
        <5>2. r \in clash' \/ MakesOn(r)'
          BY <1>1, <1>2, <5>1 DEF MakesOnwards
        <5>3. Maker(req'[r]) /\ p \in MadePaths(req'[r]) /\ tree'[p] = Dir
          BY <1>1, <2>2, <5>1 DEF Maker
        <5>4. QED
          BY <1>1, <4>2, <5>2, <5>3 DEF Making
      <4>3. QED
        BY <4>1, <4>2
    <3>3. QED
      BY <1>1, <1>4, <3>1, <3>2
  <2>3. CASE tree'[p] # tree[p]
    <3>1. Maker(req[r]) /\ p \in MadePaths(req[r]) /\ tree'[p] = Dir
      BY <2>1, <2>3 DEF Within
    <3>2. r \in clash' \/ MakesOn(r)'
      BY <1>1, <1>2, <2>1, <2>3, <3>1 DEF MakesOnwards
    <3>3. Maker(req'[r]) /\ p \in MadePaths(req'[r])
      BY <1>1, <3>1 DEF Maker
    <3>4. QED
      BY <1>1, <3>1, <3>2, <3>3 DEF Making
  <2>4. QED
    BY <2>2, <2>3
<1>7. QED
  BY <1>1, <1>5, <1>6, BusyIs

-----------------------------------------------------------------------------
(* What a step leaves of its own request                                   *)

\* A step keeps what is known of its request, whether others overlap it or not.
Moves(r) ==
  /\ Within(r) /\ MakesOnwards(r) /\ EndFit(r)'
  /\ Alone(r) /\ Accounted(req'[r]) => OwnFit(r)'

LEMMA BatchSame ==
  ASSUME NEW q, NEW w, q.items \in Seq(Given) \/ q.items \in Seq(Given \X Given),
         q.op \in {"delete", "rename"}, w.op = q.op, w.items = q.items, NEW t,
         NEW m \in Nat, m <= Len(q.items)
  PROVE  BatchDone(t, w, m) = BatchDone(t, q, m)
<1> DEFINE T == {n \in Nat : n <= Len(q.items) => BatchDone(t, w, n) = BatchDone(t, q, n)}
<1>0. Len(q.items) \in Nat
  BY LenProperties
<1>1. /\ BatchDone(t, q, 0) = t
      /\ \A n \in Nat : n < Len(q.items) =>
           BatchDone(t, q, n + 1) = OneDone(BatchDone(t, q, n), q, q.items[n + 1])
  BY BatchOf
<1>2. /\ BatchDone(t, w, 0) = t
      /\ \A n \in Nat : n < Len(q.items) =>
           BatchDone(t, w, n + 1) = OneDone(BatchDone(t, w, n), w, q.items[n + 1])
  <2>1. w.items \in Seq(Given) \/ w.items \in Seq(Given \X Given)
    OBVIOUS
  <2>2. /\ BatchDone(t, w, 0) = t
        /\ \A n \in Nat : n < Len(w.items) =>
             BatchDone(t, w, n + 1) = OneDone(BatchDone(t, w, n), w, w.items[n + 1])
    BY <2>1, BatchOf
  <2>3. QED
    BY <2>2
<1>3. 0 \in T
  BY <1>1, <1>2
<1>4. ASSUME NEW n \in Nat, n \in T PROVE n + 1 \in T
  <2> SUFFICES ASSUME n + 1 <= Len(q.items)
               PROVE  BatchDone(t, w, n + 1) = BatchDone(t, q, n + 1)
    OBVIOUS
  <2>1. n < Len(q.items) /\ n <= Len(q.items)
    BY <1>0
  <2>2. BatchDone(t, w, n) = BatchDone(t, q, n)
    BY <1>4, <2>1
  <2>3. \A u, item : OneDone(u, w, item) = OneDone(u, q, item)
    BY DEF OneDone
  <2>4. QED
    BY <1>1, <1>2, <2>1, <2>2, <2>3
<1> HIDE DEF T
<1>5. Nat \subseteq T
  BY <1>3, <1>4, NatSetInduction
<1>6. QED
  BY <1>5 DEF T

LEMMA LeftStays ==
  ASSUME FilesInv, NEW r \in Busy, store' = store,
         req'[r].op = req[r].op, req'[r].items = req[r].items, req'[r].done = req[r].done
  PROVE  Left(r)' = Left(r)
<1>1. /\ req[r] \in RequestType /\ ItemsFit(req[r])
      /\ req[r].items \in Seq(Given) \/ req[r].items \in Seq(Given \X Given)
  BY BusyIs DEF ItemsFit
<1>2. Left(r)' = BatchDone(store, req'[r], req[r].done)
  BY DEF Left
<1>3. CASE req[r].op \in {"delete", "rename"}
  <2>1. req[r].done \in Nat /\ req[r].done <= Len(req[r].items)
    BY <1>1 DEF ItemsFit, RequestType
  <2>2. QED
    BY <1>1, <1>2, <1>3, <2>1, BatchSame DEF Left
<1>4. CASE req[r].op \notin {"delete", "rename"}
  <2>1. req[r].done = 0
    BY <1>1, <1>4 DEF ItemsFit
  <2>2. BatchDone(store, req'[r], 0) = store /\ BatchDone(store, req[r], 0) = store
    BY <1>1, BatchOf
  <2>3. QED
    BY <1>2, <2>1, <2>2 DEF Left
<1>5. QED
  BY <1>3, <1>4

LEMMA OwnPathsKept ==
  ASSUME FilesInv, NEW r \in Busy, OwnPaths(r), store' = store,
         req'[r].op = req[r].op, req'[r].items = req[r].items, req'[r].done = req[r].done,
         \A p \in Region(req[r]) :
           InHand(r, p)' \/ (View'[p] = View[p] /\ ~InHand(r, p))
  PROVE  OwnPaths(r)'
<1>1. Left(r)' = Left(r)
  BY LeftStays
<1>2. Targets(req'[r]) = Targets(req[r])
  BY DEF Targets
<1>3. Region(req'[r]) = Region(req[r])
  BY <1>2 DEF Region
<1>4. Changes(req'[r]) => Changes(req[r])
  BY DEF Changes
<1>5. QED
  BY <1>1, <1>3, <1>4 DEF OwnPaths

\* A step that changes nothing but its request.
LEMMA WithinQuiet ==
  ASSUME NEW r \in Busy, tree' = tree, data' = data,
         registered' = registered \/ registered' = FALSE \/ req[r].op = "create",
         Reads(req[r]) => registered' = registered,
         \A s \in Reqs : s # r => req'[s] = req[s],
         req'[r].pc # "idle", req'[r].op = req[r].op, req'[r].items = req[r].items,
         req[r].hit => req'[r].hit
  PROVE  Within(r)
  BY DEF Within

LEMMA GotoIs ==
  ASSUME FilesInv, NEW r \in Busy, NEW pc, Goto(r, pc)
  PROVE  /\ \A s \in Reqs : s # r => req'[s] = req[s]
         /\ req'[r].pc = pc /\ req'[r].op = req[r].op /\ req'[r].items = req[r].items
         /\ req'[r].done = req[r].done /\ req'[r].made = req[r].made
         /\ req'[r].ino = req[r].ino /\ req'[r].buf = req[r].buf
         /\ req'[r].seen = req[r].seen /\ req'[r].found = req[r].found
         /\ req'[r].hit = req[r].hit /\ Item(r)' = Item(r)
<1>1. r \in Reqs /\ req[r] \in RequestType /\ DOMAIN req = Reqs
  BY BusyIs
<1>2. req'[r] = [req[r] EXCEPT !.pc = pc] /\ \A s \in Reqs : s # r => req'[s] = req[s]
  BY <1>1 DEF Goto
<1>3. /\ req'[r].pc = pc /\ req'[r].op = req[r].op /\ req'[r].items = req[r].items
      /\ req'[r].done = req[r].done /\ req'[r].made = req[r].made
      /\ req'[r].ino = req[r].ino /\ req'[r].buf = req[r].buf
      /\ req'[r].seen = req[r].seen /\ req'[r].found = req[r].found
      /\ req'[r].hit = req[r].hit
  BY <1>1, <1>2 DEF RequestType
<1>4. Item(r)' = Item(r)
  BY <1>3 DEF Item
<1>5. QED
  BY <1>2, <1>3, <1>4

\* A request that gives up has changed nothing since its last item.
LEMMA Failing ==
  ASSUME FilesInv, NEW r \in Busy, EndFit(r), AloneFit(r), store' = store,
         req[r].pc \in {"mkdir", "remove", "open", "list", "rename", "open_write"},
         req[r].op # "drop", Goto(r, "failed"), UNCHANGED <<registered, tree, data>>,
         r \notin clash /\ Maker(req[r]) => ~MakesOn(r)
  PROVE  Moves(r)
<1>1. /\ \A s \in Reqs : s # r => req'[s] = req[s]
      /\ req'[r].pc = "failed" /\ req'[r].op = req[r].op /\ req'[r].items = req[r].items
      /\ req'[r].done = req[r].done /\ req'[r].hit = req[r].hit
  BY GotoIs
<1>2. req[r].hit = FALSE
  BY BusyIs DEF EndFit, RequestType
<1>3. Within(r)
  BY <1>1, WithinQuiet
<1>4. MakesOnwards(r)
  BY DEF MakesOnwards
<1>5. EndFit(r)'
  BY <1>1 DEF EndFit
<1>6. ASSUME Alone(r) PROVE OwnFit(r)'
  <2>1. OwnFit(r)
    BY <1>2, <1>6 DEF AloneFit, Accounted
  <2>2. \A p : ~InHand(r, p)
    BY DEF InHand
  <2>3. View' = View
    BY DEF View
  <2>4. OwnPaths(r)'
    BY <1>1, <2>1, <2>2, <2>3, OwnPathsKept DEF OwnFit
  <2>5. MakingFit(r)'
    BY <1>1 DEF MakingFit
  <2>6. WritingFit(r)'
    BY <1>1 DEF WritingFit
  <2>7. RemovingFit(r)'
    BY <1>1 DEF RemovingFit
  <2>8. ReadingFit(r)' /\ ListingFit(r)'
    BY <1>1 DEF ReadingFit, ListingFit
  <2>9. CreatingFit(r)'
    BY <1>1 DEF CreatingFit
  <2>10. QED
    BY <2>4, <2>5, <2>6, <2>7, <2>8, <2>9 DEF OwnFit
<1>7. QED
  BY <1>3, <1>4, <1>5, <1>6 DEF Moves, Accounted

\* A step of a request that only reads.
LEMMA ReadingStep ==
  ASSUME FilesInv, FilesInv', NEW r \in Busy, Reads(req[r]),
         UNCHANGED <<registered, tree, data>>,
         \A s \in Reqs : s # r => req'[s] = req[s],
         req'[r].pc # "idle", req'[r].op = req[r].op, req'[r].items = req[r].items,
         req[r].hit => req'[r].hit, EndFit(r)',
         Alone(r) => ReadingFit(r)' /\ ListingFit(r)'
  PROVE  Moves(r)
<1>1. Within(r)
  BY WithinQuiet
<1>2. /\ req[r].op \in {"list", "read", "download"} /\ r \in Reqs
      /\ ~Changes(req[r]) /\ ~Maker(req[r])
  BY DEF Reads, Changes, Maker, Busy
<1>3. MakesOnwards(r)
  BY <1>2 DEF MakesOnwards
<1>4. StepsFit(req'[r])
  <2>1. Sound(req'[r])
    BY <1>2 DEF FilesInv
  <2>2. QED
    BY <2>1 DEF Sound
<1>5. OwnPaths(r)'
  BY <1>2 DEF OwnPaths, Changes
<1>6. MakingFit(r)' /\ WritingFit(r)'
  BY <1>2, <1>4 DEF MakingFit, WritingFit, Maker, StepsFit
<1>7. RemovingFit(r)' /\ CreatingFit(r)'
  BY <1>2, <1>4 DEF RemovingFit, CreatingFit, StepsFit
<1>8. QED
  BY <1>1, <1>3, <1>5, <1>6, <1>7 DEF Moves, Accounted, OwnFit

\* A download that ends before it has sent anything of a file.
LEMMA NothingSent ==
  ASSUME FilesInv, FilesInv', NEW r \in Busy, AloneFit(r), UNCHANGED <<registered, tree, data>>,
         req[r].pc = "open", req[r].op = "download", req[r].hit = FALSE, Goto(r, "ok"),
         Item(r) = Outside \/ tree[Item(r)] \notin Inodes
  PROVE  Moves(r)
<1>1. Reads(req[r])
  BY DEF Reads
<1>2. /\ \A s \in Reqs : s # r => req'[s] = req[s]
      /\ req'[r].pc = "ok" /\ req'[r].op = "download" /\ req'[r].items = req[r].items
      /\ req'[r].hit = FALSE /\ req'[r].buf = req[r].buf /\ Item(r)' = Item(r)
  BY GotoIs
<1>3. EndFit(r)'
  BY <1>2 DEF EndFit
<1>4. ASSUME Alone(r) PROVE ReadingFit(r)' /\ ListingFit(r)'
  <2>1. req[r].buf = <<>>
    BY <1>4 DEF AloneFit, Accounted, OwnFit, ReadingFit
  <2>2. SentFit(r)'
    BY <1>2, <2>1 DEF SentFit
  <2>3. ReadingFit(r)'
    BY <1>2, <2>2 DEF ReadingFit
  <2>4. ListingFit(r)'
    BY <1>2 DEF ListingFit
  <2>5. QED
    BY <2>3, <2>4
<1>5. QED
  BY <1>1, <1>2, <1>3, <1>4, ReadingStep

\* SafePath does not refuse the data directory of a server to be deleted.
LEMMA RefusedMoves ==
  ASSUME FilesInv, FilesInv', NEW r \in Reqs, EndFit(r), AloneFit(r), store' = store,
         Refused(r)
  PROVE  Moves(r)
<1>1. /\ req[r].pc \in {"mkdir", "remove", "open", "list", "rename"}
      /\ Goto(r, OnError(r))
      /\ UNCHANGED <<registered, tree, data>> /\ r \in Busy
      /\ req[r].pc # "rename" => Item(r) = Outside
  BY DEF Refused, Escapes, Busy
<1>2. req[r].op # "drop"
  <2> SUFFICES ASSUME req[r].op = "drop" PROVE FALSE
    OBVIOUS
  <2>1. Item(r) = <<>> /\ <<>> \in Paths
    BY <1>1, CreatesAll
  <2>2. req[r].pc # "rename"
    BY <1>1, BusyIs DEF StepsFit
  <2>3. QED
    BY <1>1, <2>1, <2>2, Distinct
<1>3. ~MakesOn(r)
  BY <1>1, <1>2 DEF MakesOn, EndFit
<1>4. CASE req[r].op = "download"
  <2>1. req[r].pc = "open" /\ req[r].hit = FALSE
    BY <1>1, <1>4, BusyIs DEF StepsFit, EndFit, RequestType
  <2>2. Goto(r, "ok")
    BY <1>1, <1>4 DEF OnError
  <2>3. QED
    BY <1>1, <1>4, <2>1, <2>2, NothingSent
<1>5. CASE req[r].op # "download"
  <2>1. Goto(r, "failed")
    BY <1>1, <1>2, <1>5 DEF OnError
  <2>2. QED
    BY <1>1, <1>2, <1>3, <2>1, Failing
<1>6. QED
  BY <1>4, <1>5

LEMMA CallFailsMoves ==
  ASSUME FilesInv, FilesInv', NEW r \in Reqs, EndFit(r), AloneFit(r), store' = store,
         CallFails(r)
  PROVE  Moves(r)
<1> DEFINE pc == OnError(r)
<1>1. /\ req[r].pc \in {"make", "open_write", "removing", "rename", "open", "copy", "list"}
      /\ UNCHANGED <<registered, tree, data>> /\ r \in Busy
      /\ req' = [req EXCEPT ![r].hit = TRUE, ![r].pc = pc]
  BY DEF CallFails, Busy
<1>2. req[r] \in RequestType /\ DOMAIN req = Reqs /\ req[r].hit = FALSE
  BY <1>1, BusyIs DEF EndFit, RequestType
<1>3. /\ pc \in {"entry", "failed", "ok"}
      /\ pc = "entry" => req[r].op = "drop"
      /\ pc = "ok" => req[r].op = "download"
  BY OnErrorIs
<1> HIDE DEF pc
<1>4. /\ \A s \in Reqs : s # r => req'[s] = req[s]
      /\ req'[r] = [req[r] EXCEPT !.hit = TRUE, !.pc = pc]
  BY <1>1, <1>2
<1>5. /\ req'[r].pc = pc /\ req'[r].hit = TRUE /\ req'[r].buf = req[r].buf
      /\ req'[r].op = req[r].op /\ req'[r].items = req[r].items
      /\ req'[r].done = req[r].done
  BY <1>2, <1>4 DEF RequestType
<1>6. EndFit(r)'
  BY <1>3, <1>5 DEF EndFit
<1>7. CASE ~Reads(req[r])
  <2>1. Within(r)
    BY <1>1, <1>3, <1>4, <1>5, <1>7, WithinQuiet
  <2>2. MakesOnwards(r)
    BY <1>5 DEF MakesOnwards, MakesOn
  <2>3. ~Accounted(req'[r])
    BY <1>5, <1>7 DEF Accounted, Reads
  <2>4. QED
    BY <1>6, <2>1, <2>2, <2>3 DEF Moves
<1>8. CASE Reads(req[r])
  <2>1. ASSUME Alone(r) PROVE ReadingFit(r)' /\ ListingFit(r)'
    <3>1. ReadingFit(r)
      BY <1>2, <2>1 DEF AloneFit, Accounted, OwnFit
    <3>2. pc \in {"failed", "ok"} /\ Item(r)' = Item(r)
      BY <1>3, <1>5, <1>8 DEF Reads, Item
    <3>3. ListingFit(r)'
      BY <1>3, <1>5, <3>2 DEF ListingFit
    <3>4. CASE pc = "failed"
      BY <1>5, <3>3, <3>4 DEF ReadingFit
    <3>5. CASE pc = "ok"
      <4>1. req[r].op = "download" /\ req[r].pc \in {"open", "copy"}
        BY <1>1, <1>3, <3>5, BusyIs DEF StepsFit
      <4>2. SentFit(r)'
        <5>1. CASE req[r].pc = "open"
          <6>1. req[r].buf = <<>>
            BY <3>1, <5>1 DEF ReadingFit
          <6>2. ASSUME Item(r) # Outside, tree[Item(r)] \in Inodes
                PROVE  /\ Len(<<>>) <= Len(data[tree[Item(r)]])
                       /\ <<>> = SubSeq(data[tree[Item(r)]], 1, Len(<<>>))
            <7>1. data[tree[Item(r)]] \in Seq(Blocks)
              BY <6>2 DEF FilesInv
            <7>2. QED
              BY <7>1
          <6>3. QED
            BY <1>1, <1>5, <3>2, <6>1, <6>2 DEF SentFit
        <5>2. CASE req[r].pc = "copy"
          <6>1. /\ tree[Item(r)] = req[r].ino
                /\ Len(req[r].buf) <= Len(data[req[r].ino])
                /\ req[r].buf = SubSeq(data[req[r].ino], 1, Len(req[r].buf))
            BY <3>1, <5>2 DEF ReadingFit
          <6>2. req[r].ino \in Inodes /\ Item(r) \in Paths
            BY <1>1, <5>2, BusyIs DEF ChecksFit, Item
          <6>3. Item(r) # Outside
            BY <6>2, Distinct
          <6>4. QED
            BY <1>1, <1>5, <3>2, <6>1, <6>2, <6>3 DEF SentFit
        <5>3. QED
          BY <4>1, <5>1, <5>2
      <4>3. ReadingFit(r)'
        BY <1>5, <3>5, <4>1, <4>2 DEF ReadingFit
      <4>4. QED
        BY <3>3, <4>3
    <3>6. QED
      BY <3>2, <3>4, <3>5
  <2>2. req'[r].pc # "idle"
    BY <1>3, <1>5
  <2>3. QED
    BY <1>1, <1>4, <1>5, <1>6, <1>8, <2>1, <2>2, ReadingStep
<1>9. QED
  BY <1>7, <1>8

-----------------------------------------------------------------------------
(* Reads                                                                   *)

LEMMA OpenMoves ==
  ASSUME FilesInv, FilesInv', NEW r \in Reqs, EndFit(r), AloneFit(r), store' = store,
         Open(r)
  PROVE  Moves(r)
<1>1. /\ req[r].pc = "open" /\ Item(r) # Outside /\ r \in Busy
      /\ UNCHANGED <<registered, tree, data>>
  BY DEF Open, At, Busy
<1>2. /\ req[r] \in RequestType /\ DOMAIN req = Reqs /\ Reads(req[r])
      /\ req[r].op \in {"read", "download"} /\ req[r].hit = FALSE
  BY <1>1, BusyIs DEF StepsFit, Reads, EndFit, RequestType
<1>3. CASE tree[Item(r)] \in Inodes
  <2>1. req' = [req EXCEPT ![r].pc = "copy", ![r].ino = tree[Item(r)]]
    BY <1>3 DEF Open
  <2>2. /\ \A s \in Reqs : s # r => req'[s] = req[s]
        /\ req'[r] = [req[r] EXCEPT !.pc = "copy", !.ino = tree[Item(r)]]
    BY <1>2, <2>1
  <2>3. /\ req'[r].pc = "copy" /\ req'[r].ino = tree[Item(r)]
        /\ req'[r].op = req[r].op /\ req'[r].items = req[r].items
        /\ req'[r].done = req[r].done /\ req'[r].buf = req[r].buf
        /\ req'[r].hit = req[r].hit
    BY <1>2, <2>2 DEF RequestType
  <2>4. EndFit(r)'
    BY <1>2, <2>3 DEF EndFit
  <2>5. ASSUME Alone(r) PROVE ReadingFit(r)' /\ ListingFit(r)'
    <3>1. req[r].buf = <<>>
      BY <1>1, <1>2, <2>5 DEF AloneFit, Accounted, OwnFit, ReadingFit
    <3>2. Item(r)' = Item(r)
      BY <2>3 DEF Item
    <3>3. data[tree[Item(r)]] \in Seq(Blocks)
      BY <1>3 DEF FilesInv
    <3>4. Len(<<>>) = 0 /\ SubSeq(data[tree[Item(r)]], 1, 0) = <<>>
          /\ Len(data[tree[Item(r)]]) \in Nat
      BY <3>3
    <3>5. ReadingFit(r)'
      BY <1>1, <2>3, <3>1, <3>2, <3>4 DEF ReadingFit
    <3>6. ListingFit(r)'
      BY <2>3 DEF ListingFit
    <3>7. QED
      BY <3>5, <3>6
  <2>6. QED
    BY <1>1, <1>2, <2>2, <2>3, <2>4, <2>5, ReadingStep
<1>4. CASE tree[Item(r)] \notin Inodes
  <2>1. Goto(r, OnError(r))
    BY <1>4 DEF Open
  <2>2. CASE req[r].op = "read"
    <3>1. ~Maker(req[r]) /\ Goto(r, "failed")
      BY <2>1, <2>2 DEF Maker, OnError
    <3>2. QED
      BY <1>1, <1>2, <2>2, <3>1, Failing
  <2>3. CASE req[r].op = "download"
    <3>1. Goto(r, "ok")
      BY <2>1, <2>3 DEF OnError
    <3>2. QED
      BY <1>1, <1>2, <1>4, <2>3, <3>1, NothingSent
  <2>4. QED
    BY <1>2, <2>2, <2>3
<1>5. QED
  BY <1>3, <1>4

LEMMA CopyMoves ==
  ASSUME FilesInv, FilesInv', NEW r \in Reqs, EndFit(r), AloneFit(r), store' = store,
         Copy(r)
  PROVE  Moves(r)
<1> DEFINE blocks == data[req[r].ino]
           n == Len(req[r].buf)
<1>1. /\ req[r].pc = "copy" /\ r \in Busy /\ UNCHANGED <<registered, tree, data>>
  BY DEF Copy, At, Busy
<1>2. /\ req[r] \in RequestType /\ DOMAIN req = Reqs /\ Reads(req[r])
      /\ req[r].op \in {"read", "download"} /\ req[r].hit = FALSE
      /\ Item(r) \in Paths /\ req[r].ino \in Inodes
  BY <1>1, BusyIs DEF StepsFit, ChecksFit, Reads, EndFit, RequestType, Item
<1>3. blocks \in Seq(Blocks) /\ req[r].buf \in Seq(Blocks)
  BY <1>2 DEF FilesInv, RequestType
<1>4. n \in Nat /\ Len(blocks) \in Nat
  BY <1>3
<1>5. Alone(r) => /\ tree[Item(r)] = req[r].ino /\ n <= Len(blocks)
                  /\ req[r].buf = SubSeq(blocks, 1, n)
  BY <1>1, <1>2 DEF AloneFit, Accounted, OwnFit, ReadingFit
<1>6. CASE n < Len(blocks)
  <2> DEFINE longer == Append(req[r].buf, blocks[n + 1])
  <2>1. req' = [req EXCEPT ![r].buf = longer]
    BY <1>6 DEF Copy
  <2>2. /\ \A s \in Reqs : s # r => req'[s] = req[s]
        /\ req'[r] = [req[r] EXCEPT !.buf = longer]
    BY <1>2, <2>1
  <2>3. /\ req'[r].pc = "copy" /\ req'[r].ino = req[r].ino /\ req'[r].buf = longer
        /\ req'[r].op = req[r].op /\ req'[r].items = req[r].items
        /\ req'[r].done = req[r].done /\ req'[r].hit = req[r].hit
    BY <1>1, <1>2, <2>2 DEF RequestType
  <2>4. EndFit(r)'
    BY <1>2, <2>3 DEF EndFit
  <2>5. ASSUME Alone(r) PROVE ReadingFit(r)' /\ ListingFit(r)'
    <3>1. Len(longer) = n + 1 /\ n + 1 <= Len(blocks)
      BY <1>3, <1>4, <1>6
    <3>2. longer = SubSeq(blocks, 1, n + 1)
      <4>1. /\ longer \in Seq(Blocks) /\ SubSeq(blocks, 1, n + 1) \in Seq(Blocks)
            /\ Len(SubSeq(blocks, 1, n + 1)) = n + 1
        BY <1>3, <1>4, <1>6
      <4>2. ASSUME NEW i \in 1 .. n + 1 PROVE longer[i] = SubSeq(blocks, 1, n + 1)[i]
        <5>1. SubSeq(blocks, 1, n + 1)[i] = blocks[i]
          BY <1>3, <1>4, <1>6
        <5>2. CASE i = n + 1
          BY <1>3, <1>4, <5>1, <5>2
        <5>3. CASE i \in 1 .. n
          <6>1. longer[i] = req[r].buf[i]
            BY <1>3, <1>4, <5>3
          <6>2. req[r].buf[i] = blocks[i]
            BY <1>3, <1>4, <1>5, <1>6, <2>5, <5>3
          <6>3. QED
            BY <5>1, <6>1, <6>2
        <5>4. QED
          BY <1>4, <5>2, <5>3
      <4>3. QED
        BY <3>1, <4>1, <4>2, SeqEqual
    <3> HIDE DEF longer, blocks, n
    <3>3. Item(r)' = Item(r)
      BY <2>3 DEF Item
    <3>4. ReadingFit(r)'
      BY <1>1, <1>5, <2>3, <2>5, <3>1, <3>2, <3>3 DEF ReadingFit, blocks
    <3>5. ListingFit(r)'
      BY <2>3 DEF ListingFit
    <3>6. QED
      BY <3>4, <3>5
  <2>6. QED
    BY <1>1, <1>2, <2>2, <2>3, <2>4, <2>5, ReadingStep
<1>7. CASE ~(n < Len(blocks))
  <2>1. Goto(r, "ok")
    BY <1>7 DEF Copy
  <2>2. /\ \A s \in Reqs : s # r => req'[s] = req[s]
        /\ req'[r].pc = "ok" /\ req'[r].op = req[r].op /\ req'[r].items = req[r].items
        /\ req'[r].done = req[r].done /\ req'[r].hit = req[r].hit
        /\ req'[r].buf = req[r].buf /\ Item(r)' = Item(r)
    BY <1>1, <2>1, GotoIs
  <2>3. EndFit(r)'
    BY <1>2, <2>2 DEF EndFit
  <2>4. ASSUME Alone(r) PROVE ReadingFit(r)' /\ ListingFit(r)'
    <3>1. req[r].buf = blocks
      <4>1. n = Len(blocks)
        BY <1>4, <1>5, <1>7, <2>4
      <4>2. SubSeq(blocks, 1, Len(blocks)) = blocks
        BY <1>3, SubSeqFull
      <4>3. QED
        BY <1>5, <2>4, <4>1, <4>2
    <3>2. ReadingFit(r)'
      <4>1. tree[Item(r)] = req[r].ino /\ data[tree[Item(r)]] = req[r].buf
        BY <1>5, <2>4, <3>1
      <4>2. Len(req[r].buf) <= Len(req[r].buf)
            /\ req[r].buf = SubSeq(req[r].buf, 1, Len(req[r].buf))
        BY <1>3, SubSeqFull, LenProperties
      <4>3. SentFit(r)'
        BY <1>1, <1>2, <2>2, <4>1, <4>2, Distinct DEF SentFit
      <4>4. QED
        BY <1>1, <1>2, <2>2, <4>1, <4>3 DEF ReadingFit
    <3>3. ListingFit(r)'
      BY <1>2, <2>2 DEF ListingFit
    <3>4. QED
      BY <3>2, <3>3
  <2>5. QED
    BY <1>1, <1>2, <2>2, <2>3, <2>4, ReadingStep
<1>8. QED
  BY <1>6, <1>7

LEMMA ListMoves ==
  ASSUME FilesInv, FilesInv', NEW r \in Reqs, EndFit(r), AloneFit(r), store' = store,
         List(r)
  PROVE  Moves(r)
<1>1. /\ req[r].pc = "list" /\ Item(r) # Outside /\ r \in Busy
      /\ UNCHANGED <<registered, tree, data>>
  BY DEF List, At, Busy
<1>2. /\ req[r] \in RequestType /\ DOMAIN req = Reqs /\ Reads(req[r])
      /\ req[r].op = "list" /\ req[r].hit = FALSE
  BY <1>1, BusyIs DEF StepsFit, Reads, EndFit, RequestType
<1>3. CASE tree[Item(r)] = Dir
  <2> DEFINE names == {q \in Children[Item(r)] : Present(q)}
  <2>1. req' = [req EXCEPT ![r].pc = "info", ![r].seen = names]
    BY <1>3 DEF List
  <2>2. \A q : q \in names <=> q \in Children[Item(r)] /\ tree[q] # Absent
    BY DEF Present
  <2> HIDE DEF names
  <2>3. /\ \A s \in Reqs : s # r => req'[s] = req[s]
        /\ req'[r] = [req[r] EXCEPT !.pc = "info", !.seen = names]
    BY <1>2, <2>1
  <2>4. /\ req'[r].pc = "info" /\ req'[r].seen = names /\ req'[r].found = req[r].found
        /\ req'[r].op = req[r].op /\ req'[r].items = req[r].items
        /\ req'[r].done = req[r].done /\ req'[r].hit = req[r].hit
    BY <1>2, <2>3 DEF RequestType
  <2>5. EndFit(r)'
    BY <1>2, <2>4 DEF EndFit
  <2>6. ASSUME Alone(r) PROVE ReadingFit(r)' /\ ListingFit(r)'
    <3>1. req[r].found = {}
      BY <1>1, <1>2, <2>6 DEF AloneFit, Accounted, OwnFit, ListingFit
    <3>2. Item(r)' = Item(r)
      BY <2>4 DEF Item
    <3>3. ListingFit(r)'
      BY <1>1, <2>2, <2>4, <3>1, <3>2 DEF ListingFit
    <3>4. ReadingFit(r)'
      BY <2>4 DEF ReadingFit
    <3>5. QED
      BY <3>3, <3>4
  <2>7. QED
    BY <1>1, <1>2, <2>3, <2>4, <2>5, <2>6, ReadingStep
<1>4. CASE tree[Item(r)] # Dir
  <2>1. Goto(r, "failed")
    BY <1>4 DEF List
  <2>2. ~Maker(req[r])
    BY <1>2 DEF Maker
  <2>3. QED
    BY <1>1, <1>2, <2>1, <2>2, Failing
<1>5. QED
  BY <1>3, <1>4

LEMMA InfoMoves ==
  ASSUME FilesInv, FilesInv', NEW r \in Reqs, EndFit(r), AloneFit(r), store' = store,
         Info(r)
  PROVE  Moves(r)
<1>1. /\ req[r].pc = "info" /\ r \in Busy /\ UNCHANGED <<registered, tree, data>>
  BY DEF Info, At, Busy
<1>2. /\ req[r] \in RequestType /\ DOMAIN req = Reqs /\ Reads(req[r])
      /\ req[r].op = "list" /\ Item(r) \in Paths
  BY <1>1, BusyIs DEF StepsFit, ChecksFit, Reads, EndFit, RequestType, Item
<1>3. Alone(r) =>
        \A p \in Children[Item(r)] :
          /\ p \in req[r].seen \cup req[r].found => tree[p] # Absent
          /\ tree[p] # Absent => p \in req[r].seen \cup req[r].found \/ req[r].hit
  BY <1>1, <1>2 DEF AloneFit, Accounted, OwnFit, ListingFit
<1>4. CASE req[r].seen = {}
  <2>1. Goto(r, "ok")
    BY <1>4 DEF Info
  <2>2. /\ \A s \in Reqs : s # r => req'[s] = req[s]
        /\ req'[r].pc = "ok" /\ req'[r].op = req[r].op /\ req'[r].items = req[r].items
        /\ req'[r].done = req[r].done /\ req'[r].hit = req[r].hit
        /\ req'[r].found = req[r].found /\ Item(r)' = Item(r)
    BY <1>1, <2>1, GotoIs
  <2>3. EndFit(r)'
    BY <1>2, <2>2 DEF EndFit
  <2>4. ASSUME Alone(r) PROVE ReadingFit(r)' /\ ListingFit(r)'
    <3>1. ListingFit(r)'
      BY <1>1, <1>3, <1>4, <2>2, <2>4 DEF ListingFit
    <3>2. ReadingFit(r)'
      BY <1>2, <2>2 DEF ReadingFit
    <3>3. QED
      BY <3>1, <3>2
  <2>5. QED
    BY <1>1, <1>2, <2>2, <2>3, <2>4, ReadingStep
<1>5. CASE req[r].seen # {}
  <2>1. PICK q \in req[r].seen :
          req' = [req EXCEPT ![r].seen = @ \ {q},
                             ![r].found = IF Present(q) THEN @ \cup {q} ELSE @]
    BY <1>5 DEF Info
  <2> DEFINE left == req[r].seen \ {q}
             found == IF tree[q] # Absent THEN req[r].found \cup {q} ELSE req[r].found
  <2>2. req' = [req EXCEPT ![r].seen = left, ![r].found = found]
    BY <1>2, <2>1 DEF RequestType, Present
  <2>3. \A p : /\ p \in left <=> p \in req[r].seen /\ p # q
               /\ p \in found <=> p \in req[r].found \/ (p = q /\ tree[q] # Absent)
    OBVIOUS
  <2> HIDE DEF left, found
  <2>4. /\ \A s \in Reqs : s # r => req'[s] = req[s]
        /\ req'[r] = [req[r] EXCEPT !.seen = left, !.found = found]
    BY <1>2, <2>2
  <2>5. /\ req'[r].pc = "info" /\ req'[r].seen = left /\ req'[r].found = found
        /\ req'[r].op = req[r].op /\ req'[r].items = req[r].items
        /\ req'[r].done = req[r].done /\ req'[r].hit = req[r].hit
    BY <1>1, <1>2, <2>4 DEF RequestType
  <2>6. EndFit(r)'
    BY <1>2, <2>5 DEF EndFit
  <2>7. ASSUME Alone(r) PROVE ReadingFit(r)' /\ ListingFit(r)'
    <3>1. Item(r)' = Item(r)
      BY <2>5 DEF Item
    <3>2. \A p \in Children[Item(r)] :
            /\ p \in left \cup found => tree[p] # Absent
            /\ tree[p] # Absent => p \in left \cup found \/ req[r].hit
      BY <1>3, <2>3, <2>7
    <3>3. ListingFit(r)'
      BY <1>1, <2>5, <3>1, <3>2 DEF ListingFit
    <3>4. ReadingFit(r)'
      BY <2>5 DEF ReadingFit
    <3>5. QED
      BY <3>3, <3>4
  <2>8. QED
    BY <1>1, <1>2, <2>4, <2>5, <2>6, <2>7, ReadingStep
<1>6. QED
  BY <1>4, <1>5

LEMMA InfoFailsMoves ==
  ASSUME FilesInv, FilesInv', NEW r \in Reqs, EndFit(r), AloneFit(r), store' = store,
         InfoFails(r)
  PROVE  Moves(r)
<1>1. /\ req[r].pc = "info" /\ r \in Busy /\ UNCHANGED <<registered, tree, data>>
  BY DEF InfoFails, At, Busy
<1>2. /\ req[r] \in RequestType /\ DOMAIN req = Reqs /\ Reads(req[r])
      /\ req[r].op = "list"
  BY <1>1, BusyIs DEF StepsFit, Reads
<1>3. PICK q \in req[r].seen : req' = [req EXCEPT ![r].seen = @ \ {q}, ![r].hit = TRUE]
  BY DEF InfoFails
<1> DEFINE left == req[r].seen \ {q}
<1>4. req' = [req EXCEPT ![r].seen = left, ![r].hit = TRUE]
  BY <1>3
<1>5. \A p : p \in left => p \in req[r].seen
  OBVIOUS
<1> HIDE DEF left
<1>6. /\ \A s \in Reqs : s # r => req'[s] = req[s]
      /\ req'[r] = [req[r] EXCEPT !.seen = left, !.hit = TRUE]
  BY <1>2, <1>4
<1>7. /\ req'[r].pc = "info" /\ req'[r].seen = left /\ req'[r].found = req[r].found
      /\ req'[r].op = req[r].op /\ req'[r].items = req[r].items
      /\ req'[r].done = req[r].done /\ req'[r].hit = TRUE
  BY <1>1, <1>2, <1>6 DEF RequestType
<1>8. EndFit(r)'
  BY <1>2, <1>7 DEF EndFit
<1>9. ASSUME Alone(r) PROVE ReadingFit(r)' /\ ListingFit(r)'
  <2>1. \A p \in Children[Item(r)] : p \in req[r].seen \cup req[r].found => tree[p] # Absent
    BY <1>1, <1>2, <1>9 DEF AloneFit, Accounted, OwnFit, ListingFit
  <2>2. Item(r)' = Item(r)
    BY <1>7 DEF Item
  <2>3. ListingFit(r)'
    BY <1>1, <1>5, <1>7, <2>1, <2>2 DEF ListingFit
  <2>4. ReadingFit(r)'
    BY <1>7 DEF ReadingFit
  <2>5. QED
    BY <2>3, <2>4
<1>10. QED
  BY <1>1, <1>2, <1>6, <1>7, <1>8, <1>9, ReadingStep

-----------------------------------------------------------------------------
(* Deletions                                                               *)

LEMMA ItemDoneIs ==
  ASSUME FilesInv, NEW r \in Busy, NEW next, ItemDone(r, next)
  PROVE  /\ \A s \in Reqs : s # r => req'[s] = req[s]
         /\ req'[r].pc = IF req[r].done + 1 = Len(req[r].items) THEN "ok" ELSE next
         /\ req'[r].op = req[r].op /\ req'[r].items = req[r].items
         /\ req'[r].done = req[r].done + 1 /\ req'[r].hit = req[r].hit
<1> DEFINE pc == IF req[r].done + 1 = Len(req[r].items) THEN "ok" ELSE next
<1>1. r \in Reqs /\ req[r] \in RequestType /\ DOMAIN req = Reqs
  BY BusyIs
<1>2. /\ req'[r] = [req[r] EXCEPT !.done = req[r].done + 1, !.seen = {}, !.pc = pc]
      /\ \A s \in Reqs : s # r => req'[s] = req[s]
  BY <1>1 DEF ItemDone, RequestType
<1> HIDE DEF pc
<1>3. /\ req'[r].pc = pc /\ req'[r].op = req[r].op /\ req'[r].items = req[r].items
      /\ req'[r].done = req[r].done + 1 /\ req'[r].hit = req[r].hit
  BY <1>1, <1>2 DEF RequestType
<1>4. QED
  BY <1>2, <1>3 DEF pc

\* One more item is finished.
LEMMA LeftNext ==
  ASSUME FilesInv, NEW r \in Busy, store' = store, req[r].op \in {"delete", "rename"},
         req[r].done < Len(req[r].items),
         req'[r].op = req[r].op, req'[r].items = req[r].items,
         req'[r].done = req[r].done + 1
  PROVE  Left(r)' = OneDone(Left(r), req[r], Item(r))
<1>1. /\ req[r] \in RequestType /\ ItemsFit(req[r])
      /\ req[r].items \in Seq(Given) \/ req[r].items \in Seq(Given \X Given)
      /\ req[r].done \in Nat
  BY BusyIs DEF ItemsFit, RequestType
<1>2. Left(r)' = BatchDone(store, req'[r], req[r].done + 1)
  BY DEF Left
<1>3. req[r].done + 1 \in Nat /\ req[r].done + 1 <= Len(req[r].items)
  BY <1>1, LenProperties
<1>4. BatchDone(store, req'[r], req[r].done + 1) = BatchDone(store, req[r], req[r].done + 1)
  <2> DEFINE m == req[r].done + 1
  <2>1. m \in Nat /\ m <= Len(req[r].items)
    BY <1>3
  <2> HIDE DEF m
  <2>2. BatchDone(store, req'[r], m) = BatchDone(store, req[r], m)
    BY <1>1, <2>1, BatchSame
  <2>3. QED
    BY <2>2 DEF m
<1>5. BatchDone(store, req[r], req[r].done + 1)
        = OneDone(BatchDone(store, req[r], req[r].done), req[r], req[r].items[req[r].done + 1])
  BY <1>1, BatchOf
<1>6. QED
  BY <1>2, <1>4, <1>5 DEF Left, Item

\* What is known of a request that nobody overlaps while it deletes.
LEMMA OwnDeletes ==
  ASSUME FilesInv', NEW r \in Reqs, req'[r].pc # "idle",
         req'[r].op \in {"drop", "delete"}, OwnPaths(r)', RemovingFit(r)'
  PROVE  OwnFit(r)'
<1>1. StepsFit(req'[r])
  <2>1. Sound(req'[r])
    BY DEF FilesInv
  <2>2. QED
    BY <2>1 DEF Sound
<1>2. MakingFit(r)'
  BY <1>1 DEF MakingFit, Maker, StepsFit
<1>3. WritingFit(r)'
  BY <1>1 DEF WritingFit, StepsFit
<1>4. ReadingFit(r)' /\ ListingFit(r)'
  BY <1>1 DEF ReadingFit, ListingFit, StepsFit
<1>5. CreatingFit(r)'
  BY DEF CreatingFit
<1>6. QED
  BY <1>2, <1>3, <1>4, <1>5 DEF OwnFit

LEMMA RemoveAllMoves ==
  ASSUME FilesInv, FilesInv', NEW r \in Reqs, EndFit(r), AloneFit(r), store' = store,
         RemoveAll(r)
  PROVE  Moves(r)
<1>1. /\ req[r].pc = "remove" /\ Item(r) # Outside /\ r \in Busy
      /\ UNCHANGED <<registered, tree, data>>
  BY DEF RemoveAll, At, Busy
<1>2. /\ req[r] \in RequestType /\ DOMAIN req = Reqs
      /\ req[r].op \in {"drop", "delete"} /\ req[r].hit = FALSE /\ ~Maker(req[r])
      /\ ~Reads(req[r])
  BY <1>1, BusyIs DEF StepsFit, EndFit, RequestType, Maker, Reads
<1>3. CASE Blocked(Item(r))
  <2>1. Goto(r, "failed")
    BY <1>3 DEF RemoveAll
  <2>2. req[r].op # "drop"
    <3> SUFFICES ASSUME req[r].op = "drop" PROVE FALSE
      OBVIOUS
    <3>1. Item(r) = <<>> /\ <<>> \in Paths
      BY <1>1, CreatesAll
    <3>2. \E q \in Above[Item(r)] : TRUE
      BY <1>3 DEF Blocked
    <3>3. PICK q \in Paths : IsPrefix(q, <<>>) /\ q # <<>>
      BY <3>1, <3>2, BelowIs
    <3>4. IsPrefix(<<>>, q)
      BY Distinct, PrefixOrder
    <3>5. QED
      BY <3>1, <3>3, <3>4, Distinct, PrefixOrder
  <2>3. QED
    BY <1>1, <1>2, <2>1, <2>2, Failing
<1>4. CASE ~Blocked(Item(r))
  <2> DEFINE names == {q \in Below[Item(r)] : Present(q)}
  <2>1. req' = [req EXCEPT ![r].pc = "removing", ![r].seen = names]
    BY <1>4 DEF RemoveAll
  <2>2. \A q : q \in names <=> q \in Below[Item(r)] /\ tree[q] # Absent
    BY DEF Present
  <2> HIDE DEF names
  <2>3. /\ \A s \in Reqs : s # r => req'[s] = req[s]
        /\ req'[r] = [req[r] EXCEPT !.pc = "removing", !.seen = names]
    BY <1>2, <2>1
  <2>4. /\ req'[r].pc = "removing" /\ req'[r].seen = names
        /\ req'[r].op = req[r].op /\ req'[r].items = req[r].items
        /\ req'[r].done = req[r].done /\ req'[r].hit = req[r].hit
    BY <1>2, <2>3 DEF RequestType
  <2>5. Item(r)' = Item(r)
    BY <2>4 DEF Item
  <2>6. Within(r)
    BY <1>1, <1>2, <2>3, <2>4, WithinQuiet
  <2>7. EndFit(r)' /\ MakesOnwards(r)
    BY <1>2, <2>4 DEF EndFit, MakesOnwards
  <2>8. ASSUME Alone(r) PROVE OwnFit(r)'
    <3>1. OwnPaths(r)'
      <4>1. OwnPaths(r)
        BY <1>2, <2>8 DEF AloneFit, Accounted, OwnFit
      <4>2. \A p : ~InHand(r, p)
        BY <1>1 DEF InHand
      <4>3. View' = View
        BY <1>1 DEF View
      <4>4. QED
        BY <1>1, <2>4, <4>1, <4>2, <4>3, OwnPathsKept
    <3>2. RemovingFit(r)'
      BY <1>1, <2>2, <2>4, <2>5 DEF RemovingFit
    <3>3. QED
      BY <1>2, <2>4, <3>1, <3>2, OwnDeletes
  <2>9. QED
    BY <2>6, <2>7, <2>8 DEF Moves, Accounted
<1>5. QED
  BY <1>3, <1>4

LEMMA RemoveNameMoves ==
  ASSUME FilesInv, FilesInv', NEW r \in Reqs, EndFit(r), AloneFit(r), store' = store,
         RemoveName(r)
  PROVE  Moves(r)
<1>1. /\ req[r].pc = "removing" /\ r \in Busy
      /\ registered' = registered /\ data' = data /\ req' = req
  BY DEF RemoveName, At, Busy
<1>2. /\ req[r] \in RequestType /\ Item(r) \in Paths
      /\ req[r].op \in {"drop", "delete"} /\ req[r].hit = FALSE /\ ~Maker(req[r])
      /\ ~Reads(req[r]) /\ req[r].done < Len(req[r].items)
  BY <1>1, BusyIs DEF StepsFit, ChecksFit, ItemsFit, EndFit, RequestType, Maker, Reads, Item
<1>3. PICK q \in Below[Item(r)] : tree' = [tree EXCEPT ![q] = Absent]
  BY DEF RemoveName
<1>4. /\ q \in Region(req[r]) /\ q \in Paths /\ IsPrefix(Item(r), q)
      /\ \A p \in Below[Item(r)] : p \in Paths
  BY <1>1, <1>2, ItemInside
<1>5. \A p \in Paths : tree'[p] = IF p = q THEN Absent ELSE tree[p]
  BY <1>3, <1>4 DEF FilesInv, IsTree
<1>6. Within(r)
  BY <1>1, <1>2, <1>4, <1>5 DEF Within
<1>7. EndFit(r)' /\ MakesOnwards(r) /\ Item(r)' = Item(r)
  BY <1>1, <1>2 DEF EndFit, MakesOnwards, Item
<1>8. ASSUME Alone(r) PROVE OwnFit(r)'
  <2>1. OwnPaths(r) /\ RemovingFit(r)
    BY <1>2, <1>8 DEF AloneFit, Accounted, OwnFit
  <2>2. OwnPaths(r)'
    <3>1. ASSUME NEW p \in Region(req[r])
          PROVE  InHand(r, p)' \/ (View'[p] = View[p] /\ ~InHand(r, p))
      <4>1. p \in Paths
        BY <1>1, BusyIs, RegionIs
      <4>2. InHand(r, p) <=> IsPrefix(Item(r), p) /\ tree[p] = Absent
        BY <1>1 DEF InHand
      <4>3. InHand(r, p)' <=> IsPrefix(Item(r), p) /\ tree'[p] = Absent
        BY <1>1, <1>7 DEF InHand
      <4>4. CASE p = q
        BY <1>4, <1>5, <4>1, <4>3, <4>4
      <4>5. CASE p # q
        BY <1>1, <1>5, <4>1, <4>2, <4>3, <4>5, ViewIs, ViewNext
      <4>6. QED
        BY <4>4, <4>5
    <3>2. QED
      BY <1>1, <2>1, <3>1, OwnPathsKept
  <2>3. RemovingFit(r)'
    BY <1>1, <1>4, <1>5, <1>7, <2>1 DEF RemovingFit
  <2>4. QED
    BY <1>1, <1>2, <2>2, <2>3, OwnDeletes
<1>9. QED
  BY <1>6, <1>7, <1>8 DEF Moves, Accounted

\* Nothing is below a name that is not there.
LEMMA AbsentBelow ==
  ASSUME FilesInv, NEW p \in Paths, tree[p] # Dir, NEW q \in Paths, IsPrefix(p, q), p # q
  PROVE  tree[q] = Absent
  BY AboveIsDir DEF FilesInv

LEMMA RemovedMoves ==
  ASSUME FilesInv, FilesInv', NEW r \in Reqs, EndFit(r), AloneFit(r), store' = store,
         Removed(r)
  PROVE  Moves(r)
<1>1. /\ req[r].pc = "removing" /\ r \in Busy /\ UNCHANGED <<registered, tree, data>>
      /\ tree[Item(r)] = Absent
  BY DEF Removed, At, Busy, Present
<1>2. /\ req[r] \in RequestType /\ Item(r) \in Paths
      /\ req[r].op \in {"drop", "delete"} /\ req[r].hit = FALSE /\ ~Maker(req[r])
      /\ ~Reads(req[r]) /\ req[r].done < Len(req[r].items)
  BY <1>1, BusyIs DEF StepsFit, ChecksFit, ItemsFit, EndFit, RequestType, Maker, Reads, Item
<1>3. \A p \in Paths : IsPrefix(Item(r), p) => tree[p] = Absent
  BY <1>1, <1>2, AbsentBelow, Distinct
<1>4. CASE req[r].op = "drop"
  <2>1. Goto(r, "entry")
    BY <1>4 DEF Removed
  <2>2. /\ \A s \in Reqs : s # r => req'[s] = req[s]
        /\ req'[r].pc = "entry" /\ req'[r].op = "drop" /\ req'[r].items = req[r].items
        /\ req'[r].done = req[r].done /\ req'[r].hit = req[r].hit
    BY <1>1, <1>4, <2>1, GotoIs
  <2>3. Within(r)
    BY <1>1, <1>2, <1>4, <2>2, WithinQuiet
  <2>4. EndFit(r)' /\ MakesOnwards(r)
    BY <1>2, <2>2 DEF EndFit, MakesOnwards
  <2>5. ASSUME Alone(r) PROVE OwnFit(r)'
    <3>1. \A p : InHand(r, p)'
      BY <2>2 DEF InHand
    <3>2. OwnPaths(r)'
      BY <3>1 DEF OwnPaths
    <3>3. \A p \in Paths : tree'[p] = Absent
      BY <1>1, <1>3, <1>4, CreatesAll
    <3>4. RemovingFit(r)'
      BY <2>2, <3>3 DEF RemovingFit
    <3>5. QED
      BY <2>2, <3>2, <3>4, OwnDeletes
  <2>6. QED
    BY <2>3, <2>4, <2>5 DEF Moves, Accounted
<1>5. CASE req[r].op = "delete"
  <2>1. ItemDone(r, "remove")
    BY <1>5 DEF Removed
  <2>2. /\ \A s \in Reqs : s # r => req'[s] = req[s]
        /\ req'[r].pc \in {"ok", "remove"} /\ req'[r].op = "delete"
        /\ req'[r].items = req[r].items
        /\ req'[r].done = req[r].done + 1 /\ req'[r].hit = req[r].hit
    BY <1>1, <1>5, <2>1, ItemDoneIs
  <2>3. Within(r)
    BY <1>1, <1>2, <1>5, <2>2, WithinQuiet
  <2>4. EndFit(r)' /\ MakesOnwards(r)
    BY <1>2, <2>2 DEF EndFit, MakesOnwards
  <2>5. ASSUME Alone(r) PROVE OwnFit(r)'
    <3>1. OwnPaths(r)
      BY <1>2, <2>5 DEF AloneFit, Accounted, OwnFit
    <3>2. Left(r)' = Deletes(Left(r), Item(r))
      <4>1. Left(r)' = OneDone(Left(r), req[r], Item(r))
        BY <1>1, <1>2, <1>5, <2>2, LeftNext
      <4>2. QED
        BY <1>5, <4>1, OneDoneIs
    <3>3. Region(req'[r]) = Region(req[r])
      BY <1>5, <2>2 DEF Region, Targets
    <3>4. ASSUME NEW p \in Region(req[r]), Left(r)'[p] # Unknown
          PROVE  View'[p] = Left(r)'[p]
      <4>1. p \in Paths
        BY <1>1, BusyIs, RegionIs
      <4>2. Left(r)'[p] = IF IsPrefix(Item(r), p) THEN Absent ELSE Left(r)[p]
        BY <3>2, <4>1 DEF Deletes
      <4>3. View'[p] = View[p]
        BY <1>1, <4>1, ViewIs, ViewNext
      <4>4. CASE IsPrefix(Item(r), p)
        BY <1>3, <4>1, <4>2, <4>3, <4>4, ViewIs, Distinct
      <4>5. CASE ~IsPrefix(Item(r), p)
        <5>1. ~InHand(r, p)
          BY <1>1, <4>5 DEF InHand
        <5>2. Changes(req[r])
          BY <1>5 DEF Changes
        <5>3. QED
          BY <3>1, <3>4, <4>2, <4>3, <4>5, <5>1, <5>2 DEF OwnPaths
      <4>6. QED
        BY <4>4, <4>5
    <3>5. OwnPaths(r)'
      BY <3>3, <3>4 DEF OwnPaths
    <3>6. RemovingFit(r)'
      BY <2>2 DEF RemovingFit
    <3>7. QED
      BY <2>2, <3>5, <3>6, OwnDeletes
  <2>6. QED
    BY <2>3, <2>4, <2>5 DEF Moves, Accounted
<1>6. QED
  BY <1>2, <1>4, <1>5

\* Nobody but another request puts a name into a directory that has been read.
LEMMA RemoveFailsMoves ==
  ASSUME FilesInv, FilesInv', NEW r \in Reqs, EndFit(r), AloneFit(r), store' = store,
         RemoveFails(r)
  PROVE  Moves(r) /\ ~Alone(r)
<1>1. /\ req[r].pc = "removing" /\ r \in Busy /\ UNCHANGED <<registered, tree, data>>
      /\ Goto(r, OnError(r))
      /\ \E q \in Below[Item(r)] : tree[q] # Absent /\ q \notin req[r].seen
  BY DEF RemoveFails, At, Busy, Present
<1>2. /\ req[r].op \in {"drop", "delete"} /\ req[r].hit = FALSE
      /\ ~Maker(req[r]) /\ ~Reads(req[r])
  BY <1>1, BusyIs DEF StepsFit, EndFit, RequestType, Maker, Reads
<1>3. ~Alone(r)
  BY <1>1, <1>2 DEF AloneFit, Accounted, OwnFit, RemovingFit
<1>4. PICK pc \in {"entry", "failed"} : Goto(r, pc)
  BY <1>1, <1>2 DEF OnError
<1>5. /\ \A s \in Reqs : s # r => req'[s] = req[s]
      /\ req'[r].pc = pc /\ req'[r].op = req[r].op /\ req'[r].items = req[r].items
      /\ req'[r].hit = req[r].hit
  BY <1>1, <1>4, GotoIs
<1>6. Within(r)
  BY <1>1, <1>2, <1>5, WithinQuiet
<1>7. EndFit(r)' /\ MakesOnwards(r)
  BY <1>2, <1>5 DEF EndFit, MakesOnwards
<1>8. QED
  BY <1>3, <1>6, <1>7 DEF Moves, Accounted

LEMMA RemoveServerMoves ==
  ASSUME FilesInv, FilesInv', NEW r \in Reqs, EndFit(r), AloneFit(r), store' = store,
         RemoveServer(r)
  PROVE  Moves(r)
<1>1. /\ req[r].pc = "entry" /\ r \in Busy /\ UNCHANGED <<tree, data>>
      /\ registered' = FALSE /\ Goto(r, "ok")
  BY DEF RemoveServer, At, Busy
<1>2. req[r].op = "drop" /\ ~Maker(req[r]) /\ ~Reads(req[r])
  BY <1>1, BusyIs DEF StepsFit, Maker, Reads
<1>3. /\ \A s \in Reqs : s # r => req'[s] = req[s]
      /\ req'[r].pc = "ok" /\ req'[r].op = "drop" /\ req'[r].items = req[r].items
      /\ req'[r].done = req[r].done /\ req'[r].hit = req[r].hit /\ Item(r)' = Item(r)
  BY <1>1, <1>2, GotoIs
<1>4. Within(r)
  BY <1>1, <1>2, <1>3, WithinQuiet
<1>5. EndFit(r)' /\ MakesOnwards(r)
  BY <1>1, <1>2, <1>3, CreatesAll DEF EndFit, MakesOnwards
<1>6. ASSUME Alone(r), ~req'[r].hit PROVE OwnFit(r)'
  <2>1. \A p : InHand(r, p)'
    BY <1>3 DEF InHand
  <2>2. OwnPaths(r)'
    BY <2>1 DEF OwnPaths
  <2>3. RemovingFit(r)'
    BY <1>1, <1>2, <1>3, <1>6 DEF AloneFit, Accounted, OwnFit, RemovingFit
  <2>4. QED
    BY <1>3, <2>2, <2>3, OwnDeletes
<1>7. Accounted(req'[r]) => ~req'[r].hit
  BY <1>3 DEF Accounted, Reads
<1>8. QED
  BY <1>4, <1>5, <1>6, <1>7 DEF Moves

-----------------------------------------------------------------------------
(* Renames                                                                 *)

LEMMA RenameMoves ==
  ASSUME FilesInv, FilesInv', NEW r \in Reqs, EndFit(r), AloneFit(r), store' = store,
         Rename(r)
  PROVE  Moves(r)
<1> DEFINE from == Item(r)[1]
           to == Item(r)[2]
<1>1. /\ req[r].pc = "rename" /\ Outside \notin {from, to} /\ r \in Busy
      /\ registered' = registered /\ data' = data
      /\ \/ from # to /\ tree' = Moved(tree, from, to) /\ ItemDone(r, "rename")
         \/ from = to /\ tree' = tree /\ ItemDone(r, "rename")
         \/ tree' = tree /\ Goto(r, "failed")
  BY DEF Rename, At, Busy
<1>2. /\ req[r] \in RequestType /\ ItemsFit(req[r]) /\ Targets(req[r]) \subseteq Paths
      /\ req[r].op = "rename" /\ req[r].hit = FALSE /\ ~Maker(req[r])
      /\ ~Reads(req[r]) /\ Changes(req[r]) /\ req[r].done < Len(req[r].items)
  BY <1>1, BusyIs DEF StepsFit, ItemsFit, EndFit, RequestType, Maker, Reads, Changes
<1>3. from \in Paths /\ to \in Paths
  BY <1>1, RenamePaths
<1>4. from \in Targets(req[r]) /\ to \in Targets(req[r])
  <2>1. req[r].done + 1 \in 1 .. Len(req[r].items)
    BY <1>2, LenProperties DEF RequestType, ItemsFit
  <2>2. Inside(req[r], req[r].done + 1)
    BY <1>2, <1>3 DEF Inside, Item
  <2>3. QED
    BY <1>2, <2>1, <2>2, TargetsIn DEF Item
<1>5. \A p \in Paths : IsPrefix(from, p) \/ IsPrefix(to, p) => p \in Region(req[r])
  BY <1>2, <1>4, RegionIs
<1>6. CASE tree' = tree /\ Goto(r, "failed")
  BY <1>1, <1>2, <1>6, Failing
<1>7. CASE /\ \/ from # to /\ tree' = Moved(tree, from, to)
              \/ from = to /\ tree' = tree
           /\ ItemDone(r, "rename")
  <2>1. /\ \A s \in Reqs : s # r => req'[s] = req[s]
        /\ req'[r].pc \in {"ok", "rename"} /\ req'[r].op = "rename"
        /\ req'[r].items = req[r].items
        /\ req'[r].done = req[r].done + 1 /\ req'[r].hit = req[r].hit
    BY <1>1, <1>2, <1>7, ItemDoneIs
  <2> HIDE DEF from, to
  <2>2. ASSUME NEW t, from # to, NEW p \in Paths
        PROVE  /\ IsPrefix(to, p) =>
                    Moved(t, from, to)[p] =
                      IF Carried(from, to, p) \in Paths THEN t[Carried(from, to, p)] ELSE Absent
               /\ ~IsPrefix(to, p) /\ IsPrefix(from, p) => Moved(t, from, to)[p] = Absent
               /\ ~IsPrefix(to, p) /\ ~IsPrefix(from, p) => Moved(t, from, to)[p] = t[p]
    BY <1>3, MovedIs
  <2>3. \A p \in Paths : p \notin Region(req[r]) => tree'[p] = tree[p]
    BY <1>5, <1>7, <2>2
  <2>4. Within(r)
    BY <1>1, <1>2, <2>1, <2>3 DEF Within
  <2>5. EndFit(r)' /\ MakesOnwards(r)
    BY <1>2, <2>1 DEF EndFit, MakesOnwards
  <2>6. ASSUME Alone(r) PROVE OwnFit(r)'
    <3>1. \A p \in Region(req[r]) : Left(r)[p] # Unknown => View[p] = Left(r)[p]
      <4>1. \A p : ~InHand(r, p)
        BY <1>1, <1>2 DEF InHand
      <4>2. QED
        BY <1>2, <2>6, <4>1 DEF AloneFit, Accounted, OwnFit, OwnPaths
    <3>2. Left(r)' = OneDone(Left(r), req[r], Item(r))
      BY <1>1, <1>2, <2>1, LeftNext
    <3>3. Region(req'[r]) = Region(req[r])
      BY <1>2, <2>1 DEF Region, Targets
    <3>4. ASSUME NEW p \in Region(req[r]), Left(r)'[p] # Unknown
          PROVE  View'[p] = Left(r)'[p]
      <4>1. p \in Paths
        BY <1>2, RegionIs
      <4>2. CASE from = to /\ tree' = tree
        <5>1. Left(r)' = Left(r)
          BY <1>2, <3>2, <4>2, OneDoneIs DEF from, to
        <5>2. View'[p] = View[p]
          BY <1>1, <4>1, <4>2, ViewIs, ViewNext
        <5>3. QED
          BY <3>1, <3>4, <5>1, <5>2
      <4>3. CASE from # to /\ tree' = Moved(tree, from, to)
        <5>1. Left(r)' = Moved(Left(r), from, to)
          BY <1>2, <3>2, <4>3, OneDoneIs DEF from, to
        <5>2. CASE IsPrefix(to, p)
          <6>1. CASE Carried(from, to, p) \in Paths
            <7> DEFINE o == Carried(from, to, p)
            <7>1. from \in Seq(Names) /\ to \in Seq(Names) /\ p \in Seq(Names)
              BY <1>3, <4>1, Distinct
            <7>2. IsPrefix(from, o)
              BY <5>2, <7>1, Shift
            <7>3. o \in Region(req[r]) /\ o \in Paths
              BY <1>5, <6>1, <7>2
            <7>4. tree'[p] = tree[o] /\ Left(r)'[p] = Left(r)[o]
              BY <2>2, <4>1, <4>3, <5>1, <5>2, <6>1
            <7> HIDE DEF o
            <7>5. View'[p] = View[o]
              BY <1>1, <4>1, <7>3, <7>4, ViewIs, ViewNext
            <7>6. QED
              BY <3>1, <3>4, <7>3, <7>4, <7>5
          <6>2. CASE Carried(from, to, p) \notin Paths
            <7>1. tree'[p] = Absent /\ Left(r)'[p] = Absent
              BY <2>2, <4>1, <4>3, <5>1, <5>2, <6>2
            <7>2. QED
              BY <4>1, <7>1, ViewNext, Distinct
          <6>3. QED
            BY <6>1, <6>2
        <5>3. CASE ~IsPrefix(to, p) /\ IsPrefix(from, p)
          <6>1. tree'[p] = Absent /\ Left(r)'[p] = Absent
            BY <2>2, <4>1, <4>3, <5>1, <5>3
          <6>2. QED
            BY <4>1, <6>1, ViewNext, Distinct
        <5>4. CASE ~IsPrefix(to, p) /\ ~IsPrefix(from, p)
          <6>1. tree'[p] = tree[p] /\ Left(r)'[p] = Left(r)[p]
            BY <2>2, <4>1, <4>3, <5>1, <5>4
          <6>2. View'[p] = View[p]
            BY <1>1, <4>1, <6>1, ViewIs, ViewNext
          <6>3. QED
            BY <3>1, <3>4, <6>1, <6>2
        <5>5. QED
          BY <5>2, <5>3, <5>4
      <4>4. QED
        BY <1>7, <4>2, <4>3
    <3>5. OwnPaths(r)'
      BY <3>3, <3>4 DEF OwnPaths
    <3>6. MakingFit(r)' /\ WritingFit(r)' /\ RemovingFit(r)'
      BY <2>1 DEF MakingFit, WritingFit, RemovingFit, Maker
    <3>7. ReadingFit(r)' /\ ListingFit(r)' /\ CreatingFit(r)'
      BY <2>1 DEF ReadingFit, ListingFit, CreatingFit
    <3>8. QED
      BY <3>5, <3>6, <3>7 DEF OwnFit
  <2>7. QED
    BY <2>4, <2>5, <2>6 DEF Moves, Accounted
<1>8. QED
  BY <1>1, <1>6, <1>7

-----------------------------------------------------------------------------
(* Directories and writes                                                  *)

LEMMA MakerIs ==
  ASSUME FilesInv, NEW r \in Busy, Maker(req[r]), Item(r) \in Paths
  PROVE  /\ \A p : p \in MadePaths(req[r]) <=>
                     /\ p \in Paths /\ IsPrefix(p, Item(r))
                     /\ req[r].op = "write" => p # Item(r)
         /\ \A p : p \in Region(req[r]) <=> p \in Paths /\ IsPrefix(Item(r), p)
         /\ req[r].op \in {"folder", "create", "write"} /\ Changes(req[r]) /\ ~Reads(req[r])
         /\ req[r].done = 0 /\ Left(r) = store
<1>1. /\ req[r].op \in {"folder", "create", "write"} /\ Changes(req[r]) /\ ~Reads(req[r])
      /\ req[r].op \notin {"delete", "rename"}
  BY DEF Maker, Changes, Reads
<1>2. Targets(req[r]) = {Item(r)} /\ req[r].done = 0
  BY <1>1, OneTarget, Distinct
<1>3. /\ \A p : p \in Region(req[r]) <=> p \in Paths /\ IsPrefix(Item(r), p)
      /\ \A p : p \in Needs(req[r]) <=> p \in Paths /\ IsPrefix(p, Item(r)) /\ p # Item(r)
  BY <1>2, RegionIs
<1>4. \A p : p \in MadePaths(req[r]) <=>
               p \in Needs(req[r]) \/ (req[r].op # "write" /\ p = Item(r))
  BY <1>2 DEF MadePaths
<1>5. IsPrefix(Item(r), Item(r))
  BY Distinct, PrefixOrder
<1>6. \A p : p \in MadePaths(req[r]) <=>
               /\ p \in Paths /\ IsPrefix(p, Item(r))
               /\ req[r].op = "write" => p # Item(r)
  BY <1>3, <1>4, <1>5
<1>7. Left(r) = store
  <2>1. req[r].items \in Seq(Given) \/ req[r].items \in Seq(Given \X Given)
    BY BusyIs DEF ItemsFit
  <2>2. QED
    BY <1>2, <2>1, BatchOf DEF Left
<1>8. QED
  BY <1>1, <1>2, <1>3, <1>6, <1>7

\* The directories of a request are its chain.
LEMMA ChainMade ==
  ASSUME FilesInv, NEW r \in Busy, req[r].pc \in {"mkdir", "make"}, Maker(req[r]),
         Item(r) \in Paths
  PROVE  /\ ChainLen(r) \in Nat
         /\ \A k \in 1 .. ChainLen(r) :
              /\ Chain(r, k) \in MadePaths(req[r]) /\ Chain(r, k) \in Paths
              /\ Len(Chain(r, k)) = k - 1
         /\ \A p \in MadePaths(req[r]) :
              Len(p) + 1 \in 1 .. ChainLen(r) /\ p = Chain(r, Len(p) + 1)
<1>1. /\ ChainLen(r) \in Nat /\ r \in Reqs
      /\ ChainLen(r) = IF req[r].op = "write" THEN Len(Item(r)) ELSE Len(Item(r)) + 1
      /\ \A k \in 1 .. ChainLen(r) :
           /\ Chain(r, k) \in Paths /\ IsPrefix(Chain(r, k), Item(r))
           /\ Len(Chain(r, k)) = k - 1
  BY ChainIs, BusyIs
<1>2. Item(r) \in Seq(Names) /\ Len(Item(r)) \in Nat
  BY Distinct
<1>3. ASSUME NEW k \in 1 .. ChainLen(r) PROVE Chain(r, k) \in MadePaths(req[r])
  <2>1. req[r].op = "write" => Chain(r, k) # Item(r)
    <3> SUFFICES ASSUME req[r].op = "write", Chain(r, k) = Item(r) PROVE FALSE
      OBVIOUS
    <3>1. Len(Item(r)) = k - 1 /\ k <= Len(Item(r))
      BY <1>1
    <3>2. QED
      BY <1>2, <3>1
  <2>2. QED
    BY <1>1, <2>1, MakerIs
<1>4. ASSUME NEW p \in MadePaths(req[r])
      PROVE  Len(p) + 1 \in 1 .. ChainLen(r) /\ p = Chain(r, Len(p) + 1)
  <2>1. /\ p \in Paths /\ IsPrefix(p, Item(r)) /\ (req[r].op = "write" => p # Item(r))
        /\ p \in Seq(Names) /\ Len(p) \in Nat
    BY MakerIs, Distinct
  <2>2. Len(p) <= Len(Item(r))
    BY <1>2, <2>1, PrefixIs
  <2>3. req[r].op = "write" => Len(p) # Len(Item(r))
    BY <1>2, <2>1, PrefixOrder
  <2>4. Len(p) + 1 \in 1 .. ChainLen(r)
    BY <1>1, <1>2, <2>1, <2>2, <2>3
  <2> DEFINE k == Len(p) + 1
             c == Chain(r, k)
  <2>5. c \in Paths /\ IsPrefix(c, Item(r)) /\ Len(c) = Len(p)
    <3>1. Len(c) = k - 1 /\ c \in Paths /\ IsPrefix(c, Item(r))
      <4> HIDE DEF k
      <4>1. QED
        BY <1>1, <2>4 DEF k
    <3>2. k - 1 = Len(p)
      BY <2>1
    <3>3. QED
      BY <3>1, <3>2
  <2> HIDE DEF c
  <2>6. IsPrefix(p, c) \/ IsPrefix(c, p)
    BY <1>2, <2>1, <2>5, Distinct, PrefixOrder
  <2>7. p = c
    BY <2>1, <2>5, <2>6, Distinct, PrefixOrder
  <2>8. QED
    BY <2>4, <2>7 DEF c
<1>5. QED
  BY <1>1, <1>3, <1>4

\* What is known of a request that nobody overlaps while it makes and writes.
LEMMA OwnMakes ==
  ASSUME FilesInv', NEW r \in Reqs, req'[r].pc # "idle",
         req'[r].op \in {"folder", "create", "write"},
         OwnPaths(r)', MakingFit(r)', WritingFit(r)', CreatingFit(r)'
  PROVE  OwnFit(r)'
<1>1. StepsFit(req'[r])
  <2>1. Sound(req'[r])
    BY DEF FilesInv
  <2>2. QED
    BY <2>1 DEF Sound
<1>2. RemovingFit(r)'
  BY <1>1 DEF RemovingFit, StepsFit
<1>3. ReadingFit(r)' /\ ListingFit(r)'
  BY <1>1 DEF ReadingFit, ListingFit, StepsFit
<1>4. QED
  BY <1>2, <1>3 DEF OwnFit

LEMMA MkdirMoves ==
  ASSUME FilesInv, FilesInv', NEW r \in Reqs, EndFit(r), AloneFit(r), store' = store,
         Mkdir(r)
  PROVE  Moves(r)
<1> DEFINE there == {k \in 1 .. ChainLen(r) : tree[Chain(r, k)] = Dir}
           m == Max(there \cup {0})
<1>1. /\ req[r].pc = "mkdir" /\ Item(r) # Outside /\ r \in Busy
      /\ UNCHANGED <<registered, tree, data>>
  BY DEF Mkdir, At, Busy
<1>2. /\ req[r] \in RequestType /\ DOMAIN req = Reqs
      /\ req[r].op \in {"create", "write", "folder"} /\ req[r].hit = FALSE
      /\ Maker(req[r]) /\ ~Reads(req[r])
  BY <1>1, BusyIs DEF StepsFit, EndFit, RequestType, Maker, Reads
<1>3. Item(r) \in Paths
  BY <1>1, <1>2, GivenItem
<1>4. CASE \E k \in 1 .. ChainLen(r) : tree[Chain(r, k)] \in Inodes
  <2>1. Goto(r, "failed")
    BY <1>4 DEF Mkdir
  <2>2. ~MakesOn(r)
    BY <1>1, <1>2 DEF MakesOn
  <2>3. QED
    BY <1>1, <1>2, <2>1, <2>2, Failing
<1>5. CASE \A k \in 1 .. ChainLen(r) : tree[Chain(r, k)] \notin Inodes
  <2>1. req' = [req EXCEPT ![r].pc = "make", ![r].made = m]
    BY <1>5 DEF Mkdir
  <2>2. m \in there \cup {0}
    <3>1. ChainLen(r) \in Nat
      BY <1>1, <1>2, <1>3, ChainMade
    <3>2. there \cup {0} \in SUBSET (0 .. ChainLen(r)) /\ there \cup {0} # {}
      BY <3>1
    <3> HIDE DEF there
    <3>3. QED
      BY <3>1, <3>2, MaxIs
  <2> HIDE DEF m
  <2>3. /\ \A s \in Reqs : s # r => req'[s] = req[s]
        /\ req'[r] = [req[r] EXCEPT !.pc = "make", !.made = m]
    BY <1>2, <2>1
  <2>4. /\ req'[r].pc = "make" /\ req'[r].made = m
        /\ req'[r].op = req[r].op /\ req'[r].items = req[r].items
        /\ req'[r].done = req[r].done /\ req'[r].hit = req[r].hit
    BY <1>2, <2>3 DEF RequestType
  <2>5. Within(r)
    BY <1>1, <1>2, <2>3, <2>4, WithinQuiet
  <2>6. EndFit(r)' /\ MakesOnwards(r)
    BY <1>1, <1>2, <2>4 DEF EndFit, MakesOnwards, MakesOn
  <2>7. ASSUME Alone(r) PROVE OwnFit(r)'
    <3>1. OwnPaths(r) /\ CreatingFit(r)
      BY <1>2, <2>7 DEF AloneFit, Accounted, OwnFit
    <3>2. OwnPaths(r)'
      <4>1. \A p : ~InHand(r, p)
        BY <1>1, <1>2 DEF InHand
      <4>2. View' = View
        BY <1>1 DEF View
      <4>3. QED
        BY <1>1, <2>4, <3>1, <4>1, <4>2, OwnPathsKept
    <3>3. MadePaths(req'[r]) = MadePaths(req[r])
      BY <2>4 DEF MadePaths, Needs, Targets
    <3>4. ASSUME NEW p \in MadePaths(req[r])
          PROVE  tree[p] \notin Inodes /\ (Len(p) < m => tree[p] = Dir)
      <4>1. /\ Len(p) + 1 \in 1 .. ChainLen(r) /\ p = Chain(r, Len(p) + 1)
            /\ p \in Paths /\ Len(p) \in Nat /\ p \in Seq(Names) /\ IsPrefix(p, Item(r))
        BY <1>1, <1>2, <1>3, ChainMade, MakerIs, Distinct
      <4>2. tree[p] \notin Inodes
        <5> DEFINE k == Len(p) + 1
        <5>1. k \in 1 .. ChainLen(r) /\ p = Chain(r, k)
          BY <4>1
        <5> HIDE DEF k
        <5>2. QED
          BY <1>5, <5>1
      <4>3. ASSUME Len(p) < m PROVE tree[p] = Dir
        <5> DEFINE c == Chain(r, m)
        <5>1. m \in 1 .. ChainLen(r) /\ tree[c] = Dir
          BY <2>2, <4>1, <4>3
        <5>2. c \in MadePaths(req[r]) /\ c \in Paths /\ Len(c) = m - 1
          BY <1>1, <1>2, <1>3, <5>1, ChainMade
        <5> HIDE DEF c
        <5>3. IsPrefix(c, Item(r)) /\ c \in Seq(Names) /\ Item(r) \in Seq(Names)
          BY <1>1, <1>2, <1>3, <5>2, MakerIs, Distinct
        <5>4. IsPrefix(p, c) \/ IsPrefix(c, p)
          BY <4>1, <5>3, PrefixOrder
        <5>5. CASE IsPrefix(c, p)
          <6>1. Len(c) <= Len(p) /\ Len(c) \in Nat
            BY <4>1, <5>3, <5>5, PrefixIs, LenProperties
          <6>2. m \in Nat
            BY <1>1, <1>2, <1>3, <5>1, ChainMade
          <6>3. Len(c) = Len(p)
            BY <4>1, <4>3, <5>2, <6>1, <6>2
          <6>4. c = p
            BY <4>1, <5>3, <5>5, <6>3, PrefixOrder
          <6>5. QED
            BY <5>1, <6>4 DEF c
        <5>6. CASE IsPrefix(p, c) /\ p # c
          <6>1. tree[c] # Absent /\ IsTree(tree)
            BY <5>1, Distinct DEF FilesInv, c
          <6>2. QED
            BY <4>1, <5>2, <5>6, <6>1, AboveIsDir
        <5>7. CASE p = c
          BY <5>1, <5>7 DEF c
        <5>8. QED
          BY <5>4, <5>5, <5>6, <5>7
      <4>4. QED
        BY <4>2, <4>3
    <3>5. MakingFit(r)'
      BY <1>1, <2>4, <3>3, <3>4 DEF MakingFit
    <3>6. WritingFit(r)'
      BY <2>4 DEF WritingFit
    <3>7. CreatingFit(r)'
      BY <1>1, <2>4, <3>1 DEF CreatingFit
    <3>8. QED
      BY <1>2, <2>4, <3>2, <3>5, <3>6, <3>7, OwnMakes
  <2>8. QED
    BY <2>5, <2>6, <2>7 DEF Moves, Accounted
<1>6. QED
  BY <1>4, <1>5

LEMMA MakeMoves ==
  ASSUME FilesInv, FilesInv', NEW r \in Reqs, EndFit(r), AloneFit(r), store' = store,
         Make(r)
  PROVE  Moves(r) /\ (Alone(r) => req'[r].pc = "make")
<1> DEFINE k == req[r].made + 1
           p == Chain(r, k)
<1>1. /\ req[r].pc = "make" /\ req[r].made < ChainLen(r) /\ r \in Busy
      /\ registered' = registered /\ data' = data
      /\ \/ tree' = tree /\ tree[p] = Dir /\ req' = [req EXCEPT ![r].made = k]
         \/ /\ tree[p] = Absent /\ tree' = [tree EXCEPT ![p] = Dir]
            /\ req' = [req EXCEPT ![r].made = k]
         \/ /\ tree[p] \in Inodes \/ ~InDir(p)
            /\ Goto(r, "failed") /\ tree' = tree
  BY DEF Make, At, Busy
<1>2. /\ req[r] \in RequestType /\ DOMAIN req = Reqs /\ Item(r) \in Paths
      /\ req[r].op \in {"create", "write", "folder"} /\ req[r].hit = FALSE
      /\ Maker(req[r]) /\ ~Reads(req[r]) /\ req[r].made \in Nat
  BY <1>1, BusyIs DEF StepsFit, ChecksFit, EndFit, RequestType, Maker, Reads, Item
<1>3. /\ p \in MadePaths(req[r]) /\ p \in Paths /\ Len(p) = req[r].made
      /\ \A q \in MadePaths(req[r]) : Len(q) = req[r].made => q = p
  <2>1. ChainLen(r) \in Nat
    BY <1>1, <1>2, ChainMade
  <2>2. k \in 1 .. ChainLen(r) /\ k - 1 = req[r].made
    BY <1>1, <1>2, <2>1
  <2>3. \A q \in MadePaths(req[r]) : Len(q) = req[r].made => q = p
    BY <1>1, <1>2, ChainMade
  <2> HIDE DEF k
  <2>4. Chain(r, k) \in MadePaths(req[r]) /\ Chain(r, k) \in Paths /\ Len(Chain(r, k)) = k - 1
    BY <1>1, <1>2, <2>2, ChainMade
  <2>5. QED
    BY <2>2, <2>3, <2>4
<1>4. /\ \A q : q \in MadePaths(req[r]) <=>
                  /\ q \in Paths /\ IsPrefix(q, Item(r))
                  /\ req[r].op = "write" => q # Item(r)
      /\ \A q : q \in Region(req[r]) <=> q \in Paths /\ IsPrefix(Item(r), q)
  BY <1>1, <1>2, MakerIs
<1> HIDE DEF p
<1>5. CASE (tree[p] \in Inodes \/ ~InDir(p)) /\ Goto(r, "failed") /\ tree' = tree
  <2>1. /\ \A s \in Reqs : s # r => req'[s] = req[s]
        /\ req'[r].pc = "failed" /\ req'[r].op = req[r].op /\ req'[r].items = req[r].items
        /\ req'[r].hit = req[r].hit
    BY <1>1, <1>5, GotoIs
  <2>2. Within(r)
    BY <1>1, <1>2, <1>5, <2>1, WithinQuiet
  <2>3. EndFit(r)'
    BY <1>2, <2>1 DEF EndFit
  <2>4. ~Alone(r)
    <3> SUFFICES ASSUME Alone(r) PROVE FALSE
      OBVIOUS
    <3>1. \A q \in MadePaths(req[r]) :
            tree[q] \notin Inodes /\ (Len(q) < req[r].made => tree[q] = Dir)
      BY <1>1, <1>2 DEF AloneFit, Accounted, OwnFit, MakingFit
    <3>2. tree[p] \notin Inodes /\ p # <<>> /\ tree[Front(p)] # Dir
      BY <1>3, <1>5, <3>1 DEF InDir
    <3>3. /\ Front(p) \in Paths /\ IsPrefix(Front(p), p) /\ Len(Front(p)) = Len(p) - 1
          /\ p \in Seq(Names) /\ Front(p) \in Seq(Names) /\ Item(r) \in Seq(Names)
      BY <1>2, <1>3, <3>2, Distinct, PrefixFront, FrontIs
    <3>4. IsPrefix(p, Item(r)) /\ IsPrefix(Front(p), Item(r))
      BY <1>3, <1>4, <3>3, PrefixOrder
    <3>5. Front(p) # Item(r)
      <4> SUFFICES ASSUME Front(p) = Item(r) PROVE FALSE
        OBVIOUS
      <4>1. Len(p) <= Len(Item(r)) /\ Len(p) \in Nat
        BY <3>3, <3>4, PrefixIs, LenProperties
      <4>2. QED
        BY <3>3, <4>1
    <3>6. Front(p) \in MadePaths(req[r])
      BY <1>4, <3>3, <3>4, <3>5
    <3>7. Len(Front(p)) < req[r].made
      BY <1>2, <1>3, <3>3
    <3>8. QED
      BY <3>1, <3>2, <3>6, <3>7
  <2>5. MakesOnwards(r)
    BY <1>1, <2>4 DEF MakesOnwards, Alone
  <2>6. QED
    BY <2>2, <2>3, <2>4, <2>5 DEF Moves, Accounted
<1>6. CASE /\ req' = [req EXCEPT ![r].made = k]
           /\ \/ tree' = tree /\ tree[p] = Dir
              \/ tree[p] = Absent /\ tree' = [tree EXCEPT ![p] = Dir]
  <2>1. /\ \A s \in Reqs : s # r => req'[s] = req[s]
        /\ req'[r] = [req[r] EXCEPT !.made = k]
    BY <1>2, <1>6
  <2>2. /\ req'[r].pc = "make" /\ req'[r].made = k
        /\ req'[r].op = req[r].op /\ req'[r].items = req[r].items
        /\ req'[r].done = req[r].done /\ req'[r].hit = req[r].hit
    BY <1>1, <1>2, <2>1 DEF RequestType
  <2>3. /\ tree'[p] = Dir /\ tree[p] \in {Absent, Dir}
        /\ \A q \in Paths : q # p => tree'[q] = tree[q]
    BY <1>3, <1>6 DEF FilesInv, IsTree
  <2>4. Within(r)
    BY <1>1, <1>2, <1>3, <2>1, <2>2, <2>3 DEF Within
  <2>5. EndFit(r)' /\ Item(r)' = Item(r)
    BY <1>2, <2>2 DEF EndFit, Item
  <2>6. MakesOnwards(r)
    <3> SUFFICES ASSUME \/ MakesOn(r)
                        \/ \E q \in Paths : q \notin Region(req[r]) /\ tree'[q] # tree[q],
                        req[r].op = "write"
                 PROVE  tree'[Item(r)] # Dir
      BY <2>2, <2>5 DEF MakesOnwards, MakesOn
    <3>1. p # Item(r) /\ IsPrefix(p, Item(r))
      BY <1>3, <1>4
    <3>2. tree'[Item(r)] = tree[Item(r)]
      BY <1>2, <2>3, <3>1
    <3>3. CASE MakesOn(r)
      BY <1>2, <3>2, <3>3 DEF MakesOn
    <3>4. CASE \E q \in Paths : q \notin Region(req[r]) /\ tree'[q] # tree[q]
      <4>1. tree[p] = Absent
        BY <2>3, <3>4
      <4>2. IsTree(tree)
        BY DEF FilesInv
      <4>3. tree[Item(r)] = Absent
        BY <1>2, <1>3, <3>1, <4>1, <4>2, AboveIsDir, Distinct
      <4>4. QED
        BY <3>2, <4>3, Distinct
    <3>5. QED
      BY <3>3, <3>4
  <2>7. ASSUME Alone(r) PROVE OwnFit(r)'
    <3>1. OwnPaths(r) /\ CreatingFit(r) /\ MakingFit(r)
      BY <1>2, <2>7 DEF AloneFit, Accounted, OwnFit
    <3>2. OwnPaths(r)'
      <4>1. ASSUME NEW q \in Region(req[r])
            PROVE  InHand(r, q)' \/ (View'[q] = View[q] /\ ~InHand(r, q))
        <5>1. q \in Paths /\ IsPrefix(Item(r), q)
          BY <1>4
        <5>2. InHand(r, q) <=> /\ req[r].op \in {"folder", "create"}
                               /\ q = Item(r) /\ tree[q] = Dir
          BY <1>1, <1>2 DEF InHand
        <5>3. InHand(r, q)' <=> /\ req[r].op \in {"folder", "create"}
                                /\ q = Item(r) /\ tree'[q] = Dir
          BY <1>2, <2>2, <2>5 DEF InHand
        <5>4. CASE q = p
          <6>1. p = Item(r) /\ req[r].op # "write"
            BY <1>2, <1>3, <1>4, <5>1, <5>4, Distinct, PrefixOrder
          <6>2. QED
            BY <1>2, <2>3, <5>3, <5>4, <6>1
        <5>5. CASE q # p
          BY <1>1, <2>3, <5>1, <5>2, <5>3, <5>5, ViewIs, ViewNext
        <5>6. QED
          BY <5>4, <5>5
      <4>2. QED
        BY <1>1, <2>2, <3>1, <4>1, OwnPathsKept
    <3>3. MadePaths(req'[r]) = MadePaths(req[r])
      BY <2>2 DEF MadePaths, Needs, Targets
    <3>4. ASSUME NEW q \in MadePaths(req[r])
          PROVE  tree'[q] \notin Inodes /\ (Len(q) < k => tree'[q] = Dir)
      <4>1. tree[q] \notin Inodes /\ (Len(q) < req[r].made => tree[q] = Dir)
        BY <1>1, <3>1 DEF MakingFit
      <4>2. q \in Paths /\ Len(q) \in Nat
        BY <1>4, Distinct
      <4>3. CASE q = p
        BY <2>3, <4>3, Distinct
      <4>4. CASE q # p
        <5>1. tree'[q] = tree[q] /\ Len(q) # req[r].made
          BY <1>3, <2>3, <4>2, <4>4
        <5>2. Len(q) < k => Len(q) < req[r].made
          BY <1>2, <4>2, <5>1
        <5>3. QED
          BY <4>1, <5>1, <5>2
      <4>5. QED
        BY <4>3, <4>4
    <3>5. MakingFit(r)'
      BY <2>2, <3>3, <3>4 DEF MakingFit
    <3>6. WritingFit(r)'
      BY <2>2 DEF WritingFit
    <3>7. CreatingFit(r)'
      BY <1>1, <2>2, <3>1 DEF CreatingFit
    <3>8. QED
      BY <1>2, <2>2, <3>2, <3>5, <3>6, <3>7, OwnMakes
  <2>8. QED
    BY <2>2, <2>4, <2>5, <2>6, <2>7 DEF Moves, Accounted
<1>7. QED
  BY <1>1, <1>5, <1>6

\* The directories of a request that nobody overlaps are all there now.
LEMMA MadeMoves ==
  ASSUME FilesInv, FilesInv', NEW r \in Reqs, EndFit(r), AloneFit(r), store' = store,
         Made(r)
  PROVE  Moves(r)
<1> DEFINE pc == CASE req[r].op = "write" -> "open_write"
                   [] req[r].op = "folder" -> "ok"
                   [] req[r].op = "create" -> "add"
<1>1. /\ req[r].pc = "make" /\ req[r].made = ChainLen(r) /\ r \in Busy
      /\ Goto(r, pc) /\ UNCHANGED <<registered, tree, data>>
  BY DEF Made, At, Busy
<1>2. /\ req[r] \in RequestType /\ DOMAIN req = Reqs /\ Item(r) \in Paths
      /\ req[r].op \in {"create", "write", "folder"} /\ req[r].hit = FALSE
      /\ Maker(req[r]) /\ ~Reads(req[r])
  BY <1>1, BusyIs DEF StepsFit, ChecksFit, EndFit, RequestType, Maker, Reads, Item
<1>3. /\ req[r].op = "write" => pc = "open_write"
      /\ req[r].op = "folder" => pc = "ok"
      /\ req[r].op = "create" => pc = "add"
  BY <1>2
<1> HIDE DEF pc
<1>4. /\ \A s \in Reqs : s # r => req'[s] = req[s]
      /\ req'[r].pc = pc /\ req'[r].op = req[r].op /\ req'[r].items = req[r].items
      /\ req'[r].done = req[r].done /\ req'[r].hit = req[r].hit /\ Item(r)' = Item(r)
  BY <1>1, GotoIs
<1>5. Within(r)
  BY <1>1, <1>2, <1>3, <1>4, WithinQuiet
<1>6. EndFit(r)' /\ MakesOnwards(r)
  BY <1>1, <1>2, <1>3, <1>4 DEF EndFit, MakesOnwards, MakesOn
<1>7. ASSUME Alone(r) PROVE OwnFit(r)'
  <2>1. OwnPaths(r) /\ CreatingFit(r) /\ MakingFit(r)
    BY <1>2, <1>7 DEF AloneFit, Accounted, OwnFit
  <2>2. OwnPaths(r)'
    <3>1. View' = View
      BY <1>1 DEF View
    <3>2. \A q : InHand(r, q)' <=> InHand(r, q)
      BY <1>1, <1>2, <1>3, <1>4 DEF InHand
    <3>3. \A q \in Region(req[r]) :
            InHand(r, q)' \/ (View'[q] = View[q] /\ ~InHand(r, q))
      BY <3>1, <3>2
    <3>4. QED
      BY <1>1, <1>4, <2>1, <3>3, OwnPathsKept
  <2>3. MadePaths(req'[r]) = MadePaths(req[r])
    BY <1>4 DEF MadePaths, Needs, Targets
  <2>4. ASSUME NEW q \in MadePaths(req[r]) PROVE tree[q] \notin Inodes /\ tree[q] = Dir
    <3>1. tree[q] \notin Inodes /\ (Len(q) < req[r].made => tree[q] = Dir)
      BY <1>1, <2>1 DEF MakingFit
    <3>2. /\ Len(q) + 1 \in 1 .. ChainLen(r) /\ ChainLen(r) \in Nat
          /\ q \in Paths /\ Len(q) \in Nat
      BY <1>1, <1>2, ChainMade, MakerIs, Distinct
    <3>3. Len(q) < req[r].made
      BY <1>1, <3>2
    <3>4. QED
      BY <3>1, <3>3
  <2>5. MakingFit(r)'
    BY <1>1, <2>3, <2>4 DEF MakingFit
  <2>6. WritingFit(r)'
    BY <1>2, <1>3, <1>4 DEF WritingFit
  <2>7. CreatingFit(r)'
    BY <1>1, <1>4, <2>1 DEF CreatingFit
  <2>8. req'[r].pc # "idle"
    BY <1>2, <1>3, <1>4
  <2>9. QED
    BY <1>2, <1>4, <2>2, <2>5, <2>6, <2>7, <2>8, OwnMakes
<1>8. QED
  BY <1>5, <1>6, <1>7 DEF Moves, Accounted

\* A file is opened only where no directory is, and replaces what was there.
LEMMA OpenWriteMoves ==
  ASSUME FilesInv, FilesInv', NEW r \in Reqs, EndFit(r), AloneFit(r), store' = store,
         OpenWrite(r)
  PROVE  Moves(r)
<1> DEFINE p == Item(r)
<1>1. req[r].pc = "open_write" /\ r \in Busy /\ registered' = registered
  BY DEF OpenWrite, At, Busy
<1>2. /\ req[r] \in RequestType /\ DOMAIN req = Reqs /\ p \in Paths
      /\ req[r].op = "write" /\ req[r].hit = FALSE
      /\ Maker(req[r]) /\ ~Reads(req[r])
  BY <1>1, BusyIs DEF StepsFit, ChecksFit, EndFit, RequestType, Maker, Reads, Item
<1>3. /\ \A q : q \in MadePaths(req[r]) <=> q \in Paths /\ IsPrefix(q, p) /\ q # p
      /\ \A q : q \in Region(req[r]) <=> q \in Paths /\ IsPrefix(p, q)
  BY <1>1, <1>2, MakerIs
<1>4. p \in Seq(Names) /\ IsPrefix(p, p) /\ p \in Region(req[r])
  BY <1>2, <1>3, Distinct, PrefixOrder
<1>5. CASE ~(InDir(p) /\ tree[p] # Dir)
  <2>1. Goto(r, "failed") /\ UNCHANGED <<registered, tree, data>>
    BY <1>1, <1>5 DEF OpenWrite
  <2>2. ASSUME r \notin clash PROVE ~MakesOn(r)
    <3>1. \A q \in MadePaths(req[r]) : tree[q] = Dir
      BY <1>1, <1>2, <2>2 DEF AloneFit, Accounted, Alone, OwnFit, MakingFit
    <3>2. InDir(p)
      <4> SUFFICES ASSUME p # <<>> PROVE tree[Front(p)] = Dir
        BY DEF InDir
      <4>1. Front(p) \in Paths /\ IsPrefix(Front(p), p) /\ Front(p) # p
        BY <1>2, <1>4, FilesAssumption, PrefixFront
      <4>2. QED
        BY <1>3, <3>1, <4>1
    <3>3. QED
      BY <1>2, <1>5, <3>2 DEF MakesOn
  <2>3. QED
    BY <1>1, <1>2, <2>1, <2>2, Failing
<1>6. CASE InDir(p) /\ tree[p] # Dir
  <2>1. PICK i \in Inodes :
          /\ IF tree[p] \in Inodes THEN i = tree[p] ELSE FreeInode(i)
          /\ tree' = [tree EXCEPT ![p] = i]
          /\ data' = [data EXCEPT ![i] = <<>>]
          /\ req' = [req EXCEPT ![r].pc = "write", ![r].ino = i]
    BY <1>6 DEF OpenWrite
  <2>2. /\ \A s \in Reqs : s # r => req'[s] = req[s]
        /\ req'[r] = [req[r] EXCEPT !.pc = "write", !.ino = i]
    BY <1>2, <2>1
  <2>3. /\ req'[r].pc = "write" /\ req'[r].ino = i
        /\ req'[r].op = req[r].op /\ req'[r].items = req[r].items
        /\ req'[r].done = req[r].done /\ req'[r].hit = req[r].hit
    BY <1>2, <2>2 DEF RequestType
  <2>4. /\ tree'[p] = i /\ data'[i] = <<>>
        /\ \A q \in Paths : q # p => tree'[q] = tree[q]
        /\ \A j \in Inodes : j # i => data'[j] = data[j]
    BY <1>2, <2>1 DEF FilesInv, IsTree
  <2>5. \A q \in Paths : tree[q] = i => q = p
    BY <1>2, <2>1 DEF FilesInv, IsTree, FreeInode
  <2>6. Within(r)
    BY <1>1, <1>2, <1>4, <2>2, <2>3, <2>4, <2>5 DEF Within
  <2>7. EndFit(r)' /\ Item(r)' = Item(r)
    BY <1>2, <2>3 DEF EndFit, Item
  <2>8. i # Dir
    BY Distinct
  <2>9. MakesOnwards(r)
    BY <2>3, <2>4, <2>7, <2>8 DEF MakesOnwards, MakesOn
  <2>10. ASSUME Alone(r) PROVE OwnFit(r)'
    <3>1. OwnPaths(r) /\ MakingFit(r)
      BY <1>2, <2>10 DEF AloneFit, Accounted, OwnFit
    <3>2. OwnPaths(r)'
      <4>1. \A q \in Region(req[r]) : InHand(r, q)'
        BY <1>2, <1>3, <2>3, <2>7 DEF InHand
      <4>2. QED
        BY <1>1, <2>3, <3>1, <4>1, OwnPathsKept
    <3>3. MadePaths(req'[r]) = MadePaths(req[r])
      BY <2>3 DEF MadePaths, Needs, Targets
    <3>4. \A q \in MadePaths(req[r]) : tree'[q] \notin Inodes /\ tree'[q] = Dir
      BY <1>1, <1>3, <2>4, <3>1 DEF MakingFit
    <3>5. MakingFit(r)'
      BY <3>3, <3>4 DEF MakingFit
    <3>6. WritingFit(r)'
      BY <2>3, <2>4, <2>7 DEF WritingFit
    <3>7. CreatingFit(r)'
      BY <1>2, <2>3 DEF CreatingFit
    <3>8. QED
      BY <1>2, <2>3, <3>2, <3>5, <3>6, <3>7, OwnMakes
  <2>11. QED
    BY <2>6, <2>7, <2>9, <2>10 DEF Moves, Accounted
<1>7. QED
  BY <1>5, <1>6

\* The blocks go to the file the path names; a short write is a failure.
LEMMA WriteMoves ==
  ASSUME FilesInv, FilesInv', NEW r \in Reqs, EndFit(r), AloneFit(r), store' = store,
         Write(r)
  PROVE  Moves(r)
<1> DEFINE i == req[r].ino
<1>1. /\ req[r].pc = "write" /\ r \in Busy /\ registered' = registered /\ tree' = tree
  BY DEF Write, At, Busy
<1>2. /\ req[r] \in RequestType /\ DOMAIN req = Reqs /\ Item(r) \in Paths
      /\ req[r].op = "write" /\ req[r].hit = FALSE /\ i \in Inodes
      /\ Maker(req[r]) /\ ~Reads(req[r]) /\ req[r].buf \in Seq(Blocks)
  BY <1>1, BusyIs DEF StepsFit, ChecksFit, EndFit, RequestType, Maker, Reads, Item
<1>3. PICK n \in 0 .. Len(req[r].buf) :
        /\ data' = [data EXCEPT ![i] = Overlay(data[i], SubSeq(req[r].buf, 1, n))]
        /\ \/ n = Len(req[r].buf) /\ Goto(r, "ok")
           \/ req' = [req EXCEPT ![r].pc = "failed", ![r].hit = TRUE]
  BY DEF Write
<1> HIDE DEF i
<1>4. /\ data'[i] = Overlay(data[i], SubSeq(req[r].buf, 1, n))
      /\ \A j \in Inodes : j # i => data'[j] = data[j]
  BY <1>2, <1>3 DEF FilesInv
<1>5. /\ \A s \in Reqs : s # r => req'[s] = req[s]
      /\ req'[r].op = req[r].op /\ req'[r].items = req[r].items /\ Item(r)' = Item(r)
      /\ \/ /\ n = Len(req[r].buf) /\ req'[r].pc = "ok"
            /\ req'[r].done = req[r].done /\ req'[r].hit = req[r].hit
            /\ req'[r].buf = req[r].buf
         \/ req'[r].pc = "failed" /\ req'[r].hit = TRUE
  <2>1. CASE n = Len(req[r].buf) /\ Goto(r, "ok")
    BY <1>1, <2>1, GotoIs
  <2>2. CASE req' = [req EXCEPT ![r].pc = "failed", ![r].hit = TRUE]
    <3>1. /\ \A s \in Reqs : s # r => req'[s] = req[s]
          /\ req'[r] = [req[r] EXCEPT !.pc = "failed", !.hit = TRUE]
      BY <1>2, <2>2
    <3>2. /\ req'[r].pc = "failed" /\ req'[r].hit = TRUE
          /\ req'[r].op = req[r].op /\ req'[r].items = req[r].items
          /\ req'[r].done = req[r].done
      BY <1>2, <3>1 DEF RequestType
    <3>3. QED
      BY <3>1, <3>2 DEF Item
  <2>3. QED
    BY <1>3, <2>1, <2>2
<1>6. /\ \A q : q \in MadePaths(req[r]) <=> q \in Paths /\ IsPrefix(q, Item(r)) /\ q # Item(r)
      /\ \A q : q \in Region(req[r]) <=> q \in Paths /\ IsPrefix(Item(r), q)
  BY <1>1, <1>2, MakerIs
<1>7. r \notin clash => tree[Item(r)] = i /\ data[i] = <<>> /\ OwnFit(r)
  BY <1>1, <1>2 DEF AloneFit, Accounted, Alone, OwnFit, WritingFit, i
<1>8. Within(r)
  <2>1. Item(r) \in Region(req[r])
    BY <1>2, <1>6, Distinct, PrefixOrder
  <2>2. r \notin clash => \A q \in Paths : tree[q] = i => q \in Region(req[r])
    BY <1>2, <1>7, <2>1 DEF FilesInv, IsTree
  <2>3. \A j \in Inodes :
          \/ data'[j] = data[j]
          \/ r \in clash /\ req[r].op = "write"
          \/ \A q \in Paths : tree[q] = j => q \in Region(req[r])
    BY <1>2, <1>4, <2>2
  <2>4. req'[r].pc # "idle" /\ (req[r].hit => req'[r].hit)
    BY <1>2, <1>5
  <2>5. QED
    BY <1>1, <1>2, <1>5, <2>3, <2>4 DEF Within
<1>9. EndFit(r)' /\ MakesOnwards(r)
  <2>1. EndFit(r)'
    BY <1>2, <1>5 DEF EndFit
  <2>2. MakesOnwards(r)
    BY <1>1, <1>2, <1>5 DEF MakesOnwards, MakesOn
  <2>3. QED
    BY <2>1, <2>2
<1>10. ASSUME Alone(r), ~req'[r].hit PROVE OwnFit(r)'
  <2>1. /\ n = Len(req[r].buf) /\ req'[r].pc = "ok" /\ req'[r].buf = req[r].buf
        /\ req'[r].done = req[r].done
    BY <1>5, <1>10
  <2>2. OwnPaths(r) /\ MakingFit(r) /\ tree[Item(r)] = i /\ data[i] = <<>>
    BY <1>7, <1>10 DEF Alone, OwnFit
  <2>3. OwnPaths(r)'
    <3>1. \A q \in Region(req[r]) : InHand(r, q)'
      BY <1>2, <1>5, <1>6, <2>1 DEF InHand
    <3>2. QED
      BY <1>1, <1>5, <2>1, <2>2, <3>1, OwnPathsKept
  <2>4. MakingFit(r)'
    <3>1. MadePaths(req'[r]) = MadePaths(req[r])
      BY <1>5 DEF MadePaths, Needs, Targets
    <3>2. QED
      BY <1>1, <2>1, <2>2, <3>1 DEF MakingFit
  <2>5. data'[i] = req[r].buf
    <3>1. SubSeq(req[r].buf, 1, n) = req[r].buf
      BY <1>2, <2>1, SubSeqFull
    <3>2. QED
      BY <1>2, <1>4, <2>2, <3>1, OverlayType
  <2>6. WritingFit(r)'
    BY <1>1, <1>2, <1>5, <2>1, <2>2, <2>5 DEF WritingFit
  <2>7. CreatingFit(r)'
    BY <1>2, <1>5 DEF CreatingFit
  <2>8. req'[r].pc # "idle"
    BY <2>1
  <2>9. QED
    BY <1>2, <1>5, <2>3, <2>4, <2>6, <2>7, <2>8, OwnMakes
<1>11. Accounted(req'[r]) => ~req'[r].hit
  BY <1>2, <1>5 DEF Accounted, Reads
<1>12. QED
  BY <1>8, <1>9, <1>10, <1>11 DEF Moves

\* A creation that nothing overlaps finds no other server under its UUID.
LEMMA AddServerMoves ==
  ASSUME FilesInv, FilesInv', NEW r \in Reqs, EndFit(r), AloneFit(r), store' = store,
         AddServer(r)
  PROVE  Moves(r) /\ (Alone(r) => req'[r].pc = "ok")
<1> DEFINE pc == IF registered THEN "failed" ELSE "ok"
<1>1. /\ req[r].pc = "add" /\ r \in Busy /\ tree' = tree /\ data' = data
      /\ registered' = TRUE /\ Goto(r, pc)
  BY DEF AddServer, At, Busy
<1>2. /\ req[r].op = "create" /\ req[r].hit = FALSE /\ Maker(req[r]) /\ ~Reads(req[r])
  BY <1>1, BusyIs DEF StepsFit, EndFit, RequestType, Maker, Reads
<1>3. /\ pc \in {"failed", "ok"} /\ (registered = FALSE => pc = "ok")
      /\ Item(r) \in Paths
  BY <1>1, <1>2, CreatesAll
<1> HIDE DEF pc
<1>4. /\ \A s \in Reqs : s # r => req'[s] = req[s]
      /\ req'[r].pc = pc /\ req'[r].op = req[r].op /\ req'[r].items = req[r].items
      /\ req'[r].done = req[r].done /\ req'[r].hit = req[r].hit /\ Item(r)' = Item(r)
  BY <1>1, GotoIs
<1>5. Within(r) /\ EndFit(r)'
  <2>1. req'[r].pc # "idle"
    BY <1>3, <1>4
  <2>2. EndFit(r)'
    BY <1>2, <1>3, <1>4 DEF EndFit
  <2>3. QED
    BY <1>1, <1>2, <1>4, <2>1, <2>2, WithinQuiet
<1>6. Alone(r) => pc = "ok"
  BY <1>1, <1>2, <1>3 DEF AloneFit, Accounted, OwnFit, CreatingFit
<1>7. MakesOnwards(r)
  BY <1>1, <1>2, <1>4, <1>6 DEF MakesOnwards, MakesOn, Alone
<1>8. ASSUME Alone(r) PROVE OwnFit(r)'
  <2>1. OwnPaths(r) /\ MakingFit(r) /\ pc = "ok"
    BY <1>2, <1>6, <1>8 DEF AloneFit, Accounted, OwnFit
  <2>2. OwnPaths(r)'
    <3>1. View' = View
      BY <1>1 DEF View
    <3>2. \A q : InHand(r, q)' <=> InHand(r, q)
      BY <1>1, <1>2, <1>4, <2>1 DEF InHand
    <3>3. \A q \in Region(req[r]) :
            InHand(r, q)' \/ (View'[q] = View[q] /\ ~InHand(r, q))
      BY <3>1, <3>2
    <3>4. QED
      BY <1>1, <1>4, <2>1, <3>3, OwnPathsKept
  <2>3. MakingFit(r)'
    <3>1. MadePaths(req'[r]) = MadePaths(req[r])
      BY <1>4 DEF MadePaths, Needs, Targets
    <3>2. QED
      BY <1>1, <1>4, <2>1, <3>1 DEF MakingFit
  <2>4. WritingFit(r)' /\ CreatingFit(r)'
    BY <1>2, <1>4, <2>1 DEF WritingFit, CreatingFit
  <2>5. req'[r].pc # "idle"
    BY <1>4, <2>1
  <2>6. QED
    BY <1>2, <1>4, <2>2, <2>3, <2>4, <2>5, OwnMakes
<1>9. QED
  BY <1>4, <1>5, <1>6, <1>7, <1>8 DEF Moves, Accounted

-----------------------------------------------------------------------------
(* Requests that go on, and new ones                                       *)

\* Only an answer ends a request.
LEMMA StaysBusy ==
  ASSUME FilesInv, NEW r \in Reqs, CallFails(r) \/ (Handler(r) /\ ~Reply(r)), History
  PROVE  store' = store
<1>1. req[r].pc # "idle"
  BY DEF CallFails, Handler, Reply, Refused, Escapes, Mkdir, Make, Made, OpenWrite,
     Write, RemoveAll, RemoveName, Removed, RemoveFails, Rename, Open, Copy, List, Info,
     InfoFails, AddServer, RemoveServer, At
<1>2. /\ r \in Busy /\ req[r] \in RequestType /\ DOMAIN req = Reqs
      /\ StepsFit(req[r])
  BY <1>1, UnderWay DEF Busy
<1>3. \A pc : Goto(r, pc) => /\ \A s \in Reqs : s # r => req'[s] = req[s]
                             /\ req'[r].pc = pc
  BY <1>2, GotoIs
<1>4. \A next : ItemDone(r, next) => /\ \A s \in Reqs : s # r => req'[s] = req[s]
                                     /\ req'[r].pc \in {"ok", next}
  BY <1>2, ItemDoneIs
<1>5. /\ \A s \in Reqs : s # r => req'[s] = req[s]
      /\ req'[r].pc # "idle"
  <2>1. CASE Refused(r)
    BY <1>3, <2>1, OnErrorIs DEF Refused
  <2>2. CASE CallFails(r)
    <3>1. /\ \A s \in Reqs : s # r => req'[s] = req[s]
          /\ req'[r] = [req[r] EXCEPT !.hit = TRUE, !.pc = OnError(r)]
      BY <1>2, <2>2 DEF CallFails
    <3>2. req'[r].pc = OnError(r)
      BY <1>2, <3>1 DEF RequestType
    <3>3. QED
      BY <3>1, <3>2, OnErrorIs
  <2>3. CASE Mkdir(r)
    BY <1>2, <1>3, <2>3 DEF Mkdir, RequestType
  <2>4. CASE Make(r)
    BY <1>1, <1>2, <1>3, <2>4 DEF Make, RequestType
  <2>5. CASE Made(r)
    <3>1. req[r].op \in {"create", "write", "folder"}
      BY <1>2, <2>5 DEF Made, At, StepsFit
    <3>2. Goto(r, "open_write") \/ Goto(r, "ok") \/ Goto(r, "add")
      BY <2>5, <3>1 DEF Made
    <3>3. QED
      BY <1>3, <3>2
  <2>6. CASE OpenWrite(r)
    BY <1>2, <1>3, <2>6 DEF OpenWrite, RequestType
  <2>7. CASE Write(r)
    BY <1>2, <1>3, <2>7 DEF Write, RequestType
  <2>8. CASE RemoveAll(r)
    BY <1>2, <1>3, <2>8 DEF RemoveAll, RequestType
  <2>9. CASE RemoveName(r)
    BY <1>1, <2>9 DEF RemoveName
  <2>10. CASE Removed(r)
    BY <1>3, <1>4, <2>10 DEF Removed
  <2>11. CASE RemoveFails(r)
    BY <1>3, <2>11, OnErrorIs DEF RemoveFails
  <2>12. CASE Rename(r)
    BY <1>3, <1>4, <2>12 DEF Rename
  <2>13. CASE Open(r)
    BY <1>2, <1>3, <2>13, OnErrorIs DEF Open, RequestType
  <2>14. CASE Copy(r)
    BY <1>1, <1>2, <1>3, <2>14 DEF Copy, RequestType
  <2>15. CASE List(r)
    BY <1>2, <1>3, <2>15 DEF List, RequestType
  <2>16. CASE Info(r)
    <3>1. CASE req[r].seen = {}
      BY <1>3, <2>16, <3>1 DEF Info
    <3>2. CASE req[r].seen # {}
      <4>1. PICK q \in req[r].seen :
              req' = [req EXCEPT ![r].seen = @ \ {q},
                        ![r].found = IF Present(q) THEN @ \cup {q} ELSE @]
        BY <2>16, <3>2 DEF Info
      <4>2. /\ \A s \in Reqs : s # r => req'[s] = req[s]
            /\ req'[r] = [req[r] EXCEPT !.seen = @ \ {q},
                            !.found = IF Present(q) THEN @ \cup {q} ELSE @]
        BY <1>2, <4>1
      <4>3. req'[r].pc = req[r].pc
        BY <1>2, <4>2 DEF RequestType
      <4>4. QED
        BY <1>1, <4>2, <4>3
    <3>3. QED
      BY <3>1, <3>2
  <2>17. CASE AddServer(r)
    BY <1>3, <2>17 DEF AddServer
  <2>18. CASE RemoveServer(r)
    BY <1>3, <2>18 DEF RemoveServer
  <2>19. CASE InfoFails(r)
    <3>1. PICK q \in req[r].seen : req' = [req EXCEPT ![r].seen = @ \ {q}, ![r].hit = TRUE]
      BY <2>19 DEF InfoFails
    <3>2. /\ \A s \in Reqs : s # r => req'[s] = req[s]
          /\ req'[r] = [req[r] EXCEPT !.seen = @ \ {q}, !.hit = TRUE]
      BY <1>2, <3>1
    <3>3. req'[r].pc = req[r].pc
      BY <1>2, <3>2 DEF RequestType
    <3>4. QED
      BY <1>1, <3>2, <3>3
  <2>20. QED
    BY <2>1, <2>2, <2>3, <2>4, <2>5, <2>6, <2>7, <2>8, <2>9, <2>10, <2>11, <2>12,
       <2>13, <2>14, <2>15, <2>16, <2>17, <2>18, <2>19 DEF Handler
<1>6. Busy \subseteq Busy'
  BY <1>5 DEF Busy
<1>7. QED
  BY <1>6 DEF History

LEMMA HandlerMoves ==
  ASSUME FilesInv, FilesInv', NEW r \in Reqs, EndFit(r), AloneFit(r),
         CallFails(r) \/ (Handler(r) /\ ~Reply(r)), store' = store
  PROVE  Moves(r)
  BY RefusedMoves, CallFailsMoves, MkdirMoves, MakeMoves, MadeMoves, OpenWriteMoves,
     WriteMoves, RemoveAllMoves, RemoveNameMoves, RemovedMoves, RemoveFailsMoves,
     RenameMoves, OpenMoves, CopyMoves, ListMoves, InfoMoves, InfoFailsMoves, AddServerMoves,
     RemoveServerMoves DEF Handler

LEMMA HandlerStep ==
  ASSUME StoreInv, FilesInv', NEW r \in Reqs,
         CallFails(r) \/ (Handler(r) /\ ~Reply(r)), History
  PROVE  StoreInv'
<1>1. FilesInv /\ ClashFit /\ Elsewhere /\ \A s \in Reqs : EndFit(s) /\ AloneFit(s)
  BY DEF StoreInv
<1>2. Moves(r)
  BY <1>1, StaysBusy, HandlerMoves
<1>3. /\ Within(r) /\ MakesOnwards(r) /\ EndFit(r)'
      /\ Alone(r) /\ Accounted(req'[r]) => OwnFit(r)'
  BY <1>2 DEF Moves
<1>4. ClashFit' /\ \A s \in clash : s \in Busy' => s \in clash'
  BY <1>1, <1>3, WithinHistory, ClashGrows
<1>5. Elsewhere'
  BY <1>1, <1>3, ElsewhereStays
<1>6. AloneFit(r)'
  <2>1. Alone(r)' => Alone(r)
    BY <1>1, <1>3, <1>4, WithinHistory DEF Alone
  <2>2. QED
    BY <1>3, <2>1 DEF AloneFit
<1>7. \A s \in Reqs : s # r => AloneFit(s)'
  BY <1>1, <1>3, OthersStay
<1>8. \A s \in Reqs : s # r => EndFit(s)'
  <2> TAKE s \in Reqs
  <2> HAVE s # r
  <2>1. req'[s] = req[s] /\ EndFit(s)
    BY <1>1, <1>3 DEF Within
  <2>2. Item(s)' = Item(s)
    BY <2>1 DEF Item
  <2>3. QED
    BY <2>1, <2>2 DEF EndFit
<1>9. QED
  BY <1>3, <1>4, <1>5, <1>6, <1>7, <1>8 DEF StoreInv

\* A request that comes in finds its paths as the store has them, unless it
\* overlaps others.
LEMMA RequestStep ==
  ASSUME StoreInv, FilesInv', NEW r \in Reqs, NEW op \in Ops, Request(r, op), History
  PROVE  StoreInv'
<1>1. /\ FilesInv /\ ClashFit /\ Elsewhere /\ \A s \in Reqs : EndFit(s) /\ AloneFit(s)
      /\ op \in OpNames
  BY FilesAssumption DEF StoreInv
<1>2. PICK items \in Items(op), c \in (IF op = "write" THEN Contents ELSE {<<>>}) :
        req' = [req EXCEPT ![r] = [Idle EXCEPT !.pc = FirstPc(op), !.op = op,
                                               !.items = items, !.buf = c]]
  BY DEF Request
<1>3. /\ req[r].pc = "idle" /\ registered = (op # "create")
      /\ registered' = registered /\ tree' = tree /\ data' = data
  BY DEF Request, At
<1>4. /\ req'[r] = [Idle EXCEPT !.pc = FirstPc(op), !.op = op, !.items = items, !.buf = c]
      /\ \A s \in Reqs : s # r => req'[s] = req[s]
  <2>1. req = [s \in Reqs |-> req[s]]
    BY <1>1 DEF FilesInv
  <2>2. DOMAIN req = Reqs
    BY <2>1
  <2>3. QED
    BY <1>2, <2>2
<1>5. /\ req'[r].pc = FirstPc(op) /\ req'[r].op = op /\ req'[r].items = items
      /\ req'[r].done = 0 /\ req'[r].hit = FALSE /\ req'[r].buf = c /\ req'[r].found = {}
  BY <1>4 DEF Idle
<1>6. /\ FirstPc(op) \in {"mkdir", "remove", "rename", "open", "list"}
      /\ FirstPc(op) = "open" => op \in {"read", "download"}
  BY <1>1 DEF FirstPc, OpNames
<1>7. /\ r \in Busy' /\ r \notin Busy /\ Busy \subseteq Busy'
      /\ \A s \in Busy' : s # r => s \in Busy
      /\ \A s \in Busy : s # r /\ s \in Reqs /\ req'[s] = req[s] /\ Item(s)' = Item(s)
  <2>1. r \in Busy' /\ r \notin Busy
    BY <1>3, <1>5, <1>6 DEF Busy
  <2>2. Busy \subseteq Busy' /\ \A s \in Busy' : s # r => s \in Busy
    BY <1>4, <2>1 DEF Busy
  <2>3. QED
    BY <1>4, <2>1, <2>2 DEF Item, Busy
<1>8. store' = store /\ clash' = Clashing(req')
  BY <1>7 DEF History
<1>9. ClashFit' /\ \A s \in clash : s \in Busy' => s \in clash'
  BY <1>8, ClashGrows
<1>10. \A s \in Busy : Changes(req[s]) => \A p \in Owned(s) : p \in Owned(s)'
  <2> SUFFICES ASSUME NEW s \in Busy, NEW p \in Owned(s) PROVE p \in Owned(s)'
    OBVIOUS
  <2>1. CASE s \in clash /\ req[s].op = "write"
    BY <1>7, <1>9, <2>1 DEF Owned
  <2>2. CASE ~(s \in clash /\ req[s].op = "write")
    <3>1. p \in Region(req[s]) /\ p \in Paths
      BY <1>1, <2>2, BusyIs, RegionIs DEF Owned
    <3>2. QED
      BY <1>7, <3>1 DEF Owned
  <2>3. QED
    BY <2>1, <2>2
<1>11. \A s \in Reqs : \A p : Making(s, p) => Making(s, p)'
  <2> SUFFICES ASSUME NEW s \in Reqs, NEW p, Making(s, p) PROVE Making(s, p)'
    OBVIOUS
  <2>1. s \in Busy
    BY DEF Making
  <2>2. MakesOn(s)' <=> MakesOn(s)
    BY <1>3, <1>7, <2>1 DEF MakesOn
  <2>3. QED
    BY <1>3, <1>7, <1>9, <2>1, <2>2 DEF Making
<1>12. Elsewhere'
  <2> SUFFICES ASSUME NEW p \in Paths, store'[p] # Unknown,
                      \A s \in Busy' : Changes(req'[s]) => p \notin Owned(s)'
               PROVE  View'[p] = store'[p] \/ \E s \in Reqs : Making(s, p)'
    BY DEF Elsewhere
  <2>1. \A s \in Busy : Changes(req[s]) => p \notin Owned(s)
    BY <1>7, <1>10
  <2>2. View[p] = store[p] \/ \E s \in Reqs : Making(s, p)
    BY <1>8, <2>1, <1>1 DEF Elsewhere
  <2>3. View'[p] = View[p]
    BY <1>3, ViewIs, ViewNext
  <2>4. QED
    BY <1>8, <1>11, <2>2, <2>3
<1>13. \A s \in Reqs : EndFit(s)'
  <2> TAKE s \in Reqs
  <2>1. CASE s = r
    BY <1>5, <1>6, <2>1 DEF EndFit
  <2>2. CASE s # r
    <3>1. req'[s] = req[s] /\ Item(s)' = Item(s) /\ EndFit(s)
      BY <1>1, <1>4, <2>2 DEF Item
    <3>2. QED
      BY <3>1 DEF EndFit
  <2>3. QED
    BY <2>1, <2>2
<1>14. ASSUME NEW s \in Reqs, s # r PROVE AloneFit(s)'
  <2> SUFFICES ASSUME Alone(s)', Accounted(req'[s]) PROVE OwnFit(s)'
    BY DEF AloneFit, Accounted
  <2>1. s \in Busy /\ s \notin clash /\ req'[s] = req[s]
    BY <1>7, <1>9, <1>14 DEF Alone
  <2>2. OwnFit(s) /\ EndFit(s)
    BY <1>1, <2>1 DEF AloneFit, Accounted, Alone
  <2>3. QED
    BY <1>1, <1>3, <1>8, <2>1, <2>2, OthersFit
<1>15. ASSUME Alone(r)' PROVE OwnFit(r)'
  <2>1. OwnPaths(r)'
    <3> SUFFICES ASSUME Changes(req'[r]), NEW p \in Region(req'[r]), Left(r)'[p] # Unknown
                 PROVE  View'[p] = Left(r)'[p]
      BY DEF OwnPaths
    <3>1. Left(r)' = store
      <4>1. Sound(req'[r]) /\ req'[r].pc # "idle"
        BY <1>5, <1>6 DEF FilesInv
      <4>2. req'[r].items \in Seq(Given) \/ req'[r].items \in Seq(Given \X Given)
        BY <4>1 DEF Sound, ItemsFit
      <4>3. BatchDone(store, req'[r], 0) = store
        BY <4>2, BatchOf
      <4>4. QED
        BY <1>5, <1>8, <4>3 DEF Left
    <3>2. ~Reads(req'[r])
      BY DEF Reads, Changes
    <3>3. ASSUME NEW s \in Busy
          PROVE  p \notin Region(req[s]) /\ p \notin Needs(req[s])
      <4>1. s # r /\ s \in Busy' /\ req'[s] = req[s] /\ req[s].pc # "idle"
        BY <1>7 DEF Busy
      <4>2. ~Conflict(req'[r], req'[s])
        BY <1>7, <1>9, <1>15, <4>1 DEF ClashFit, Alone
      <4>3. Region(req'[r]) \cap (Region(req[s]) \cup Needs(req[s])) = {}
        BY <1>5, <1>6, <3>2, <4>1, <4>2 DEF Conflict
      <4>4. QED
        BY <4>3
    <3>4. p \in Paths
      <4>1. Sound(req'[r]) /\ req'[r].pc # "idle"
        BY <1>5, <1>6 DEF FilesInv
      <4>2. Targets(req'[r]) \subseteq Paths
        BY <4>1, TargetsIn DEF Sound
      <4>3. QED
        BY <4>2, RegionIs
    <3>5. ASSUME NEW s \in Busy, Changes(req[s]) PROVE p \notin Owned(s)
      <4>1. ~(s \in clash /\ req[s].op = "write")
        BY <1>7, <1>9, <1>15, <3>5 DEF ClashFit, Alone
      <4>2. QED
        BY <3>3, <4>1 DEF Owned
    <3>6. ASSUME NEW s \in Reqs PROVE ~Making(s, p)
      <4> SUFFICES ASSUME s \in Busy, p \in MadePaths(req[s]) PROVE FALSE
        BY DEF Making
      <4>1. p \in Needs(req[s]) \/ p \in Region(req[s])
        BY <1>1, BusyIs, MadeIs
      <4>2. QED
        BY <3>3, <4>1
    <3>7. store[p] # Unknown => View[p] = store[p]
      BY <1>1, <3>4, <3>5, <3>6 DEF Elsewhere
    <3>8. View'[p] = View[p]
      BY <1>3, <3>4, ViewIs, ViewNext
    <3>9. QED
      BY <3>1, <3>7, <3>8
  <2>2. MakingFit(r)' /\ WritingFit(r)' /\ RemovingFit(r)' /\ ListingFit(r)'
    BY <1>5, <1>6 DEF MakingFit, WritingFit, RemovingFit, ListingFit
  <2>3. ReadingFit(r)'
    BY <1>5, <1>6 DEF ReadingFit
  <2>4. CreatingFit(r)'
    BY <1>3, <1>5 DEF CreatingFit
  <2>5. QED
    BY <2>1, <2>2, <2>3, <2>4 DEF OwnFit
<1>16. \A s \in Reqs : AloneFit(s)'
  BY <1>14, <1>15 DEF AloneFit, Accounted
<1>17. QED
  BY <1>9, <1>12, <1>13, <1>16 DEF StoreInv

-----------------------------------------------------------------------------
(* The answer                                                              *)

\* What the store becomes when a request is answered.
Answered(r) ==
  IF r \in clash /\ ~Reads(req[r]) THEN Forgets(store, Touched(r))
                                  ELSE Settled(store, req[r])

\* At the end of its request, a path is as the store is told, or the request
\* has nothing to do with it.
Told(r, p) ==
  Answered(r)[p] # Unknown =>
    \/ View[p] = Answered(r)[p]
    \/ /\ Answered(r)[p] = store[p] /\ (Changes(req[r]) => p \notin Owned(r))
       /\ ~Making(r, p)

\* Paths of which nothing is known any more.
LEMMA ForgottenTold ==
  ASSUME FilesInv, NEW r \in Busy, NEW F, Answered(r) = Forgets(store, F),
         \A p \in Region(req[r]) : p \in F, \A p \in Needs(req[r]) : p \in F,
         \A p \in Owned(r) : p \in F,
         \/ r \in clash /\ req[r].op = "write"
         \/ \A p \in F : p \in Region(req[r]) \/ p \in Needs(req[r])
  PROVE  \A p \in Paths :
           /\ Told(r, p)
           /\ \/ r \in clash /\ req[r].op = "write"
              \/ p \in Region(req[r]) \/ p \in Needs(req[r])
              \/ Answered(r)[p] = store[p]
<1> TAKE p \in Paths
<1>1. Answered(r)[p] = IF p \in F THEN Unknown ELSE store[p]
  BY DEF Forgets
<1>2. p \notin F => p \notin MadePaths(req[r])
  BY BusyIs, MadeIs
<1>3. Told(r, p)
  BY <1>1, <1>2 DEF Told, Making
<1>4. QED
  BY <1>1, <1>3

LEMMA ReadTold ==
  ASSUME FilesInv, NEW r \in Busy, Reads(req[r])
  PROVE  \A p \in Paths : Told(r, p) /\ Answered(r)[p] = store[p]
<1>1. /\ ~Changes(req[r]) /\ ~Maker(req[r])
      /\ req[r].op \in {"list", "read", "download"}
  BY DEF Reads, Changes, Maker
<1>2. /\ req[r].done = 0
      /\ req[r].items \in Seq(Given) \/ req[r].items \in Seq(Given \X Given)
  BY <1>1, BusyIs DEF ItemsFit
<1>3. Answered(r) = BatchDone(store, req[r], req[r].done)
  BY <1>1 DEF Answered, Settled, DoneItems
<1>4. Answered(r) = store
  BY <1>2, <1>3, BatchOf
<1>5. QED
  BY <1>1, <1>4 DEF Told, Making

LEMMA DropTold ==
  ASSUME FilesInv, NEW r \in Busy, r \notin clash, req[r].op = "drop", ~req[r].hit,
         req[r].pc \in {"ok", "failed"}, OwnFit(r)
  PROVE  \A p \in Paths : Told(r, p) /\ p \in Region(req[r])
<1> TAKE p \in Paths
<1>1. Answered(r) = Deletes(store, <<>>)
  BY DEF Answered, Settled
<1>2. p \in Region(req[r]) /\ IsPrefix(<<>>, p)
  BY CreatesAll
<1>3. Answered(r)[p] = Absent
  BY <1>1, <1>2 DEF Deletes
<1>4. tree[p] = Absent
  BY DEF OwnFit, RemovingFit
<1>5. View[p] = Absent
  BY <1>4, Distinct, ViewIs
<1>6. QED
  BY <1>2, <1>3, <1>5 DEF Told

LEMMA BatchTold ==
  ASSUME FilesInv, NEW r \in Busy, r \notin clash, req[r].op \in {"delete", "rename"},
         ~req[r].hit, req[r].pc \in {"ok", "failed"}, OwnFit(r)
  PROVE  \A p \in Paths : /\ Told(r, p)
                          /\ p \in Region(req[r]) \/ Answered(r)[p] = store[p]
<1> TAKE p \in Paths
<1>1. /\ req[r] \in RequestType /\ ItemsFit(req[r]) /\ DoneFit(req[r])
      /\ Changes(req[r]) /\ ~Maker(req[r])
  BY BusyIs DEF Changes, Maker
<1>2. Answered(r) = Left(r)
  BY DEF Answered, Settled, DoneItems, Left
<1>3. CASE p \in Region(req[r])
  <2>1. ~InHand(r, p)
    BY DEF InHand
  <2>2. Left(r)[p] # Unknown => View[p] = Left(r)[p]
    BY <1>1, <1>3, <2>1 DEF OwnFit, OwnPaths
  <2>3. QED
    BY <1>2, <1>3, <2>2 DEF Told
<1>4. CASE p \notin Region(req[r])
  <2>1. Left(r)[p] = store[p]
    BY <1>1, <1>4, BatchLocal DEF Left
  <2>2. QED
    BY <1>1, <1>2, <1>4, <2>1 DEF Told, Owned, Making
<1>5. QED
  BY <1>3, <1>4

LEMMA FailedTold ==
  ASSUME FilesInv, NEW r \in Busy, r \notin clash, Maker(req[r]), ~req[r].hit,
         req[r].pc = "failed", OwnFit(r)
  PROVE  \A p \in Paths : Told(r, p) /\ Answered(r)[p] = store[p]
<1> TAKE p \in Paths
<1>1. /\ Changes(req[r]) /\ req[r].done = 0 /\ req[r].op \in {"create", "folder", "write"}
      /\ req[r].items \in Seq(Given) \/ req[r].items \in Seq(Given \X Given)
  BY BusyIs DEF Changes, Maker, ItemsFit
<1>2. Answered(r) = BatchDone(store, req[r], req[r].done)
  BY <1>1 DEF Answered, Settled, DoneItems
<1>3. Answered(r) = store /\ Left(r) = store
  BY <1>1, <1>2, BatchOf DEF Left
<1>4. CASE p \in Region(req[r])
  <2>1. ~InHand(r, p)
    BY <1>1 DEF InHand
  <2>2. Left(r)[p] # Unknown => View[p] = Left(r)[p]
    BY <1>1, <1>4, <2>1 DEF OwnFit, OwnPaths
  <2>3. QED
    BY <1>3, <2>2 DEF Told
<1>5. CASE p \notin Region(req[r])
  <2>1. ~MakesOn(r)
    BY DEF MakesOn
  <2>2. QED
    BY <1>3, <1>5, <2>1 DEF Told, Owned, Making
<1>6. QED
  BY <1>3, <1>4, <1>5

LEMMA MadeTold ==
  ASSUME FilesInv, NEW r \in Busy, r \notin clash, Maker(req[r]), ~req[r].hit,
         req[r].pc = "ok", EndFit(r), OwnFit(r)
  PROVE  \A p \in Paths :
           /\ Told(r, p)
           /\ p \in Region(req[r]) \/ p \in Needs(req[r]) \/ Answered(r)[p] = store[p]
<1> TAKE p \in Paths
<1> DEFINE i == Item(r)
<1>1. /\ Changes(req[r]) /\ req[r].op \in {"create", "folder", "write"}
      /\ req[r].items \in Seq(Given) \/ req[r].items \in Seq(Given \X Given)
      /\ i = req[r].items[1] /\ Len(req[r].items) = 1
  BY BusyIs, OneTarget DEF Changes, Maker, ItemsFit
<1>2. i \in Paths /\ i \in Seq(Names) /\ p \in Seq(Names)
  BY <1>1, Distinct DEF EndFit
<1>3. /\ \A q : q \in MadePaths(req[r]) <=>
                  /\ q \in Paths /\ IsPrefix(q, i)
                  /\ req[r].op = "write" => q # i
      /\ \A q : q \in Region(req[r]) <=> q \in Paths /\ IsPrefix(i, q)
      /\ Left(r) = store
  BY <1>2, MakerIs
<1>4. \A q \in MadePaths(req[r]) : q \notin Region(req[r]) => q \in Needs(req[r])
  BY BusyIs, MadeIs
<1>5. Answered(r) = OneDone(store, req[r], i)
  <2>1. Answered(r) = BatchDone(store, req[r], 1)
    BY <1>1 DEF Answered, Settled, DoneItems
  <2>2. /\ BatchDone(store, req[r], 0) = store
        /\ \A n \in Nat : n < Len(req[r].items) =>
             BatchDone(store, req[r], n + 1)
               = OneDone(BatchDone(store, req[r], n), req[r], req[r].items[n + 1])
    <3>1. req[r].items \in Seq(Given) \/ req[r].items \in Seq(Given \X Given)
      BY <1>1
    <3> HIDE DEF i
    <3>2. QED
      BY ONLY <3>1, BatchOf
  <2>3. 0 < Len(req[r].items) /\ 0 + 1 = 1
    BY <1>1
  <2>4. BatchDone(store, req[r], 1) = OneDone(store, req[r], req[r].items[1])
    BY <2>2, <2>3
  <2>5. QED
    BY <1>1, <2>1, <2>4
<1>6. \A q \in MadePaths(req[r]) : tree[q] = Dir
  BY DEF OwnFit, MakingFit
<1> HIDE DEF i
<1> DEFINE b == req[r].buf
           w == Writes(store, i, b)
<1> HIDE DEF b, w
<1>7. /\ p = i => w[p] = b
      /\ IsPrefix(p, i) /\ p # i => w[p] = Dir
      /\ IsPrefix(i, p) /\ p # i => w[p] = Absent
      /\ ~IsPrefix(p, i) /\ ~IsPrefix(i, p) => w[p] = store[p]
  <2>1. w[p] = CASE p = i -> b
                 [] IsPrefix(p, i) /\ p # i -> Dir
                 [] IsPrefix(i, p) /\ i # p -> Absent
                 [] OTHER -> store[p]
    BY DEF w, Writes, IsStrictPrefix
  <2>2. IsPrefix(p, p) /\ (IsPrefix(i, p) /\ IsPrefix(p, i) => p = i)
    BY <1>2, PrefixOrder
  <2>3. CASE p = i
    BY <2>1, <2>2, <2>3
  <2>4. CASE p # i
    BY <2>1, <2>2, <2>4
  <2>5. QED
    BY <2>3, <2>4
<1>8. req[r].op = "write" => Answered(r) = w
  BY <1>5, OneDoneIs DEF w, b
<1>9. IsPrefix(i, p) /\ IsPrefix(p, i) => p = i
  BY <1>2, PrefixOrder
<1>10. CASE p \in MadePaths(req[r])
  <2>1. View[p] = Dir
    BY <1>6, <1>10, Distinct, ViewIs
  <2>2. Answered(r)[p] = Dir
    <3>1. CASE req[r].op = "write"
      <4>1. Answered(r) = w
        BY <1>8, <3>1
      <4>2. IsPrefix(p, i) /\ p # i
        BY <1>3, <1>10, <3>1
      <4>3. QED
        BY <1>7, <4>1, <4>2
    <3>2. CASE req[r].op # "write"
      <4>1. Answered(r) = Makes(store, i)
        BY <1>1, <1>5, <3>2, OneDoneIs
      <4>2. QED
        BY <1>3, <1>10, <4>1 DEF Makes
    <3>3. QED
      BY <3>1, <3>2
  <2>3. QED
    BY <1>4, <1>10, <2>1, <2>2 DEF Told
<1>11. CASE p \notin MadePaths(req[r]) /\ p \notin Region(req[r])
  <2>1. ~IsPrefix(p, i) /\ ~IsPrefix(i, p) /\ p # i
    BY <1>2, <1>3, <1>11, PrefixOrder
  <2>2. Answered(r)[p] = store[p]
    <3>1. CASE req[r].op = "write"
      <4>1. Answered(r) = w
        BY <1>8, <3>1
      <4>2. QED
        BY <1>7, <2>1, <4>1
    <3>2. CASE req[r].op # "write"
      <4>1. Answered(r) = Makes(store, i)
        BY <1>1, <1>5, <3>2, OneDoneIs
      <4>2. QED
        BY <2>1, <4>1 DEF Makes
    <3>3. QED
      BY <3>1, <3>2
  <2>3. QED
    BY <1>11, <2>2 DEF Told, Owned, Making
<1>12. CASE p \notin MadePaths(req[r]) /\ p \in Region(req[r]) /\ req[r].op = "write"
  <2>1. Answered(r) = w
    BY <1>12, <1>8
  <2>2. tree[i] \in Inodes /\ data[tree[i]] = req[r].buf
    BY <1>12 DEF OwnFit, WritingFit, i
  <2>3. CASE p = i
    <3>1. View[p] = req[r].buf
      BY <2>2, <2>3, ViewIs
    <3>2. Answered(r)[p] = req[r].buf
      BY <1>7, <2>1, <2>3 DEF b
    <3>3. QED
      BY <1>12, <3>1, <3>2 DEF Told
  <2>4. CASE p # i
    <3>1. IsPrefix(i, p) /\ ~IsPrefix(p, i)
      BY <1>3, <1>9, <1>12, <2>4
    <3>2. Answered(r)[p] = Absent
      BY <1>7, <2>1, <2>4, <3>1
    <3>3. tree[p] = Absent
      <4>1. IsTree(tree)
        BY DEF FilesInv
      <4>2. tree[i] # Dir
        BY <2>2, Distinct
      <4>3. QED
        BY <1>2, <2>4, <3>1, <4>1, <4>2, AboveIsDir
    <3>4. View[p] = Absent
      BY <3>3, Distinct, ViewIs
    <3>5. QED
      BY <1>12, <3>2, <3>4 DEF Told
  <2>5. QED
    BY <2>3, <2>4
<1>13. CASE p \notin MadePaths(req[r]) /\ p \in Region(req[r]) /\ req[r].op # "write"
  <2>1. ~IsPrefix(p, i) /\ p # i
    BY <1>2, <1>3, <1>13, PrefixOrder
  <2>2. Answered(r) = Makes(store, i)
    BY <1>1, <1>5, <1>13, OneDoneIs
  <2>3. Answered(r)[p] = store[p]
    BY <2>1, <2>2 DEF Makes
  <2>4. ~InHand(r, p)
    BY <1>1, <1>13, <2>1 DEF InHand, i
  <2>5. Left(r)[p] # Unknown => View[p] = Left(r)[p]
    BY <1>1, <1>13, <2>4 DEF OwnFit, OwnPaths
  <2>6. QED
    BY <1>3, <1>13, <2>3, <2>5 DEF Told
<1>14. QED
  BY <1>10, <1>11, <1>12, <1>13

\* What an answer tells the store.
LEMMA AnswerTold ==
  ASSUME StoreInv, NEW r \in Busy, req[r].pc \in {"ok", "failed"}
  PROVE  \A p \in Paths :
           /\ Told(r, p)
           /\ \/ r \in clash /\ req[r].op = "write"
              \/ p \in Region(req[r]) \/ p \in Needs(req[r])
              \/ Answered(r)[p] = store[p]
<1>1. /\ FilesInv /\ EndFit(r) /\ AloneFit(r) /\ r \in Reqs
      /\ Reads(req[r]) <=> ~Changes(req[r])
      /\ Targets(req[r]) \subseteq Paths /\ req[r].op \in OpNames
  BY BusyIs DEF StoreInv, Busy
<1>2. CASE r \in clash /\ ~Reads(req[r])
  <2>1. Answered(r) = Forgets(store, Touched(r))
    BY <1>2 DEF Answered
  <2>2. CASE req[r].op = "write"
    <3>1. Touched(r) = Paths /\ Owned(r) = Paths
      BY <1>2, <2>2 DEF Touched, Owned
    <3>2. /\ \A p \in Region(req[r]) : p \in Paths
          /\ \A p \in Needs(req[r]) : p \in Paths
      BY <1>1, RegionIs
    <3>3. QED
      BY <1>1, <1>2, <2>1, <2>2, <3>1, <3>2, ForgottenTold
  <2>3. CASE req[r].op # "write"
    <3>1. Touched(r) = Region(req[r]) \cup Needs(req[r]) /\ Owned(r) = Region(req[r])
      BY <2>3 DEF Touched, Owned
    <3>2. QED
      BY <1>1, <2>1, <3>1, ForgottenTold
  <2>4. QED
    BY <2>2, <2>3
<1>3. CASE r \notin clash /\ ~Reads(req[r]) /\ req[r].hit
  <2>1. Answered(r) = Forgets(store, Region(req[r]) \cup Needs(req[r]))
    BY <1>3 DEF Answered, Settled
  <2>2. req[r].op = "write" => r \notin clash
    BY <1>3 DEF Reads
  <2>3. Owned(r) = Region(req[r])
    BY <2>2 DEF Owned
  <2>4. QED
    BY <1>1, <2>1, <2>3, ForgottenTold
<1>4. CASE Reads(req[r])
  BY <1>1, <1>4, ReadTold
<1>5. CASE r \notin clash /\ Changes(req[r]) /\ ~req[r].hit
  <2>1. OwnFit(r)
    BY <1>1, <1>5 DEF AloneFit, Accounted, Alone
  <2>2. CASE req[r].op = "drop"
    BY <1>1, <1>5, <2>1, <2>2, DropTold
  <2>3. CASE req[r].op \in {"delete", "rename"}
    BY <1>1, <1>5, <2>1, <2>3, BatchTold
  <2>4. CASE Maker(req[r]) /\ req[r].pc = "failed"
    BY <1>1, <1>5, <2>1, <2>4, FailedTold
  <2>5. CASE Maker(req[r]) /\ req[r].pc = "ok"
    BY <1>1, <1>5, <2>1, <2>5, MadeTold
  <2>6. QED
    BY <1>5, <2>2, <2>3, <2>4, <2>5 DEF Changes, Maker
<1>6. QED
  BY <1>1, <1>2, <1>3, <1>4, <1>5

LEMMA ReplyStep ==
  ASSUME StoreInv, FilesInv', NEW r \in Reqs, Reply(r), History
  PROVE  StoreInv'
<1>1. FilesInv /\ ClashFit /\ Elsewhere /\ \A s \in Reqs : EndFit(s) /\ AloneFit(s)
  BY DEF StoreInv
<1>2. /\ req[r].pc \in {"ok", "failed"} /\ r \in Busy
      /\ registered' = registered /\ tree' = tree /\ data' = data
  BY DEF Reply, Busy
<1>3. /\ req'[r] = Idle /\ \A s \in Reqs : s # r => req'[s] = req[s]
  <2>1. DOMAIN req = Reqs
    BY <1>1, <1>2, BusyIs
  <2>2. QED
    BY <2>1 DEF Reply
<1>4. /\ Busy' = Busy \ {r}
      /\ \A s \in Busy' : s \in Reqs /\ s # r /\ req'[s] = req[s] /\ Item(s)' = Item(s)
  <2>1. Idle.pc = "idle"
    BY DEF Idle
  <2>2. Busy' = Busy \ {r}
    BY <1>3, <2>1 DEF Busy
  <2>3. QED
    BY <1>3, <2>2 DEF Item, Busy
<1>5. store' = Answered(r) /\ clash' = Clashing(req')
  <2>1. ~(Busy \subseteq Busy')
    BY <1>2, <1>4
  <2>2. (CHOOSE s \in Busy : s \notin Busy') = r
    <3>1. \A s \in Busy : s \notin Busy' <=> s = r
      BY <1>2, <1>4
    <3>2. QED
      BY <1>2, <3>1
  <2>3. QED
    BY <2>1, <2>2 DEF History, Answered
<1>6. ClashFit' /\ \A s \in clash : s \in Busy' => s \in clash'
  BY <1>5, ClashGrows
<1>7. \A p \in Paths :
        /\ Told(r, p)
        /\ \/ r \in clash /\ req[r].op = "write"
           \/ p \in Region(req[r]) \/ p \in Needs(req[r])
           \/ store'[p] = store[p]
  BY <1>2, <1>5, AnswerTold
<1>8. Elsewhere'
  <2> SUFFICES ASSUME NEW p \in Paths, store'[p] # Unknown,
                      \A s \in Busy' : Changes(req'[s]) => p \notin Owned(s)'
               PROVE  View'[p] = store'[p] \/ \E s \in Reqs : Making(s, p)'
    BY DEF Elsewhere
  <2>1. View'[p] = View[p]
    BY <1>2, ViewIs, ViewNext
  <2>2. \/ View[p] = store'[p]
        \/ /\ store'[p] = store[p] /\ (Changes(req[r]) => p \notin Owned(r))
           /\ ~Making(r, p)
    BY <1>5, <1>7 DEF Told
  <2>3. ASSUME NEW s \in Busy, s # r, Changes(req[s]) PROVE p \notin Owned(s)
    <3>1. s \in Busy' /\ req'[s] = req[s]
      BY <1>4, <2>3
    <3>2. p \notin Owned(s)'
      BY <2>3, <3>1
    <3>3. CASE s \in clash /\ req[s].op = "write"
      BY <1>6, <3>1, <3>2, <3>3 DEF Owned
    <3>4. CASE ~(s \in clash /\ req[s].op = "write")
      <4>1. p \notin Region(req[s])
        BY <3>1, <3>2 DEF Owned
      <4>2. QED
        BY <3>4, <4>1 DEF Owned
    <3>5. QED
      BY <3>3, <3>4
  <2>4. ASSUME store'[p] = store[p], Changes(req[r]) => p \notin Owned(r), ~Making(r, p)
        PROVE  View[p] = store'[p] \/ \E s \in Reqs : Making(s, p)'
    <3>1. View[p] = store[p] \/ \E s \in Reqs : Making(s, p)
      BY <1>1, <2>3, <2>4 DEF Elsewhere
    <3>2. ASSUME NEW s \in Reqs, Making(s, p) PROVE Making(s, p)'
      <4>1. s # r /\ s \in Busy
        BY <2>4, <3>2 DEF Making
      <4>2. s \in Busy' /\ req'[s] = req[s] /\ Item(s)' = Item(s)
        BY <1>4, <4>1
      <4>3. MakesOn(s)' <=> MakesOn(s)
        BY <1>2, <4>2 DEF MakesOn
      <4>4. QED
        BY <1>2, <1>6, <3>2, <4>2, <4>3 DEF Making
    <3>3. QED
      BY <2>4, <3>1, <3>2
  <2>5. QED
    BY <2>1, <2>2, <2>4
<1>9. ASSUME NEW s \in Reqs PROVE EndFit(s)' /\ AloneFit(s)'
  <2>1. CASE s = r
    <3>1. req'[r].hit = FALSE /\ req'[r].pc = "idle"
      BY <1>3 DEF Idle
    <3>2. QED
      BY <1>4, <2>1, <3>1 DEF EndFit, AloneFit, Accounted, Alone
  <2>2. CASE s # r
    <3>1. req'[s] = req[s] /\ Item(s)' = Item(s) /\ EndFit(s)
      BY <1>1, <1>3, <2>2 DEF Item
    <3>2. EndFit(s)'
      BY <3>1 DEF EndFit
    <3>3. ASSUME Alone(s)', Accounted(req'[s]) PROVE OwnFit(s)'
      <4>1. s \in Busy /\ s \notin clash
        BY <1>4, <1>6, <3>3 DEF Alone
      <4>2. OwnFit(s) /\ EndFit(s)
        BY <1>1, <3>1, <3>3, <4>1 DEF AloneFit, Accounted, Alone
      <4>3. ~(r \in clash /\ req[r].op = "write")
        BY <1>1, <4>1 DEF ClashFit
      <4>4. ASSUME Changes(req[s]), NEW p \in Region(req[s]) PROVE store'[p] = store[p]
        <5>1. p \notin Region(req[r]) /\ p \notin Needs(req[r])
          BY <1>1, <1>2, <2>2, <4>1, <4>4, Apart
        <5>2. p \in Paths
          BY <1>1, <4>1, <4>4, BusyIs, RegionIs
        <5>3. QED
          BY <1>7, <4>3, <5>1, <5>2
      <4>5. QED
        BY <1>1, <1>2, <3>1, <4>1, <4>2, <4>4, OthersFit
    <3>4. QED
      BY <3>2, <3>3 DEF AloneFit, Accounted
  <2>3. QED
    BY <2>1, <2>2
<1>10. QED
  BY <1>6, <1>8, <1>9 DEF StoreInv

LEMMA StoreInitially == StoreInit => StoreInv
<1> SUFFICES ASSUME StoreInit PROVE StoreInv
  OBVIOUS
<1>1. FilesInv /\ store = View /\ clash = {} /\ \A r \in Reqs : req[r] = Idle
  BY FilesInit DEF StoreInit, Init
<1>2. Busy = {}
  BY <1>1 DEF Busy, Idle
<1>3. ClashFit
  BY <1>1, <1>2 DEF ClashFit
<1>4. Elsewhere
  BY <1>1 DEF Elsewhere
<1>5. \A r \in Reqs : EndFit(r) /\ AloneFit(r)
  BY <1>1, <1>2 DEF EndFit, AloneFit, Accounted, Alone, Idle
<1>6. QED
  BY <1>1, <1>3, <1>4, <1>5 DEF StoreInv

LEMMA StoreStep == StoreInv /\ [StoreNext]_storeVars => StoreInv'
<1> SUFFICES ASSUME StoreInv, [StoreNext]_storeVars PROVE StoreInv'
  OBVIOUS
<1>1. FilesInv
  BY DEF StoreInv
<1>2. FilesInv'
  BY <1>1, FilesStep DEF StoreNext, storeVars, vars
<1>3. CASE UNCHANGED storeVars
  <2>1. /\ registered' = registered /\ tree' = tree /\ data' = data /\ req' = req
        /\ store' = store /\ clash' = clash
    BY <1>3 DEF storeVars, vars
  <2>2. ClashFit' /\ Busy' = Busy
    BY <2>1 DEF StoreInv, ClashFit, Alone, Busy
  <2>3. Elsewhere'
    BY <2>1 DEF StoreInv, Elsewhere, Making, MakesOn, Owned, View, Busy, Item
  <2>4. ASSUME NEW r \in Reqs PROVE EndFit(r)' /\ AloneFit(r)'
    <3>1. EndFit(r) /\ AloneFit(r)
      BY DEF StoreInv
    <3>2. EndFit(r)'
      BY <2>1, <3>1 DEF EndFit, Item
    <3>3. ASSUME Alone(r)', Accounted(req'[r]) PROVE OwnFit(r)'
      <4>1. r \in Busy /\ OwnFit(r) /\ req'[r] = req[r]
        BY <2>1, <2>2, <3>1, <3>3 DEF AloneFit, Accounted, Alone
      <4>2. QED
        BY <1>1, <2>1, <3>1, <4>1, OthersFit
    <3>4. QED
      BY <3>2, <3>3 DEF AloneFit, Accounted
  <2>5. QED
    BY <1>2, <2>2, <2>3, <2>4 DEF StoreInv
<1>4. CASE StoreNext
  <2>1. PICK r \in Reqs : CallFails(r) \/ Handler(r) \/ \E op \in Ops : Request(r, op)
    BY <1>4 DEF StoreNext, Next
  <2>2. History
    BY <1>4 DEF StoreNext
  <2>3. CASE Reply(r)
    BY <1>2, <2>2, <2>3, ReplyStep
  <2>4. CASE \E op \in Ops : Request(r, op)
    BY <1>2, <2>2, <2>4, RequestStep
  <2>5. CASE CallFails(r) \/ (Handler(r) /\ ~Reply(r))
    BY <1>2, <2>2, <2>5, HandlerStep
  <2>6. QED
    BY <2>1, <2>3, <2>4, <2>5
<1>5. QED
  BY <1>3, <1>4

LEMMA StoreInvariant == StoreSpec => []StoreInv
  BY StoreInitially, StoreStep, PTL DEF StoreSpec

-----------------------------------------------------------------------------
(* What follows                                                            *)

\* A file holds blocks, which are neither an absent path nor a directory.
LEMMA FileView ==
  ASSUME FilesInv, NEW p \in Paths
  PROVE  /\ tree[p] \in Inodes => View[p] \notin {Absent, Dir, Unknown}
         /\ tree[p] \notin Inodes => View[p] = tree[p] /\ View[p] \in {Absent, Dir}
         /\ View[p] = Absent <=> tree[p] = Absent
         /\ View[p] = Dir <=> tree[p] = Dir
<1>1. tree[p] \in Inodes \cup {Absent, Dir}
  BY DEF FilesInv, IsTree
<1>2. ASSUME tree[p] \in Inodes PROVE View[p] \notin {Absent, Dir, Unknown}
  <2>1. View[p] \in Seq(Blocks)
    BY <1>2, ViewIs DEF FilesInv
  <2>2. {Absent, Dir, Unknown} \cap Seq(Blocks) = {}
    BY StoreAssumption DEF Blocks
  <2>3. QED
    BY <2>1, <2>2
<1>3. QED
  BY <1>1, <1>2, Distinct, ViewIs

\* The paths of a request that no other overlaps, as far as the others go.
LEMMA OthersApart ==
  ASSUME StoreInv, NEW r \in Busy, r \notin clash, NEW s \in Busy, s # r, NEW p,
         \/ p \in Region(req[r]) /\ (Changes(req[r]) \/ Changes(req[s]))
         \/ p \in Needs(req[r]) /\ Changes(req[r])
  PROVE  Changes(req[s]) => p \notin Owned(s)
<1>1. FilesInv /\ ClashFit
  BY DEF StoreInv
<1>2. ~(s \in clash /\ req[s].op = "write")
  BY <1>1 DEF ClashFit
<1>3. p \notin Region(req[s])
  BY <1>1, Apart
<1>4. QED
  BY <1>2, <1>3 DEF Owned

\* A reading request that no other overlaps finds what the store has.
LEMMA ReadView ==
  ASSUME StoreInv, NEW r \in Busy, r \notin clash, Reads(req[r]),
         NEW p \in Region(req[r]), store[p] # Unknown
  PROVE  View[p] = store[p]
<1>1. FilesInv /\ ClashFit /\ Elsewhere
  BY DEF StoreInv
<1>2. p \in Paths /\ ~Changes(req[r]) /\ ~Maker(req[r])
  BY <1>1, BusyIs, RegionIs
<1>3. ASSUME NEW s \in Busy, Changes(req[s]) PROVE p \notin Owned(s)
  <2>1. s # r
    BY <1>2, <1>3
  <2>2. QED
    BY <1>3, <2>1, OthersApart
<1>4. ASSUME NEW s \in Reqs PROVE ~Making(s, p)
  <2> SUFFICES ASSUME s \in Busy, Maker(req[s]), p \in MadePaths(req[s]) PROVE FALSE
    BY DEF Making
  <2>1. s # r /\ Changes(req[s])
    BY <1>1, <1>2, BusyIs
  <2>2. p \in Needs(req[s]) \/ p \in Region(req[s])
    BY <1>1, BusyIs, MadeIs
  <2>3. QED
    BY <1>1, <2>1, <2>2, Apart
<1>5. QED
  BY <1>1, <1>2, <1>3, <1>4 DEF Elsewhere

\* One that changes paths finds there what its finished items left, unless it
\* has changed the path itself or another request has made it a directory.
LEMMA ChangeView ==
  ASSUME StoreInv, NEW r \in Busy, r \notin clash, Changes(req[r]), ~req[r].hit,
         NEW p, p \in Region(req[r]) \/ p \in Needs(req[r]),
         ~InHand(r, p), Left(r)[p] # Unknown
  PROVE  /\ View[p] = Left(r)[p] \/ tree[p] = Dir
         /\ p \in Region(req[r]) => View[p] = Left(r)[p]
<1>1. /\ FilesInv /\ ClashFit /\ Elsewhere /\ OwnFit(r)
      /\ req[r] \in RequestType /\ ItemsFit(req[r]) /\ DoneFit(req[r])
      /\ Targets(req[r]) \subseteq Paths
  BY BusyIs DEF StoreInv, AloneFit, Accounted, Alone, Busy
<1>2. p \in Paths
  BY <1>1, RegionIs
<1>3. CASE p \in Region(req[r])
  BY <1>1, <1>3 DEF OwnFit, OwnPaths
<1>4. CASE p \notin Region(req[r])
  <2>1. Left(r)[p] = store[p]
    <3>1. CASE req[r].op \in {"delete", "rename"}
      BY <1>1, <1>2, <1>4, <3>1, BatchLocal DEF Left
    <3>2. CASE req[r].op \notin {"delete", "rename"}
      <4>1. /\ req[r].done = 0
            /\ req[r].items \in Seq(Given) \/ req[r].items \in Seq(Given \X Given)
        BY <1>1, <3>2 DEF ItemsFit
      <4>2. QED
        BY <4>1, BatchOf DEF Left
    <3>3. QED
      BY <3>1, <3>2
  <2>2. ASSUME NEW s \in Busy, Changes(req[s]) PROVE p \notin Owned(s)
    <3>1. CASE s = r
      BY <1>4, <3>1 DEF Owned
    <3>2. CASE s # r
      BY <1>4, <2>2, <3>2, OthersApart
    <3>3. QED
      BY <3>1, <3>2
  <2>3. View[p] = store[p] \/ \E s \in Reqs : Making(s, p)
    BY <1>1, <1>2, <2>1, <2>2 DEF Elsewhere
  <2>4. QED
    BY <1>4, <2>1, <2>3 DEF Making
<1>5. QED
  BY <1>3, <1>4

\* Requests that do not overlap others take effect whole, in the order of
\* their answers, and touch nothing else, on any tree and however many
\* requests run: batches item by item up to the one that failed
\* (manager.go:93-104, files.go:135-142), writes with the directories above
\* them (manager.go:81-90).
THEOREM EffectCorrect == StoreSpec => []TakesEffect
<1>1. StoreInv => TakesEffect
  <2> SUFFICES ASSUME StoreInv, NEW p \in Paths, store[p] # Unknown,
                      \A r \in Busy : p \notin Touched(r)
               PROVE  View[p] = store[p]
    BY DEF TakesEffect
  <2>1. FilesInv /\ Elsewhere
    BY DEF StoreInv
  <2>2. \A r \in Busy : p \notin Owned(r)
    BY DEF Owned, Touched
  <2>3. ASSUME NEW r \in Reqs PROVE ~Making(r, p)
    <3> SUFFICES ASSUME r \in Busy, p \in MadePaths(req[r]) PROVE p \in Touched(r)
      BY DEF Making
    <3>1. p \in Needs(req[r]) \/ p \in Region(req[r])
      BY <2>1, BusyIs, MadeIs
    <3>2. QED
      BY <3>1 DEF Touched
  <2>4. QED
    BY <2>1, <2>2, <2>3 DEF Elsewhere
<1>2. QED
  BY <1>1, StoreInvariant, PTL

\* What AnswersTrue asks of one answer.
Answer(r) ==
  LET p == Item(r) IN
  CASE req[r].op = "list" ->
         \A q \in Children[p] : store[q] # Unknown =>
           /\ q \in req[r].found => store[q] # Absent
           /\ store[q] # Absent => q \in req[r].found \/ req[r].hit
    [] req[r].op = "read" ->
         store[p] # Unknown => req[r].buf = store[p]
    [] req[r].op = "download" ->
         IF p = Outside THEN req[r].buf = <<>>
         ELSE CASE store[p] = Unknown -> TRUE
                [] store[p] \in {Absent, Dir} -> req[r].buf = <<>>
                [] OTHER -> /\ IsPrefix(req[r].buf, store[p])
                            /\ ~req[r].hit => req[r].buf = store[p]

\* What a read, a download or a listing that no change overlaps is answered
\* with is what the answered requests left there (manager.go:43-78, 129-141),
\* whatever else is under way; when a call fails, what is sent of a file is
\* still a beginning of it, and what is listed is still there (lines 57-59,
\* files.go:193-196).
THEOREM AnswersCorrect == StoreSpec => []AnswersTrue
<1>1. StoreInv => AnswersTrue
  <2> SUFFICES ASSUME StoreInv, NEW r \in Reqs \ clash, At(r, "ok"), Reads(req[r])
               PROVE  Answer(r)
    BY DEF AnswersTrue, Answer
  <2>1. /\ r \in Busy /\ r \notin clash /\ req[r].pc = "ok"
        /\ req[r].op \in {"list", "read", "download"}
    BY DEF Busy, At, Reads
  <2>2. FilesInv /\ EndFit(r) /\ AloneFit(r) /\ Accounted(req[r])
    BY <2>1 DEF StoreInv, Accounted
  <2>3. OwnFit(r) /\ (req[r].op # "download" => Item(r) \in Paths)
    BY <2>1, <2>2 DEF EndFit, AloneFit, Alone
  <2>4. Item(r) # Outside => Item(r) \in Paths
    BY <2>1, <2>2, OneTarget
  <2>5. Item(r) \in Paths =>
          /\ Item(r) \in Region(req[r])
          /\ \A p \in Children[Item(r)] : p \in Region(req[r]) /\ p \in Paths
    BY <2>1, <2>2, ItemInside
  <2>6. CASE req[r].op = "list"
    <3>1. ASSUME NEW q \in Children[Item(r)], store[q] # Unknown
          PROVE  /\ q \in req[r].found => store[q] # Absent
                 /\ store[q] # Absent => q \in req[r].found \/ req[r].hit
      <4>1. q \in Region(req[r]) /\ q \in Paths
        BY <2>3, <2>5, <2>6, <3>1
      <4>2. View[q] = store[q]
        BY <2>1, <3>1, <4>1, ReadView
      <4>3. /\ q \in req[r].found => tree[q] # Absent
            /\ tree[q] # Absent => q \in req[r].found \/ req[r].hit
        BY <2>1, <2>3, <2>6, <3>1 DEF OwnFit, ListingFit
      <4>4. QED
        BY <2>2, <4>1, <4>2, <4>3, FileView
    <3>2. QED
      BY <2>6, <3>1 DEF Answer
  <2>7. ASSUME Item(r) \in Paths, store[Item(r)] # Unknown
        PROVE  View[Item(r)] = store[Item(r)]
    BY <2>1, <2>5, <2>7, ReadView
  <2>8. CASE req[r].op = "read"
    <3>1. tree[Item(r)] \in Inodes /\ data[tree[Item(r)]] = req[r].buf
      BY <2>1, <2>3, <2>8 DEF OwnFit, ReadingFit
    <3>2. store[Item(r)] # Unknown => req[r].buf = store[Item(r)]
      BY <2>3, <2>7, <2>8, <3>1, ViewIs
    <3>3. QED
      BY <2>8, <3>2 DEF Answer
  <2>9. CASE req[r].op = "download"
    <3>1. SentFit(r)
      BY <2>1, <2>3, <2>9 DEF OwnFit, ReadingFit
    <3>2. CASE Item(r) = Outside
      BY <2>9, <3>1, <3>2 DEF SentFit, Answer
    <3>3. CASE Item(r) # Outside /\ store[Item(r)] = Unknown
      BY <2>9, <3>3, StoreAssumption DEF Answer
    <3>4. CASE Item(r) # Outside /\ store[Item(r)] \in {Absent, Dir} /\ store[Item(r)] # Unknown
      <4>1. tree[Item(r)] \notin Inodes
        BY <2>2, <2>4, <2>7, <3>4, FileView
      <4>2. req[r].buf = <<>>
        BY <3>1, <3>4, <4>1 DEF SentFit
      <4>3. QED
        BY <2>9, <3>4, <4>2 DEF Answer
    <3>5. CASE Item(r) # Outside /\ store[Item(r)] \notin {Absent, Dir, Unknown}
      <4>1. /\ Item(r) \in Paths /\ tree[Item(r)] \in Inodes
            /\ store[Item(r)] = data[tree[Item(r)]]
        BY <2>2, <2>4, <2>7, <3>5, FileView, ViewIs
      <4> DEFINE file == data[tree[Item(r)]]
      <4>2. /\ Len(req[r].buf) <= Len(file) /\ req[r].buf = SubSeq(file, 1, Len(req[r].buf))
            /\ ~req[r].hit => req[r].buf = file
        BY <3>1, <3>5, <4>1 DEF SentFit
      <4>3. file \in Seq(Blocks) /\ req[r].buf \in Seq(Blocks)
        BY <2>1, <2>2, <4>1, BusyIs DEF FilesInv, RequestType
      <4> HIDE DEF file
      <4>4. IsPrefix(req[r].buf, file)
        BY <4>2, <4>3, SubSeqFull DEF IsPrefix
      <4>5. QED
        BY <2>9, <3>5, <4>1, <4>2, <4>4 DEF Answer, file
    <3>6. QED
      BY <3>2, <3>3, <3>4, <3>5
  <2>10. QED
    BY <2>1, <2>6, <2>8, <2>9
<1>2. QED
  BY <1>1, StoreInvariant, PTL

\* The parts of Cause.
Known(t, p) == \A q \in Paths : IsPrefix(q, p) => t[q] # Unknown

IsFile(t, p) == p \in Paths /\ t[p] \notin {Absent, Dir, Unknown}

Under(t, p) == \E q \in Above[p] : IsFile(t, q)

LEMMA CauseIs ==
  ASSUME NEW r
  PROVE  /\ req[r].op # "rename" =>
              /\ Item(r) = Outside => Cause(r)
              /\ ~Known(Left(r), Item(r)) => Cause(r)
              /\ Under(Left(r), Item(r)) => Cause(r)
         /\ req[r].op = "rename" =>
              /\ Outside \in {Item(r)[1], Item(r)[2]} => Cause(r)
              /\ ~Known(Left(r), Item(r)[1]) => Cause(r)
              /\ ~Known(Left(r), Item(r)[2]) => Cause(r)
              /\ Left(r)[Item(r)[1]] = Absent => Cause(r)
              /\ Left(r)[Item(r)[2]] = Dir => Cause(r)
              /\ IsPrefix(Item(r)[1], Item(r)[2]) => Cause(r)
              /\ Item(r)[2] # <<>> /\ Left(r)[Front(Item(r)[2])] # Dir => Cause(r)
              /\ Left(r)[Item(r)[1]] = Dir /\ Left(r)[Item(r)[2]] # Absent => Cause(r)
         /\ req[r].op = "folder" /\ IsFile(Left(r), Item(r)) => Cause(r)
         /\ req[r].op = "write" /\ Left(r)[Item(r)] = Dir => Cause(r)
         /\ req[r].op = "read" /\ ~IsFile(Left(r), Item(r)) => Cause(r)
         /\ req[r].op = "list" /\ Left(r)[Item(r)] # Dir => Cause(r)
<1> DEFINE t == Left(r)
           on == IF req[r].op = "rename" THEN {Item(r)[1], Item(r)[2]} ELSE {Item(r)}
           why == CASE req[r].op = "folder" -> IsFile(t, Item(r))
                    [] req[r].op = "write" -> t[Item(r)] = Dir
                    [] req[r].op = "read" -> ~IsFile(t, Item(r))
                    [] req[r].op = "list" -> t[Item(r)] # Dir
                    [] req[r].op = "rename" ->
                         \/ t[Item(r)[1]] = Absent \/ t[Item(r)[2]] = Dir
                         \/ IsPrefix(Item(r)[1], Item(r)[2])
                         \/ Item(r)[2] # <<>> /\ t[Front(Item(r)[2])] # Dir
                         \/ t[Item(r)[1]] = Dir /\ t[Item(r)[2]] # Absent
                    [] OTHER -> FALSE
<1>1. Cause(r) <=> \/ Outside \in on
                   \/ \E p \in on : ~Known(t, p) \/ Under(t, p)
                   \/ why
  BY DEF Cause, Left, Known, IsFile, Under
<1>2. /\ req[r].op = "folder" => why = IsFile(t, Item(r))
      /\ req[r].op = "write" => why = (t[Item(r)] = Dir)
      /\ req[r].op = "read" => why = ~IsFile(t, Item(r))
      /\ req[r].op = "list" => why = (t[Item(r)] # Dir)
  OBVIOUS
<1>3. req[r].op = "rename" =>
        why = (\/ t[Item(r)[1]] = Absent \/ t[Item(r)[2]] = Dir
               \/ IsPrefix(Item(r)[1], Item(r)[2])
               \/ Item(r)[2] # <<>> /\ t[Front(Item(r)[2])] # Dir
               \/ t[Item(r)[1]] = Dir /\ t[Item(r)[2]] # Absent)
  OBVIOUS
<1> HIDE DEF why, t
<1>4. QED
  BY <1>1, <1>2, <1>3 DEF t

\* What the request may know of the paths on the way to its own.
LEMMA KnownView ==
  ASSUME StoreInv, NEW r \in Busy, r \notin clash, ~req[r].hit, \A q : ~InHand(r, q),
         NEW i \in Targets(req[r]), Known(Left(r), i)
  PROVE  \A p \in Paths : IsPrefix(p, i) =>
           /\ Changes(req[r]) => View[p] = Left(r)[p] \/ tree[p] = Dir
           /\ p = i => View[p] = Left(r)[p] /\ Left(r)[p] # Unknown
           /\ tree[p] \in Inodes /\ Changes(req[r]) => IsFile(Left(r), p)
<1> SUFFICES ASSUME NEW p \in Paths, IsPrefix(p, i)
             PROVE  /\ Changes(req[r]) => View[p] = Left(r)[p] \/ tree[p] = Dir
                    /\ p = i => View[p] = Left(r)[p] /\ Left(r)[p] # Unknown
                    /\ tree[p] \in Inodes /\ Changes(req[r]) => IsFile(Left(r), p)
  OBVIOUS
<1>1. FilesInv /\ Targets(req[r]) \subseteq Paths /\ (Reads(req[r]) <=> ~Changes(req[r]))
  BY BusyIs DEF StoreInv
<1>2. /\ p # i => p \in Needs(req[r])
      /\ p = i => p \in Region(req[r])
  BY <1>1, RegionIs
<1>3. Left(r)[p] # Unknown
  BY DEF Known
<1>4. CASE Changes(req[r])
  <2>1. /\ View[p] = Left(r)[p] \/ tree[p] = Dir
        /\ p = i => View[p] = Left(r)[p]
    BY <1>2, <1>3, <1>4, ChangeView
  <2>2. tree[p] \in Inodes => IsFile(Left(r), p)
    BY <1>1, <2>1, FileView, Distinct DEF IsFile
  <2>3. QED
    BY <1>3, <2>1, <2>2
<1>5. CASE Reads(req[r])
  <2>1. Left(r) = store
    <3>1. /\ req[r].done = 0
          /\ req[r].items \in Seq(Given) \/ req[r].items \in Seq(Given \X Given)
      BY <1>5, BusyIs, <1>1 DEF ItemsFit, Reads
    <3>2. QED
      BY <3>1, BatchOf DEF Left
  <2>2. p = i => View[p] = store[p]
    BY <1>2, <1>3, <1>5, <2>1, ReadView
  <2>3. QED
    BY <1>1, <1>3, <1>5, <2>1, <2>2
<1>6. QED
  BY <1>1, <1>4, <1>5

\* The directories above a file, and the directory a failed deletion met.
LEMMA FileAbove ==
  ASSUME StoreInv, NEW r \in Busy, r \notin clash, ~req[r].hit, \A q : ~InHand(r, q),
         Changes(req[r]), req[r].op # "rename", Item(r) \in Targets(req[r]),
         NEW p \in Paths, IsPrefix(p, Item(r)), p # Item(r), tree[p] \in Inodes
  PROVE  Cause(r)
<1>1. CASE ~Known(Left(r), Item(r))
  BY <1>1, CauseIs
<1>2. CASE Known(Left(r), Item(r))
  <2>1. IsFile(Left(r), p)
    BY <1>2, KnownView
  <2>2. Item(r) \in Paths
    BY BusyIs DEF StoreInv
  <2>3. p \in Above[Item(r)]
    BY <2>2, BelowIs
  <2>4. QED
    BY <2>1, <2>3, CauseIs DEF Under
<1>3. QED
  BY <1>1, <1>2

LEMMA RefusedCause ==
  ASSUME StoreInv, NEW r \in Busy, r \notin clash, ~req[r].hit, Refused(r)
  PROVE  Cause(r)
<1>1. StepsFit(req[r])
  BY BusyIs DEF StoreInv
<1>2. QED
  BY <1>1, CauseIs DEF Refused, Escapes, StepsFit

LEMMA MkdirCause ==
  ASSUME StoreInv, NEW r \in Busy, r \notin clash, ~req[r].hit, Mkdir(r),
         req'[r].pc = "failed", req[r].op # "create"
  PROVE  Cause(r)
<1>1. req[r].pc = "mkdir" /\ Item(r) # Outside /\ r \in Reqs /\ FilesInv
  BY DEF Mkdir, At, Busy, StoreInv
<1>2. /\ req[r] \in RequestType /\ DOMAIN req = Reqs /\ req[r].op \in {"write", "folder"}
      /\ Maker(req[r]) /\ Changes(req[r])
  BY <1>1, BusyIs DEF StepsFit, Maker, Changes
<1>3. Item(r) \in Paths /\ Item(r) \in Targets(req[r])
  BY <1>1, <1>2, GivenItem, OneTarget
<1>4. PICK k \in 1 .. ChainLen(r) : tree[Chain(r, k)] \in Inodes
  <2> SUFFICES ASSUME ~\E k \in 1 .. ChainLen(r) : tree[Chain(r, k)] \in Inodes
               PROVE  FALSE
    OBVIOUS
  <2> DEFINE m == Max({k \in 1 .. ChainLen(r) : tree[Chain(r, k)] = Dir} \cup {0})
  <2>1. req' = [req EXCEPT ![r].pc = "make", ![r].made = m]
    BY DEF Mkdir
  <2> HIDE DEF m
  <2>2. req'[r].pc = "make"
    BY <1>1, <1>2, <2>1 DEF RequestType
  <2>3. QED
    BY <2>2
<1> DEFINE c == Chain(r, k)
<1>5. c \in MadePaths(req[r]) /\ c \in Paths
  BY <1>1, <1>2, <1>3, ChainMade
<1>6. tree[c] \in Inodes
  BY <1>4
<1> HIDE DEF c
<1>7. IsPrefix(c, Item(r)) /\ (req[r].op = "write" => c # Item(r))
  BY <1>1, <1>2, <1>3, <1>5, MakerIs
<1>8. \A q : ~InHand(r, q)
  BY <1>1, <1>2 DEF InHand
<1>9. CASE c # Item(r)
  BY <1>2, <1>3, <1>5, <1>6, <1>7, <1>8, <1>9, FileAbove
<1>10. CASE c = Item(r)
  <2>1. Known(Left(r), Item(r)) => IsFile(Left(r), Item(r))
    BY <1>2, <1>3, <1>5, <1>6, <1>7, <1>8, <1>10, KnownView
  <2>2. req[r].op = "folder"
    BY <1>2, <1>7, <1>10
  <2>3. QED
    BY <2>1, <2>2, CauseIs
<1>11. QED
  BY <1>9, <1>10

LEMMA OpenWriteCause ==
  ASSUME StoreInv, NEW r \in Busy, r \notin clash, ~req[r].hit, OpenWrite(r),
         req'[r].pc = "failed"
  PROVE  Cause(r)
<1>1. req[r].pc = "open_write" /\ r \in Reqs /\ FilesInv /\ OwnFit(r)
  BY DEF OpenWrite, At, Busy, StoreInv, AloneFit, Accounted, Alone
<1>2. /\ req[r] \in RequestType /\ DOMAIN req = Reqs /\ req[r].op = "write"
      /\ Maker(req[r]) /\ Changes(req[r]) /\ Item(r) \in Paths
  BY <1>1, BusyIs DEF StepsFit, ChecksFit, Maker, Changes, Item
<1>3. Item(r) \in Targets(req[r]) /\ Item(r) \in Seq(Names) /\ IsPrefix(Item(r), Item(r))
  <2>1. Item(r) \in Seq(Names) /\ Item(r) # Outside
    BY <1>2, Distinct
  <2>2. Targets(req[r]) = {Item(r)}
    BY <1>1, <1>2, <2>1, OneTarget
  <2>3. QED
    BY <2>1, <2>2, PrefixOrder
<1>4. ~(InDir(Item(r)) /\ tree[Item(r)] # Dir)
  <2> SUFFICES ASSUME InDir(Item(r)) /\ tree[Item(r)] # Dir PROVE FALSE
    OBVIOUS
  <2>1. \E i \in Inodes : req' = [req EXCEPT ![r].pc = "write", ![r].ino = i]
    BY DEF OpenWrite
  <2>2. req'[r].pc = "write"
    BY <1>1, <1>2, <2>1 DEF RequestType
  <2>3. QED
    BY <2>2
<1>5. InDir(Item(r))
  <2> SUFFICES ASSUME Item(r) # <<>> PROVE tree[Front(Item(r))] = Dir
    BY DEF InDir
  <2>1. /\ Front(Item(r)) \in Paths /\ IsPrefix(Front(Item(r)), Item(r))
        /\ Front(Item(r)) # Item(r)
    BY <1>2, <1>3, FilesAssumption, PrefixFront
  <2>2. Front(Item(r)) \in MadePaths(req[r])
    BY <1>1, <1>2, <2>1, MakerIs
  <2>3. QED
    BY <1>1, <2>2 DEF OwnFit, MakingFit
<1>6. \A q : ~InHand(r, q)
  BY <1>1, <1>2 DEF InHand
<1>7. Known(Left(r), Item(r)) => Left(r)[Item(r)] = Dir
  BY <1>1, <1>2, <1>3, <1>4, <1>5, <1>6, KnownView, FileView
<1>8. QED
  BY <1>2, <1>7, CauseIs

LEMMA RemoveAllCause ==
  ASSUME StoreInv, NEW r \in Busy, r \notin clash, ~req[r].hit, RemoveAll(r),
         req'[r].pc = "failed"
  PROVE  Cause(r)
<1>1. req[r].pc = "remove" /\ Item(r) # Outside /\ r \in Reqs /\ FilesInv
  BY DEF RemoveAll, At, Busy, StoreInv
<1>2. /\ req[r] \in RequestType /\ DOMAIN req = Reqs /\ req[r].op \in {"drop", "delete"}
      /\ Changes(req[r]) /\ req[r].done < Len(req[r].items)
  BY <1>1, BusyIs DEF StepsFit, ItemsFit, Changes
<1>3. Item(r) \in Paths /\ Item(r) \in Targets(req[r])
  <2>1. Item(r) \in Paths
    BY <1>1, <1>2, GivenItem
  <2>2. QED
    BY <1>1, <1>2, <2>1, ItemInside
<1>4. Blocked(Item(r))
  <2> SUFFICES ASSUME ~Blocked(Item(r)) PROVE FALSE
    OBVIOUS
  <2> DEFINE x == {q \in Below[Item(r)] : Present(q)}
  <2>1. req' = [req EXCEPT ![r].pc = "removing", ![r].seen = x]
    BY DEF RemoveAll
  <2> HIDE DEF x
  <2>2. req'[r].pc = "removing"
    BY <1>1, <1>2, <2>1 DEF RequestType
  <2>3. QED
    BY <2>2
<1>5. PICK q \in Above[Item(r)] : tree[q] \in Inodes
  BY <1>4 DEF Blocked
<1>6. q \in Paths /\ IsPrefix(q, Item(r)) /\ q # Item(r)
  BY <1>3, BelowIs
<1>7. \A x : ~InHand(r, x)
  BY <1>1, <1>2 DEF InHand
<1>8. QED
  BY <1>2, <1>3, <1>5, <1>6, <1>7, FileAbove

LEMMA RenameCause ==
  ASSUME StoreInv, NEW r \in Busy, r \notin clash, ~req[r].hit, Rename(r),
         req'[r].pc = "failed"
  PROVE  Cause(r)
<1> DEFINE from == Item(r)[1]
           to == Item(r)[2]
<1>1. req[r].pc = "rename" /\ Outside \notin {from, to} /\ r \in Reqs /\ FilesInv
  BY DEF Rename, At, Busy, StoreInv
<1>2. /\ req[r] \in RequestType /\ DOMAIN req = Reqs /\ req[r].op = "rename"
      /\ Changes(req[r]) /\ req[r].done < Len(req[r].items)
      /\ req[r].done + 1 \in 1 .. Len(req[r].items)
  <2>1. /\ req[r] \in RequestType /\ DOMAIN req = Reqs /\ ItemsFit(req[r])
        /\ req[r].op = "rename"
    BY <1>1, BusyIs DEF StepsFit
  <2>2. /\ req[r].items \in Seq(Given \X Given) /\ req[r].done \in Nat
        /\ req[r].done < Len(req[r].items)
    BY <1>1, <2>1 DEF ItemsFit, RequestType
  <2>3. QED
    BY <2>1, <2>2, LenProperties DEF Changes
<1>3. /\ from \in Paths /\ to \in Paths /\ from \in Targets(req[r]) /\ to \in Targets(req[r])
      /\ from \in Seq(Names) /\ to \in Seq(Names)
      /\ IsPrefix(from, from) /\ IsPrefix(to, to)
  <2>1. from \in Paths /\ to \in Paths
    BY <1>1, RenamePaths
  <2>2. Inside(req[r], req[r].done + 1)
    BY <1>2, <2>1 DEF Inside, Item
  <2>3. from \in Targets(req[r]) /\ to \in Targets(req[r])
    <3>1. ItemsFit(req[r])
      BY <1>1, BusyIs
    <3>2. QED
      BY <1>2, <2>2, <3>1, TargetsIn DEF Item
  <2>4. QED
    BY <2>1, <2>3, Distinct, PrefixOrder
<1>4. ~CanRename(from, to)
  <2> SUFFICES ASSUME CanRename(from, to) PROVE FALSE
    OBVIOUS
  <2>1. ItemDone(r, "rename")
    BY DEF Rename
  <2>2. req'[r].pc \in {"ok", "rename"}
    BY <1>1, <2>1, ItemDoneIs
  <2>3. QED
    BY <2>2
<1>5. \A q : ~InHand(r, q)
  BY <1>1, <1>2 DEF InHand
<1> HIDE DEF from, to
<1>6. CASE ~Known(Left(r), from) \/ ~Known(Left(r), to)
  BY <1>2, <1>6, CauseIs DEF from, to
<1>7. CASE Known(Left(r), from) /\ Known(Left(r), to)
  <2>1. View[from] = Left(r)[from] /\ View[to] = Left(r)[to]
    BY <1>3, <1>5, <1>7, KnownView
  <2>2. CASE ~Present(from)
    <3>1. Left(r)[from] = Absent
      BY <1>1, <1>3, <2>1, <2>2, FileView DEF Present
    <3>2. QED
      BY <1>2, <3>1, CauseIs DEF from
  <2>3. CASE tree[to] = Dir
    <3>1. Left(r)[to] = Dir
      BY <1>1, <1>3, <2>1, <2>3, FileView
    <3>2. QED
      BY <1>2, <3>1, CauseIs DEF to
  <2>4. CASE ~InDir(to)
    <3>1. to # <<>> /\ tree[Front(to)] # Dir
      BY <2>4 DEF InDir
    <3>2. Front(to) \in Paths /\ IsPrefix(Front(to), to)
      BY <1>3, <3>1, Distinct, PrefixFront
    <3>3. View[Front(to)] = Left(r)[Front(to)]
      BY <1>2, <1>3, <1>5, <1>7, <3>1, <3>2, KnownView
    <3>4. Left(r)[Front(to)] # Dir
      BY <1>1, <3>1, <3>2, <3>3, FileView
    <3>5. QED
      BY <1>2, <3>1, <3>4, CauseIs DEF to
  <2>5. CASE IsStrictPrefix(from, to)
    BY <1>2, <2>5, CauseIs DEF from, to, IsStrictPrefix
  <2>6. CASE tree[from] = Dir /\ tree[to] # Absent
    <3>1. Left(r)[from] = Dir /\ Left(r)[to] # Absent
      BY <1>1, <1>3, <2>1, <2>6, FileView
    <3>2. QED
      BY <1>2, <3>1, CauseIs DEF from, to
  <2>7. QED
    BY <1>4, <2>2, <2>3, <2>4, <2>5, <2>6 DEF CanRename
<1>8. QED
  BY <1>6, <1>7

LEMMA ReadCause ==
  ASSUME StoreInv, NEW r \in Busy, r \notin clash, ~req[r].hit, Open(r) \/ List(r),
         req'[r].pc = "failed"
  PROVE  Cause(r)
<1>1. /\ req[r].pc \in {"open", "list"} /\ Item(r) # Outside /\ r \in Reqs /\ FilesInv
      /\ Open(r) => req[r].pc = "open"
      /\ List(r) => req[r].pc = "list"
  BY DEF Open, List, At, Busy, StoreInv
<1>2. /\ req[r] \in RequestType /\ DOMAIN req = Reqs
      /\ req[r].pc = "open" => req[r].op \in {"read", "download"}
      /\ req[r].pc = "list" => req[r].op = "list"
  BY <1>1, BusyIs DEF StepsFit
<1>3. /\ Item(r) \in Paths /\ Item(r) \in Targets(req[r]) /\ IsPrefix(Item(r), Item(r))
  <2>1. Item(r) \in Paths
    BY <1>1, <1>2, GivenItem
  <2>2. Item(r) \in Targets(req[r])
    BY <1>1, <1>2, <2>1, ItemInside
  <2>3. QED
    BY <2>1, <2>2, Distinct, PrefixOrder
<1>4. \A q : ~InHand(r, q)
  BY <1>1, <1>2 DEF InHand
<1>5. CASE ~Known(Left(r), Item(r))
  BY <1>1, <1>2, <1>5, CauseIs
<1>6. CASE Known(Left(r), Item(r)) /\ Open(r)
  <2>1. tree[Item(r)] \notin Inodes
    <3> SUFFICES ASSUME tree[Item(r)] \in Inodes PROVE FALSE
      OBVIOUS
    <3>1. req' = [req EXCEPT ![r].pc = "copy", ![r].ino = tree[Item(r)]]
      BY <1>6 DEF Open
    <3>2. req'[r].pc = "copy"
      BY <1>1, <1>2, <3>1 DEF RequestType
    <3>3. QED
      BY <3>2
  <2>2. View[Item(r)] = Left(r)[Item(r)]
    BY <1>3, <1>4, <1>6, KnownView
  <2>3. ~IsFile(Left(r), Item(r))
    BY <1>1, <1>3, <2>1, <2>2, FileView DEF IsFile
  <2>4. req[r].op = "read"
    <3>1. Goto(r, OnError(r))
      BY <1>6, <2>1 DEF Open
    <3>2. OnError(r) = "failed"
      BY <1>1, <3>1, GotoIs
    <3>3. QED
      BY <1>1, <1>2, <1>6, <3>2 DEF OnError
  <2>5. QED
    BY <2>3, <2>4, CauseIs
<1>7. CASE Known(Left(r), Item(r)) /\ List(r)
  <2>1. tree[Item(r)] # Dir
    <3> SUFFICES ASSUME tree[Item(r)] = Dir PROVE FALSE
      OBVIOUS
    <3> DEFINE x == {q \in Children[Item(r)] : Present(q)}
    <3>1. req' = [req EXCEPT ![r].pc = "info", ![r].seen = x]
      BY <1>7 DEF List
    <3> HIDE DEF x
    <3>2. req'[r].pc = "info"
      BY <1>1, <1>2, <3>1 DEF RequestType
    <3>3. QED
      BY <3>2
  <2>2. View[Item(r)] = Left(r)[Item(r)]
    BY <1>3, <1>4, <1>7, KnownView
  <2>3. Left(r)[Item(r)] # Dir
    BY <1>1, <1>3, <2>1, <2>2, FileView
  <2>4. QED
    BY <1>1, <1>2, <1>7, <2>3, CauseIs
<1>8. QED
  BY <1>5, <1>6, <1>7

LEMMA FailingStep ==
  ASSUME StoreInv, FilesInv', NEW r \in Reqs, r \notin clash,
         CallFails(r) \/ (Handler(r) /\ ~Reply(r)), History,
         req[r].pc # "failed", req'[r].pc = "failed", ~req'[r].hit, req[r].op # "create"
  PROVE  Cause(r)
<1>1. FilesInv /\ EndFit(r) /\ AloneFit(r) /\ store' = store
  BY StaysBusy DEF StoreInv
<1>2. req[r].pc # "idle"
  BY DEF CallFails, Handler, Reply, Refused, Escapes, Mkdir, Make, Made, OpenWrite,
     Write, RemoveAll, RemoveName, Removed, RemoveFails, Rename, Open, Copy, List, Info,
     InfoFails, AddServer, RemoveServer, At
<1>3. /\ r \in Busy /\ Alone(r) /\ req[r] \in RequestType /\ DOMAIN req = Reqs
      /\ StepsFit(req[r])
  BY <1>1, <1>2, UnderWay DEF Busy, Alone
<1>4. ~req[r].hit
  <2>1. Moves(r)
    BY <1>1, HandlerMoves
  <2>2. QED
    BY <2>1 DEF Moves, Accounted, Within
<1>5. \A pc : Goto(r, pc) => req'[r].pc = pc
  BY <1>1, <1>3, GotoIs
<1>6. \A next : ItemDone(r, next) => req'[r].pc \in {"ok", next}
  BY <1>1, <1>3, ItemDoneIs
<1>7. CASE Refused(r)
  BY <1>3, <1>4, <1>7, RefusedCause
<1>8. CASE CallFails(r)
  <2>1. req'[r] = [req[r] EXCEPT !.hit = TRUE, !.pc = OnError(r)]
    BY <1>3, <1>8 DEF CallFails
  <2>2. req'[r].hit = TRUE
    BY <1>3, <2>1 DEF RequestType
  <2>3. QED
    BY <2>2
<1>9. CASE Mkdir(r)
  BY <1>3, <1>4, <1>9, MkdirCause
<1>10. CASE Make(r)
  <2>1. req'[r].pc = "make"
    BY <1>1, <1>3, <1>10, MakeMoves
  <2>2. QED
    BY <2>1
<1>11. CASE Made(r)
  <2>1. req[r].op \in {"create", "write", "folder"}
    BY <1>3, <1>11 DEF Made, At, StepsFit
  <2>2. Goto(r, "open_write") \/ Goto(r, "ok") \/ Goto(r, "add")
    BY <1>11, <2>1 DEF Made
  <2>3. QED
    BY <1>5, <2>2
<1>12. CASE OpenWrite(r)
  BY <1>3, <1>4, <1>12, OpenWriteCause
<1>13. CASE Write(r)
  <2>1. Goto(r, "ok") \/ req' = [req EXCEPT ![r].pc = "failed", ![r].hit = TRUE]
    BY <1>13 DEF Write
  <2>2. req'[r].pc = "ok" \/ req'[r].hit = TRUE
    BY <1>3, <1>5, <2>1 DEF RequestType
  <2>3. QED
    BY <2>2
<1>14. CASE RemoveAll(r)
  BY <1>3, <1>4, <1>14, RemoveAllCause
<1>15. CASE RemoveName(r)
  BY <1>15 DEF RemoveName
<1>16. CASE Removed(r)
  BY <1>5, <1>6, <1>16 DEF Removed
<1>17. CASE RemoveFails(r)
  BY <1>1, <1>3, <1>17, RemoveFailsMoves
<1>18. CASE Rename(r)
  BY <1>3, <1>4, <1>18, RenameCause
<1>19. CASE Open(r) \/ List(r)
  BY <1>3, <1>4, <1>19, ReadCause
<1>20. CASE Copy(r)
  <2>1. Goto(r, "ok") \/ \E b : req' = [req EXCEPT ![r].buf = b]
    BY <1>20 DEF Copy
  <2>2. QED
    BY <1>3, <1>5, <2>1 DEF RequestType
<1>21. CASE Info(r)
  <2>1. CASE Goto(r, "ok")
    BY <1>5, <2>1
  <2>2. CASE ~Goto(r, "ok")
    <3>1. PICK a, b : req' = [req EXCEPT ![r].seen = a, ![r].found = b]
      BY <1>21, <2>2 DEF Info
    <3>2. req'[r] = [req[r] EXCEPT !.seen = a, !.found = b]
      BY <1>3, <3>1
    <3>3. req'[r].pc = req[r].pc
      BY <1>3, <3>2 DEF RequestType
    <3>4. QED
      BY <1>3, <3>3
  <2>3. QED
    BY <2>1, <2>2
<1>22. CASE AddServer(r)
  BY <1>3, <1>22 DEF AddServer, At, StepsFit
<1>23. CASE RemoveServer(r)
  BY <1>5, <1>23 DEF RemoveServer
<1>24. CASE InfoFails(r)
  <2>1. PICK a : req' = [req EXCEPT ![r].seen = a, ![r].hit = TRUE]
    BY <1>24 DEF InfoFails
  <2>2. req'[r] = [req[r] EXCEPT !.seen = a, !.hit = TRUE]
    BY <1>3, <2>1
  <2>3. req'[r].hit = TRUE
    BY <1>3, <2>2 DEF RequestType
  <2>4. QED
    BY <2>3
<1>25. QED
  BY <1>7, <1>8, <1>9, <1>10, <1>11, <1>12, <1>13, <1>14, <1>15, <1>16, <1>17,
     <1>18, <1>19, <1>20, <1>21, <1>22, <1>23, <1>24 DEF Handler

\* A request that no other overlaps, and whose calls can all be carried out,
\* fails only at a path SafePath refuses or at one the answered requests left
\* as it cannot take it (manager.go:43-137): never for what another request
\* has half done.
THEOREM FailuresCorrect == StoreSpec => FailsForCause
<1>1. ASSUME StoreInv, StoreInv', StoreNext, NEW r \in Reqs \ clash,
             req[r].pc # "failed", req'[r].pc = "failed", ~req'[r].hit,
             req[r].op # "create"
      PROVE  Cause(r)
  <2>1. PICK s \in Reqs : CallFails(s) \/ Handler(s) \/ \E op \in Ops : Request(s, op)
    BY <1>1 DEF StoreNext, Next
  <2>2. FilesInv /\ FilesInv' /\ History
    BY <1>1 DEF StoreInv, StoreNext
  <2>3. DOMAIN req = Reqs
    <3>1. req = [x \in Reqs |-> req[x]]
      BY <2>2 DEF FilesInv
    <3>2. QED
      BY <3>1
  <2>4. CASE \E op \in Ops : Request(s, op)
    <3>1. PICK op \in Ops : \E items, c :
            req' = [req EXCEPT ![s] = [Idle EXCEPT !.pc = FirstPc(op), !.op = op,
                                                   !.items = items, !.buf = c]]
      BY <2>4 DEF Request
    <3>2. s = r
      BY <1>1, <2>3, <3>1
    <3>3. req'[r].pc = FirstPc(op)
      BY <2>3, <3>1, <3>2 DEF Idle
    <3>4. FirstPc(op) # "failed"
      BY FilesAssumption DEF FirstPc, OpNames
    <3>5. QED
      BY <1>1, <3>3, <3>4
  <2>5. CASE Reply(s)
    <3>1. req' = [req EXCEPT ![s] = Idle]
      BY <2>5 DEF Reply
    <3>2. QED
      BY <1>1, <2>3, <3>1 DEF Idle
  <2>6. CASE CallFails(s) \/ (Handler(s) /\ ~Reply(s))
    <3>1. Within(s)
      <4>1. EndFit(s) /\ AloneFit(s) /\ store' = store
        BY <1>1, <2>2, <2>6, StaysBusy DEF StoreInv
      <4>2. QED
        BY <2>2, <2>6, <4>1, HandlerMoves DEF Moves, Accounted
    <3>2. s = r
      BY <1>1, <3>1 DEF Within
    <3>3. QED
      BY <1>1, <2>2, <2>6, <3>2, FailingStep
  <2>7. QED
    BY <2>1, <2>4, <2>5, <2>6
<1>2. StoreInv /\ StoreInv' /\ [StoreNext]_storeVars =>
        [\A r \in Reqs \ clash :
           (/\ req[r].pc # "failed" /\ req'[r].pc = "failed"
            /\ ~req'[r].hit /\ req[r].op # "create") => Cause(r)]_storeVars
  BY <1>1
<1>3. QED
  BY <1>2, StoreInvariant, PTL DEF StoreSpec, FailsForCause

=============================================================================
