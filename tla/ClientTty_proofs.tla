--------------------------- MODULE ClientTty_proofs ---------------------------
(***************************************************************************)
(* The attached client, for any keys typed, any number of them and any     *)
(* capacities of the queues they pass through: types, chords, the order    *)
(* of keys, copy mode and the screen.                                      *)
(***************************************************************************)
EXTENDS ClientTty, SequenceTheorems, WellFoundedInduction, TLAPS

-----------------------------------------------------------------------------
(* Induction on the naturals, in the form the provers can use: the numbers *)
(* for which a fact holds are a set.                                       *)

LEMMA NatOrder ==
  \E R : IsWellFoundedOn(R, Nat) /\ \A k, m \in Nat : <<k, m>> \in R <=> k < m
<1>1. \A k, m \in Nat : <<k, m>> \in OpToRel(<, Nat) <=> k < m
  BY DEF OpToRel
<1>. QED
  BY <1>1, NatLessThanWellFounded, Zenon

LEMMA Induction ==
  ASSUME NEW n \in Nat, NEW G, 0 \in G, \A i \in 1..n : i - 1 \in G => i \in G
  PROVE  \A i \in 0..n : i \in G
<1>1. PICK R : IsWellFoundedOn(R, Nat) /\ \A k, m \in Nat : <<k, m>> \in R <=> k < m
  BY NatOrder, Zenon
<1>2. IsWellFoundedOn(R, Nat)
  BY <1>1, Zenon
<1>3. \A k, m \in Nat : <<k, m>> \in R <=> k < m
  BY <1>1, Zenon
<1>. DEFINE Bad == (0..n) \ G
<1>4. Bad \subseteq Nat
  OBVIOUS
<1>5. SUFFICES ASSUME Bad # {} PROVE FALSE
  OBVIOUS
<1>. HIDE DEF Bad
<1>6. PICK m \in Bad : \A k \in Bad : ~(<<k, m>> \in R)
  BY <1>2, <1>4, <1>5, WFMin, Zenon
<1>7. m \in 0..n /\ m \notin G
  BY <1>6 DEF Bad
<1>8. m \in 1..n /\ m - 1 \in 0..n /\ m - 1 < m
  BY <1>7
<1>9. m - 1 \notin Bad
  <2>1. m - 1 \in Nat /\ m \in Nat
    BY <1>8
  <2>. QED BY <1>3, <1>6, <1>8, <2>1, Zenon
<1>. QED BY <1>7, <1>8, <1>9 DEF Bad

Lists(S)  == Seq(Seq(S))

\* f holds what has been flattened of ss up to each of its elements.
Flat(f, ss, S) ==
  /\ f \in [1..Len(ss) -> Seq(S)]
  /\ \A i \in 1..Len(ss) : f[i] = IF i = 1 THEN ss[i] ELSE f[i - 1] \o ss[i]

LEMMA FlatExists ==
  ASSUME NEW S, NEW ss \in Lists(S)
  PROVE  \E f : Flat(f, ss, S)
<1>. DEFINE n == Len(ss)
            Upto(f, m) == /\ f \in [1..m -> Seq(S)]
                          /\ \A i \in 1..m : f[i] = IF i = 1 THEN ss[i] ELSE f[i - 1] \o ss[i]
            G == {m \in 0..n : \E f : Upto(f, m)}
<1>1. n \in Nat /\ \A i \in 1..n : ss[i] \in Seq(S)
  BY LenProperties, ElementOfSeq DEF Lists
<1>2. 0 \in G
  <2>1. Upto([i \in 1..0 |-> << >>], 0)
    OBVIOUS
  <2>. HIDE DEF Upto
  <2>. QED BY <1>1, <2>1
<1>3. ASSUME NEW m \in 1..n, m - 1 \in G PROVE m \in G
  <2>1. PICK f : Upto(f, m - 1)
    BY <1>3
  <2>. DEFINE new == IF m = 1 THEN ss[m] ELSE f[m - 1] \o ss[m]
              g == [i \in 1..m |-> IF i = m THEN new ELSE f[i]]
  <2>2. new \in Seq(S)
    <3>1. ss[m] \in Seq(S) /\ (m # 1 => f[m - 1] \in Seq(S))
      BY <1>1, <2>1
    <3>. QED BY <3>1, ConcatProperties
  <2>3. g \in [1..m -> Seq(S)]
    BY <1>1, <2>1, <2>2
  <2>4. ASSUME NEW i \in 1..m
        PROVE  g[i] = IF i = 1 THEN ss[i] ELSE g[i - 1] \o ss[i]
    <3>1. CASE i = m
      BY <1>1, <2>1, <3>1
    <3>2. CASE i # m
      <4>1. i \in 1..(m - 1) /\ g[i] = f[i]
        BY <1>1, <3>2
      <4>2. i # 1 => i - 1 \in 1..m /\ i - 1 # m
        BY <1>1, <4>1
      <4>3. i # 1 => g[i - 1] = f[i - 1]
        BY <4>2
      <4>. QED BY <2>1, <4>1, <4>3
    <3>. QED BY <3>1, <3>2
  <2>5. Upto(g, m)
    BY <2>3, <2>4
  <2>. HIDE DEF Upto, g
  <2>. QED BY <1>1, <2>5
<1>4. n \in G
  <2>. HIDE DEF G
  <2>1. \A i \in 0..n : i \in G
    BY <1>1, <1>2, <1>3, Induction
  <2>. QED BY <1>1, <2>1
<1>. QED BY <1>4 DEF Flat

\* A beginning is flattened like the whole.
LEMMA FlatUnique ==
  ASSUME NEW S, NEW ss \in Lists(S), NEW tt \in Lists(S), NEW f, NEW g,
         Flat(f, ss, S), Flat(g, tt, S), Len(ss) <= Len(tt),
         \A i \in 1..Len(ss) : ss[i] = tt[i]
  PROVE  \A i \in 1..Len(ss) : f[i] = g[i]
<1>. DEFINE G == {i \in 0..Len(ss) : i # 0 => f[i] = g[i]}
<1>1. Len(ss) \in Nat /\ Len(tt) \in Nat /\ 0 \in G
  BY LenProperties
<1>2. ASSUME NEW m \in 1..Len(ss), m - 1 \in G PROVE m \in G
  <2>1. m # 1 => f[m - 1] = g[m - 1]
    BY <1>2
  <2>2. m \in 1..Len(ss) /\ m \in 1..Len(tt) /\ ss[m] = tt[m]
    BY <1>1
  <2>3. f[m] = IF m = 1 THEN ss[m] ELSE f[m - 1] \o ss[m]
    BY <2>2 DEF Flat
  <2>4. g[m] = IF m = 1 THEN tt[m] ELSE g[m - 1] \o tt[m]
    BY <2>2 DEF Flat
  <2>. QED BY <2>1, <2>2, <2>3, <2>4
<1>3. \A i \in 0..Len(ss) : i \in G
  <2>. HIDE DEF G
  <2>. QED BY <1>1, <1>2, Induction
<1>. QED BY <1>3

\* What FlattenSeq computes.
LEMMA FlattenIsFlat ==
  ASSUME NEW S, NEW ss \in Lists(S), NEW f, Flat(f, ss, S), Len(ss) # 0
  PROVE  FlattenSeq(ss) = f[Len(ss)]
<1>. DEFINE n == Len(ss)
            IsFlatten(g) == g = [i \in 1..n |-> IF i = 1 THEN ss[i] ELSE g[i - 1] \o ss[i]]
<1>1. n \in Nat /\ \A i \in 1..n : ss[i] \in Seq(S)
  BY LenProperties, ElementOfSeq DEF Lists
<1>2. IsFlatten(f)
  BY DEF Flat
<1>3. IsFlatten(CHOOSE g : IsFlatten(g))
  <2>. HIDE DEF IsFlatten
  <2>. QED BY <1>2
<1>4. PICK h : h = (CHOOSE g : IsFlatten(g))
  OBVIOUS
<1>5. IsFlatten(h)
  <2>. HIDE DEF IsFlatten
  <2>. QED BY <1>3, <1>4
<1>6. h[n] = f[n]
  <2>. DEFINE G == {i \in 0..n : i # 0 => h[i] = f[i]}
  <2>1. 0 \in G
    BY <1>1
  <2>2. ASSUME NEW m \in 1..n, m - 1 \in G PROVE m \in G
    <3>1. m # 1 => h[m - 1] = f[m - 1]
      BY <1>1, <2>2
    <3>2. h[m] = IF m = 1 THEN ss[m] ELSE h[m - 1] \o ss[m]
      BY <1>5
    <3>3. f[m] = IF m = 1 THEN ss[m] ELSE f[m - 1] \o ss[m]
      BY DEF Flat
    <3>. QED BY <1>1, <3>1, <3>2, <3>3
  <2>3. \A i \in 0..n : i \in G
    <3>. HIDE DEF G
    <3>. QED BY <1>1, <2>1, <2>2, Induction
  <2>. QED BY <1>1, <2>3
<1>7. FlattenSeq(ss) = h[n]
  BY <1>4 DEF FlattenSeq
<1>. QED BY <1>6, <1>7

LEMMA FlattenEmpty == FlattenSeq(<< >>) = << >>
  BY DEF FlattenSeq

LEMMA FlattenType ==
  ASSUME NEW S, NEW ss \in Lists(S)
  PROVE  FlattenSeq(ss) \in Seq(S)
<1>1. Len(ss) \in Nat
  BY LenProperties
<1>2. CASE Len(ss) = 0
  <2>1. ss = << >>
    BY <1>2, EmptySeq
  <2>. QED BY <2>1, FlattenEmpty, EmptySeq
<1>3. CASE Len(ss) # 0
  <2>1. PICK f : Flat(f, ss, S)
    BY FlatExists
  <2>2. Len(ss) \in 1..Len(ss)
    BY <1>1, <1>3
  <2>3. FlattenSeq(ss) = f[Len(ss)]
    BY <1>3, <2>1, FlattenIsFlat
  <2>. QED BY <2>1, <2>2, <2>3 DEF Flat
<1>. QED BY <1>2, <1>3

\* Flattening a sequence with one more sequence at the end.
LEMMA FlattenAppend ==
  ASSUME NEW S, NEW ss \in Lists(S), NEW x \in Seq(S)
  PROVE  FlattenSeq(Append(ss, x)) = FlattenSeq(ss) \o x
<1>. DEFINE n == Len(ss)
<1>0. PICK tt : tt = Append(ss, x)
  OBVIOUS
<1>1. /\ n \in Nat /\ tt \in Lists(S) /\ Len(tt) = n + 1
      /\ \A i \in 1..n : ss[i] = tt[i]
      /\ tt[n + 1] = x
  BY <1>0, LenProperties, AppendProperties DEF Lists
<1>2. PICK g : Flat(g, tt, S)
  BY <1>1, FlatExists
<1>3. FlattenSeq(tt) = g[n + 1]
  BY <1>1, <1>2, FlattenIsFlat
<1>4. g[n + 1] = IF n = 0 THEN x ELSE g[n] \o x
  <2>1. n + 1 \in 1..Len(tt) /\ (n + 1) - 1 = n /\ (n + 1 = 1 <=> n = 0)
    BY <1>1
  <2>2. g[n + 1] = IF n + 1 = 1 THEN tt[n + 1] ELSE g[(n + 1) - 1] \o tt[n + 1]
    BY <1>2, <2>1 DEF Flat
  <2>. QED BY <1>1, <2>1, <2>2
<1>5. CASE n = 0
  <2>1. ss = << >>
    BY <1>5, EmptySeq
  <2>2. << >> \o x = x
    BY ConcatEmptySeq
  <2>. QED BY <1>3, <1>4, <1>5, <2>1, <2>2, FlattenEmpty, <1>0
<1>6. CASE n # 0
  <2>1. PICK f : Flat(f, ss, S)
    BY FlatExists
  <2>2. n <= Len(tt) /\ n <= Len(ss) /\ n \in 1..n
    BY <1>1, <1>6
  <2>3. \A i \in 1..n : f[i] = g[i]
    <3>1. Len(ss) \in Nat /\ tt \in Lists(S) /\ \A i \in 1..Len(ss) : ss[i] = tt[i]
      BY <1>1
    <3>2. Len(ss) <= Len(tt)
      BY <2>2
    <3>3. ss \in Lists(S)
      OBVIOUS
    <3>. HIDE DEF Flat
    <3>. QED BY ONLY <1>2, <2>1, <3>1, <3>2, <3>3, FlatUnique
  <2>4. FlattenSeq(ss) = f[n]
    BY <1>6, <2>1, FlattenIsFlat
  <2>. QED BY <1>3, <1>4, <1>6, <2>2, <2>3, <2>4, <1>0
<1>. QED BY <1>5, <1>6

\* The brackets of a concatenation do not matter.
Rebracket(a, b, c) == (a \o b) \o c = a \o (b \o c)

LEMMA Brackets ==
  ASSUME NEW S, NEW a \in Seq(S), NEW b \in Seq(S), NEW c \in Seq(S)
  PROVE  Rebracket(a, b, c)
  BY ConcatAssociative DEF Rebracket

\* Flattening from the front.
LEMMA FlattenTail ==
  ASSUME NEW S, NEW ss \in Lists(S), ss # << >>
  PROVE  FlattenSeq(ss) = Head(ss) \o FlattenSeq(Tail(ss))
<1>. DEFINE Split(s) == FlattenSeq(s) = Head(s) \o FlattenSeq(Tail(s))
            G == {m \in 0..Len(ss) : \A s \in Lists(S) : Len(s) = m /\ m # 0 => Split(s)}
<1>1. Len(ss) \in Nat /\ Len(ss) # 0
  BY EmptySeq, LenProperties
<1>2. 0 \in G
  BY <1>1
<1>3. ASSUME NEW m \in 1..Len(ss), m - 1 \in G PROVE m \in G
  <2>. SUFFICES ASSUME NEW s \in Lists(S), Len(s) = m PROVE Split(s)
    BY <1>1
  <2>1. s # << >>
    BY <1>1, EmptySeq
  <2>2. PICK u \in Lists(S), x \in Seq(S) : s = Append(u, x)
    <3>1. Len(s) \in Nat /\ Len(s) # 0
      BY <1>1
    <3>. DEFINE u == SubSeq(s, 1, Len(s) - 1)
    <3>2. u \in Lists(S) /\ Append(u, s[Len(s)]) = s
      BY <3>1 DEF Lists
    <3>3. s[Len(s)] \in Seq(S)
      BY <3>1, ElementOfSeq DEF Lists
    <3>. QED BY <3>2, <3>3
  <2>3. Len(u) = m - 1
    <3>1. Len(s) = Len(u) + 1 /\ Len(u) \in Nat
      BY <2>2, AppendProperties, LenProperties
    <3>. QED BY <3>1
  <2>4. FlattenSeq(s) = FlattenSeq(u) \o x
    BY <2>2, FlattenAppend
  <2>5. CASE u = << >>
    <3>1. Head(s) = x /\ Tail(s) = << >>
      BY <2>2, <2>5, HeadTailAppend
    <3>2. << >> \o x = x /\ x \o << >> = x
      BY ConcatEmptySeq
    <3>. QED BY <2>4, <2>5, <3>1, <3>2, FlattenEmpty
  <2>6. CASE u # << >>
    <3>1. Head(s) = Head(u) /\ Tail(s) = Append(Tail(u), x)
      BY <2>2, <2>6, HeadTailAppend
    <3>2. Head(u) \in Seq(S) /\ Tail(u) \in Lists(S)
      BY <2>6, HeadTailProperties DEF Lists
    <3>3. Split(u)
      <4>1. m - 1 # 0
        BY <2>3, <2>6, EmptySeq
      <4>. QED BY <1>3, <2>3, <4>1
    <3>4. FlattenSeq(Tail(s)) = FlattenSeq(Tail(u)) \o x
      BY <3>1, <3>2, FlattenAppend
    <3>5. FlattenSeq(Tail(u)) \in Seq(S)
      BY <3>2, FlattenType
    <3>6. (Head(u) \o FlattenSeq(Tail(u))) \o x = Head(u) \o (FlattenSeq(Tail(u)) \o x)
      <4>1. PICK a \in Seq(S), b \in Seq(S) : a = Head(u) /\ b = FlattenSeq(Tail(u))
        BY <3>2, <3>5
      <4>2. (a \o b) \o x = a \o (b \o x)
        <5>1. a \in Seq(S) /\ b \in Seq(S) /\ x \in Seq(S)
          OBVIOUS
        <5>2. Rebracket(a, b, x)
          BY ONLY <5>1, Brackets
        <5>. QED BY <5>2 DEF Rebracket
      <4>. QED BY <4>1, <4>2
    <3>. QED BY <2>4, <3>1, <3>3, <3>4, <3>6
  <2>. QED BY <2>5, <2>6
<1>4. \A i \in 0..Len(ss) : i \in G
  <2>. HIDE DEF G
  <2>. QED BY <1>1, <1>2, <1>3, Induction
<1>5. Len(ss) \in G
  <2>. HIDE DEF G
  <2>. QED BY <1>1, <1>4
<1>6. Split(ss)
  <2>. HIDE DEF Split
  <2>. QED BY <1>1, <1>5
<1>. QED BY <1>6

-----------------------------------------------------------------------------
(* The keys copy mode is fed                                               *)

Mode == {"off", "on", "search"}

\* The modes that copy mode goes through, key by key (CopyMode::feed).
LEMMA CopyFeedRuns ==
  ASSUME NEW mode \in Mode, NEW S, NEW ks \in Seq(S)
  PROVE  \E f \in [0..Len(ks) -> Mode] :
           /\ f[0] = mode /\ CopyFeed(mode, ks) = f[Len(ks)]
           /\ \A i \in 1..Len(ks) : f[i] = FeedKey(f[i - 1], keys[ks[i]])
<1>. DEFINE n == Len(ks)
            Next1(m, i) == FeedKey(m, keys[ks[i]])
            IsFed(g) == g = [i \in 0..n |-> IF i = 0 THEN mode ELSE Next1(g[i - 1], i)]
            Upto(g, m) == g \in [0..m -> Mode] /\ g[0] = mode
                          /\ \A i \in 1..m : g[i] = Next1(g[i - 1], i)
            G == {m \in 0..n : \E g : Upto(g, m)}
<1>1. n \in Nat
  BY LenProperties
<1>2. ASSUME NEW m \in Mode, NEW i
      PROVE  Next1(m, i) \in Mode
  BY DEF FeedKey, Mode
<1>. HIDE DEF Next1
<1>3. 0 \in G
  <2>1. Upto([i \in 0..0 |-> mode], 0)
    OBVIOUS
  <2>. HIDE DEF Upto
  <2>. QED BY <1>1, <2>1
<1>4. ASSUME NEW m \in 1..n, m - 1 \in G PROVE m \in G
  <2>1. PICK g : Upto(g, m - 1)
    BY <1>4
  <2>. DEFINE h == [i \in 0..m |-> IF i = m THEN Next1(g[m - 1], m) ELSE g[i]]
  <2>2. Next1(g[m - 1], m) \in Mode
    BY <1>1, <1>2, <2>1
  <2>3. h \in [0..m -> Mode] /\ h[0] = mode
    BY <1>1, <2>1, <2>2
  <2>4. ASSUME NEW i \in 1..m PROVE h[i] = Next1(h[i - 1], i)
    <3>1. h[i - 1] = g[i - 1]
      BY <1>1
    <3>2. CASE i = m
      BY <1>1, <3>1, <3>2
    <3>3. CASE i # m
      <4>1. i \in 1..(m - 1) /\ h[i] = g[i]
        BY <1>1, <3>3
      <4>. QED BY <2>1, <3>1, <4>1
    <3>. QED BY <3>2, <3>3
  <2>5. Upto(h, m)
    BY <2>3, <2>4
  <2>. HIDE DEF Upto, h
  <2>. QED BY <1>1, <2>5
<1>5. PICK g : Upto(g, n)
  <2>. HIDE DEF G
  <2>1. \A i \in 0..n : i \in G
    BY <1>1, <1>3, <1>4, Induction
  <2>2. n \in G
    BY <1>1, <2>1
  <2>. QED BY <2>2 DEF G
<1>6. IsFed(g)
  BY <1>1, <1>5
<1>7. IsFed(CHOOSE f : IsFed(f))
  <2>. HIDE DEF IsFed
  <2>. QED BY <1>6
<1>8. PICK f : f = (CHOOSE h : IsFed(h))
  OBVIOUS
<1>9. IsFed(f)
  BY <1>7, <1>8
<1>10. CopyFeed(mode, ks) = f[n]
  BY <1>8 DEF CopyFeed, Next1
<1>. DEFINE H == {i \in 0..n : f[i] \in Mode}
<1>11. 0 \in H
  BY <1>1, <1>9
<1>12. \A i \in 1..n : f[i] = Next1(f[i - 1], i)
  BY <1>1, <1>9
<1>13. ASSUME NEW i \in 1..n, i - 1 \in H PROVE i \in H
  BY <1>2, <1>12, <1>13
<1>14. \A i \in 0..n : i \in H
  <2>. HIDE DEF H
  <2>. QED BY <1>1, <1>11, <1>13, Induction
<1>15. f \in [0..n -> Mode] /\ f[0] = mode
  BY <1>1, <1>9, <1>14
<1>. QED BY <1>10, <1>12, <1>15 DEF Next1

LEMMA CopyFeedType ==
  ASSUME NEW mode \in Mode, NEW S, NEW ks \in Seq(S)
  PROVE  CopyFeed(mode, ks) \in Mode
<1>1. PICK f \in [0..Len(ks) -> Mode] : CopyFeed(mode, ks) = f[Len(ks)]
  BY CopyFeedRuns
<1>2. Len(ks) \in 0..Len(ks)
  BY LenProperties
<1>. QED BY <1>1, <1>2

-----------------------------------------------------------------------------
(* Chords                                                                  *)

Chords == Chord({"q", "y"})

\* The keys that may be on their way to the child: those of no chord, except
\* one that may yet turn out to begin one.
Sendable == {p \in Positions : p \notin Chords /\ ~(prefix /\ p = Len(keys))}

\* The keyboard thread holds back a last key that may begin a chord.
KeyInv ==
  /\ keys \in Seq(Key) /\ prefix \in BOOLEAN
  /\ prefix => Len(keys) # 0 /\ keys[Len(keys)] = First
  /\ thread = "on" /\ Len(keys) # 0 /\ keys[Len(keys)] = First => prefix

\* All that is queued, kept, being written or sent is a key of S.
Queued(S) ==
  /\ stdin \in Seq([copy : BOOLEAN, keys : Seq(S)])
  /\ toPty \in Seq(Seq(S)) /\ writing \in Seq(S) /\ sent \in Seq(S) /\ pending \in Seq(S)

FlowInv == KeyInv /\ Queued(Sendable)

\* Chords, of whatever has been typed.
ChordsOf(ks, K) ==
  LET ends == {i \in (1..Len(ks)) \ {1} : ks[i] \in K /\ ks[i - 1] = First}
  IN ends \cup {i - 1 : i \in ends}

\* A key is in a chord with the one before it or with the one after it.
LEMMA ChordFacts ==
  ASSUME NEW ks \in Seq(Key), NEW K, NEW p \in Nat
  PROVE  p \in ChordsOf(ks, K) <=>
           \/ p \in 2..Len(ks) /\ ks[p] \in K /\ ks[p - 1] = First
           \/ p \in 1..(Len(ks) - 1) /\ ks[p + 1] \in K /\ ks[p] = First
<1>. DEFINE Ends == {i \in (1..Len(ks)) \ {1} : ks[i] \in K /\ ks[i - 1] = First}
<1>1. Len(ks) \in Nat
  BY LenProperties
<1>2. ChordsOf(ks, K) = Ends \cup {i - 1 : i \in Ends}
  BY DEF ChordsOf
<1>3. \A i \in Ends : i \in 2..Len(ks)
  BY <1>1
<1>4. p \in Ends <=> p \in 2..Len(ks) /\ ks[p] \in K /\ ks[p - 1] = First
  BY <1>1
<1>5. p + 1 \in Ends <=>
        p \in 1..(Len(ks) - 1) /\ ks[p + 1] \in K /\ ks[p] = First
  <2>1. (p + 1) - 1 = p
    OBVIOUS
  <2>. QED BY <1>1, <2>1
<1>6. p \in {i - 1 : i \in Ends} <=> p + 1 \in Ends
  <2>1. ASSUME NEW i \in Ends, p = i - 1 PROVE i = p + 1
    BY <1>1, <1>3, <2>1
  <2>2. (p + 1) - 1 = p
    OBVIOUS
  <2>. HIDE DEF Ends
  <2>. QED BY <2>1, <2>2
<1>. HIDE DEF Ends
<1>. QED BY <1>2, <1>4, <1>5, <1>6

LEMMA ChordIs ==
  ASSUME NEW K
  PROVE  Chord(K) = ChordsOf(keys, K) /\ Chord(K)' = ChordsOf(keys', K)
  BY DEF Chord, ChordsOf, Positions

\* Another key typed puts nothing into a chord that was on its way already.
LEMMA SendableGrows ==
  ASSUME KeyInv, thread = "on", NEW k \in Key, keys' = Append(keys, k),
         prefix' => k = First
  PROVE  /\ Sendable \subseteq Sendable'
         /\ k \notin {"q", "y"} /\ prefix => Len(keys) \in Sendable'
         /\ k # First /\ ~prefix => Len(keys) + 1 \in Sendable'
         /\ k \notin {First, "q", "y"} => Len(keys) + 1 \in Sendable'
<1>. DEFINE n == Len(keys)
<1>1. keys \in Seq(Key) /\ n \in Nat /\ First \notin {"q", "y"}
  BY LenProperties DEF KeyInv, First
<1>2. /\ keys' \in Seq(Key) /\ Len(keys') = n + 1
      /\ \A i \in 1..n : keys'[i] = keys[i]
      /\ keys'[n + 1] = k
  BY <1>1, AppendProperties
<1>3. \A p \in Nat : p \in Chords <=>
        \/ p \in 2..n /\ keys[p] \in {"q", "y"} /\ keys[p - 1] = First
        \/ p \in 1..(n - 1) /\ keys[p + 1] \in {"q", "y"} /\ keys[p] = First
  <2>1. Chords = ChordsOf(keys, {"q", "y"})
    BY ChordIs DEF Chords
  <2>. QED BY <1>1, <2>1, ChordFacts
<1>4. \A p \in Nat : p \in Chords' <=>
        \/ p \in 2..(n + 1) /\ keys'[p] \in {"q", "y"} /\ keys'[p - 1] = First
        \/ p \in 1..n /\ keys'[p + 1] \in {"q", "y"} /\ keys'[p] = First
  <2>1. Chords' = ChordsOf(keys', {"q", "y"})
    BY ChordIs DEF Chords
  <2>2. \A p \in Nat : p \in ChordsOf(keys', {"q", "y"}) <=>
          \/ p \in 2..Len(keys') /\ keys'[p] \in {"q", "y"} /\ keys'[p - 1] = First
          \/ p \in 1..(Len(keys') - 1) /\ keys'[p + 1] \in {"q", "y"} /\ keys'[p] = First
    BY <1>2, ChordFacts
  <2>. QED BY <1>1, <1>2, <2>1, <2>2
<1>5. Positions = 1..n /\ Positions' = 1..(n + 1)
  BY <1>2 DEF Positions
<1>6. ASSUME NEW p \in Sendable PROVE p \in Sendable'
  <2>1. p \in 1..n /\ p \notin Chords /\ ~(prefix /\ p = n)
    BY <1>5 DEF Sendable
  <2>2. p = n => keys[n] # First
    BY <1>1, <2>1 DEF KeyInv
  <2>3. p \notin Chords'
    <3>1. CASE p = n
      BY <1>1, <1>2, <1>3, <1>4, <2>1, <2>2, <3>1
    <3>2. CASE p # n
      <4>1. p \in 1..(n - 1) /\ p + 1 \in 1..n
        BY <1>1, <2>1, <3>2
      <4>. QED BY <1>1, <1>2, <1>3, <1>4, <2>1, <4>1
    <3>. QED BY <3>1, <3>2
  <2>. QED BY <1>1, <1>2, <1>5, <2>1, <2>3 DEF Sendable
<1>7. ASSUME k \notin {"q", "y"}, prefix PROVE n \in Sendable'
  <2>1. n \in 1..n /\ keys[n] = First
    BY <1>1, <1>7 DEF KeyInv
  <2>2. n \notin Chords'
    BY <1>1, <1>2, <1>4, <1>7, <2>1
  <2>. QED BY <1>1, <1>2, <1>5, <2>1, <2>2 DEF Sendable
<1>8. ASSUME k # First, k \notin {"q", "y"} \/ ~prefix PROVE n + 1 \in Sendable'
  <2>1. n # 0 /\ k \in {"q", "y"} => keys[n] # First
    BY <1>8 DEF KeyInv
  <2>2. n + 1 \notin Chords'
    <3>1. n + 1 \in 2..(n + 1) => keys'[(n + 1) - 1] = keys[n] /\ n # 0
      BY <1>1, <1>2
    <3>. QED BY <1>1, <1>2, <1>4, <2>1, <3>1
  <2>. QED BY <1>1, <1>2, <1>5, <1>8, <2>2 DEF Sendable
<1>. QED BY <1>6, <1>7, <1>8

-----------------------------------------------------------------------------
(* What is on its way                                                      *)

\* What may travel goes on to travel when more is allowed.
LEMMA QueuedGrows ==
  ASSUME NEW S, NEW T, S \subseteq T, Queued(S)
  PROVE  Queued(T)
<1>1. Seq(S) \subseteq Seq(T)
  BY SeqMonotonic
<1>2. Seq(Seq(S)) \subseteq Seq(Seq(T))
  BY <1>1, SeqMonotonic
<1>3. [copy : BOOLEAN, keys : Seq(S)] \subseteq [copy : BOOLEAN, keys : Seq(T)]
  BY <1>1
<1>4. Seq([copy : BOOLEAN, keys : Seq(S)]) \subseteq Seq([copy : BOOLEAN, keys : Seq(T)])
  BY <1>3, SeqMonotonic
<1>. QED BY <1>1, <1>2, <1>4 DEF Queued

\* A step of the select loop, of write_pty or of the daemon only moves on
\* what was on its way.
LEMMA LoopMoves ==
  ASSUME NEW S, Queued(S), Write \/ Select \/ OnTerm \/ Daemon
  PROVE  Queued(S)' /\ UNCHANGED keyboard
<1>. USE DEF Queued, keyboard, uplink, copying
<1>1. CASE WriteTake
  BY <1>1, HeadTailProperties DEF WriteTake
<1>2. CASE WritePut
  BY <1>2, ConcatProperties, EmptySeq DEF WritePut
<1>3. CASE WriteFails \/ Flushed
  BY <1>3, EmptySeq DEF WriteFails, Exits, Flushed
<1>4. CASE FetchFailed \/ FetchDone \/ OnStdinOver \/ OnOutput
  <2>1. UNCHANGED <<keyboard, stdin, uplink>> /\ pending' \in {pending, << >>}
    BY <1>4 DEF FetchFailed, FetchDone, OnStdinOver, OnOutput
  <2>. QED BY <2>1, EmptySeq
<1>5. CASE OnCopy
  BY <1>5, HeadTailProperties DEF OnCopy, Event
<1>6. CASE OnBytesPending
  <2>1. stdin # << >>
    BY <1>6 DEF OnBytesPending, Event
  <2>2. /\ Head(stdin) \in [copy : BOOLEAN, keys : Seq(S)]
        /\ Tail(stdin) \in Seq([copy : BOOLEAN, keys : Seq(S)])
    BY <2>1, HeadTailProperties
  <2>3. pending \o Head(stdin).keys \in Seq(S)
    BY <2>2, ConcatProperties
  <2>. QED BY <1>6, <2>2, <2>3 DEF OnBytesPending
<1>7. CASE OnBytesCopy
  BY <1>7, HeadTailProperties DEF OnBytesCopy, Event
<1>8. CASE OnBytesForward
  <2>1. Head(stdin).keys \in Seq(S) /\ Tail(stdin) \in Seq([copy : BOOLEAN, keys : Seq(S)])
    <3>1. stdin # << >>
      BY <1>8 DEF OnBytesForward, Event
    <3>2. /\ Head(stdin) \in [copy : BOOLEAN, keys : Seq(S)]
          /\ Tail(stdin) \in Seq([copy : BOOLEAN, keys : Seq(S)])
      BY <3>1, HeadTailProperties
    <3>. QED BY <3>2
  <2>2. Append(toPty, Head(stdin).keys) \in Seq(Seq(S))
    BY <2>1, AppendProperties
  <2>. QED BY <1>8, <2>1, <2>2 DEF OnBytesForward
<1>9. CASE OnEof \/ OnTerm
  BY <1>9, EmptySeq DEF OnEof, OnTerm, Quit, Exits
<1>10. CASE Daemon
  BY <1>10 DEF Daemon, DaemonWrites, DaemonReads, DaemonCloses, DaemonAnswers
<1>. QED
  BY <1>1, <1>2, <1>3, <1>4, <1>5, <1>6, <1>7, <1>8, <1>9, <1>10 DEF Write, Select

\* What the keyboard thread sends for a key is a key of no chord.
LEMMA TypeSends ==
  ASSUME KeyInv, NEW k \in Key, Type(k), NEW S,
         k \notin {"q", "y"} /\ prefix => Len(keys) \in S,
         k # First /\ ~prefix => Len(keys) + 1 \in S,
         k \notin {First, "q", "y"} => Len(keys) + 1 \in S
  PROVE  Events(Match(k)) \in Seq([copy : BOOLEAN, keys : Seq(S)])
<1>. DEFINE Ev == [copy : BOOLEAN, keys : Seq(S)]
<1>1. << >> \in Seq(Ev) /\ << >> \in Seq(S)
  BY EmptySeq
<1>2. CASE prefix /\ k = "q"
  <2>1. Match(k) = [does |-> "detach", out |-> << >>]
    BY <1>2 DEF Match
  <2>. QED BY <1>1, <2>1 DEF Events
<1>3. CASE prefix /\ k = "y"
  <2>1. Match(k) = [does |-> "copy", out |-> << >>]
    BY <1>3 DEF Match
  <2>2. CopyEvent \in Ev
    BY <1>1 DEF CopyEvent
  <2>. QED BY <2>1, <2>2 DEF Events
<1>4. CASE ~(prefix /\ k \in {"q", "y"})
  <2>. DEFINE before == IF prefix THEN <<Len(keys)>> ELSE << >>
              after  == IF k = First THEN << >> ELSE <<Len(keys) + 1>>
  <2>1. Match(k) = [does |-> "forward", out |-> before \o after]
    BY <1>4 DEF Match
  <2>2. before \in Seq(S) /\ after \in Seq(S)
    BY <1>1, <1>4 DEF First
  <2>. HIDE DEF before, after
  <2>3. before \o after \in Seq(S)
    BY <2>2, ConcatProperties
  <2>4. Bytes(before \o after) \in Ev
    BY <2>3 DEF Bytes
  <2>5. Events(Match(k)) = << >> \/ Events(Match(k)) = <<Bytes(before \o after)>>
    BY <2>1 DEF Events
  <2>6. \A e \in Ev : <<e>> \in Seq(Ev)
    OBVIOUS
  <2>. HIDE DEF Ev
  <2>7. Events(Match(k)) \in Seq(Ev)
    BY <1>1, <2>4, <2>5, <2>6
  <2>. QED BY <2>7 DEF Ev
<1>. QED BY <1>2, <1>3, <1>4

-----------------------------------------------------------------------------
(* Every key on its way may be sent                                        *)

LEMMA InitFlow == Init => FlowInv
  BY EmptySeq DEF Init, FlowInv, KeyInv, Queued

LEMMA TypeFlow ==
  ASSUME FlowInv, NEW k \in Key, Type(k)
  PROVE  FlowInv'
<1>1. /\ keys \in Seq(Key) /\ thread = "on" /\ keys' = Append(keys, k)
      /\ prefix' = (Match(k).does = "forward" /\ k = First)
      /\ thread' = IF Match(k).does = "detach" THEN "detached" ELSE "on"
      /\ stdin' = stdin \o Events(Match(k))
      /\ UNCHANGED <<toPty, writing, sent, pending>>
  BY DEF Type, FlowInv, KeyInv, uplink, copying
<1>2. /\ keys' \in Seq(Key) /\ Len(keys') = Len(keys) + 1 /\ Len(keys) \in Nat
      /\ keys'[Len(keys) + 1] = k
  BY <1>1, AppendProperties, LenProperties
<1>3. KeyInv'
  <2>1. k = First => Match(k).does = "forward"
    BY DEF Match, First
  <2>2. prefix' \in BOOLEAN
    BY <1>1
  <2>3. prefix' => k = First
    BY <1>1
  <2>4. thread' = "on" /\ k = First => prefix'
    BY <1>1, <2>1
  <2>5. keys'[Len(keys')] = k /\ Len(keys') # 0
    BY <1>2
  <2>. QED BY <1>2, <2>2, <2>3, <2>4, <2>5 DEF KeyInv
<1>4. /\ Sendable \subseteq Sendable'
      /\ k \notin {"q", "y"} /\ prefix => Len(keys) \in Sendable'
      /\ k # First /\ ~prefix => Len(keys) + 1 \in Sendable'
      /\ k \notin {First, "q", "y"} => Len(keys) + 1 \in Sendable'
  BY <1>1, SendableGrows DEF FlowInv
<1>5. PICK S : S = Sendable'
  OBVIOUS
<1>6. Queued(S)
  BY <1>4, <1>5, QueuedGrows DEF FlowInv
<1>7. Events(Match(k)) \in Seq([copy : BOOLEAN, keys : Seq(S)])
  BY <1>4, <1>5, TypeSends DEF FlowInv
<1>8. stdin' \in Seq([copy : BOOLEAN, keys : Seq(S)])
  BY <1>1, <1>6, <1>7, ConcatProperties DEF Queued
<1>9. Queued(Sendable)'
  BY <1>1, <1>5, <1>6, <1>8 DEF Queued
<1>. QED BY <1>3, <1>9 DEF FlowInv

\* At the end of input a lone prefix is sent: it has begun no chord.
LEMMA EofFlow ==
  ASSUME FlowInv, TypeEof
  PROVE  FlowInv'
<1>1. /\ keys' = keys /\ prefix' = FALSE /\ thread' = "eof"
      /\ stdin' = IF prefix THEN Append(stdin, Bytes(<<Len(keys)>>)) ELSE stdin
      /\ UNCHANGED <<toPty, writing, sent, pending>>
  BY DEF TypeEof, uplink, copying
<1>2. KeyInv'
  BY <1>1 DEF FlowInv, KeyInv
<1>3. Positions' = Positions /\ Chords' = Chords
  BY <1>1 DEF Positions, Chords, Chord
<1>4. Sendable \subseteq Sendable'
  BY <1>1, <1>3 DEF Sendable
<1>5. ASSUME prefix PROVE Len(keys) \in Sendable'
  <2>1. keys \in Seq(Key) /\ Len(keys) \in Nat /\ Len(keys) # 0 /\ keys[Len(keys)] = First
    BY <1>5, LenProperties DEF FlowInv, KeyInv
  <2>2. Chords = ChordsOf(keys, {"q", "y"})
    BY ChordIs DEF Chords
  <2>3. First \notin {"q", "y"} /\ Len(keys) \notin 1..(Len(keys) - 1)
    BY <2>1 DEF First
  <2>4. Len(keys) \notin Chords
    BY <2>1, <2>2, <2>3, ChordFacts
  <2>. QED BY <1>1, <1>3, <2>1, <2>4 DEF Sendable, Positions
<1>6. PICK S : S = Sendable'
  OBVIOUS
<1>7. Queued(S)
  BY <1>4, <1>6, QueuedGrows DEF FlowInv
<1>8. prefix => Bytes(<<Len(keys)>>) \in [copy : BOOLEAN, keys : Seq(S)]
  BY <1>5, <1>6 DEF Bytes
<1>9. stdin' \in Seq([copy : BOOLEAN, keys : Seq(S)])
  <2>1. stdin \in Seq([copy : BOOLEAN, keys : Seq(S)])
    BY <1>7 DEF Queued
  <2>2. CASE prefix
    BY <1>1, <1>8, <2>1, <2>2, AppendProperties
  <2>3. CASE ~prefix
    BY <1>1, <2>1, <2>3
  <2>. QED BY <2>2, <2>3
<1>10. Queued(Sendable)'
  BY <1>1, <1>6, <1>7, <1>9 DEF Queued
<1>. QED BY <1>2, <1>10 DEF FlowInv

LEMMA NextFlow ==
  ASSUME FlowInv, [Next]_vars
  PROVE  FlowInv'
<1>0. CASE TypeFails
  BY <1>0 DEF TypeFails, uplink, copying, FlowInv, KeyInv, Queued, Sendable, Positions, Chords,
     Chord
<1>1. CASE \E k \in Key : Type(k)
  BY <1>1, TypeFlow
<1>2. CASE TypeEof
  BY <1>2, EofFlow
<1>3. CASE Write \/ Select \/ OnTerm \/ Daemon
  <2>1. PICK S : S = Sendable
    OBVIOUS
  <2>2. Queued(S)
    BY <2>1 DEF FlowInv
  <2>3. Queued(S)' /\ UNCHANGED <<keys, thread, prefix>>
    BY <1>3, <2>2, LoopMoves DEF keyboard
  <2>4. Sendable' = S
    BY <2>1, <2>3 DEF Sendable, Positions, Chords, Chord
  <2>5. Queued(Sendable)'
    BY <2>3, <2>4 DEF Queued
  <2>6. KeyInv'
    BY <2>3 DEF FlowInv, KeyInv
  <2>. QED BY <2>5, <2>6 DEF FlowInv
<1>4. CASE UNCHANGED vars
  BY <1>4 DEF vars, keyboard, uplink, copying, FlowInv, KeyInv, Queued, Sendable, Positions, Chords, Chord
<1>. QED BY <1>0, <1>1, <1>2, <1>3, <1>4 DEF Next

-----------------------------------------------------------------------------
(* Types and capacities                                                    *)

\* What the queues hold and how far the daemon and the client are.
RoomInv ==
  /\ thread \in {"on", "detached", "eof"}
  /\ loop \in {"select", "stuck", "flush", "exited"} /\ stdinOver \in BOOLEAN
  /\ Len(stdin) <= StdinCap /\ Len(toPty) <= ToPtyCap /\ unread \in 0..WireCap
  /\ fetch \in {"none", "running", "ok", "failed"} /\ copy \in Mode
  /\ snap \in 0..MaxChunk /\ restore \in 0..MaxChunk
  /\ got \in Nat /\ made \in Nat /\ got <= made /\ made <= MaxChunk
  /\ held \in Seq(1..MaxChunk) /\ Len(held) <= HeldCap
  /\ shown \in Seq(1..MaxChunk) /\ lost \subseteq 1..MaxChunk
  /\ frame \in 0..MaxChunk /\ asked \in 0..MaxChunk /\ since \in 0..MaxChunk

\* The capacities and bounds are numbers.
LEMMA Capacities ==
  /\ StdinCap \in Nat \ {0} /\ ToPtyCap \in Nat \ {0} /\ WireCap \in Nat \ {0}
  /\ HeldCap \in Nat \ {0} /\ MaxKey \in Nat /\ MaxChunk \in Nat
  BY CapAssumption

LEMMA HeadOfStdin ==
  ASSUME NEW S, Queued(S), stdin # << >>
  PROVE  /\ Head(stdin) \in [copy : BOOLEAN, keys : Seq(S)]
         /\ Tail(stdin) \in Seq([copy : BOOLEAN, keys : Seq(S)])
         /\ Len(stdin) \in Nat \ {0} /\ Len(Tail(stdin)) = Len(stdin) - 1
  BY HeadTailProperties, EmptySeq, LenProperties DEF Queued

\* An empty queue of output.
LEMMA Nothing ==
  ASSUME NEW h, h = << >>
  PROVE  h \in Seq(1..MaxChunk) /\ Len(h) = 0 /\ Len(h) <= HeldCap
<1>1. h \in Seq(1..MaxChunk) /\ Len(h) = 0
  BY EmptySeq
<1>. QED BY <1>1, Capacities

LEMMA ElementsOf ==
  ASSUME NEW S, NEW s \in Seq(S)
  PROVE  ToSet(s) \subseteq S
<1>1. \A i \in DOMAIN s : s[i] \in S
  OBVIOUS
<1>. QED BY <1>1 DEF ToSet

LEMMA SeqWithin ==
  ASSUME NEW T, NEW S, NEW s \in Seq(T), ToSet(s) \subseteq S
  PROVE  s \in Seq(S)
<1>1. Len(s) \in Nat /\ s \in [1..Len(s) -> T] /\ DOMAIN s = 1..Len(s)
  BY LenProperties
<1>2. \A i \in 1..Len(s) : s[i] \in S
  BY <1>1 DEF ToSet
<1>3. s \in [1..Len(s) -> S]
  BY <1>1, <1>2
<1>. QED BY <1>1, <1>3

LEMMA ToSetConcat ==
  ASSUME NEW S, NEW a \in Seq(S), NEW b \in Seq(S)
  PROVE  ToSet(a \o b) = ToSet(a) \cup ToSet(b)
<1>1. /\ Len(a) \in Nat /\ Len(b) \in Nat /\ DOMAIN a = 1..Len(a) /\ DOMAIN b = 1..Len(b)
  BY LenProperties
<1>2. PICK c : c = a \o b
  OBVIOUS
<1>3. /\ DOMAIN c = 1..(Len(a) + Len(b))
      /\ \A i \in 1..(Len(a) + Len(b)) : c[i] = IF i <= Len(a) THEN a[i] ELSE b[i - Len(a)]
  <2>1. /\ c \in Seq(S) /\ Len(c) = Len(a) + Len(b)
        /\ \A i \in 1..(Len(a) + Len(b)) : c[i] = IF i <= Len(a) THEN a[i] ELSE b[i - Len(a)]
    BY <1>2, ConcatProperties
  <2>. QED BY <2>1, LenProperties
<1>4. ASSUME NEW x \in ToSet(c) PROVE x \in ToSet(a) \cup ToSet(b)
  <2>1. PICK i \in 1..(Len(a) + Len(b)) : x = c[i]
    BY <1>3 DEF ToSet
  <2>2. CASE i <= Len(a)
    <3>1. i \in 1..Len(a) /\ x = a[i]
      BY <1>1, <1>3, <2>1, <2>2
    <3>. QED BY <1>1, <3>1 DEF ToSet
  <2>3. CASE ~(i <= Len(a))
    <3>1. i - Len(a) \in 1..Len(b) /\ x = b[i - Len(a)]
      BY <1>1, <1>3, <2>1, <2>3
    <3>. QED BY <1>1, <3>1 DEF ToSet
  <2>. QED BY <2>2, <2>3
<1>5. ASSUME NEW x \in ToSet(a) PROVE x \in ToSet(c)
  <2>1. PICK i \in 1..Len(a) : x = a[i]
    BY <1>1 DEF ToSet
  <2>2. i \in 1..(Len(a) + Len(b)) /\ i <= Len(a)
    BY <1>1
  <2>. QED BY <1>3, <2>1, <2>2 DEF ToSet
<1>6. ASSUME NEW x \in ToSet(b) PROVE x \in ToSet(c)
  <2>1. PICK i \in 1..Len(b) : x = b[i]
    BY <1>1 DEF ToSet
  <2>2. PICK l : l = i + Len(a)
    OBVIOUS
  <2>3. l \in 1..(Len(a) + Len(b)) /\ ~(l <= Len(a)) /\ l - Len(a) = i
    BY <1>1, <2>2
  <2>. QED BY <1>3, <2>1, <2>3 DEF ToSet
<1>7. ToSet(c) = ToSet(a) \cup ToSet(b)
  BY <1>4, <1>5, <1>6
<1>. QED BY <1>2, <1>7

\* The whole of what was held may be written to the screen.
LEMMA RestoredType ==
  ASSUME RoomInv, NEW x \in 0..MaxChunk, Restored(x)
  PROVE  frame' \in 0..MaxChunk /\ shown' \in Seq(1..MaxChunk)
  BY DEF RoomInv, Restored

\* What is typed goes to stdin.
LEMMA TypeGrows ==
  ASSUME FlowInv, NEW k \in Key, Type(k)
  PROVE  /\ Events(Match(k)) \in Seq([copy : BOOLEAN, keys : Seq(Nat)])
         /\ Len(stdin') = Len(stdin) + Len(Events(Match(k)))
<1>1. Len(keys) \in Nat
  BY LenProperties DEF FlowInv, KeyInv
<1>2. PICK S : S = Nat
  OBVIOUS
<1>3. Events(Match(k)) \in Seq([copy : BOOLEAN, keys : Seq(S)])
  <2>1. Len(keys) \in S /\ Len(keys) + 1 \in S /\ KeyInv
    BY <1>1, <1>2 DEF FlowInv
  <2>. QED BY <2>1, TypeSends
<1>4. stdin \in Seq([copy : BOOLEAN, keys : Seq(Sendable)])
  BY DEF FlowInv, Queued
<1>5. stdin' = stdin \o Events(Match(k))
  BY DEF Type
<1>6. Sendable \subseteq S
  BY <1>2, LenProperties DEF Sendable, Positions, FlowInv, KeyInv
<1>7. stdin \in Seq([copy : BOOLEAN, keys : Seq(S)])
  <2>1. Queued(S)
    BY <1>6, QueuedGrows DEF FlowInv
  <2>. QED BY <2>1 DEF Queued
<1>. QED BY <1>2, <1>3, <1>5, <1>7, ConcatProperties

LEMMA InitRoom == Init => RoomInv
<1>. SUFFICES ASSUME Init PROVE RoomInv
  OBVIOUS
<1>1. held \in Seq(1..MaxChunk) /\ Len(held) <= HeldCap
  BY Nothing DEF Init
<1>2. Len(stdin) = 0 /\ Len(toPty) = 0
  BY EmptySeq DEF Init
<1>3. Len(stdin) <= StdinCap /\ Len(toPty) <= ToPtyCap
  BY <1>2, Capacities
<1>4. copy \in Mode
  BY DEF Init, Mode
<1>5. unread \in 0..WireCap /\ snap \in 0..MaxChunk /\ restore \in 0..MaxChunk
  BY Capacities DEF Init
<1>6. got \in Nat /\ made \in Nat /\ got <= made /\ made <= MaxChunk
  BY Capacities DEF Init
<1>7. /\ thread = "on" /\ loop = "select" /\ stdinOver = FALSE /\ fetch = "none"
      /\ lost \subseteq 1..MaxChunk
  BY DEF Init
<1>8. shown \in Seq(1..MaxChunk)
  BY EmptySeq DEF Init
<1>9. frame \in 0..MaxChunk /\ asked \in 0..MaxChunk /\ since \in 0..MaxChunk
  BY Capacities DEF Init
<1>. QED BY <1>1, <1>3, <1>4, <1>5, <1>6, <1>7, <1>8, <1>9 DEF RoomInv

\* There is room in a queue that is empty.
LEMMA NoQueue == Len(<< >>) = 0 /\ 0 <= StdinCap /\ 0 <= ToPtyCap
  BY EmptySeq, CapAssumption

LEMMA NextRoom ==
  ASSUME FlowInv, RoomInv, [Next]_vars
  PROVE  RoomInv'
<1>. USE Capacities
<1>0. Queued(Sendable) /\ Mode = {"off", "on", "search"}
  BY DEF FlowInv, Mode
<1>1. ASSUME NEW k \in Key, Type(k) PROVE RoomInv'
  <2>1. Len(stdin') <= StdinCap
    <3>1. Len(stdin) + Len(Events(Match(k))) <= StdinCap
      BY <1>1 DEF Type, Room
    <3>. QED BY <1>1, <3>1, TypeGrows
  <2>2. thread' \in {"on", "detached", "eof"}
    BY <1>1 DEF Type
  <2>3. UNCHANGED <<loop, stdinOver, toPty, unread, fetch, snap, copy, restore, asked, since, screen,
                    made, got>>
    BY <1>1 DEF Type, uplink, copying, daemon
  <2>. QED BY <2>1, <2>2, <2>3 DEF RoomInv, screen
<1>18. CASE TypeFails
  BY <1>18 DEF TypeFails, RoomInv, uplink, copying, screen, daemon
<1>2. CASE TypeEof
  <2>1. Len(stdin') <= StdinCap
    <3>1. Len(stdin) + (IF prefix THEN 1 ELSE 0) <= StdinCap
      BY <1>2 DEF TypeEof, Room
    <3>2. Len(stdin) \in Nat /\ prefix \in BOOLEAN
      BY <1>0, LenProperties DEF Queued, FlowInv, KeyInv
    <3>3. CASE prefix
      <4>1. stdin' = Append(stdin, Bytes(<<Len(keys)>>))
        BY <1>2, <3>3 DEF TypeEof
      <4>2. Len(stdin') = Len(stdin) + 1
        BY <1>0, <4>1, AppendProperties DEF Queued
      <4>. QED BY <3>1, <3>3, <4>2
    <3>4. CASE ~prefix
      BY <1>2, <3>4 DEF TypeEof, RoomInv
    <3>. QED BY <3>3, <3>4
  <2>2. thread' = "eof"
    BY <1>2 DEF TypeEof
  <2>3. UNCHANGED <<loop, stdinOver, toPty, unread, fetch, snap, copy, restore, asked, since, screen,
                    made, got>>
    BY <1>2 DEF TypeEof, uplink, copying, daemon
  <2>. QED BY <2>1, <2>2, <2>3 DEF RoomInv, screen
<1>3. CASE WriteTake
  <2>1. Len(toPty') <= ToPtyCap
    <3>1. toPty \in Seq(Seq(Sendable)) /\ toPty # << >> /\ toPty' = Tail(toPty)
      BY <1>0, <1>3 DEF Queued, WriteTake
    <3>2. Len(toPty) \in Nat /\ Len(toPty') = Len(toPty) - 1 /\ Len(toPty) <= ToPtyCap
      BY <3>1, HeadTailProperties, LenProperties DEF RoomInv
    <3>. QED BY <3>2
  <2>. QED BY <1>3, <2>1 DEF WriteTake, RoomInv, keyboard, copying, screen, daemon
<1>4. CASE WritePut
  BY <1>4 DEF WritePut, RoomInv, keyboard, copying, screen, daemon
<1>5. CASE WriteFails \/ Flushed
  BY <1>5, NoQueue DEF WriteFails, Exits, Flushed, RoomInv, keyboard, uplink, copying, screen,
       daemon
<1>6. CASE FetchFailed
  <2>1. held' \in Seq(1..MaxChunk) /\ Len(held') <= HeldCap
    BY <1>6, Nothing DEF FetchFailed
  <2>2. shown' \in Seq(1..MaxChunk)
    BY <1>6, ConcatProperties DEF FetchFailed, RoomInv
  <2>. QED BY <1>6, <2>1, <2>2 DEF FetchFailed, RoomInv, keyboard, uplink, daemon
<1>7. CASE FetchDone
  <2>1. pending \in Seq(Sendable)
    BY <1>0 DEF Queued
  <2>2. "on" \in Mode
    BY <1>0
  <2>3. CopyFeed("on", pending) \in Mode
    BY <2>1, <2>2, CopyFeedType
  <2>4. Restored(snap) => frame' \in 0..MaxChunk /\ shown' \in Seq(1..MaxChunk)
    BY RestoredType DEF RoomInv
  <2>5. copy' \in Mode
    BY <1>7, <2>3 DEF FetchDone, RoomInv
  <2>6. frame' \in 0..MaxChunk /\ shown' \in Seq(1..MaxChunk)
    BY <1>7, <2>4 DEF FetchDone, RoomInv
  <2>7. held' \in Seq(1..MaxChunk) /\ Len(held') <= HeldCap
    <3>1. held' = held \/ held' = << >>
      BY <1>7 DEF FetchDone
    <3>. QED BY <3>1, Nothing DEF RoomInv
  <2>8. loop' \in {"select", "flush"} /\ fetch' = "none" /\ restore' = snap /\ since' = asked
    BY <1>7 DEF FetchDone
  <2>9. UNCHANGED <<thread, stdin, stdinOver, toPty, unread, snap, asked, lost, made, got>>
    BY <1>7 DEF FetchDone, keyboard, uplink, daemon
  <2>. QED BY <2>5, <2>6, <2>7, <2>8, <2>9 DEF RoomInv
<1>8. CASE OnCopy
  <2>1. Len(Tail(stdin)) <= StdinCap
    BY <1>0, <1>8, HeadOfStdin DEF OnCopy, Event, RoomInv
  <2>2. asked' \in 0..MaxChunk
    BY <1>8 DEF OnCopy, RoomInv
  <2>. QED BY <1>8, <2>1, <2>2 DEF OnCopy, RoomInv, keyboard, uplink, screen, daemon
<1>9. CASE OnBytesPending
  <2>1. Len(Tail(stdin)) <= StdinCap
    BY <1>0, <1>9, HeadOfStdin DEF OnBytesPending, Event, RoomInv
  <2>. QED BY <1>9, <2>1 DEF OnBytesPending, RoomInv, keyboard, uplink, screen, daemon
<1>10. CASE OnBytesCopy
  <2>1. stdin # << >>
    BY <1>10 DEF OnBytesCopy, Event
  <2>2. Len(Tail(stdin)) <= StdinCap /\ Head(stdin).keys \in Seq(Sendable)
    <3>1. Head(stdin).keys \in Seq(Sendable)
      BY <1>0, <2>1, HeadOfStdin
    <3>2. Len(stdin) \in Nat \ {0} /\ Len(Tail(stdin)) = Len(stdin) - 1
      BY <1>0, <2>1, HeadOfStdin
    <3>. QED BY <3>1, <3>2 DEF RoomInv
  <2>3. CopyFeed(copy, Head(stdin).keys) \in Mode
    BY <2>2, CopyFeedType DEF RoomInv
  <2>4. Restored(restore) => frame' \in 0..MaxChunk /\ shown' \in Seq(1..MaxChunk)
    BY RestoredType DEF RoomInv
  <2>5. /\ frame' \in 0..MaxChunk /\ shown' \in Seq(1..MaxChunk) /\ lost' = lost
        /\ held' \in Seq(1..MaxChunk) /\ Len(held') <= HeldCap
    <3>1. (held' = held \/ held' = << >>) /\ lost' = lost
      BY <1>10 DEF OnBytesCopy, screen
    <3>2. frame' \in 0..MaxChunk /\ shown' \in Seq(1..MaxChunk)
      BY <1>10, <2>4 DEF OnBytesCopy, screen, RoomInv
    <3>. QED BY <3>1, <3>2, Nothing DEF RoomInv
  <2>6. stdin' = Tail(stdin) /\ copy' = CopyFeed(copy, Head(stdin).keys)
    BY <1>10 DEF OnBytesCopy
  <2>7. UNCHANGED <<thread, loop, stdinOver, toPty, unread, fetch, snap, restore, asked, since,
                    made, got>>
    BY <1>10 DEF OnBytesCopy, keyboard, uplink, daemon
  <2>. QED BY <2>2, <2>3, <2>5, <2>6, <2>7 DEF RoomInv
<1>11. CASE OnBytesForward
  <2>1. Len(Tail(stdin)) <= StdinCap
    BY <1>0, <1>11, HeadOfStdin DEF OnBytesForward, Event, RoomInv
  <2>2. Len(toPty') <= ToPtyCap
    <3>1. toPty \in Seq(Seq(Sendable)) /\ stdin # << >>
      BY <1>0, <1>11 DEF Queued, OnBytesForward, Event
    <3>2. Head(stdin).keys \in Seq(Sendable)
      BY <1>0, <3>1, HeadOfStdin
    <3>3. Len(Append(toPty, Head(stdin).keys)) = Len(toPty) + 1
      BY <3>1, <3>2, AppendProperties
    <3>4. Len(toPty) \in Nat
      BY <3>1, LenProperties
    <3>. QED BY <1>11, <3>3, <3>4 DEF OnBytesForward, RoomInv
  <2>3. loop' \in {"select", "stuck"} /\ stdin' = Tail(stdin)
    BY <1>11 DEF OnBytesForward, Event
  <2>4. UNCHANGED <<thread, stdinOver, unread, fetch, snap, copy, restore, asked, since, screen,
                    made, got>>
    BY <1>11 DEF OnBytesForward, keyboard, copying, daemon
  <2>. QED BY <2>1, <2>2, <2>3, <2>4 DEF RoomInv, screen
<1>12. CASE OnStdinOver
  <2>1. Restored(restore) => frame' \in 0..MaxChunk /\ shown' \in Seq(1..MaxChunk)
    BY RestoredType DEF RoomInv
  <2>2. frame' \in 0..MaxChunk /\ shown' \in Seq(1..MaxChunk) /\ held' = held /\ lost' = lost
    BY <1>12, <2>1 DEF OnStdinOver, RoomInv, screen
  <2>3. loop' \in {"select", "flush"} /\ copy' \in {copy, "off"} /\ stdinOver' = TRUE
    BY <1>12 DEF OnStdinOver
  <2>4. UNCHANGED <<thread, stdin, toPty, unread, fetch, snap, restore, asked, since, made, got>>
    BY <1>12 DEF OnStdinOver, keyboard, uplink, daemon
  <2>. QED BY <2>2, <2>3, <2>4 DEF RoomInv, Mode
<1>13. CASE OnOutput
  <2>1. got \in Nat /\ got < made /\ made <= MaxChunk /\ got' = got + 1 /\ got' \in 1..MaxChunk
    BY <1>13 DEF OnOutput, RoomInv
  <2>2. shown' \in Seq(1..MaxChunk) /\ frame' = frame
    <3>1. Append(shown, got') \in Seq(1..MaxChunk)
      BY <2>1, AppendProperties DEF RoomInv
    <3>. QED BY <1>13, <3>1 DEF OnOutput, RoomInv
  <2>3. held' \in Seq(1..MaxChunk) /\ Len(held') <= HeldCap /\ lost' \subseteq 1..MaxChunk
    <3>1. /\ Append(held, got') \in Seq(1..MaxChunk)
          /\ Len(Append(held, got')) = Len(held) + 1
          /\ Len(held) \in Nat
      BY <2>1, AppendProperties, LenProperties DEF RoomInv
    <3>2. PICK all : all = Append(held, got')
      OBVIOUS
    <3>3. /\ all \in Seq(1..MaxChunk) /\ all # << >> /\ Len(all) = Len(held) + 1
          /\ Len(Tail(all)) = Len(all) - 1 /\ Tail(all) \in Seq(1..MaxChunk)
          /\ Head(all) \in 1..MaxChunk
      <4>1. all \in Seq(1..MaxChunk) /\ all # << >>
        BY <3>1, <3>2, EmptySeq
      <4>. QED BY <3>1, <3>2, <4>1, HeadTailProperties
    <3>4. CASE Holds
      <4>1. /\ held' = IF Len(all) > HeldCap THEN Tail(all) ELSE all
            /\ lost' = IF Len(all) > HeldCap THEN lost \cup {Head(all)} ELSE lost
        BY <1>13, <3>2, <3>4 DEF OnOutput
      <4>2. Len(held) <= HeldCap /\ lost \subseteq 1..MaxChunk
        BY DEF RoomInv
      <4>3. CASE Len(all) > HeldCap
        <5>1. held' = Tail(all) /\ Len(Tail(all)) = Len(held) /\ lost' = lost \cup {Head(all)}
          BY <3>1, <3>3, <4>1, <4>3
        <5>. QED BY <3>3, <4>2, <5>1
      <4>4. CASE ~(Len(all) > HeldCap)
        <5>1. held' = all /\ Len(all) <= HeldCap /\ lost' = lost
          BY <3>1, <3>3, <4>1, <4>4
        <5>. QED BY <3>3, <4>2, <5>1
      <4>. QED BY <4>3, <4>4
    <3>5. CASE ~Holds
      BY <1>13, <3>5 DEF OnOutput, RoomInv
    <3>. QED BY <3>4, <3>5
  <2>4. UNCHANGED <<thread, stdin, loop, stdinOver, toPty, unread, fetch, snap, copy, restore,
                    asked, since, made>>
    BY <1>13 DEF OnOutput, keyboard, uplink, copying, daemon
  <2>. QED BY <2>1, <2>2, <2>3, <2>4 DEF RoomInv
<1>14. CASE OnEof \/ OnTerm
  <2>1. Restored(restore) => frame' \in 0..MaxChunk /\ shown' \in Seq(1..MaxChunk)
    BY RestoredType DEF RoomInv
  <2>2. Quit
    BY <1>14 DEF OnEof, OnTerm
  <2>3. frame' \in 0..MaxChunk /\ shown' \in Seq(1..MaxChunk) /\ held' = held /\ lost' = lost
    BY <2>1, <2>2 DEF Quit, RoomInv, screen
  <2>. QED BY <2>2, <2>3, NoQueue DEF Quit, Exits, RoomInv, Mode, keyboard, daemon
<1>15. CASE DaemonWrites \/ DaemonReads \/ DaemonCloses
  <2>1. UNCHANGED <<thread, stdin, loop, stdinOver, toPty, fetch, snap, copy, restore, asked, since,
                    screen, got>>
    BY <1>15 DEF DaemonWrites, DaemonReads, DaemonCloses, keyboard, uplink, copying, daemon
  <2>2. unread' \in 0..WireCap
    BY <1>15 DEF DaemonWrites, DaemonReads, DaemonCloses, RoomInv, uplink
  <2>3. made' \in Nat /\ got <= made' /\ made' <= MaxChunk
    BY <1>15 DEF DaemonWrites, DaemonReads, DaemonCloses, RoomInv, daemon
  <2>. QED BY <2>1, <2>2, <2>3 DEF RoomInv, screen
<1>16. CASE DaemonAnswers
  BY <1>16 DEF DaemonAnswers, RoomInv, keyboard, uplink, screen, daemon
<1>17. CASE UNCHANGED vars
  BY <1>17 DEF vars, keyboard, uplink, copying, screen, daemon, RoomInv
<1>. QED
  BY <1>1, <1>2, <1>3, <1>4, <1>5, <1>6, <1>7, <1>8, <1>9, <1>10, <1>11, <1>12, <1>13, <1>14,
     <1>15, <1>16, <1>17, <1>18 DEF Next, Write, Select, Daemon

-----------------------------------------------------------------------------
(* The screen                                                              *)

\* The chunks of s are in order, and after chunk lo but not after chunk hi.
Rising(s)         == \A i, j \in DOMAIN s : i < j => s[i] < s[j]
Within(s, lo, hi) == \A i \in DOMAIN s : lo < s[i] /\ s[i] <= hi

\* Output read is in S, or in s, or has overflowed the held buffer.
Covered(S, s) == 1..got \subseteq S \cup ToSet(s) \cup lost

\* What was written after the screen in frame is in order, and new since that
\* screen was asked for.
Fresh(s) == Rising(s) /\ \A i \in DOMAIN s : s[i] <= frame => s[i] > since

\* While copy mode is on or its history is fetched, the output held is what was
\* read since the history was asked for, and whichever screen is restored
\* covers all that came before.
ScreenInv ==
  /\ since <= asked /\ asked <= got
  /\ ~again =>
       /\ copy # "off" => fetch = "none" /\ since = asked /\ Covered(1..restore, held)
       /\ loop = "select" /\ ~Holds => held = << >>
       /\ Holds => Rising(held) /\ Within(held, asked, got)
       /\ fetch # "none" => /\ Fresh(shown) /\ Within(shown, 0, asked)
                            /\ Covered(1..frame \cup ToSet(shown), held)
       /\ fetch = "ok" => Covered(1..snap, held)
       /\ ~Holds => Fresh(shown) /\ Within(shown, 0, got) /\ Covered(1..frame, shown)

LEMMA Indices ==
  ASSUME NEW S, NEW s \in Seq(S)
  PROVE  Len(s) \in Nat /\ DOMAIN s = 1..Len(s) /\ \A i \in 1..Len(s) : s[i] \in S
  BY LenProperties, ElementOfSeq

\* One chunk more is held.
LEMMA OneMore ==
  ASSUME NEW h \in Seq(1..MaxChunk), NEW g \in Nat, g + 1 \in 1..MaxChunk, NEW lo \in Nat,
         lo <= g, Rising(h), Within(h, lo, g), NEW all, all = Append(h, g + 1)
  PROVE  /\ all \in Seq(1..MaxChunk) /\ Len(all) = Len(h) + 1 /\ all # << >>
         /\ Rising(all) /\ Within(all, lo, g + 1) /\ ToSet(all) = ToSet(h) \cup {g + 1}
<1>1. /\ Len(h) \in Nat /\ DOMAIN h = 1..Len(h)
      /\ all \in Seq(1..MaxChunk) /\ Len(all) = Len(h) + 1 /\ all[Len(h) + 1] = g + 1
      /\ \A i \in 1..Len(h) : all[i] = h[i]
  <2>1. PICK S, e : S = 1..MaxChunk /\ e = g + 1
    OBVIOUS
  <2>2. e \in S /\ h \in Seq(S) /\ all = Append(h, e)
    BY <2>1
  <2>3. all \in Seq(S) /\ Len(all) = Len(h) + 1 /\ all[Len(h) + 1] = e
        /\ \A i \in 1..Len(h) : all[i] = h[i]
    BY ONLY <2>2, AppendProperties
  <2>. QED BY <2>1, <2>2, <2>3, Indices
<1>2. DOMAIN all = 1..(Len(h) + 1) /\ all # << >>
  BY <1>1, Indices, EmptySeq
<1>7. \A i \in 1..Len(h) : h[i] \in Nat /\ lo < h[i] /\ h[i] <= g
  <2>1. \A i \in 1..Len(h) : h[i] \in 1..MaxChunk
    BY Indices
  <2>2. \A i \in 1..Len(h) : h[i] \in Nat
    BY <2>1
  <2>. QED BY <1>1, <2>2 DEF Within
<1>3. \A i \in 1..(Len(h) + 1) : i = Len(h) + 1 \/ i \in 1..Len(h)
  BY <1>1
<1>4. Within(all, lo, g + 1)
  <2>. SUFFICES ASSUME NEW i \in 1..(Len(h) + 1) PROVE lo < all[i] /\ all[i] <= g + 1
    BY <1>2 DEF Within
  <2>1. CASE i = Len(h) + 1
    BY <1>1, <2>1
  <2>2. CASE i \in 1..Len(h)
    BY <1>1, <1>7, <2>2
  <2>. QED BY <1>3, <2>1, <2>2
<1>5. Rising(all)
  <2>. SUFFICES ASSUME NEW i \in 1..(Len(h) + 1), NEW j \in 1..(Len(h) + 1), i < j
                PROVE  all[i] < all[j]
    BY <1>2 DEF Rising
  <2>1. i \in 1..Len(h) /\ h[i] <= g /\ h[i] \in Nat
    <3>1. i \in 1..Len(h)
      BY <1>1
    <3>. QED BY <1>7, <3>1
  <2>2. CASE j = Len(h) + 1
    BY <1>1, <2>1, <2>2
  <2>3. CASE j \in 1..Len(h)
    BY <1>1, <2>1, <2>3 DEF Rising
  <2>. QED BY <1>3, <2>2, <2>3
<1>6. ToSet(all) = ToSet(h) \cup {g + 1}
  <2>1. Len(h) + 1 \in 1..(Len(h) + 1) /\ \A i \in 1..Len(h) : i \in 1..(Len(h) + 1)
    BY <1>1
  <2>. QED BY <1>1, <1>2, <1>3, <2>1 DEF ToSet
<1>. QED BY <1>1, <1>2, <1>4, <1>5, <1>6

\* The oldest chunk held is dropped.
LEMMA OldestGoes ==
  ASSUME NEW all \in Seq(1..MaxChunk), all # << >>, NEW lo, NEW hi, Rising(all),
         Within(all, lo, hi)
  PROVE  /\ Rising(Tail(all)) /\ Within(Tail(all), lo, hi)
         /\ ToSet(all) = ToSet(Tail(all)) \cup {Head(all)}
<1>. DEFINE n == Len(all)
<1>1. /\ n \in Nat \ {0} /\ DOMAIN all = 1..n /\ Head(all) = all[1]
      /\ Tail(all) \in Seq(1..MaxChunk) /\ Len(Tail(all)) = n - 1
      /\ \A i \in 1..(n - 1) : Tail(all)[i] = all[i + 1]
  BY HeadTailProperties, EmptySeq, LenProperties
<1>2. DOMAIN Tail(all) = 1..(n - 1)
  BY <1>1, LenProperties
<1>3. \A i \in 1..(n - 1) : i + 1 \in 1..n
  BY <1>1
<1>4. \A i, j \in 1..(n - 1) : i < j => i + 1 < j + 1
  BY <1>1
<1>5. \A i \in 1..n : i = 1 \/ (i - 1 \in 1..(n - 1) /\ (i - 1) + 1 = i)
  BY <1>1
<1>6. Rising(Tail(all)) /\ Within(Tail(all), lo, hi)
  BY <1>1, <1>2, <1>3, <1>4 DEF Rising, Within
<1>7. ToSet(all) \subseteq ToSet(Tail(all)) \cup {Head(all)}
  <2>. SUFFICES ASSUME NEW i \in 1..n PROVE all[i] \in ToSet(Tail(all)) \cup {Head(all)}
    BY <1>1 DEF ToSet
  <2>1. CASE i = 1
    BY <1>1, <2>1
  <2>2. CASE i # 1
    <3>1. i - 1 \in 1..(n - 1) /\ Tail(all)[i - 1] = all[i]
      BY <1>1, <1>5, <2>2
    <3>. QED BY <1>2, <3>1 DEF ToSet
  <2>. QED BY <2>1, <2>2
<1>8. ToSet(Tail(all)) \cup {Head(all)} \subseteq ToSet(all)
  <2>1. 1 \in 1..n
    BY <1>1
  <2>. QED BY <1>1, <1>2, <1>3, <2>1 DEF ToSet
<1>. QED BY <1>6, <1>7, <1>8

\* What was held is written after what was written before.
LEMMA WrittenAfter ==
  ASSUME RoomInv, Fresh(shown), Rising(held), since <= asked, asked <= got,
         Within(shown, 0, asked), Within(held, asked, got), NEW s, s = shown \o held
  PROVE  Fresh(s) /\ Within(s, 0, got) /\ ToSet(s) = ToSet(shown) \cup ToSet(held)
<1>. DEFINE a == Len(shown)
            b == Len(held)
<1>1. /\ a \in Nat /\ DOMAIN shown = 1..a /\ \A i \in 1..a : shown[i] \in 1..MaxChunk
      /\ b \in Nat /\ DOMAIN held = 1..b /\ \A i \in 1..b : held[i] \in 1..MaxChunk
      /\ shown \in Seq(1..MaxChunk) /\ held \in Seq(1..MaxChunk)
  BY Indices DEF RoomInv
<1>2. /\ s \in Seq(1..MaxChunk) /\ Len(s) = a + b
      /\ \A i \in 1..(a + b) : s[i] = IF i <= a THEN shown[i] ELSE held[i - a]
  BY <1>1, ConcatProperties
<1>3. DOMAIN s = 1..(a + b)
  BY <1>2, LenProperties
<1>4. \A i \in 1..(a + b) : \/ i <= a /\ i \in 1..a /\ s[i] = shown[i]
                            \/ ~(i <= a) /\ i - a \in 1..b /\ s[i] = held[i - a]
  <2>. SUFFICES ASSUME NEW i \in 1..(a + b)
                PROVE  \/ i <= a /\ i \in 1..a /\ s[i] = shown[i]
                       \/ ~(i <= a) /\ i - a \in 1..b /\ s[i] = held[i - a]
    OBVIOUS
  <2>1. (i <= a /\ i \in 1..a) \/ (~(i <= a) /\ i - a \in 1..b)
    BY <1>1
  <2>. QED BY <1>2, <2>1
<1>10. asked \in Nat /\ got \in Nat /\ since \in Nat
  BY Capacities DEF RoomInv
<1>5. /\ \A i \in 1..a : shown[i] \in Nat /\ 0 < shown[i] /\ shown[i] <= asked
      /\ \A i \in 1..b : held[i] \in Nat /\ asked < held[i] /\ held[i] <= got
  <2>1. /\ \A i \in 1..a : shown[i] \in Nat
        /\ \A i \in 1..b : held[i] \in Nat
    BY <1>1
  <2>. QED BY <1>1, <2>1 DEF Within
<1>. HIDE DEF a, b
<1>6. Rising(s)
  <2>. SUFFICES ASSUME NEW i \in 1..(a + b), NEW j \in 1..(a + b), i < j PROVE s[i] < s[j]
    BY <1>3 DEF Rising
  <2>1. CASE j <= a
    <3>1. i <= a /\ j <= a
      BY <1>1, <2>1
    <3>2. i \in 1..a /\ j \in 1..a /\ s[i] = shown[i] /\ s[j] = shown[j]
      BY <1>4, <3>1
    <3>. QED BY <1>1, <3>2 DEF Fresh, Rising
  <2>2. CASE i <= a /\ ~(j <= a)
    <3>1. i \in 1..a /\ j - a \in 1..b /\ s[i] = shown[i] /\ s[j] = held[j - a]
      BY <1>4, <2>2
    <3>2. shown[i] <= asked /\ asked < held[j - a] /\ shown[i] \in Nat /\ held[j - a] \in Nat
      BY <1>5, <3>1
    <3>. QED BY <1>10, <3>1, <3>2
  <2>3. CASE ~(i <= a) /\ ~(j <= a)
    <3>1. i - a \in 1..b /\ j - a \in 1..b /\ s[i] = held[i - a] /\ s[j] = held[j - a]
      BY <1>4, <2>3
    <3>2. i - a < j - a
      BY <1>1
    <3>. QED BY <1>1, <3>1, <3>2 DEF Rising
  <2>4. j <= a \/ (i <= a /\ ~(j <= a)) \/ (~(i <= a) /\ ~(j <= a))
    BY <1>1
  <2>. QED BY <2>1, <2>2, <2>3, <2>4
<1>7. \A i \in 1..(a + b) : s[i] <= frame => s[i] > since
  <2>. SUFFICES ASSUME NEW i \in 1..(a + b), s[i] <= frame PROVE s[i] > since
    OBVIOUS
  <2>1. CASE i \in 1..a /\ s[i] = shown[i]
    BY <1>1, <2>1 DEF Fresh
  <2>2. CASE i - a \in 1..b /\ s[i] = held[i - a]
    <3>1. asked < s[i] /\ s[i] \in Nat
      BY <1>5, <2>2
    <3>2. PICK z, t, u : z = s[i] /\ t = since /\ u = asked
      OBVIOUS
    <3>3. z \in Nat /\ t \in Nat /\ u \in Nat /\ t <= u /\ u < z
      BY <1>10, <3>1, <3>2
    <3>4. z > t
      BY ONLY <3>3
    <3>. QED BY <3>2, <3>4
  <2>. QED BY <1>4, <2>1, <2>2
<1>8. Within(s, 0, got)
  <2>. SUFFICES ASSUME NEW i \in 1..(a + b) PROVE 0 < s[i] /\ s[i] <= got
    BY <1>3 DEF Within
  <2>1. CASE i \in 1..a /\ s[i] = shown[i]
    <3>1. shown[i] \in Nat /\ 0 < shown[i] /\ shown[i] <= asked
      BY <1>5, <2>1
    <3>. QED BY <1>10, <2>1, <3>1
  <2>2. CASE i - a \in 1..b /\ s[i] = held[i - a]
    <3>1. held[i - a] \in Nat /\ asked < held[i - a] /\ held[i - a] <= got
      BY <1>5, <2>2
    <3>. QED BY <1>10, <2>2, <3>1
  <2>. QED BY <1>4, <2>1, <2>2
<1>9. ToSet(s) = ToSet(shown) \cup ToSet(held)
  BY <1>1, ToSetConcat
<1>. QED BY <1>3, <1>6, <1>7, <1>8, <1>9 DEF Fresh

\* A screen restored, and after it what was held.
LEMMA RestoredFresh ==
  ASSUME RoomInv, NEW x \in 0..MaxChunk, Restored(x), Rising(held), Within(held, asked, got),
         Covered(1..x, held), since' = asked, got' = got, lost' = lost, asked <= got
  PROVE  Fresh(shown)' /\ Within(shown, 0, got)' /\ Covered(1..frame, shown)'
<1>1. /\ Len(held) \in Nat /\ DOMAIN held = 1..Len(held)
      /\ \A i \in 1..Len(held) : held[i] \in 1..MaxChunk
  BY Indices DEF RoomInv
<1>2. shown' = held /\ frame' = x /\ asked \in Nat /\ got \in Nat
  BY DEF Restored, RoomInv
<1>3. \A i \in 1..Len(held) : held[i] \in Nat /\ asked < held[i] /\ 0 < held[i] /\ held[i] <= got
  <2>. SUFFICES ASSUME NEW i \in 1..Len(held)
                PROVE  held[i] \in Nat /\ asked < held[i] /\ 0 < held[i] /\ held[i] <= got
    OBVIOUS
  <2>1. held[i] \in Nat /\ asked < held[i] /\ held[i] <= got
    BY <1>1, Capacities DEF Within
  <2>. QED BY <1>2, <2>1
<1>4. \A i \in 1..Len(held) : held[i] > asked
  BY <1>2, <1>3
<1>5. Fresh(shown)'
  BY <1>1, <1>2, <1>4 DEF Fresh, Rising
<1>6. Within(shown, 0, got)'
  BY <1>1, <1>2, <1>3 DEF Within
<1>7. Covered(1..frame, shown)'
  BY <1>2 DEF Covered
<1>. QED BY <1>5, <1>6, <1>7

LEMMA InitScreen == Init => ScreenInv
<1>. SUFFICES ASSUME Init PROVE ScreenInv
  OBVIOUS
<1>1. /\ since = 0 /\ asked = 0 /\ got = 0 /\ copy = "off" /\ fetch = "none" /\ held = << >>
      /\ shown = << >> /\ 1..0 = {}
  BY DEF Init
<1>2. DOMAIN shown = {}
  BY <1>1
<1>3. Fresh(shown) /\ Within(shown, 0, got) /\ Covered(1..frame, shown)
  BY <1>1, <1>2 DEF Fresh, Rising, Within, Covered
<1>. QED BY <1>1, <1>3 DEF ScreenInv, Holds

\* What was read, and asked for, stays in order.
LEMMA AskedInOrder ==
  ASSUME RoomInv, ScreenInv, [Next]_vars
  PROVE  since' <= asked' /\ asked' <= got'
<1>1. /\ since <= asked /\ asked <= got
      /\ since \in Nat /\ asked \in Nat /\ got \in Nat
  BY DEF ScreenInv, RoomInv
<1>2. \/ UNCHANGED <<since, asked>> /\ got' \in {got, got + 1}
      \/ since' = asked /\ UNCHANGED <<asked, got>>
      \/ UNCHANGED <<since, got>> /\ asked' = got
  <2>1. CASE OnOutput \/ FetchDone \/ OnCopy
    BY <2>1 DEF OnOutput, FetchDone, OnCopy, copying
  <2>2. CASE ~(OnOutput \/ FetchDone \/ OnCopy)
    BY <2>2 DEF Next, Type, TypeEof, TypeFails, Write, WriteTake, WritePut, WriteFails, Flushed,
       Select, FetchFailed, OnBytesPending, OnBytesCopy, OnBytesForward, OnStdinOver, OnEof,
       OnTerm, Quit, Daemon, DaemonWrites, DaemonReads, DaemonCloses, DaemonAnswers, vars, copying
  <2>. QED BY <2>1, <2>2
<1>. QED BY <1>1, <1>2

LEMMA NextScreen ==
  ASSUME RoomInv, ScreenInv, [Next]_vars
  PROVE  ScreenInv'
<1>a. since' <= asked' /\ asked' <= got'
  BY AskedInOrder
<1>. SUFFICES ASSUME ~again' PROVE ScreenInv'
  BY <1>a DEF ScreenInv
<1>1. ~again
  <2>1. CASE OnCopy
    <3>1. ~(again \/ copy # "off" \/ fetch # "none")
      BY <2>1 DEF OnCopy
    <3>. QED BY <3>1
  <2>2. CASE ~OnCopy
    <3>1. again' = again
      BY <2>2 DEF Next, Type, TypeEof, TypeFails, Write, WriteTake, WritePut, WriteFails, Flushed,
         Select, FetchFailed, FetchDone, OnBytesPending, OnBytesCopy, OnBytesForward,
         OnStdinOver, OnOutput, OnEof, OnTerm, Quit, Daemon, DaemonWrites, DaemonReads,
         DaemonCloses, DaemonAnswers, vars, copying
    <3>. QED BY <3>1
  <2>. QED BY <2>1, <2>2
<1>2. /\ copy # "off" => fetch = "none" /\ since = asked /\ Covered(1..restore, held)
      /\ loop = "select" /\ ~Holds => held = << >>
      /\ Holds => Rising(held) /\ Within(held, asked, got)
      /\ fetch # "none" => /\ Fresh(shown) /\ Within(shown, 0, asked)
                           /\ Covered(1..frame \cup ToSet(shown), held)
      /\ fetch = "ok" => Covered(1..snap, held)
      /\ ~Holds => Fresh(shown) /\ Within(shown, 0, got) /\ Covered(1..frame, shown)
      /\ since <= asked /\ asked <= got
  BY <1>1 DEF ScreenInv
\* A step that touches none of it, and may only leave the select loop.
<1>3. ASSUME UNCHANGED <<copy, fetch, snap, restore, asked, since, screen, got>>,
             loop' = "select" => loop = "select"
      PROVE  ScreenInv'
  BY <1>a, <1>2, <1>3 DEF ScreenInv, Holds, Rising, Within, Fresh, Covered, screen
<1>4. CASE (\E k \in Key : Type(k)) \/ TypeEof \/ TypeFails
  <2>1. UNCHANGED <<copy, fetch, snap, restore, asked, since, screen, got, loop>>
    BY <1>4 DEF Type, TypeEof, TypeFails, copying
  <2>. QED BY <1>3, <2>1
<1>5. CASE Write
  <2>1. /\ UNCHANGED <<copy, fetch, snap, restore, asked, since, screen, got>>
        /\ loop' \in {loop, "exited"}
    BY <1>5 DEF Write, WriteTake, WritePut, WriteFails, Exits, Flushed, copying
  <2>. QED BY <1>3, <2>1
<1>6. CASE OnBytesPending \/ OnBytesForward
  <2>1. /\ UNCHANGED <<copy, fetch, snap, restore, asked, since, screen, got>>
        /\ loop' \in {loop, "stuck"}
    BY <1>6 DEF OnBytesPending, OnBytesForward, copying
  <2>. QED BY <1>3, <2>1
<1>7. CASE DaemonWrites \/ DaemonReads \/ DaemonCloses \/ UNCHANGED vars
  <2>1. UNCHANGED <<copy, fetch, snap, restore, asked, since, screen, got, loop>>
    BY <1>7 DEF DaemonWrites, DaemonReads, DaemonCloses, vars, copying
  <2>. QED BY <1>3, <2>1
<1>8. CASE FetchFailed
  <2>1. /\ loop = "select" /\ fetch # "none" /\ fetch' = "none" /\ held' = << >>
        /\ shown' = shown \o held /\ UNCHANGED <<copy, got, loop, frame, lost, asked, since>>
    BY <1>8 DEF FetchFailed
  <2>2. copy' = "off" /\ Holds /\ ~Holds'
    BY <1>2, <2>1 DEF Holds
  <2>3. /\ Fresh(shown') /\ Within(shown', 0, got) /\ ToSet(shown') = ToSet(shown) \cup ToSet(held)
    BY <1>2, <2>1, <2>2, WrittenAfter
  <2>4. Fresh(shown)' /\ Within(shown, 0, got)'
    BY <2>1, <2>3 DEF Fresh, Rising, Within
  <2>5. Covered(1..frame, shown)'
    BY <1>2, <2>1, <2>3 DEF Covered
  <2>. QED BY <1>a, <2>1, <2>2, <2>4, <2>5 DEF ScreenInv
<1>9. CASE FetchDone
  <2>1. /\ loop = "select" /\ fetch = "ok" /\ fetch' = "none" /\ restore' = snap /\ since' = asked
        /\ UNCHANGED <<snap, got, asked, lost>> /\ copy = "off" /\ Holds /\ snap \in 0..MaxChunk
    BY <1>2, <1>9 DEF FetchDone, Holds, RoomInv
  <2>2. CASE CopyFeed("on", pending) = "off" \/ stdinOver
    <3>1. Restored(snap) /\ held' = << >> /\ copy' = "off"
      BY <1>9, <2>1, <2>2 DEF FetchDone
    <3>2. Fresh(shown)' /\ Within(shown, 0, got)' /\ Covered(1..frame, shown)'
      BY <1>2, <2>1, <3>1, RestoredFresh
    <3>. QED BY <1>a, <2>1, <3>1, <3>2 DEF ScreenInv, Holds
  <2>3. CASE ~(CopyFeed("on", pending) = "off" \/ stdinOver)
    <3>1. UNCHANGED <<shown, held, loop>> /\ copy' # "off"
      BY <1>9, <2>3 DEF FetchDone
    <3>2. Rising(held)' /\ Within(held, asked, got)' /\ Covered(1..restore, held)'
      BY <1>2, <2>1, <3>1 DEF Rising, Within, Covered
    <3>. QED BY <1>a, <2>1, <3>1, <3>2 DEF ScreenInv, Holds
  <2>. QED BY <2>2, <2>3
<1>10. CASE OnCopy
  <2>1. /\ loop = "select" /\ fetch' = "running" /\ copy = "off" /\ fetch = "none" /\ asked' = got
        /\ UNCHANGED <<copy, held, shown, frame, lost, since, got, loop>>
    <3>1. ~(again \/ copy # "off" \/ fetch # "none")
      BY <1>10 DEF OnCopy
    <3>. QED BY <1>10, <3>1 DEF OnCopy, Event, screen
  <2>2. /\ held = << >> /\ Fresh(shown) /\ Within(shown, 0, got) /\ Covered(1..frame, shown)
    BY <1>2, <2>1 DEF Holds
  <2>3. Rising(held)' /\ Within(held, asked, got)'
    <3>1. DOMAIN held' = {}
      BY <2>1, <2>2
    <3>. QED BY <3>1 DEF Rising, Within
  <2>4. Fresh(shown)' /\ Within(shown, 0, asked)' /\ Covered(1..frame \cup ToSet(shown), held)'
    BY <2>1, <2>2 DEF Fresh, Rising, Within, Covered
  <2>. QED BY <1>a, <2>1, <2>3, <2>4 DEF ScreenInv, Holds
<1>11. CASE OnBytesCopy
  <2>1. /\ copy # "off" /\ fetch = "none" /\ Holds /\ since = asked /\ restore \in 0..MaxChunk
        /\ UNCHANGED <<fetch, snap, restore, asked, since, got, loop, lost>>
    BY <1>2, <1>11 DEF OnBytesCopy, Holds, screen, RoomInv
  <2>2. CASE copy' = "off"
    <3>1. Restored(restore) /\ held' = << >>
      BY <1>11, <2>2 DEF OnBytesCopy
    <3>2. Fresh(shown)' /\ Within(shown, 0, got)' /\ Covered(1..frame, shown)'
      BY <1>2, <2>1, <3>1, RestoredFresh
    <3>. QED BY <1>a, <2>1, <2>2, <3>1, <3>2 DEF ScreenInv, Holds
  <2>3. CASE copy' # "off"
    <3>1. UNCHANGED <<shown, held, frame, lost>>
      BY <1>11, <2>3 DEF OnBytesCopy, screen
    <3>2. Rising(held)' /\ Within(held, asked, got)' /\ Covered(1..restore, held)'
      BY <1>2, <2>1, <3>1 DEF Rising, Within, Covered
    <3>. QED BY <1>a, <2>1, <2>3, <3>2 DEF ScreenInv, Holds
  <2>. QED BY <2>2, <2>3
\* Copy mode is left on the way out, if it is on.
<1>12. ASSUME copy' = "off", UNCHANGED <<fetch, snap, held, asked, since, lost, got>>,
              loop' # "select",
              IF copy # "off" THEN Restored(restore) ELSE UNCHANGED <<frame, shown>>
       PROVE  ScreenInv'
  <2>1. CASE copy # "off"
    <3>1. fetch' = "none" /\ Holds /\ since' = asked /\ restore \in 0..MaxChunk
      BY <1>2, <1>12, <2>1 DEF Holds, RoomInv
    <3>2. Fresh(shown)' /\ Within(shown, 0, got)' /\ Covered(1..frame, shown)'
      BY <1>2, <1>12, <2>1, <3>1, RestoredFresh
    <3>. QED BY <1>a, <1>12, <3>1, <3>2 DEF ScreenInv, Holds
  <2>2. CASE copy = "off"
    <3>1. UNCHANGED <<copy, shown, frame>>
      BY <1>12, <2>2
    <3>. QED
      BY <1>a, <1>2, <1>12, <2>2, <3>1 DEF ScreenInv, Holds, Rising, Within, Fresh, Covered
  <2>. QED BY <2>1, <2>2
<1>13. CASE OnStdinOver
  <2>1. CASE fetch # "none"
    <3>1. UNCHANGED <<copy, fetch, snap, restore, asked, since, screen, got, loop>>
      BY <1>13, <2>1 DEF OnStdinOver
    <3>. QED BY <1>3, <3>1
  <2>2. CASE fetch = "none"
    <3>1. /\ copy' = "off" /\ UNCHANGED <<fetch, snap, held, asked, since, lost, got>>
          /\ loop' # "select"
          /\ IF copy # "off" THEN Restored(restore) ELSE UNCHANGED <<frame, shown>>
      BY <1>13, <2>2 DEF OnStdinOver, screen
    <3>. QED BY <1>12, <3>1
  <2>. QED BY <2>1, <2>2
<1>14. CASE OnEof \/ OnTerm
  <2>1. /\ copy' = "off" /\ UNCHANGED <<fetch, snap, held, asked, since, lost, got>>
        /\ loop' # "select"
        /\ IF copy # "off" THEN Restored(restore) ELSE UNCHANGED <<frame, shown>>
    BY <1>14 DEF OnEof, OnTerm, Quit, Exits, screen
  <2>. QED BY <1>12, <2>1
<1>15. CASE OnOutput
  <2>1. /\ loop = "select" /\ got \in Nat /\ got + 1 \in 1..MaxChunk /\ got' = got + 1
        /\ UNCHANGED <<copy, fetch, snap, restore, asked, since, loop, frame>>
        /\ held \in Seq(1..MaxChunk) /\ shown \in Seq(1..MaxChunk) /\ asked \in Nat
    <3>1. /\ loop = "select" /\ got < made /\ got' = got + 1
          /\ UNCHANGED <<copy, fetch, snap, restore, asked, since, loop, frame>>
      BY <1>15 DEF OnOutput, copying
    <3>2. /\ got \in Nat /\ made \in Nat /\ made <= MaxChunk /\ held \in Seq(1..MaxChunk)
          /\ shown \in Seq(1..MaxChunk) /\ asked \in Nat
      BY DEF RoomInv
    <3>3. got + 1 \in 1..MaxChunk
      BY <3>1, <3>2, Capacities
    <3>. QED BY <3>1, <3>2, <3>3
  <2>2. CASE Holds
    <3>1. PICK all : all = Append(held, got + 1)
      OBVIOUS
    <3>2. /\ held' = IF Len(all) > HeldCap THEN Tail(all) ELSE all
          /\ lost' = IF Len(all) > HeldCap THEN lost \cup {Head(all)} ELSE lost
          /\ shown' = shown
      BY <1>15, <2>1, <2>2, <3>1 DEF OnOutput
    <3>3. Rising(held) /\ Within(held, asked, got) /\ asked <= got
      BY <1>2, <2>2
    <3>4. /\ all \in Seq(1..MaxChunk) /\ all # << >> /\ Rising(all)
          /\ Within(all, asked, got + 1) /\ ToSet(all) = ToSet(held) \cup {got + 1}
      BY <2>1, <3>1, <3>3, OneMore
    <3>5. /\ Rising(Tail(all)) /\ Within(Tail(all), asked, got + 1)
          /\ ToSet(all) = ToSet(Tail(all)) \cup {Head(all)}
      BY <3>4, OldestGoes
    <3>6. /\ Rising(held') /\ Within(held', asked, got + 1)
          /\ ToSet(held) \cup {got + 1} \cup lost \subseteq ToSet(held') \cup lost'
      <4>1. CASE Len(all) > HeldCap
        BY <3>2, <3>4, <3>5, <4>1
      <4>2. CASE ~(Len(all) > HeldCap)
        BY <3>2, <3>4, <4>2
      <4>. QED BY <4>1, <4>2
    <3>7. Holds' /\ Rising(held)' /\ Within(held, asked, got)'
      BY <2>1, <2>2, <3>6 DEF Holds, Rising, Within
    <3>8. ASSUME NEW S, Covered(S, held) PROVE 1..got' \subseteq S \cup ToSet(held') \cup lost'
      <4>1. 1..got' = 1..got \cup {got + 1}
        BY <2>1
      <4>. QED BY <3>6, <3>8, <4>1 DEF Covered
    <3>9. fetch' # "none" => /\ Fresh(shown)' /\ Within(shown, 0, asked)'
                             /\ Covered(1..frame \cup ToSet(shown), held)'
      <4>1. Covered(1..frame \cup ToSet(shown), held) =>
              Covered(1..frame \cup ToSet(shown), held)'
        BY <2>1, <3>2, <3>8 DEF Covered
      <4>2. (Fresh(shown) => Fresh(shown)') /\ (Within(shown, 0, asked) => Within(shown, 0, asked)')
        BY <2>1, <3>2 DEF Fresh, Rising, Within
      <4>. QED BY <1>2, <2>1, <4>1, <4>2
    <3>10. fetch' = "ok" => Covered(1..snap, held)'
      BY <1>2, <2>1, <3>8 DEF Covered
    <3>11. copy' # "off" => fetch' = "none" /\ since' = asked' /\ Covered(1..restore, held)'
      BY <1>2, <2>1, <3>8 DEF Covered
    <3>. QED BY <1>a, <3>7, <3>9, <3>10, <3>11 DEF ScreenInv
  <2>3. CASE ~Holds
    <3>1. shown' = Append(shown, got + 1) /\ held' = held /\ lost' = lost
      BY <1>15, <2>1, <2>3 DEF OnOutput
    <3>2. /\ held = << >> /\ Fresh(shown) /\ Within(shown, 0, got) /\ Covered(1..frame, shown)
          /\ ~Holds' /\ copy' = "off" /\ fetch' = "none"
      BY <1>2, <2>1, <2>3 DEF Holds
    <3>3. PICK all : all = Append(shown, got + 1)
      OBVIOUS
    <3>4. /\ all \in Seq(1..MaxChunk) /\ Len(all) = Len(shown) + 1 /\ Rising(all)
          /\ Within(all, 0, got + 1) /\ ToSet(all) = ToSet(shown) \cup {got + 1}
      <4>1. 0 \in Nat /\ 0 <= got /\ Rising(shown)
        BY <2>1, <3>2 DEF Fresh
      <4>. QED BY <2>1, <3>2, <3>3, <4>1, OneMore
    <3>5. \A i \in DOMAIN all : all[i] <= frame => all[i] > since
      <4>. SUFFICES ASSUME NEW i \in DOMAIN all, all[i] <= frame PROVE all[i] > since
        OBVIOUS
      <4>1. /\ Len(shown) \in Nat /\ DOMAIN shown = 1..Len(shown)
            /\ DOMAIN all = 1..(Len(shown) + 1)
            /\ all[Len(shown) + 1] = got + 1 /\ \A l \in 1..Len(shown) : all[l] = shown[l]
        BY <2>1, <3>3, <3>4, Indices, AppendProperties
      <4>2. CASE i = Len(shown) + 1
        <5>1. since \in Nat /\ since <= got
          BY <1>2, <2>1 DEF RoomInv
        <5>. QED BY <2>1, <4>1, <4>2, <5>1
      <4>3. CASE i # Len(shown) + 1
        <5>1. i \in 1..Len(shown)
          BY <4>1, <4>3
        <5>. QED BY <3>2, <4>1, <5>1 DEF Fresh
      <4>. QED BY <4>2, <4>3
    <3>6. Fresh(shown)' /\ Within(shown, 0, got)'
      BY <2>1, <3>1, <3>3, <3>4, <3>5 DEF Fresh, Rising, Within
    <3>7. Covered(1..frame, shown)'
      <4>1. 1..got' = 1..got \cup {got + 1}
        BY <2>1
      <4>. QED BY <2>1, <3>1, <3>2, <3>3, <3>4, <4>1 DEF Covered
    <3>. QED BY <1>a, <3>1, <3>2, <3>6, <3>7 DEF ScreenInv
  <2>. QED BY <2>2, <2>3
<1>16. CASE DaemonAnswers
  <2>1. /\ fetch = "running" /\ fetch' \in {"failed", "ok"}
        /\ UNCHANGED <<copy, restore, held, shown, frame, lost, asked, since, got, loop>>
    BY <1>16 DEF DaemonAnswers, screen
  <2>2. fetch' = "ok" => snap' \in Nat /\ got <= snap'
    BY <1>16 DEF DaemonAnswers, RoomInv
  <2>3. Holds /\ Holds' /\ copy' = "off"
    BY <1>2, <2>1 DEF Holds
  <2>4. /\ Fresh(shown)' /\ Within(shown, 0, asked)' /\ Rising(held)' /\ Within(held, asked, got)'
        /\ Covered(1..frame \cup ToSet(shown), held)'
    BY <1>2, <2>1, <2>3 DEF Covered, Fresh, Rising, Within
  <2>5. fetch' = "ok" => Covered(1..snap, held)'
    <3>. SUFFICES ASSUME fetch' = "ok" PROVE \A i \in 1..got' : i \in 1..snap'
      BY DEF Covered
    <3>. QED BY <2>1, <2>2 DEF RoomInv
  <2>. QED BY <1>a, <2>3, <2>4, <2>5 DEF ScreenInv
<1>. QED
  BY <1>4, <1>5, <1>6, <1>7, <1>8, <1>9, <1>10, <1>11, <1>13, <1>14, <1>15, <1>16
  DEF Next, Select, Daemon

-----------------------------------------------------------------------------
(* The order of keys                                                       *)

KeysIn(q) == [i \in DOMAIN q |-> q[i].keys]

LEMMA KeysInType ==
  ASSUME NEW S, NEW q \in Seq([copy : BOOLEAN, keys : Seq(S)])
  PROVE  /\ KeysIn(q) \in Lists(S) /\ Len(KeysIn(q)) = Len(q) /\ Len(q) \in Nat
         /\ \A i \in 1..Len(q) : KeysIn(q)[i] = q[i].keys
<1>1. PICK T : T = Seq(S)
  OBVIOUS
<1>2. q \in Seq([copy : BOOLEAN, keys : T])
  BY <1>1
<1>3. Len(q) \in Nat /\ DOMAIN q = 1..Len(q) /\ \A i \in 1..Len(q) : q[i].keys \in T
  <2>1. Len(q) \in Nat /\ DOMAIN q = 1..Len(q)
    BY <1>2, LenProperties
  <2>2. \A i \in 1..Len(q) : q[i] \in [copy : BOOLEAN, keys : T]
    BY <1>2, ElementOfSeq
  <2>. QED BY <2>1, <2>2
<1>4. KeysIn(q) = [i \in 1..Len(q) |-> q[i].keys]
  BY <1>3 DEF KeysIn
<1>5. KeysIn(q) \in Seq(T) /\ Len(KeysIn(q)) = Len(q)
  BY <1>3, <1>4
<1>. QED BY <1>1, <1>3, <1>4, <1>5 DEF Lists

LEMMA KeysInTail ==
  ASSUME NEW S, NEW q \in Seq([copy : BOOLEAN, keys : Seq(S)]), q # << >>
  PROVE  /\ KeysIn(q) # << >> /\ Head(KeysIn(q)) = Head(q).keys
         /\ Tail(KeysIn(q)) = KeysIn(Tail(q))
<1>1. PICK T : T = Seq(S)
  OBVIOUS
<1>2. q \in Seq([copy : BOOLEAN, keys : T])
  BY <1>1
<1>3. Len(q) \in Nat \ {0} /\ Tail(q) \in Seq([copy : BOOLEAN, keys : T])
      /\ Len(Tail(q)) = Len(q) - 1 /\ \A i \in 1..Len(Tail(q)) : Tail(q)[i] = q[i + 1]
  BY <1>2, EmptySeq, HeadTailProperties
<1>4. KeysIn(q) \in Seq(T) /\ Len(KeysIn(q)) = Len(q)
      /\ \A i \in 1..Len(q) : KeysIn(q)[i] = q[i].keys
  BY <1>1, KeysInType DEF Lists
<1>5. KeysIn(Tail(q)) \in Seq(T) /\ Len(KeysIn(Tail(q))) = Len(q) - 1
      /\ \A i \in 1..Len(Tail(q)) : KeysIn(Tail(q))[i] = Tail(q)[i].keys
  BY <1>1, <1>3, KeysInType DEF Lists
<1>6. KeysIn(q) # << >>
  BY <1>3, <1>4, EmptySeq
<1>7. Head(KeysIn(q)) = Head(q).keys
  <2>1. Head(KeysIn(q)) = KeysIn(q)[1] /\ Head(q) = q[1]
    BY <1>2, <1>4, <1>6
  <2>. QED BY <1>3, <1>4, <2>1
<1>8. Tail(KeysIn(q)) = KeysIn(Tail(q))
  <2>1. /\ Tail(KeysIn(q)) \in Seq(T) /\ Len(Tail(KeysIn(q))) = Len(q) - 1
        /\ \A i \in 1..(Len(q) - 1) : Tail(KeysIn(q))[i] = KeysIn(q)[i + 1]
    BY <1>4, <1>6, HeadTailProperties
  <2>2. \A i \in 1..(Len(q) - 1) : Tail(KeysIn(q))[i] = KeysIn(Tail(q))[i]
    <3>1. ASSUME NEW i \in 1..(Len(q) - 1)
          PROVE  i + 1 \in 1..Len(q) /\ i \in 1..Len(Tail(q))
      BY <1>3
    <3>. QED BY <1>3, <1>4, <1>5, <2>1, <3>1
  <2>3. PICK a, b : a = Tail(KeysIn(q)) /\ b = KeysIn(Tail(q))
    OBVIOUS
  <2>4. a \in Seq(T) /\ b \in Seq(T) /\ Len(a) = Len(b) /\ \A i \in 1..Len(a) : a[i] = b[i]
    BY <1>5, <2>1, <2>2, <2>3
  <2>5. a = b
    BY <2>4, SeqEqual
  <2>. QED BY <2>3, <2>5
<1>. QED BY <1>6, <1>7, <1>8

LEMMA KeysInAppend ==
  ASSUME NEW S, NEW q \in Seq([copy : BOOLEAN, keys : Seq(S)]),
         NEW e \in [copy : BOOLEAN, keys : Seq(S)]
  PROVE  KeysIn(Append(q, e)) = Append(KeysIn(q), e.keys)
<1>1. PICK T : T = Seq(S)
  OBVIOUS
<1>2. q \in Seq([copy : BOOLEAN, keys : T]) /\ e \in [copy : BOOLEAN, keys : T]
  BY <1>1
<1>3. /\ Len(q) \in Nat /\ Append(q, e) \in Seq([copy : BOOLEAN, keys : T])
      /\ Len(Append(q, e)) = Len(q) + 1 /\ Append(q, e)[Len(q) + 1] = e
      /\ \A i \in 1..Len(q) : Append(q, e)[i] = q[i]
  BY <1>2, LenProperties, AppendProperties
<1>4. KeysIn(q) \in Seq(T) /\ Len(KeysIn(q)) = Len(q)
      /\ \A i \in 1..Len(q) : KeysIn(q)[i] = q[i].keys
  BY <1>1, KeysInType DEF Lists
<1>5. KeysIn(Append(q, e)) \in Seq(T) /\ Len(KeysIn(Append(q, e))) = Len(q) + 1
      /\ \A i \in 1..(Len(q) + 1) : KeysIn(Append(q, e))[i] = Append(q, e)[i].keys
  BY <1>1, <1>3, KeysInType DEF Lists
<1>6. PICK a, b : a = KeysIn(Append(q, e)) /\ b = Append(KeysIn(q), e.keys)
  OBVIOUS
<1>7. /\ b \in Seq(T) /\ Len(b) = Len(q) + 1 /\ b[Len(q) + 1] = e.keys
      /\ \A i \in 1..Len(q) : b[i] = KeysIn(q)[i]
  BY <1>2, <1>4, <1>6, AppendProperties
<1>8. \A i \in 1..Len(a) : a[i] = b[i]
  <2>. SUFFICES ASSUME NEW i \in 1..(Len(q) + 1) PROVE a[i] = b[i]
    BY <1>5, <1>6
  <2>1. CASE i = Len(q) + 1
    BY <1>3, <1>5, <1>6, <1>7, <2>1
  <2>2. CASE i # Len(q) + 1
    <3>1. i \in 1..Len(q)
      BY <1>3, <2>2
    <3>. QED BY <1>3, <1>4, <1>5, <1>6, <1>7, <3>1
  <2>. QED BY <2>1, <2>2
<1>9. a = b
  BY <1>5, <1>6, <1>7, <1>8, SeqEqual
<1>. QED BY <1>6, <1>9

\* All keys on their way but a prefix held back, the ones sent first.
Ahead == sent \o writing \o FlattenSeq(toPty) \o FlattenSeq(KeysIn(stdin))

LEMMA InFlightParts == InFlight = Ahead \o Withheld /\ InFlight' = Ahead' \o Withheld'
  BY DEF InFlight, Ahead, Withheld, KeysIn

\* The four parts are sequences.
LEMMA Parts ==
  ASSUME NEW S, Queued(S)
  PROVE  /\ sent \in Seq(S) /\ writing \in Seq(S)
         /\ FlattenSeq(toPty) \in Seq(S) /\ FlattenSeq(KeysIn(stdin)) \in Seq(S)
<1>1. KeysIn(stdin) \in Lists(S) /\ toPty \in Lists(S)
  BY KeysInType DEF Queued, Lists
<1>. QED BY <1>1, FlattenType DEF Queued

LEMMA Joined ==
  ASSUME NEW S, NEW a \in Seq(S), NEW b \in Seq(S), NEW c \in Seq(S), NEW d \in Seq(S)
  PROVE  a \o b \in Seq(S) /\ a \o b \o c \in Seq(S) /\ a \o b \o c \o d \in Seq(S)
<1>1. a \o b \in Seq(S)
  BY ConcatProperties
<1>2. a \o b \o c \in Seq(S)
  BY <1>1, ConcatProperties
<1>. QED BY <1>1, <1>2, ConcatProperties

LEMMA AheadType ==
  ASSUME NEW S, Queued(S)
  PROVE  Ahead \in Seq(S)
  BY Parts, Joined DEF Ahead

\* The keys taken from one queue are put into the next.
LEMMA AheadStays ==
  ASSUME NEW S, Queued(S),
         \/ WriteTake \/ WritePut
         \/ OnBytesForward /\ loop' = loop
         \/ UNCHANGED <<sent, writing, toPty, stdin>>
  PROVE  Ahead' = Ahead
<1>0. /\ sent \in Seq(S) /\ writing \in Seq(S)
      /\ FlattenSeq(toPty) \in Seq(S) /\ FlattenSeq(KeysIn(stdin)) \in Seq(S)
  BY Parts
<1>1. CASE WriteTake
  <2>1. /\ toPty \in Lists(S) /\ toPty # << >> /\ writing = << >> /\ writing' = Head(toPty)
        /\ toPty' = Tail(toPty) /\ UNCHANGED <<sent, stdin>>
    BY <1>1 DEF WriteTake, Queued, Lists
  <2>2. Head(toPty) \in Seq(S) /\ Tail(toPty) \in Lists(S)
    BY <2>1, HeadTailProperties DEF Lists
  <2>3. PICK h \in Seq(S), t \in Seq(S) : h = Head(toPty) /\ t = FlattenSeq(Tail(toPty))
    BY <2>2, FlattenType
  <2>4. FlattenSeq(toPty) = h \o t
    BY <2>1, <2>3, FlattenTail
  <2>5. (sent \o h) \o t = (sent \o << >>) \o (h \o t)
    <3>1. PICK a \in Seq(S) : a = sent
      BY <1>0
    <3>2. a \o << >> = a
      BY ConcatEmptySeq
    <3>3. (a \o h) \o t = a \o (h \o t)
      <4>1. a \in Seq(S) /\ h \in Seq(S) /\ t \in Seq(S)
        OBVIOUS
      <4>2. Rebracket(a, h, t)
        BY ONLY <4>1, Brackets
      <4>. QED BY <4>2 DEF Rebracket
    <3>. QED BY <3>1, <3>2, <3>3
  <2>. QED BY <2>1, <2>3, <2>4, <2>5 DEF Ahead
<1>2. CASE WritePut
  <2>1. sent' = sent \o writing /\ writing' = << >> /\ UNCHANGED <<toPty, stdin>>
    BY <1>2 DEF WritePut
  <2>2. sent \o writing \in Seq(S)
    BY <1>0, ConcatProperties
  <2>3. (sent \o writing) \o << >> = sent \o writing
    BY <2>2, ConcatEmptySeq
  <2>. QED BY <2>1, <2>3 DEF Ahead
<1>3. CASE OnBytesForward /\ loop' = loop
  <2>1. /\ stdin # << >> /\ stdin' = Tail(stdin) /\ toPty' = Append(toPty, Head(stdin).keys)
        /\ UNCHANGED <<sent, writing>> /\ toPty \in Lists(S)
        /\ stdin \in Seq([copy : BOOLEAN, keys : Seq(S)])
    BY <1>3 DEF OnBytesForward, Event, Queued, Lists
  <2>2. /\ KeysIn(stdin) # << >> /\ Head(KeysIn(stdin)) = Head(stdin).keys
        /\ Tail(KeysIn(stdin)) = KeysIn(Tail(stdin)) /\ KeysIn(stdin) \in Lists(S)
    BY <2>1, KeysInTail, KeysInType
  <2>3. Head(stdin).keys \in Seq(S) /\ Tail(KeysIn(stdin)) \in Lists(S)
    BY <2>2, HeadTailProperties DEF Lists
  <2>4. PICK h \in Seq(S), t \in Seq(S) :
          h = Head(stdin).keys /\ t = FlattenSeq(KeysIn(Tail(stdin)))
    BY <2>2, <2>3, FlattenType
  <2>5. FlattenSeq(KeysIn(stdin)) = h \o t
    BY <2>2, <2>4, FlattenTail
  <2>6. FlattenSeq(toPty') = FlattenSeq(toPty) \o h
    BY <2>1, <2>3, <2>4, FlattenAppend
  <2>7. PICK a \in Seq(S), f \in Seq(S) : a = sent \o writing /\ f = FlattenSeq(toPty)
    BY <1>0, ConcatProperties
  <2>8. (a \o (f \o h)) \o t = (a \o f) \o (h \o t)
    <3>1. (a \o f) \o h = a \o (f \o h)
      <4>1. a \in Seq(S) /\ f \in Seq(S) /\ h \in Seq(S)
        OBVIOUS
      <4>2. Rebracket(a, f, h)
        BY ONLY <4>1, Brackets
      <4>. QED BY <4>2 DEF Rebracket
    <3>2. ((a \o f) \o h) \o t = (a \o f) \o (h \o t)
      <4>1. PICK b \in Seq(S) : b = a \o f
        BY ConcatProperties
      <4>2. (b \o h) \o t = b \o (h \o t)
        <5>1. b \in Seq(S) /\ h \in Seq(S) /\ t \in Seq(S)
          OBVIOUS
        <5>2. Rebracket(b, h, t)
          BY ONLY <5>1, Brackets
        <5>. QED BY <5>2 DEF Rebracket
      <4>. QED BY <4>1, <4>2
    <3>. QED BY <3>1, <3>2
  <2>9. Ahead = (a \o f) \o (h \o t)
    BY <2>5, <2>7 DEF Ahead
  <2>10. Ahead' = (a \o (f \o h)) \o t
    <3>1. FlattenSeq(KeysIn(stdin')) = t
      BY <2>1, <2>4
    <3>2. FlattenSeq(toPty') = f \o h /\ sent' \o writing' = a
      BY <2>1, <2>6, <2>7
    <3>. QED BY <3>1, <3>2 DEF Ahead
  <2>. QED BY <2>8, <2>9, <2>10
<1>4. CASE UNCHANGED <<sent, writing, toPty, stdin>>
  BY <1>4 DEF Ahead
<1>. QED BY <1>1, <1>2, <1>3, <1>4

\* What the keyboard thread adds.
LEMMA AheadGrows ==
  ASSUME NEW S, Queued(S), NEW out \in Seq(S),
         \/ stdin' = Append(stdin, Bytes(out))
         \/ out = << >> /\ stdin' = stdin,
         UNCHANGED <<sent, writing, toPty>>
  PROVE  Ahead' = Ahead \o out
<1>0. /\ sent \in Seq(S) /\ writing \in Seq(S)
      /\ FlattenSeq(toPty) \in Seq(S) /\ FlattenSeq(KeysIn(stdin)) \in Seq(S)
  BY Parts
<1>1. FlattenSeq(KeysIn(stdin')) = FlattenSeq(KeysIn(stdin)) \o out
  <2>1. CASE stdin' = Append(stdin, Bytes(out))
    <3>1. Bytes(out) \in [copy : BOOLEAN, keys : Seq(S)] /\ Bytes(out).keys = out
      BY DEF Bytes
    <3>2. stdin \in Seq([copy : BOOLEAN, keys : Seq(S)])
      BY DEF Queued
    <3>3. PICK e : e = Bytes(out)
      OBVIOUS
    <3>4. KeysIn(Append(stdin, e)) = Append(KeysIn(stdin), e.keys)
      BY <3>1, <3>2, <3>3, KeysInAppend
    <3>5. KeysIn(stdin') = Append(KeysIn(stdin), out) /\ KeysIn(stdin) \in Lists(S)
      BY <2>1, <3>1, <3>2, <3>3, <3>4, KeysInType
    <3>. QED BY <3>5, FlattenAppend
  <2>2. CASE out = << >> /\ stdin' = stdin
    BY <1>0, <2>2, ConcatEmptySeq
  <2>. QED BY <2>1, <2>2
<1>2. PICK a \in Seq(S), k \in Seq(S) :
        a = sent \o writing \o FlattenSeq(toPty) /\ k = FlattenSeq(KeysIn(stdin))
  BY <1>0, Joined
<1>3. (a \o k) \o out = a \o (k \o out)
  <2>1. a \in Seq(S) /\ k \in Seq(S) /\ out \in Seq(S)
    OBVIOUS
  <2>2. Rebracket(a, k, out)
    BY ONLY <2>1, Brackets
  <2>. QED BY <2>2 DEF Rebracket
<1>. QED BY <1>1, <1>2, <1>3 DEF Ahead

LEMMA InOrderAppend ==
  ASSUME NEW n \in Nat, NEW s \in Seq(Nat), NEW P, P \subseteq 1..n, InOrder(s, P)
  PROVE  InOrder(s \o <<n + 1>>, P \cup {n + 1})
<1>. DEFINE t == s \o <<n + 1>>
<1>1. Len(s) \in Nat /\ DOMAIN s = 1..Len(s) /\ \A i \in 1..Len(s) : s[i] \in 1..n
  <2>1. Len(s) \in Nat /\ DOMAIN s = 1..Len(s)
    BY LenProperties
  <2>2. \A i \in DOMAIN s : s[i] \in P
    BY DEF InOrder, ToSet
  <2>. QED BY <2>1, <2>2
<1>2. /\ Len(t) = Len(s) + 1 /\ DOMAIN t = 1..(Len(s) + 1) /\ t[Len(s) + 1] = n + 1
      /\ \A i \in 1..Len(s) : t[i] = s[i]
  <2>1. <<n + 1>> \in Seq(Nat) /\ Len(<<n + 1>>) = 1 /\ <<n + 1>>[1] = n + 1
    OBVIOUS
  <2>2. /\ t \in Seq(Nat) /\ Len(t) = Len(s) + 1
        /\ \A i \in 1..(Len(s) + 1) : t[i] = IF i <= Len(s) THEN s[i] ELSE <<n + 1>>[i - Len(s)]
    BY <2>1, ConcatProperties
  <2>3. Len(s) + 1 \in 1..(Len(s) + 1) /\ (Len(s) + 1) - Len(s) = 1
    BY <1>1
  <2>4. t[Len(s) + 1] = n + 1
    BY <1>1, <2>1, <2>2, <2>3
  <2>5. \A i \in 1..Len(s) : t[i] = s[i]
    BY <1>1, <2>2
  <2>6. DOMAIN t = 1..(Len(s) + 1)
    BY <2>2, LenProperties
  <2>. QED BY <2>2, <2>4, <2>5, <2>6
<1>. HIDE DEF t
<1>3. ToSet(t) = P \cup {n + 1}
  <2>1. P = {s[i] : i \in 1..Len(s)} /\ ToSet(t) = {t[i] : i \in 1..(Len(s) + 1)}
    BY <1>1, <1>2 DEF InOrder, ToSet
  <2>2. ASSUME NEW x \in P \cup {n + 1} PROVE x \in ToSet(t)
    <3>1. \A i \in 1..Len(s) : i \in 1..(Len(s) + 1)
      BY <1>1
    <3>2. Len(s) + 1 \in 1..(Len(s) + 1)
      BY <1>1
    <3>. QED BY <1>2, <2>1, <3>1, <3>2
  <2>3. ASSUME NEW x \in ToSet(t) PROVE x \in P \cup {n + 1}
    <3>1. PICK i \in 1..(Len(s) + 1) : x = t[i]
      BY <2>1
    <3>2. i \in 1..Len(s) \/ i = Len(s) + 1
      BY <1>1
    <3>. QED BY <1>2, <2>1, <3>1, <3>2
  <2>. QED BY <2>2, <2>3
<1>4. ASSUME NEW i \in DOMAIN t, NEW j \in DOMAIN t, i < j PROVE t[i] < t[j]
  <2>1. i \in 1..Len(s)
    BY <1>1, <1>2, <1>4
  <2>2. CASE j = Len(s) + 1
    BY <1>1, <1>2, <2>1, <2>2
  <2>3. CASE j # Len(s) + 1
    <3>1. j \in 1..Len(s)
      BY <1>1, <1>2, <2>3
    <3>. QED BY <1>1, <1>2, <1>4, <2>1, <3>1 DEF InOrder
  <2>. QED BY <2>2, <2>3
<1>. QED BY <1>3, <1>4 DEF InOrder, t

LEMMA InOrderDrop ==
  ASSUME NEW n \in Nat, NEW s \in Seq(Nat), NEW P, InOrder(s \o <<n>>, P)
  PROVE  InOrder(s, P \ {n})
<1>. DEFINE t == s \o <<n>>
<1>1. Len(s) \in Nat /\ DOMAIN s = 1..Len(s) /\ \A i \in 1..Len(s) : s[i] \in Nat
  BY LenProperties, ElementOfSeq
<1>2. /\ DOMAIN t = 1..(Len(s) + 1) /\ t[Len(s) + 1] = n
      /\ \A i \in 1..Len(s) : t[i] = s[i]
  <2>1. <<n>> \in Seq(Nat) /\ Len(<<n>>) = 1 /\ <<n>>[1] = n
    OBVIOUS
  <2>2. /\ t \in Seq(Nat) /\ Len(t) = Len(s) + 1
        /\ \A i \in 1..(Len(s) + 1) : t[i] = IF i <= Len(s) THEN s[i] ELSE <<n>>[i - Len(s)]
    BY <2>1, ConcatProperties
  <2>3. Len(s) + 1 \in 1..(Len(s) + 1) /\ (Len(s) + 1) - Len(s) = 1
    BY <1>1
  <2>4. t[Len(s) + 1] = n
    BY <1>1, <2>1, <2>2, <2>3
  <2>5. \A i \in 1..Len(s) : t[i] = s[i]
    BY <1>1, <2>2
  <2>6. DOMAIN t = 1..(Len(s) + 1)
    BY <2>2, LenProperties
  <2>. QED BY <2>4, <2>5, <2>6
<1>3. ToSet(t) = P /\ \A i, j \in DOMAIN t : i < j => t[i] < t[j]
  BY DEF InOrder
<1>. HIDE DEF t
<1>4. \A i \in 1..Len(s) : i \in 1..(Len(s) + 1) /\ s[i] < n
  BY <1>1, <1>2, <1>3
<1>5. ToSet(s) = P \ {n}
  <2>1. P = {t[i] : i \in 1..(Len(s) + 1)} /\ ToSet(s) = {s[i] : i \in 1..Len(s)}
    BY <1>1, <1>2, <1>3 DEF ToSet
  <2>2. ASSUME NEW x \in ToSet(s) PROVE x \in P \ {n}
    BY <1>1, <1>2, <1>4, <2>1
  <2>3. ASSUME NEW x \in P, x # n PROVE x \in ToSet(s)
    <3>1. PICK i \in 1..(Len(s) + 1) : x = t[i]
      BY <2>1
    <3>2. i \in 1..Len(s)
      BY <1>1, <1>2, <2>3, <3>1
    <3>. QED BY <1>2, <2>1, <3>1, <3>2
  <2>. QED BY <2>2, <2>3
<1>6. \A i, j \in DOMAIN s : i < j => s[i] < s[j]
  BY <1>1, <1>2, <1>3, <1>4
<1>. QED BY <1>5, <1>6 DEF InOrder

Plain == Positions \ Chord({"q"})

\* A key ends a chord when a prefix is held back, and never otherwise.
LEMMA ChordGrows ==
  ASSUME KeyInv, thread = "on", NEW k \in Key, keys' = Append(keys, k), NEW K, First \notin K,
         NEW p \in Nat
  PROVE  p \in Chord(K)' <=>
           p \in Chord(K) \/ (prefix /\ k \in K /\ p \in {Len(keys), Len(keys) + 1})
<1>. DEFINE n == Len(keys)
<1>1. keys \in Seq(Key) /\ n \in Nat /\ (prefix <=> n # 0 /\ keys[n] = First)
  BY LenProperties DEF KeyInv
<1>2. /\ keys' \in Seq(Key) /\ Len(keys') = n + 1 /\ keys'[n + 1] = k
      /\ \A i \in 1..n : keys'[i] = keys[i]
  BY <1>1, AppendProperties
<1>3. p \in Chord(K) <=>
        \/ p \in 2..n /\ keys[p] \in K /\ keys[p - 1] = First
        \/ p \in 1..(n - 1) /\ keys[p + 1] \in K /\ keys[p] = First
  <2>1. Chord(K) = ChordsOf(keys, K)
    BY ChordIs
  <2>. QED BY <1>1, <2>1, ChordFacts
<1>4. p \in Chord(K)' <=>
        \/ p \in 2..(n + 1) /\ keys'[p] \in K /\ keys'[p - 1] = First
        \/ p \in 1..n /\ keys'[p + 1] \in K /\ keys'[p] = First
  <2>1. Chord(K)' = ChordsOf(keys', K)
    BY ChordIs
  <2>2. p \in ChordsOf(keys', K) <=>
          \/ p \in 2..Len(keys') /\ keys'[p] \in K /\ keys'[p - 1] = First
          \/ p \in 1..(Len(keys') - 1) /\ keys'[p + 1] \in K /\ keys'[p] = First
    BY <1>2, ChordFacts
  <2>. QED BY <1>1, <1>2, <2>1, <2>2
<1>5. CASE p \in 1..(n - 1)
  <2>1. p \in 1..n /\ p + 1 \in 1..n /\ (p \in 2..n <=> p # 1) /\ p # n /\ p # n + 1
        /\ (p # 1 => p - 1 \in 1..n)
    BY <1>1, <1>5
  <2>. QED BY <1>1, <1>2, <1>3, <1>4, <1>5, <2>1
<1>6. CASE p = n
  <2>1. keys'[n + 1] = k /\ (n # 0 => n \in 1..n)
    BY <1>1, <1>2
  <2>2. n # 0 => keys'[n] = keys[n]
    BY <1>2, <2>1
  <2>3. n \in 2..n => n - 1 \in 1..n /\ n \in 1..n
    BY <1>1
  <2>. QED BY <1>1, <1>2, <1>3, <1>4, <1>6, <2>1, <2>2, <2>3
<1>7. CASE p = n + 1
  <2>1. (p \in 2..(n + 1) <=> n # 0) /\ p - 1 = n /\ p \notin 2..n /\ p \notin 1..n
        /\ (n # 0 => n \in 1..n)
    BY <1>1, <1>7
  <2>2. keys'[p] = k /\ (n # 0 => keys'[p - 1] = keys[n])
    BY <1>1, <1>2, <1>7, <2>1
  <2>3. p \in Chord(K)' <=> n # 0 /\ k \in K /\ keys[n] = First
    BY <1>1, <1>4, <2>1, <2>2
  <2>4. p \notin Chord(K)
    BY <1>1, <1>3, <1>7
  <2>. QED BY <1>1, <1>7, <2>3, <2>4
<1>8. CASE p \notin 1..(n + 1)
  BY <1>1, <1>3, <1>4, <1>8
<1>. QED BY <1>1, <1>5, <1>6, <1>7, <1>8

LEMMA ChordPositions ==
  ASSUME KeyInv, NEW K
  PROVE  Chord(K) \subseteq Nat
  BY LenProperties DEF KeyInv, Chord, Positions

\* What another key does to the keys meant for the child.
LEMMA PlainGrows ==
  ASSUME KeyInv, thread = "on", NEW k \in Key, keys' = Append(keys, k)
  PROVE  /\ Chord({"y"})' = {} => Chord({"y"}) = {} /\ ~(prefix /\ k = "y")
         /\ prefix /\ k = "q" => Plain' = Plain \ {Len(keys)}
         /\ ~(prefix /\ k = "q") => Plain' = Plain \cup {Len(keys) + 1}
         /\ Plain \subseteq 1..Len(keys)
<1>. DEFINE n == Len(keys)
<1>1. n \in Nat /\ Len(keys') = n + 1 /\ First \notin {"q"} /\ First \notin {"y"}
  BY LenProperties, AppendProperties DEF KeyInv, First
<1>2. \A p \in Nat : p \in Chord({"q"})' <=>
        p \in Chord({"q"}) \/ (prefix /\ k \in {"q"} /\ p \in {n, n + 1})
  BY <1>1, ChordGrows
<1>3. \A p \in Nat : p \in Chord({"y"})' <=>
        p \in Chord({"y"}) \/ (prefix /\ k \in {"y"} /\ p \in {n, n + 1})
  BY <1>1, ChordGrows
<1>4. Chord({"q"}) \subseteq Nat /\ Chord({"y"}) \subseteq Nat
  BY ChordPositions
<1>5. Chord({"q"}) \subseteq 1..n
  <2>1. \A p \in Nat : p \in Chord({"q"}) => p \in 1..n
    <3>1. Chord({"q"}) = ChordsOf(keys, {"q"}) /\ keys \in Seq(Key)
      BY ChordIs DEF KeyInv
    <3>2. \A p \in Nat : p \in ChordsOf(keys, {"q"}) => p \in 2..n \/ p \in 1..(n - 1)
      BY <3>1, ChordFacts
    <3>. QED BY <1>1, <3>1, <3>2
  <2>. QED BY <1>4, <2>1
<1>6. Plain = (1..n) \ Chord({"q"}) /\ Plain' = (1..(n + 1)) \ Chord({"q"})'
  BY <1>1 DEF Plain, Positions
<1>7. Chord({"y"})' = {} => Chord({"y"}) = {} /\ ~(prefix /\ k = "y")
  BY <1>1, <1>3, <1>4
<1>8. ASSUME prefix, k = "q" PROVE Plain' = Plain \ {n}
  <2>1. \A p \in Nat : p \in Plain' <=> p \in Plain \ {n}
    BY <1>1, <1>2, <1>6, <1>8
  <2>. QED BY <1>1, <1>6, <2>1
<1>9. ASSUME ~(prefix /\ k = "q") PROVE Plain' = Plain \cup {n + 1}
  <2>1. \A p \in Nat : p \in Plain' <=> p \in Plain \cup {n + 1}
    <3>1. n + 1 \notin Chord({"q"}) /\ n + 1 \in 1..(n + 1)
      BY <1>1, <1>5
    <3>2. \A p \in Nat : p \in Chord({"q"})' <=> p \in Chord({"q"})
      BY <1>2, <1>9
    <3>. QED BY <1>1, <1>6, <3>1, <3>2
  <2>. QED BY <1>1, <1>6, <2>1
<1>. QED BY <1>6, <1>7, <1>8, <1>9

NoCopy == \A e \in 1..Len(stdin) : ~stdin[e].copy

\* Until a copy chord is typed all keys but those of a detach chord are on
\* their way, in order, and a client on its way out has no more to take.
ArriveInv ==
  /\ stdinOver => stdin = << >> /\ thread # "on"
  /\ loop = "flush" => stdinOver
  /\ Chord({"y"}) = {} =>
       /\ fetch = "none" /\ copy = "off" /\ NoCopy
       /\ stdinOver => loop # "select"
       /\ loop \in {"select", "flush"} => InOrder(InFlight, Plain)
       /\ loop = "exited" /\ stdinOver /\ ~closed => InOrder(sent \o Withheld, Plain)

\* A key that ends no chord joins the keys on their way.
LEMMA TypeForwards ==
  ASSUME KeyInv, Queued(Nat), NEW k \in Key, Type(k), ~(prefix /\ k \in {"q", "y"})
  PROVE  \E out \in Seq(Nat) :
           /\ \/ stdin' = Append(stdin, Bytes(out))
              \/ out = << >> /\ stdin' = stdin
           /\ out \o Withheld' = Withheld \o <<Len(keys) + 1>>
<1>. DEFINE n == Len(keys)
            before == IF prefix THEN <<n>> ELSE << >>
            after  == IF k = First THEN << >> ELSE <<n + 1>>
<1>1. n \in Nat /\ Len(keys') = n + 1
  BY LenProperties, AppendProperties DEF KeyInv, Type
<1>2. Match(k) = [does |-> "forward", out |-> before \o after]
  BY DEF Match
<1>3. (prefix' <=> k = First) /\ stdin' = stdin \o Events(Match(k))
  <2>1. Match(k).does = "forward"
    BY <1>2
  <2>2. prefix' = (Match(k).does = "forward" /\ k = First) /\ stdin' = stdin \o Events(Match(k))
    BY DEF Type
  <2>. QED BY <2>1, <2>2
<1>4. before \in Seq(Nat) /\ after \in Seq(Nat) /\ <<n + 1>> \in Seq(Nat) /\ << >> \in Seq(Nat)
  BY <1>1, EmptySeq
<1>5. Withheld = before /\ Withheld' = IF k = First THEN <<n + 1>> ELSE << >>
  BY <1>1, <1>3 DEF Withheld
<1>6. PICK b \in Seq(Nat), a \in Seq(Nat), l \in Seq(Nat) :
         b = before /\ a = after /\ l = Withheld'
  BY <1>4, <1>5
<1>7. a \o l = <<n + 1>>
  <2>1. (a = << >> /\ l = <<n + 1>>) \/ (a = <<n + 1>> /\ l = << >>)
    BY <1>5, <1>6
  <2>. QED BY <1>4, <2>1, ConcatEmptySeq
<1>8. PICK out \in Seq(Nat) : out = b \o a
  BY ConcatProperties
<1>9. out \o l = b \o <<n + 1>>
  <2>1. (b \o a) \o l = b \o (a \o l)
    <3>1. b \in Seq(Nat) /\ a \in Seq(Nat) /\ l \in Seq(Nat)
      OBVIOUS
    <3>2. Rebracket(b, a, l)
      BY ONLY <3>1, Brackets
    <3>. QED BY <3>2 DEF Rebracket
  <2>. QED BY <1>7, <1>8, <2>1
<1>10. Events(Match(k)) = IF out = << >> THEN << >> ELSE <<Bytes(out)>>
  BY <1>2, <1>6, <1>8 DEF Events
<1>11. \/ stdin' = Append(stdin, Bytes(out))
       \/ out = << >> /\ stdin' = stdin
  <2>1. PICK e : e = Bytes(out)
    OBVIOUS
  <2>2. PICK Ev : Ev = [copy : BOOLEAN, keys : Seq(Nat)]
    OBVIOUS
  <2>3. stdin \in Seq(Ev) /\ e \in Ev
    BY <2>1, <2>2 DEF Queued, Bytes
  <2>4. stdin \o << >> = stdin
    BY <2>3, ConcatEmptySeq
  <2>5. stdin \o <<e>> = Append(stdin, e)
    BY <2>3, AppendIsConcat
  <2>. QED BY <1>3, <1>10, <2>1, <2>4, <2>5
<1>. QED BY <1>5, <1>6, <1>9, <1>11

LEMMA QueuedNumbers == ASSUME FlowInv PROVE Queued(Nat)
<1>1. Sendable \subseteq Nat
  BY LenProperties DEF FlowInv, KeyInv, Sendable, Positions
<1>. QED BY <1>1, QueuedGrows DEF FlowInv

\* The events on their way are no copy chords, with another event of keys.
LEMMA NoCopyAppend ==
  ASSUME NEW S, Queued(S), NoCopy, NEW out \in Seq(S), stdin' = Append(stdin, Bytes(out))
  PROVE  NoCopy'
<1>1. /\ Len(stdin) \in Nat /\ Len(stdin') = Len(stdin) + 1
      /\ stdin'[Len(stdin) + 1] = Bytes(out)
      /\ \A e \in 1..Len(stdin) : stdin'[e] = stdin[e]
  BY LenProperties, AppendProperties DEF Queued
<1>2. ~Bytes(out).copy
  BY DEF Bytes
<1>3. ASSUME NEW e \in 1..Len(stdin') PROVE ~stdin'[e].copy
  <2>1. e \in 1..Len(stdin) \/ e = Len(stdin) + 1
    BY <1>1
  <2>. QED BY <1>1, <1>2, <2>1 DEF NoCopy
<1>. QED BY <1>3 DEF NoCopy

LEMMA NoCopyTail ==
  ASSUME NEW S, Queued(S), NoCopy, stdin # << >>
  PROVE  ~Head(stdin).copy /\ (stdin' = Tail(stdin) => NoCopy')
<1>1. /\ Len(stdin) \in Nat \ {0} /\ Len(Tail(stdin)) = Len(stdin) - 1
      /\ \A e \in 1..Len(Tail(stdin)) : Tail(stdin)[e] = stdin[e + 1]
  BY EmptySeq, HeadTailProperties DEF Queued
<1>2. Head(stdin) = stdin[1] /\ 1 \in 1..Len(stdin)
  BY <1>1 DEF Queued
<1>3. ASSUME stdin' = Tail(stdin), NEW e \in 1..Len(stdin') PROVE ~stdin'[e].copy
  <2>1. e + 1 \in 1..Len(stdin) /\ stdin'[e] = stdin[e + 1]
    BY <1>1, <1>3
  <2>. QED BY <2>1 DEF NoCopy
<1>. QED BY <1>2, <1>3 DEF NoCopy

\* Adding out to a and replacing b by c adds l at the end.
Extends(a, b, c, l, out) == out \o c = b \o l => (a \o out) \o c = (a \o b) \o l

LEMMA Extended ==
  ASSUME NEW S, NEW a \in Seq(S), NEW b \in Seq(S), NEW c \in Seq(S), NEW l \in Seq(S),
         NEW out \in Seq(S)
  PROVE  Extends(a, b, c, l, out)
<1>1. Rebracket(a, out, c)
  BY Brackets
<1>2. Rebracket(a, b, l)
  BY Brackets
<1>. QED BY <1>1, <1>2 DEF Rebracket, Extends

LEMMA InitArrive == Init => ArriveInv
<1>. SUFFICES ASSUME Init PROVE ArriveInv
  OBVIOUS
<1>1. sent = << >> /\ writing = << >> /\ toPty = << >> /\ stdin = << >> /\ keys = << >>
      /\ prefix = FALSE /\ Len(keys) = 0 /\ Len(stdin) = 0
  BY EmptySeq DEF Init
<1>2. KeysIn(stdin) = << >>
  <2>1. Queued(Nat)
    BY <1>1, EmptySeq DEF Queued, Init
  <2>2. KeysIn(stdin) \in Lists(Nat) /\ Len(KeysIn(stdin)) = 0
    BY <1>1, <2>1, KeysInType DEF Queued
  <2>. QED BY <2>2, EmptySeq DEF Lists
<1>3. InFlight = << >>
  <2>1. << >> \o << >> = << >>
    BY ConcatEmptySeq, EmptySeq
  <2>. QED BY <1>1, <1>2, <2>1, FlattenEmpty, InFlightParts DEF Ahead, Withheld
<1>4. Plain = {}
  BY <1>1 DEF Plain, Positions
<1>5. InOrder(InFlight, Plain)
  BY <1>3, <1>4 DEF InOrder, ToSet
<1>6. NoCopy
  BY <1>1 DEF NoCopy
<1>7. /\ thread = "on" /\ stdinOver = FALSE /\ loop = "select" /\ fetch = "none" /\ copy = "off"
  BY DEF Init
<1>. QED BY <1>5, <1>6, <1>7 DEF ArriveInv

LEMMA TypeArrive ==
  ASSUME FlowInv, ArriveInv, NEW k \in Key, Type(k)
  PROVE  ArriveInv'
<1>. DEFINE n == Len(keys)
<1>1. /\ thread = "on" /\ loop # "exited" /\ keys' = Append(keys, k)
      /\ UNCHANGED <<loop, stdinOver, fetch, copy, sent, writing, toPty>>
      /\ stdin' = stdin \o Events(Match(k))
      /\ prefix' = (Match(k).does = "forward" /\ k = First)
      /\ thread' = IF Match(k).does = "detach" THEN "detached" ELSE "on"
  BY DEF Type, uplink, copying
<1>3. ~stdinOver /\ ~stdinOver' /\ loop' # "flush" /\ loop' # "exited"
  BY <1>1 DEF ArriveInv
<1>5. KeyInv /\ Queued(Nat) /\ n \in Nat
  BY QueuedNumbers, LenProperties DEF FlowInv, KeyInv
<1>6. ASSUME Chord({"y"})' = {}
      PROVE  fetch' = "none" /\ copy' = "off" /\ NoCopy'
             /\ (loop' \in {"select", "flush"} => InOrder(InFlight, Plain)')
  <2>1. /\ Chord({"y"}) = {} /\ ~(prefix /\ k = "y")
        /\ prefix /\ k = "q" => Plain' = Plain \ {n}
        /\ ~(prefix /\ k = "q") => Plain' = Plain \cup {n + 1}
        /\ Plain \subseteq 1..n
    BY <1>1, <1>5, <1>6, PlainGrows
  <2>2. fetch' = "none" /\ copy' = "off" /\ NoCopy
    BY <1>1, <2>1 DEF ArriveInv
  <2>3. loop' \in {"select", "flush"} => InOrder(InFlight, Plain)
    BY <1>1, <2>1 DEF ArriveInv
  <2>4. Ahead \in Seq(Nat) /\ InFlight = Ahead \o Withheld /\ InFlight' = Ahead' \o Withheld'
    BY <1>5, AheadType, InFlightParts
  <2>5. CASE prefix /\ k = "q"
    <3>1. Match(k) = [does |-> "detach", out |-> << >>]
      BY <2>5 DEF Match
    <3>2. Events(Match(k)) = << >> /\ ~prefix'
      <4>1. Match(k).does = "detach" /\ Match(k).out = << >>
        BY <3>1
      <4>. QED BY <1>1, <4>1 DEF Events
    <3>3. stdin' = stdin
      <4>1. stdin \in Seq([copy : BOOLEAN, keys : Seq(Nat)])
        BY <1>5 DEF Queued
      <4>2. stdin \o << >> = stdin
        BY <4>1, ConcatEmptySeq
      <4>. QED BY <1>1, <3>2, <4>2
    <3>4. Ahead' = Ahead
      BY <1>1, <1>5, <3>3, AheadStays
    <3>5. Withheld = <<n>> /\ Withheld' = << >>
      BY <2>5, <3>2 DEF Withheld
    <3>6. InFlight' = Ahead
      <4>1. Ahead \o << >> = Ahead
        BY <2>4, ConcatEmptySeq
      <4>. QED BY <2>4, <3>4, <3>5, <4>1
    <3>7. InOrder(InFlight, Plain) => InOrder(Ahead, Plain \ {n})
      <4>1. PICK a \in Seq(Nat) : a = Ahead
        BY <2>4
      <4>2. InOrder(a \o <<n>>, Plain) => InOrder(a, Plain \ {n})
        BY <1>5, InOrderDrop
      <4>. QED BY <2>4, <3>5, <4>1, <4>2
    <3>8. InOrder(InFlight, Plain)' <=> InOrder(Ahead, Plain \ {n})
      BY <2>1, <2>5, <3>6 DEF InOrder
    <3>9. NoCopy'
      BY <2>2, <3>3 DEF NoCopy
    <3>. QED BY <2>2, <2>3, <3>7, <3>8, <3>9
  <2>6. CASE ~(prefix /\ k = "q")
    <3>1. PICK out \in Seq(Nat) :
            /\ \/ stdin' = Append(stdin, Bytes(out))
               \/ out = << >> /\ stdin' = stdin
            /\ out \o Withheld' = Withheld \o <<n + 1>>
      BY <1>5, <2>1, <2>6, TypeForwards
    <3>2. Ahead' = Ahead \o out
      BY <1>1, <1>5, <3>1, AheadGrows
    <3>3. Withheld \in Seq(Nat) /\ Withheld' \in Seq(Nat) /\ <<n + 1>> \in Seq(Nat)
      <4>1. Len(keys') \in Nat
        BY <1>1, <1>5, AppendProperties DEF KeyInv
      <4>. QED BY <1>5, <4>1, EmptySeq DEF Withheld
    <3>4. InFlight' = InFlight \o <<n + 1>> /\ InFlight \in Seq(Nat)
      <4>1. PICK a \in Seq(Nat), b \in Seq(Nat), c \in Seq(Nat), l \in Seq(Nat) :
              a = Ahead /\ b = Withheld /\ c = Withheld' /\ l = <<n + 1>>
        BY <2>4, <3>3
      <4>2. out \o c = b \o l
        BY <3>1, <4>1
      <4>3. Extends(a, b, c, l, out)
        BY Extended
      <4>4. (a \o out) \o c = (a \o b) \o l
        BY <4>2, <4>3 DEF Extends
      <4>5. InFlight' = (a \o out) \o c /\ InFlight = a \o b
        BY <2>4, <3>2, <4>1
      <4>6. InFlight \in Seq(Nat)
        <5>1. Ahead \in Seq(Nat) /\ Withheld \in Seq(Nat)
          BY <2>4, <3>3
        <5>. QED BY ONLY <5>1, <2>4, ConcatProperties
      <4>. QED BY <4>1, <4>4, <4>5, <4>6
    <3>5. InOrder(InFlight, Plain) => InOrder(InFlight \o <<n + 1>>, Plain \cup {n + 1})
      <4>1. PICK s \in Seq(Nat) : s = InFlight
        BY <3>4
      <4>2. InOrder(s, Plain) => InOrder(s \o <<n + 1>>, Plain \cup {n + 1})
        BY <1>5, <2>1, InOrderAppend
      <4>. QED BY <4>1, <4>2
    <3>6. InOrder(InFlight, Plain)' <=> InOrder(InFlight \o <<n + 1>>, Plain \cup {n + 1})
      BY <2>1, <2>6, <3>4 DEF InOrder
    <3>7. NoCopy'
      <4>1. stdin' = stdin => NoCopy'
        BY <2>2 DEF NoCopy
      <4>. QED BY <1>5, <2>2, <3>1, <4>1, NoCopyAppend
    <3>. QED BY <2>2, <2>3, <3>5, <3>6, <3>7
  <2>. QED BY <2>5, <2>6
<1>. QED BY <1>1, <1>3, <1>6 DEF ArriveInv

LEMMA EofArrive ==
  ASSUME FlowInv, ArriveInv, TypeEof
  PROVE  ArriveInv'
<1>1. /\ thread = "on" /\ loop # "exited" /\ prefix' = FALSE /\ thread' = "eof"
      /\ UNCHANGED <<keys, loop, stdinOver, fetch, copy, sent, writing, toPty>>
      /\ stdin' = IF prefix THEN Append(stdin, Bytes(<<Len(keys)>>)) ELSE stdin
  BY DEF TypeEof, uplink, copying
<1>2. ~stdinOver' /\ loop' # "flush" /\ loop' # "exited"
  BY <1>1 DEF ArriveInv
<1>3. Chord({"y"})' = Chord({"y"}) /\ Plain' = Plain
  BY <1>1 DEF Chord, Plain, Positions
<1>4. Queued(Nat) /\ Len(keys) \in Nat /\ prefix \in BOOLEAN
  BY QueuedNumbers, LenProperties DEF FlowInv, KeyInv
<1>5. Withheld \in Seq(Nat) /\ Withheld' = << >>
  BY <1>1, <1>4, EmptySeq DEF Withheld
<1>6. Ahead' = Ahead \o Withheld
  <2>1. CASE prefix
    <3>1. stdin' = Append(stdin, Bytes(Withheld))
      BY <1>1, <2>1 DEF Withheld
    <3>. QED BY <1>1, <1>4, <1>5, <3>1, AheadGrows
  <2>2. CASE ~prefix
    <3>1. Withheld = << >> /\ stdin' = stdin
      BY <1>1, <2>2 DEF Withheld
    <3>. QED BY <1>1, <1>4, <1>5, <3>1, AheadGrows
  <2>. QED BY <2>1, <2>2
<1>7. InFlight' = InFlight
  <2>1. PICK a \in Seq(Nat), b \in Seq(Nat) : a = Ahead /\ b = Withheld
    BY <1>4, <1>5, AheadType
  <2>2. a \o b \in Seq(Nat)
    BY ConcatProperties
  <2>3. PICK c \in Seq(Nat) : c = a \o b
    BY <2>2
  <2>4. c \o << >> = c
    BY ConcatEmptySeq
  <2>5. InFlight = c
    BY <2>1, <2>3, InFlightParts
  <2>6. InFlight' = c \o << >>
    BY <1>5, <1>6, <2>1, <2>3, InFlightParts
  <2>. QED BY <2>4, <2>5, <2>6
<1>8. NoCopy => NoCopy'
  <2>1. CASE prefix
    <3>1. stdin' = Append(stdin, Bytes(Withheld))
      BY <1>1, <2>1 DEF Withheld
    <3>. QED BY <1>4, <1>5, <3>1, NoCopyAppend
  <2>2. CASE ~prefix
    BY <1>1, <2>2 DEF NoCopy
  <2>. QED BY <2>1, <2>2
<1>9. InOrder(InFlight, Plain)' <=> InOrder(InFlight, Plain)
  BY <1>3, <1>7 DEF InOrder
<1>. QED BY <1>1, <1>2, <1>3, <1>8, <1>9 DEF ArriveInv

\* What the rest of the client does with the keys on their way.
LEMMA LoopArrive ==
  ASSUME Queued(Nat), ArriveInv, Write \/ Select \/ OnTerm \/ Daemon \/ UNCHANGED vars,
         UNCHANGED <<keys, thread, prefix>>
  PROVE  ArriveInv'
<1>1. Chord({"y"})' = Chord({"y"}) /\ Plain' = Plain /\ Withheld' = Withheld
  BY DEF Chord, Plain, Positions, Withheld
<1>2. Ahead' = Ahead => (InOrder(InFlight, Plain)' <=> InOrder(InFlight, Plain))
  BY <1>1, InFlightParts DEF InOrder
\* A step that moves keys on, or none, and may only leave by getting stuck.
<1>3. ASSUME Ahead' = Ahead \/ loop' = "stuck",
             UNCHANGED <<stdinOver, fetch, copy>>, loop' \in {loop, "stuck"},
             stdin = << >> => stdin' = << >>, NoCopy => NoCopy',
             closed => closed', loop = "exited" => UNCHANGED sent
      PROVE  ArriveInv'
  BY <1>1, <1>2, <1>3 DEF ArriveInv, InOrder
<1>4. CASE WriteTake \/ WritePut
  <2>1. /\ loop # "exited" /\ UNCHANGED <<stdinOver, fetch, copy, loop, stdin, closed>>
    BY <1>4 DEF WriteTake, WritePut, Polled, copying, daemon
  <2>2. Ahead' = Ahead
    BY <1>4, AheadStays
  <2>. QED BY <1>3, <2>1, <2>2 DEF NoCopy
<1>5. CASE WriteFails
  <2>1. /\ closed' /\ loop' = "exited" /\ stdin' = << >> /\ UNCHANGED <<stdinOver, fetch, copy>>
    BY <1>5 DEF WriteFails, Exits, daemon
  <2>. QED BY <1>1, <2>1 DEF ArriveInv, NoCopy
<1>6. CASE Flushed
  <2>1. /\ loop = "flush" /\ toPty = << >> /\ writing = << >> /\ loop' = "exited"
        /\ UNCHANGED <<stdinOver, fetch, copy, stdin, sent, closed>>
    BY <1>6 DEF Flushed, copying, daemon, uplink
  <2>2. stdinOver /\ stdin = << >>
    BY <2>1 DEF ArriveInv
  <2>3. InFlight = sent \o Withheld
    <3>1. KeysIn(stdin) = << >>
      <4>1. KeysIn(stdin) \in Lists(Nat) /\ Len(KeysIn(stdin)) = 0
        BY <2>2, KeysInType, EmptySeq DEF Queued
      <4>. QED BY <4>1, EmptySeq DEF Lists
    <3>2. sent \o << >> = sent
      BY ConcatEmptySeq DEF Queued
    <3>. QED BY <2>1, <2>2, <3>1, <3>2, FlattenEmpty, InFlightParts DEF Ahead, Withheld
  <2>4. Chord({"y"}) = {} => InOrder(sent' \o Withheld', Plain')
    BY <1>1, <2>1, <2>3 DEF ArriveInv
  <2>5. NoCopy => NoCopy'
    BY <2>1 DEF NoCopy
  <2>. QED BY <1>1, <2>1, <2>2, <2>4, <2>5 DEF ArriveInv
<1>7. CASE FetchFailed \/ FetchDone \/ DaemonAnswers
  <2>1. fetch # "none" /\ UNCHANGED <<stdin, stdinOver>> /\ (loop' = "flush" => stdinOver \/ loop = "flush")
    BY <1>7 DEF FetchFailed, FetchDone, DaemonAnswers
  <2>. QED BY <1>1, <2>1 DEF ArriveInv
<1>8. CASE OnCopy
  <2>1. loop = "select" /\ stdin # << >> /\ Head(stdin).copy /\ UNCHANGED <<stdinOver, loop>>
    BY <1>8 DEF OnCopy, Event
  <2>2. ~NoCopy
    BY <2>1, NoCopyTail
  <2>. QED BY <1>1, <2>1, <2>2 DEF ArriveInv
<1>9. CASE OnBytesPending \/ OnBytesCopy
  <2>1. stdin # << >> /\ (fetch # "none" \/ copy # "off") /\ UNCHANGED <<stdinOver, loop>>
        /\ loop = "select"
    BY <1>9 DEF OnBytesPending, OnBytesCopy, Event
  <2>. QED BY <1>1, <2>1 DEF ArriveInv
<1>10. CASE OnBytesForward
  <2>1. /\ loop = "select" /\ stdin # << >> /\ stdin' = Tail(stdin)
        /\ loop' \in {loop, "stuck"} /\ UNCHANGED <<stdinOver, fetch, copy, closed>>
    BY <1>10 DEF OnBytesForward, Event, copying, daemon
  <2>2. loop' = loop => Ahead' = Ahead
    BY <1>10, AheadStays
  <2>3. NoCopy => NoCopy'
    BY <2>1, NoCopyTail
  <2>. QED BY <1>3, <2>1, <2>2, <2>3
<1>11. CASE OnStdinOver
  <2>1. /\ loop = "select" /\ stdin = << >> /\ thread # "on" /\ stdinOver' = TRUE
        /\ IF fetch # "none" THEN loop' = loop /\ copy' = copy ELSE loop' = "flush" /\ copy' = "off"
        /\ UNCHANGED <<stdin, fetch, sent, writing, toPty>>
    BY <1>11 DEF OnStdinOver, uplink
  <2>2. Ahead' = Ahead
    BY <2>1, AheadStays
  <2>3. NoCopy => NoCopy'
    BY <2>1 DEF NoCopy
  <2>. QED BY <1>1, <1>2, <2>1, <2>2, <2>3 DEF ArriveInv
<1>12. CASE OnOutput \/ DaemonWrites \/ DaemonReads \/ DaemonCloses \/ UNCHANGED vars
  <2>1. /\ UNCHANGED <<stdinOver, fetch, copy, loop, stdin, sent, writing, toPty>>
        /\ closed => closed'
    BY <1>12 DEF OnOutput, DaemonWrites, DaemonReads, DaemonCloses, vars, copying, daemon, uplink
  <2>2. Ahead' = Ahead
    BY <2>1, AheadStays
  <2>3. NoCopy => NoCopy'
    BY <2>1 DEF NoCopy
  <2>. QED BY <1>3, <2>1, <2>2, <2>3
<1>13. CASE OnEof \/ OnTerm
  <2>1. /\ loop = "select" /\ loop' = "exited" /\ copy' = "off"
        /\ stdin' = << >> /\ UNCHANGED <<stdinOver, fetch>>
    BY <1>13 DEF OnEof, OnTerm, Quit, Exits
  <2>2. NoCopy => NoCopy'
    BY <2>1 DEF NoCopy
  <2>. QED BY <1>1, <2>1, <2>2 DEF ArriveInv
<1>. QED
  BY <1>4, <1>5, <1>6, <1>7, <1>8, <1>9, <1>10, <1>11, <1>12, <1>13 DEF Write, Select, Daemon

LEMMA NextArrive ==
  ASSUME FlowInv, ArriveInv, [Next]_vars
  PROVE  ArriveInv'
<1>1. CASE (\E k \in Key : Type(k)) \/ TypeEof
  BY <1>1, TypeArrive, EofArrive
<1>3. CASE TypeFails
  <2>1. /\ thread' # "on" /\ loop # "exited"
        /\ UNCHANGED <<keys, prefix, stdin, loop, stdinOver, sent, writing, toPty, fetch, copy>>
    BY <1>3 DEF TypeFails, uplink, copying
  <2>2. /\ Chord({"y"})' = Chord({"y"}) /\ Plain' = Plain /\ InFlight' = InFlight
        /\ NoCopy' = NoCopy
    BY <2>1 DEF Chord, Plain, Positions, InFlight, Withheld, NoCopy
  <2>. QED BY <2>1, <2>2 DEF ArriveInv, InOrder
<1>2. CASE Write \/ Select \/ OnTerm \/ Daemon \/ UNCHANGED vars
  <2>1. Queued(Nat)
    BY QueuedNumbers
  <2>2. UNCHANGED <<keys, thread, prefix>>
    BY <1>2, <2>1, LoopMoves DEF vars, keyboard
  <2>. QED BY <1>2, <2>1, <2>2, LoopArrive
<1>. QED BY <1>1, <1>2, <1>3 DEF Next

-----------------------------------------------------------------------------
(* What is typed in copy mode                                              *)

\* Where copy chords end, and the keys that may be sent for all of those.
YEnds == {j \in 2..Len(keys) : keys[j] = "y" /\ keys[j - 1] = First}

Left(j, i) == \E k \in (j + 1)..(i - 1) : keys[k] \in Leaves /\ ~PromptOpen(j, k)

Free(i) == \A j \in YEnds : j < i => Left(j, i)

FreeKeys == {p \in Positions : Free(p)}

\* s holds the positions from x up to y, which is not among them.
Run(s, x, y) ==
  /\ s \in Seq(Nat) /\ x \in Nat /\ y \in Nat /\ Len(s) = y - x
  /\ \A i \in 1..Len(s) : s[i] = (x + i) - 1

\* The events of stdin follow each other: event e holds the positions from at[e]
\* up to at[e + 1], and the keyboard thread goes on where the last one ends.
Tiling(at) ==
  /\ at \in [1..(Len(stdin) + 1) -> 1..(Len(keys) + 1)]
  /\ \A e \in 1..Len(stdin) :
       IF stdin[e].copy THEN at[e + 1] = at[e] + 2 /\ keys[at[e]] = First
                        ELSE Run(stdin[e].keys, at[e], at[e + 1])
  /\ thread = "on" => at[Len(stdin) + 1] = IF prefix THEN Len(keys) ELSE Len(keys) + 1

\* For all copy chords before position b but the one that ends at g, copy mode
\* was left before b.
Others(g, b) == \A j \in YEnds : j < b /\ j # g => Left(j, b)

\* What the mode says of the keys from the chord that ends at g up to b.
Follows(g, mode, b) ==
  (mode = "on" => ~PromptOpen(g, b)) /\ (mode = "off" => Left(g, b))

\* All keys before b have been handled: in copy mode, into pending while its
\* history is fetched, or outside both.
Handled(b) ==
  /\ copy # "off" => fetch = "none" /\ \E g \in Nat : g < b /\ Others(g, b) /\ Follows(g, copy, b)
  /\ fetch # "none" => \E g \in Nat, x \in 1..b :
                         g < x /\ Others(g, b) /\ ~PromptOpen(g, x) /\ Run(pending, x, b)
  /\ fetch = "none" => pending = << >>
  /\ ~Holds => \A j \in YEnds : j < b => Left(j, b)

WaitInv == \E at : Tiling(at) /\ Handled(at[1])

Travels(S) == toPty \in Lists(S) /\ writing \in Seq(S) /\ sent \in Seq(S)

LocalInv == ~failed /\ ~again => Travels(FreeKeys) /\ (loop = "select" => WaitInv)

\* Copy mode that was left stays left.
LEMMA LeftLater ==
  ASSUME NEW j \in Nat, NEW b \in Nat, NEW c \in Nat, b <= c, Left(j, b)
  PROVE  Left(j, c)
<1>1. PICK k \in (j + 1)..(b - 1) : keys[k] \in Leaves /\ ~PromptOpen(j, k)
  BY DEF Left
<1>2. k \in (j + 1)..(c - 1)
  OBVIOUS
<1>. QED BY <1>1, <1>2 DEF Left

\* One key of copy mode: the search prompt is open, or was closed, and copy mode
\* left, as the keys up to it say.
LEMMA OneKey ==
  ASSUME NEW g \in Nat, NEW x \in Nat, g < x, NEW mode \in Mode, Follows(g, mode, x)
  PROVE  Follows(g, FeedKey(mode, keys[x]), x + 1)
<1>. DEFINE next == FeedKey(mode, keys[x])
<1>1. x \in (g + 1)..((x + 1) - 1)
  OBVIOUS
<1>2. ASSUME next = "on" PROVE ~PromptOpen(g, x + 1)
  <2>1. keys[x] # "/" /\ (keys[x] \in Closes \/ ~PromptOpen(g, x))
    BY <1>2 DEF FeedKey, Follows, Closes, Mode, Leaves
  <2>. SUFFICES ASSUME NEW p \in (g + 1)..((x + 1) - 1), keys[p] = "/",
                       \A c \in (p + 1)..((x + 1) - 1) : keys[c] \notin Closes
                PROVE  FALSE
    BY DEF PromptOpen
  <2>2. p # x
    BY <2>1
  <2>3. p \in (g + 1)..(x - 1) /\ x \in (p + 1)..((x + 1) - 1)
        /\ \A c \in (p + 1)..(x - 1) : c \in (p + 1)..((x + 1) - 1)
    BY <2>2
  <2>4. keys[x] \notin Closes
    BY <2>3
  <2>5. PromptOpen(g, x)
    BY <2>3 DEF PromptOpen
  <2>. QED BY <2>1, <2>4, <2>5
<1>3. ASSUME next = "off" PROVE Left(g, x + 1)
  <2>1. CASE mode = "off"
    <3>1. x + 1 \in Nat /\ x <= x + 1
      OBVIOUS
    <3>. QED BY <2>1, <3>1, LeftLater DEF Follows
  <2>2. CASE mode # "off"
    <3>1. keys[x] \in Leaves /\ mode = "on"
      BY <1>3, <2>2 DEF FeedKey, Mode
    <3>2. ~PromptOpen(g, x)
      BY <3>1 DEF Follows
    <3>. QED BY <1>1, <3>1, <3>2 DEF Left
  <2>. QED BY <2>1, <2>2
<1>. QED BY <1>2, <1>3 DEF Follows

\* A run of keys of copy mode.
LEMMA RunOfKeys ==
  ASSUME NEW g \in Nat, NEW x \in Nat, NEW y \in Nat, g < x, NEW ks, Run(ks, x, y),
         NEW mode \in Mode, Follows(g, mode, x)
  PROVE  Follows(g, CopyFeed(mode, ks), y)
<1>1. ks \in Seq(Nat) /\ Len(ks) \in Nat /\ Len(ks) = y - x
      /\ \A i \in 1..Len(ks) : ks[i] = (x + i) - 1
  BY LenProperties DEF Run
<1>2. PICK f \in [0..Len(ks) -> Mode] :
        /\ f[0] = mode /\ CopyFeed(mode, ks) = f[Len(ks)]
        /\ \A i \in 1..Len(ks) : f[i] = FeedKey(f[i - 1], keys[ks[i]])
  <2>1. PICK S : S = Nat
    OBVIOUS
  <2>2. ks \in Seq(S)
    BY <1>1, <2>1
  <2>. QED BY ONLY <2>2, mode \in Mode, CopyFeedRuns
<1>. DEFINE G == {i \in 0..Len(ks) : Follows(g, f[i], x + i)}
<1>3. 0 \in G
  <2>1. x + 0 = x
    OBVIOUS
  <2>. QED BY <1>1, <1>2, <2>1
<1>4. ASSUME NEW i \in 1..Len(ks), i - 1 \in G PROVE i \in G
  <2>1. PICK z \in Nat : z = (x + i) - 1
    BY <1>1
  <2>2. z = x + (i - 1) /\ z + 1 = x + i /\ g < z /\ i - 1 \in 0..Len(ks) /\ i \in 0..Len(ks)
    BY <1>1, <2>1
  <2>3. Follows(g, f[i - 1], z) /\ f[i - 1] \in Mode
    BY <1>4, <2>2
  <2>4. Follows(g, FeedKey(f[i - 1], keys[z]), z + 1)
    BY <2>2, <2>3, OneKey
  <2>5. f[i] = FeedKey(f[i - 1], keys[z])
    BY <1>1, <1>2, <2>1
  <2>. QED BY <2>2, <2>4, <2>5
<1>5. Len(ks) \in G
  <2>. HIDE DEF G
  <2>1. \A i \in 0..Len(ks) : i \in G
    BY <1>1, <1>3, <1>4, Induction
  <2>. QED BY <1>1, <2>1
<1>6. x + Len(ks) = y
  BY <1>1
<1>. QED BY <1>2, <1>5, <1>6

LEMMA RunConcat ==
  ASSUME NEW s, NEW t, NEW x, NEW y, NEW z, Run(s, x, y), Run(t, y, z)
  PROVE  Run(s \o t, x, z)
<1>1. /\ s \in Seq(Nat) /\ t \in Seq(Nat) /\ x \in Nat /\ y \in Nat /\ z \in Nat
      /\ Len(s) \in Nat /\ Len(t) \in Nat /\ Len(s) = y - x /\ Len(t) = z - y
      /\ \A i \in 1..Len(s) : s[i] = (x + i) - 1
      /\ \A i \in 1..Len(t) : t[i] = (y + i) - 1
  BY LenProperties DEF Run
<1>2. PICK u \in Seq(Nat) : u = s \o t
  BY <1>1, ConcatProperties
<1>3. /\ Len(u) = Len(s) + Len(t)
      /\ \A i \in 1..(Len(s) + Len(t)) : u[i] = IF i <= Len(s) THEN s[i] ELSE t[i - Len(s)]
  BY <1>1, <1>2, ConcatProperties
<1>4. ASSUME NEW i \in 1..Len(u) PROVE u[i] = (x + i) - 1
  <2>1. CASE i <= Len(s)
    BY <1>1, <1>3, <2>1
  <2>2. CASE ~(i <= Len(s))
    <3>1. i - Len(s) \in 1..Len(t) /\ (y + (i - Len(s))) - 1 = (x + i) - 1
      BY <1>1, <1>3, <2>2
    <3>. QED BY <1>1, <1>3, <2>2, <3>1
  <2>. QED BY <2>1, <2>2
<1>5. Len(u) = z - x
  BY <1>1, <1>3
<1>. QED BY <1>1, <1>2, <1>4, <1>5 DEF Run

\* The positions in a run.
LEMMA RunHas ==
  ASSUME NEW s, NEW x, NEW y, Run(s, x, y)
  PROVE  x \in Nat /\ y \in Nat /\ x <= y /\ \A p \in Nat : p \in ToSet(s) <=> x <= p /\ p < y
<1>1. /\ s \in Seq(Nat) /\ x \in Nat /\ y \in Nat /\ Len(s) \in Nat /\ Len(s) = y - x
      /\ DOMAIN s = 1..Len(s) /\ \A i \in 1..Len(s) : s[i] = (x + i) - 1
  BY LenProperties DEF Run
<1>2. ASSUME NEW p \in Nat, x <= p, p < y PROVE p \in ToSet(s)
  <2>1. PICK i \in 1..Len(s) : i = (p - x) + 1
    BY <1>1, <1>2
  <2>2. (x + i) - 1 = p
    BY <1>1, <2>1
  <2>. QED BY <1>1, <2>2 DEF ToSet
<1>3. ASSUME NEW p \in Nat, p \in ToSet(s) PROVE x <= p /\ p < y
  <2>1. PICK i \in 1..Len(s) : p = s[i]
    BY <1>1, <1>3 DEF ToSet
  <2>. QED BY <1>1, <2>1
<1>4. x <= y
  BY <1>1
<1>. QED BY <1>1, <1>2, <1>3, <1>4

\* Another key typed says nothing new of the keys before it.
LEMMA FreeGrows ==
  ASSUME KeyInv, NEW k \in Key, keys' = Append(keys, k), NEW n, n = Len(keys)
  PROVE  /\ n \in Nat /\ Len(keys') = n + 1 /\ keys'[n + 1] = k
         /\ \A i \in 1..n : keys'[i] = keys[i]
         /\ \A j \in Nat, x \in 1..(n + 1) : PromptOpen(j, x)' <=> PromptOpen(j, x)
         /\ \A j \in Nat, x \in 1..(n + 1) : Left(j, x)' <=> Left(j, x)
         /\ \A j \in YEnds' : j \in Nat /\ (j <= n => j \in YEnds)
         /\ FreeKeys \subseteq FreeKeys'
<1>1. /\ keys \in Seq(Key) /\ n \in Nat /\ keys' \in Seq(Key) /\ Len(keys') = n + 1
      /\ keys'[n + 1] = k /\ \A i \in 1..n : keys'[i] = keys[i]
  BY LenProperties, AppendProperties DEF KeyInv
<1>2. ASSUME NEW j \in Nat, NEW x \in 1..(n + 1) PROVE PromptOpen(j, x)' <=> PromptOpen(j, x)
  <2>1. \A p \in (j + 1)..(x - 1) : p \in 1..n /\ \A c \in (p + 1)..(x - 1) : c \in 1..n
    BY <1>1
  <2>2. \A p \in (j + 1)..(x - 1) :
           keys'[p] = keys[p] /\ \A c \in (p + 1)..(x - 1) : keys'[c] = keys[c]
    BY <1>1, <2>1
  <2>3. PromptOpen(j, x)' <=> \E p \in (j + 1)..(x - 1) :
           keys'[p] = "/" /\ \A c \in (p + 1)..(x - 1) : keys'[c] \notin Closes
    BY DEF PromptOpen, Closes
  <2>. QED BY <2>2, <2>3 DEF PromptOpen
<1>3. ASSUME NEW j \in Nat, NEW x \in 1..(n + 1) PROVE Left(j, x)' <=> Left(j, x)
  <2>1. \A p \in (j + 1)..(x - 1) : p \in 1..n /\ p \in 1..(n + 1)
    BY <1>1
  <2>2. \A p \in (j + 1)..(x - 1) :
           keys'[p] = keys[p] /\ (PromptOpen(j, p)' <=> PromptOpen(j, p))
    BY <1>1, <1>2, <2>1
  <2>3. Left(j, x)' <=> \E p \in (j + 1)..(x - 1) : keys'[p] \in Leaves /\ ~PromptOpen(j, p)'
    BY DEF Left, Leaves
  <2>. QED BY <2>2, <2>3 DEF Left
<1>4. ASSUME NEW j \in YEnds' PROVE j \in Nat /\ (j <= n => j \in YEnds)
  <2>1. j \in 2..(n + 1) /\ keys'[j] = "y" /\ keys'[j - 1] = First
    BY <1>1 DEF YEnds
  <2>2. j <= n => j \in 2..n /\ j \in 1..n /\ j - 1 \in 1..n
    BY <1>1, <2>1
  <2>. QED BY <1>1, <2>1, <2>2 DEF YEnds
<1>5. ASSUME NEW p \in FreeKeys PROVE p \in FreeKeys'
  <2>1. p \in 1..n /\ p \in 1..(n + 1) /\ p \in Nat /\ p <= n /\ Free(p)
    BY <1>1 DEF FreeKeys, Positions
  <2>2. ASSUME NEW j \in YEnds', j < p PROVE Left(j, p)'
    <3>1. j \in Nat /\ j <= n
      BY <1>1, <1>4, <2>1, <2>2
    <3>2. j \in YEnds
      BY <1>4, <3>1
    <3>3. Left(j, p)
      BY <2>1, <2>2, <3>2 DEF Free
    <3>. QED BY <1>3, <2>1, <3>1, <3>3
  <2>3. Free(p)' /\ p \in 1..Len(keys')
    BY <1>1, <2>1, <2>2 DEF Free
  <2>. QED BY <2>3 DEF FreeKeys, Positions
<1>. QED BY <1>1, <1>2, <1>3, <1>4, <1>5

\* What has been handled stays as it is when another key is typed.
LEMMA HandledStays ==
  ASSUME KeyInv, NEW k \in Key, keys' = Append(keys, k), UNCHANGED <<pending, fetch, copy>>,
         NEW b \in 1..(Len(keys) + 1), Handled(b)
  PROVE  Handled(b)'
<1>1. PICK n : n = Len(keys)
  OBVIOUS
<1>2. /\ n \in Nat
      /\ \A j \in Nat, x \in 1..(n + 1) : PromptOpen(j, x)' <=> PromptOpen(j, x)
      /\ \A j \in Nat, x \in 1..(n + 1) : Left(j, x)' <=> Left(j, x)
      /\ \A j \in YEnds' : j \in Nat /\ (j <= n => j \in YEnds)
  BY <1>1, FreeGrows
<1>3. b \in 1..(n + 1) /\ (\A x \in 1..b : x \in 1..(n + 1)) /\ (Holds' <=> Holds)
  BY <1>1, <1>2 DEF Holds
<1>4. ASSUME NEW j \in YEnds', j < b PROVE j \in YEnds /\ j \in Nat
  <2>1. j \in Nat /\ j <= n
    BY <1>2, <1>3, <1>4
  <2>. QED BY <1>2, <2>1
<1>5. ASSUME NEW g \in Nat, Others(g, b) PROVE Others(g, b)'
  <2>1. \A j \in YEnds' : j < b /\ j # g => Left(j, b)'
    BY <1>2, <1>3, <1>4, <1>5 DEF Others
  <2>. QED BY <2>1 DEF Others
<1>6. ASSUME copy' # "off"
      PROVE  fetch' = "none" /\ \E g \in Nat : g < b /\ Others(g, b)' /\ Follows(g, copy, b)'
  <2>1. PICK g \in Nat : g < b /\ Others(g, b) /\ Follows(g, copy, b)
    BY <1>6 DEF Handled
  <2>2. Follows(g, copy, b)'
    BY <1>2, <1>3, <2>1 DEF Follows
  <2>. QED BY <1>5, <1>6, <2>1, <2>2 DEF Handled
<1>7. ASSUME fetch' # "none"
      PROVE  \E g \in Nat, x \in 1..b :
               g < x /\ Others(g, b)' /\ ~PromptOpen(g, x)' /\ Run(pending, x, b)'
  <2>1. PICK g \in Nat, x \in 1..b :
          g < x /\ Others(g, b) /\ ~PromptOpen(g, x) /\ Run(pending, x, b)
    BY <1>7 DEF Handled
  <2>2. ~PromptOpen(g, x)' /\ Run(pending, x, b)'
    BY <1>2, <1>3, <2>1 DEF Run
  <2>. QED BY <1>5, <2>1, <2>2
<1>8. ~Holds' => \A j \in YEnds' : j < b => Left(j, b)'
  BY <1>2, <1>3, <1>4 DEF Handled
<1>9. fetch' = "none" => pending' = << >>
  BY DEF Handled
<1>. QED BY <1>6, <1>7, <1>8, <1>9 DEF Handled

LEMMA TravelsGrows ==
  ASSUME NEW S, NEW T, S \subseteq T, Travels(S)
  PROVE  Travels(T)
<1>1. Seq(S) \subseteq Seq(T)
  BY SeqMonotonic
<1>2. Lists(S) \subseteq Lists(T)
  BY <1>1, SeqMonotonic DEF Lists
<1>. QED BY <1>1, <1>2 DEF Travels

\* Only the keys of an event forwarded join those that travel to the daemon.
LEMMA TravelsOn ==
  ASSUME NEW S, Travels(S),
         \/ WriteTake \/ WritePut \/ UNCHANGED <<toPty, writing, sent>>
         \/ toPty' = << >> /\ writing' = << >> /\ UNCHANGED sent
         \/ OnBytesForward /\ (loop' = "select" => Head(stdin).keys \in Seq(S))
  PROVE  Travels(S)'
<1>1. CASE WriteTake
  <2>1. toPty \in Seq(Seq(S)) /\ toPty # << >> /\ toPty' = Tail(toPty) /\ writing' = Head(toPty)
        /\ sent' = sent
    BY <1>1 DEF WriteTake, Travels, Lists
  <2>2. Tail(toPty) \in Seq(Seq(S)) /\ Head(toPty) \in Seq(S)
    BY <2>1, HeadTailProperties
  <2>. QED BY <2>1, <2>2 DEF Travels, Lists
<1>2. CASE WritePut
  <2>1. sent' = sent \o writing /\ writing' = << >> /\ toPty' = toPty
    BY <1>2 DEF WritePut
  <2>2. sent \o writing \in Seq(S) /\ << >> \in Seq(S)
    BY ConcatProperties, EmptySeq DEF Travels
  <2>. QED BY <2>1, <2>2 DEF Travels
<1>3. CASE UNCHANGED <<toPty, writing, sent>>
  BY <1>3 DEF Travels
<1>4. CASE OnBytesForward /\ (loop' = "select" => Head(stdin).keys \in Seq(S))
  <2>1. UNCHANGED <<writing, sent>> /\ loop = "select"
    BY <1>4 DEF OnBytesForward, Event
  <2>2. CASE Len(toPty) < ToPtyCap
    <3>1. toPty' = Append(toPty, Head(stdin).keys) /\ loop' = "select"
      BY <1>4, <2>1, <2>2 DEF OnBytesForward
    <3>2. toPty \in Seq(Seq(S)) /\ Head(stdin).keys \in Seq(S)
      BY <1>4, <3>1 DEF Travels, Lists
    <3>3. Append(toPty, Head(stdin).keys) \in Seq(Seq(S))
      BY <3>2, AppendProperties
    <3>. QED BY <2>1, <3>1, <3>3 DEF Travels, Lists
  <2>3. CASE ~(Len(toPty) < ToPtyCap)
    BY <1>4, <2>1, <2>3 DEF OnBytesForward, Travels
  <2>. QED BY <2>2, <2>3
<1>5. CASE toPty' = << >> /\ writing' = << >> /\ UNCHANGED sent
  BY <1>5, EmptySeq DEF Travels, Lists
<1>. QED BY <1>1, <1>2, <1>3, <1>4, <1>5

LEMMA InitLocal == Init => LocalInv
<1>. SUFFICES ASSUME Init PROVE LocalInv
  OBVIOUS
<1>1. Travels(FreeKeys)
  BY EmptySeq DEF Init, Travels, Lists
<1>2. stdin = << >> /\ pending = << >> /\ fetch = "none" /\ copy = "off" /\ Len(keys) = 0
      /\ Len(stdin) = 0 /\ prefix = FALSE
  BY EmptySeq DEF Init
<1>3. Tiling([e \in 1..1 |-> 1])
  BY <1>2 DEF Tiling
<1>4. YEnds = {}
  BY <1>2 DEF YEnds
<1>5. Handled(1)
  BY <1>2, <1>4 DEF Handled, Holds
<1>6. PICK at : at = [e \in 1..1 |-> 1]
  OBVIOUS
<1>7. at[1] = 1
  BY <1>6
<1>8. WaitInv
  BY <1>3, <1>5, <1>6, <1>7 DEF WaitInv
<1>. QED BY <1>1, <1>8 DEF LocalInv

\* One more event, which goes on where the last one ended.
LEMMA TilingGrows ==
  ASSUME KeyInv, Queued(Nat), NEW at, Tiling(at), NEW ev \in [copy : BOOLEAN, keys : Seq(Nat)],
         stdin' = Append(stdin, ev), NEW n, Len(keys') = n, Len(keys) <= n,
         \A i \in 1..Len(keys) : keys'[i] = keys[i], n \in Nat,
         NEW L, L = Len(stdin), NEW v \in 1..(n + 1),
         IF ev.copy THEN v = at[L + 1] + 2 /\ keys'[at[L + 1]] = First
                    ELSE Run(ev.keys, at[L + 1], v),
         thread' = "on" => v = IF prefix' THEN n ELSE n + 1
  PROVE  \E bt : Tiling(bt)' /\ bt[1] = at[1]
<1>1. /\ L \in Nat /\ Len(stdin') = L + 1 /\ stdin'[L + 1] = ev
      /\ \A e \in 1..L : stdin'[e] = stdin[e]
  BY LenProperties, AppendProperties DEF Queued
<1>2. Len(keys) \in Nat
  BY LenProperties DEF KeyInv
<1>3. /\ at \in [1..(L + 1) -> 1..(Len(keys) + 1)]
      /\ \A e \in 1..L :
           IF stdin[e].copy THEN at[e + 1] = at[e] + 2 /\ keys[at[e]] = First
                            ELSE Run(stdin[e].keys, at[e], at[e + 1])
  BY DEF Tiling
<1>4. PICK bt : bt = [e \in 1..(L + 2) |-> IF e = L + 2 THEN v ELSE at[e]]
  OBVIOUS
<1>5. /\ \A e \in 1..(L + 1) : bt[e] = at[e]
      /\ bt[L + 2] = v
  <2>1. \A e \in 1..(L + 1) : e \in 1..(L + 2) /\ e # L + 2
    BY <1>1
  <2>2. L + 2 \in 1..(L + 2)
    BY <1>1
  <2>. QED BY <1>4, <2>1, <2>2
<1>6. bt \in [1..(L + 2) -> 1..(n + 1)]
  <2>1. \A e \in 1..(L + 2) : e = L + 2 \/ e \in 1..(L + 1)
    BY <1>1
  <2>2. \A e \in 1..(L + 1) : at[e] \in 1..(n + 1)
    <3>1. 1..(Len(keys) + 1) \subseteq 1..(n + 1)
      BY <1>2
    <3>. QED BY <1>3, <3>1
  <2>. QED BY <1>4, <2>1, <2>2
<1>7. ASSUME NEW e \in 1..(L + 1)
      PROVE  IF stdin'[e].copy THEN bt[e + 1] = bt[e] + 2 /\ keys'[bt[e]] = First
                               ELSE Run(stdin'[e].keys, bt[e], bt[e + 1])
  <2>1. CASE e = L + 1
    <3>1. e + 1 = L + 2 /\ L + 1 \in 1..(L + 1)
      BY <1>1, <2>1
    <3>2. bt[e] = at[L + 1] /\ bt[e + 1] = v /\ stdin'[e] = ev
      BY <1>1, <1>5, <2>1, <3>1
    <3>3. CASE ev.copy
      <4>1. v = at[L + 1] + 2 /\ keys'[at[L + 1]] = First
        BY <3>3
      <4>. QED BY ONLY <3>2, <3>3, <4>1
    <3>4. CASE ~ev.copy
      <4>1. Run(ev.keys, at[L + 1], v)
        BY <3>4
      <4>. QED BY ONLY <3>2, <3>4, <4>1
    <3>. QED BY <3>3, <3>4
  <2>2. CASE e # L + 1
    <3>0. L \in Nat
      BY <1>1
    <3>1. e \in 1..L /\ e + 1 \in 1..(L + 1)
      BY <2>2, <3>0
    <3>2. bt[e] = at[e] /\ bt[e + 1] = at[e + 1] /\ stdin'[e] = stdin[e]
      BY <1>1, <1>5, <3>1
    <3>3. CASE stdin[e].copy
      <4>1. at[e + 1] = at[e] + 2 /\ keys[at[e]] = First
        BY <1>3, <3>1, <3>3
      <4>2. at[e] \in 1..Len(keys)
        <5>1. at[e] \in 1..(Len(keys) + 1) /\ at[e + 1] \in 1..(Len(keys) + 1)
          BY <1>3, <3>1
        <5>. QED BY <1>2, <4>1, <5>1
      <4>. QED BY <3>2, <3>3, <4>1, <4>2
    <3>4. CASE ~stdin[e].copy
      BY <1>3, <3>1, <3>2, <3>4
    <3>. QED BY <3>3, <3>4
  <2>. QED BY <2>1, <2>2
<1>8. 1 \in 1..(L + 1) /\ (L + 1) + 1 = L + 2
  BY <1>1
<1>9. Tiling(bt)'
  BY <1>1, <1>5, <1>6, <1>7, <1>8 DEF Tiling
<1>. QED BY <1>5, <1>8, <1>9

\* No event more.
LEMMA TilingStays ==
  ASSUME KeyInv, NEW at, Tiling(at), UNCHANGED stdin, NEW n \in Nat, Len(keys') = n,
         Len(keys) <= n, \A i \in 1..Len(keys) : keys'[i] = keys[i],
         thread' = "on" => at[Len(stdin) + 1] = IF prefix' THEN n ELSE n + 1
  PROVE  Tiling(at)'
<1>1. Len(keys) \in Nat
  BY LenProperties DEF KeyInv
<1>2. /\ at \in [1..(Len(stdin) + 1) -> 1..(Len(keys) + 1)]
      /\ \A e \in 1..Len(stdin) :
           IF stdin[e].copy THEN at[e + 1] = at[e] + 2 /\ keys[at[e]] = First
                            ELSE Run(stdin[e].keys, at[e], at[e + 1])
  BY DEF Tiling
<1>3. at \in [1..(Len(stdin) + 1) -> 1..(n + 1)]
  <2>1. 1..(Len(keys) + 1) \subseteq 1..(n + 1)
    BY <1>1
  <2>. QED BY <1>2, <2>1
<1>4. ASSUME NEW e \in 1..Len(stdin), stdin[e].copy PROVE keys'[at[e]] = First
  <2>1. at[e + 1] = at[e] + 2 /\ keys[at[e]] = First
    BY <1>2, <1>4
  <2>2. at[e] \in 1..(Len(keys) + 1) /\ at[e + 1] \in 1..(Len(keys) + 1)
    <3>1. e \in 1..(Len(stdin) + 1) /\ e + 1 \in 1..(Len(stdin) + 1)
      OBVIOUS
    <3>. QED BY <1>2, <3>1
  <2>3. at[e] \in 1..Len(keys)
    BY <1>1, <2>1, <2>2
  <2>. QED BY <2>1, <2>3
<1>. QED BY <1>2, <1>3, <1>4 DEF Tiling

LEMMA TypeLocal ==
  ASSUME FlowInv, LocalInv, NEW k \in Key, Type(k)
  PROVE  LocalInv'
<1>. SUFFICES ASSUME ~failed', ~again' PROVE Travels(FreeKeys)' /\ (loop' = "select" => WaitInv')
  BY DEF LocalInv
<1>1. /\ thread = "on" /\ keys' = Append(keys, k) /\ loop' = loop
      /\ stdin' = stdin \o Events(Match(k))
      /\ prefix' = (Match(k).does = "forward" /\ k = First)
      /\ thread' = IF Match(k).does = "detach" THEN "detached" ELSE "on"
      /\ UNCHANGED <<pending, fetch, copy, failed, again, toPty, writing, sent>>
  BY DEF Type, copying, uplink
<1>2. PICK n, L : n = Len(keys) /\ L = Len(stdin)
  OBVIOUS
<1>3. /\ KeyInv /\ Queued(Nat) /\ n \in Nat /\ L \in Nat /\ Len(keys') = n + 1
      /\ keys'[n + 1] = k /\ (\A i \in 1..n : keys'[i] = keys[i]) /\ FreeKeys \subseteq FreeKeys'
      /\ (prefix => n \in 1..n /\ keys[n] = First)
  <2>1. KeyInv /\ Queued(Nat) /\ L \in Nat
    BY <1>2, QueuedNumbers, LenProperties DEF FlowInv, Queued
  <2>2. prefix => n # 0 /\ keys[n] = First
    BY <1>2, <2>1 DEF KeyInv
  <2>3. /\ n \in Nat /\ Len(keys') = n + 1 /\ keys'[n + 1] = k
        /\ (\A i \in 1..n : keys'[i] = keys[i]) /\ FreeKeys \subseteq FreeKeys'
    BY <1>1, <1>2, <2>1, FreeGrows
  <2>. QED BY <2>1, <2>2, <2>3
<1>4. Travels(FreeKeys) /\ (loop = "select" => WaitInv)
  BY <1>1 DEF LocalInv
<1>5. Travels(FreeKeys)'
  <2>1. PICK T : T = FreeKeys'
    OBVIOUS
  <2>2. Travels(T)
    BY <1>3, <1>4, <2>1, TravelsGrows
  <2>. QED BY <1>1, <2>1, <2>2 DEF Travels
<1>6. ASSUME loop' = "select" PROVE WaitInv'
  <2>1. PICK at : Tiling(at) /\ Handled(at[1])
    BY <1>1, <1>4, <1>6 DEF WaitInv
  <2>2. at[1] \in 1..(n + 1) /\ at[L + 1] \in 1..(n + 1)
        /\ at[L + 1] = IF prefix THEN n ELSE n + 1
    <3>1. at \in [1..(L + 1) -> 1..(n + 1)] /\ at[L + 1] = IF prefix THEN n ELSE n + 1
      BY <1>1, <1>2, <2>1 DEF Tiling
    <3>2. 1 \in 1..(L + 1) /\ L + 1 \in 1..(L + 1)
      BY <1>3
    <3>. QED BY <3>1, <3>2
  <2>3. PICK b \in 1..(n + 1) : b = at[1]
    BY <2>2
  <2>4. Handled(b)'
    BY <1>1, <1>2, <1>3, <2>1, <2>3, HandledStays
  <2>. SUFFICES \E bt : Tiling(bt)' /\ bt[1] = at[1]
    <3>1. PICK bt : Tiling(bt)' /\ bt[1] = b
      BY <2>3
    <3>2. Handled(bt[1])'
      BY <2>4, <3>1
    <3>. QED BY <3>1, <3>2 DEF WaitInv
  <2>5. CASE prefix /\ k = "q"
    <3>1. Match(k) = [does |-> "detach", out |-> << >>]
      BY <2>5 DEF Match
    <3>2. Match(k).does = "detach" /\ Match(k).out = << >>
      BY <3>1
    <3>3. Events(Match(k)) = << >> /\ thread' = "detached"
      BY <1>1, <3>2 DEF Events
    <3>4. stdin' = stdin
      BY <1>1, <1>3, <3>3, ConcatEmptySeq DEF Queued
    <3>5. n + 1 \in Nat /\ n <= n + 1
      BY <1>3
    <3>6. Tiling(at)'
      BY <1>2, <1>3, <2>1, <3>3, <3>4, <3>5, TilingStays
    <3>. QED BY <3>6
  <2>6. CASE prefix /\ k = "y"
    <3>1. Match(k) = [does |-> "copy", out |-> << >>]
      BY <2>6 DEF Match
    <3>2. Match(k).does = "copy"
      BY <3>1
    <3>3. Events(Match(k)) = <<CopyEvent>> /\ ~prefix'
      BY <1>1, <3>2 DEF Events
    <3>4. PICK ev \in [copy : BOOLEAN, keys : Seq(Nat)] : ev = CopyEvent
      BY EmptySeq DEF CopyEvent
    <3>5. stdin' = Append(stdin, ev) /\ ev.copy
      BY <1>1, <1>3, <3>3, <3>4, AppendIsConcat DEF Queued, CopyEvent
    <3>6. n + 1 \in Nat /\ n <= n + 1 /\ n + 2 \in 1..((n + 1) + 1) /\ n + 2 = (n + 1) + 1
      BY <1>3
    <3>7. n + 2 = at[L + 1] + 2 /\ keys'[at[L + 1]] = First
      BY <1>3, <2>2, <2>6
    <3>8. PICK m, v : m = n + 1 /\ v = n + 2
      OBVIOUS
    <3>9. /\ Len(keys') = m /\ m \in Nat /\ Len(keys) <= m /\ v \in 1..(m + 1) /\ v = m + 1
          /\ v = at[L + 1] + 2
      BY <1>2, <1>3, <3>6, <3>7, <3>8
    <3>. QED BY <1>2, <1>3, <2>1, <3>3, <3>5, <3>7, <3>9, TilingGrows
  <2>7. CASE ~(prefix /\ k \in {"q", "y"})
    <3>. DEFINE before == IF prefix THEN <<n>> ELSE << >>
                after  == IF k = First THEN << >> ELSE <<n + 1>>
    <3>1. Match(k) = [does |-> "forward", out |-> before \o after]
      BY <1>2, <2>7 DEF Match
    <3>14. Match(k).does = "forward"
      BY <3>1
    <3>2. (prefix' <=> k = First) /\ Match(k).does = "forward"
      BY ONLY <1>1, <3>14
    <3>3. Run(before, at[L + 1], n + 1)
      BY <1>3, <2>2 DEF Run
    <3>4. PICK v : v = IF k = First THEN n + 1 ELSE n + 2
      OBVIOUS
    <3>5. Run(after, n + 1, v)
      BY <1>3, <3>4 DEF Run
    <3>. HIDE DEF before, after
    <3>6. PICK out : out = before \o after
      OBVIOUS
    <3>7. Run(out, at[L + 1], v)
      BY <3>3, <3>5, <3>6, RunConcat
    <3>8. out \in Seq(Nat) /\ (out = << >> => v = at[L + 1])
      <4>1. out \in Seq(Nat) /\ Len(out) = v - at[L + 1] /\ v \in Nat /\ at[L + 1] \in Nat
        BY <3>7 DEF Run
      <4>2. out = << >> => Len(out) = 0
        OBVIOUS
      <4>. QED BY <4>1, <4>2
    <3>9. Events(Match(k)) = IF out = << >> THEN << >> ELSE <<Bytes(out)>>
      BY <3>1, <3>6 DEF Events
    <3>10. PICK m : m = n + 1
      OBVIOUS
    <3>11. /\ Len(keys') = m /\ m \in Nat /\ Len(keys) <= m /\ v \in 1..(m + 1)
           /\ v = IF prefix' THEN m ELSE m + 1
      <4>1. prefix' \in BOOLEAN
        BY <1>1
      <4>2. v = IF prefix' THEN n + 1 ELSE n + 2
        BY <3>2, <3>4, <4>1
      <4>3. (n + 1) + 1 = n + 2 /\ n + 1 \in 1..(n + 2) /\ n + 2 \in 1..(n + 2) /\ n <= n + 1
        BY <1>3
      <4>. QED BY <1>2, <1>3, <3>4, <3>10, <4>2, <4>3
    <3>12. CASE out = << >>
      <4>1. stdin' = stdin
        BY <1>1, <1>3, <3>9, <3>12, ConcatEmptySeq DEF Queued
      <4>2. at[Len(stdin) + 1] = IF prefix' THEN m ELSE m + 1
        BY <1>2, <3>8, <3>11, <3>12
      <4>3. Tiling(at)'
        BY <1>2, <1>3, <2>1, <3>11, <4>1, <4>2, TilingStays
      <4>. QED BY <4>3
    <3>13. CASE out # << >>
      <4>1. Bytes(out) \in [copy : BOOLEAN, keys : Seq(Nat)] /\ Bytes(out).keys = out
            /\ ~Bytes(out).copy
        BY <3>8 DEF Bytes
      <4>2. PICK ev \in [copy : BOOLEAN, keys : Seq(Nat)] :
              ev = Bytes(out) /\ ev.keys = out /\ ~ev.copy
        BY <4>1
      <4>3. stdin' = Append(stdin, ev)
        BY <1>1, <1>3, <3>9, <3>13, <4>2, AppendIsConcat DEF Queued
      <4>4. IF ev.copy THEN v = at[L + 1] + 2 /\ keys'[at[L + 1]] = First
                       ELSE Run(ev.keys, at[L + 1], v)
        BY <3>7, <4>2
      <4>5. /\ m \in Nat /\ Len(keys') = m /\ Len(keys) <= m /\ v \in 1..(m + 1)
            /\ thread' = "on" => v = IF prefix' THEN m ELSE m + 1
            /\ \A i \in 1..Len(keys) : keys'[i] = keys[i]
        BY <1>2, <1>3, <3>11
      <4>. QED BY ONLY <1>2, <1>3, <2>1, <4>3, <4>4, <4>5, TilingGrows
    <3>. QED BY <3>12, <3>13
  <2>. QED BY <2>5, <2>6, <2>7
<1>. QED BY <1>5, <1>6

\* Nothing is said of the keys anew when none is typed.
LEMMA SameKeys ==
  ASSUME UNCHANGED keys
  PROVE  /\ YEnds' = YEnds /\ FreeKeys' = FreeKeys
         /\ \A j, i : (Left(j, i)' <=> Left(j, i)) /\ (PromptOpen(j, i)' <=> PromptOpen(j, i))
  BY DEF YEnds, FreeKeys, Positions, Free, Left, PromptOpen

\* At the end of input the prefix held back is the last key, or it is lost.
LEMMA EofLocal ==
  ASSUME FlowInv, LocalInv, TypeEof \/ TypeFails
  PROVE  LocalInv'
<1>. SUFFICES ASSUME ~failed', ~again' PROVE Travels(FreeKeys)' /\ (loop' = "select" => WaitInv')
  BY DEF LocalInv
<1>1. /\ thread = "on" /\ thread' = "eof" /\ keys' = keys /\ loop' = loop
      /\ \/ prefix /\ stdin' = Append(stdin, Bytes(<<Len(keys)>>))
         \/ stdin' = stdin
      /\ UNCHANGED <<pending, fetch, copy, failed, again, toPty, writing, sent>>
  BY DEF TypeEof, TypeFails, copying, uplink
<1>2. PICK n, L : n = Len(keys) /\ L = Len(stdin)
  OBVIOUS
<1>3. KeyInv /\ Queued(Nat) /\ n \in Nat /\ L \in Nat
  BY <1>1, <1>2, QueuedNumbers, LenProperties DEF FlowInv, KeyInv, Queued
<1>4. Travels(FreeKeys) /\ (loop = "select" => WaitInv)
  BY <1>1 DEF LocalInv
<1>5. /\ YEnds' = YEnds /\ FreeKeys' = FreeKeys
      /\ \A j, i : (Left(j, i)' <=> Left(j, i)) /\ (PromptOpen(j, i)' <=> PromptOpen(j, i))
  BY <1>1, SameKeys
<1>6. Travels(FreeKeys)'
  BY <1>1, <1>4, <1>5 DEF Travels
<1>7. ASSUME loop' = "select" PROVE WaitInv'
  <2>1. PICK at : Tiling(at) /\ Handled(at[1])
    BY <1>1, <1>4, <1>7 DEF WaitInv
  <2>2. Handled(at[1])'
    BY <1>1, <1>5, <2>1 DEF Handled, Others, Follows, Run, Holds
  <2>3. at[L + 1] \in 1..(n + 1) /\ at[L + 1] = IF prefix THEN n ELSE n + 1
    <3>1. at \in [1..(L + 1) -> 1..(n + 1)] /\ at[L + 1] = IF prefix THEN n ELSE n + 1
      BY <1>1, <1>2, <2>1 DEF Tiling
    <3>2. L + 1 \in 1..(L + 1)
      BY <1>3
    <3>. QED BY <3>1, <3>2
  <2>4. CASE stdin' = stdin
    <3>1. Tiling(at)'
      BY <1>1, <1>2, <1>3, <2>1, <2>4, TilingStays
    <3>. QED BY <2>2, <3>1 DEF WaitInv
  <2>5. CASE prefix /\ stdin' = Append(stdin, Bytes(<<Len(keys)>>))
    <3>1. Bytes(<<n>>) \in [copy : BOOLEAN, keys : Seq(Nat)] /\ Bytes(<<n>>).keys = <<n>>
          /\ ~Bytes(<<n>>).copy
      BY <1>3 DEF Bytes
    <3>2. PICK ev \in [copy : BOOLEAN, keys : Seq(Nat)] :
            ev = Bytes(<<n>>) /\ ev.keys = <<n>> /\ ~ev.copy
      BY <3>1
    <3>3. PICK v : v = n + 1
      OBVIOUS
    <3>8. ev.keys \in Seq(Nat) /\ Len(ev.keys) = 1 /\ ev.keys[1] = n
      BY <3>2
    <3>9. at[L + 1] = n /\ v - n = 1 /\ v \in Nat /\ v \in 1..(n + 1) /\ (n + 1) - 1 = n
      BY <1>3, <2>3, <2>5, <3>3
    <3>10. \A i \in 1..1 : i = 1
      OBVIOUS
    <3>4. Run(ev.keys, at[L + 1], v) /\ v \in 1..(n + 1)
      BY <1>3, <3>8, <3>9, <3>10 DEF Run
    <3>5. stdin' = Append(stdin, ev) /\ thread' # "on" /\ Len(keys') = n /\ Len(keys) <= n
          /\ \A i \in 1..Len(keys) : keys'[i] = keys[i]
      BY <1>1, <1>2, <1>3, <2>5, <3>2
    <3>6. PICK bt : Tiling(bt)' /\ bt[1] = at[1]
      BY <1>2, <1>3, <2>1, <3>2, <3>4, <3>5, TilingGrows
    <3>7. Handled(bt[1])'
      BY <2>2, <3>6
    <3>. QED BY <3>6, <3>7 DEF WaitInv
  <2>. QED BY <1>1, <2>4, <2>5
<1>. QED BY <1>6, <1>7

\* The first event is taken: what follows it is what waits, and no copy chord
\* ends within it, unless it is one.
LEMMA TilingTail ==
  ASSUME FlowInv, NEW at, Tiling(at), stdin # << >>, stdin' = Tail(stdin),
         UNCHANGED <<keys, thread, prefix>>
  PROVE  /\ at[1] \in Nat \ {0} /\ at[2] \in Nat /\ at[1] <= at[2]
         /\ IF Head(stdin).copy THEN at[2] = at[1] + 2 /\ keys[at[1]] = First
                                ELSE Run(Head(stdin).keys, at[1], at[2])
         /\ \A j \in YEnds : j \in Nat /\ ~(~Head(stdin).copy /\ at[1] <= j /\ j < at[2])
         /\ \E bt : Tiling(bt)' /\ bt[1] = at[2]
<1>1. PICK L : L = Len(stdin)
  OBVIOUS
<1>2. /\ L \in Nat \ {0} /\ Len(stdin') = L - 1 /\ Head(stdin) = stdin[1]
      /\ \A e \in 1..(L - 1) : stdin'[e] = stdin[e + 1]
  BY <1>1, QueuedNumbers, EmptySeq, HeadTailProperties DEF Queued
<1>3. /\ at \in [1..(L + 1) -> 1..(Len(keys) + 1)] /\ Len(keys) \in Nat
      /\ \A e \in 1..L :
           IF stdin[e].copy THEN at[e + 1] = at[e] + 2 /\ keys[at[e]] = First
                            ELSE Run(stdin[e].keys, at[e], at[e + 1])
      /\ thread = "on" => at[L + 1] = IF prefix THEN Len(keys) ELSE Len(keys) + 1
  BY <1>1, LenProperties DEF Tiling, FlowInv, KeyInv
<1>4. /\ at[1] \in 1..(Len(keys) + 1) /\ at[2] \in 1..(Len(keys) + 1)
      /\ at[1] \in Nat \ {0} /\ at[2] \in Nat
  <2>1. 1 \in 1..(L + 1) /\ 2 \in 1..(L + 1)
    BY <1>2
  <2>2. at[1] \in 1..(Len(keys) + 1) /\ at[2] \in 1..(Len(keys) + 1)
    BY <1>3, <2>1
  <2>. QED BY <1>3, <2>2
<1>5. IF Head(stdin).copy THEN at[2] = at[1] + 2 /\ keys[at[1]] = First
                          ELSE Run(Head(stdin).keys, at[1], at[2])
  <2>1. 1 \in 1..L /\ 1 + 1 = 2
    BY <1>2
  <2>. QED BY <1>2, <1>3, <2>1
<1>6. at[1] <= at[2]
  <2>1. CASE Head(stdin).copy
    BY <1>4, <1>5, <2>1
  <2>2. CASE ~Head(stdin).copy
    BY <1>5, <2>2, RunHas
  <2>. QED BY <2>1, <2>2
<1>7. ASSUME NEW j \in YEnds, ~Head(stdin).copy, at[1] <= j, j < at[2] PROVE FALSE
  <2>1. j \in Nat /\ j \in 2..Len(keys) /\ keys[j] = "y" /\ keys[j - 1] = First
    BY <1>3 DEF YEnds
  <2>2. j \in ToSet(Head(stdin).keys)
    BY <1>5, <1>7, <2>1, RunHas
  <2>3. Head(stdin).keys \in Seq(Sendable)
    BY HeadOfStdin DEF FlowInv
  <2>4. j \in Sendable
    BY <2>2, <2>3, ElementsOf
  <2>5. j \in Chords
    <3>1. Chords = ChordsOf(keys, {"q", "y"}) /\ keys \in Seq(Key)
      BY ChordIs DEF Chords, FlowInv, KeyInv
    <3>. QED BY <2>1, <3>1, ChordFacts
  <2>. QED BY <2>4, <2>5 DEF Sendable
<1>8. PICK bt : bt = [e \in 1..L |-> at[e + 1]]
  OBVIOUS
<1>9. bt[1] = at[2] /\ bt \in [1..L -> 1..(Len(keys) + 1)] /\ \A e \in 1..L : bt[e] = at[e + 1]
  <2>1. 1 \in 1..L /\ 1 + 1 = 2 /\ \A e \in 1..L : e + 1 \in 1..(L + 1)
    BY <1>2
  <2>. QED BY <1>3, <1>8, <2>1
<1>10. ASSUME NEW e \in 1..(L - 1)
       PROVE  IF stdin'[e].copy THEN bt[e + 1] = bt[e] + 2 /\ keys'[bt[e]] = First
                                ELSE Run(stdin'[e].keys, bt[e], bt[e + 1])
  <2>1. e \in 1..L /\ e + 1 \in 1..L
    BY <1>2
  <2>2. bt[e] = at[e + 1] /\ bt[e + 1] = at[(e + 1) + 1] /\ stdin'[e] = stdin[e + 1]
    BY <1>2, <1>9, <2>1
  <2>. QED BY <1>3, <2>1, <2>2
<1>11. Len(stdin') + 1 = L /\ L \in 1..L
  BY <1>2
<1>12. Tiling(bt)'
  BY <1>2, <1>3, <1>9, <1>10, <1>11 DEF Tiling
<1>13. \A j \in YEnds : j \in Nat
  BY <1>3 DEF YEnds
<1>. QED BY <1>4, <1>5, <1>6, <1>7, <1>9, <1>12, <1>13

\* When keys of no copy chord are handled, what was left stays left.
LEMMA OthersLater ==
  ASSUME NEW b \in Nat, NEW c \in Nat, b <= c, YEnds \subseteq Nat,
         \A j \in YEnds : ~(b <= j /\ j < c)
  PROVE  /\ \A g : Others(g, b) => Others(g, c)
         /\ (\A j \in YEnds : j < b => Left(j, b)) => \A j \in YEnds : j < c => Left(j, c)
<1>1. \A j \in YEnds : j \in Nat /\ (j < c => j < b)
  OBVIOUS
<1>2. \A j \in YEnds : Left(j, b) => Left(j, c)
  BY <1>1, LeftLater
<1>. QED BY <1>1, <1>2 DEF Others

\* What a step of the loop, of write_pty or of the daemon leaves waiting.
LEMMA LoopWaits ==
  ASSUME FlowInv, RoomInv, LocalInv, Select \/ Write \/ OnTerm \/ Daemon \/ UNCHANGED vars,
         UNCHANGED <<keys, thread, prefix>>, ~failed', ~again', loop' = "select"
  PROVE  WaitInv'
<1>0. /\ ~failed /\ ~again /\ loop = "select"
      /\ (OnCopy => copy = "off" /\ fetch = "none")
  <2>1. CASE OnCopy
    <3>1. loop = "select" /\ failed' = failed /\ again' = (again \/ copy # "off" \/ fetch # "none")
      BY <2>1 DEF OnCopy, Event
    <3>2. ~(again \/ copy # "off" \/ fetch # "none")
      BY <3>1
    <3>. QED BY <3>1, <3>2
  <2>2. CASE ~OnCopy /\ Select
    <3>1. ~FetchFailed /\ ~OnEof
      BY DEF FetchFailed, OnEof, Quit, Exits
    <3>. QED BY <2>2, <3>1 DEF Select, FetchDone, OnBytesPending, OnBytesCopy, OnBytesForward,
           OnStdinOver, OnOutput, copying, Event
  <2>3. CASE ~OnCopy /\ (Write \/ OnTerm \/ Daemon \/ UNCHANGED vars)
    <3>1. UNCHANGED <<failed, again>> /\ (loop' = "select" => loop = "select")
      BY <2>3 DEF Write, WriteTake, WritePut, WriteFails, Exits, Flushed, OnTerm, Quit, Daemon,
         DaemonWrites, DaemonReads, DaemonCloses, DaemonAnswers, vars, copying
    <3>. QED BY <2>3, <3>1
  <2>. QED BY <2>1, <2>2, <2>3
<1>1. PICK at : Tiling(at) /\ Handled(at[1])
  BY <1>0 DEF LocalInv, WaitInv
<1>2. PICK b : b = at[1]
  OBVIOUS
<1>3. /\ copy # "off" => fetch = "none" /\ \E g \in Nat : g < b /\ Others(g, b) /\ Follows(g, copy, b)
      /\ fetch # "none" => \E g \in Nat, x \in 1..b :
                             g < x /\ Others(g, b) /\ ~PromptOpen(g, x) /\ Run(pending, x, b)
      /\ fetch = "none" => pending = << >>
      /\ ~Holds => \A j \in YEnds : j < b => Left(j, b)
  BY <1>1, <1>2 DEF Handled
<1>4. /\ YEnds' = YEnds
      /\ \A j, i : (Left(j, i)' <=> Left(j, i)) /\ (PromptOpen(j, i)' <=> PromptOpen(j, i))
      /\ \A g, i : Others(g, i)' <=> Others(g, i)
      /\ \A g, mode, i : Follows(g, mode, i) <=> /\ mode = "on" => ~PromptOpen(g, i)'
                                                 /\ mode = "off" => Left(g, i)'
  <2>1. /\ YEnds' = YEnds
        /\ \A j, i : (Left(j, i)' <=> Left(j, i)) /\ (PromptOpen(j, i)' <=> PromptOpen(j, i))
    BY SameKeys
  <2>. QED BY <2>1 DEF Others, Follows
<1>5. b \in Nat \ {0} /\ YEnds \subseteq Nat
  <2>1. Len(keys) \in Nat /\ Len(stdin) \in Nat
    BY QueuedNumbers, LenProperties DEF FlowInv, KeyInv, Queued
  <2>2. 1 \in 1..(Len(stdin) + 1)
    BY <2>1
  <2>3. b \in 1..(Len(keys) + 1)
    BY <1>1, <1>2, <2>2 DEF Tiling
  <2>. QED BY <2>1, <2>3 DEF YEnds
\* Nothing is taken from stdin.
<1>6. ASSUME UNCHANGED stdin, Handled(b)' PROVE WaitInv'
  <2>1. Tiling(at)'
    BY <1>1, <1>6 DEF Tiling
  <2>. QED BY <1>2, <1>6, <2>1 DEF WaitInv
\* The first event is taken.
<1>7. ASSUME stdin # << >>, stdin' = Tail(stdin)
      PROVE  \E c \in Nat :
               /\ b <= c
               /\ IF Head(stdin).copy THEN c = b + 2 /\ keys[b] = First
                                      ELSE Run(Head(stdin).keys, b, c)
               /\ ~Head(stdin).copy => \A j \in YEnds : ~(b <= j /\ j < c)
               /\ Handled(c)' => WaitInv'
  <2>1. /\ at[2] \in Nat /\ b <= at[2]
        /\ IF Head(stdin).copy THEN at[2] = b + 2 /\ keys[b] = First
                               ELSE Run(Head(stdin).keys, b, at[2])
        /\ \A j \in YEnds : j \in Nat /\ ~(~Head(stdin).copy /\ b <= j /\ j < at[2])
        /\ \E bt : Tiling(bt)' /\ bt[1] = at[2]
    BY <1>1, <1>2, <1>7, TilingTail
  <2>2. PICK bt : Tiling(bt)' /\ bt[1] = at[2]
    BY <2>1
  <2>3. PICK c \in Nat : c = at[2]
    BY <2>1
  <2>4. Handled(c)' => WaitInv'
    <3>1. bt[1] = c
      BY <2>2, <2>3
    <3>. QED BY <2>2, <3>1 DEF WaitInv
  <2>. QED BY <2>1, <2>3, <2>4
<1>8. CASE FetchFailed
  BY <1>8 DEF FetchFailed
<1>9. CASE FetchDone
  <2>1. fetch = "ok" /\ fetch' = "none" /\ copy = "off" /\ pending' = << >> /\ stdin' = stdin
        /\ copy' = CopyFeed("on", pending)
    <3>1. fetch = "ok" /\ fetch' = "none" /\ pending' = << >> /\ stdin' = stdin
      BY <1>9 DEF FetchDone
    <3>2. copy = "off"
      BY <1>3, <3>1
    <3>3. ~stdinOver
      BY <1>9 DEF FetchDone
    <3>4. CopyFeed("on", pending) = "off" => copy' = copy
      BY <1>9 DEF FetchDone
    <3>5. CopyFeed("on", pending) # "off" => copy' = CopyFeed("on", pending)
      BY <1>9, <3>3 DEF FetchDone
    <3>. QED BY <3>1, <3>2, <3>4, <3>5
  <2>2. PICK g \in Nat, x \in 1..b :
          g < x /\ Others(g, b) /\ ~PromptOpen(g, x) /\ Run(pending, x, b)
    BY <1>3, <2>1
  <2>3. PICK mode \in Mode : mode = CopyFeed("on", pending) /\ Follows(g, mode, b)
    <3>1. x \in Nat /\ "on" \in Mode /\ Follows(g, "on", x)
      BY <2>2 DEF Mode, Follows
    <3>2. Follows(g, CopyFeed("on", pending), b)
      BY <1>5, <2>2, <3>1, RunOfKeys
    <3>3. pending \in Seq(Nat)
      BY <2>2 DEF Run
    <3>4. CopyFeed("on", pending) \in Mode
      BY <3>1, <3>3, CopyFeedType
    <3>. QED BY <3>2, <3>4
  <2>4. g < b
    BY <1>5, <2>2
  <2>5. mode = "off" => \A j \in YEnds : j < b => Left(j, b)
    BY <2>2, <2>3 DEF Others, Follows
  <2>7. Others(g, b)' /\ Follows(g, copy, b)'
    <3>1. (copy' = "on" => ~PromptOpen(g, b)') /\ (copy' = "off" => Left(g, b)')
      BY <1>4, <2>1, <2>3
    <3>. QED BY <1>4, <2>2, <3>1 DEF Follows
  <2>8. ~Holds' => \A j \in YEnds' : j < b => Left(j, b)'
    BY <1>4, <2>1, <2>3, <2>5 DEF Holds
  <2>6. Handled(b)'
    BY <2>1, <2>4, <2>7, <2>8 DEF Handled
  <2>. QED BY <1>6, <2>1, <2>6
<1>10. CASE OnCopy
  <2>1. /\ stdin # << >> /\ stdin' = Tail(stdin) /\ Head(stdin).copy /\ fetch' = "running"
        /\ copy = "off" /\ copy' = "off" /\ fetch = "none" /\ pending' = pending
    BY <1>0, <1>10 DEF OnCopy, Event
  <2>2. PICK c \in Nat : b <= c /\ c = b + 2 /\ keys[b] = First /\ (Handled(c)' => WaitInv')
    BY <1>7, <2>1
  <2>3. pending' = << >> /\ \A j \in YEnds : j < b => Left(j, b)
    BY <1>3, <2>1 DEF Holds
  <2>4. PICK g \in Nat : g = b + 1
    BY <1>5
  <2>5. g < c /\ c \in 1..c
    BY <1>5, <2>2, <2>4
  <2>6. Run(pending, c, c)'
    <3>1. pending' \in Seq(Nat) /\ Len(pending') = 0
      BY <2>3, EmptySeq
    <3>. QED BY <2>2, <3>1 DEF Run
  <2>7. ~PromptOpen(g, c)
    <3>1. (g + 1)..(c - 1) = {}
      BY <1>5, <2>2, <2>4
    <3>. QED BY <3>1 DEF PromptOpen
  <2>8. Others(g, c)
    <3>. SUFFICES ASSUME NEW j \in YEnds, j < c, j # g PROVE Left(j, c)
      BY DEF Others
    <3>1. j \in Nat /\ keys[j] = "y"
      BY <1>5 DEF YEnds
    <3>2. j # b
      BY <2>2, <3>1 DEF First
    <3>3. j < b
      BY <1>5, <2>2, <2>4, <3>1, <3>2
    <3>4. Left(j, b)
      BY <2>3, <3>3
    <3>. QED BY <1>5, <2>2, <3>1, <3>4, LeftLater
  <2>9. Others(g, c)' /\ ~PromptOpen(g, c)'
    BY <1>4, <2>7, <2>8
  <2>10. Handled(c)'
    BY <2>1, <2>5, <2>6, <2>9 DEF Handled, Holds
  <2>. QED BY <2>2, <2>10
<1>11. CASE OnBytesPending
  <2>1. /\ stdin # << >> /\ stdin' = Tail(stdin) /\ ~Head(stdin).copy /\ fetch # "none"
        /\ copy = "off" /\ pending' = pending \o Head(stdin).keys /\ UNCHANGED <<fetch, copy>>
    BY <1>11 DEF OnBytesPending, Event
  <2>2. PICK c \in Nat : /\ b <= c /\ Run(Head(stdin).keys, b, c)
                         /\ \A j \in YEnds : ~(b <= j /\ j < c)
                         /\ Handled(c)' => WaitInv'
    BY <1>7, <2>1
  <2>3. PICK g \in Nat, x \in 1..b :
          g < x /\ Others(g, b) /\ ~PromptOpen(g, x) /\ Run(pending, x, b)
    BY <1>3, <2>1
  <2>4. Others(g, c)
    BY <1>5, <2>2, <2>3, OthersLater
  <2>5. Run(pending \o Head(stdin).keys, x, c)
    BY <2>2, <2>3, RunConcat
  <2>6. x \in 1..c /\ Run(pending, x, c)'
    BY <1>5, <2>1, <2>2, <2>5 DEF Run
  <2>7. Others(g, c)' /\ ~PromptOpen(g, x)'
    BY <1>4, <2>3, <2>4
  <2>8. Handled(c)'
    BY <2>1, <2>3, <2>6, <2>7 DEF Handled, Holds
  <2>. QED BY <2>2, <2>8
<1>12. CASE OnBytesCopy
  <2>1. /\ stdin # << >> /\ stdin' = Tail(stdin) /\ ~Head(stdin).copy /\ copy # "off"
        /\ copy' = CopyFeed(copy, Head(stdin).keys) /\ UNCHANGED <<fetch, pending>>
    BY <1>12 DEF OnBytesCopy, Event
  <2>2. PICK c \in Nat : /\ b <= c /\ Run(Head(stdin).keys, b, c)
                         /\ \A j \in YEnds : ~(b <= j /\ j < c)
                         /\ Handled(c)' => WaitInv'
    BY <1>7, <2>1
  <2>3. PICK g \in Nat : g < b /\ Others(g, b) /\ Follows(g, copy, b)
    BY <1>3, <2>1
  <2>4. fetch = "none" /\ pending = << >>
    BY <1>3, <2>1
  <2>5. PICK mode \in Mode : mode = copy' /\ Follows(g, mode, c)
    <3>1. copy \in Mode
      BY DEF RoomInv
    <3>2. Follows(g, CopyFeed(copy, Head(stdin).keys), c)
      BY <1>5, <2>2, <2>3, <3>1, RunOfKeys
    <3>3. Head(stdin).keys \in Seq(Nat)
      BY <2>2 DEF Run
    <3>4. CopyFeed(copy, Head(stdin).keys) \in Mode
      BY <3>1, <3>3, CopyFeedType
    <3>. QED BY <2>1, <3>2, <3>4
  <2>6. Others(g, c) /\ g < c
    BY <1>5, <2>2, <2>3, OthersLater
  <2>7. mode = "off" => \A j \in YEnds : j < c => Left(j, c)
    BY <2>5, <2>6 DEF Others, Follows
  <2>9. Others(g, c)' /\ Follows(g, copy, c)'
    <3>1. (copy' = "on" => ~PromptOpen(g, c)') /\ (copy' = "off" => Left(g, c)')
      BY <1>4, <2>5
    <3>. QED BY <1>4, <2>6, <3>1 DEF Follows
  <2>10. ~Holds' => \A j \in YEnds' : j < c => Left(j, c)'
    BY <1>4, <2>1, <2>5, <2>7 DEF Holds
  <2>8. Handled(c)'
    BY <2>1, <2>4, <2>6, <2>9, <2>10 DEF Handled
  <2>. QED BY <2>2, <2>8
<1>13. CASE OnBytesForward
  <2>1. /\ stdin # << >> /\ stdin' = Tail(stdin) /\ ~Head(stdin).copy /\ ~Holds
        /\ fetch = "none" /\ copy = "off" /\ UNCHANGED <<fetch, copy, pending>>
    BY <1>13 DEF OnBytesForward, Event, Forwards, Holds, copying
  <2>2. PICK c \in Nat : /\ b <= c
                         /\ \A j \in YEnds : ~(b <= j /\ j < c)
                         /\ Handled(c)' => WaitInv'
    BY <1>7, <2>1
  <2>3. \A j \in YEnds : j < c => Left(j, c)
    BY <1>3, <1>5, <2>1, <2>2, OthersLater
  <2>4. Handled(c)'
    BY <1>3, <1>4, <2>1, <2>3 DEF Handled, Holds
  <2>. QED BY <2>2, <2>4
\* The rest takes nothing from stdin and leaves copy mode and its fetch, or answers it.
<1>14. CASE OnStdinOver \/ OnOutput \/ Write \/ Daemon \/ UNCHANGED vars
  <2>1. stdin' = stdin /\ copy' = copy /\ pending' = pending
    BY <1>14 DEF OnStdinOver, OnOutput, Write, WriteTake, WritePut, WriteFails, Exits, Flushed, Daemon,
       DaemonWrites, DaemonReads, DaemonCloses, DaemonAnswers, vars, copying
  <2>2. fetch' = "none" <=> fetch = "none"
    BY <1>14 DEF OnStdinOver, OnOutput, Write, WriteTake, WritePut, WriteFails, Flushed, Daemon,
       DaemonWrites, DaemonReads, DaemonCloses, DaemonAnswers, vars, copying
  <2>4. ASSUME NEW g, Follows(g, copy, b) PROVE Follows(g, copy, b)'
    <3>1. (copy' = "on" => ~PromptOpen(g, b)') /\ (copy' = "off" => Left(g, b)')
      BY <1>4, <2>1, <2>4
    <3>. QED BY <3>1 DEF Follows
  <2>5. ASSUME copy' # "off"
        PROVE  fetch' = "none" /\ \E g \in Nat : g < b /\ Others(g, b)' /\ Follows(g, copy, b)'
    BY <1>3, <1>4, <2>1, <2>2, <2>4, <2>5
  <2>6. ASSUME fetch' # "none"
        PROVE  \E g \in Nat, x \in 1..b :
                 g < x /\ Others(g, b)' /\ ~PromptOpen(g, x)' /\ Run(pending, x, b)'
    <3>1. PICK g \in Nat, x \in 1..b :
            g < x /\ Others(g, b) /\ ~PromptOpen(g, x) /\ Run(pending, x, b)
      BY <1>3, <2>2, <2>6
    <3>2. Run(pending, x, b)'
      BY <2>1, <3>1 DEF Run
    <3>. QED BY <1>4, <3>1, <3>2
  <2>7. ~Holds' => \A j \in YEnds' : j < b => Left(j, b)'
    BY <1>3, <1>4, <2>1, <2>2 DEF Holds
  <2>8. fetch' = "none" => pending' = << >>
    BY <1>3, <2>1, <2>2
  <2>3. Handled(b)'
    BY <2>5, <2>6, <2>7, <2>8 DEF Handled
  <2>. QED BY <1>6, <2>1, <2>3
<1>15. ~OnEof /\ ~OnTerm
  BY DEF OnEof, OnTerm, Quit, Exits
<1>. QED BY <1>8, <1>9, <1>10, <1>11, <1>12, <1>13, <1>14, <1>15 DEF Select

LEMMA LoopLocal ==
  ASSUME FlowInv, RoomInv, LocalInv, Write \/ Select \/ OnTerm \/ Daemon \/ UNCHANGED vars,
         UNCHANGED <<keys, thread, prefix>>
  PROVE  LocalInv'
<1>. SUFFICES ASSUME ~failed', ~again' PROVE Travels(FreeKeys)' /\ (loop' = "select" => WaitInv')
  BY DEF LocalInv
<1>1. loop' = "select" => WaitInv'
  BY LoopWaits
<1>2. PICK S : S = FreeKeys
  OBVIOUS
<1>3. FreeKeys' = S
  BY <1>2, SameKeys
<1>4. ~failed /\ ~again
  <2>1. CASE FetchFailed
    BY <2>1 DEF FetchFailed
  <2>2. CASE OnCopy
    <3>1. failed' = failed /\ again' = (again \/ copy # "off" \/ fetch # "none")
      BY <2>2 DEF OnCopy
    <3>. QED BY <3>1
  <2>3. CASE /\ ~FetchFailed /\ ~OnCopy
             /\ Write \/ Select \/ OnTerm \/ Daemon \/ UNCHANGED vars
    <3>1. UNCHANGED <<failed, again>>
      BY <2>3 DEF Write, WriteTake, WritePut, WriteFails, Flushed, Select, FetchDone, OnBytesPending,
         OnBytesCopy, OnBytesForward, OnStdinOver, OnOutput, OnEof, OnTerm, Quit, Daemon,
         DaemonWrites, DaemonReads, DaemonCloses, DaemonAnswers, vars, copying
    <3>. QED BY <3>1
  <2>. QED BY <2>1, <2>2, <2>3
<1>5. Travels(S) /\ (loop = "select" => WaitInv)
  BY <1>2, <1>4 DEF LocalInv
<1>6. \/ WriteTake \/ WritePut \/ UNCHANGED <<toPty, writing, sent>>
      \/ toPty' = << >> /\ writing' = << >> /\ UNCHANGED sent
      \/ OnBytesForward /\ (loop' = "select" => Head(stdin).keys \in Seq(S))
  <2>1. CASE OnBytesForward
    <3>1. loop = "select" /\ stdin # << >> /\ ~Holds /\ stdin' = Tail(stdin) /\ ~Head(stdin).copy
      BY <2>1 DEF OnBytesForward, Event, Forwards, Holds
    <3>2. PICK at : Tiling(at) /\ Handled(at[1])
      BY <1>5, <3>1 DEF WaitInv
    <3>3. PICK b \in Nat, c \in Nat :
            /\ b = at[1] /\ b <= c /\ Run(Head(stdin).keys, b, c)
            /\ \A j \in YEnds : j \in Nat /\ ~(b <= j /\ j < c)
      BY <3>1, <3>2, TilingTail
    <3>4. \A j \in YEnds : j < b => Left(j, b)
      BY <3>1, <3>2, <3>3 DEF Handled
    <3>5. PICK ks : ks = Head(stdin).keys
      OBVIOUS
    <3>6. ks \in Seq(Nat) /\ ks \in Seq(Sendable)
      BY <3>1, <3>3, <3>5, HeadOfStdin DEF Run, FlowInv
    <3>7. ASSUME NEW i \in ToSet(ks) PROVE i \in S
      <4>1. i \in Sendable /\ i \in Nat
        BY <3>6, ElementsOf
      <4>2. i \in Positions
        BY <4>1 DEF Sendable
      <4>3. b <= i /\ i < c
        BY <3>3, <3>5, <4>1, RunHas
      <4>4. ASSUME NEW j \in YEnds, j < i PROVE Left(j, i)
        <5>1. j \in Nat /\ j < b
          BY <3>3, <4>1, <4>3, <4>4
        <5>2. Left(j, b)
          BY <3>4, <5>1
        <5>. QED BY <3>3, <4>1, <4>3, <5>1, <5>2, LeftLater
      <4>. QED BY <1>2, <4>2, <4>4 DEF FreeKeys, Free
    <3>. QED BY <2>1, <3>5, <3>6, <3>7, SeqWithin
  <2>2. CASE ~OnBytesForward /\ ~WriteTake /\ ~WritePut
    BY <2>2 DEF Write, WriteFails, Exits, Flushed, Select, FetchFailed, FetchDone, OnCopy,
       OnBytesPending, OnBytesCopy, OnStdinOver, OnOutput, OnEof, OnTerm, Quit, Daemon,
       DaemonWrites, DaemonReads, DaemonCloses, DaemonAnswers, vars, uplink
  <2>. QED BY <2>1, <2>2
<1>7. Travels(S)'
  BY <1>5, <1>6, TravelsOn
<1>. QED BY <1>1, <1>3, <1>7 DEF Travels

LEMMA NextLocal ==
  ASSUME FlowInv, RoomInv, LocalInv, [Next]_vars
  PROVE  LocalInv'
<1>1. CASE (\E k \in Key : Type(k)) \/ TypeEof \/ TypeFails
  BY <1>1, TypeLocal, EofLocal
<1>2. CASE Write \/ Select \/ OnTerm \/ Daemon \/ UNCHANGED vars
  <2>1. Queued(Nat)
    BY QueuedNumbers
  <2>2. UNCHANGED <<keys, thread, prefix>>
    BY <1>2, <2>1, LoopMoves DEF vars, keyboard
  <2>. QED BY <1>2, <2>2, LoopLocal
<1>. QED BY <1>1, <1>2 DEF Next

-----------------------------------------------------------------------------
(* The theorems                                                            *)

\* The invariant of the first two, on which the others rest.
LEMMA TypesKept == Spec => [](FlowInv /\ RoomInv)
<1>1. Init => FlowInv /\ RoomInv
  BY InitFlow, InitRoom
<1>2. FlowInv /\ RoomInv /\ [Next]_vars => FlowInv' /\ RoomInv'
  BY NextFlow, NextRoom
<1>. QED BY <1>1, <1>2, PTL DEF Spec

(* Every variable keeps its type, and no queue between the keyboard, the   *)
(* loop, write_pty, the socket and the terminal outgrows its capacity,     *)
(* whatever the capacities are and whatever is typed.                      *)
THEOREM TypeCorrect == Spec => []TypeOK
<1>1. FlowInv /\ RoomInv => TypeOK
  <2>. SUFFICES ASSUME FlowInv, RoomInv PROVE TypeOK
    OBVIOUS
  <2>1. Sendable \subseteq Positions
    BY DEF Sendable
  <2>2. \A i \in 1..Len(stdin) : ToSet(stdin[i].keys) \subseteq Positions
    <3>. SUFFICES ASSUME NEW i \in 1..Len(stdin) PROVE ToSet(stdin[i].keys) \subseteq Positions
      OBVIOUS
    <3>1. stdin[i] \in [copy : BOOLEAN, keys : Seq(Sendable)]
      BY ElementOfSeq DEF FlowInv, Queued
    <3>2. stdin[i].keys \in Seq(Sendable)
      BY <3>1
    <3>3. ToSet(stdin[i].keys) \subseteq Sendable
      BY <3>2, ElementsOf
    <3>. QED BY <2>1, <3>3
  <2>3. ToSet(sent \o writing \o pending) \subseteq Positions
    <3>1. PICK S : S = Sendable
      OBVIOUS
    <3>2. sent \in Seq(S) /\ writing \in Seq(S) /\ pending \in Seq(S)
      BY <3>1 DEF FlowInv, Queued
    <3>3. (sent \o writing) \o pending \in Seq(S)
      BY <3>2, ConcatProperties
    <3>4. ToSet((sent \o writing) \o pending) \subseteq S
      BY <3>3, ElementsOf
    <3>. QED BY <2>1, <3>1, <3>4
  <2>4. got \in 0..made
    BY DEF RoomInv
  <2>5. ToSet(shown) \cup lost \subseteq 1..MaxChunk
    <3>1. shown \in Seq(1..MaxChunk) /\ lost \subseteq 1..MaxChunk
      BY DEF RoomInv
    <3>2. ToSet(shown) \subseteq 1..MaxChunk
      BY <3>1, ElementsOf
    <3>. QED BY <3>1, <3>2
  <2>6. {snap, restore, frame, asked, since} \subseteq 0..MaxChunk
    BY DEF RoomInv
  <2>. QED BY <2>2, <2>3, <2>4, <2>5, <2>6 DEF TypeOK, FlowInv, KeyInv, RoomInv, Mode
<1>. QED BY <1>1, TypesKept, PTL

(* Neither byte of a detach or copy chord ever reaches the daemon, for any *)
(* keys typed, split over events and queues of any capacity, and whatever  *)
(* the fetch, copy mode, the writer and the daemon do meanwhile.           *)
THEOREM ChordKeysStay == Spec => []ChordStaysLocal
<1>1. Init => FlowInv
  BY InitFlow
<1>2. FlowInv /\ [Next]_vars => FlowInv'
  BY NextFlow
<1>3. FlowInv => ChordStaysLocal
  <2>. SUFFICES ASSUME FlowInv PROVE ChordStaysLocal
    OBVIOUS
  <2>1. sent \in Seq(Sendable)
    BY DEF FlowInv, Queued
  <2>2. ToSet(sent) \subseteq Sendable
    BY <2>1, ElementsOf
  <2>3. Sendable \cap Chord({"q", "y"}) = {}
    BY DEF Sendable, Chords
  <2>. QED BY <2>2, <2>3 DEF ChordStaysLocal
<1>. QED BY <1>1, <1>2, <1>3, PTL DEF Spec

(* Until a copy chord is typed every key but those of a detach chord is on *)
(* its way or delivered, once and in the order typed, and a client that    *)
(* leaves on its own account has delivered them all, but for a prefix      *)
(* withheld when the keyboard could not be read any more.                  *)
THEOREM KeysArriveInOrder == Spec => []KeysArrive
<1>1. Init => ArriveInv
  BY InitArrive
<1>2. FlowInv /\ ArriveInv /\ [Next]_vars => ArriveInv'
  BY NextArrive
<1>3. ArriveInv => KeysArrive
  BY DEF ArriveInv, KeysArrive, Plain
<1>. QED BY <1>1, <1>2, <1>3, TypesKept, PTL DEF Spec

(* A key typed after a copy chord is sent to the child only when a "q" or  *)
(* a Ctrl-C typed in between, and not into the search prompt, has left     *)
(* copy mode, for any keys and however they are split over the queues, the *)
(* pending keys and copy mode itself.                                      *)
THEOREM CopyKeysStay == Spec => []CopyKeysStayLocal
<1>1. Init => LocalInv
  BY InitLocal
<1>2. FlowInv /\ RoomInv /\ LocalInv /\ [Next]_vars => LocalInv'
  BY NextLocal
<1>3. FlowInv /\ LocalInv => CopyKeysStayLocal
  <2>. SUFFICES ASSUME FlowInv, LocalInv, ~failed, ~again, NEW i \in ToSet(sent),
                       NEW j \in Positions, j < i, keys[j] = "y", j \in Chord({"y"})
                PROVE  \E k \in (j + 1)..(i - 1) : keys[k] \in Leaves /\ ~PromptOpen(j, k)
    BY DEF CopyKeysStayLocal
  <2>1. keys \in Seq(Key) /\ Len(keys) \in Nat /\ j \in Nat
    BY LenProperties DEF FlowInv, KeyInv, Positions
  <2>2. j \in YEnds
    <3>1. j \in ChordsOf(keys, {"y"})
      BY ChordIs
    <3>2. \/ j \in 2..Len(keys) /\ keys[j] \in {"y"} /\ keys[j - 1] = First
          \/ j \in 1..(Len(keys) - 1) /\ keys[j + 1] \in {"y"} /\ keys[j] = First
      BY <2>1, <3>1, ChordFacts
    <3>. QED BY <3>2 DEF YEnds, First
  <2>3. i \in FreeKeys
    <3>1. sent \in Seq(FreeKeys)
      BY DEF LocalInv, Travels
    <3>. QED BY <3>1, ElementsOf
  <2>. QED BY <2>2, <2>3 DEF FreeKeys, Free, Left
<1>. QED BY <1>1, <1>2, <1>3, TypesKept, PTL DEF Spec

(* Outside copy mode the terminal shows all output read, in order: nothing *)
(* is lost but what overflowed the held buffer, and nothing is written     *)
(* twice but what was read between asking for the history and its screen,  *)
(* for any capacity of that buffer and any interleaving of output,         *)
(* fetches, answers and copy mode.                                         *)
THEOREM ScreenStaysCurrent == Spec => []ScreenIsCurrent
<1>1. Init => ScreenInv
  BY InitScreen
<1>2. RoomInv /\ ScreenInv /\ [Next]_vars => ScreenInv'
  BY NextScreen
<1>3. ScreenInv => ScreenIsCurrent
  BY DEF ScreenInv, ScreenIsCurrent, Holds, Fresh, Rising, Covered
<1>. QED BY <1>1, <1>2, <1>3, TypesKept, PTL DEF Spec
===============================================================================
