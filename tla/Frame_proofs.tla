---------------------------- MODULE Frame_proofs ----------------------------
(***************************************************************************)
(* The frame and its replay, for any characters, any terminal sizes, and   *)
(* any capacity of the ring and of the pad: the ring is what has scrolled  *)
(* off, a replay keeps it, and shows the screen after it.                  *)
(***************************************************************************)
EXTENDS Frame, SequenceTheorems, WellFoundedInduction, TLAPS

-----------------------------------------------------------------------------
(* Induction on the naturals, in the form the provers can use: the numbers *)
(* for which a fact holds are a set.                                       *)

LEMMA NatOrder ==
  \E R : IsWellFoundedOn(R, Nat) /\ \A k, m \in Nat : <<k, m>> \in R <=> k < m
<1>1. \A k, m \in Nat : <<k, m>> \in OpToRel(<, Nat) <=> k < m
  BY DEF OpToRel
<1>. QED
  BY <1>1, NatLessThanWellFounded, Zenon

LEMMA Induction ==
  ASSUME NEW n \in Nat, NEW G, 0 \in G, \A i \in 1..n : i - 1 \in G => i \in G
  PROVE  \A i \in 0..n : i \in G
<1>1. PICK R : IsWellFoundedOn(R, Nat) /\ \A k, m \in Nat : <<k, m>> \in R <=> k < m
  BY NatOrder, Zenon
<1>2. IsWellFoundedOn(R, Nat)
  BY <1>1, Zenon
<1>3. \A k, m \in Nat : <<k, m>> \in R <=> k < m
  BY <1>1, Zenon
<1>. DEFINE Bad == (0..n) \ G
<1>4. Bad \subseteq Nat
  OBVIOUS
<1>5. SUFFICES ASSUME Bad # {} PROVE FALSE
  OBVIOUS
<1>. HIDE DEF Bad
<1>6. PICK m \in Bad : \A k \in Bad : ~(<<k, m>> \in R)
  BY <1>2, <1>4, <1>5, WFMin, Zenon
<1>7. m \in 0..n /\ m \notin G
  BY <1>6 DEF Bad
<1>8. m \in 1..n /\ m - 1 \in 0..n /\ m - 1 < m
  BY <1>7
<1>9. m - 1 \notin Bad
  <2>1. m - 1 \in Nat /\ m \in Nat
    BY <1>8
  <2>. QED BY <1>3, <1>6, <1>8, <2>1, Zenon
<1>. QED BY <1>7, <1>8, <1>9 DEF Bad

-----------------------------------------------------------------------------
(* The smaller and the greater of two numbers                              *)

LEMMA MinOfTwo ==
  ASSUME NEW a \in Nat, NEW b \in Nat
  PROVE  Min({a, b}) = IF a <= b THEN a ELSE b
<1>1. PICK m : m = IF a <= b THEN a ELSE b
  OBVIOUS
<1>2. m \in {a, b} /\ \A y \in {a, b} : m =< y
  BY <1>1
<1>3. \A x \in {a, b} : (\A y \in {a, b} : x =< y) => x = m
  BY <1>1
<1>. QED BY <1>1, <1>2, <1>3 DEF Min

LEMMA MaxOfTwo ==
  ASSUME NEW a \in Nat, NEW b \in Nat
  PROVE  Max({a, b}) = IF a >= b THEN a ELSE b
<1>1. PICK m : m = IF a >= b THEN a ELSE b
  OBVIOUS
<1>2. m \in {a, b} /\ \A y \in {a, b} : m >= y
  BY <1>1
<1>3. \A x \in {a, b} : (\A y \in {a, b} : x >= y) => x = m
  BY <1>1
<1>. QED BY <1>1, <1>2, <1>3 DEF Max

-----------------------------------------------------------------------------
(* The ring                                                                *)

\* Pushing a line keeps the latest ones of those there were and it.
LEMMA PushIsLatest ==
  ASSUME NEW S, NEW ring \in Seq(S), Len(ring) <= Cap, NEW text \in S
  PROVE  /\ Latest(Append(ring, text)) = PushLine(ring, text)
         /\ PushLine(ring, text) \in Seq(S) /\ Len(PushLine(ring, text)) <= Cap
<1>. DEFINE all == Append(ring, text)
            n   == Len(ring)
<1>1. n \in Nat /\ Cap \in Nat /\ n <= Cap
  BY LenProperties, CapAssumption
<1>2. /\ all \in Seq(S) /\ Len(all) = n + 1 /\ all[n + 1] = text
      /\ \A i \in 1..n : all[i] = ring[i]
  BY AppendProperties
<1>. HIDE DEF all
<1>3. Latest(all) = SubSeq(all, (n + 1) - Min({n + 1, Cap}) + 1, n + 1)
  BY <1>2 DEF Latest
<1>4. CASE Cap = 0
  <2>1. Min({n + 1, Cap}) = 0
    BY <1>1, <1>4, MinOfTwo
  <2>2. Latest(all) = SubSeq(all, n + 2, n + 1)
    BY <1>1, <1>3, <2>1
  <2>3. Latest(all) = << >>
    BY <1>1, <2>2, SubSeqEmpty
  <2>4. n = 0
    BY <1>1, <1>4
  <2>5. ring = << >>
    BY <2>4, EmptySeq
  <2>. QED BY <1>4, <2>3, <2>4, <2>5 DEF PushLine, all
<1>5. CASE Cap # 0 /\ n < Cap
  <2>1. Min({n + 1, Cap}) = n + 1
    <3>1. n + 1 \in Nat /\ n + 1 <= Cap
      BY <1>1, <1>5
    <3>. QED BY <1>1, <3>1, MinOfTwo
  <2>2. Latest(all) = SubSeq(all, 1, n + 1)
    <3>1. (n + 1) - (n + 1) + 1 = 1
      BY <1>1
    <3>. QED BY <1>3, <2>1, <3>1
  <2>3. Latest(all) = all
    BY <1>2, <2>2, SubSeqFull
  <2>4. PushLine(ring, text) = all /\ n + 1 <= Cap
    BY <1>1, <1>5 DEF PushLine, all
  <2>. QED BY <1>2, <2>3, <2>4 DEF all
<1>6. CASE Cap # 0 /\ n = Cap
  <2>1. Min({n + 1, Cap}) = n
    <3>1. n + 1 \in Nat /\ ~(n + 1 <= Cap)
      BY <1>1, <1>6
    <3>. QED BY <1>1, <1>6, <3>1, MinOfTwo
  <2>2. Latest(all) = SubSeq(all, 2, n + 1)
    <3>1. (n + 1) - n + 1 = 2
      BY <1>1
    <3>. QED BY <1>3, <2>1, <3>1
  <2>3. Latest(all) = Tail(all)
    <3>1. all # << >>
      BY <1>1, <1>2, EmptySeq
    <3>. QED BY <1>2, <2>2, <3>1, TailIsSubSeq
  <2>4. ring # << >> /\ Tail(ring) \in Seq(S) /\ Len(Tail(ring)) = n - 1
    <3>1. ring # << >>
      BY <1>6, EmptySeq
    <3>. QED BY <3>1, HeadTailProperties
  <2>5. Tail(all) = Append(Tail(ring), text)
    BY <2>4, HeadTailAppend DEF all
  <2>6. PushLine(ring, text) = Append(Tail(ring), text)
    BY <1>1, <1>6 DEF PushLine
  <2>7. PushLine(ring, text) \in Seq(S) /\ Len(PushLine(ring, text)) = (n - 1) + 1
    BY <2>4, <2>6, AppendProperties
  <2>. QED BY <1>1, <1>6, <2>3, <2>5, <2>6, <2>7 DEF all
<1>. QED BY <1>1, <1>4, <1>5, <1>6

-----------------------------------------------------------------------------
(* The surface                                                             *)

Cell == Char \cup {" "}

RowsOf(cols) == [1..cols -> Cell]

\* The lines a row of some width may leave.
Line == UNION {{Text(row) : row \in RowsOf(cols)} : cols \in Nat}

\* A grid of r rows of c cells, with the cursor in one of the rows.
Grid(s, c, r) ==
  /\ s \in [rows : Seq(RowsOf(c)), cols : {c}, x : Nat, y : Nat, off : Seq(Line)]
  /\ Len(s.rows) = r /\ s.y + 1 <= r

\* The ring holds what is remembered of the rows that scrolled off.
Kept(s, ring) == s.off = ring /\ Len(ring) <= Cap

LEMMA LineOfRow ==
  ASSUME NEW c \in Nat, NEW row \in RowsOf(c)
  PROVE  Text(row) \in Line
  BY DEF Line

LEMMA Blank ==
  ASSUME NEW c \in Nat
  PROVE  BlankRow(c) \in RowsOf(c)
  BY DEF BlankRow, RowsOf, Cell

LEMMA LatestType ==
  ASSUME NEW S, NEW seq \in Seq(S)
  PROVE  Latest(seq) \in Seq(S)
<1>n. PICK n, k : n = Len(seq) /\ k = Min({n, Cap})
  OBVIOUS
<1>1. n \in Nat /\ Cap \in Nat
  BY <1>n, LenProperties, CapAssumption
<1>2. k \in Nat /\ k <= n
  BY <1>1, <1>n, MinOfTwo
<1>3. PICK m \in Nat : m = n - k + 1 /\ m >= 1
  BY <1>1, <1>2
<1>4. \A i \in m..n : seq[i] \in S
  <2>1. \A i \in m..n : i \in 1..n
    BY <1>1, <1>3
  <2>. QED BY <1>n, <2>1, ElementOfSeq
<1>5. SubSeq(seq, m, n) \in Seq(S)
  <2>1. m \in Int /\ n \in Int
    BY <1>1, <1>3
  <2>. QED BY ONLY <1>4, <2>1, SubSeqProperties
<1>. QED BY <1>n, <1>3, <1>5 DEF Latest

\* A scroll keeps the grid, and the ring gets the row that scrolls off.
LEMMA ScrollGrid ==
  ASSUME NEW c \in Nat \ {0}, NEW r \in Nat \ {0}, NEW s, Grid(s, c, r)
  PROVE  /\ Grid(Scroll(s), c, r) /\ Scroll(s).x = s.x /\ Scroll(s).y = s.y
         /\ \A ring : Kept(s, ring) => Kept(Scroll(s), CaptureTop(s, ring))
<1>1. /\ s.rows \in Seq(RowsOf(c)) /\ s.cols = c /\ s.x \in Nat /\ s.y \in Nat
      /\ s.off \in Seq(Line) /\ Len(s.rows) = r /\ s.y + 1 <= r
  BY DEF Grid
<1>2. s.rows # << >>
  BY <1>1, EmptySeq
<1>3. /\ Tail(s.rows) \in Seq(RowsOf(c)) /\ Len(Tail(s.rows)) = r - 1
      /\ Head(s.rows) \in RowsOf(c) /\ Head(s.rows) = s.rows[1]
  BY <1>1, <1>2, HeadTailProperties
<1>4. /\ Append(Tail(s.rows), BlankRow(c)) \in Seq(RowsOf(c))
      /\ Len(Append(Tail(s.rows), BlankRow(c))) = (r - 1) + 1
  BY <1>3, Blank, AppendProperties
<1>5. (r - 1) + 1 = r
  OBVIOUS
<1>6. Text(Head(s.rows)) \in Line
  BY <1>3, LineOfRow
<1>7. Append(s.off, Text(Head(s.rows))) \in Seq(Line)
  BY <1>1, <1>6, AppendProperties
<1>8. Latest(Append(s.off, Text(Head(s.rows)))) \in Seq(Line)
  BY <1>7, LatestType
<1>9. Scroll(s) = [rows |-> Append(Tail(s.rows), BlankRow(c)), cols |-> c, x |-> s.x, y |-> s.y,
                   off |-> Latest(Append(s.off, Text(Head(s.rows))))]
  <2>1. s \in [rows : Seq(RowsOf(c)), cols : {c}, x : Nat, y : Nat, off : Seq(Line)]
    BY DEF Grid
  <2>2. PICK rows, off : /\ rows = Append(Tail(s.rows), BlankRow(c))
                         /\ off = Latest(Append(s.off, Text(Head(s.rows))))
    OBVIOUS
  <2>3. Scroll(s) = [s EXCEPT !.rows = rows, !.off = off]
    BY <1>1, <2>2 DEF Scroll
  <2>4. Scroll(s) = [rows |-> rows, cols |-> c, x |-> s.x, y |-> s.y, off |-> off]
    BY <1>1, <2>1, <2>3
  <2>. QED BY <2>2, <2>4
<1>10. Grid(Scroll(s), c, r)
  BY <1>1, <1>4, <1>5, <1>8, <1>9 DEF Grid
<1>11. ASSUME NEW ring, Kept(s, ring) PROVE Kept(Scroll(s), CaptureTop(s, ring))
  <2>1. ring \in Seq(Line) /\ Len(ring) <= Cap /\ s.off = ring
    BY <1>1, <1>11 DEF Kept
  <2>2. /\ Latest(Append(ring, Text(Head(s.rows)))) = PushLine(ring, Text(Head(s.rows)))
        /\ Len(PushLine(ring, Text(Head(s.rows)))) <= Cap
    BY <1>6, <2>1, PushIsLatest
  <2>3. Scroll(s).off = Latest(Append(ring, Text(Head(s.rows))))
    BY <1>9, <2>1
  <2>4. CaptureTop(s, ring) = PushLine(ring, Text(Head(s.rows)))
    BY <1>3 DEF CaptureTop
  <2>. QED BY <2>2, <2>3, <2>4 DEF Kept
<1>12. Scroll(s).x = s.x /\ Scroll(s).y = s.y
  BY <1>9
<1>. QED BY <1>10, <1>11, <1>12

LEMMA NewLineGrid ==
  ASSUME NEW c \in Nat \ {0}, NEW r \in Nat \ {0}, NEW s, Grid(s, c, r)
  PROVE  /\ Grid(NewLine(s), c, r) /\ NewLine(s).x = s.x
         /\ \A ring : Kept(s, ring) =>
              Kept(NewLine(s), IF LineFeedWillScroll(s) THEN CaptureTop(s, ring) ELSE ring)
<1>1. Rows(s) = r /\ s.y \in Nat
  BY DEF Grid, Rows
<1>2. CASE s.y + 1 >= r
  BY <1>1, <1>2, ScrollGrid DEF NewLine, LineFeedWillScroll
<1>3. CASE ~(s.y + 1 >= r)
  <2>1. s \in [rows : Seq(RowsOf(c)), cols : {c}, x : Nat, y : Nat, off : Seq(Line)]
        /\ Len(s.rows) = r
    BY DEF Grid
  <2>2. NewLine(s) = [rows |-> s.rows, cols |-> s.cols, x |-> s.x, y |-> s.y + 1, off |-> s.off]
    BY <1>1, <1>3, <2>1 DEF NewLine
  <2>3. (s.y + 1) + 1 <= r
    BY <1>1, <1>3
  <2>4. Grid(NewLine(s), c, r)
    BY <1>1, <2>1, <2>2, <2>3 DEF Grid
  <2>. QED BY <1>1, <1>3, <2>2, <2>4 DEF Kept, LineFeedWillScroll
<1>. QED BY <1>2, <1>3

LEMMA PutGrid ==
  ASSUME NEW c \in Nat \ {0}, NEW r \in Nat \ {0}, NEW s, Grid(s, c, r), NEW ch \in Char
  PROVE  /\ Grid(Put(s, ch), c, r)
         /\ \A ring : Kept(s, ring) =>
              Kept(Put(s, ch), IF PrintWillWrapScroll(s) THEN CaptureTop(s, ring) ELSE ring)
<1>1. Rows(s) = r /\ s.y \in Nat /\ s.x \in Nat /\ s.cols = c
  BY DEF Grid, Rows
<1>2. PICK w : w = IF s.x >= s.cols THEN [NewLine(s) EXCEPT !.x = 0] ELSE s
  OBVIOUS
<1>3. /\ Grid(w, c, r) /\ w.x + 1 <= c
      /\ \A ring : Kept(s, ring) =>
           Kept(w, IF PrintWillWrapScroll(s) THEN CaptureTop(s, ring) ELSE ring)
  <2>1. CASE s.x >= s.cols
    <3>1. PICK l : l = NewLine(s)
      OBVIOUS
    <3>2. /\ Grid(l, c, r)
          /\ \A ring : Kept(s, ring) =>
               Kept(l, IF LineFeedWillScroll(s) THEN CaptureTop(s, ring) ELSE ring)
      BY <3>1, NewLineGrid
    <3>3. /\ l \in [rows : Seq(RowsOf(c)), cols : {c}, x : Nat, y : Nat, off : Seq(Line)]
          /\ Len(l.rows) = r /\ l.y + 1 <= r
      BY <3>2 DEF Grid
    <3>4. w = [rows |-> l.rows, cols |-> l.cols, x |-> 0, y |-> l.y, off |-> l.off]
      BY <1>2, <2>1, <3>1, <3>3
    <3>5. Grid(w, c, r)
      BY <3>3, <3>4 DEF Grid
    <3>6. LineFeedWillScroll(s) <=> PrintWillWrapScroll(s)
      BY <2>1 DEF LineFeedWillScroll, PrintWillWrapScroll
    <3>7. w.off = l.off /\ w.x + 1 <= c
      BY <3>4
    <3>. QED BY <3>2, <3>5, <3>6, <3>7 DEF Kept
  <2>2. CASE ~(s.x >= s.cols)
    <3>1. w = s /\ w.x + 1 <= c
      BY <1>1, <1>2, <2>2
    <3>2. ~PrintWillWrapScroll(s)
      BY <2>2 DEF PrintWillWrapScroll
    <3>. QED BY <3>1, <3>2
  <2>. QED BY <2>1, <2>2
<1>4. /\ w \in [rows : Seq(RowsOf(c)), cols : {c}, x : Nat, y : Nat, off : Seq(Line)]
      /\ Len(w.rows) = r /\ w.y + 1 <= r
  BY <1>3 DEF Grid
<1>5. w.x + 1 \in 1..c /\ w.y + 1 \in 1..r
  BY <1>3, <1>4
<1>6. PICK old : old = w.rows[w.y + 1]
  OBVIOUS
<1>7. old \in RowsOf(c)
  BY <1>4, <1>5, <1>6, ElementOfSeq
<1>8. PICK new \in RowsOf(c) : new = [old EXCEPT ![w.x + 1] = ch]
  BY <1>5, <1>7 DEF RowsOf, Cell
<1>9. PICK rows : rows = [w.rows EXCEPT ![w.y + 1] = new]
  OBVIOUS
<1>10. rows \in Seq(RowsOf(c)) /\ Len(rows) = r
  BY <1>4, <1>5, <1>9, ExceptSeq
<1>11. Put(s, ch) = [rows |-> rows, cols |-> w.cols, x |-> w.x + 1, y |-> w.y, off |-> w.off]
  <2>1. Put(s, ch) = [w EXCEPT !.rows[w.y + 1][w.x + 1] = ch, !.x = @ + 1]
    BY <1>2 DEF Put
  <2>. QED BY <1>4, <1>6, <1>8, <1>9, <2>1
<1>12. Grid(Put(s, ch), c, r)
  BY <1>4, <1>10, <1>11 DEF Grid
<1>13. Put(s, ch).off = w.off
  BY <1>11
<1>. QED BY <1>3, <1>12, <1>13 DEF Kept

\* Changes that scroll nothing off.
LEMMA MoveGrid ==
  ASSUME NEW c \in Nat \ {0}, NEW r \in Nat \ {0}, NEW s, Grid(s, c, r),
         NEW x \in Nat, NEW y \in Nat
  PROVE  /\ Grid(MoveTo(s, x, y), c, r) /\ MoveTo(s, x, y).off = s.off
         /\ MoveTo(s, x, y).y \in Nat /\ MoveTo(s, x, y).y <= y
<1>1. /\ s \in [rows : Seq(RowsOf(c)), cols : {c}, x : Nat, y : Nat, off : Seq(Line)]
      /\ Len(s.rows) = r /\ Rows(s) = r
  BY DEF Grid, Rows
<1>2. PICK i, j : i = Min({x, c - 1}) /\ j = Min({y, r - 1})
  OBVIOUS
<1>3. i \in Nat
  <2>1. c - 1 \in Nat
    OBVIOUS
  <2>. QED BY <1>2, <2>1, MinOfTwo
<1>4. j \in Nat /\ j <= y /\ j + 1 <= r
  <2>1. r - 1 \in Nat
    OBVIOUS
  <2>2. j = IF y <= r - 1 THEN y ELSE r - 1
    BY <1>2, <2>1, MinOfTwo
  <2>. QED BY <2>1, <2>2
<1>5. MoveTo(s, x, y) = [rows |-> s.rows, cols |-> c, x |-> i, y |-> j, off |-> s.off]
  <2>1. s.cols = c /\ s = [rows |-> s.rows, cols |-> c, x |-> s.x, y |-> s.y, off |-> s.off]
    BY <1>1
  <2>2. MoveTo(s, x, y) = [s EXCEPT !.x = i, !.y = j]
    BY <1>1, <1>2, <2>1 DEF MoveTo
  <2>. QED BY <2>1, <2>2
<1>. QED BY <1>1, <1>3, <1>4, <1>5 DEF Grid

LEMMA LeftGrid ==
  ASSUME NEW c \in Nat \ {0}, NEW r \in Nat \ {0}, NEW s, Grid(s, c, r), NEW n \in Nat
  PROVE  /\ Grid([s EXCEPT !.x = Max({@, n}) - n], c, r)
         /\ [s EXCEPT !.x = Max({@, n}) - n].off = s.off
<1>1. /\ s \in [rows : Seq(RowsOf(c)), cols : {c}, x : Nat, y : Nat, off : Seq(Line)]
      /\ Len(s.rows) = r /\ s.y + 1 <= r
  BY DEF Grid
<1>2. Max({s.x, n}) - n \in Nat
  <2>1. s.x \in Nat
    BY <1>1
  <2>2. Max({s.x, n}) = IF s.x >= n THEN s.x ELSE n
    BY <2>1, MaxOfTwo
  <2>. QED BY <2>1, <2>2
<1>3. PICK i \in Nat : i = Max({s.x, n}) - n
  BY <1>2
<1>4. [s EXCEPT !.x = Max({@, n}) - n] = [s EXCEPT !.x = i]
  BY <1>1, <1>3
<1>5. PICK t : t = [s EXCEPT !.x = i]
  OBVIOUS
<1>6. /\ t \in [rows : Seq(RowsOf(c)), cols : {c}, x : Nat, y : Nat, off : Seq(Line)]
      /\ t.rows = s.rows /\ t.y = s.y /\ t.off = s.off
  BY <1>1, <1>5
<1>7. Grid(t, c, r)
  BY <1>1, <1>6 DEF Grid
<1>. QED BY <1>4, <1>5, <1>6, <1>7

LEMMA ClearGrid ==
  ASSUME NEW c \in Nat \ {0}, NEW r \in Nat \ {0}, NEW s, Grid(s, c, r)
  PROVE  Grid(ClearScreen(s), c, r) /\ ClearScreen(s).off = s.off
<1>1. /\ s \in [rows : Seq(RowsOf(c)), cols : {c}, x : Nat, y : Nat, off : Seq(Line)]
      /\ Rows(s) = r
  BY DEF Grid, Rows
<1>2. PICK rows : rows = [i \in 1..Rows(s) |-> BlankRow(s.cols)]
  OBVIOUS
<1>3. rows \in Seq(RowsOf(c)) /\ Len(rows) = r
  <2>1. rows = [i \in 1..r |-> BlankRow(c)]
    BY <1>1, <1>2
  <2>. QED BY <2>1, Blank
<1>4. ClearScreen(s) = [rows |-> rows, cols |-> s.cols, x |-> 0, y |-> 0, off |-> s.off]
  <2>1. ClearScreen(s) = [s EXCEPT !.rows = rows, !.x = 0, !.y = 0]
    BY <1>2 DEF ClearScreen
  <2>. QED BY <1>1, <2>1
<1>. QED BY <1>1, <1>3, <1>4 DEF Grid

LEMMA ClearLineGrid ==
  ASSUME NEW c \in Nat \ {0}, NEW r \in Nat \ {0}, NEW s, Grid(s, c, r)
  PROVE  Grid(ClearToEndOfLine(s), c, r) /\ ClearToEndOfLine(s).off = s.off
<1>1. /\ s \in [rows : Seq(RowsOf(c)), cols : {c}, x : Nat, y : Nat, off : Seq(Line)]
      /\ Len(s.rows) = r /\ s.y + 1 <= r
  BY DEF Grid
<1>2. s.y + 1 \in 1..r
  BY <1>1
<1>3. PICK old : old = s.rows[s.y + 1]
  OBVIOUS
<1>4. old \in RowsOf(c)
  BY <1>1, <1>2, <1>3, ElementOfSeq
<1>5. PICK new : new = [i \in 1..s.cols |-> IF i > s.x THEN " " ELSE old[i]]
  OBVIOUS
<1>6. new \in RowsOf(c)
  BY <1>1, <1>4, <1>5 DEF RowsOf, Cell
<1>7. PICK rows : rows = [s.rows EXCEPT ![s.y + 1] = new]
  OBVIOUS
<1>8. rows \in Seq(RowsOf(c)) /\ Len(rows) = r
  BY <1>1, <1>2, <1>6, <1>7, ExceptSeq
<1>9. ClearToEndOfLine(s) = [rows |-> rows, cols |-> s.cols, x |-> s.x, y |-> s.y, off |-> s.off]
  <2>1. ClearToEndOfLine(s) =
          [s EXCEPT !.rows[s.y + 1] = [i \in 1..s.cols |-> IF i > s.x THEN " " ELSE @[i]]]
    BY DEF ClearToEndOfLine
  <2>2. ClearToEndOfLine(s) = [s EXCEPT !.rows = rows]
    BY <1>1, <1>2, <1>3, <1>5, <1>7, <2>1
  <2>. QED BY <1>1, <2>2
<1>. QED BY <1>1, <1>8, <1>9 DEF Grid

LEMMA SizeGrid ==
  ASSUME NEW c \in Nat \ {0}, NEW r \in Nat \ {0}, NEW s, Grid(s, c, r),
         NEW cols \in Nat \ {0}, NEW rows \in Nat \ {0}, s.y + 1 <= rows
  PROVE  Grid(SetSize(s, cols, rows), cols, rows) /\ SetSize(s, cols, rows).off = s.off
<1>1. /\ s \in [rows : Seq(RowsOf(c)), cols : {c}, x : Nat, y : Nat, off : Seq(Line)]
      /\ Rows(s) = r /\ Len(s.rows) = r
  BY DEF Grid, Rows
<1>. DEFINE cell(i, j) == IF i <= Rows(s) /\ j <= s.cols THEN s.rows[i][j] ELSE " "
<1>2. PICK new : new = [i \in 1..rows |-> [j \in 1..cols |-> cell(i, j)]]
  OBVIOUS
<1>3. ASSUME NEW i \in 1..rows, NEW j \in 1..cols PROVE cell(i, j) \in Cell
  <2>1. CASE i <= r /\ j <= c
    <3>1. i \in 1..r /\ j \in 1..c
      BY <2>1
    <3>2. s.rows[i] \in RowsOf(c)
      BY <1>1, <3>1, ElementOfSeq
    <3>. QED BY <1>1, <2>1, <3>1, <3>2 DEF RowsOf
  <2>2. CASE ~(i <= r /\ j <= c)
    BY <1>1, <2>2 DEF Cell
  <2>. QED BY <2>1, <2>2
<1>4. SetSize(s, cols, rows) = [rows |-> new, cols |-> cols, x |-> s.x, y |-> s.y, off |-> s.off]
  <2>1. SetSize(s, cols, rows) =
          [s EXCEPT !.rows = [i \in 1..rows |-> [j \in 1..cols |-> cell(i, j)]], !.cols = cols]
    BY DEF SetSize
  <2>2. SetSize(s, cols, rows) = [s EXCEPT !.rows = new, !.cols = cols]
    BY <1>2, <2>1
  <2>. QED BY <1>1, <2>2
<1>. HIDE DEF cell
<1>5. \A i \in 1..rows : [j \in 1..cols |-> cell(i, j)] \in RowsOf(cols)
  BY <1>3 DEF RowsOf
<1>6. new \in Seq(RowsOf(cols)) /\ Len(new) = rows
  BY <1>2, <1>5
<1>. QED BY <1>1, <1>4, <1>6 DEF Grid

-----------------------------------------------------------------------------
(* Steps repeated                                                          *)

\* n steps within a set can be followed from any of its members.
Steps(n, D) == [1..n -> [D -> D]]

Follows(f, n, D, d, Step) ==
  f \in [0..n -> D] /\ f[0] = d /\ \A i \in 1..n : f[i] = Step[i][f[i - 1]]

LEMMA Repeated ==
  ASSUME NEW n \in Nat, NEW D, NEW d \in D, NEW Step \in Steps(n, D)
  PROVE  \E f : Follows(f, n, D, d, Step)
<1>. Step \in [1..n -> [D -> D]]
  BY DEF Steps
<1>. USE DEF Follows
<1>. DEFINE Upto(g, m) == Follows(g, m, D, d, Step)
            G == {m \in 0..n : \E g : Upto(g, m)}
<1>1. 0 \in G
  <2>1. Upto([i \in 0..0 |-> d], 0)
    OBVIOUS
  <2>. HIDE DEF Upto
  <2>. QED BY <2>1
<1>2. ASSUME NEW m \in 1..n, m - 1 \in G PROVE m \in G
  <2>1. PICK g : Upto(g, m - 1)
    BY <1>2
  <2>. DEFINE h == [i \in 0..m |-> IF i = m THEN Step[m][g[m - 1]] ELSE g[i]]
  <2>2. g[m - 1] \in D /\ Step[m] \in [D -> D] /\ Step[m][g[m - 1]] \in D
    BY <2>1
  <2>3. h \in [0..m -> D] /\ h[0] = d
    BY <2>1, <2>2
  <2>4. ASSUME NEW i \in 1..m PROVE h[i] = Step[i][h[i - 1]]
    <3>1. h[i - 1] = g[i - 1]
      OBVIOUS
    <3>2. CASE i = m
      BY <3>1, <3>2
    <3>3. CASE i # m
      <4>1. i \in 1..(m - 1) /\ h[i] = g[i]
        BY <3>3
      <4>. QED BY <2>1, <3>1, <4>1
    <3>. QED BY <3>2, <3>3
  <2>5. Upto(h, m)
    BY <2>3, <2>4
  <2>. HIDE DEF Upto, h
  <2>. QED BY <2>5
<1>3. n \in G
  <2>. HIDE DEF G
  <2>1. \A i \in 0..n : i \in G
    BY <1>1, <1>2, Induction
  <2>. QED BY <2>1
<1>. QED BY <1>3

-----------------------------------------------------------------------------
(* Rows lost to a smaller terminal                                         *)

\* Before each row is dropped the ring gets it.
LEMMA ShrinkGrid ==
  ASSUME NEW c \in Nat \ {0}, NEW r \in Nat \ {0}, NEW s, Grid(s, c, r),
         NEW ring, Kept(s, ring), NEW n \in 1..(r - 1)
  PROVE  /\ Grid(Shrink(s, ring, n).surface, c, r)
         /\ Shrink(s, ring, n).surface.y + 1 <= r - n
         /\ Kept(Shrink(s, ring, n).surface, Shrink(s, ring, n).lines)
<1>. DEFINE Shape == [rows : Seq(RowsOf(c)), cols : {c}, x : Nat, y : Nat, off : Seq(Line)]
            D == {st \in [surface : Shape, lines : Seq(Line)] :
                    /\ Grid(st.surface, c, r) /\ Kept(st.surface, st.lines)
                    /\ st.surface.x = s.x /\ st.surface.y = s.y}
            start == [surface |-> s, lines |-> ring]
            IsAfter(g) == g = [i \in 0..n |-> IF i = 0 THEN start ELSE Drop(g[i - 1])]
<1>1. start \in D
  BY DEF Grid, Kept
<1>2. ASSUME NEW st \in D PROVE Drop(st) \in D
  <2>1. PICK u, l : u = st.surface /\ l = st.lines
    OBVIOUS
  <2>2. Grid(u, c, r) /\ Kept(u, l) /\ u.x = s.x /\ u.y = s.y
    BY <2>1
  <2>3. PICK v, k : v = Scroll(u) /\ k = CaptureTop(u, l)
    OBVIOUS
  <2>4. Grid(v, c, r) /\ v.x = s.x /\ v.y = s.y /\ Kept(v, k)
    BY <2>2, <2>3, ScrollGrid
  <2>5. v \in Shape /\ k \in Seq(Line)
    BY <2>4 DEF Grid, Kept
  <2>6. Drop(st) = [surface |-> v, lines |-> k]
    BY <2>1, <2>3 DEF Drop
  <2>. QED BY <2>4, <2>5, <2>6
<1>. HIDE DEF D
<1>3. n \in Nat
  OBVIOUS
<1>4. \E g : IsAfter(g)
  <2>1. [i \in 1..n |-> [st \in D |-> Drop(st)]] \in Steps(n, D)
    BY <1>2 DEF Steps
  <2>2. PICK Step \in Steps(n, D) : Step = [i \in 1..n |-> [st \in D |-> Drop(st)]]
    BY <2>1
  <2>. HIDE DEF start, IsAfter
  <2>3. PICK g : Follows(g, n, D, start, Step)
    BY <1>1, <1>3, Repeated
  <2>4. \A i \in 1..n : g[i] = Drop(g[i - 1])
    <3>1. \A i \in 1..n : g[i - 1] \in D
      BY <1>3, <2>3 DEF Follows
    <3>. QED BY <2>2, <2>3, <3>1 DEF Follows
  <2>5. IsAfter(g)
    BY <1>3, <2>3, <2>4 DEF IsAfter, Follows
  <2>. QED BY <2>5
<1>5. PICK after : after = (CHOOSE g : IsAfter(g))
  OBVIOUS
<1>6. IsAfter(after)
  <2>. HIDE DEF IsAfter
  <2>. QED BY <1>4, <1>5
<1>7. after[n] \in D
  <2>. DEFINE G == {i \in 0..n : after[i] \in D}
  <2>1. 0 \in G
    BY <1>1, <1>3, <1>6
  <2>2. ASSUME NEW i \in 1..n, i - 1 \in G PROVE i \in G
    <3>1. after[i] = Drop(after[i - 1])
      BY <1>3, <1>6
    <3>. QED BY <1>2, <1>3, <2>2, <3>1
  <2>3. \A i \in 0..n : i \in G
    <3>. HIDE DEF G
    <3>. QED BY <1>3, <2>1, <2>2, Induction
  <2>. QED BY <1>3, <2>3
<1>8. Shrink(s, ring, n) =
        [after[n] EXCEPT !.surface = MoveTo(@, s.x, IF s.y > n THEN s.y - n ELSE 0)]
  BY <1>5 DEF Shrink
<1>9. PICK u, l : after[n] = [surface |-> u, lines |-> l] /\ Grid(u, c, r) /\ Kept(u, l)
  BY <1>7 DEF D
<1>10. PICK v : v = MoveTo(u, s.x, IF s.y > n THEN s.y - n ELSE 0)
  OBVIOUS
<1>11. Shrink(s, ring, n) = [surface |-> v, lines |-> l]
  BY <1>8, <1>9, <1>10
<1>12. s.y \in Nat /\ s.y + 1 <= r /\ s.x \in Nat
  BY DEF Grid
<1>13. PICK y \in Nat : y = (IF s.y > n THEN s.y - n ELSE 0) /\ y + 1 <= r - n
  BY <1>12
<1>14. Grid(v, c, r) /\ v.y <= y /\ v.y \in Nat /\ v.off = u.off
  <2>1. v = MoveTo(u, s.x, y)
    BY <1>10, <1>13
  <2>2. PICK x \in Nat : x = s.x
    BY <1>12
  <2>3. Grid(u, c, r)
    BY <1>9
  <2>4. /\ Grid(MoveTo(u, x, y), c, r) /\ MoveTo(u, x, y).off = u.off
        /\ MoveTo(u, x, y).y \in Nat /\ MoveTo(u, x, y).y <= y
    BY <2>3, MoveGrid
  <2>5. v = MoveTo(u, x, y)
    BY <2>1, <2>2
  <2>. QED BY <2>4, <2>5
<1>15. v.y + 1 <= r - n
  BY <1>13, <1>14
<1>. QED BY <1>9, <1>11, <1>14, <1>15 DEF Kept

-----------------------------------------------------------------------------
(* The invariant                                                           *)

FrameInv ==
  /\ <<surface.cols, Rows(surface)>> \in Sizes
  /\ Grid(surface, surface.cols, Rows(surface))
  /\ Kept(surface, lines)

LEMMA SizesAre ==
  ASSUME NEW size \in Sizes
  PROVE  size[1] \in Nat \ {0} /\ size[2] \in Nat \ {0} /\ size = <<size[1], size[2]>>
  BY SizesAssumption

LEMMA InitFrame == Init => FrameInv
<1>. SUFFICES ASSUME Init PROVE FrameInv
  OBVIOUS
<1>1. PICK c \in Nat \ {0}, r \in Nat \ {0} : c = Size0[1] /\ r = Size0[2] /\ <<c, r>> \in Sizes
  BY SizesAre, SizesAssumption
<1>2. PICK rows : rows = [i \in 1..r |-> BlankRow(c)]
  OBVIOUS
<1>3. rows \in Seq(RowsOf(c)) /\ Len(rows) = r
  BY <1>2, Blank
<1>4. surface = [rows |-> rows, cols |-> c, x |-> 0, y |-> 0, off |-> << >>] /\ lines = << >>
  BY <1>1, <1>2 DEF Init
<1>5. << >> \in Seq(Line) /\ Len(lines) <= Cap
  BY <1>4, EmptySeq, CapAssumption
<1>6. surface.cols = c /\ Rows(surface) = r /\ surface.off = lines
  BY <1>3, <1>4 DEF Rows
<1>7. Grid(surface, c, r)
  BY <1>3, <1>4, <1>5 DEF Grid
<1>. QED BY <1>1, <1>5, <1>6, <1>7 DEF FrameInv, Kept

\* A step that leaves a grid of the same size, and the ring with what is off.
LEMMA SameSize ==
  ASSUME NEW c, NEW r, <<c, r>> \in Sizes, Grid(surface', c, r), Kept(surface', lines')
  PROVE  FrameInv'
<1>1. surface'.cols = c /\ Rows(surface') = r
  BY DEF Grid, Rows
<1>. QED BY <1>1 DEF FrameInv

LEMMA ApplyFrame ==
  ASSUME FrameInv, Apply
  PROVE  FrameInv'
<1>1. PICK c \in Nat \ {0}, r \in Nat \ {0} : c = surface.cols /\ r = Rows(surface)
  BY SizesAssumption DEF FrameInv
<1>2. /\ <<c, r>> \in Sizes
      /\ Grid(surface, c, r) /\ Kept(surface, lines)
  BY <1>1, SizesAssumption DEF FrameInv
<1>3. surface.x \in Nat /\ surface.y \in Nat
  BY <1>2 DEF Grid
\* Whatever moves the cursor or erases scrolls nothing off.
<1>4. ASSUME Grid(surface', c, r), surface'.off = surface.off, lines' = lines
      PROVE  FrameInv'
  <2>1. Kept(surface', lines')
    BY <1>2, <1>4 DEF Kept
  <2>. QED BY <1>2, <1>4, <2>1, SameSize
<1>5. CASE \E ch \in Char : PrintChar(ch)
  <2>1. PICK ch \in Char : PrintChar(ch)
    BY <1>5
  <2>2. Grid(surface', c, r) /\ Kept(surface', lines')
    BY <1>2, <2>1, PutGrid DEF PrintChar
  <2>. QED BY <1>2, <2>2, SameSize
<1>6. CASE LineFeed
  <2>1. Grid(surface', c, r) /\ Kept(surface', lines')
    BY <1>2, <1>6, NewLineGrid DEF LineFeed
  <2>. QED BY <1>2, <2>1, SameSize
<1>7. ASSUME NEW x \in Nat, NEW y \in Nat, surface' = MoveTo(surface, x, y), lines' = lines
      PROVE  FrameInv'
  <2>1. PICK s : s = surface
    OBVIOUS
  <2>2. Grid(s, c, r)
    BY <1>2, <2>1
  <2>3. Grid(MoveTo(s, x, y), c, r) /\ MoveTo(s, x, y).off = s.off
    BY <2>2, MoveGrid
  <2>4. surface' = MoveTo(s, x, y)
    BY <1>7, <2>1
  <2>. QED BY <1>4, <1>7, <2>1, <2>3, <2>4
<1>8. CASE CarriageReturn
  BY <1>3, <1>7, <1>8 DEF CarriageReturn
<1>9. ASSUME NEW n \in Nat, CursorLeft(n) PROVE FrameInv'
  <2>1. PICK s : s = surface
    OBVIOUS
  <2>2. Grid(s, c, r)
    BY <1>2, <2>1
  <2>3. /\ Grid([s EXCEPT !.x = Max({@, n}) - n], c, r)
        /\ [s EXCEPT !.x = Max({@, n}) - n].off = s.off
    BY <2>2, LeftGrid
  <2>4. surface' = [s EXCEPT !.x = Max({@, n}) - n] /\ lines' = lines
    BY <1>9, <2>1 DEF CursorLeft
  <2>. QED BY <1>4, <2>1, <2>3, <2>4
<1>10. CASE Backspace \/ \E n \in 1..surface.cols : CursorLeft(n)
  <2>1. \A n \in 1..surface.cols : n \in Nat
    BY <1>1, <1>2
  <2>. QED BY <1>9, <1>10, <2>1 DEF Backspace
<1>11. CASE \E x \in 0..surface.cols, y \in 0..Rows(surface) : CursorMove(x, y)
  <2>1. PICK x \in 0..surface.cols, y \in 0..Rows(surface) : CursorMove(x, y)
    BY <1>11
  <2>2. x \in Nat /\ y \in Nat
    BY <1>1, <1>2
  <2>. QED BY <1>7, <2>1, <2>2 DEF CursorMove
<1>12. CASE \E kind \in Erasures : EraseInDisplay(kind) \/ EraseInLine(kind)
  BY <1>2, <1>4, <1>12, ClearGrid, ClearLineGrid DEF EraseInDisplay, EraseInLine
<1>. QED BY <1>5, <1>6, <1>8, <1>10, <1>11, <1>12 DEF Apply

LEMMA ResizeFrame ==
  ASSUME FrameInv, NEW cols, NEW rows, <<cols, rows>> \in Sizes, Resize(cols, rows)
  PROVE  FrameInv'
<1>1. PICK c, r : c = surface.cols /\ r = Rows(surface)
  OBVIOUS
<1>2. /\ c \in Nat \ {0} /\ r \in Nat \ {0} /\ Grid(surface, c, r) /\ Kept(surface, lines)
      /\ cols \in Nat \ {0} /\ rows \in Nat \ {0}
  BY <1>1, SizesAssumption DEF FrameInv
<1>3. PICK after : after = IF rows < r THEN Shrink(surface, lines, r - rows)
                           ELSE [surface |-> surface, lines |-> lines]
  OBVIOUS
<1>4. surface' = SetSize(after.surface, cols, rows) /\ lines' = after.lines
  BY <1>1, <1>3 DEF Resize
<1>5. Grid(after.surface, c, r) /\ after.surface.y + 1 <= rows /\ Kept(after.surface, after.lines)
  <2>1. CASE rows < r
    <3>1. PICK n \in 1..(r - 1) : n = r - rows /\ r - n = rows
      BY <1>2, <2>1
    <3>2. after = Shrink(surface, lines, n)
      BY <1>3, <2>1, <3>1
    <3>3. /\ Grid(Shrink(surface, lines, n).surface, c, r)
          /\ Shrink(surface, lines, n).surface.y + 1 <= r - n
          /\ Kept(Shrink(surface, lines, n).surface, Shrink(surface, lines, n).lines)
      BY <1>2, ShrinkGrid
    <3>. QED BY <3>1, <3>2, <3>3
  <2>2. CASE ~(rows < r)
    <3>1. after.surface = surface /\ after.lines = lines
      BY <1>3, <2>2
    <3>2. surface.y \in Nat /\ surface.y + 1 <= r
      BY <1>2 DEF Grid
    <3>3. surface.y + 1 <= rows
      BY <1>2, <2>2, <3>2
    <3>. QED BY <1>2, <3>1, <3>3
  <2>. QED BY <2>1, <2>2
<1>6. PICK s : s = after.surface
  OBVIOUS
<1>7. Grid(surface', cols, rows) /\ surface'.off = s.off
  BY <1>2, <1>4, <1>5, <1>6, SizeGrid
<1>8. Kept(surface', lines')
  BY <1>4, <1>5, <1>6, <1>7 DEF Kept
<1>. QED BY <1>7, <1>8, SameSize

LEMMA FrameKept == Spec => []FrameInv
<1>1. FrameInv /\ [Next]_vars => FrameInv'
  <2>. SUFFICES ASSUME FrameInv, [Next]_vars PROVE FrameInv'
    OBVIOUS
  <2>1. CASE Apply
    BY <2>1, ApplyFrame
  <2>2. CASE \E size \in Sizes : Resize(size[1], size[2])
    BY <2>2, SizesAre, ResizeFrame
  <2>3. CASE UNCHANGED vars
    BY <2>3 DEF vars, FrameInv
  <2>. QED BY <2>1, <2>2, <2>3 DEF Next
<1>. QED BY <1>1, InitFrame, PTL DEF Spec

(* The surface stays a grid of a size of the terminal's with the cursor in *)
(* one of its rows, and the ring within its capacity, through any changes  *)
(* and resizes.                                                            *)
THEOREM TypeCorrect == Spec => []TypeOK
<1>1. FrameInv => TypeOK
  <2>. SUFFICES ASSUME FrameInv PROVE TypeOK
    OBVIOUS
  <2>1. PICK c, r : c = surface.cols /\ r = Rows(surface)
    OBVIOUS
  <2>2. /\ surface.rows \in Seq(RowsOf(c)) /\ surface.x \in Nat /\ surface.y \in Nat
        /\ surface.y + 1 <= r /\ r = Len(surface.rows) /\ r \in Nat
    BY <2>1, LenProperties DEF FrameInv, Grid
  <2>3. surface.y \in 0..(r - 1)
    BY <2>2
  <2>4. \A i \in DOMAIN surface.rows : surface.rows[i] \in [1..c -> Char \cup {" "}]
    <3>1. \A i \in DOMAIN surface.rows : surface.rows[i] \in RowsOf(c)
      BY <2>2
    <3>. QED BY <3>1 DEF RowsOf, Cell
  <2>. QED BY <2>1, <2>2, <2>3, <2>4 DEF FrameInv, Kept, TypeOK
<1>. QED BY <1>1, FrameKept, PTL

(* The ring is exactly the last rows that scrolled off the surface, for    *)
(* any sequence of prints, line feeds, movements, erasures and resizes,    *)
(* whatever the sizes and the capacity.                                    *)
THEOREM RingIsScrollback == Spec => []RingIsWhatScrolledOff
<1>1. FrameInv => RingIsWhatScrolledOff
  BY DEF FrameInv, Kept, RingIsWhatScrolledOff
<1>. QED BY <1>1, FrameKept, PTL

-----------------------------------------------------------------------------
(* A client's terminal                                                     *)

Shown == Line \cup {<< >>}

\* Terminals of h rows.
Terminals(h) == {t \in [rows : Seq(Shown), back : Seq(Shown), y : 1..h] : Len(t.rows) = h}

LEMMA WriteIs ==
  ASSUME NEW h \in Nat \ {0}, NEW t \in Terminals(h), NEW text \in Shown
  PROVE  \E rows \in Seq(Shown) :
           /\ Len(rows) = h /\ \A j \in 1..h : rows[j] = IF j = t.y THEN text ELSE t.rows[j]
           /\ Write(t, text) = [rows |-> rows, back |-> t.back, y |-> t.y]
<1>1. /\ t \in [rows : Seq(Shown), back : Seq(Shown), y : 1..h] /\ Len(t.rows) = h
      /\ t.rows \in Seq(Shown) /\ t.y \in 1..h
  BY DEF Terminals
<1>2. PICK rows : rows = [t.rows EXCEPT ![t.y] = text]
  OBVIOUS
<1>3. /\ rows \in Seq(Shown) /\ Len(rows) = h
      /\ \A j \in 1..h : rows[j] = IF j = t.y THEN text ELSE t.rows[j]
  BY <1>1, <1>2, ExceptSeq
<1>4. Write(t, text) = [rows |-> rows, back |-> t.back, y |-> t.y]
  <2>1. Write(t, text) = [t EXCEPT !.rows = [t.rows EXCEPT ![t.y] = text]]
    BY DEF Write
  <2>2. Write(t, text) = [t EXCEPT !.rows = rows]
    BY <1>2, <2>1
  <2>. QED BY <1>1, <2>2
<1>. QED BY <1>3, <1>4

\* u is t with one more row shown, and the cursor on the row below it ...
Lower(h, t, text, u) ==
  /\ u.y = t.y + 1 /\ u.back = t.back
  /\ \A j \in 1..h : u.rows[j] = IF j = t.y THEN text ELSE t.rows[j]

\* ... or with the rows scrolled up to make room for that one.
Higher(h, t, text, u) ==
  /\ u.y = h
  /\ u.back = Append(t.back, IF h = 1 THEN text ELSE t.rows[1])
  /\ \A j \in 1..(h - 1) : u.rows[j] = IF j + 1 = h THEN text ELSE t.rows[j + 1]
  /\ u.rows[h] = << >>

LEMMA ShowIs ==
  ASSUME NEW h \in Nat \ {0}, NEW t \in Terminals(h), NEW text \in Shown
  PROVE  /\ Show(t, text) \in Terminals(h)
         /\ t.y < h => Lower(h, t, text, Show(t, text))
         /\ t.y = h => Higher(h, t, text, Show(t, text))
<1>1. /\ t \in [rows : Seq(Shown), back : Seq(Shown), y : 1..h] /\ Len(t.rows) = h
      /\ t.rows \in Seq(Shown) /\ t.back \in Seq(Shown) /\ t.y \in 1..h
  BY DEF Terminals
<1>3. PICK rows \in Seq(Shown) :
        /\ Len(rows) = h /\ \A j \in 1..h : rows[j] = IF j = t.y THEN text ELSE t.rows[j]
        /\ Write(t, text) = [rows |-> rows, back |-> t.back, y |-> t.y]
  BY WriteIs
<1>5. PICK w : w = Write(t, text) /\ w = [rows |-> rows, back |-> t.back, y |-> t.y]
  BY <1>3
<1>6. CASE t.y < h
  <2>1. Show(t, text) = [rows |-> rows, back |-> t.back, y |-> t.y + 1]
    BY <1>3, <1>5, <1>6 DEF Show, Down
  <2>2. t.y + 1 \in 1..h
    BY <1>1, <1>6
  <2>3. Show(t, text) \in Terminals(h)
    BY <1>1, <1>3, <2>1, <2>2 DEF Terminals
  <2>4. Lower(h, t, text, Show(t, text))
    BY <1>3, <2>1 DEF Lower
  <2>. QED BY <1>6, <2>3, <2>4
<1>7. CASE t.y = h
  <2>1. rows # << >>
    BY <1>3, EmptySeq
  <2>2. /\ Tail(rows) \in Seq(Shown) /\ Len(Tail(rows)) = h - 1 /\ Head(rows) = rows[1]
        /\ \A j \in 1..(h - 1) : Tail(rows)[j] = rows[j + 1]
    BY <1>3, <2>1, HeadTailProperties
  <2>3. << >> \in Shown
    BY DEF Shown
  <2>4. PICK up : up = Append(Tail(rows), << >>)
    OBVIOUS
  <2>5. /\ up \in Seq(Shown) /\ Len(up) = (h - 1) + 1 /\ up[(h - 1) + 1] = << >>
        /\ \A j \in 1..(h - 1) : up[j] = Tail(rows)[j]
    BY <2>2, <2>3, <2>4, AppendProperties
  <2>6. (h - 1) + 1 = h /\ 1 \in 1..h
    OBVIOUS
  <2>7. rows[1] \in Shown /\ rows[1] = IF h = 1 THEN text ELSE t.rows[1]
    BY <1>3, <1>7, <2>6, ElementOfSeq
  <2>8. PICK back : back = Append(t.back, rows[1])
    OBVIOUS
  <2>9. back \in Seq(Shown)
    BY <1>1, <2>7, <2>8, AppendProperties
  <2>10. Show(t, text) = [rows |-> up, back |-> back, y |-> h]
    <3>1. ~(w.y < Len(w.rows)) /\ w.y = h
      BY <1>3, <1>5, <1>7
    <3>2. Show(t, text) = [w EXCEPT !.rows = Append(Tail(@), << >>), !.back = Append(@, Head(w.rows))]
      BY <1>5, <3>1 DEF Show, Down
    <3>3. Append(Tail(w.rows), << >>) = up /\ Append(w.back, Head(w.rows)) = back
      BY <1>5, <2>2, <2>4, <2>8
    <3>4. Show(t, text) = [w EXCEPT !.rows = up, !.back = back]
      BY <3>2, <3>3
    <3>. QED BY <1>5, <3>1, <3>4
  <2>11. h \in 1..h
    OBVIOUS
  <2>12. Show(t, text) \in Terminals(h)
    BY <2>5, <2>6, <2>9, <2>10, <2>11 DEF Terminals
  <2>13. ASSUME NEW j \in 1..(h - 1)
         PROVE  Show(t, text).rows[j] = IF j + 1 = h THEN text ELSE t.rows[j + 1]
    <3>1. j + 1 \in 1..h
      OBVIOUS
    <3>. QED BY <1>3, <1>7, <2>2, <2>5, <2>10, <3>1
  <2>14. Show(t, text).rows[h] = << >>
    BY <2>5, <2>6, <2>10
  <2>15. t.y = h /\ ~(t.y < h) /\ Show(t, text).y = h /\ Show(t, text).back = back
    BY <1>7, <2>10
  <2>16. Show(t, text).back = Append(t.back, IF h = 1 THEN text ELSE t.rows[1])
    BY <2>7, <2>8, <2>15
  <2>17. Higher(h, t, text, Show(t, text))
    BY <2>13, <2>14, <2>15, <2>16 DEF Higher
  <2>. QED BY <2>12, <2>15, <2>17
<1>. QED BY <1>1, <1>6, <1>7

\* How many of i rows shown on a blank terminal of h rows have scrolled off.
Past(h, i) == IF i < h THEN 0 ELSE i - h + 1

\* After i of the rows, d of which have scrolled off behind the o of `off`.
Shows(t, h, off, o, rows, i, d) ==
  /\ t \in Terminals(h) /\ t.y = i - d + 1
  /\ \A j \in 1..h : t.rows[j] = IF j + d <= i THEN rows[j + d] ELSE << >>
  /\ Len(t.back) = o + d
  /\ \A j \in 1..o : t.back[j] = off[j]
  /\ \A j \in 1..d : t.back[o + j] = rows[j]

\* After i of the rows, on a blank terminal off which `off` had scrolled.
Showing(t, h, off, rows, i) == Shows(t, h, off, Len(off), rows, i, Past(h, i))

LEMMA ShowStep ==
  ASSUME NEW h \in Nat \ {0}, NEW off \in Seq(Shown), NEW rows \in Seq(Shown),
         NEW i \in 1..Len(rows), NEW t, Showing(t, h, off, rows, i - 1)
  PROVE  Showing(Show(t, rows[i]), h, off, rows, i)
<1>1. PICK k, b, d : k = i - 1 /\ b = Past(h, k) /\ d = Past(h, i)
  OBVIOUS
<1>2. PICK o \in Nat : o = Len(off)
  BY LenProperties
<1>3. i \in Nat /\ k \in Nat /\ i = k + 1
  BY <1>1, LenProperties
<1>4. /\ t \in Terminals(h) /\ t.y = k - b + 1 /\ Len(t.back) = o + b
      /\ \A j \in 1..h : t.rows[j] = IF j + b <= k THEN rows[j + b] ELSE << >>
      /\ \A j \in 1..o : t.back[j] = off[j]
      /\ \A j \in 1..b : t.back[o + j] = rows[j]
  BY <1>1, <1>2 DEF Showing, Shows
<1>5. rows[i] \in Shown
  BY ElementOfSeq
<1>6. PICK u : u = Show(t, rows[i])
  OBVIOUS
<1>7. CASE i < h
  <2>1. b = 0 /\ d = 0 /\ t.y = i /\ t.y < h
    <3>1. b = 0 /\ d = 0
      BY <1>1, <1>3, <1>7 DEF Past
    <3>2. t.y = k - 0 + 1
      BY <1>4, <3>1
    <3>. QED BY <1>3, <1>7, <3>1, <3>2
  <2>2. /\ u \in Terminals(h) /\ u.y = i + 1 /\ u.back = t.back
        /\ \A j \in 1..h : u.rows[j] = IF j = i THEN rows[i] ELSE t.rows[j]
    <3>1. u \in Terminals(h) /\ Lower(h, t, rows[i], u)
      BY <1>4, <1>5, <1>6, <2>1, ShowIs
    <3>. QED BY <2>1, <3>1 DEF Lower
  <2>3. ASSUME NEW j \in 1..h
        PROVE  u.rows[j] = IF j + 0 <= i THEN rows[j + 0] ELSE << >>
    <3>1. j + 0 = j /\ (j <= i <=> j = i \/ j <= k) /\ (j = i => ~(j <= k))
      BY <1>3
    <3>2. CASE j = i
      BY <2>2, <3>1, <3>2
    <3>3. CASE j # i
      BY <1>4, <2>1, <2>2, <3>1, <3>3
    <3>. QED BY <3>2, <3>3
  <2>4. u.y = i - 0 + 1
    BY <1>3, <2>2
  <2>. QED BY <1>1, <1>2, <1>4, <1>6, <2>1, <2>2, <2>3, <2>4 DEF Showing, Shows
<1>8. CASE ~(i < h)
  <2>1. b \in Nat /\ d = b + 1 /\ k = (h - 1) + b
    BY <1>1, <1>3, <1>8 DEF Past
  <2>2. t.y = h
    BY <1>3, <1>4, <2>1
  <2>3. /\ u \in Terminals(h) /\ u.y = h
        /\ u.back = Append(t.back, IF h = 1 THEN rows[i] ELSE t.rows[1])
        /\ \A j \in 1..(h - 1) : u.rows[j] = IF j + 1 = h THEN rows[i] ELSE t.rows[j + 1]
        /\ u.rows[h] = << >>
    <3>1. u \in Terminals(h) /\ Higher(h, t, rows[i], u)
      BY <1>4, <1>5, <1>6, <2>2, ShowIs
    <3>. QED BY <3>1 DEF Higher
  <2>4. ASSUME NEW j \in 1..h
        PROVE  u.rows[j] = IF j + d <= i THEN rows[j + d] ELSE << >>
    <3>1. CASE j = h
      <4>1. ~(j + d <= i)
        BY <1>3, <2>1, <3>1
      <4>. QED BY <2>3, <3>1, <4>1
    <3>2. CASE j # h
      <4>1. j \in 1..(h - 1) /\ j + 1 \in 1..h /\ j + d <= i /\ j + d = (j + 1) + b
        BY <1>3, <2>1, <3>2
      <4>2. j + 1 = h => j + d = i
        BY <1>3, <2>1
      <4>3. j + 1 # h => (j + 1) + b <= k
        BY <1>3, <2>1, <4>1
      <4>. QED BY <1>4, <2>3, <4>1, <4>2, <4>3
    <3>. QED BY <3>1, <3>2
  <2>5. (IF h = 1 THEN rows[i] ELSE t.rows[1]) = rows[d]
    <3>1. h = 1 => d = i
      BY <1>3, <2>1
    <3>2. h # 1 => 1 + b <= k /\ 1 + b = d /\ 1 \in 1..h
      BY <2>1
    <3>. QED BY <1>4, <3>1, <3>2
  <2>6. t.back \in Seq(Shown) /\ d \in 1..Len(rows)
    <3>1. d \in 1..i /\ Len(rows) \in Nat
      BY <1>3, <2>1, LenProperties
    <3>. QED BY <1>4, <3>1 DEF Terminals
  <2>7. /\ Len(u.back) = (o + b) + 1 /\ u.back[(o + b) + 1] = rows[d]
        /\ \A j \in 1..(o + b) : u.back[j] = t.back[j]
    <3>1. rows[d] \in Shown
      BY <2>6, ElementOfSeq
    <3>2. u.back = Append(t.back, rows[d])
      BY <2>3, <2>5
    <3>. QED BY <1>4, <2>6, <3>1, <3>2, AppendProperties
  <2>8. Len(u.back) = o + d
    <3>1. (o + b) + 1 = o + d
      BY <2>1
    <3>. QED BY <2>7, <3>1
  <2>9. \A j \in 1..o : u.back[j] = off[j]
    <3>1. \A j \in 1..o : j \in 1..(o + b)
      BY <2>1
    <3>. QED BY <1>4, <2>7, <3>1
  <2>10. ASSUME NEW j \in 1..d PROVE u.back[o + j] = rows[j]
    <3>1. CASE j = d
      <4>1. o + j = (o + b) + 1
        BY <2>1, <3>1
      <4>. QED BY <2>7, <3>1, <4>1
    <3>2. CASE j # d
      <4>1. j \in 1..b /\ o + j \in 1..(o + b)
        BY <2>1, <3>2
      <4>. QED BY <1>4, <2>7, <4>1
    <3>. QED BY <3>1, <3>2
  <2>11. u.y = i - d + 1
    <3>1. i = (h - 1) + b + 1 /\ i - d + 1 = h
      BY <1>3, <2>1
    <3>. QED BY <2>3, <3>1
  <2>12. Shows(u, h, off, o, rows, i, d)
    BY ONLY <2>3, <2>4, <2>8, <2>9, <2>10, <2>11 DEF Shows
  <2>. QED BY <1>1, <1>2, <1>6, <2>12 DEF Showing
<1>. QED BY <1>7, <1>8

\* All of the rows shown, one by one.
LEMMA AllShown ==
  ASSUME NEW h \in Nat \ {0}, NEW off \in Seq(Shown), NEW rows \in Seq(Shown),
         NEW t, Showing(t, h, off, rows, 0)
  PROVE  Showing(ShowAll(t, rows), h, off, rows, Len(rows))
<1>1. PICK n \in Nat : n = Len(rows)
  BY LenProperties
<1>. DEFINE IsAfter(g) == g = [i \in 0..Len(rows) |-> IF i = 0 THEN t ELSE Show(g[i - 1], rows[i])]
<1>2. PICK D : D = Terminals(h)
  OBVIOUS
<1>3. t \in D
  BY <1>2 DEF Showing, Shows
<1>4. \A i \in 1..n : rows[i] \in Shown
  BY <1>1, ElementOfSeq
<1>5. \A i \in 1..n : \A d \in D : Show(d, rows[i]) \in D
  BY <1>2, <1>4, ShowIs
<1>6. \E g : IsAfter(g)
  <2>1. [i \in 1..n |-> [d \in D |-> Show(d, rows[i])]] \in Steps(n, D)
    BY <1>5 DEF Steps
  <2>2. PICK Step \in Steps(n, D) : Step = [i \in 1..n |-> [d \in D |-> Show(d, rows[i])]]
    BY <2>1
  <2>. HIDE DEF IsAfter
  <2>3. PICK g : Follows(g, n, D, t, Step)
    BY <1>3, Repeated
  <2>4. \A i \in 1..n : g[i] = Show(g[i - 1], rows[i])
    <3>1. \A i \in 1..n : g[i - 1] \in D
      BY <2>3 DEF Follows
    <3>. QED BY <2>2, <2>3, <3>1 DEF Follows
  <2>5. IsAfter(g)
    BY <1>1, <2>3, <2>4 DEF IsAfter, Follows
  <2>. QED BY <2>5
<1>7. PICK after : after = (CHOOSE g : IsAfter(g))
  OBVIOUS
<1>8. IsAfter(after)
  <2>. HIDE DEF IsAfter
  <2>. QED BY <1>6, <1>7
<1>9. ShowAll(t, rows) = after[n]
  BY <1>1, <1>7 DEF ShowAll
<1>10. after[0] = t /\ \A i \in 1..n : after[i] = Show(after[i - 1], rows[i])
  <2>1. after = [i \in 0..n |-> IF i = 0 THEN t ELSE Show(after[i - 1], rows[i])]
    BY <1>1, <1>8
  <2>2. 0 \in 0..n /\ \A i \in 1..n : i \in 0..n /\ i # 0
    OBVIOUS
  <2>. HIDE DEF IsAfter
  <2>3. after[0] = t
    BY <2>1, <2>2
  <2>. QED BY <2>1, <2>2, <2>3
<1>. DEFINE G == {i \in 0..n : Showing(after[i], h, off, rows, i)}
<1>11. 0 \in G
  BY <1>10
<1>12. ASSUME NEW i \in 1..n, i - 1 \in G PROVE i \in G
  <2>1. Showing(after[i - 1], h, off, rows, i - 1) /\ i \in 1..Len(rows)
    BY <1>1, <1>12
  <2>2. Showing(Show(after[i - 1], rows[i]), h, off, rows, i)
    BY <2>1, ShowStep
  <2>. QED BY <1>10, <2>2
<1>13. \A i \in 0..n : i \in G
  <2>. HIDE DEF G
  <2>. QED BY <1>11, <1>12, Induction
<1>. QED BY <1>1, <1>9, <1>13
-----------------------------------------------------------------------------
(* The replay                                                              *)

LEMMA AtFirst ==
  ASSUME NEW h \in Nat \ {0}, NEW rows
  PROVE  Showing(Terminal(h), h, << >>, rows, 0)
<1>1. PICK blank : blank = [i \in 1..h |-> << >>]
  OBVIOUS
<1>2. << >> \in Seq(Shown) /\ Len(<< >>) = 0 /\ << >> \in Shown
  BY EmptySeq DEF Shown
<1>3. blank \in Seq(Shown) /\ Len(blank) = h
  BY <1>1, <1>2
<1>4. Terminal(h) = [rows |-> blank, back |-> << >>, y |-> 1] /\ 1 \in 1..h
  BY <1>1 DEF Terminal
<1>5. Terminal(h) \in Terminals(h)
  BY <1>2, <1>3, <1>4 DEF Terminals
<1>6. Past(h, 0) = 0 /\ \A j \in 1..h : ~(j + 0 <= 0)
  BY DEF Past
<1>7. \A j \in 1..h : Terminal(h).rows[j] = << >>
  BY <1>1, <1>4
<1>. QED BY <1>2, <1>4, <1>5, <1>6, <1>7 DEF Showing, Shows

\* The screen homed and erased: what has scrolled off stays there.
LEMMA AtHome ==
  ASSUME NEW h \in Nat \ {0}, NEW t \in Terminals(h), NEW rows
  PROVE  Showing([t EXCEPT !.rows = [i \in 1..h |-> << >>], !.y = 1], h, t.back, rows, 0)
<1>1. PICK blank : blank = [i \in 1..h |-> << >>]
  OBVIOUS
<1>2. PICK home : home = [t EXCEPT !.rows = [i \in 1..h |-> << >>], !.y = 1]
  OBVIOUS
<1>3. t \in [rows : Seq(Shown), back : Seq(Shown), y : 1..h] /\ t.back \in Seq(Shown)
  BY DEF Terminals
<1>4. home = [rows |-> blank, back |-> t.back, y |-> 1] /\ 1 \in 1..h
  <2>1. home = [t EXCEPT !.rows = blank, !.y = 1]
    BY <1>1, <1>2
  <2>2. 1 \in 1..h
    OBVIOUS
  <2>3. PICK rows0, back, y : t = [rows |-> rows0, back |-> back, y |-> y]
    BY <1>3
  <2>. QED BY <2>1, <2>2, <2>3
<1>5. blank \in Seq(Shown) /\ Len(blank) = h
  <2>1. << >> \in Shown
    BY DEF Shown
  <2>. QED BY <1>1, <2>1
<1>6. home \in Terminals(h)
  BY <1>3, <1>4, <1>5 DEF Terminals
<1>7. Past(h, 0) = 0 /\ \A j \in 1..h : ~(j + 0 <= 0)
  BY DEF Past
<1>8. Len(home.back) = Len(t.back) + 0
  BY <1>3, <1>4, LenProperties
<1>9. \A j \in 1..h : home.rows[j] = << >>
  BY <1>1, <1>4
<1>10. Showing(home, h, t.back, rows, 0)
  BY <1>4, <1>6, <1>7, <1>8, <1>9 DEF Showing, Shows
<1>. QED BY <1>2, <1>10

\* The lines of the ring, and the pad after them.
Padded(hist, pad, all) ==
  /\ all \in Seq(Shown) /\ Len(all) = Len(hist) + pad
  /\ \A i \in 1..Len(hist) : all[i] = hist[i]
  /\ \A i \in (Len(hist) + 1)..Len(all) : all[i] = << >>

LEMMA PadIs ==
  ASSUME NEW hist \in Seq(Shown), NEW pad \in Nat
  PROVE  Padded(hist, pad, hist \o [i \in 1..pad |-> << >>])
<1>1. PICK blank : blank = [i \in 1..pad |-> << >>]
  OBVIOUS
<1>2. << >> \in Shown
  BY DEF Shown
<1>3. blank \in Seq(Shown) /\ Len(blank) = pad /\ \A i \in 1..pad : blank[i] = << >>
  BY <1>1, <1>2
<1>4. PICK n \in Nat : n = Len(hist)
  BY LenProperties
<1>5. PICK all : all = hist \o blank
  OBVIOUS
<1>6. /\ all \in Seq(Shown) /\ Len(all) = n + pad
      /\ \A i \in 1..(n + pad) : all[i] = IF i <= n THEN hist[i] ELSE blank[i - n]
  BY <1>3, <1>4, <1>5, ConcatProperties
<1>7. \A i \in 1..n : i \in 1..(n + pad) /\ i <= n
  OBVIOUS
<1>8. \A i \in (n + 1)..(n + pad) : i \in 1..(n + pad) /\ ~(i <= n) /\ i - n \in 1..pad
  OBVIOUS
<1>9. Padded(hist, pad, all)
  BY <1>3, <1>4, <1>6, <1>7, <1>8 DEF Padded
<1>. QED BY <1>1, <1>5, <1>9

\* What a replay is made of: either all of the ring is blank and nothing of it
\* is sent, or all of it is, and a pad no shorter than PadRows; and either all
\* of the screen is blank and nothing of it is sent, or all of its rows are.
Sent ==
  /\ History \in Seq(Shown) /\ Pad \in Nat
  /\ IF History = << >> THEN Pad = 0 ELSE Pad >= PadRows
  /\ Snapshot \in Seq(Shown)
  /\ \/ /\ Snapshot = << >>
        /\ \A i \in 1..Rows(surface) : Text(surface.rows[i]) = << >>
     \/ /\ Len(Snapshot) = Rows(surface)
        /\ \A i \in 1..Rows(surface) : Snapshot[i] = Text(surface.rows[i])

LEMMA SentIs == FrameInv => Sent /\ Rows(surface) \in Nat \ {0}
<1>. SUFFICES ASSUME FrameInv PROVE Sent /\ Rows(surface) \in Nat \ {0}
  OBVIOUS
<1>1. PICK c \in Nat \ {0}, r \in Nat \ {0} : c = surface.cols /\ r = Rows(surface)
  BY SizesAssumption DEF FrameInv
<1>2. surface.rows \in Seq(RowsOf(c)) /\ Len(surface.rows) = r /\ lines \in Seq(Line)
  BY <1>1 DEF FrameInv, Grid, Kept
<1>3. History \in Seq(Shown)
  <2>1. lines \in Seq(Shown)
    BY <1>2 DEF Shown
  <2>2. << >> \in Seq(Shown)
    BY EmptySeq
  <2>. QED BY <2>1, <2>2 DEF History
<1>4. Pad \in Nat /\ IF History = << >> THEN Pad = 0 ELSE Pad >= PadRows
  <2>1. Max({r, PadRows}) = IF r >= PadRows THEN r ELSE PadRows
    BY MaxOfTwo, CapAssumption
  <2>. QED BY <1>1, <2>1, CapAssumption DEF Pad
<1>5. \A i \in 1..r : Text(surface.rows[i]) \in Shown
  <2>1. \A i \in 1..r : surface.rows[i] \in RowsOf(c)
    BY <1>2, ElementOfSeq
  <2>. QED BY <2>1, LineOfRow DEF Shown
<1>6. DOMAIN surface.rows = 1..r
  BY <1>2, LenProperties
<1>7. CASE \A i \in DOMAIN surface.rows : IsBlank(surface.rows[i])
  <2>1. Snapshot = << >> /\ Snapshot \in Seq(Shown)
    BY <1>7, EmptySeq DEF Snapshot
  <2>2. \A i \in 1..r : Text(surface.rows[i]) = << >>
    BY <1>6, <1>7 DEF IsBlank
  <2>. QED BY <1>1, <1>3, <1>4, <2>1, <2>2 DEF Sent
<1>8. CASE ~(\A i \in DOMAIN surface.rows : IsBlank(surface.rows[i]))
  <2>1. Snapshot = [i \in 1..r |-> Text(surface.rows[i])]
    BY <1>6, <1>8 DEF Snapshot
  <2>2. PICK snap : snap = [i \in 1..r |-> Text(surface.rows[i])]
    OBVIOUS
  <2>3. snap \in Seq(Shown) /\ Len(snap) = r /\ \A i \in 1..r : snap[i] = Text(surface.rows[i])
    BY <1>5, <2>2
  <2>. QED BY <1>1, <1>3, <1>4, <2>1, <2>2, <2>3 DEF Sent
<1>. QED BY <1>7, <1>8

LEMMA FrontIs ==
  ASSUME NEW r \in Nat \ {0}, NEW snap \in Seq(Shown), Len(snap) = r
  PROVE  /\ Front(snap) \in Seq(Shown) /\ Len(Front(snap)) = r - 1
         /\ \A i \in 1..(r - 1) : Front(snap)[i] = snap[i]
         /\ Last(snap) = snap[r] /\ Last(snap) \in Shown /\ snap # << >>
<1>1. PICK n \in Nat : n = r - 1 /\ r = n + 1
  OBVIOUS
<1>2. PICK front : front = SubSeq(snap, 1, n)
  OBVIOUS
<1>3. Front(snap) = front
  BY <1>1, <1>2 DEF Front
<1>4. \A i \in 1..n : snap[i] \in Shown /\ 1 + i - 1 = i
  BY <1>1, ElementOfSeq
<1>5. /\ front \in Seq(Shown) /\ Len(front) = n
      /\ \A i \in 1..n : front[i] = snap[i]
  <2>1. 1 \in Int /\ n \in Int /\ n - 1 + 1 = n /\ (IF 1 <= n THEN n - 1 + 1 ELSE 0) = n
    OBVIOUS
  <2>2. /\ front \in Seq(Shown) /\ Len(front) = IF 1 <= n THEN n - 1 + 1 ELSE 0
        /\ \A i \in 1..(n - 1 + 1) : front[i] = snap[1 + i - 1]
    BY <1>2, <1>4, SubSeqProperties
  <2>. QED BY <1>4, <2>1, <2>2
<1>6. Last(snap) = snap[r] /\ snap[r] \in Shown
  <2>1. r \in 1..r
    OBVIOUS
  <2>. QED BY <2>1, ElementOfSeq DEF Last
<1>7. snap # << >>
  BY EmptySeq
<1>. QED BY <1>1, <1>3, <1>5, <1>6, <1>7

\* A replay to a terminal of h rows: the ring and the pad; and on top of the
\* erased screen all rows of the snapshot but the last, and that one.
LEMMA ReplayIs ==
  ASSUME Sent, Rows(surface) \in Nat \ {0}, NEW h \in Nat \ {0}
  PROVE  \E all, past :
           /\ Padded(History, Pad, all) /\ Showing(past, h, << >>, all, Len(all))
           /\ Snapshot = << >> => Replayed(h) = past
           /\ Snapshot # << >> =>
                \E t : /\ Showing(t, h, past.back, Front(Snapshot), Len(Front(Snapshot)))
                      /\ Replayed(h) = Write(t, Last(Snapshot))
<1>1. PICK all : all = History \o [i \in 1..Pad |-> << >>]
  OBVIOUS
<1>2. Padded(History, Pad, all) /\ all \in Seq(Shown)
  <2>1. Padded(History, Pad, all)
    BY <1>1, PadIs DEF Sent
  <2>. QED BY <2>1 DEF Padded
<1>3. PICK past : past = ShowAll(Terminal(h), all)
  OBVIOUS
<1>4. Showing(past, h, << >>, all, Len(all))
  <2>1. << >> \in Seq(Shown)
    BY EmptySeq
  <2>2. PICK blank : blank = Terminal(h)
    OBVIOUS
  <2>3. Showing(blank, h, << >>, all, 0)
    BY <2>2, AtFirst
  <2>. QED BY <1>2, <1>3, <2>1, <2>2, <2>3, AllShown
<1>5. CASE Snapshot = << >>
  <2>1. Replayed(h) = past
    BY <1>1, <1>3, <1>5 DEF Replayed
  <2>. QED BY <1>2, <1>4, <1>5, <2>1
<1>6. CASE Snapshot # << >>
  <2>1. PICK home : home = [past EXCEPT !.rows = [i \in 1..h |-> << >>], !.y = 1]
    OBVIOUS
  <2>2. past \in Terminals(h) /\ past.back \in Seq(Shown)
    BY <1>4 DEF Showing, Shows, Terminals
  <2>3. PICK front : front = Front(Snapshot)
    OBVIOUS
  <2>4. front \in Seq(Shown)
    BY <1>6, <2>3, FrontIs DEF Sent
  <2>5. PICK off : off = past.back
    OBVIOUS
  <2>6. Showing(home, h, off, front, 0)
    BY <2>1, <2>2, <2>5, AtHome
  <2>7. PICK t : t = ShowAll(home, front)
    OBVIOUS
  <2>8. Showing(t, h, off, front, Len(front))
    BY <2>2, <2>4, <2>5, <2>6, <2>7, AllShown
  <2>9. Replayed(h) = Write(t, Last(Snapshot))
    BY <1>1, <1>3, <1>6, <2>1, <2>3, <2>7 DEF Replayed
  <2>10. \E u : /\ Showing(u, h, past.back, Front(Snapshot), Len(Front(Snapshot)))
               /\ Replayed(h) = Write(u, Last(Snapshot))
    BY <2>3, <2>5, <2>8, <2>9
  <2>. QED BY <1>2, <1>4, <1>6, <2>10
<1>. QED BY <1>5, <1>6

\* The pad scrolls the whole ring off a terminal no higher than it and one row.
LEMMA PadScrolls ==
  ASSUME Sent, NEW h \in 1..(PadRows + 1), NEW all, Padded(History, Pad, all)
  PROVE  Past(h, Len(all)) \in Nat /\ Len(History) <= Past(h, Len(all))
<1>1. PICK n \in Nat : n = Len(History)
  BY LenProperties DEF Sent
<1>2. PICK pad \in Nat : pad = Pad
  BY DEF Sent
<1>3. PICK m \in Nat : m = Len(all) /\ m = n + pad
  BY <1>1, <1>2 DEF Padded
<1>4. PadRows \in Nat /\ h \in Nat \ {0} /\ h <= PadRows + 1
  BY CapAssumption
<1>5. n = 0 \/ pad >= PadRows
  <2>1. History = << >> => n = 0
    BY <1>1, EmptySeq
  <2>. QED BY <1>2, <2>1 DEF Sent
<1>6. (IF m < h THEN 0 ELSE m - h + 1) \in Nat /\ n <= IF m < h THEN 0 ELSE m - h + 1
  BY <1>3, <1>4, <1>5
<1>. QED BY <1>1, <1>3, <1>6 DEF Past

\* back begins with off.
Extends(back, off) ==
  /\ back \in Seq(Shown) /\ Len(back) >= Len(off)
  /\ \A j \in 1..Len(off) : back[j] = off[j]

LEMMA BackKept ==
  ASSUME NEW h \in Nat \ {0}, NEW off \in Seq(Shown), NEW rows, NEW i \in Nat, NEW t,
         Showing(t, h, off, rows, i), NEW text \in Shown
  PROVE  Extends(Write(t, text).back, off)
<1>1. t \in Terminals(h) /\ t.back \in Seq(Shown)
  BY DEF Showing, Shows, Terminals
<1>2. Write(t, text).back = t.back
  BY <1>1, WriteIs
<1>3. Len(t.back) >= Len(off)
  <2>1. Past(h, i) \in Nat
    BY DEF Past
  <2>2. Len(off) \in Nat
    BY LenProperties
  <2>. QED BY <2>1, <2>2 DEF Showing, Shows
<1>. QED BY <1>1, <1>2, <1>3 DEF Showing, Shows, Extends

(* Every client whose viewport is at most one row higher than the pad gets *)
(* every line of the ring into its scrollback, and the snapshot that is    *)
(* written after it wipes none, for any pad and any sizes.                 *)
THEOREM ReplayKeeps == Spec => []ReplayKeepsHistory
<1>1. FrameInv => ReplayKeepsHistory
  <2>. SUFFICES ASSUME FrameInv, NEW h \in 1..(PadRows + 1)
                PROVE  /\ Len(Replayed(h).back) >= Len(History)
                       /\ SubSeq(Replayed(h).back, 1, Len(History)) = History
    BY DEF ReplayKeepsHistory
  <2>1. Sent /\ Rows(surface) \in Nat \ {0} /\ h \in Nat \ {0}
    BY SentIs, CapAssumption
  <2>2. PICK all, past :
          /\ Padded(History, Pad, all) /\ Showing(past, h, << >>, all, Len(all))
          /\ Snapshot = << >> => Replayed(h) = past
          /\ Snapshot # << >> =>
               \E t : /\ Showing(t, h, past.back, Front(Snapshot), Len(Front(Snapshot)))
                     /\ Replayed(h) = Write(t, Last(Snapshot))
    BY <2>1, ReplayIs
  <2>3. PICK n \in Nat, d \in Nat : n = Len(History) /\ d = Past(h, Len(all)) /\ n <= d
    BY <2>1, <2>2, PadScrolls, LenProperties DEF Sent
  <2>4. past.back \in Seq(Shown) /\ Len(past.back) = d /\ \A j \in 1..d : past.back[j] = all[j]
    <3>1. Len(<< >>) = 0
      BY EmptySeq
    <3>2. past.back \in Seq(Shown)
      BY <2>2 DEF Showing, Shows, Terminals
    <3>3. Len(past.back) = 0 + d /\ \A j \in 1..d : past.back[0 + j] = all[j]
      BY <2>2, <2>3, <3>1 DEF Showing, Shows
    <3>. QED BY <3>2, <3>3
  <2>5. PICK back : back = Replayed(h).back
    OBVIOUS
  <2>6. back \in Seq(Shown) /\ Len(back) >= d /\ \A j \in 1..d : back[j] = past.back[j]
    <3>1. CASE Snapshot = << >>
      BY <2>2, <2>4, <2>5, <3>1
    <3>2. CASE Snapshot # << >>
      <4>1. PICK t : /\ Showing(t, h, past.back, Front(Snapshot), Len(Front(Snapshot)))
                     /\ Replayed(h) = Write(t, Last(Snapshot))
        BY <2>2, <3>2
      <4>2. Last(Snapshot) \in Shown /\ Len(Front(Snapshot)) \in Nat
        BY <2>1, <3>2, FrontIs, LenProperties DEF Sent
      <4>3. PICK off \in Seq(Shown), text \in Shown, k \in Nat :
              off = past.back /\ text = Last(Snapshot) /\ k = Len(Front(Snapshot))
        BY <2>4, <4>2
      <4>4. Showing(t, h, off, Front(Snapshot), k) /\ back = Write(t, text).back
        BY <2>5, <4>1, <4>3
      <4>5. Extends(back, off)
        BY <2>1, <4>4, BackKept
      <4>. QED BY <2>4, <4>3, <4>5 DEF Extends
    <3>. QED BY <3>1, <3>2
  <2>7. \A j \in 1..n : j \in 1..d /\ back[j] = History[j]
    <3>1. \A j \in 1..n : j \in 1..d
      BY <2>3
    <3>2. \A j \in 1..n : all[j] = History[j]
      BY <2>2, <2>3 DEF Padded
    <3>. QED BY <2>4, <2>6, <3>1, <3>2
  <2>8. SubSeq(back, 1, n) = History
    <3>1. History \in Seq(Shown)
      BY <2>1 DEF Sent
    <3>2. \A j \in 1..n : back[j] \in Shown /\ 1 + j - 1 = j
      BY <2>3, <2>7, <3>1, ElementOfSeq
    <3>3. 1 \in Int /\ n \in Int /\ n - 1 + 1 = n /\ (IF 1 <= n THEN n - 1 + 1 ELSE 0) = n
      OBVIOUS
    <3>4. PICK cut : cut = SubSeq(back, 1, n)
      OBVIOUS
    <3>5. /\ cut \in Seq(Shown) /\ Len(cut) = IF 1 <= n THEN n - 1 + 1 ELSE 0
          /\ \A j \in 1..(n - 1 + 1) : cut[j] = back[1 + j - 1]
      BY <3>2, <3>4, SubSeqProperties
    <3>6. Len(cut) = n /\ \A j \in 1..n : cut[j] = History[j]
      BY <2>7, <3>2, <3>3, <3>5
    <3>7. cut = History
      BY <2>3, <3>1, <3>5, <3>6, SeqEqual
    <3>. QED BY <3>4, <3>7
  <2>9. Len(back) >= n
    BY <2>3, <2>6, LenProperties
  <2>. QED BY <2>3, <2>5, <2>8, <2>9
<1>. QED BY <1>1, FrameKept, PTL

(* A client at least as high as the session, and at most one row higher    *)
(* than the pad, is left with the session's screen, row for row, whatever  *)
(* the ring sent before it.                                                *)
THEOREM ReplayShows == Spec => []ReplayShowsScreen
<1>1. FrameInv => ReplayShowsScreen
  <2>. SUFFICES ASSUME FrameInv, NEW h \in Rows(surface)..(PadRows + 1), NEW i \in 1..h
                PROVE  Replayed(h).rows[i] =
                         IF i <= Rows(surface) THEN Text(surface.rows[i]) ELSE << >>
    BY DEF ReplayShowsScreen
  <2>1. PICK r \in Nat \ {0} : r = Rows(surface)
    BY SentIs
  <2>2. Sent /\ h \in Nat \ {0} /\ h \in 1..(PadRows + 1) /\ r <= h
    BY <2>1, SentIs, CapAssumption
  <2>3. PICK all, past :
          /\ Padded(History, Pad, all) /\ Showing(past, h, << >>, all, Len(all))
          /\ Snapshot = << >> => Replayed(h) = past
          /\ Snapshot # << >> =>
               \E t : /\ Showing(t, h, past.back, Front(Snapshot), Len(Front(Snapshot)))
                     /\ Replayed(h) = Write(t, Last(Snapshot))
    BY <2>1, <2>2, ReplayIs
  <2>4. CASE Snapshot = << >>
    <3>1. \A k \in 1..r : Text(surface.rows[k]) = << >>
      BY <2>1, <2>2, <2>4, EmptySeq DEF Sent
    <3>2. PICK n \in Nat, d \in Nat, m \in Nat :
            n = Len(History) /\ d = Past(h, Len(all)) /\ n <= d /\ m = Len(all)
      BY <2>2, <2>3, PadScrolls, LenProperties DEF Sent, Padded
    <3>3. i + d <= m => i + d \in (n + 1)..m
      BY <3>2
    <3>4. past.rows[i] = IF i + d <= m THEN all[i + d] ELSE << >>
      BY <2>3, <3>2 DEF Showing, Shows
    <3>5. \A k \in (n + 1)..m : all[k] = << >>
      BY <2>3, <3>2 DEF Padded
    <3>6. past.rows[i] = << >>
      BY <3>3, <3>4, <3>5
    <3>7. i <= r => i \in 1..r
      OBVIOUS
    <3>. QED BY <2>1, <2>3, <2>4, <3>1, <3>6, <3>7
  <2>5. CASE Snapshot # << >>
    <3>1. /\ Snapshot \in Seq(Shown) /\ Len(Snapshot) = r
          /\ \A k \in 1..r : Snapshot[k] = Text(surface.rows[k])
      BY <2>1, <2>2, <2>5 DEF Sent
    <3>2. /\ Len(Front(Snapshot)) = r - 1 /\ Last(Snapshot) = Snapshot[r]
          /\ Last(Snapshot) \in Shown
          /\ \A k \in 1..(r - 1) : Front(Snapshot)[k] = Snapshot[k]
      BY <3>1, FrontIs
    <3>3. PICK t : /\ Showing(t, h, past.back, Front(Snapshot), r - 1)
                   /\ Replayed(h) = Write(t, Last(Snapshot))
      BY <2>3, <2>5, <3>2
    <3>4. Past(h, r - 1) = 0
      BY <2>2 DEF Past
    <3>5. /\ t \in Terminals(h) /\ t.y = r - 1 - 0 + 1
          /\ t.rows[i] = IF i + 0 <= r - 1 THEN Front(Snapshot)[i + 0] ELSE << >>
      BY <3>3, <3>4 DEF Showing, Shows
    <3>6. t.y = r /\ i + 0 = i
      BY <3>5
    <3>7. Replayed(h).rows[i] = IF i = r THEN Last(Snapshot) ELSE t.rows[i]
      BY <2>2, <3>2, <3>3, <3>5, <3>6, WriteIs
    <3>8. CASE i = r
      <4>1. r \in 1..r
        OBVIOUS
      <4>. QED BY <2>1, <3>1, <3>2, <3>7, <3>8, <4>1
    <3>9. CASE i # r
      <4>1. i <= r => i \in 1..(r - 1) /\ i \in 1..r /\ i <= r - 1
        BY <3>9
      <4>2. ~(i <= r) => ~(i <= r - 1)
        OBVIOUS
      <4>. QED BY <2>1, <3>1, <3>2, <3>5, <3>6, <3>7, <3>9, <4>1, <4>2
    <3>. QED BY <3>8, <3>9
  <2>. QED BY <2>4, <2>5
<1>. QED BY <1>1, FrameKept, PTL
===============================================================================
