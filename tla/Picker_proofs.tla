----------------------------- MODULE Picker_proofs -----------------------------
(***************************************************************************)
(* The picker acts on what the operator saw, for any sessions, statuses,   *)
(* jump keys and number of keys waiting.  The sort of the listing is proved *)
(* to lose and to double none of it, by counting the rows before each.     *)
(***************************************************************************)
EXTENDS Picker, FiniteSetTheorems, SequenceTheorems, TLAPS

Row     == [name : Name, status : Statuses]
Pressed == [key : KeyCode, saw : Name \cup {None}]

\* The rows are sessions, each once; the selection is in them.
RowsInv ==
  /\ DOMAIN status \subseteq Name /\ status \in [DOMAIN status -> Statuses]
  /\ IsFiniteSet(DOMAIN status)
  /\ rows \in Seq(Row)
  /\ \A i, j \in DOMAIN rows : rows[i].name = rows[j].name => i = j
  /\ selected \in Nat
  /\ rows # << >> => selected \in DOMAIN rows

\* What is drawn is the selection, and so is what was drawn when the next key
\* was pressed, unless a refresh has lost it since; keys pressed behind a waiting
\* one are not promised anything.  What is restarted is a session.
SeenInv ==
  /\ queue \in Seq(Pressed) /\ Len(queue) <= MaxQueue
  /\ drawn \in Name \cup {None} /\ target \in Name \cup {None}
  /\ phase = "restart" => target # None
  /\ drawn # None => drawn = Selected
  /\ queue # << >> /\ Head(queue).saw # None =>
       \/ Head(queue).saw = Selected
       \/ phase \in {"keys", "quit"} /\ RowOf(rows, Head(queue).saw) = {}
  /\ \A i \in 2..Len(queue) : queue[i].saw = None

\* Space is pending only right after it was pressed.
LeaderInv ==
  /\ help \in BOOLEAN /\ leader \in BOOLEAN
  /\ phase \in {"list", "keys", "away", "restart", "quit"}
  /\ leader => last = " " /\ ~help

Inv == RowsInv /\ SeenInv /\ LeaderInv

-----------------------------------------------------------------------------
(* Lists and the selection                                                 *)

\* What a sort is given: rows of different names.
Sortable(S) ==
  S \subseteq Row /\ IsFiniteSet(S) /\ \A a, b \in S : a.name = b.name => a = b

\* What it promises: each row is there, once, and they are in order.
Sorts(S) ==
  /\ SortRows(S) \in Seq(S)
  /\ \A e \in S : \E i \in DOMAIN SortRows(S) : SortRows(S)[i] = e
  /\ \A i, j \in DOMAIN SortRows(S) : SortRows(S)[i] = SortRows(S)[j] => i = j
  /\ \A i, j \in DOMAIN SortRows(S) : i < j => Before(SortRows(S)[i], SortRows(S)[j])

\* Ranks and names are numbers; different statuses have different ranks.
LEMMA RankFacts ==
  /\ \A e \in Row : Rank[e.status] \in Nat /\ e.name \in Nat
  /\ \A s, t \in Statuses : Rank[s] = Rank[t] => s = t
<1>1. /\ Rank["blocked"] = 0 /\ Rank["idle"] = 1 /\ Rank["running"] = 2
      /\ Rank["unknown"] = 3 /\ Rank["dead"] = 4
  BY DEF Rank
<1>2. \A s \in Statuses : s = "blocked" \/ s = "idle" \/ s = "running" \/ s = "unknown" \/ s = "dead"
  BY StatusAssumption
<1>3. \A s \in Statuses : Rank[s] \in Nat
  BY <1>1, <1>2
<1>4. \A s, t \in Statuses : Rank[s] = Rank[t] => s = t
  BY <1>1, <1>2
<1>. QED BY <1>3, <1>4, NameAssumption DEF Row

\* The order is strict and total on rows of different names.
LEMMA Order ==
  ASSUME NEW S, Sortable(S)
  PROVE  /\ \A a, b \in S : a = b \/ Before(a, b) \/ Before(b, a)
         /\ \A a \in S : ~Before(a, a)
         /\ \A a, b, c \in S : Before(a, b) /\ Before(b, c) => Before(a, c)
<1>1. \A e \in S : Rank[e.status] \in Nat /\ e.name \in Nat
  BY RankFacts DEF Sortable
<1>2. \A a, b \in S : a.name = b.name => a = b
  BY DEF Sortable
<1>. QED BY <1>1, <1>2 DEF Before

\* A row has fewer rows before it than one that comes after it.
LEMMA AboveGrows ==
  ASSUME NEW S, Sortable(S)
  PROVE  /\ \A e \in S : /\ Cardinality(Above(S, e)) \in Nat
                         /\ Cardinality(Above(S, e)) < Cardinality(S)
         /\ \A a, b \in S : Before(a, b) =>
              Cardinality(Above(S, a)) < Cardinality(Above(S, b))
<1>1. IsFiniteSet(S) /\ Cardinality(S) \in Nat
  BY FS_CardinalityType DEF Sortable
<1>2. \A e \in S : Above(S, e) \in SUBSET S /\ e \notin Above(S, e)
  BY Order DEF Above
<1>3. \A e \in S : IsFiniteSet(Above(S, e)) /\ Cardinality(Above(S, e)) \in Nat
  BY <1>1, <1>2, FS_Subset, FS_CardinalityType
<1>4. ASSUME NEW e \in S PROVE Cardinality(Above(S, e)) < Cardinality(S)
  <2>1. Above(S, e) # S
    BY <1>2
  <2>2. /\ Cardinality(Above(S, e)) <= Cardinality(S)
        /\ Cardinality(S) = Cardinality(Above(S, e)) => S = Above(S, e)
    BY <1>1, <1>2, FS_Subset
  <2>. QED BY <1>1, <1>3, <2>1, <2>2
<1>5. ASSUME NEW a \in S, NEW b \in S, Before(a, b)
      PROVE  Cardinality(Above(S, a)) < Cardinality(Above(S, b))
  <2>1. Above(S, a) \in SUBSET Above(S, b)
    BY <1>5, Order DEF Above
  <2>2. a \in Above(S, b) /\ a \notin Above(S, a)
    BY <1>2, <1>5 DEF Above
  <2>3. /\ Cardinality(Above(S, a)) <= Cardinality(Above(S, b))
        /\ Cardinality(Above(S, b)) = Cardinality(Above(S, a))
             => Above(S, b) = Above(S, a)
    BY <1>3, <2>1, FS_Subset
  <2>. QED BY <1>3, <2>2, <2>3
<1>. QED BY <1>3, <1>4, <1>5

\* Sorting loses none, doubles none and puts them in order: counting the rows
\* before each is an injection into as many places as there are rows, so every
\* place is taken (sort_rows).
LEMMA SortFacts ==
  ASSUME NEW S, Sortable(S)
  PROVE  Sorts(S)
<1>. DEFINE n == Cardinality(S)
            place == [e \in S |-> Cardinality(Above(S, e)) + 1]
            sorted == SortRows(S)
<1>1. IsFiniteSet(S) /\ n \in Nat
  BY FS_CardinalityType DEF Sortable
<1>2. \A e \in S : place[e] = Cardinality(Above(S, e)) + 1 /\ place[e] \in 1..n
  BY <1>1, AboveGrows
<1>3. \A a, b \in S : Before(a, b) => place[a] < place[b]
  BY <1>2, AboveGrows
<1>4. \A a, b \in S : place[a] = place[b] => a = b
  BY <1>2, <1>3, Order
<1>5. place \in [S -> 1..n]
  BY <1>2
<1>6. IsFiniteSet(1..n) /\ Cardinality(1..n) = n
  BY <1>1, FS_Interval
<1>7. place \in Injection(S, 1..n)
  BY <1>4, <1>5 DEF Injection, IsInjective
<1>8. place \in Surjection(S, 1..n)
  BY <1>6, <1>7, FS_Injection
<1>9. \A i \in 1..n : \E e \in S : place[e] = i
  BY <1>8 DEF Surjection
<1>10. DOMAIN sorted = 1..n
       /\ \A i \in 1..n : sorted[i] = CHOOSE e \in S : Cardinality(Above(S, e)) = i - 1
  BY DEF SortRows
<1>11. ASSUME NEW i \in 1..n PROVE sorted[i] \in S /\ place[sorted[i]] = i
  <2>1. PICK e \in S : place[e] = i
    BY <1>9
  <2>2. Cardinality(Above(S, e)) = i - 1
    BY <1>1, <1>2, <2>1, AboveGrows
  <2>3. sorted[i] \in S /\ Cardinality(Above(S, sorted[i])) = i - 1
    BY <1>10, <2>2
  <2>. QED BY <1>1, <1>2, <2>3
<1>12. \A e \in S : sorted[place[e]] = e
  BY <1>2, <1>4, <1>11
<1>13. sorted \in [1..n -> S]
  BY <1>10, <1>11 DEF SortRows
<1>. HIDE DEF place, n
<1>14. sorted \in Seq(S)
  BY <1>1, <1>13, SeqDef
<1>15. \A e \in S : \E i \in DOMAIN sorted : sorted[i] = e
  BY <1>2, <1>10, <1>12
<1>16. \A i, j \in DOMAIN sorted : sorted[i] = sorted[j] => i = j
  BY <1>10, <1>11
<1>17. ASSUME NEW i \in DOMAIN sorted, NEW j \in DOMAIN sorted, i < j
       PROVE  Before(sorted[i], sorted[j])
  <2>1. i \in 1..n /\ j \in 1..n /\ i \in Nat /\ j \in Nat
    BY <1>1, <1>10
  <2>2. sorted[i] \in S /\ sorted[j] \in S /\ place[sorted[i]] = i /\ place[sorted[j]] = j
    BY <1>11, <2>1
  <2>3. sorted[i] # sorted[j] /\ ~Before(sorted[j], sorted[i])
    BY <1>3, <1>17, <2>1, <2>2
  <2>. QED BY <2>2, <2>3, Order
<1>. QED BY <1>14, <1>15, <1>16, <1>17 DEF Sorts

\* What a listing holds.
LEMMA ListedFacts ==
  ASSUME DOMAIN status \subseteq Name, status \in [DOMAIN status -> Statuses],
         IsFiniteSet(DOMAIN status)
  PROVE  /\ Listed \in Seq(Row)
         /\ \A i \in DOMAIN Listed : Listed[i].name \in DOMAIN status
         /\ \A i, j \in DOMAIN Listed : Listed[i].name = Listed[j].name => i = j
         /\ \A n \in DOMAIN status : RowOf(Listed, n) # {}
<1>. DEFINE row == [n \in DOMAIN status |-> [name |-> n, status |-> status[n]]]
            S   == {[name |-> n, status |-> status[n]] : n \in DOMAIN status}
<1>1. \A n \in DOMAIN status : row[n] \in S /\ row[n].name = n
  OBVIOUS
<1>2. \A e \in S : /\ e \in Row /\ e.name \in DOMAIN status
                   /\ e = [name |-> e.name, status |-> status[e.name]]
  BY DEF Row
<1>3. row \in Surjection(DOMAIN status, S)
  BY DEF Surjection
<1>4. IsFiniteSet(S)
  BY <1>3, FS_Surjection
<1>5. Listed = SortRows(S)
  BY DEF Listed
<1>. HIDE DEF S, row
<1>6. Sortable(S)
  BY <1>2, <1>4 DEF Sortable
<1>7. Listed \in Seq(S) /\ (\A e \in S : \E i \in DOMAIN Listed : Listed[i] = e)
      /\ \A i, j \in DOMAIN Listed : Listed[i] = Listed[j] => i = j
  BY <1>5, <1>6, SortFacts DEF Sorts
<1>8. \A i \in DOMAIN Listed : Listed[i] \in S
  BY <1>7, ElementOfSeq, LenProperties
<1>9. Listed \in Seq(Row)
  BY <1>2, <1>7, S \subseteq Row, SeqDef
<1>10. \A i, j \in DOMAIN Listed : Listed[i].name = Listed[j].name => i = j
  BY <1>2, <1>7, <1>8
<1>11. ASSUME NEW n \in DOMAIN status PROVE RowOf(Listed, n) # {}
  <2>1. row[n] \in S /\ row[n].name = n
    BY <1>1
  <2>2. PICK i \in DOMAIN Listed : Listed[i] = row[n]
    BY <1>7, <2>1
  <2>. QED BY <2>1, <2>2 DEF RowOf
<1>. QED BY <1>2, <1>8, <1>9, <1>10, <1>11

\* The selection is a row's name, or there is none.
LEMMA SelectedFacts ==
  ASSUME RowsInv
  PROVE  /\ Selected \in Name \cup {None}
         /\ rows # << >> => Selected = rows[selected].name
         /\ rows = << >> => Selected = None
         /\ \A i \in DOMAIN rows : i \in Nat /\ i \in 1..Len(rows)
<1>1. DOMAIN rows = 1..Len(rows) /\ Len(rows) \in Nat
  BY LenProperties DEF RowsInv
<1>2. rows = << >> => DOMAIN rows = {}
  OBVIOUS
<1>3. \A i \in DOMAIN rows : rows[i].name \in Name
  <2>1. \A i \in DOMAIN rows : rows[i] \in Row
    BY <1>1, ElementOfSeq DEF RowsInv
  <2>. QED BY <2>1 DEF Row
<1>. QED BY <1>1, <1>2, <1>3 DEF RowsInv, Selected, NameAt

\* Moving stays within the rows.
LEMMA MoveStays ==
  ASSUME RowsInv, NEW input
  PROVE  Move(input) \in Nat /\ (rows # << >> => Move(input) \in DOMAIN rows)
<1>. DEFINE n == Len(rows)
<1>1. DOMAIN rows = 1..n /\ n \in Nat /\ (rows # << >> => n # 0)
  BY LenProperties, EmptySeq DEF RowsInv
<1>2. CASE n = 0
  BY <1>1, <1>2 DEF Move, RowsInv
<1>3. CASE n # 0
  <2>1. rows # << >> /\ selected \in 1..n
    BY <1>1, <1>3, EmptySeq DEF RowsInv
  <2>2. selected % n \in 0..(n - 1)
    BY <1>1, <1>3, <2>1
  <2>3. (selected + n - 2) % n \in 0..(n - 1)
    BY <1>1, <1>3, <2>1
  <2>. QED BY <1>1, <1>3, <2>2, <2>3 DEF Move
<1>. QED BY <1>2, <1>3

-----------------------------------------------------------------------------
(* Keys                                                                    *)

\* What the keys mean that the properties are about.
LEMMA InputFacts ==
  ASSUME NEW k
  PROVE  /\ InputOf(k) = "leader" => k = " "
         /\ InputOf(k) = "attach" => k = "enter"
         /\ k \in {"enter", "r"} => InputOf(k) \in {"attach", "restart"}
         /\ InputOf(k) = "jump" => k \in DOMAIN Jumps
         /\ InputOf(k) \in {"leader", "help", "attach", "quit", "restart", "down", "up",
                            "jump", "ignored"}
  BY DEF InputOf

\* Reading on, or acting, keeps what is known of the keys waiting, as long as
\* nothing is drawn.
LEMMA ReadOnKeeps ==
  ASSUME Inv, queue # << >>, ReadOn, drawn' = None
  PROVE  SeenInv' /\ phase' \in {"list", "keys"}
<1>1. queue \in Seq(Pressed)
  BY DEF Inv, SeenInv
<1>2. /\ Tail(queue) \in Seq(Pressed) /\ Len(Tail(queue)) = Len(queue) - 1
      /\ \A i \in 1..Len(Tail(queue)) : Tail(queue)[i] = queue[i + 1]
  BY <1>1, HeadTailProperties
<1>3. Len(queue) \in Nat \ {0} /\ Len(Tail(queue)) \in Nat
  BY <1>1, <1>2, EmptySeq, LenProperties
<1>4. queue' = Tail(queue) /\ target' = target
  BY DEF ReadOn
<1>5. \A i \in 1..Len(queue') : queue'[i].saw = None
  BY <1>2, <1>3, <1>4 DEF Inv, SeenInv
<1>6. queue' # << >> => Head(queue') = queue'[1] /\ 1 \in 1..Len(queue')
  BY <1>2, <1>3, <1>4, EmptySeq, HeadTailProperties
<1>7. queue' # << >> => Head(queue').saw = None
  BY <1>5, <1>6
<1>8. Len(queue') <= MaxQueue
  BY <1>2, <1>3, <1>4, QueueAssumption DEF Inv, SeenInv
<1>9. phase' \in {"list", "keys"}
  BY DEF ReadOn
<1>10. \A i \in 2..Len(queue') : queue'[i].saw = None
  BY <1>2, <1>3, <1>4, <1>5
<1>. QED BY <1>2, <1>4, <1>7, <1>8, <1>9, <1>10 DEF Inv, SeenInv

LEMMA ActsKeeps ==
  ASSUME Inv, NEW to \in Name \cup {None}, NEW where, Acts(to, where), drawn' = None,
         where = "restart" => to # None
  PROVE  SeenInv' /\ phase' = where /\ target' = to
<1>1. << >> \in Seq(Pressed) /\ Len(<< >>) = 0
  BY EmptySeq
<1>. QED BY <1>1, QueueAssumption DEF Acts, SeenInv

\* A list key moves within the rows, and acts on the selection only.
LEMMA HandleListKeeps ==
  ASSUME Inv, NEW input, NEW k, queue # << >>, HandleList(input, k), drawn' = None
  PROVE  /\ SeenInv' /\ help' \in BOOLEAN
         /\ selected' \in Nat /\ (rows # << >> => selected' \in DOMAIN rows)
         /\ phase' \in {"list", "keys", "away", "restart", "quit"}
         /\ phase' = "away" => input = "attach"
         /\ input \in {"attach", "restart"} /\ phase' \in {"away", "restart"} => target' = Selected
<1>1. selected' \in Nat /\ (rows # << >> => selected' \in DOMAIN rows) /\ help' \in BOOLEAN
  BY MoveStays DEF HandleList, Inv, RowsInv
<1>2. Selected \in Name \cup {None}
  BY SelectedFacts DEF Inv
<1>3. CASE ReadOn
  BY <1>1, <1>3, ReadOnKeeps
<1>4. CASE input = "attach" /\ Acts(Selected, "away")
  BY <1>1, <1>2, <1>4, ActsKeeps
<1>5. CASE input = "restart" /\ StatusAt(selected) = "dead" /\ Acts(Selected, "restart")
  <2>1. selected \in DOMAIN rows
    BY <1>5 DEF StatusAt
  <2>2. rows \in Seq(Row) /\ selected \in 1..Len(rows) /\ rows # << >>
    BY <2>1, LenProperties DEF Inv, RowsInv
  <2>3. rows[selected] \in Row
    BY <2>2, ElementOfSeq
  <2>4. Selected \in Name
    BY <2>2, <2>3, SelectedFacts DEF Inv, Row
  <2>. QED BY <1>1, <1>5, <2>4, ActsKeeps, NameAssumption
<1>6. CASE input = "quit" /\ Acts(None, "quit")
  BY <1>1, <1>6, ActsKeeps
<1>7. \/ ReadOn
      \/ input = "attach" /\ Acts(Selected, "away")
      \/ input = "restart" /\ StatusAt(selected) = "dead" /\ Acts(Selected, "restart")
      \/ input = "quit" /\ Acts(None, "quit")
  BY DEF HandleList, Acts, ReadOn
<1>. QED BY <1>3, <1>4, <1>5, <1>6, <1>7

\* A jump selects a row; it leads away with Space before it only.
LEMMA JumpKeeps ==
  ASSUME Inv, NEW k \in DOMAIN Jumps, queue # << >>, Jump(k), drawn' = None
  PROVE  /\ SeenInv'
         /\ selected' \in Nat /\ (rows # << >> => selected' \in DOMAIN rows)
         /\ phase' \in {"list", "keys", "away"}
<1>1. CASE ReadOn /\ UNCHANGED selected
  BY <1>1, ReadOnKeeps DEF Inv, RowsInv
<1>2. CASE selected' \in RowOf(rows, Jumps[k]) /\ ReadOn
  BY <1>2, ReadOnKeeps, SelectedFacts DEF Inv, RowOf
<1>3. CASE selected' \in RowOf(rows, Jumps[k]) /\ Acts(Jumps[k], "away")
  BY <1>3, ActsKeeps, SelectedFacts, JumpsAssumption DEF Inv, RowOf
<1>. QED BY <1>1, <1>2, <1>3 DEF Jump

\* Whatever a key does, the rows stay, the selection is one of them, Enter and
\* restart act on it, and only a key after Space leads to a jump.
LEMMA HandleKeeps ==
  ASSUME Inv, NEW k, queue # << >>, Handle(InputOf(k), k), drawn' = None, last' = k
  PROVE  /\ SeenInv' /\ LeaderInv'
         /\ selected' \in Nat /\ (rows # << >> => selected' \in DOMAIN rows)
         /\ k \in {"enter", "r"} /\ phase' \in {"away", "restart"} => target' = Selected
         /\ phase' = "away" /\ k # "enter" => last = " "
<1>. DEFINE input == InputOf(k)
<1>1. /\ selected \in Nat /\ (rows # << >> => selected \in DOMAIN rows)
      /\ help \in BOOLEAN /\ leader \in BOOLEAN /\ (leader => last = " " /\ ~help)
  BY DEF Inv, RowsInv, LeaderInv
<1>2. CASE help /\ help' = (input \notin {"help", "quit"}) /\ ReadOn /\ UNCHANGED <<selected, leader>>
  <2>1. SeenInv' /\ phase' \in {"list", "keys"} /\ ~leader' /\ help' \in BOOLEAN
    BY <1>1, <1>2, ReadOnKeeps
  <2>. QED BY <1>1, <1>2, <2>1 DEF LeaderInv
<1>3. CASE ~help /\ leader /\ HandleLeader(input, k)
  <2>1. last = " " /\ leader' = FALSE
    BY <1>1, <1>3 DEF HandleLeader
  <2>2. CASE input \in {"leader", "quit"} /\ ReadOn /\ UNCHANGED <<selected, help>>
    BY <1>1, <2>1, <2>2, ReadOnKeeps DEF LeaderInv
  <2>3. CASE input = "jump" /\ Jump(k) /\ UNCHANGED help
    <3>1. k \in DOMAIN Jumps /\ k \notin {"enter", "r"}
      BY <2>3, InputFacts
    <3>. QED BY <1>1, <2>1, <2>3, <3>1, JumpKeeps DEF LeaderInv
  <2>4. CASE HandleList(input, k)
    BY <1>1, <2>1, <2>4, HandleListKeeps, InputFacts DEF LeaderInv
  <2>. QED BY <1>3, <2>2, <2>3, <2>4 DEF HandleLeader
<1>4. CASE ~help /\ ~leader /\ input \in {"leader", "jump"} /\ leader' = (input = "leader")
           /\ ReadOn /\ UNCHANGED <<selected, help>>
  <2>1. leader' => k = " "
    BY <1>4, InputFacts
  <2>2. leader' \in BOOLEAN /\ help' = FALSE
    BY <1>1, <1>4
  <2>. QED BY <1>1, <1>4, <2>1, <2>2, ReadOnKeeps DEF LeaderInv
<1>5. CASE ~help /\ ~leader /\ HandleList(input, k) /\ UNCHANGED leader
  BY <1>1, <1>5, HandleListKeeps, InputFacts DEF LeaderInv
<1>. QED BY <1>2, <1>3, <1>4, <1>5 DEF Handle

-----------------------------------------------------------------------------
(* The steps                                                               *)

\* Reading a key, and what it may lead to.
LEMMA ReadKeyKeeps ==
  ASSUME Inv, ReadKey
  PROVE  /\ Inv'
         /\ Head(queue).key \in {"enter", "r"} /\ phase' \in {"away", "restart"} =>
              target' = Selected
         /\ phase' = "away" /\ Head(queue).key # "enter" => last = " "
<1>. DEFINE k == Head(queue).key
<1>1. queue # << >> /\ drawn' = None /\ UNCHANGED <<status, rows>>
  BY DEF ReadKey, picker
<1>2. CASE InputOf(k) = "ignored" /\ ReadOn /\ UNCHANGED <<picker, last>>
  <2>1. SeenInv' /\ phase' \in {"list", "keys"}
    BY <1>1, <1>2, ReadOnKeeps
  <2>2. RowsInv' /\ LeaderInv'
    BY <1>1, <1>2, <2>1 DEF picker, Inv, RowsInv, LeaderInv
  <2>. QED BY <2>1, <2>2 DEF Inv
<1>3. CASE Handle(InputOf(k), k) /\ last' = k
  <2>. HIDE DEF k
  <2>1. /\ SeenInv' /\ LeaderInv'
        /\ selected' \in Nat /\ (rows # << >> => selected' \in DOMAIN rows)
        /\ k \in {"enter", "r"} /\ phase' \in {"away", "restart"} => target' = Selected
        /\ phase' = "away" /\ k # "enter" => last = " "
    BY <1>1, <1>3, HandleKeeps
  <2>2. RowsInv'
    BY <1>1, <2>1 DEF Inv, RowsInv
  <2>. QED BY <2>1, <2>2 DEF Inv, k
<1>. QED BY <1>2, <1>3 DEF ReadKey

\* A refresh takes the selection to where its session is now.
LEMMA DrawKeeps ==
  ASSUME Inv, Draw
  PROVE  Inv'
<1>1. LeaderInv'
  BY DEF Draw, Inv, LeaderInv
<1>2. RowsInv' /\ (Selected # None => Selected' = Selected \/ RowOf(rows', Selected) = {})
  <2>1. CASE UNCHANGED <<rows, selected>>
    BY <2>1 DEF Draw, Inv, RowsInv, Selected
  <2>2. CASE rows' = Listed /\ selected' = PlaceOf(rows')
    <3>. DEFINE rs == Listed
    <3>1. /\ DOMAIN status \subseteq Name /\ status \in [DOMAIN status -> Statuses]
          /\ IsFiniteSet(DOMAIN status)
          /\ UNCHANGED status
      BY DEF Draw, Inv, RowsInv
    <3>2. /\ rs \in Seq(Row)
          /\ \A i \in DOMAIN rs : rs[i].name \in DOMAIN status
          /\ \A i, j \in DOMAIN rs : rs[i].name = rs[j].name => i = j
      BY <3>1, ListedFacts
    <3>. HIDE DEF rs
    <3>3. DOMAIN rs = 1..Len(rs) /\ Len(rs) \in Nat /\ (rs # << >> => 1 \in DOMAIN rs)
      BY <3>2, LenProperties, EmptySeq
    <3>4. RowOf(rs, Selected) # {} => PlaceOf(rs) \in RowOf(rs, Selected)
      BY DEF PlaceOf
    <3>5. RowOf(rs, Selected) = {} => PlaceOf(rs) = 1
      BY DEF PlaceOf
    <3>6. RowOf(rs, Selected) \subseteq DOMAIN rs
      BY DEF RowOf
    <3>7. selected' = PlaceOf(rs) /\ rows' = rs
      BY <2>2 DEF rs
    <3>8. selected' \in Nat /\ (rs # << >> => selected' \in DOMAIN rs)
      BY <3>3, <3>4, <3>5, <3>6, <3>7
    <3>9. RowsInv'
      BY <3>1, <3>2, <3>7, <3>8 DEF RowsInv
    <3>10. ASSUME RowOf(rows', Selected) # {} PROVE Selected' = Selected
      <4>1. selected' \in RowOf(rs, Selected)
        BY <3>4, <3>7, <3>10
      <4>2. selected' \in DOMAIN rs /\ rs[selected'].name = Selected
        BY <4>1 DEF RowOf
      <4>. QED BY <3>7, <4>2 DEF Selected, NameAt
    <3>. QED BY <3>9, <3>10
  <2>. QED BY <2>1, <2>2 DEF Draw
<1>3. drawn' = Selected' /\ phase = "list" /\ phase' = "keys" /\ UNCHANGED <<queue, target>>
  BY DEF Draw, Selected
<1>4. Selected' \in Name \cup {None}
  <2>1. \A i \in DOMAIN rows' : rows'[i] \in Row
    BY <1>2, ElementOfSeq, LenProperties DEF RowsInv
  <2>. QED BY <2>1 DEF Row, Selected, NameAt
<1>5. SeenInv'
  BY <1>2, <1>3, <1>4 DEF Inv, SeenInv
<1>. QED BY <1>1, <1>2, <1>5 DEF Inv

\* A key pressed on what is drawn; one behind another is not promised anything.
LEMMA PressKeeps ==
  ASSUME Inv, NEW k \in KeyCode, Press(k)
  PROVE  Inv'
<1>. DEFINE e == [key |-> k, saw |-> IF queue = << >> THEN drawn ELSE None]
<1>1. queue \in Seq(Pressed) /\ Len(queue) \in Nat /\ drawn \in Name \cup {None}
  BY LenProperties DEF Inv, SeenInv
<1>2. e \in Pressed
  BY <1>1 DEF Pressed
<1>3. queue' = Append(queue, e) /\ Len(queue) < MaxQueue
      /\ UNCHANGED <<status, picker, drawn, phase, target, last>>
  BY DEF Press
<1>4. /\ queue' \in Seq(Pressed) /\ Len(queue') = Len(queue) + 1
      /\ \A i \in 1..Len(queue) : queue'[i] = queue[i]
      /\ queue'[Len(queue) + 1] = e
  BY <1>1, <1>2, <1>3, AppendProperties
<1>5. Head(queue') = queue'[1]
  BY <1>1, <1>4, EmptySeq, HeadTailProperties
<1>6. queue # << >> => Head(queue) = queue[1] /\ Len(queue) \in Nat \ {0}
  BY <1>1, EmptySeq, HeadTailProperties
<1>7. queue = << >> => Len(queue) = 0
  OBVIOUS
<1>8. Selected' = Selected /\ rows' = rows
  BY <1>3 DEF picker, Selected
<1>9. Head(queue').saw # None =>
        \/ Head(queue').saw = Selected
        \/ phase \in {"keys", "quit"} /\ RowOf(rows, Head(queue').saw) = {}
  <2>1. CASE queue = << >>
    BY <1>4, <1>5, <1>7, <2>1 DEF Inv, SeenInv
  <2>2. CASE queue # << >>
    BY <1>1, <1>4, <1>5, <1>6, <2>2 DEF Inv, SeenInv
  <2>. QED BY <2>1, <2>2
<1>10. \A i \in 2..Len(queue') : queue'[i].saw = None
  <2>. SUFFICES ASSUME NEW i \in 2..Len(queue') PROVE queue'[i].saw = None
    OBVIOUS
  <2>1. CASE i = Len(queue) + 1
    BY <1>1, <1>4, <1>7, <2>1
  <2>2. CASE i # Len(queue) + 1
    <3>1. i \in 2..Len(queue)
      BY <1>1, <1>4, <2>2
    <3>. QED BY <1>1, <1>4, <3>1 DEF Inv, SeenInv
  <2>. QED BY <2>1, <2>2
<1>11. Len(queue') <= MaxQueue
  BY <1>1, <1>3, <1>4, QueueAssumption
<1>12. RowsInv' /\ LeaderInv'
  BY <1>3 DEF picker, Inv, RowsInv, LeaderInv
<1>. HIDE DEF e
<1>13. SeenInv'
  BY <1>3, <1>4, <1>8, <1>9, <1>10, <1>11 DEF Inv, SeenInv
<1>. QED BY <1>12, <1>13 DEF Inv

\* Whatever becomes of the daemon's table, rows and keys stay.
LEMMA OthersKeep ==
  ASSUME Inv, UNCHANGED <<picker, drawn, queue, last>>,
         queue = << >> \/ phase' = phase \/ phase \notin {"keys", "quit"} \/ phase' = "quit",
         DOMAIN status' \subseteq Name,
         status' \in [DOMAIN status' -> Statuses], IsFiniteSet(DOMAIN status'),
         target' \in Name \cup {None},
         phase' = "restart" => phase = "restart" /\ target' = target,
         phase' \in {"list", "keys", "away", "restart", "quit"}
  PROVE  Inv'
<1>1. RowsInv'
  BY DEF picker, Inv, RowsInv
<1>2. Selected' = Selected /\ rows' = rows
  BY DEF picker, Selected
<1>3. SeenInv'
  BY <1>2 DEF Inv, SeenInv
<1>4. LeaderInv'
  BY DEF picker, Inv, LeaderInv
<1>. QED BY <1>1, <1>3, <1>4 DEF Inv

LEMMA BecomesKeeps ==
  ASSUME NEW n \in Name, NEW st \in Statuses, Becomes(n, st), DOMAIN status \subseteq Name,
         status \in [DOMAIN status -> Statuses], IsFiniteSet(DOMAIN status)
  PROVE  /\ DOMAIN status' \subseteq Name /\ status' \in [DOMAIN status' -> Statuses]
         /\ IsFiniteSet(DOMAIN status')
<1>1. DOMAIN status' = DOMAIN status \cup {n} /\ status' \in [DOMAIN status' -> Statuses]
  BY DEF Becomes
<1>. QED BY <1>1, FS_AddElement

LEMMA InitInv == Init => Inv
<1>. SUFFICES ASSUME Init PROVE Inv
  OBVIOUS
<1>1. PICK S \in SUBSET Name : IsFiniteSet(S) /\ status \in [S -> Statuses]
  BY DEF Init
<1>2. /\ DOMAIN status \subseteq Name /\ status \in [DOMAIN status -> Statuses]
      /\ IsFiniteSet(DOMAIN status)
  BY <1>1
<1>3. rows = Listed /\ selected = 1
  BY DEF Init
<1>4. rows \in Seq(Row)
      /\ \A i, j \in DOMAIN rows : rows[i].name = rows[j].name => i = j
  BY <1>2, <1>3, ListedFacts
<1>5. rows # << >> => 1 \in DOMAIN rows
  BY <1>4, LenProperties, EmptySeq
<1>6. RowsInv
  BY <1>2, <1>3, <1>4, <1>5 DEF RowsInv
<1>7. queue = << >> /\ << >> \in Seq(Pressed) /\ Len(<< >>) = 0
  BY EmptySeq DEF Init
<1>8. SeenInv
  BY <1>7, QueueAssumption DEF Init, SeenInv
<1>9. LeaderInv
  BY DEF Init, LeaderInv
<1>. QED BY <1>6, <1>8, <1>9 DEF Inv

LEMMA NextInv ==
  ASSUME Inv, [Next]_vars
  PROVE  Inv'
<1>1. /\ DOMAIN status \subseteq Name /\ status \in [DOMAIN status -> Statuses]
      /\ IsFiniteSet(DOMAIN status)
      /\ target \in Name \cup {None} /\ phase \in {"list", "keys", "away", "restart", "quit"}
  BY DEF Inv, RowsInv, SeenInv, LeaderInv
<1>2. CASE Draw
  BY <1>2, DrawKeeps
<1>3. CASE ListFails \/ NoKey \/ Terminated \/ Back
  BY <1>1, <1>3, OthersKeep DEF ListFails, NoKey, Terminated, Back
<1>4. CASE ReadKey
  BY <1>4, ReadKeyKeeps
<1>5. CASE Restart
  <2>1. CASE UNCHANGED status
    BY <1>1, <1>5, <2>1, OthersKeep DEF Restart
  <2>2. CASE Becomes(target, "running")
    <3>1. target \in Name
      BY <1>1, <1>5 DEF Inv, SeenInv, Restart
    <3>. QED BY <1>1, <1>5, <2>2, <3>1, RunningAssumption, BecomesKeeps, OthersKeep DEF Restart
  <2>. QED BY <1>5, <2>1, <2>2 DEF Restart
<1>6. CASE Changes
  BY <1>1, <1>6, BecomesKeeps, OthersKeep DEF Changes
<1>7. CASE DaemonRestarts
  <2>1. DOMAIN status' = {} /\ status' \in [DOMAIN status' -> Statuses] /\ IsFiniteSet({})
    BY <1>7, FS_EmptySet DEF DaemonRestarts
  <2>. QED BY <1>1, <1>7, <2>1, OthersKeep DEF DaemonRestarts
<1>8. CASE \E k \in KeyCode : Press(k)
  BY <1>8, PressKeeps
<1>9. CASE UNCHANGED vars
  BY <1>1, <1>9, OthersKeep DEF vars
<1>. QED BY <1>2, <1>3, <1>4, <1>5, <1>6, <1>7, <1>8, <1>9 DEF Next

LEMMA AlwaysInv == Spec => []Inv
  BY InitInv, NextInv, PTL DEF Spec

-----------------------------------------------------------------------------
\* The rows name each session once, the selection is one of them, and no more
\* keys wait than there is room for (Picker::replace_rows, move_sel, jump).
THEOREM TypeCorrect == Spec => []TypeOK
<1>1. Inv => TypeOK
  BY DEF Inv, RowsInv, SeenInv, LeaderInv, TypeOK
<1>. QED BY <1>1, AlwaysInv, PTL

\* Enter and restart act on the row that was highlighted when they were
\* pressed, or not at all, as long as its session is listed (run_picker_screen,
\* Picker::replace_rows).
THEOREM ActsOnTheRowSeen == Spec => ActsOnWhatWasSeen
<1>1. ASSUME Inv, ReadKey, Head(queue).key \in {"enter", "r"}, Head(queue).saw # None,
             phase' \in {"away", "restart"}, RowOf(rows, Head(queue).saw) # {}
      PROVE  target' = Head(queue).saw
  <2>1. queue # << >>
    BY <1>1 DEF ReadKey
  <2>. QED BY <1>1, <2>1, ReadKeyKeeps DEF Inv, SeenInv
<1>. QED BY <1>1, AlwaysInv, PTL DEF ActsOnWhatWasSeen

\* A jump attaches only right after Space (Picker::handle).
THEOREM JumpsAfterSpaceOnly == Spec => JumpFollowsSpace
<1>1. ASSUME Inv, ReadKey, phase' = "away", Head(queue).key # "enter"
      PROVE  last = " "
  BY <1>1, ReadKeyKeeps
<1>. QED BY <1>1, AlwaysInv, PTL DEF JumpFollowsSpace
===============================================================================
