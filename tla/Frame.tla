-------------------------------- MODULE Frame --------------------------------
(***************************************************************************)
(* The last frame and the line ring the daemon keeps of a session          *)
(* (crates/sumika-daemon/src/frame.rs). The terminal surface is termwiz's; *)
(* it does not say which rows scroll off its top, so the frame foretells a *)
(* scroll before each change and pushes the top row to the ring itself.    *)
(*                                                                         *)
(* A cell is a character or " ". Colours and other attributes are left     *)
(* out: they decide neither scrolling nor what goes to the ring.           *)
(***************************************************************************)
EXTENDS Naturals, Sequences, SequencesExt, FiniteSetsExt

CONSTANTS
  Char,      \* printable characters
  Sizes,     \* terminal sizes <<cols, rows>>; the first one is Size0
  Size0,
  Cap,       \* SCROLLBACK_LINES, capacity of the ring
  PadRows    \* REPLAY_PAD_ROWS

ASSUME SizesAssumption == Size0 \in Sizes /\ Sizes \subseteq (Nat \ {0}) \X (Nat \ {0})
ASSUME CapAssumption == Cap \in Nat /\ PadRows \in Nat

VARIABLES
  surface,   \* Inner.surface: rows of cells, cols, cursor x and y from 0
  lines      \* Inner.lines, the ring

vars == <<surface, lines>>

-----------------------------------------------------------------------------
(* termwiz's Surface, as far as the frame uses it. `off` is not part of    *)
(* it: it remembers the last Cap rows that scrolled off the top.           *)

BlankRow(n) == [i \in 1..n |-> " "]

\* Line::as_str().trim_end()
Text(row) ==
  LET used == {i \in DOMAIN row : row[i] # " "}
  IN SubSeq(row, 1, IF used = {} THEN 0 ELSE Max(used))

Latest(seq) == SubSeq(seq, Len(seq) - Min({Len(seq), Cap}) + 1, Len(seq))

Rows(s) == Len(s.rows)

Scroll(s) == [s EXCEPT !.rows = Append(Tail(@), BlankRow(s.cols)),
                       !.off  = Latest(Append(@, Text(Head(s.rows))))]

NewLine(s) == IF s.y + 1 >= Rows(s) THEN Scroll(s) ELSE [s EXCEPT !.y = @ + 1]

\* The wrap is deferred until a character is to go past the last column.
Put(s, ch) ==
  LET w == IF s.x >= s.cols THEN [NewLine(s) EXCEPT !.x = 0] ELSE s
  IN [w EXCEPT !.rows[w.y + 1][w.x + 1] = ch, !.x = @ + 1]

MoveTo(s, x, y) == [s EXCEPT !.x = Min({x, s.cols - 1}), !.y = Min({y, Rows(s) - 1})]

ClearScreen(s) ==
  [s EXCEPT !.rows = [i \in 1..Rows(s) |-> BlankRow(s.cols)], !.x = 0, !.y = 0]

ClearToEndOfLine(s) ==
  [s EXCEPT !.rows[s.y + 1] = [i \in 1..s.cols |-> IF i > s.x THEN " " ELSE @[i]]]

SetSize(s, cols, rows) ==
  LET cell(i, j) == IF i <= Rows(s) /\ j <= s.cols THEN s.rows[i][j] ELSE " "
  IN [s EXCEPT !.rows = [i \in 1..rows |-> [j \in 1..cols |-> cell(i, j)]],
               !.cols = cols]

-----------------------------------------------------------------------------
(* The ring.                                                               *)

\* Mutant: the ring is trimmed one line late.
PushLineLate(ring, text) ==
  IF Cap = 0 THEN ring
  ELSE Append(IF Len(ring) > Cap THEN Tail(ring) ELSE ring, text)

PushLine(ring, text) ==
  IF Cap = 0 THEN ring
  ELSE Append(IF Len(ring) >= Cap THEN Tail(ring) ELSE ring, text)

CaptureTop(s, ring) == PushLine(ring, Text(s.rows[1]))

LineFeedWillScroll(s) == s.y + 1 >= Rows(s)

\* Mutant: the wrap is expected when the last column has been filled.
PrintWillWrapEarly(s) == s.y + 1 >= Rows(s) /\ s.x + 1 >= s.cols

PrintWillWrapScroll(s) == s.y + 1 >= Rows(s) /\ s.x >= s.cols

-----------------------------------------------------------------------------
Init ==
  /\ surface = [rows |-> [i \in 1..Size0[2] |-> BlankRow(Size0[1])],
                cols |-> Size0[1], x |-> 0, y |-> 0, off |-> << >>]
  /\ lines = << >>

(* feed: one action per parsed escape action that apply handles.           *)

PrintChar(ch) ==
  /\ lines' = IF PrintWillWrapScroll(surface) THEN CaptureTop(surface, lines) ELSE lines
  /\ surface' = Put(surface, ch)

LineFeed ==
  /\ lines' = IF LineFeedWillScroll(surface) THEN CaptureTop(surface, lines) ELSE lines
  /\ surface' = NewLine(surface)

CarriageReturn ==
  /\ surface' = MoveTo(surface, 0, surface.y)
  /\ UNCHANGED lines

\* A move to the left is not clamped at the last column: after a resize the
\* cursor may still be beyond it.
CursorLeft(n) ==
  /\ surface' = [surface EXCEPT !.x = Max({@, n}) - n]
  /\ UNCHANGED lines

Backspace == CursorLeft(1)

\* apply_cursor: every other CSI movement, absolute or relative, leaves the
\* cursor at the cell it names, or at the edge it would cross.
CursorMove(x, y) ==
  /\ surface' = MoveTo(surface, x, y)
  /\ UNCHANGED lines

Erasures == {"toEnd", "toStart", "all"}

\* apply_edit sends all three erasures of the display to ClearScreen and all
\* three of a line to ClearToEndOfLine.
EraseInDisplay(kind) ==
  /\ surface' = ClearScreen(surface)
  /\ UNCHANGED lines

EraseInLine(kind) ==
  /\ surface' = ClearToEndOfLine(surface)
  /\ UNCHANGED lines

-----------------------------------------------------------------------------
(* resize: on losing rows the top ones go to the ring and the cursor moves *)
(* up with what is left.                                                   *)

\* Mutant: the surface is cut at the bottom, as termwiz does by itself.
ShrinkAtBottom(s, ring, n) == [surface |-> s, lines |-> ring]

Drop(st) == [surface |-> Scroll(st.surface), lines |-> CaptureTop(st.surface, st.lines)]

Shrink(s, ring, n) ==
  LET after[i \in 0..n] == IF i = 0 THEN [surface |-> s, lines |-> ring] ELSE Drop(after[i - 1])
  IN [after[n] EXCEPT !.surface = MoveTo(@, s.x, IF s.y > n THEN s.y - n ELSE 0)]

Resize(cols, rows) ==
  LET after == IF rows < Rows(surface)
               THEN Shrink(surface, lines, Rows(surface) - rows)
               ELSE [surface |-> surface, lines |-> lines]
  IN /\ surface' = SetSize(after.surface, cols, rows)
     /\ lines' = after.lines

\* apply: colours and attributes change neither the cells' text nor the ring.
Apply ==
  \/ \E ch \in Char : PrintChar(ch)
  \/ LineFeed
  \/ CarriageReturn
  \/ Backspace
  \/ \E n \in 1..surface.cols : CursorLeft(n)
  \/ \E x \in 0..surface.cols, y \in 0..Rows(surface) : CursorMove(x, y)
  \/ \E kind \in Erasures : EraseInDisplay(kind) \/ EraseInLine(kind)

Next ==
  \/ Apply
  \/ \E size \in Sizes : Resize(size[1], size[2])

Spec == Init /\ [][Next]_vars

-----------------------------------------------------------------------------
(* What an attach replays, and what a client's terminal makes of it. The   *)
(* replay is a sequence of rows to write: the ring and a pad, each ended   *)
(* by a new line, then from the top of an erased viewport the screen.      *)

IsBlank(row) == Text(row) = << >>

History == IF \A i \in DOMAIN lines : IsBlank(lines[i]) THEN << >> ELSE lines

\* Mutant: a pad of one viewport of the session only.
PadOfRows == IF History = << >> THEN 0 ELSE Rows(surface)

Pad == IF History = << >> THEN 0 ELSE Max({Rows(surface), PadRows})

\* Mutant: every row of the snapshot is ended by a new line.
SnapshotEnded ==
  IF \A i \in DOMAIN surface.rows : IsBlank(surface.rows[i]) THEN << >>
  ELSE Append([i \in DOMAIN surface.rows |-> Text(surface.rows[i])], << >>)

Snapshot ==
  IF \A i \in DOMAIN surface.rows : IsBlank(surface.rows[i]) THEN << >>
  ELSE [i \in DOMAIN surface.rows |-> Text(surface.rows[i])]

CopyLines ==
  LET all  == lines \o [i \in DOMAIN surface.rows |-> Text(surface.rows[i])]
      used == {i \in DOMAIN all : all[i] # << >>}
  IN SubSeq(all, 1, IF used = {} THEN 0 ELSE Max(used))

\* A client's terminal of h rows: what it shows, what scrolled off, its row.
Terminal(h) == [rows |-> [i \in 1..h |-> << >>], back |-> << >>, y |-> 1]

Down(t) == IF t.y < Len(t.rows) THEN [t EXCEPT !.y = @ + 1]
           ELSE [t EXCEPT !.rows = Append(Tail(@), << >>), !.back = Append(@, Head(t.rows))]

Write(t, text) == [t EXCEPT !.rows[t.y] = text]

Show(t, row) == Down(Write(t, row))

ShowAll(t, rows) ==
  LET after[i \in 0..Len(rows)] == IF i = 0 THEN t ELSE Show(after[i - 1], rows[i])
  IN after[Len(rows)]

Replayed(h) ==
  LET past == ShowAll(Terminal(h), History \o [i \in 1..Pad |-> << >>])
      home == [past EXCEPT !.rows = [i \in 1..h |-> << >>], !.y = 1]
  IN IF Snapshot = << >> THEN past
     ELSE Write(ShowAll(home, Front(Snapshot)), Last(Snapshot))

-----------------------------------------------------------------------------
(* Properties.                                                             *)

(* The surface is a grid with the cursor in a row of it, and the ring      *)
(* stays within its capacity.                                              *)
TypeOK ==
  /\ \A i \in DOMAIN surface.rows :
       /\ DOMAIN surface.rows[i] = 1..surface.cols
       /\ \A j \in 1..surface.cols : surface.rows[i][j] \in Char \cup {" "}
  /\ <<surface.cols, Rows(surface)>> \in Sizes
  /\ surface.x \in Nat /\ surface.y \in 0..Rows(surface) - 1
  /\ Len(lines) <= Cap

(* The ring holds exactly the last Cap rows that scrolled off the surface, *)
(* oldest first: each scroll is foretold, and nothing else is (wrapping,   *)
(* line feeds, resizes, at every cursor position).                         *)
RingIsWhatScrolledOff == lines = surface.off

(* A replay puts every line of the ring into the scrollback of any client  *)
(* whose viewport is at most one row higher than the pad: the snapshot     *)
(* that follows homes and erases without wiping one.                       *)
ReplayKeepsHistory ==
  \A h \in 1..(PadRows + 1) :
    LET back == Replayed(h).back
    IN Len(back) >= Len(History) /\ SubSeq(back, 1, Len(History)) = History

(* A client at least as high as the session sees the session's screen,     *)
(* row for row, after the replay.                                          *)
ReplayShowsScreen ==
  \A h \in Rows(surface)..(PadRows + 1) :
    \A i \in 1..h :
      Replayed(h).rows[i] = IF i <= Rows(surface) THEN Text(surface.rows[i]) ELSE << >>
=============================================================================
