-------------------------------- MODULE Picker --------------------------------
(***************************************************************************)
(* The picker (crates/sumika/src/picker.rs, and run_picker and             *)
(* run_picker_screen in main.rs): a list of sessions, refreshed from the   *)
(* daemon before every wait for a key, from which the operator attaches,   *)
(* restarts and jumps.                                                     *)
(*                                                                         *)
(* Keys wait in the terminal until the loop reads them, so a key may have  *)
(* been pressed before a refresh and be handled after it. Each is kept     *)
(* with the row the operator saw highlighted when it was pressed.          *)
(***************************************************************************)
EXTENDS Naturals, FiniteSets, Sequences

CONSTANTS
  Name,      \* session names, numbered in their order as text
  Statuses,  \* the statuses sessions are given
  KeyCode,   \* keys pressed
  Jumps,     \* Picker.jumps: from keys to names
  MaxQueue,  \* bound: keys waiting in the terminal
  None       \* no row

ASSUME NameAssumption == Name \subseteq Nat /\ None \notin Name
ASSUME StatusAssumption ==
  Statuses \subseteq {"blocked", "idle", "running", "unknown", "dead"}
ASSUME JumpsAssumption == \A c \in DOMAIN Jumps : Jumps[c] \in Name
ASSUME RunningAssumption == "running" \in Statuses
ASSUME QueueAssumption == MaxQueue \in Nat

VARIABLES
  status,    \* the daemon's sessions and their statuses
  rows,      \* Picker.rows
  selected,  \* Picker.selected, from 1
  help,      \* Picker.help_open
  leader,    \* Picker.pending_leader
  drawn,     \* the row highlighted on the screen, None when it is out of date
  queue,     \* keys pressed and not yet read, each with the row then seen
  phase,     \* "list", "keys"; "away" while attached or restarting; "quit"
  target,    \* the session attached to or restarted
  last       \* history: the last key that was not ignored

picker == <<rows, selected, help, leader>>
vars   == <<status, picker, drawn, queue, phase, target, last>>

\* status_rank
Rank == [blocked |-> 0, idle |-> 1, running |-> 2, unknown |-> 3, dead |-> 4]

\* The order of sort_rows: by status, then by name.
Before(a, b) ==
  \/ Rank[a.status] < Rank[b.status]
  \/ Rank[a.status] = Rank[b.status] /\ a.name < b.name

\* sort_rows: the row at i has i - 1 rows before it.
Above(S, e) == {x \in S : Before(x, e)}
SortRows(S) ==
  [i \in 1..Cardinality(S) |-> CHOOSE e \in S : Cardinality(Above(S, e)) = i - 1]

Listed == SortRows({[name |-> n, status |-> status[n]] : n \in DOMAIN status})

RowOf(rs, n)  == {i \in DOMAIN rs : rs[i].name = n}
NameAt(rs, i) == IF i \in DOMAIN rs THEN rs[i].name ELSE None
Selected      == NameAt(rows, selected)

Init ==
  /\ \E S \in SUBSET Name : IsFiniteSet(S) /\ status \in [S -> Statuses]
  /\ rows = Listed
  /\ selected = 1 /\ help = FALSE /\ leader = FALSE
  /\ drawn = None /\ queue = << >> /\ phase = "list"
  /\ target = None /\ last = "-"

-----------------------------------------------------------------------------
(* run_picker_screen: list, draw, wait for keys, handle those that came.   *)

\* Mutant: the selection stays at its place in the list.
PlaceInRows(rs) == IF selected \in DOMAIN rs THEN selected ELSE 1

\* replace_rows: the selection follows its session, or goes to the first row.
PlaceOf(rs) ==
  IF RowOf(rs, Selected) = {} THEN 1 ELSE CHOOSE i \in RowOf(rs, Selected) : TRUE

\* The daemon answers in time, or the picker draws what it has.
Draw ==
  /\ phase = "list"
  /\ \/ rows' = Listed /\ selected' = PlaceOf(rows')
     \/ UNCHANGED <<rows, selected>>
  /\ drawn' = NameAt(rows', selected')
  /\ phase' = "keys"
  /\ UNCHANGED <<status, help, leader, queue, target, last>>

ListFails ==
  /\ phase = "list" /\ phase' = "quit"
  /\ UNCHANGED <<status, picker, drawn, queue, target, last>>

\* The wait for a key times out.
NoKey ==
  /\ phase = "keys" /\ queue = << >>
  /\ phase' = "list"
  /\ UNCHANGED <<status, picker, drawn, queue, target, last>>

\* SIGTERM ends the wait, whether or not there are keys.
Terminated ==
  /\ phase = "keys" /\ phase' = "quit"
  /\ UNCHANGED <<status, picker, drawn, queue, target, last>>

Press(k) ==
  /\ phase \in {"list", "keys"} /\ Len(queue) < MaxQueue
  /\ queue' = Append(queue, [key |-> k, saw |-> IF queue = << >> THEN drawn ELSE None])
  /\ UNCHANGED <<status, picker, drawn, phase, target, last>>

\* The match on key.code; a jump key is looked for after the fixed keys.
InputOf(k) ==
  CASE k = " "               -> "leader"
    [] k = "?"               -> "help"
    [] k = "enter"           -> "attach"
    [] k \in {"esc", "q"}    -> "quit"
    [] k = "r"               -> "restart"
    [] k \in {"down", "j"}   -> "down"
    [] k \in {"up", "k"}     -> "up"
    [] OTHER                 -> IF k \in DOMAIN Jumps THEN "jump" ELSE "ignored"

-----------------------------------------------------------------------------
(* Picker::handle. A key either acts, which takes the picker away and      *)
(* drops the keys still waiting, or it does not and the next one is read.  *)

Acts(to, where) ==
  /\ target' = to
  /\ phase'  = where
  /\ queue'  = << >>

ReadOn ==
  /\ queue' = Tail(queue)
  /\ phase' = IF Tail(queue) = << >> THEN "list" ELSE "keys"
  /\ UNCHANGED target

StatusAt(i) == IF i \in DOMAIN rows THEN rows[i].status ELSE "none"

\* Mutant: the selection runs over the end of the list.
MoveOver(input) ==
  LET n == Len(rows)
  IN IF n = 0 THEN selected
     ELSE IF input = "down" THEN selected + 1
     ELSE ((selected + n - 2) % n) + 1

\* move_sel
Move(input) ==
  LET n == Len(rows)
  IN IF n = 0 THEN selected
     ELSE IF input = "down" THEN (selected % n) + 1
     ELSE ((selected + n - 2) % n) + 1

\* jump: selects the session, and attaches to it unless it is dead.
Jump(k) ==
  LET at == RowOf(rows, Jumps[k]) IN
  IF at = {} THEN ReadOn /\ UNCHANGED selected
  ELSE /\ selected' \in at
       /\ IF StatusAt(selected') = "dead" THEN ReadOn ELSE Acts(Jumps[k], "away")

HandleList(input, k) ==
  /\ selected' = IF input \in {"down", "up"} THEN Move(input) ELSE selected
  /\ help' = (input = "help")
  /\ CASE input = "attach" /\ StatusAt(selected) \notin {"dead", "none"} -> Acts(Selected, "away")
       [] input = "restart" /\ StatusAt(selected) = "dead"               -> Acts(Selected, "restart")
       [] input = "quit"                                                 -> Acts(None, "quit")
       [] OTHER                                                          -> ReadOn

\* Mutant: Space stays in force until a jump key comes.
HandleLeaderKept(input, k) ==
  /\ leader' = (input \notin {"leader", "quit", "jump"})
  /\ CASE input \in {"leader", "quit"} -> ReadOn /\ UNCHANGED <<selected, help>>
       [] input = "jump"               -> Jump(k) /\ UNCHANGED help
       [] OTHER                        -> HandleList(input, k)

HandleLeader(input, k) ==
  /\ leader' = FALSE
  /\ CASE input \in {"leader", "quit"} -> ReadOn /\ UNCHANGED <<selected, help>>
       [] input = "jump"               -> Jump(k) /\ UNCHANGED help
       [] OTHER                        -> HandleList(input, k)

Handle(input, k) ==
  \/ /\ help
     /\ help' = (input \notin {"help", "quit"})
     /\ ReadOn /\ UNCHANGED <<selected, leader>>
  \/ /\ ~help /\ leader
     /\ HandleLeader(input, k)
  \/ /\ ~help /\ ~leader /\ input \in {"leader", "jump"}
     /\ leader' = (input = "leader")
     /\ ReadOn /\ UNCHANGED <<selected, help>>
  \/ /\ ~help /\ ~leader /\ input \notin {"leader", "jump"}
     /\ HandleList(input, k) /\ UNCHANGED leader

ReadKey ==
  LET k == Head(queue).key IN
  /\ phase = "keys" /\ queue # << >>
  /\ drawn' = None
  /\ IF InputOf(k) = "ignored"
     THEN ReadOn /\ UNCHANGED <<picker, last>>
     ELSE Handle(InputOf(k), k) /\ last' = k /\ UNCHANGED rows
  /\ UNCHANGED status

-----------------------------------------------------------------------------
\* run_picker: back from an attach, unless the daemon is gone or SIGTERM came.
Back ==
  /\ phase = "away" /\ phase' \in {"list", "quit"}
  /\ target' = None
  /\ UNCHANGED <<status, picker, drawn, queue, last>>

Becomes(n, st) ==
  status' = [m \in DOMAIN status \cup {n} |-> IF m = n THEN st ELSE status[m]]

\* restart_session: a start, which leaves a live session alone. It may fail.
Restart ==
  /\ phase = "restart" /\ phase' = "list"
  /\ target' = None
  /\ \/ /\ target \in DOMAIN status => status[target] = "dead"
        /\ Becomes(target, "running")
     \/ UNCHANGED status
  /\ UNCHANGED <<picker, drawn, queue, last>>

\* The daemon's sessions: reports, deaths, starts by others.
Changes ==
  /\ phase # "quit"
  /\ \E n \in Name, st \in Statuses : Becomes(n, st)
  /\ UNCHANGED <<picker, drawn, queue, phase, target, last>>

\* The daemon takes no session out of its table, but one that ended and was
\* started anew between two listings knows of none.
DaemonRestarts ==
  /\ phase # "quit"
  /\ status' = [n \in {} |-> "dead"]
  /\ UNCHANGED <<picker, drawn, queue, phase, target, last>>

Next ==
  \/ Draw \/ ListFails \/ NoKey \/ Terminated \/ ReadKey \/ Back \/ Restart
  \/ Changes \/ DaemonRestarts
  \/ \E k \in KeyCode : Press(k)

Spec == Init /\ [][Next]_vars

-----------------------------------------------------------------------------
(* Properties.                                                             *)

(* Every variable keeps its type; the rows name each session once, and the *)
(* selection is one of them whatever came and went (or there is no row).   *)
TypeOK ==
  /\ DOMAIN status \subseteq Name /\ \A n \in DOMAIN status : status[n] \in Statuses
  /\ \A i, j \in DOMAIN rows : rows[i].name = rows[j].name => i = j
  /\ rows # << >> => selected \in DOMAIN rows
  /\ help \in BOOLEAN /\ leader \in BOOLEAN
  /\ drawn \in Name \cup {None} /\ target \in Name \cup {None}
  /\ Len(queue) <= MaxQueue
  /\ phase \in {"list", "keys", "away", "restart", "quit"}

(* Enter and `r` act on the row the operator saw highlighted when the key  *)
(* was pressed, or not at all, although the list may be refreshed and      *)
(* sorted anew before the key is read. Only when its session is no longer  *)
(* listed do they act on another: replace_rows falls back to the first.    *)
ActsOnWhatWasSeen ==
  [][(ReadKey /\ Head(queue).key \in {"enter", "r"} /\ Head(queue).saw # None
      /\ phase' \in {"away", "restart"} /\ RowOf(rows, Head(queue).saw) # {})
        => target' = Head(queue).saw]_vars

(* "Bare j/k always move": a jump key attaches only when the key handled   *)
(* just before it was Space, whatever help page or list key came earlier.  *)
JumpFollowsSpace ==
  [][(ReadKey /\ phase' = "away" /\ Head(queue).key # "enter") => last = " "]_vars
===============================================================================
