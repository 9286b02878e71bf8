-------------------------------- MODULE Habitat --------------------------------
(***************************************************************************)
(* One name, from the first attach to the exit code: the composition of    *)
(* Lifecycle, Attach and the attach command, each kept to what the others  *)
(* can see of it.  A start replaces a dead Session object under its name;  *)
(* attaches and reports look an object up and go on with it; a client that *)
(* is cut off asks by name what has become of it (map_attach_eof).         *)
(*                                                                         *)
(* The child, its terminal and its registration end independently: a child *)
(* may close its terminal and run on, and what it leaves behind may keep   *)
(* the terminal open.  Starting is one step here (Lifecycle splits it),    *)
(* queued output is left out (Attach has it), kills are exits.             *)
(***************************************************************************)
CONSTANTS
  Session,  \* Session objects, one per spawn
  Client,   \* attach commands, one connection each
  Reports,  \* the statuses reports carry
  None

ASSUME HabitatNames == None \notin Session \cup Client
ASSUME HabitatReports == Reports \subseteq {"idle", "blocked", "running"}

VARIABLES
  up,      \* the daemon runs
  reg,     \* the session registered under the name
  life,    \* each session's child: "new", "live", "exited", "dead" (reaped), "lost"
  status,  \* Session.status
  pty,     \* its terminal: "open", "hungup", "ended" (the drain thread is gone)
  cancel,  \* AttachState.cancel: the focused client
  dest,    \* Session.dest
  fired,   \* clients whose oneshot has been sent and whose slot is still there
  at,      \* the session each connection has looked up
  slot,    \* the daemon's task: "none", "checked", "proxy", "drop", "over"
  tty,     \* the attach command: "away", "wait", "on", "ask", "back"
  code,    \* its exit code
  rep      \* the report being handled: [pc, at, watched], and whether the last one
           \* was loud

daemon   == <<up, reg>>
sessions == <<life, status, pty>>
focus    == <<cancel, dest, fired>>
clients  == <<at, slot, tty, code>>
vars     == <<up, reg, life, status, pty, cancel, dest, fired, at, slot, tty, code, rep>>

NoReport == [pc |-> "idle", at |-> None, watched |-> FALSE, loud |-> FALSE]

Init ==
  /\ up = TRUE /\ reg = None
  /\ life = [s \in Session |-> "new"] /\ status = [s \in Session |-> "none"]
  /\ pty = [s \in Session |-> "open"]
  /\ cancel = [s \in Session |-> None] /\ dest = [s \in Session |-> None] /\ fired = {}
  /\ at = [c \in Client |-> None] /\ slot = [c \in Client |-> "none"]
  /\ tty = [c \in Client |-> "away"] /\ code = [c \in Client |-> "none"]
  /\ rep = NoReport

\* Session::reap of s, as it changes what is known of each session; None is
\* nobody.
Reaped(known, s) ==
  IF s \in Session /\ life[s] = "exited" THEN [known EXCEPT ![s] = "dead"] ELSE known

Reap(s) == life' = Reaped(life, s) /\ status' = Reaped(status, s)

-----------------------------------------------------------------------------
(* The sessions                                                            *)

\* Mutant: whatever does not run is gone.
GoneUnlessRunning == reg = None \/ Reaped(status, reg)[reg] # "running"

\* Nobody has the name, or a session that is dead once reaped.
Gone == reg = None \/ Reaped(status, reg)[reg] = "dead"

\* Sessions are alike until they are spawned, and commands until they attach:
\* the next one is as good as any.
Fresh    == CHOOSE s \in Session : life[s] = "new"
Newcomer == CHOOSE c \in Client : tty[c] = "away"

\* Mutant: whoever has the name is replaced.
StartAnyway(s) ==
  /\ up /\ life[s] = "new" /\ s = Fresh
  /\ reg' = s
  /\ life'   = [life EXCEPT ![s] = "live"]
  /\ status' = [status EXCEPT ![s] = "running"]
  /\ UNCHANGED <<up, pty, focus, clients, rep>>

\* start: the session that is there is answered, or a new one takes the name.
Start(s) ==
  /\ up /\ life[s] = "new" /\ s = Fresh
  /\ IF Gone
     THEN /\ reg' = s
          /\ life'   = [Reaped(life, reg) EXCEPT ![s] = "live"]
          /\ status' = [Reaped(status, reg) EXCEPT ![s] = "running"]
     ELSE Reap(reg) /\ UNCHANGED reg
  /\ UNCHANGED <<up, pty, focus, clients, rep>>

\* The waiter task, and list.
Waiter(s) ==
  /\ up /\ life[s] = "exited" /\ Reap(s)
  /\ UNCHANGED <<daemon, pty, focus, clients, rep>>

ChildExits(s) ==
  /\ life[s] = "live" /\ life' = [life EXCEPT ![s] = "exited"]
  /\ UNCHANGED <<daemon, status, pty, focus, clients, rep>>

Hangup(s) ==
  /\ up /\ life[s] # "new" /\ pty[s] = "open" /\ pty' = [pty EXCEPT ![s] = "hungup"]
  /\ UNCHANGED <<daemon, life, status, focus, clients, rep>>

\* Mutant: the sender stays installed at the end of output.
DrainEndsKeeping(s) ==
  /\ pty[s] = "hungup" /\ pty' = [pty EXCEPT ![s] = "ended"]
  /\ UNCHANGED <<daemon, life, status, focus, clients, rep>>

\* The drain thread drops the installed sender.
DrainEnds(s) ==
  /\ pty[s] = "hungup" /\ pty' = [pty EXCEPT ![s] = "ended"]
  /\ dest' = [dest EXCEPT ![s] = None]
  /\ UNCHANGED <<daemon, life, status, cancel, fired, clients, rep>>

-----------------------------------------------------------------------------
(* Attaching: the daemon's side of a connection                            *)

Back(c, exit) ==
  /\ tty' = [tty EXCEPT ![c] = "back"]
  /\ code' = [code EXCEPT ![c] = exit]

\* Looked up, reaped, and refused or found alive.  One step: the name of a
\* session that is found alive cannot have been given away in between.
AttachCheck(c) ==
  /\ up /\ tty[c] = "away" /\ c = Newcomer
  /\ Reap(reg)
  /\ IF reg = None \/ Reaped(life, reg)[reg] = "dead"
     THEN Back(c, "unknown") /\ UNCHANGED <<at, slot>>
     ELSE /\ at' = [at EXCEPT ![c] = reg] /\ slot' = [slot EXCEPT ![c] = "checked"]
          /\ tty' = [tty EXCEPT ![c] = "wait"] /\ UNCHANGED code
  /\ UNCHANGED <<daemon, pty, focus, rep>>

\* The session may have ended, and its name have been given away, since.
AttachSteal(c) ==
  LET s == at[c] IN
  /\ slot[c] = "checked"
  /\ fired'  = fired \cup ({cancel[s]} \ {None})
  /\ cancel' = [cancel EXCEPT ![s] = c]
  /\ dest'   = [dest EXCEPT ![s] = c]
  /\ slot' = [slot EXCEPT ![c] = "proxy"] /\ tty' = [tty EXCEPT ![c] = "on"]
  /\ UNCHANGED <<daemon, sessions, at, code, rep>>

\* proxy_attach ends.
ProxyEnds(c) ==
  /\ slot' = [slot EXCEPT ![c] = "drop"]
  /\ rep' = [rep EXCEPT !.watched = @ /\ ~(rep.at = at[c] /\ c \notin fired)]
  /\ UNCHANGED <<daemon, sessions, focus, at, tty, code>>

\* It is told to, its client is gone, or there will be no more output.
Leave(c) ==
  /\ slot[c] = "proxy"
  /\ c \in fired \/ tty[c] = "back" \/ dest[at[c]] # c
  /\ ProxyEnds(c)

\* Its client types at a terminal that has been closed, and has been found so.
InputClosed(c) == slot[c] = "proxy" /\ pty[at[c]] # "open" /\ ProxyEnds(c)

\* Mutant: whoever leaves clears the focus.
SlotDropAnyway(c) ==
  /\ slot[c] = "drop" /\ slot' = [slot EXCEPT ![c] = "over"]
  /\ fired' = fired \ {c}
  /\ cancel' = [cancel EXCEPT ![at[c]] = None]
  /\ dest' = [dest EXCEPT ![at[c]] = None]
  /\ UNCHANGED <<daemon, sessions, at, tty, code, rep>>

\* AttachSlot::drop: only the latest client still has something to clear.
SlotDrop(c) ==
  /\ slot[c] = "drop" /\ slot' = [slot EXCEPT ![c] = "over"]
  /\ fired' = fired \ {c}
  /\ IF cancel[at[c]] = c
     THEN /\ cancel' = [cancel EXCEPT ![at[c]] = None]
          /\ dest' = [dest EXCEPT ![at[c]] = None]
     ELSE UNCHANGED <<cancel, dest>>
  /\ UNCHANGED <<daemon, sessions, at, tty, code, rep>>

-----------------------------------------------------------------------------
(* The attach command                                                      *)

\* It detaches or is told to terminate.
Detach(c) ==
  /\ tty[c] = "on" /\ Back(c, "left")
  /\ UNCHANGED <<daemon, sessions, focus, at, slot, rep>>

\* No daemon, or none that answers.
Unreachable(c) ==
  /\ \/ tty[c] = "away" /\ c = Newcomer /\ ~up
     \/ tty[c] = "wait" /\ slot[c] = "over"
  /\ Back(c, "unreachable")
  /\ UNCHANGED <<daemon, sessions, focus, at, slot, rep>>

\* It stops: what has become of the session?
Asks(c) ==
  /\ tty[c] = "on" /\ tty' = [tty EXCEPT ![c] = "ask"]
  /\ UNCHANGED <<daemon, sessions, focus, at, slot, code, rep>>

\* The connection has been closed by the other side.
Eof(c) == slot[c] \in {"drop", "over"} /\ Asks(c)

\* It cannot write to its own terminal; the connection is still there.
OutputFails(c) == slot[c] = "proxy" /\ Asks(c)

\* map_attach_eof.
MapEof(c) ==
  /\ tty[c] = "ask"
  /\ IF up THEN Reap(reg) ELSE UNCHANGED <<life, status>>
  /\ Back(c, IF up /\ Gone THEN "gone" ELSE "stolen")
  /\ UNCHANGED <<daemon, pty, focus, at, slot, rep>>

-----------------------------------------------------------------------------
(* report, and the notification it may send                                *)

\* A client is attached to s and has not been told to go.
Watched(s) == \E c \in Client : slot[c] = "proxy" /\ at[c] = s /\ c \notin fired

ReportCheck ==
  /\ up /\ rep.pc = "idle" /\ reg # None
  /\ Reap(reg)
  /\ rep' = IF Gone THEN NoReport
            ELSE [pc |-> "set", at |-> reg, watched |-> Watched(reg), loud |-> FALSE]
  /\ UNCHANGED <<daemon, pty, focus, clients>>

ReportSet ==
  /\ rep.pc = "set"
  /\ \E st \in Reports : status' = [status EXCEPT ![rep.at] = st]
  /\ rep' = [rep EXCEPT !.pc = "notify"]
  /\ UNCHANGED <<daemon, life, pty, focus, clients>>

\* notify_unfocused, unless somebody has the focus.
Notify ==
  /\ rep.pc = "notify"
  /\ rep' = [NoReport EXCEPT !.loud = cancel[rep.at] = None]
  /\ UNCHANGED <<daemon, sessions, focus, clients>>

-----------------------------------------------------------------------------
(* The daemon ends, and everything it held with it; it is started again.   *)

DaemonEnds ==
  /\ up /\ up' = FALSE /\ reg' = None /\ rep' = NoReport
  /\ life' = [s \in Session |-> IF life[s] \in {"live", "exited"} THEN "lost" ELSE life[s]]
  /\ status' = [s \in Session |-> IF life[s] = "new" THEN "none" ELSE "dead"]
  /\ pty' = [s \in Session |-> IF life[s] = "new" THEN "open" ELSE "ended"]
  /\ cancel' = [s \in Session |-> None] /\ dest' = [s \in Session |-> None]
  /\ slot' = [c \in Client |-> IF slot[c] = "none" THEN "none" ELSE "over"]
  /\ fired' = {}
  /\ UNCHANGED <<at, tty, code>>

DaemonStarts ==
  /\ ~up /\ up' = TRUE
  /\ UNCHANGED <<reg, sessions, focus, clients, rep>>

-----------------------------------------------------------------------------
Next ==
  \/ \E s \in Session : Start(s) \/ Waiter(s) \/ ChildExits(s) \/ Hangup(s) \/ DrainEnds(s)
  \/ \E c \in Client :
       \/ AttachCheck(c) \/ AttachSteal(c)
       \/ Leave(c) \/ InputClosed(c) \/ SlotDrop(c)
       \/ Detach(c) \/ Unreachable(c) \/ Eof(c) \/ OutputFails(c) \/ MapEof(c)
  \/ ReportCheck \/ ReportSet \/ Notify
  \/ DaemonEnds \/ DaemonStarts

(* The daemon's threads and tasks are scheduled, and so is the attach      *)
(* command, whose select loop is taken to turn (ClientTty shows when it    *)
(* does not); nothing is assumed of children, of who starts daemons, of    *)
(* what is typed and of the operator's terminal.                           *)
Fairness ==
  /\ \A s \in Session : WF_vars(DrainEnds(s))
  /\ \A c \in Client : WF_vars(Leave(c)) /\ WF_vars(Eof(c)) /\ WF_vars(MapEof(c))

Spec     == Init /\ [][Next]_vars
FairSpec == Spec /\ Fairness

-----------------------------------------------------------------------------
(* Properties.                                                             *)

(* Every variable keeps its type.                                          *)
TypeOK ==
  /\ up \in BOOLEAN /\ reg \in Session \cup {None}
  /\ life \in [Session -> {"new", "live", "exited", "dead", "lost"}]
  /\ status \in [Session -> Reports \cup {"none", "running", "dead"}]
  /\ pty \in [Session -> {"open", "hungup", "ended"}]
  /\ cancel \in [Session -> Client \cup {None}]
  /\ dest \in [Session -> Client \cup {None}]
  /\ fired \subseteq Client
  /\ at \in [Client -> Session \cup {None}]
  /\ slot \in [Client -> {"none", "checked", "proxy", "drop", "over"}]
  /\ tty \in [Client -> {"away", "wait", "on", "ask", "back"}]
  /\ code \in [Client -> {"none", "unknown", "unreachable", "left", "gone", "stolen"}]
  /\ rep \in [pc : {"idle", "set", "notify"}, at : Session \cup {None},
              watched : BOOLEAN, loud : BOOLEAN]

\* The child of s has ended, or has gone down with its daemon.
Over(s) == life[s] \in {"dead", "lost"}

(* An attach that ends with the exit code for an ended session is right:   *)
(* the session it was attached to has ended, although it asks by name and  *)
(* the name may mean another session by then (map_attach_eof).             *)
GoneIsOver == \A c \in Client : code[c] = "gone" => at[c] \in Session /\ Over(at[c])

(* Two attaches of one name, neither told to go, are never attached to two *)
(* sessions that live: whoever watches alone watches the registered one    *)
(* (VISION.md: "One focused client per session. Second attach steals").    *)
OneWatcher ==
  \A c \in Client : slot[c] = "proxy" /\ c \notin fired =>
    /\ cancel[at[c]] = c
    /\ at[c] = reg \/ Over(at[c])

(* "Focused sessions do not notify" (README.md): a report during which     *)
(* somebody is attached to the session all along sends no notification,    *)
(* whoever steals and leaves meanwhile.                                    *)
WatchedIsQuiet == [][rep.pc = "notify" /\ rep.watched => ~rep'.loud]_vars

\* The clients that have had the focus of s: those that waited to the end, or
\* found no daemon, have not.
Came(s) == {c \in Client : /\ at[c] = s /\ slot[c] \in {"proxy", "drop", "over"}
                          /\ tty[c] # "wait" /\ code[c] # "unreachable"}

Focus(s) == INSTANCE ExclusiveFocus WITH
  holder <- cancel[s],
  came   <- Came(s),
  left   <- {c \in Came(s) : slot[c] = "over"}

(* Each session of a name keeps the promise of attach (ExclusiveFocus),    *)
(* while sessions end and replace each other under late steals and drops,  *)
(* and the daemon goes down with all of them (AttachState, AttachSlot).    *)
ImplementsExclusiveFocus ==
  /\ \A s \in Session : Focus(s)!Init
  /\ [][\A s \in Session : Focus(s)!Next \/ UNCHANGED Focus(s)!vars]_vars

(* A client comes back with an exit code once it has been displaced, its   *)
(* session's terminal has closed under it, or the daemon is gone.          *)
EveryoneGetsBack ==
  \A c \in Client :
    (tty[c] = "on" /\ (\/ c \in fired \/ slot[c] = "over"
                       \/ pty[at[c]] = "hungup" /\ dest[at[c]] = c))
    ~> (tty[c] = "back")
===============================================================================
