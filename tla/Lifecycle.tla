------------------------------ MODULE Lifecycle ------------------------------
(***************************************************************************)
(* Session lifecycle in the daemon (crates/sumika-daemon/src/supervisor.rs):*)
(* the table of sessions, the requests that start, kill, report on and     *)
(* look at them, the waiter task of each session, and the operating        *)
(* system's view of the child processes and their pids.                    *)
(*                                                                         *)
(* Requests run concurrently, one per connection. A step of this module is *)
(* what a request does between two points where another thread can get     *)
(* hold of the locks it uses: what is done under the `sessions` lock is    *)
(* one step, what is done under a session's `live` lock is one step, and a *)
(* step ends wherever the code lets go of a lock and later acts on what it *)
(* saw under it.                                                           *)
(***************************************************************************)
EXTENDS FiniteSets

CONSTANTS
  Name,     \* session names
  Req,      \* request handlers, one per client connection
  Session,  \* Session objects, one per call of spawn_session
  Pid,      \* process ids of the operating system
  Reports,  \* the statuses reports carry
  None      \* no session, no name, no pid

ASSUME NoneAssumption == None \notin Session \cup Name \cup Pid
ASSUME ReportsAssumption == Reports \subseteq {"idle", "blocked", "running"}

VARIABLES
  sessions,  \* Supervisor.sessions: the session registered under each name
  name,      \* Session.name
  status,    \* Session.status; "none" before the session is spawned
  live,      \* Session.live.is_some()
  pid,       \* Session.pid: set by spawn_session and never reset
  child,     \* the process: "none", "running", "zombie", "gone" (waited for)
  doomed,    \* a SIGKILL is pending for the process
  pc,        \* what each request does next
  arg,       \* the name a start is about
  at,        \* the session a request has looked up or spawned
  opt        \* the signal of a kill, the status of a report

reqs == <<pc, arg, at, opt>>
vars == <<sessions, name, status, live, pid, child, doomed, pc, arg, at, opt>>

Signals == {"term", "kill"}
Labels  == {"idle", "spawn", "insert", "killCheck", "killSignal", "killReap",
            "reportCheck", "reportSet", "lookReap"}

Init ==
  /\ sessions = [n \in Name |-> None]
  /\ name     = [s \in Session |-> None]
  /\ status   = [s \in Session |-> "none"]
  /\ live     = [s \in Session |-> FALSE]
  /\ pid      = [s \in Session |-> None]
  /\ child    = [s \in Session |-> "none"]
  /\ doomed   = [s \in Session |-> FALSE]
  /\ pc       = [r \in Req |-> "idle"]
  /\ arg      = [r \in Req |-> None]
  /\ at       = [r \in Req |-> None]
  /\ opt      = [r \in Req |-> "-"]

-----------------------------------------------------------------------------
(* Reaping: under the `live` lock of each session of S, try_wait; when the *)
(* child has exited, wait for it, mark the session dead and drop its Live. *)

Exited(S) == {s \in S : s \in Session /\ live[s] /\ child[s] = "zombie"}

\* Mutant: the status is left for somebody else to update.
ReapQuietly(S) ==
  /\ live'   = [s \in Session |-> live[s] /\ s \notin Exited(S)]
  /\ child'  = [s \in Session |-> IF s \in Exited(S) THEN "gone" ELSE child[s]]
  /\ UNCHANGED status

\* Mutant: the session is marked dead, but nobody waits for the child.
ReapUnwaited(S) ==
  /\ status' = [s \in Session |-> IF s \in Exited(S) THEN "dead" ELSE status[s]]
  /\ UNCHANGED <<live, child>>

Reap(S) ==
  /\ live'   = [s \in Session |-> live[s] /\ s \notin Exited(S)]
  /\ child'  = [s \in Session |-> IF s \in Exited(S) THEN "gone" ELSE child[s]]
  /\ status' = [s \in Session |-> IF s \in Exited(S) THEN "dead" ELSE status[s]]

(* The processes a signal to the pid (or process group) p reaches: a pid   *)
(* belongs to a process until somebody waits for it.                       *)
Owners(p) == {s \in Session : pid[s] = p /\ child[s] \in {"running", "zombie"}}

\* Mutant: a forced kill sends SIGTERM too.
DeliverTerm(p, sig) == UNCHANGED doomed

Deliver(p, sig) ==
  doomed' = [s \in Session |-> doomed[s] \/ (sig = "kill" /\ s \in Owners(p)
                                                         /\ child[s] = "running")]

Done(r) ==
  /\ pc'  = [pc EXCEPT ![r] = "idle"]
  /\ arg' = [arg EXCEPT ![r] = None]
  /\ at'  = [at EXCEPT ![r] = None]
  /\ opt' = [opt EXCEPT ![r] = "-"]

-----------------------------------------------------------------------------
(* start: look (lock), spawn (no lock), look again and insert (lock).      *)

\* The name is taken: registered, and not dead once reaped (`Reap` of the
\* registered session is part of the step that asks).
Taken(n) ==
  /\ sessions[n] \in Session
  /\ status'[sessions[n]] # "dead"

StartCheck(r, n) ==
  /\ pc[r] = "idle"
  /\ Reap({sessions[n]})
  /\ IF Taken(n)
     THEN UNCHANGED reqs        \* replies with the running session
     ELSE /\ pc'  = [pc EXCEPT ![r] = "spawn"]
          /\ arg' = [arg EXCEPT ![r] = n]
          /\ UNCHANGED <<at, opt>>
  /\ UNCHANGED <<sessions, name, pid, doomed>>

\* openpty or spawn_command fails: no process, no session.
SpawnFails(r) ==
  /\ pc[r] = "spawn"
  /\ Done(r)
  /\ UNCHANGED <<sessions, name, status, live, pid, child, doomed>>

\* The child runs from here on: fork gives a pid no process holds.
Fork(r, s, p) ==
  /\ pc[r] = "spawn"
  /\ child[s] = "none"
  /\ Owners(p) = {}
  /\ name'  = [name EXCEPT ![s] = arg[r]]
  /\ pid'   = [pid EXCEPT ![s] = p]
  /\ child' = [child EXCEPT ![s] = "running"]
  /\ UNCHANGED <<sessions, doomed>>

Spawn(r, s, p) ==
  /\ Fork(r, s, p)
  /\ status' = [status EXCEPT ![s] = "running"]
  /\ live'   = [live EXCEPT ![s] = TRUE]
  /\ pc'     = [pc EXCEPT ![r] = "insert"]
  /\ at'     = [at EXCEPT ![r] = s]
  /\ UNCHANGED <<arg, opt>>

\* A pty handle or a thread cannot be had after the fork: `?` drops the
\* session and with it the only handle that could wait for the child.
SpawnLeaks(r, s, p) ==
  /\ Fork(r, s, p)
  /\ Done(r)
  /\ UNCHANGED <<status, live>>

\* existing_kill_new: SIGKILL for the child just spawned, then reap it.
DropNew(new, old) ==
  /\ Deliver(pid[new], "kill")
  /\ Reap({old, new})
  /\ UNCHANGED sessions

\* Mutant: the loser of a start race is forgotten and left running.
ForgetNew(r) ==
  LET n == arg[r]  new == at[r]  old == sessions[n] IN
  /\ pc[r] = "insert"
  /\ Reap({old})
  /\ sessions' = IF Taken(n) THEN sessions ELSE [sessions EXCEPT ![n] = new]
  /\ UNCHANGED doomed
  /\ Done(r)
  /\ UNCHANGED <<name, pid>>

\* Mutant: the table is not looked at again after the spawn.
InsertBlindly(r) ==
  LET n == arg[r]  new == at[r] IN
  /\ pc[r] = "insert"
  /\ sessions' = [sessions EXCEPT ![n] = new]
  /\ Done(r)
  /\ UNCHANGED <<name, status, live, pid, child, doomed>>

Insert(r) ==
  LET n == arg[r]  new == at[r]  old == sessions[n] IN
  /\ pc[r] = "insert"
  /\ \/ /\ DropNew(new, old)
        /\ Taken(n)
     \/ /\ Reap({old})
        /\ ~Taken(n)
        /\ sessions' = [sessions EXCEPT ![n] = new]
        /\ UNCHANGED doomed
  /\ Done(r)
  /\ UNCHANGED <<name, pid>>

-----------------------------------------------------------------------------
(* The requests about one session first take its Arc from the table and    *)
(* let go of the table: the session can be reaped or replaced meanwhile.   *)

Get(r, n, label, o) ==
  /\ pc[r] = "idle"
  /\ sessions[n] \in Session        \* otherwise: unknown session
  /\ pc'  = [pc EXCEPT ![r] = label]
  /\ at'  = [at EXCEPT ![r] = sessions[n]]
  /\ opt' = [opt EXCEPT ![r] = o]
  /\ UNCHANGED <<sessions, name, status, live, pid, child, doomed, arg>>

\* Mutant: a report may carry any status.
ReportAnyGet(r, n, st) == Get(r, n, "reportCheck", "dead")

KillGet(r, n, sig)  == Get(r, n, "killCheck", sig)
ReportGet(r, n, st) == Get(r, n, "reportCheck", st)
LookGet(r, n)       == Get(r, n, "lookReap", "-")   \* attach, resize, scrollback

KillCheck(r) ==
  /\ pc[r] = "killCheck"
  /\ Reap({at[r]})
  /\ IF live'[at[r]]
     THEN pc' = [pc EXCEPT ![r] = "killSignal"] /\ UNCHANGED <<arg, at, opt>>
     ELSE Done(r)
  /\ UNCHANGED <<sessions, name, pid, doomed>>

\* Session::kill reads the pid and signals it without the `live` lock. The
\* second signal it sends, to the foreground process group of the terminal,
\* reaches descendants of the child, which are not modelled.
KillSignal(r) ==
  /\ pc[r] = "killSignal"
  /\ Deliver(pid[at[r]], opt[r])
  /\ pc' = [pc EXCEPT ![r] = "killReap"]
  /\ UNCHANGED <<sessions, name, status, live, pid, child, arg, at, opt>>

KillReap(r) ==
  /\ pc[r] = "killReap"
  /\ Reap({at[r]})
  /\ Done(r)
  /\ UNCHANGED <<sessions, name, pid, doomed>>

ReportCheck(r) ==
  /\ pc[r] = "reportCheck"
  /\ Reap({at[r]})
  /\ IF status'[at[r]] = "dead"
     THEN Done(r)
     ELSE pc' = [pc EXCEPT ![r] = "reportSet"] /\ UNCHANGED <<arg, at, opt>>
  /\ UNCHANGED <<sessions, name, pid, doomed>>

\* The status lock is taken again for the write: the check may be stale.
ReportSet(r) ==
  /\ pc[r] = "reportSet"
  /\ status' = [status EXCEPT ![at[r]] = opt[r]]
  /\ Done(r)
  /\ UNCHANGED <<sessions, name, live, pid, child, doomed>>

LookReap(r) ==
  /\ pc[r] = "lookReap"
  /\ Reap({at[r]})
  /\ Done(r)
  /\ UNCHANGED <<sessions, name, pid, doomed>>

\* list reaps every session of the table under the table's lock.
List(r) ==
  /\ pc[r] = "idle"
  /\ Reap({sessions[n] : n \in Name})
  /\ UNCHANGED <<sessions, name, pid, doomed, pc, arg, at, opt>>

-----------------------------------------------------------------------------
\* The task spawned with each session polls it until its Live is gone.
Waiter(s) ==
  /\ s \in Exited({s})
  /\ Reap({s})
  /\ UNCHANGED <<sessions, name, pid, doomed, pc, arg, at, opt>>

\* A child may exit whenever it likes; a killed one has to.
ChildExits(s) ==
  /\ child[s] = "running"
  /\ child'  = [child EXCEPT ![s] = "zombie"]
  /\ doomed' = [doomed EXCEPT ![s] = FALSE]
  /\ UNCHANGED <<sessions, name, status, live, pid, pc, arg, at, opt>>

KilledExits(s) == doomed[s] /\ ChildExits(s)

Start(r)  == \/ \E n \in Name : StartCheck(r, n)
             \/ SpawnFails(r)
             \/ \E s \in Session, p \in Pid : Spawn(r, s, p) \/ SpawnLeaks(r, s, p)
             \/ Insert(r)
Kill(r)   == \/ \E n \in Name, sig \in Signals : KillGet(r, n, sig)
             \/ KillCheck(r) \/ KillSignal(r) \/ KillReap(r)
Report(r) == \/ \E n \in Name, st \in Reports : ReportGet(r, n, st)
             \/ ReportCheck(r) \/ ReportSet(r)
Look(r)   == (\E n \in Name : LookGet(r, n)) \/ LookReap(r) \/ List(r)

Next ==
  \/ \E r \in Req : Start(r) \/ Kill(r) \/ Report(r) \/ Look(r)
  \/ \E s \in Session : Waiter(s) \/ ChildExits(s)

\* What a request does once it has begun: its task is scheduled again, and
\* the locks it needs are only ever held for a bounded time.
Continue(r) ==
  \/ SpawnFails(r) \/ \E s \in Session, p \in Pid : Spawn(r, s, p)
  \/ Insert(r)
  \/ KillCheck(r) \/ KillSignal(r) \/ KillReap(r)
  \/ ReportCheck(r) \/ ReportSet(r) \/ LookReap(r)

Fairness ==
  /\ \A r \in Req : WF_vars(Continue(r))
  /\ \A s \in Session : WF_vars(Waiter(s)) /\ WF_vars(KilledExits(s))

Spec     == Init /\ [][Next]_vars
FairSpec == Spec /\ Fairness

-----------------------------------------------------------------------------
(* Properties.                                                             *)

(* Every variable keeps its type: the table, the sessions and the requests *)
(* hold values the Rust types of supervisor.rs allow.                      *)
TypeOK ==
  /\ sessions \in [Name -> Session \cup {None}]
  /\ name     \in [Session -> Name \cup {None}]
  /\ status   \in [Session -> Reports \cup {"none", "running", "dead"}]
  /\ live     \in [Session -> BOOLEAN]
  /\ pid      \in [Session -> Pid \cup {None}]
  /\ child    \in [Session -> {"none", "running", "zombie", "gone"}]
  /\ doomed   \in [Session -> BOOLEAN]
  /\ pc       \in [Req -> Labels]
  /\ arg      \in [Req -> Name \cup {None}]
  /\ at       \in [Req -> Session \cup {None}]
  /\ opt      \in [Req -> Signals \cup Reports \cup {"-"}]

Registered(s) == \E n \in Name : sessions[n] = s
InFlight(s)   == \E r \in Req : pc[r] = "insert" /\ at[r] = s

(* A session with a live child is registered, or its start request is      *)
(* about to register it, or its child has been killed or has exited:       *)
(* whatever starts race for a name, no child is left running that no       *)
(* client can name (start's second look at the table, existing_kill_new).  *)
NoStrayChild ==
  \A s \in Session :
    live[s] => Registered(s) \/ InFlight(s) \/ doomed[s] \/ child[s] = "zombie"

(* A session the table calls dead has been waited for: its process is gone *)
(* and the name can be started again without a second process (reap).      *)
DeadHasNoProcess ==
  \A s \in Session : status[s] = "dead" => child[s] = "gone" /\ ~live[s]

(* The table implements Registry: a name passes to another session only    *)
(* after the process of the session it named has ended.                    *)
Abstract ==
  INSTANCE Registry WITH
    holder  <- sessions,
    running <- {s \in Session : child[s] = "running"},
    over    <- {s \in Session : child[s] \in {"zombie", "gone"}}
ImplementsRegistry == Abstract!Spec

(* "A dead session stays dead until `start`": no step turns the status of  *)
(* a session from dead to anything else (a start makes a new session).     *)
DeadStaysDead ==
  [][\A s \in Session : status[s] = "dead" => status'[s] = "dead"]_vars

(* "pid is the child we spawned" (kill_process_group): a signal reaches no *)
(* process but the child of the session it is meant for.                   *)
SignalsOwnChild ==
  [][\A r \in Req : KillSignal(r) => Owners(pid[at[r]]) \subseteq {at[r]}]_vars

(* The exit of a child whose session still holds it is noticed: the waiter *)
(* task reaps it even if no request ever looks at the session again.       *)
ExitIsNoticed ==
  \A s \in Session : (live[s] /\ child[s] = "zombie") ~> (status[s] = "dead")

(* A forced kill that has found its session live ends that session, though *)
(* the signal, the exit and the reaping are all asynchronous (kill).       *)
ForcedKillEnds ==
  \A r \in Req, s \in Session :
    (pc[r] = "killSignal" /\ at[r] = s /\ opt[r] = "kill") ~> ~live[s]

(* The child of a start that lost the race for its name is killed and      *)
(* waited for in the end: nothing keeps a process outside the table.       *)
LoserIsReaped ==
  \A s \in Session :
    (live[s] /\ ~Registered(s) /\ ~InFlight(s)) ~> (child[s] = "gone")
=============================================================================
