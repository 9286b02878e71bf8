--------------------------------- MODULE Boot ---------------------------------
(***************************************************************************)
(* The daemon's boot (run in sumika-daemon/src/lib.rs), its service        *)
(* manager, and the clients that see to it that a daemon runs              *)
(* (ensure_daemon in sumika/src/main.rs).                                  *)
(*                                                                         *)
(* A boot looks at the socket path several times before it removes what    *)
(* is there, and every look is a system call of its own: two boots, a      *)
(* crash and a restart may fall between any two of them.  A socket outlives*)
(* the process that bound it; who connects to it is then refused.          *)
(*                                                                         *)
(* A process that has ended may be started again under the same name: at   *)
(* most one process of the service manager (Unit) runs at a time, and one  *)
(* for each terminal somebody starts a daemon in (Hand).                   *)
(***************************************************************************)
EXTENDS Naturals

CONSTANTS
  Unit,       \* the daemon process of launchd or systemd
  Hand,       \* daemon processes started by hand
  Client,     \* clients that run ensure_daemon
  Polls,      \* bound: pings before the deadline of two seconds
  MaxCrash,   \* bound: daemons that crash or are terminated
  Burst,      \* systemd: starts of the unit in one interval (StartLimitBurst)
  None        \* no process

Daemon == {Unit} \cup Hand

ASSUME BootNames == Unit \notin Hand /\ None \notin Daemon
ASSUME BootBounds == Polls \in Nat /\ MaxCrash \in Nat /\ Burst \in Nat

VARIABLES
  kind,      \* what is at the socket path: "none", "foreign", "file", "socket"
  owner,     \* the process that listens on that socket, None when it has ended
  dir,       \* the parent directory: "absent", "open", "private", "foreign"
  default,   \* the parent is the default socket_dir()
  launchd,   \* the service manager is launchd, else systemd
  pc,        \* each daemon process: "off", a step of run, or "serve"
  unit,      \* the unit: "stopped", "wanted" (it is kept running), "failed"
  starts,    \* systemd: starts of the unit in the current interval
  crashes,   \* daemons that have crashed or were terminated
  cpc,       \* each client: "idle", a step of ensure_daemon, or "done"
  conn,      \* the daemon a client waits for an answer of
  tries,     \* pings of each client after it has asked for the service
  raced,     \* history: two boots have overlapped
  met        \* history: the daemons that have served since each client began

place   == <<kind, owner>>
site    == <<default, launchd>>
service == <<unit, starts>>
clients == <<cpc, conn, tries>>
vars    == <<kind, owner, dir, default, launchd, pc, unit, starts, crashes, cpc,
             conn, tries, raced, met>>

Stages == {"exists", "owned", "kind", "connect", "remove", "parent", "made",
           "mode", "bind", "chmod"}
Booting == {d \in Daemon : pc[d] \in Stages}
Serving == {d \in Daemon : pc[d] = "serve"}

\* A client that connects now is answered, at once or when the boot is done.
Reachable == kind = "socket" /\ owner # None

Init ==
  /\ kind \in {"none", "foreign", "file"} /\ owner = None
  /\ dir \in {"absent", "open", "private", "foreign"}
  /\ default \in BOOLEAN /\ launchd \in BOOLEAN
  /\ pc = [d \in Daemon |-> "off"]
  /\ unit = "stopped" /\ starts = 0 /\ crashes = 0
  /\ cpc   = [c \in Client |-> "idle"]
  /\ conn  = [c \in Client |-> None]
  /\ tries = [c \in Client |-> 0]
  /\ raced = FALSE
  /\ met   = [c \in Client |-> {}]

-----------------------------------------------------------------------------
(* Processes come and go                                                   *)

Start(d) ==
  /\ pc[d] = "off"
  /\ pc' = [pc EXCEPT ![d] = "exists"]
  /\ raced' = (raced \/ Booting # {})
  /\ UNCHANGED <<place, dir, site, unit, crashes, clients, met>>

SpawnHand(d) == d \in Hand /\ Start(d) /\ UNCHANGED starts

\* Only systemd counts the starts.
SpawnUnit ==
  /\ unit = "wanted" /\ Start(Unit)
  /\ launchd \/ starts < Burst
  /\ starts' = IF launchd THEN starts ELSE starts + 1

\* A unit of systemd that was started too often is left as failed.
SpawnRefused ==
  /\ ~launchd /\ unit = "wanted" /\ pc[Unit] = "off" /\ starts = Burst
  /\ unit' = "failed"
  /\ UNCHANGED <<place, dir, site, starts, pc, crashes, raced, clients, met>>

IntervalPasses ==
  /\ starts > 0 /\ starts' = 0
  /\ UNCHANGED <<place, dir, site, unit, pc, crashes, raced, clients, met>>

Service == SpawnUnit \/ SpawnRefused \/ IntervalPasses

\* The process d ends: its socket stays behind, its connections break.
End(d) ==
  /\ pc' = [pc EXCEPT ![d] = "off"]
  /\ owner' = IF owner = d THEN None ELSE owner
  /\ conn' = [c \in Client |-> IF conn[c] = d THEN None ELSE conn[c]]
  /\ met' = [c \in Client |-> met[c] \ {d}]

\* A first ping that d leaves without an answer has failed.
Failed(d) == [c \in Client |->
  IF conn[c] = d /\ cpc[c] = "ping" THEN "install" ELSE cpc[c]]

Dies(d) ==
  /\ pc[d] # "off" /\ crashes < MaxCrash
  /\ End(d) /\ cpc' = Failed(d)
  /\ crashes' = crashes + 1
  /\ UNCHANGED <<kind, dir, site, starts, tries, raced>>

\* A panic, a SIGKILL, or an error of accept that is not transient.
Crash(d) == Dies(d) /\ UNCHANGED unit

\* SIGTERM, SIGINT or SIGHUP: to systemd a clean end, which is not followed by
\* a restart (Restart=on-failure); launchd restarts the unit (KeepAlive).
Terminated(d) ==
  /\ Dies(d)
  /\ unit' = IF d = Unit /\ ~launchd THEN "stopped" ELSE unit

-----------------------------------------------------------------------------
(* run                                                                     *)

\* The boot goes on at label.
Goto(d, label) ==
  /\ pc' = [pc EXCEPT ![d] = label]
  /\ UNCHANGED <<clients, met>>

\* run returns an error and the process ends.
Bail(d) == End(d) /\ cpc' = Failed(d) /\ UNCHANGED <<kind, dir, tries>>

Exists(d) ==
  /\ pc[d] = "exists"
  /\ Goto(d, IF kind = "none" THEN "parent" ELSE "owned")
  /\ UNCHANGED <<place, dir>>

\* Also false when there is nothing at the path any more.
Owned(d) ==
  /\ pc[d] = "owned"
  /\ IF kind \in {"file", "socket"}
     THEN Goto(d, "kind") /\ UNCHANGED <<place, dir>>
     ELSE Bail(d)

Kind(d) ==
  /\ pc[d] = "kind"
  /\ IF kind = "socket"
     THEN Goto(d, "connect") /\ UNCHANGED <<place, dir>>
     ELSE Bail(d)

\* Mutant: the socket is replaced without trying to connect.
ProbeNot(d) ==
  /\ pc[d] = "connect"
  /\ Goto(d, "remove") /\ UNCHANGED <<place, dir>>

\* A daemon that answers is left alone.
Probe(d) ==
  /\ pc[d] = "connect"
  /\ IF Reachable
     THEN Bail(d)
     ELSE Goto(d, "remove") /\ UNCHANGED <<place, dir>>

\* Mutant: the stale socket is left where it is.
RemoveNot(d) ==
  /\ pc[d] = "remove"
  /\ Goto(d, "parent") /\ UNCHANGED <<place, dir>>

\* What is at the path now goes, whatever it was when it was looked at.
Remove(d) ==
  /\ pc[d] = "remove"
  /\ IF kind = "none"
     THEN Bail(d)
     ELSE /\ kind' = "none" /\ owner' = None
          /\ Goto(d, "parent") /\ UNCHANGED dir

\* prepare_socket_parent: a directory it makes has the umask's mode at first.
Parent(d) ==
  /\ pc[d] = "parent"
  /\ CASE dir = "absent" -> dir' = "open" /\ Goto(d, "made") /\ UNCHANGED place
       [] dir = "foreign" -> Bail(d)
       [] OTHER -> Goto(d, "mode") /\ UNCHANGED <<place, dir>>

\* Its own directories are made private, others have to be.
Mode(d) ==
  /\ pc[d] \in {"made", "mode"}
  /\ IF pc[d] = "made" \/ default
     THEN dir' = "private" /\ Goto(d, "bind") /\ UNCHANGED place
     ELSE IF dir = "private" THEN Goto(d, "bind") /\ UNCHANGED <<place, dir>>
     ELSE Bail(d)

Bind(d) ==
  /\ pc[d] = "bind"
  /\ IF kind = "none"
     THEN kind' = "socket" /\ owner' = d /\ Goto(d, "chmod") /\ UNCHANGED dir
     ELSE Bail(d)

\* The mode is set through the path, which may be gone by now.
Chmod(d) ==
  /\ pc[d] = "chmod"
  /\ IF kind = "none"
     THEN Bail(d)
     ELSE Goto(d, "serve") /\ UNCHANGED <<place, dir>>

Boot(d) ==
  /\ \/ Exists(d) \/ Owned(d) \/ Kind(d) \/ Probe(d) \/ Remove(d)
     \/ Parent(d) \/ Mode(d) \/ Bind(d) \/ Chmod(d)
  /\ UNCHANGED <<site, service, crashes, raced>>

-----------------------------------------------------------------------------
(* ensure_daemon                                                           *)

\* What a client leaves alone.
Apart == UNCHANGED <<place, dir, site, starts, crashes, raced>>

To(c, label) == cpc' = [cpc EXCEPT ![c] = label]

Begin(c) ==
  /\ cpc[c] = "idle" /\ default
  /\ To(c, "ping")
  /\ met' = [met EXCEPT ![c] = {d \in Serving : owner = d}]
  /\ Apart /\ UNCHANGED <<pc, unit, conn, tries>>

\* A ping connects and waits for its answer without a limit of its own.
Connect(c) ==
  /\ cpc[c] \in {"ping", "poll"} /\ conn[c] = None /\ Reachable
  /\ cpc[c] = "poll" => tries[c] < Polls
  /\ conn' = [conn EXCEPT ![c] = owner]
  /\ tries' = [tries EXCEPT ![c] = IF cpc[c] = "poll" THEN @ + 1 ELSE @]
  /\ Apart /\ UNCHANGED <<pc, unit, cpc, met>>

\* Mutant: the first ping gives up on a daemon that has not answered yet.
RefusedEarly(c) ==
  /\ cpc[c] \in {"ping", "poll"} /\ conn[c] = None /\ tries[c] < Polls
  /\ To(c, IF cpc[c] = "ping" THEN "install" ELSE "poll")
  /\ tries' = [tries EXCEPT ![c] = IF cpc[c] = "poll" THEN @ + 1 ELSE @]
  /\ Apart /\ UNCHANGED <<pc, unit, conn, met>>

\* Mutant: a poll that fails does not bring the deadline nearer.
RefusedUncounted(c) ==
  /\ cpc[c] \in {"ping", "poll"} /\ conn[c] = None /\ ~Reachable
  /\ To(c, IF cpc[c] = "ping" THEN "install" ELSE "poll")
  /\ Apart /\ UNCHANGED <<pc, unit, conn, tries, met>>

\* Mutant: one poll more than there is time for.
RefusedLate(c) ==
  /\ cpc[c] \in {"ping", "poll"} /\ conn[c] = None /\ ~Reachable
  /\ cpc[c] = "poll" => tries[c] <= Polls
  /\ To(c, IF cpc[c] = "ping" THEN "install" ELSE "poll")
  /\ tries' = [tries EXCEPT ![c] = IF cpc[c] = "poll" THEN @ + 1 ELSE @]
  /\ Apart /\ UNCHANGED <<pc, unit, conn, met>>

\* There is no socket, or nobody listens on it.
Refused(c) ==
  /\ cpc[c] \in {"ping", "poll"} /\ conn[c] = None /\ ~Reachable
  /\ cpc[c] = "poll" => tries[c] < Polls
  /\ To(c, IF cpc[c] = "ping" THEN "install" ELSE "poll")
  /\ tries' = [tries EXCEPT ![c] = IF cpc[c] = "poll" THEN @ + 1 ELSE @]
  /\ Apart /\ UNCHANGED <<pc, unit, conn, met>>

\* The accept loop has taken the connection and its task has answered.
Reply(c) ==
  /\ conn[c] \in Serving
  /\ conn' = [conn EXCEPT ![c] = None]
  /\ To(c, "done")
  /\ Apart /\ UNCHANGED <<pc, unit, tries, met>>

\* The unit file is written, or ensure_daemon returns.
Install(c) ==
  /\ cpc[c] = "install"
  /\ To(c, IF launchd THEN "bootout" ELSE "enable") \/ To(c, "done")
  /\ Apart /\ UNCHANGED <<pc, unit, conn, tries, met>>

\* launchd has to forget the unit first, and ends its process with it.
Bootout(c) ==
  /\ cpc[c] = "bootout"
  /\ unit' = "stopped"
  /\ End(Unit) /\ cpc' = [Failed(Unit) EXCEPT ![c] = "enable"]
  /\ UNCHANGED <<kind, dir, site, starts, crashes, tries, raced>>

\* launchctl bootstrap or systemctl enable --now; its failure is ignored.
Enable(c) ==
  /\ cpc[c] = "enable"
  /\ unit' \in {"wanted", unit}
  /\ To(c, "poll")
  /\ Apart /\ UNCHANGED <<pc, conn, tries, met>>

\* The deadline has passed.
GiveUp(c) ==
  /\ cpc[c] = "poll" /\ conn[c] = None /\ tries[c] = Polls
  /\ To(c, "done")
  /\ Apart /\ UNCHANGED <<pc, unit, conn, tries, met>>

Ensure(c) ==
  \/ Connect(c) \/ Refused(c) \/ Install(c) \/ Bootout(c) \/ Enable(c) \/ GiveUp(c)

-----------------------------------------------------------------------------
Next ==
  \/ Service
  \/ \E d \in Daemon : SpawnHand(d) \/ Crash(d) \/ Terminated(d) \/ Boot(d)
  \/ \E c \in Client : Begin(c) \/ Ensure(c) \/ Reply(c)

Spec == Init /\ [][Next]_vars

\* The service manager starts a unit that has failed again (KeepAlive in the
\* plist, Restart=on-failure in the unit) or, when it was started too often,
\* leaves it; boots go on, daemons accept and answer, and a client that has
\* begun goes on.  Nothing starts daemons by hand, and no interval has to pass.
Fairness ==
  /\ WF_vars(SpawnUnit \/ SpawnRefused)
  /\ \A d \in Daemon : WF_vars(Boot(d))
  /\ \A c \in Client : WF_vars(Ensure(c)) /\ WF_vars(Reply(c))

FairSpec == Spec /\ Fairness

-----------------------------------------------------------------------------
(* Properties                                                              *)

\* Every variable keeps its type, and crashes, starts and polls their bounds.
TypeOK ==
  /\ kind \in {"none", "foreign", "file", "socket"}
  /\ owner \in Daemon \cup {None}
  /\ dir \in {"absent", "open", "private", "foreign"}
  /\ default \in BOOLEAN /\ launchd \in BOOLEAN
  /\ unit \in {"stopped", "wanted", "failed"} /\ raced \in BOOLEAN
  /\ pc \in [Daemon -> Stages \cup {"off", "serve"}]
  /\ starts \in 0..Burst /\ crashes \in 0..MaxCrash
  /\ cpc \in [Client -> {"idle", "ping", "install", "bootout", "enable", "poll", "done"}]
  /\ conn \in [Client -> Daemon \cup {None}]
  /\ tries \in [Client -> 0..Polls]
  /\ met \in [Client -> SUBSET Daemon]

\* Through stale sockets, crashes and restarts, daemons that did not boot at the
\* same time never serve side by side, and the one that serves is the one the
\* socket leads to (run: connect, remove_file, bind).
OneDaemonServes ==
  ~raced => \A d \in Serving : owner = d /\ Serving = {d}

\* A daemon that was serving at the socket when a client began is not ended
\* by that client: only an unanswered ping leads to bootout (ensure_daemon).
ClientsSpareTheDaemon ==
  [][\A c \in Client : cpc[c] = "bootout" /\ cpc'[c] = "enable" =>
       raced \/ \A d \in met[c] : pc'[d] = "serve"]_vars

\* A client comes back from ensure_daemon, whatever state the path, the
\* directory and the daemons are in (the deadline of ensure_daemon).
EnsureReturns == \A c \in Client : cpc[c] = "ping" ~> cpc[c] = "done"

\* Nothing at the path or in the directory's mode makes a boot refuse.
MayBoot ==
  /\ kind \in {"none", "socket"}
  /\ dir = "absent" \/ dir = "private" \/ (dir = "open" /\ default)

\* The limit on starts leaves one more start than daemons are still to die.
StartsLeft == launchd \/ Burst - starts > MaxCrash - crashes

\* After a crash, and over the socket it leaves behind, a daemon the service
\* manager is to keep running becomes reachable again before the limit on its
\* starts is used up, unless it is stopped: by bootout, or under systemd by a
\* signal that counts as a clean end (run, and Restart= or KeepAlive of the
\* service files).
RestartRecovers ==
  (unit = "wanted" /\ MayBoot /\ StartsLeft) ~> (Reachable \/ raced \/ unit = "stopped")
===============================================================================
