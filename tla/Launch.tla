-------------------------------- MODULE Launch --------------------------------
(***************************************************************************)
(* What outlives the daemon: the resume hints and the name of the session  *)
(* attached last, small files written by processes of their own.  A hook   *)
(* of a vendor's program reports to the daemon and then stores its chat id *)
(* (hook_report), an attach stores its name (last.rs); start, start --all  *)
(* and the picker's restart read a hint and pass it on (with_resume).      *)
(*                                                                         *)
(* A file is truncated and then written, so a reader may find it empty,    *)
(* and a machine that goes down in between leaves it so; two writers that  *)
(* overlap may leave a mixture of what they write.  Hooks run beside the   *)
(* session that started them and may outlive it.  Chats are numbered       *)
(* as programs begin them; 0 is no chat.  The layout of a vendor's resume  *)
(* arguments is left out: an argument list is a program and the chat it is *)
(* told to resume.                                                         *)
(***************************************************************************)
EXTENDS Naturals, Sequences

CONSTANTS
  Name,       \* session names
  Program,    \* the programs that run in sessions
  Resumable,  \* those whose resume-by-id arguments apply knows
  Config,     \* the configured sessions, in order: [name, prog]
  Writer,     \* processes that store something: hooks and attaching clients
  MaxChat,    \* bound: chats begun
  MaxCalls,   \* bound: hooks fired, attaches answered and start commands given
  Last,       \* the key of the last-attached file; hints are under their name
  NoFile, Empty,
  Torn        \* a mixture of what two writers wrote

ASSUME LaunchNames ==
  /\ Resumable \subseteq Program /\ "none" \notin Program
  /\ Last \notin Name /\ Name \cap (0..MaxChat) = {}
  /\ {NoFile, Empty, Torn} \cap (Name \cup (0..MaxChat)) = {}
  /\ Torn \notin {NoFile, Empty}
  /\ Config \in Seq([name : Name, prog : Program])
  /\ \A i, j \in DOMAIN Config : Config[i].name = Config[j].name => i = j
ASSUME LaunchBounds == MaxChat \in Nat /\ MaxCalls \in Nat

VARIABLES
  up,       \* the daemon runs
  table,    \* its sessions: [state, prog, chat, status]
  chats,    \* chats begun so far
  file,     \* what is stored under each key
  writer,   \* each writer: [pc, key, status, val]
  cmd,      \* the start command: [pc, todo, argv]
  expect,   \* history: by key, what was said last: [status, val, prog]; the
            \* status is "none" when the program's start has made it unknown
  muddled,  \* history: since a writer that was alone with its key, others have
            \* overlapped, failed or met a start
  stops,    \* history: by name, the chats of the turns that have ended
  calls     \* what MaxCalls counts

vars == <<up, table, chats, file, writer, cmd, expect, muddled, stops, calls>>

Key == Name \cup {Last}
None == [state |-> "none", prog |-> "none", chat |-> 0, status |-> "none"]
Dead == [state |-> "dead", prog |-> "none", chat |-> 0, status |-> "dead"]
Free == [pc |-> "free", key |-> Last, status |-> "none", val |-> 0]
Idle == [pc |-> "idle", todo |-> << >>, argv |-> [prog |-> "none", id |-> 0]]

Init ==
  /\ up = TRUE /\ table = [n \in Name |-> None] /\ chats = 0
  /\ file = [k \in Key |-> NoFile]
  /\ writer = [w \in Writer |-> Free] /\ cmd = Idle
  /\ expect = [k \in Key |-> [status |-> "none", val |-> 0, prog |-> "none"]]
  /\ muddled = [k \in Key |-> FALSE] /\ calls = 0
  /\ stops = [n \in Name |-> {}]

Live(n) == table[n].state = "live"
Busy(k) == \E w \in Writer : writer[w].pc # "free" /\ writer[w].key = k
Muddle(k, b) == muddled' = [muddled EXCEPT ![k] = @ \/ b]

Called == calls < MaxCalls /\ calls' = calls + 1

\* The daemon, the chats and the command stand still.
Still == UNCHANGED <<up, chats, cmd>>

-----------------------------------------------------------------------------
(* Programs                                                                *)

\* The program begins another chat in the same session.
NewChat(n) ==
  /\ Live(n) /\ chats < MaxChat
  /\ chats' = chats + 1
  /\ table' = [table EXCEPT ![n].chat = chats']
  /\ UNCHANGED <<up, file, writer, cmd, expect, muddled, stops, calls>>

\* The session's program ends, by itself or killed.
Exit(n) ==
  /\ Live(n)
  /\ table' = [table EXCEPT ![n] = Dead]
  /\ UNCHANGED <<up, chats, file, writer, cmd, expect, muddled, stops, calls>>

-----------------------------------------------------------------------------
(* hook_report.rs, hook_report in main.rs                                  *)

\* A payload may name several events; an approval asked for wins.
StatusFrom(events) ==
  IF "ask" \in events THEN "blocked" ELSE IF "stop" \in events THEN "idle" ELSE "none"

\* Mutant: every payload with an id is taken for a turn that has ended.
HintFromAny(status, id) == id

\* An id counts only at the end of a turn.
HintFrom(status, id) == IF status = "idle" THEN id ELSE 0

\* The program runs its hook; the payload may come without an id.
Fire(w, n, events, id) ==
  LET status == StatusFrom(events)  hint == HintFrom(status, id) IN
  /\ Live(n) /\ writer[w].pc = "free" /\ status # "none" /\ Called
  /\ id \in {0, table[n].chat}
  /\ writer' = [writer EXCEPT ![w] =
       [pc |-> "report", key |-> n, status |-> status, val |-> hint]]
  /\ LET stopped == events = {"stop"} /\ id # 0
         meets == Busy(n) \/ (cmd.pc = "rpc" /\ Head(cmd.todo).name = n) IN
     /\ expect' = [expect EXCEPT ![n] =
          [status |-> status, val |-> IF stopped THEN id ELSE @.val,
           prog |-> IF stopped THEN table[n].prog ELSE @.prog]]
     /\ stops' = [stops EXCEPT ![n] = IF stopped THEN @ \cup {id} ELSE @]
     /\ muddled' = [muddled EXCEPT ![n] = meets \/ (@ /\ ~stopped)]
  /\ Still /\ UNCHANGED <<table, file>>

\* An error is ignored, and the hint is stored all the same.
Reported(w) ==
  /\ writer[w].pc = "report"
  /\ writer' = [writer EXCEPT ![w] =
       IF writer[w].val = 0 THEN Free ELSE [@ EXCEPT !.pc = "truncate", !.status = "none"]]
  /\ Still /\ UNCHANGED <<file, muddled, stops, calls>>

\* The report goes to whatever session has the name now.
Report(w) ==
  LET n == writer[w].key IN
  /\ Reported(w)
  /\ table' = IF up /\ Live(n) THEN [table EXCEPT ![n].status = writer[w].status] ELSE table
  /\ UNCHANGED expect

\* The request fails although there is a session: its status is unknown now.
ReportFails(w) ==
  /\ Reported(w) /\ UNCHANGED table
  /\ expect' = [expect EXCEPT ![writer[w].key].status = "none"]

-----------------------------------------------------------------------------
(* resume::remember and last::remember                                     *)

\* Mutant: a file that is there already is left alone.
TruncateOnce(w) ==
  /\ writer[w].pc = "truncate"
  /\ file' = [file EXCEPT ![writer[w].key] = IF @ = NoFile THEN Empty ELSE @]
  /\ writer' = [writer EXCEPT ![w] =
       IF file[writer[w].key] = NoFile THEN [@ EXCEPT !.pc = "write"] ELSE Free]
  /\ Still /\ UNCHANGED <<table, expect, muddled, stops, calls>>

\* fs::write opens the file and truncates it ...
Truncate(w) ==
  /\ writer[w].pc = "truncate"
  /\ file' = [file EXCEPT ![writer[w].key] = Empty]
  /\ writer' = [writer EXCEPT ![w].pc = "write"]
  /\ Still /\ UNCHANGED <<table, expect, muddled, stops, calls>>

\* ... and writes the line at its beginning: over another line, that somebody
\* has written meanwhile, it may leave the end of that.
Write(w) ==
  LET k == writer[w].key  val == writer[w].val IN
  /\ writer[w].pc = "write"
  /\ \/ file' = [file EXCEPT ![k] = val]
     \/ file[k] \notin {Empty, val} /\ file' = [file EXCEPT ![k] = Torn]
  /\ writer' = [writer EXCEPT ![w] = Free]
  /\ Still /\ UNCHANGED <<table, expect, muddled, stops, calls>>

\* Either may fail, and nobody hears of it.
RememberFails(w) ==
  /\ writer[w].pc \in {"truncate", "write"}
  /\ writer' = [writer EXCEPT ![w] = Free]
  /\ Muddle(writer[w].key, TRUE)
  /\ Still /\ UNCHANGED <<table, file, expect, stops, calls>>

\* An attach that is answered stores its name before it goes on.
Attach(w, n) ==
  /\ up /\ Live(n) /\ writer[w].pc = "free" /\ Called
  /\ writer' = [writer EXCEPT ![w] =
       [pc |-> "truncate", key |-> Last, status |-> "none", val |-> n]]
  /\ muddled' = [muddled EXCEPT ![Last] = Busy(Last)]
  /\ expect' = [expect EXCEPT ![Last].val = n]
  /\ Still /\ UNCHANGED <<table, file, stops>>

\* attach without a name; a mixture of two names is the name of no session.
AttachLast(w) == file[Last] \in Name /\ Attach(w, file[Last])

-----------------------------------------------------------------------------
(* start, start --all, and the picker's restart                            *)

\* resume::recall: no file and an empty one are no hint; a mixture is taken for one.
Recall(n) == IF file[n] \in {NoFile, Empty} THEN 0 ELSE file[n]

\* Mutant: the arguments are passed as they are.
ApplyNot(argv, hint) == argv

\* resume::apply: not for other vendors, nor for arguments that resume already.
Apply(argv, hint) ==
  IF hint # 0 /\ argv.prog \in Resumable /\ argv.id = 0
  THEN [argv EXCEPT !.id = hint] ELSE argv

Begin(todo) ==
  /\ cmd.pc = "idle" /\ todo # << >> /\ Called
  /\ cmd' = [Idle EXCEPT !.pc = "recall", !.todo = todo]
  /\ UNCHANGED <<up, table, chats, file, writer, expect, muddled, stops>>

\* One session: arguments of the command line, or the configured ones.
Start(n, argv) ==
  /\ \/ argv.id \in 0..chats /\ (argv.prog \notin Resumable => argv.id = 0)
     \/ \E i \in DOMAIN Config : Config[i].name = n /\ argv = [prog |-> Config[i].prog, id |-> 0]
  /\ Begin(<<[name |-> n, argv |-> argv]>>)

StartAll ==
  Begin([i \in DOMAIN Config |->
    [name |-> Config[i].name, argv |-> [prog |-> Config[i].prog, id |-> 0]]])

\* with_resume.
WithResume ==
  /\ cmd.pc = "recall"
  /\ LET next == Head(cmd.todo) IN
     /\ cmd' = [cmd EXCEPT !.pc = "rpc", !.argv = Apply(next.argv, Recall(next.name))]
     /\ Muddle(next.name, Busy(next.name))
  /\ UNCHANGED <<up, table, chats, file, writer, expect, stops, calls>>

\* There is a file, but it cannot be read: the arguments stay as they are.
RecallFails ==
  /\ cmd.pc = "recall"
  /\ cmd' = [cmd EXCEPT !.pc = "rpc", !.argv = Head(cmd.todo).argv]
  /\ Muddle(Head(cmd.todo).name, TRUE)
  /\ UNCHANGED <<up, table, chats, file, writer, expect, stops, calls>>

\* apply_start has no current directory: the rest is not tried.
Abort ==
  /\ cmd.pc = "recall" /\ cmd' = Idle
  /\ UNCHANGED <<up, table, chats, file, writer, expect, muddled, stops, calls>>

\* The answer to a start, whatever it is, and on to the next session.
Answered ==
  cmd' = IF Len(cmd.todo) = 1 THEN Idle
         ELSE [Idle EXCEPT !.pc = "recall", !.todo = Tail(cmd.todo)]

\* No daemon, a program that cannot be spawned, or a session that lives.
NothingSpawned ==
  /\ cmd.pc = "rpc" /\ Answered
  /\ UNCHANGED <<up, table, chats, file, writer, expect, muddled, stops, calls>>

\* The program goes on with the chat it is told to, or begins one; there is no
\* chat for a mixture.  The session is listed as running before any report.
Spawned(n) ==
  LET id == cmd.argv.id IN
  /\ cmd.pc = "rpc" /\ up /\ n = Head(cmd.todo).name /\ ~Live(n)
  /\ id = 0 => chats < MaxChat
  /\ chats' = IF id = 0 THEN chats + 1 ELSE chats
  /\ table' = [table EXCEPT ![n] =
       [state |-> "live", prog |-> cmd.argv.prog, status |-> "running",
        chat |-> IF id = 0 THEN chats' ELSE IF id = Torn THEN 0 ELSE id]]
  /\ expect' = [expect EXCEPT ![n].status = "none"]
  /\ Muddle(n, Busy(n))
  /\ Answered
  /\ UNCHANGED <<up, file, writer, stops, calls>>

Command ==
  \/ \E n \in Name, p \in Program, id \in 0..MaxChat : Start(n, [prog |-> p, id |-> id])
  \/ StartAll \/ WithResume \/ RecallFails \/ Abort \/ NothingSpawned
  \/ \E n \in Name : Spawned(n)

-----------------------------------------------------------------------------
(* The daemon and the machine                                              *)

\* The daemon ends, and the terminals of its sessions with it.
DaemonEnds ==
  /\ up /\ up' = FALSE
  /\ table' = [n \in Name |-> None]
  /\ UNCHANGED <<chats, file, writer, cmd, expect, muddled, stops, calls>>

DaemonStarts ==
  /\ ~up /\ up' = TRUE
  /\ UNCHANGED <<table, chats, file, writer, cmd, expect, muddled, stops, calls>>

\* Hooks and commands stop where they are; the files stay.
Reboot ==
  /\ up' = FALSE /\ table' = [n \in Name |-> None]
  /\ writer' = [w \in Writer |-> Free] /\ cmd' = Idle
  /\ muddled' = [k \in Key |-> muddled[k] \/ Busy(k)]
  /\ UNCHANGED <<chats, file, expect, stops, calls>>

Next ==
  \/ \E n \in Name : NewChat(n) \/ Exit(n)
  \/ \E w \in Writer :
       \/ \E n \in Name : Attach(w, n)
       \/ \E n \in Name, e \in SUBSET {"stop", "ask"}, id \in 0..chats : Fire(w, n, e, id)
       \/ Report(w) \/ ReportFails(w)
       \/ Truncate(w) \/ Write(w) \/ RememberFails(w) \/ AttachLast(w)
  \/ Command
  \/ DaemonEnds \/ DaemonStarts \/ Reboot

Spec == Init /\ [][Next]_vars

-----------------------------------------------------------------------------
(* Properties                                                              *)

Status == {"none", "running", "idle", "blocked", "dead"}
Hint   == (0..MaxChat) \cup {Torn}
Argv   == [prog : Program \cup {"none"}, id : Hint]
Entry  == [state : {"none", "live", "dead"}, prog : Program \cup {"none"},
           chat : 0..MaxChat, status : Status]
Job    == [pc : {"free", "report", "truncate", "write"}, key : Key,
           status : Status, val : (0..MaxChat) \cup Name]
Word   == [status : Status, val : (0..MaxChat) \cup Name, prog : Program \cup {"none"}]
Todo   == Seq([name : Name, argv : Argv])

\* Every variable keeps its type: a hint that is passed on is a chat's number,
\* or else a mixture of two lines that were written at the same time.
TypeOK ==
  /\ up \in BOOLEAN /\ chats \in 0..MaxChat /\ calls \in 0..MaxCalls
  /\ table \in [Name -> Entry] /\ writer \in [Writer -> Job]
  /\ file \in [Key -> {NoFile, Empty, Torn} \cup (1..MaxChat) \cup Name]
  /\ cmd \in [pc : {"idle", "recall", "rpc"}, argv : Argv, todo : Todo]
  /\ cmd.pc = "idle" <=> cmd.todo = << >>
  /\ expect \in [Key -> Word] /\ muddled \in [Key -> BOOLEAN]
  /\ stops \in [Name -> SUBSET (1..MaxChat)]

\* A chat is resumed only if a turn of it has ended under this very name: no
\* empty file, no other event and no other session's hint leads to a resume
\* (docs/decisions/0002: "Sumika never invents chat resume").  A mixture of two
\* hints is passed on only when hooks of the name have overlapped, or one of them
\* has failed or met a start, and none has finished a turn alone since.
NeverInvents ==
  LET n == Head(cmd.todo).name IN
  cmd.pc = "rpc" =>
    \/ cmd.argv = Head(cmd.todo).argv
    \/ cmd.argv.id \in stops[n]
    \/ cmd.argv.id = Torn /\ muddled[n]

\* Where hooks, attaches and starts of one name have not overlapped, the files
\* say what the last of them said, and so does the list once there has been a
\* report, across exits, crashes of the daemon and reboots (hook_report: Report,
\* then remember).
LastWordCounts ==
  \A k \in Key : muddled[k] \/ Busy(k) \/
    /\ file[k] = IF expect[k].val = 0 THEN NoFile ELSE expect[k].val
    /\ (k \in Name /\ Live(k) /\ expect[k].status # "none") =>
         table[k].status = expect[k].status

\* A program that is started again under its name goes on with the chat its
\* last finished turn was in, also after the daemon or the machine has been
\* down in between (with_resume, apply).
ResumesWhereItStopped ==
  [][\A n \in Name :
       (~Live(n) /\ Live(n)' /\ ~muddled'[n]
          /\ cmd.argv.prog \in Resumable /\ Head(cmd.todo).argv.id = 0
          /\ expect[n].prog = cmd.argv.prog)
       => table'[n].chat = expect[n].val]_vars
===============================================================================
