----------------------------- MODULE Launch_proofs -----------------------------
(***************************************************************************)
(* What the stored hints promise, for any names, programs, configurations, *)
(* writers and bounds.                                                     *)
(***************************************************************************)
EXTENDS Launch, SequenceTheorems, TLAPS

Storing == {"truncate", "write"}

\* Only reports about a session are sent, and only values worth it are stored.
WritersHold == \A w \in Writer :
  /\ writer[w].pc = "report" => writer[w].key \in Name
  /\ writer[w].pc \in Storing => writer[w].val # 0
  /\ writer[w].key \in Name => writer[w].val \in 0..MaxChat

\* What is stored, or about to be, under a session's name is a chat of which a
\* turn has ended under that name, or a mixture of such.
HintsAreStops ==
  /\ \A n \in Name : file[n] \in {NoFile, Empty, Torn} \/ file[n] \in stops[n]
  /\ \A w \in Writer :
       writer[w].pc # "free" /\ writer[w].key \in Name /\ writer[w].val # 0 =>
         writer[w].val \in stops[writer[w].key]

\* A start passes on its own arguments, such a chat, or a mixture.
PassesStops == cmd.pc = "rpc" =>
  LET next == Head(cmd.todo) IN
  cmd.argv = next.argv \/ cmd.argv.id \in stops[next.name] \cup {Torn}

Honest == TypeOK /\ WritersHold /\ HintsAreStops /\ PassesStops

-----------------------------------------------------------------------------
(* Lemmas about the operators                                              *)

LEMMA Constants ==
  /\ Last \notin Name /\ Last \in Key /\ Name \subseteq Key /\ Resumable \subseteq Program
  /\ "none" \notin Program
  /\ \A x \in Name \cup (0..MaxChat) : x # NoFile /\ x # Empty /\ x # Torn
  /\ \A x \in 0..MaxChat : x \notin Name
  /\ Torn # NoFile /\ Torn # Empty
  /\ 0 \in 0..MaxChat
  /\ MaxChat \in Nat /\ MaxCalls \in Nat
<1>1. Last \notin Name /\ Resumable \subseteq Program /\ "none" \notin Program
  BY LaunchNames
<1>2. Last \in Key /\ Name \subseteq Key
  BY DEF Key
<1>3. MaxChat \in Nat /\ MaxCalls \in Nat
  BY LaunchBounds
<1>4. 0 \in 0..MaxChat
  BY <1>3
<1>5. \A x \in Name \cup (0..MaxChat) : x # NoFile /\ x # Empty /\ x # Torn
  BY Zenon, LaunchNames
<1>6. \A x \in 0..MaxChat : x \notin Name
  BY Zenon, LaunchNames
<1>7. Torn # NoFile /\ Torn # Empty
  BY Zenon, LaunchNames
<1>. QED BY <1>1, <1>2, <1>3, <1>4, <1>5, <1>6, <1>7

\* A configured session is a session to start.
LEMMA Configured ==
  ASSUME NEW i \in DOMAIN Config
  PROVE  Config[i].name \in Name /\ Config[i].prog \in Program
<1>1. Config \in Seq([name : Name, prog : Program])
  BY LaunchNames
<1>2. i \in 1..Len(Config)
  BY <1>1, LenProperties
<1>3. Config[i] \in [name : Name, prog : Program]
  BY <1>1, <1>2, ElementOfSeq
<1>. QED BY <1>3

LEMMA ApplyType ==
  ASSUME NEW argv \in Argv, NEW hint \in Hint
  PROVE  /\ Apply(argv, hint) \in Argv
         /\ Apply(argv, hint) = argv \/ Apply(argv, hint).id = hint
  BY DEF Apply, Argv

\* A stored hint is recalled as it is, and so is a mixture.
LEMMA RecallType ==
  ASSUME TypeOK, HintsAreStops, NEW n \in Name
  PROVE  /\ Recall(n) \in Hint
         /\ Recall(n) # 0 => Recall(n) \in stops[n] \cup {Torn}
  BY Constants DEF TypeOK, HintsAreStops, Recall, Hint

\* A hint is what a turn that has ended reports, and nothing else.
LEMMA HintIsStop ==
  ASSUME NEW events \in SUBSET {"stop", "ask"}, NEW id \in Nat
  PROVE  /\ HintFrom(StatusFrom(events), id) \in {0, id}
         /\ HintFrom(StatusFrom(events), id) # 0 <=> events = {"stop"} /\ id # 0
         /\ StatusFrom(events) \in {"none", "idle", "blocked"}
  BY DEF HintFrom, StatusFrom

-----------------------------------------------------------------------------
(* Types                                                                   *)

LEMMA NoneTypes ==
  /\ None \in Entry
  /\ Dead \in Entry
  /\ Free \in Job
  /\ Idle \in [pc : {"idle", "recall", "rpc"}, argv : Argv, todo : Todo]
<1>1. None \in Entry /\ Dead \in Entry
  BY Constants DEF None, Dead, Entry, Status
<1>2. Free \in Job
  BY Constants DEF Free, Job, Status
<1>3. Idle \in [pc : {"idle", "recall", "rpc"}, argv : Argv, todo : Todo]
  BY Constants, EmptySeq DEF Idle, Argv, Hint, Todo
<1>. QED BY <1>1, <1>2, <1>3

\* Records with one field set anew keep their types.
LEMMA EntryWith ==
  ASSUME NEW e \in Entry
  PROVE  /\ \A c \in 0..MaxChat : [e EXCEPT !.chat = c] \in Entry
         /\ \A s \in Status : [e EXCEPT !.status = s] \in Entry
         /\ e.prog \in Program \cup {"none"} /\ e.chat \in 0..MaxChat
  BY DEF Entry

LEMMA JobWith ==
  ASSUME NEW j \in Job
  PROVE  /\ [j EXCEPT !.pc = "truncate", !.status = "none"] \in Job
         /\ [j EXCEPT !.pc = "write"] \in Job
         /\ j.pc \in {"free", "report", "truncate", "write"}
         /\ j.key \in Key /\ j.status \in Status /\ j.val \in (0..MaxChat) \cup Name
  BY DEF Job, Status

LEMMA WordWith ==
  ASSUME NEW x \in Word
  PROVE  /\ \A s \in Status : [x EXCEPT !.status = s] \in Word
         /\ \A v \in (0..MaxChat) \cup Name : [x EXCEPT !.val = v] \in Word
         /\ x.status \in Status /\ x.val \in (0..MaxChat) \cup Name
         /\ x.prog \in Program \cup {"none"}
  BY DEF Word

LEMMA InitTypes == Init => TypeOK
<1>. SUFFICES ASSUME Init PROVE TypeOK
  OBVIOUS
<1>1. /\ up \in BOOLEAN /\ chats \in 0..MaxChat /\ calls \in 0..MaxCalls
      /\ file \in [Key -> {NoFile, Empty, Torn} \cup (1..MaxChat) \cup Name]
      /\ muddled \in [Key -> BOOLEAN] /\ stops \in [Name -> SUBSET (1..MaxChat)]
  BY Constants DEF Init
<1>2. table \in [Name -> Entry]
  BY NoneTypes DEF Init
<1>3. writer \in [Writer -> Job]
  BY NoneTypes DEF Init
<1>4. cmd \in [pc : {"idle", "recall", "rpc"}, argv : Argv, todo : Todo]
      /\ (cmd.pc = "idle" <=> cmd.todo = << >>)
  BY NoneTypes DEF Init, Idle
<1>5. expect \in [Key -> Word]
  BY Constants DEF Init, Status, Word
<1>. QED BY <1>1, <1>2, <1>3, <1>4, <1>5 DEF TypeOK

LEMMA ProgramTypes ==
  ASSUME TypeOK, NEW n \in Name, NewChat(n) \/ Exit(n)
  PROVE  TypeOK'
<1>1. CASE NewChat(n)
  <2>1. chats' \in 0..MaxChat
    BY <1>1, Constants DEF TypeOK, NewChat
  <2>2. table' \in [Name -> Entry]
    BY <1>1, <2>1, EntryWith DEF TypeOK, NewChat
  <2>. QED BY <1>1, <2>1, <2>2 DEF TypeOK, NewChat
<1>2. CASE Exit(n)
  BY <1>2, NoneTypes DEF TypeOK, Exit
<1>. QED BY <1>1, <1>2

LEMMA FireTypes ==
  ASSUME TypeOK, NEW w \in Writer, NEW n \in Name,
         NEW e \in SUBSET {"stop", "ask"}, NEW id \in 0..chats, Fire(w, n, e, id)
  PROVE  TypeOK'
<1>1. id \in 0..MaxChat /\ id \in Nat
  BY Constants DEF TypeOK
<1>2. /\ HintFrom(StatusFrom(e), id) \in 0..MaxChat
      /\ StatusFrom(e) \in Status
  BY <1>1, HintIsStop, Constants DEF Status
<1>3. writer' \in [Writer -> Job]
  <2>1. [pc |-> "report", key |-> n, status |-> StatusFrom(e),
         val |-> HintFrom(StatusFrom(e), id)] \in Job
    BY <1>2, Constants DEF Job
  <2>. QED BY <2>1 DEF TypeOK, Fire
<1>4. calls' \in 0..MaxCalls
  BY Constants DEF TypeOK, Fire, Called
<1>5. expect' \in [Key -> Word]
  <2>1. expect[n] \in Word /\ table[n] \in Entry
    BY Constants DEF TypeOK
  <2>2. ASSUME NEW v \in {id, expect[n].val}, NEW p \in {table[n].prog, expect[n].prog}
        PROVE  [status |-> StatusFrom(e), val |-> v, prog |-> p] \in Word
    BY <1>1, <1>2, <2>1, EntryWith, WordWith DEF Word
  <2>. QED BY <2>2 DEF TypeOK, Fire
<1>6. muddled' \in [Key -> BOOLEAN] /\ stops' \in [Name -> SUBSET (1..MaxChat)]
  <2>1. muddled' \in [Key -> BOOLEAN]
    BY DEF TypeOK, Fire
  <2>2. stops' \in [Name -> SUBSET (1..MaxChat)]
    BY <1>1, Constants DEF TypeOK, Fire
  <2>. QED BY <2>1, <2>2
<1>. QED BY <1>3, <1>4, <1>5, <1>6 DEF TypeOK, Fire, Still

LEMMA WriterTypes ==
  ASSUME TypeOK, WritersHold, NEW w \in Writer,
         Report(w) \/ ReportFails(w) \/ Truncate(w) \/ Write(w) \/ RememberFails(w)
  PROVE  TypeOK'
<1>1. CASE Report(w)
  <2>1. writer[w].key \in Name /\ writer[w].status \in Status
    BY <1>1, JobWith DEF TypeOK, WritersHold, Report, Reported
  <2>2. table' \in [Name -> Entry]
    BY <1>1, <2>1, EntryWith DEF TypeOK, Report
  <2>3. writer' \in [Writer -> Job]
    BY <1>1, NoneTypes, JobWith DEF TypeOK, Report, Reported
  <2>. QED BY <1>1, <2>2, <2>3 DEF TypeOK, Report, Reported, Still
<1>2. CASE Truncate(w)
  <2>1. writer' \in [Writer -> Job] /\ writer[w].key \in Key
    BY <1>2, JobWith DEF TypeOK, Truncate
  <2>2. file' \in [Key -> {NoFile, Empty, Torn} \cup (1..MaxChat) \cup Name]
    BY <1>2, <2>1 DEF TypeOK, Truncate
  <2>. QED BY <1>2, <2>1, <2>2 DEF TypeOK, Truncate, Still
<1>3. CASE Write(w)
  <2>1. writer[w].val \in (1..MaxChat) \cup Name
    <3>1. writer[w].val \in (0..MaxChat) \cup Name
      BY JobWith DEF TypeOK
    <3>2. writer[w].val # 0
      BY <1>3 DEF WritersHold, Storing, Write
    <3>. QED BY <3>1, <3>2, Constants
  <2>2. file' \in [Key -> {NoFile, Empty, Torn} \cup (1..MaxChat) \cup Name]
    BY <1>3, <2>1 DEF TypeOK, Write
  <2>. QED BY <1>3, <2>2, NoneTypes DEF TypeOK, Write, Still
<1>4. CASE RememberFails(w)
  <2>1. muddled' \in [Key -> BOOLEAN]
    BY <1>4 DEF TypeOK, RememberFails, Muddle
  <2>. QED BY <1>4, <2>1, NoneTypes DEF TypeOK, RememberFails, Still
<1>5. CASE ReportFails(w)
  <2>1. writer' \in [Writer -> Job]
    BY <1>5, NoneTypes, JobWith DEF TypeOK, ReportFails, Reported
  <2>2. expect' \in [Key -> Word]
    BY <1>5, WordWith, JobWith DEF TypeOK, ReportFails, Status
  <2>. QED BY <1>5, <2>1, <2>2 DEF TypeOK, ReportFails, Reported, Still
<1>. QED BY <1>1, <1>2, <1>3, <1>4, <1>5

LEMMA AttachTypes ==
  ASSUME TypeOK, NEW w \in Writer, NEW n \in Name, Attach(w, n)
  PROVE  TypeOK'
<1>1. calls' \in 0..MaxCalls
  BY Constants DEF TypeOK, Attach, Called
<1>2. muddled' \in [Key -> BOOLEAN]
  BY DEF TypeOK, Attach, Busy
<1>3. writer' \in [Writer -> Job]
  <2>1. [pc |-> "truncate", key |-> Last, status |-> "none", val |-> n] \in Job
    BY Constants DEF Job, Status
  <2>. QED BY <2>1 DEF TypeOK, Attach
<1>4. expect' \in [Key -> Word]
  BY WordWith, Constants DEF TypeOK, Attach
<1>. QED BY <1>1, <1>2, <1>3, <1>4 DEF TypeOK, Attach, Still

-----------------------------------------------------------------------------
(* The start command                                                       *)

\* What a command begins with is a list of sessions with their arguments.
LEMMA BeginTypes ==
  ASSUME TypeOK, NEW todo \in Todo, Begin(todo)
  PROVE  TypeOK'
<1>1. calls' \in 0..MaxCalls
  BY Constants DEF TypeOK, Begin, Called
<1>2. cmd' \in [pc : {"idle", "recall", "rpc"}, argv : Argv, todo : Todo]
      /\ cmd'.pc = "recall" /\ cmd'.todo = todo
  BY NoneTypes DEF Begin, Idle
<1>3. todo # << >>
  BY DEF Begin
<1>. QED BY <1>1, <1>2, <1>3 DEF TypeOK, Begin

LEMMA StartTodo ==
  ASSUME NEW n \in Name, NEW p \in Program, NEW id \in 0..MaxChat
  PROVE  <<[name |-> n, argv |-> [prog |-> p, id |-> id]]>> \in Todo
<1>1. [name |-> n, argv |-> [prog |-> p, id |-> id]] \in [name : Name, argv : Argv]
  BY DEF Argv, Hint
<1>. QED BY <1>1 DEF Todo

LEMMA StartAllTodo ==
  [i \in DOMAIN Config |->
     [name |-> Config[i].name, argv |-> [prog |-> Config[i].prog, id |-> 0]]]
    \in Todo
<1>1. DOMAIN Config = 1..Len(Config) /\ Len(Config) \in Nat
  <2>1. Config \in Seq([name : Name, prog : Program])
    BY LaunchNames
  <2>. QED BY <2>1, LenProperties
<1>2. \A i \in DOMAIN Config :
        [name |-> Config[i].name, argv |-> [prog |-> Config[i].prog, id |-> 0]]
          \in [name : Name, argv : Argv]
  BY Configured, Constants DEF Argv, Hint
<1>. QED BY <1>1, <1>2 DEF Todo

\* While a command runs there is a session it is at.
LEMMA NextSession ==
  ASSUME TypeOK, cmd.pc # "idle"
  PROVE  /\ cmd.todo # << >> /\ cmd.todo \in Todo
         /\ Head(cmd.todo) \in [name : Name, argv : Argv]
         /\ Head(cmd.todo).name \in Name /\ Head(cmd.todo).argv \in Argv
         /\ Tail(cmd.todo) \in Todo
         /\ Len(cmd.todo) # 1 => Tail(cmd.todo) # << >>
<1>1. cmd.todo # << >> /\ cmd.todo \in Todo
  BY DEF TypeOK
<1>2. Head(cmd.todo) \in [name : Name, argv : Argv]
      /\ Tail(cmd.todo) \in Todo
  BY <1>1, HeadTailProperties DEF Todo
<1>3. Len(cmd.todo) # 1 => Tail(cmd.todo) # << >>
  <2>1. Len(Tail(cmd.todo)) = Len(cmd.todo) - 1
    BY <1>1, HeadTailProperties DEF Todo
  <2>2. Len(cmd.todo) \in Nat /\ Len(<< >>) = 0
    BY <1>1, LenProperties DEF Todo
  <2>3. Tail(cmd.todo) = << >> => Len(Tail(cmd.todo)) = Len(<< >>)
    OBVIOUS
  <2>. QED BY <2>1, <2>2, <2>3
<1>. QED BY <1>1, <1>2, <1>3

LEMMA AnsweredTypes ==
  ASSUME TypeOK, cmd.pc # "idle", Answered
  PROVE  /\ cmd' \in [pc : {"idle", "recall", "rpc"}, argv : Argv, todo : Todo]
         /\ cmd'.pc = "idle" <=> cmd'.todo = << >>
         /\ cmd'.pc # "rpc"
<1>1. CASE Len(cmd.todo) = 1
  BY <1>1, NoneTypes DEF Answered, Idle
<1>2. CASE Len(cmd.todo) # 1
  BY <1>2, NextSession, NoneTypes DEF Answered, Idle
<1>. QED BY <1>1, <1>2

LEMMA CommandTypes ==
  ASSUME TypeOK, HintsAreStops, Command
  PROVE  TypeOK'
<1>1. ASSUME NEW n \in Name, NEW p \in Program, NEW id \in 0..MaxChat,
             Start(n, [prog |-> p, id |-> id])
      PROVE  TypeOK'
  BY <1>1, StartTodo, BeginTypes DEF Start
<1>2. CASE StartAll
  BY <1>2, StartAllTodo, BeginTypes DEF StartAll
<1>3. CASE WithResume
  <2>. DEFINE next == Head(cmd.todo)
  <2>1. next.name \in Name /\ next.argv \in Argv /\ cmd.todo # << >>
    BY <1>3, NextSession DEF WithResume
  <2>2. Apply(next.argv, Recall(next.name)) \in Argv
    BY <2>1, ApplyType, RecallType
  <2>3. muddled' \in [Key -> BOOLEAN]
    BY <1>3 DEF TypeOK, WithResume, Muddle, Busy
  <2>. QED BY <1>3, <2>1, <2>2, <2>3 DEF TypeOK, WithResume
<1>4. CASE Abort
  <2>1. Idle.pc = "idle" /\ Idle.todo = << >>
    BY DEF Idle
  <2>. QED BY <1>4, <2>1, NoneTypes DEF TypeOK, Abort
<1>5. CASE NothingSpawned
  <2>1. cmd.pc # "idle" /\ Answered
    BY <1>5 DEF NothingSpawned
  <2>. QED BY <1>5, <2>1, AnsweredTypes DEF TypeOK, NothingSpawned
<1>6. ASSUME NEW n \in Name, Spawned(n) PROVE TypeOK'
  <2>1. cmd.pc # "idle" /\ Answered
    BY <1>6 DEF Spawned
  <2>2. chats' \in 0..MaxChat
    BY <1>6, Constants DEF TypeOK, Spawned
  <2>3. cmd.argv.id \in Hint /\ cmd.argv.prog \in Program \cup {"none"}
    BY DEF TypeOK, Argv
  <2>4. table' \in [Name -> Entry]
    <3>1. [state |-> "live", prog |-> cmd.argv.prog, status |-> "running",
           chat |-> IF cmd.argv.id = 0 THEN chats'
                    ELSE IF cmd.argv.id = Torn THEN 0 ELSE cmd.argv.id] \in Entry
      BY <2>2, <2>3, Constants DEF Entry, Status, Hint
    <3>. QED BY <1>6, <3>1 DEF TypeOK, Spawned
  <2>5. expect' \in [Key -> Word]
    BY <1>6, WordWith, Constants DEF TypeOK, Spawned, Status
  <2>6. muddled' \in [Key -> BOOLEAN]
    BY <1>6 DEF TypeOK, Spawned, Muddle, Busy
  <2>. QED BY <1>6, <2>1, <2>2, <2>4, <2>5, <2>6, AnsweredTypes DEF TypeOK, Spawned
<1>7. CASE RecallFails
  <2>1. Head(cmd.todo).argv \in Argv /\ cmd.todo # << >>
    BY <1>7, NextSession DEF RecallFails
  <2>2. muddled' \in [Key -> BOOLEAN]
    BY <1>7 DEF TypeOK, RecallFails, Muddle
  <2>. QED BY <1>7, <2>1, <2>2 DEF TypeOK, RecallFails
<1>. QED BY <1>1, <1>2, <1>3, <1>4, <1>5, <1>6, <1>7 DEF Command

LEMMA MachineTypes ==
  ASSUME TypeOK, DaemonEnds \/ DaemonStarts \/ Reboot
  PROVE  TypeOK'
<1>1. CASE DaemonEnds BY <1>1, NoneTypes DEF TypeOK, DaemonEnds
<1>2. CASE DaemonStarts BY <1>2 DEF TypeOK, DaemonStarts
<1>3. CASE Reboot
  <2>1. muddled' \in [Key -> BOOLEAN]
    BY <1>3 DEF TypeOK, Reboot, Busy
  <2>2. Idle.pc = "idle" /\ Idle.todo = << >>
    BY DEF Idle
  <2>. QED BY <1>3, <2>1, <2>2, NoneTypes DEF TypeOK, Reboot
<1>. QED BY <1>1, <1>2, <1>3

-----------------------------------------------------------------------------
(* Hints are chats that have ended a turn                                  *)

LEMMA InitHonest == Init => Honest
  BY InitTypes, Constants DEF Init, Honest, WritersHold, HintsAreStops, PassesStops,
     Free, Idle, Storing

\* A step that leaves files and writers alone.
LEMMA FilesApart ==
  ASSUME Honest, UNCHANGED <<file, writer, stops>>
  PROVE  WritersHold' /\ HintsAreStops'
  BY DEF Honest, WritersHold, HintsAreStops

\* What has ended a turn once has done so for good.
LEMMA CommandApart ==
  ASSUME Honest, cmd' = cmd, \A n \in Name : stops[n] \subseteq stops'[n]
  PROVE  PassesStops'
<1>1. cmd.pc = "rpc" => Head(cmd.todo).name \in Name
  BY NextSession DEF Honest
<1>. QED BY <1>1 DEF Honest, PassesStops

LEMMA FireHonest ==
  ASSUME Honest, NEW w \in Writer, NEW n \in Name,
         NEW e \in SUBSET {"stop", "ask"}, NEW id \in 0..chats, Fire(w, n, e, id)
  PROVE  Honest'
<1>. DEFINE hint == HintFrom(StatusFrom(e), id)
<1>1. id \in 0..MaxChat /\ id \in Nat
  BY Constants DEF Honest, TypeOK
<1>2. hint \in {0, id} /\ (hint # 0 <=> e = {"stop"} /\ id # 0)
  BY <1>1, HintIsStop
<1>3. /\ writer' = [writer EXCEPT ![w] =
           [pc |-> "report", key |-> n, status |-> StatusFrom(e), val |-> hint]]
      /\ file' = file /\ cmd' = cmd
  BY DEF Fire, Still
<1>4. stops' = [stops EXCEPT ![n] = IF e = {"stop"} /\ id # 0 THEN @ \cup {id} ELSE @]
  BY DEF Fire
<1>5. \A m \in Name : stops[m] \subseteq stops'[m]
  BY <1>4 DEF Honest, TypeOK
<1>6. hint # 0 => hint \in stops'[n]
  BY <1>2, <1>4 DEF Honest, TypeOK
<1>. HIDE DEF hint
<1>7. WritersHold'
  BY <1>1, <1>2, <1>3, Constants DEF Honest, TypeOK, WritersHold, Storing
<1>8. HintsAreStops'
  BY <1>3, <1>5, <1>6 DEF Honest, TypeOK, HintsAreStops
<1>. QED BY <1>3, <1>5, <1>7, <1>8, FireTypes, CommandApart DEF Honest

LEMMA WriterHonest ==
  ASSUME Honest, NEW w \in Writer,
         Report(w) \/ ReportFails(w) \/ Truncate(w) \/ Write(w) \/ RememberFails(w)
  PROVE  Honest'
<1>1. TypeOK' /\ PassesStops'
  BY WriterTypes, CommandApart
     DEF Honest, Report, ReportFails, Reported, Truncate, Write, RememberFails, Still
<1>2. stops' = stops
  BY DEF Report, ReportFails, Reported, Truncate, Write, RememberFails
<1>3. WritersHold'
  <2>1. CASE writer' = [writer EXCEPT ![w] = Free]
    BY <2>1, Constants DEF Honest, TypeOK, WritersHold, Free, Storing
  <2>2. CASE Reported(w) /\ writer[w].val # 0
    BY <2>2 DEF Honest, TypeOK, WritersHold, Reported, Storing
  <2>3. CASE Truncate(w)
    BY <2>3 DEF Honest, TypeOK, WritersHold, Truncate, Storing
  <2>. QED BY <2>1, <2>2, <2>3 DEF Report, ReportFails, Reported, Write, RememberFails
<1>4. HintsAreStops'
  <2>1. ASSUME file' = file, writer' = [writer EXCEPT ![w] = Free] PROVE HintsAreStops'
    BY <2>1, <1>2 DEF Honest, TypeOK, HintsAreStops, Free
  <2>2. CASE Reported(w)
    <3>1. file' = file
      BY <2>2 DEF Reported
    <3>2. CASE writer[w].val = 0
      BY <2>1, <2>2, <3>1, <3>2 DEF Reported
    <3>3. CASE writer[w].val # 0
      <4>1. writer' = [writer EXCEPT ![w] = [@ EXCEPT !.pc = "truncate", !.status = "none"]]
        BY <2>2, <3>3 DEF Reported
      <4>2. \A v \in Writer : writer'[v].key = writer[v].key /\ writer'[v].val = writer[v].val
              /\ (writer'[v].pc # "free" => writer[v].pc # "free")
        <5>1. writer[w] \in Job
          BY DEF Honest, TypeOK
        <5>2. \A v \in Writer : writer'[v] =
                IF v = w THEN [writer[w] EXCEPT !.pc = "truncate", !.status = "none"] ELSE writer[v]
          BY <4>1 DEF Honest, TypeOK
        <5>3. writer[w].pc # "free"
          BY <2>2 DEF Reported
        <5>4. /\ writer'[w].key = writer[w].key /\ writer'[w].val = writer[w].val
          BY <5>1, <5>2 DEF Job
        <5>. QED BY <5>2, <5>3, <5>4
      <4>. QED BY <3>1, <4>2, <1>2 DEF Honest, HintsAreStops
    <3>. QED BY <3>2, <3>3
  <2>3. CASE Truncate(w)
    BY <2>3, <1>2 DEF Honest, TypeOK, HintsAreStops, Truncate
  <2>4. CASE Write(w)
    <3>. DEFINE k == writer[w].key
                val == writer[w].val
    <3>1. k \in Name => val \in stops[k]
      BY <2>4 DEF Honest, HintsAreStops, WritersHold, Write, Storing
    <3>2. writer' = [writer EXCEPT ![w] = Free]
          /\ (file' = [file EXCEPT ![k] = val] \/ file' = [file EXCEPT ![k] = Torn])
      BY <2>4 DEF Write
    <3>. HIDE DEF k, val
    <3>3. ASSUME NEW n \in Name PROVE file'[n] \in {file[n], Torn} \/ file'[n] \in stops[n]
      BY <3>1, <3>2, Constants DEF Honest, TypeOK
    <3>4. \A v \in Writer : writer'[v] = writer[v] \/ writer'[v].pc = "free"
      BY <3>2 DEF Honest, TypeOK, Free
    <3>. QED BY <1>2, <3>3, <3>4 DEF Honest, HintsAreStops
  <2>. QED BY <2>1, <2>2, <2>3, <2>4 DEF RememberFails, Report, ReportFails, Still
<1>. QED BY <1>1, <1>3, <1>4 DEF Honest

LEMMA AttachHonest ==
  ASSUME Honest, NEW w \in Writer, NEW n \in Name, Attach(w, n)
  PROVE  Honest'
<1>1. TypeOK' /\ PassesStops'
  BY AttachTypes, CommandApart DEF Honest, Attach, Still
<1>2. WritersHold'
  BY Constants DEF Honest, TypeOK, WritersHold, Attach, Storing
<1>3. HintsAreStops'
  BY Constants DEF Honest, TypeOK, HintsAreStops, Attach
<1>. QED BY <1>1, <1>2, <1>3 DEF Honest

\* Every other step of a command leaves it elsewhere than before a start.
LEMMA OthersAnswer ==
  ASSUME TypeOK, Command, ~WithResume, ~RecallFails
  PROVE  cmd'.pc # "rpc"
<1>1. ASSUME NEW todo, Begin(todo) PROVE cmd'.pc # "rpc"
  BY <1>1 DEF Begin, Idle
<1>2. CASE Abort
  BY <1>2 DEF Abort, Idle
<1>3. ASSUME Answered, cmd.pc # "idle" PROVE cmd'.pc # "rpc"
  BY <1>3, AnsweredTypes
<1>. QED BY <1>1, <1>2, <1>3 DEF Command, Start, StartAll, NothingSpawned, Spawned

\* With_resume changes the arguments to those of a chat that has ended a turn.
LEMMA CommandHonest ==
  ASSUME Honest, Command
  PROVE  Honest'
<1>1. TypeOK'
  BY CommandTypes DEF Honest
<1>2. UNCHANGED <<file, writer, stops>>
  BY DEF Command, Start, StartAll, Begin, WithResume, RecallFails, Abort, NothingSpawned,
         Spawned
<1>3. WithResume => PassesStops'
  <2>. SUFFICES ASSUME WithResume PROVE PassesStops'
    OBVIOUS
  <2>. DEFINE next == Head(cmd.todo)
  <2>1. next.name \in Name /\ next.argv \in Argv
    BY NextSession DEF Honest, WithResume
  <2>2. /\ Recall(next.name) \in Hint
        /\ Recall(next.name) # 0 => Recall(next.name) \in stops[next.name] \cup {Torn}
    BY <2>1, RecallType DEF Honest
  <2>3. cmd'.todo = cmd.todo /\ cmd'.argv = Apply(next.argv, Recall(next.name))
    BY DEF Honest, TypeOK, WithResume
  <2>4. \/ Apply(next.argv, Recall(next.name)) = next.argv
        \/ Apply(next.argv, Recall(next.name)).id \in stops[next.name] \cup {Torn}
    BY <2>1, <2>2 DEF Apply, Argv
  <2>. QED BY <1>2, <2>3, <2>4 DEF PassesStops
<1>4. RecallFails => PassesStops'
  BY DEF Honest, TypeOK, RecallFails, PassesStops
<1>5. ~WithResume /\ ~RecallFails => cmd'.pc # "rpc"
  BY OthersAnswer DEF Honest
<1>. QED BY <1>1, <1>2, <1>3, <1>4, <1>5, FilesApart DEF Honest, PassesStops

LEMMA MachineHonest ==
  ASSUME Honest, DaemonEnds \/ DaemonStarts \/ Reboot
  PROVE  Honest'
<1>1. TypeOK'
  BY MachineTypes DEF Honest
<1>2. CASE Reboot
  <2>1. WritersHold' /\ HintsAreStops'
    BY <1>2, Constants DEF Honest, WritersHold, HintsAreStops, Reboot, Free, Storing
  <2>2. PassesStops'
    BY <1>2 DEF PassesStops, Reboot, Idle
  <2>. QED BY <1>1, <2>1, <2>2 DEF Honest
<1>3. CASE DaemonEnds \/ DaemonStarts
  BY <1>1, <1>3, FilesApart, CommandApart DEF Honest, DaemonEnds, DaemonStarts
<1>. QED BY <1>2, <1>3

LEMMA StepHonest == Honest /\ [Next]_vars => Honest'
<1>. SUFFICES ASSUME Honest, [Next]_vars PROVE Honest'
  OBVIOUS
<1>1. ASSUME NEW n \in Name, NewChat(n) \/ Exit(n) PROVE Honest'
  BY <1>1, ProgramTypes, FilesApart, CommandApart DEF Honest, NewChat, Exit
<1>2. ASSUME NEW w \in Writer, NEW n \in Name, Attach(w, n) PROVE Honest'
  BY <1>2, AttachHonest
<1>3. ASSUME NEW w \in Writer, AttachLast(w) PROVE Honest'
  BY <1>3, AttachHonest DEF AttachLast
<1>4. CASE UNCHANGED vars
  <2>1. TypeOK'
    BY <1>4 DEF Honest, TypeOK, vars
  <2>. QED BY <1>4, <2>1, FilesApart, CommandApart DEF Honest, vars
<1>. QED BY <1>1, <1>2, <1>3, <1>4, FireHonest, WriterHonest, CommandHonest, MachineHonest
         DEF Next

LEMMA AlwaysHonest == Spec => []Honest
<1>. QED BY InitHonest, StepHonest, PTL DEF Spec

\* Every reachable state is well typed: what is passed to a program as the
\* chat to resume is the number of one, or a mixture of what two hooks wrote.
THEOREM TypeCorrect == Spec => []TypeOK
<1>1. Honest => TypeOK
  BY DEF Honest
<1>. QED BY <1>1, AlwaysHonest, PTL

-----------------------------------------------------------------------------
(* The last word                                                           *)

\* The writer w is at work on the key k.
At(w, k) == writer[w].pc # "free" /\ writer[w].key = k
Want(k)  == IF expect[k].val = 0 THEN NoFile ELSE expect[k].val

\* Where nothing has overlapped, at most one writer is at work, and what it
\* will write, into a file it has found empty, or what is there when nobody is,
\* is what was said last.
Alone(k)    == \A v, w \in Writer : At(v, k) /\ At(w, k) => v = w
FileSays(k) == (\A w \in Writer : ~At(w, k)) => file[k] = Want(k)
JobSays(k)  == \A w \in Writer : At(w, k) =>
  IF writer[w].pc = "report"
  THEN /\ writer[w].status = expect[k].status
       /\ \/ writer[w].val = 0 /\ file[k] = Want(k)
          \/ writer[w].val # 0 /\ writer[w].val = expect[k].val
  ELSE writer[w].val = expect[k].val /\ (writer[w].pc = "write" => file[k] = Empty)
TableSays(k) ==
  (k \in Name /\ Live(k) /\ expect[k].status # "none"
     /\ \A w \in Writer : At(w, k) => writer[w].pc # "report") =>
    table[k].status = expect[k].status

Said(k) == Alone(k) /\ FileSays(k) /\ JobSays(k) /\ TableSays(k)

\* Sessions live while the daemon does.
LiveUp == \A n \in Name : Live(n) => up

Loyal == Honest /\ LiveUp /\ \A k \in Key : muddled[k] \/ Said(k)

LEMMA InitLoyal == Init => Loyal
<1>. SUFFICES ASSUME Init PROVE Loyal
  OBVIOUS
<1>1. Honest
  BY InitHonest
<1>2. \A w \in Writer : writer[w].pc = "free"
  BY DEF Init, Free
<1>3. LiveUp /\ \A n \in Name : ~Live(n)
  BY DEF Init, LiveUp, Live, None
<1>4. \A k \in Key : file[k] = NoFile /\ expect[k].val = 0
  BY DEF Init
<1>. QED BY <1>1, <1>2, <1>3, <1>4
     DEF Loyal, Said, Alone, FileSays, JobSays, TableSays, At, Want

\* Nothing about the key k has changed, but that its session may have ended.
LEMMA Elsewhere ==
  ASSUME NEW k \in Key, Said(k),
         \A v \in Writer : (At(v, k)' <=> At(v, k)) /\ (At(v, k) => writer'[v] = writer[v]),
         file'[k] = file[k], expect'[k] = expect[k],
         k \in Name /\ Live(k)' => Live(k) /\ table'[k].status = table[k].status
  PROVE  Said(k)'
<1>1. Want(k)' = Want(k)
  BY DEF Want
<1>2. Alone(k)' /\ FileSays(k)'
  BY <1>1 DEF Said, Alone, FileSays
<1>3. JobSays(k)'
  BY <1>1 DEF Said, JobSays
<1>4. TableSays(k)'
  BY DEF Said, TableSays
<1>. QED BY <1>2, <1>3, <1>4 DEF Said

LEMMA SaidApart ==
  ASSUME NEW k \in Key, Said(k), writer' = writer,
         file'[k] = file[k], expect'[k] = expect[k],
         k \in Name /\ Live(k)' => Live(k) /\ table'[k].status = table[k].status
  PROVE  Said(k)'
  BY Elsewhere DEF At

LEMMA FireLoyal ==
  ASSUME Loyal, NEW w \in Writer, NEW n \in Name,
         NEW e \in SUBSET {"stop", "ask"}, NEW id \in 0..chats, Fire(w, n, e, id)
  PROVE  Loyal'
<1>. DEFINE status == StatusFrom(e)
            hint == HintFrom(status, id)
            stopped == e = {"stop"} /\ id # 0
            meets == Busy(n) \/ (cmd.pc = "rpc" /\ Head(cmd.todo).name = n)
<1>1. Honest'
  BY FireHonest DEF Loyal
<1>2. LiveUp'
  BY DEF Loyal, LiveUp, Live, Fire, Still
<1>3. id \in 0..MaxChat /\ id \in Nat /\ n \in Key
  BY Constants DEF Loyal, Honest, TypeOK
<1>4. hint \in {0, id} /\ (hint # 0 <=> stopped)
  BY <1>3, HintIsStop
<1>5. /\ writer[w].pc = "free"
      /\ writer' = [writer EXCEPT ![w] =
           [pc |-> "report", key |-> n, status |-> status, val |-> hint]]
      /\ expect' = [expect EXCEPT ![n] =
           [status |-> status, val |-> IF stopped THEN id ELSE @.val,
            prog |-> IF stopped THEN table[n].prog ELSE @.prog]]
      /\ muddled' = [muddled EXCEPT ![n] = meets \/ (@ /\ ~stopped)]
      /\ file' = file /\ table' = table
  BY DEF Fire, Still
<1>. HIDE DEF hint, status, meets
<1>6. ASSUME NEW k \in Key, k # n PROVE muddled'[k] \/ Said(k)'
  <2>1. \A v \in Writer : (At(v, k)' <=> At(v, k)) /\ (At(v, k) => writer'[v] = writer[v])
    BY <1>5, <1>6 DEF Loyal, Honest, TypeOK, At
  <2>2. expect'[k] = expect[k] /\ muddled'[k] = muddled[k]
    BY <1>5, <1>6 DEF Loyal, Honest, TypeOK
  <2>3. Live(k)' = Live(k) /\ table'[k] = table[k]
    BY <1>5 DEF Live
  <2>. QED BY <1>5, <2>1, <2>2, <2>3, Elsewhere DEF Loyal
<1>7. ASSUME ~muddled'[n] PROVE Said(n)'
  <2>1. ~Busy(n) /\ (stopped \/ ~muddled[n])
    BY <1>3, <1>5, <1>7 DEF Loyal, Honest, TypeOK, meets
  <2>2. \A v \in Writer : At(v, n)' <=> v = w
    BY <1>5, <2>1 DEF Loyal, Honest, TypeOK, At, Busy
  <2>3. /\ writer'[w].pc = "report" /\ writer'[w].status = status /\ writer'[w].val = hint
        /\ expect'[n].status = status
        /\ expect'[n].val = IF stopped THEN id ELSE expect[n].val
    BY <1>3, <1>5 DEF Loyal, Honest, TypeOK
  <2>4. ~stopped => file[n] = Want(n)
    BY <1>3, <2>1 DEF Loyal, Said, FileSays, Busy, At
  <2>5. JobSays(n)'
    BY <1>4, <1>5, <2>2, <2>3, <2>4 DEF JobSays, Want
  <2>. QED BY <2>2, <2>3, <2>5 DEF Said, Alone, FileSays, TableSays
<1>. QED BY <1>1, <1>2, <1>6, <1>7 DEF Loyal

\* What a writer does at its own key concerns no other.
LEMMA OtherKeys ==
  ASSUME Loyal, NEW w \in Writer, NEW j \in Job, j.key = writer[w].key \/ j.pc = "free",
         writer[w].pc # "free", writer' = [writer EXCEPT ![w] = j],
         NEW k \in Key, k # writer[w].key, Said(k), file'[k] = file[k],
         expect'[k] = expect[k],
         k \in Name => table'[k] = table[k]
  PROVE  Said(k)'
<1>1. \A v \in Writer : (At(v, k)' <=> At(v, k)) /\ (At(v, k) => writer'[v] = writer[v])
  BY DEF Loyal, Honest, TypeOK, At
<1>2. k \in Name /\ Live(k)' => Live(k) /\ table'[k].status = table[k].status
  BY DEF Live
<1>. QED BY <1>1, <1>2, Elsewhere

\* A report that arrives is shown, and one that does not leaves it open what is.
LEMMA ReportLoyal ==
  ASSUME Loyal, NEW w \in Writer, Report(w) \/ ReportFails(w)
  PROVE  Loyal'
<1>0. PICK n \in Name : n = writer[w].key
  BY DEF Loyal, Honest, WritersHold, Report, ReportFails, Reported
<1>. DEFINE j == IF writer[w].val = 0 THEN Free
                 ELSE [writer[w] EXCEPT !.pc = "truncate", !.status = "none"]
<1>1. Honest'
  BY WriterHonest DEF Loyal
<1>2. n \in Name /\ n \in Key /\ writer[w].pc = "report" /\ writer[w] \in Job
  BY Constants DEF Loyal, Honest, TypeOK, Report, ReportFails, Reported
<1>3. /\ writer' = [writer EXCEPT ![w] = j]
      /\ UNCHANGED <<file, muddled, up>>
  BY <1>0 DEF Report, ReportFails, Reported, Still
<1>4. \/ /\ table' = IF up /\ Live(n) THEN [table EXCEPT ![n].status = writer[w].status]
                     ELSE table
         /\ expect' = expect
      \/ table' = table /\ expect' = [expect EXCEPT ![n].status = "none"]
  BY <1>0 DEF Report, ReportFails
<1>5. \A m \in Name : Live(m)' = Live(m)
  BY <1>2, <1>4 DEF Loyal, Honest, TypeOK, Live, Entry
<1>6. LiveUp'
  BY <1>3, <1>5 DEF Loyal, LiveUp
<1>7. j \in Job /\ (j.key = n \/ j.pc = "free")
  <2>1. writer[w].val = 0 => j = Free
    OBVIOUS
  <2>2. writer[w].val # 0 => j \in Job /\ j.key = n
    BY <1>0, <1>2, JobWith DEF Job
  <2>. QED BY <2>1, <2>2, NoneTypes DEF Free
<1>. HIDE DEF j
<1>8. ASSUME NEW k \in Key, k # n, Said(k) PROVE Said(k)'
  <2>1. k \in Name => table'[k] = table[k]
    BY <1>2, <1>4, <1>8 DEF Loyal, Honest, TypeOK
  <2>2. expect'[k] = expect[k]
    BY <1>4, <1>8 DEF Loyal, Honest, TypeOK
  <2>. QED BY <1>0, <1>2, <1>3, <1>7, <1>8, <2>1, <2>2, OtherKeys
<1>9. ASSUME Said(n) PROVE Said(n)'
  <2>1. \A v \in Writer : At(v, n) <=> v = w
    BY <1>0, <1>2, <1>9 DEF Said, Alone, At
  <2>2. writer'[w] = j /\ \A v \in Writer : v # w => writer'[v] = writer[v]
    BY <1>3 DEF Loyal, Honest, TypeOK
  <2>3. \A v \in Writer : At(v, n)' => v = w /\ writer[w].val # 0
    <3>1. \A v \in Writer : v # w => ~At(v, n)'
      BY <2>1, <2>2 DEF At
    <3>2. writer[w].val = 0 => writer'[w].pc = "free"
      BY <2>2 DEF j, Free
    <3>. QED BY <3>1, <3>2 DEF At
  <2>4. writer[w].val # 0 => writer'[w].pc = "truncate" /\ writer'[w].val = writer[w].val
                               /\ writer'[w].key = n
    BY <1>0, <1>2, <2>2 DEF j, Job
  <2>5. JobSays(n)
    BY <1>9 DEF Said
  <2>6. /\ writer[w].status = expect[n].status
        /\ \/ writer[w].val = 0 /\ file[n] = Want(n)
           \/ writer[w].val # 0 /\ writer[w].val = expect[n].val
    BY <1>2, <2>1, <2>5 DEF JobSays
  <2>7. expect'[n].val = expect[n].val
    <3>1. expect[n] \in Word
      BY <1>2 DEF Loyal, Honest, TypeOK
    <3>2. expect'[n] = expect[n] \/ expect'[n] = [expect[n] EXCEPT !.status = "none"]
      BY <1>2, <1>4 DEF Loyal, Honest, TypeOK
    <3>. QED BY <3>1, <3>2 DEF Word
  <2>8. FileSays(n)'
    BY <1>3, <2>4, <2>6, <2>7 DEF FileSays, At, Want
  <2>9. JobSays(n)'
    BY <1>3, <2>3, <2>4, <2>6, <2>7 DEF JobSays
  <2>10. TableSays(n)'
    <3>. SUFFICES ASSUME Live(n)', expect'[n].status # "none"
                  PROVE  table'[n].status = expect'[n].status
      BY DEF TableSays
    <3>1. up /\ Live(n)
      BY <1>2, <1>5 DEF Loyal, LiveUp
    <3>2. expect' # [expect EXCEPT ![n].status = "none"]
      <4>. SUFFICES ASSUME expect' = [expect EXCEPT ![n].status = "none"]
                    PROVE  expect'[n].status = "none"
        OBVIOUS
      <4>1. expect'[n] = [expect[n] EXCEPT !.status = "none"] /\ expect[n] \in Word
        BY <1>2 DEF Loyal, Honest, TypeOK
      <4>. QED BY <4>1 DEF Word
    <3>3. table'[n] = [table[n] EXCEPT !.status = writer[w].status] /\ table[n] \in Entry
          /\ expect' = expect
      BY <1>2, <1>4, <3>1, <3>2 DEF Loyal, Honest, TypeOK
    <3>4. table'[n].status = writer[w].status
      BY <3>3 DEF Entry
    <3>. QED BY <2>6, <3>3, <3>4
  <2>. QED BY <2>3, <2>8, <2>9, <2>10 DEF Said, Alone
<1>. QED BY <1>1, <1>3, <1>6, <1>8, <1>9 DEF Loyal

LEMMA RememberLoyal ==
  ASSUME Loyal, NEW w \in Writer, Truncate(w) \/ Write(w) \/ RememberFails(w)
  PROVE  Loyal'
<1>1. Honest'
  BY WriterHonest DEF Loyal
<1>2. LiveUp'
  <2>1. UNCHANGED <<table, up>>
    BY DEF Truncate, Write, RememberFails, Still
  <2>. QED BY <2>1 DEF Loyal, LiveUp, Live
<1>3. PICK n \in Key : n = writer[w].key
  BY JobWith DEF Loyal, Honest, TypeOK
<1>4. /\ writer[w].pc \in Storing /\ writer[w].val # 0 /\ writer[w] \in Job
      /\ UNCHANGED <<table, expect>>
  BY DEF Loyal, Honest, TypeOK, WritersHold, Truncate, Write, RememberFails, Still, Storing
<1>5. PICK j \in Job : /\ writer' = [writer EXCEPT ![w] = j]
                       /\ \/ Truncate(w) /\ j = [writer[w] EXCEPT !.pc = "write"]
                          \/ ~Truncate(w) /\ j = Free
  <2>1. CASE Truncate(w)
    <3>1. writer' = [writer EXCEPT ![w] = [writer[w] EXCEPT !.pc = "write"]]
      BY <2>1 DEF Truncate
    <3>2. [writer[w] EXCEPT !.pc = "write"] \in Job
      BY <1>4, JobWith
    <3>. QED BY <2>1, <3>1, <3>2
  <2>2. CASE ~Truncate(w)
    BY <2>2, NoneTypes DEF Write, RememberFails
  <2>. QED BY <2>1, <2>2
<1>6. j.key = n \/ j.pc = "free"
  BY <1>3, <1>4, <1>5 DEF Free, Job
<1>7. \A k \in Key : k # n => file'[k] = file[k]
  BY <1>3 DEF Loyal, Honest, TypeOK, Truncate, Write, RememberFails
<1>8. \A k \in Key : muddled[k] => muddled'[k]
  BY DEF Loyal, Honest, TypeOK, Truncate, Write, RememberFails, Muddle
<1>9. ASSUME NEW k \in Key, k # n, Said(k) PROVE Said(k)'
  BY <1>3, <1>4, <1>5, <1>6, <1>7, <1>9, OtherKeys DEF Storing
<1>10. ASSUME Said(n), ~muddled'[n] PROVE Said(n)'
  <2>1. \A v \in Writer : At(v, n) <=> v = w
    BY <1>3, <1>4, <1>10 DEF Said, Alone, At, Storing
  <2>2. writer'[w] = j /\ \A v \in Writer : v # w => writer'[v] = writer[v]
    BY <1>5 DEF Loyal, Honest, TypeOK
  <2>3. \A v \in Writer : At(v, n)' => v = w
    BY <2>1, <2>2 DEF At
  <2>4. writer[w].val = expect[n].val
    BY <1>4, <1>10, <2>1 DEF Said, JobSays, Storing
  <2>5. TableSays(n)'
    <3>. SUFFICES ASSUME n \in Name, Live(n)', expect'[n].status # "none"
                  PROVE  table'[n].status = expect'[n].status
      BY DEF TableSays
    <3>1. Live(n) /\ \A v \in Writer : At(v, n) => writer[v].pc # "report"
      BY <1>4, <2>1 DEF Live, Storing
    <3>. QED BY <1>4, <1>10, <3>1 DEF Said, TableSays
  <2>6. CASE Truncate(w)
    <3>1. j.pc = "write" /\ j.val = writer[w].val /\ j.key = n
      BY <1>3, <1>4, <1>5, <2>6 DEF Job
    <3>2. file'[n] = Empty
      BY <1>3, <2>6 DEF Loyal, Honest, TypeOK, Truncate
    <3>3. JobSays(n)' /\ FileSays(n)'
      BY <1>4, <2>2, <2>3, <2>4, <3>1, <3>2 DEF JobSays, FileSays, At
    <3>. QED BY <2>3, <2>5, <3>3 DEF Said, Alone
  <2>7. CASE Write(w) /\ ~Truncate(w)
    <3>1. j.pc = "free"
      BY <1>5, <2>7 DEF Free
    <3>2. \A v \in Writer : ~At(v, n)'
      BY <2>2, <2>3, <3>1 DEF At
    <3>3. file[n] = Empty
      BY <1>10, <2>1, <2>7 DEF Said, JobSays, Write
    <3>4. file'[n] = expect[n].val
      BY <1>3, <2>4, <2>7, <3>3 DEF Loyal, Honest, TypeOK, Write
    <3>5. FileSays(n)'
      BY <1>4, <2>4, <3>4 DEF FileSays, Want
    <3>. QED BY <2>5, <3>2, <3>5 DEF Said, Alone, JobSays
  <2>8. ~RememberFails(w)
    BY <1>3, <1>10 DEF Loyal, Honest, TypeOK, RememberFails, Muddle
  <2>. QED BY <2>6, <2>7, <2>8
<1>. QED BY <1>1, <1>2, <1>8, <1>9, <1>10 DEF Loyal

LEMMA AttachLoyal ==
  ASSUME Loyal, NEW w \in Writer, NEW n \in Name, Attach(w, n)
  PROVE  Loyal'
<1>1. Honest'
  BY AttachHonest DEF Loyal
<1>2. LiveUp'
  BY DEF Loyal, LiveUp, Live, Attach, Still
<1>3. /\ writer[w].pc = "free" /\ n # 0
      /\ writer' = [writer EXCEPT ![w] =
           [pc |-> "truncate", key |-> Last, status |-> "none", val |-> n]]
      /\ muddled' = [muddled EXCEPT ![Last] = Busy(Last)]
      /\ expect' = [expect EXCEPT ![Last].val = n]
      /\ UNCHANGED <<table, file>>
  BY Constants DEF Attach, Still
<1>4. ASSUME NEW k \in Key, k # Last PROVE muddled'[k] \/ Said(k)'
  <2>1. \A v \in Writer : (At(v, k)' <=> At(v, k)) /\ (At(v, k) => writer'[v] = writer[v])
    BY <1>3, <1>4 DEF Loyal, Honest, TypeOK, At
  <2>2. expect'[k] = expect[k] /\ muddled'[k] = muddled[k]
    BY <1>3, <1>4 DEF Loyal, Honest, TypeOK
  <2>3. Live(k)' = Live(k) /\ table'[k] = table[k]
    BY <1>3 DEF Live
  <2>. QED BY <1>3, <2>1, <2>2, <2>3, Elsewhere DEF Loyal
<1>5. ASSUME ~muddled'[Last] PROVE Said(Last)'
  <2>1. ~Busy(Last)
    BY <1>3, <1>5, Constants DEF Loyal, Honest, TypeOK
  <2>2. \A v \in Writer : At(v, Last)' <=> v = w
    BY <1>3, <2>1 DEF Loyal, Honest, TypeOK, At, Busy
  <2>3. writer'[w].pc = "truncate" /\ writer'[w].val = n
    BY <1>3 DEF Loyal, Honest, TypeOK
  <2>4. expect'[Last].val = n
    BY <1>3, Constants DEF Loyal, Honest, TypeOK, Word
  <2>. QED BY <2>2, <2>3, <2>4, Constants DEF Said, Alone, FileSays, JobSays, TableSays
<1>. QED BY <1>1, <1>2, <1>4, <1>5 DEF Loyal

\* Steps that only end sessions or leave them alone.
LEMMA TableApart ==
  ASSUME Loyal, Honest', LiveUp', UNCHANGED <<writer, file, expect>>,
         \A k \in Key : muddled[k] => muddled'[k],
         \A n \in Name : Live(n)' => Live(n) /\ table'[n].status = table[n].status
  PROVE  Loyal'
  BY SaidApart DEF Loyal

LEMMA ProgramLoyal ==
  ASSUME Loyal, NEW n \in Name, NewChat(n) \/ Exit(n)
  PROVE  Loyal'
<1>1. Honest'
  BY ProgramTypes, FilesApart, CommandApart DEF Loyal, Honest, NewChat, Exit
<1>2. ASSUME NEW m \in Name, Live(m)' PROVE Live(m) /\ table'[m].status = table[m].status
  <2>1. CASE Exit(n)
    BY <1>2, <2>1 DEF Loyal, Honest, TypeOK, Exit, Live, Dead
  <2>2. CASE NewChat(n)
    <3>1. table[n] \in Entry /\ table'[m] = IF m = n THEN [table[n] EXCEPT !.chat = chats'] ELSE table[m]
      BY <2>2 DEF Loyal, Honest, TypeOK, NewChat
    <3>. QED BY <1>2, <3>1 DEF Live, Entry
  <2>. QED BY <2>1, <2>2
<1>3. UNCHANGED <<writer, file, expect, muddled, up>>
  BY DEF NewChat, Exit
<1>4. LiveUp'
  BY <1>2, <1>3 DEF Loyal, LiveUp
<1>. QED BY <1>1, <1>2, <1>3, <1>4, TableApart

LEMMA MachineLoyal ==
  ASSUME Loyal, DaemonEnds \/ DaemonStarts \/ Reboot
  PROVE  Loyal'
<1>1. Honest'
  BY MachineHonest DEF Loyal
<1>2. CASE DaemonEnds
  <2>1. \A n \in Name : ~Live(n)'
    BY <1>2 DEF DaemonEnds, Live, None
  <2>. QED BY <1>1, <1>2, <2>1, TableApart DEF LiveUp, DaemonEnds
<1>3. CASE DaemonStarts
  <2>1. \A n \in Name : Live(n)' = Live(n)
    BY <1>3 DEF DaemonStarts, Live
  <2>. QED BY <1>1, <1>3, <2>1, TableApart DEF LiveUp, DaemonStarts
<1>4. CASE Reboot
  <2>1. \A n \in Name : ~Live(n)'
    BY <1>4 DEF Reboot, Live, None
  <2>2. \A v \in Writer : writer'[v].pc = "free"
    BY <1>4 DEF Reboot, Free
  <2>3. ASSUME NEW k \in Key, ~muddled'[k] PROVE Said(k)'
    <3>1. ~Busy(k) /\ Said(k) /\ file'[k] = file[k] /\ expect' = expect
      BY <1>4, <2>3 DEF Loyal, Honest, TypeOK, Reboot
    <3>2. file[k] = Want(k)
      BY <3>1 DEF Said, FileSays, Busy, At
    <3>3. FileSays(k)'
      BY <3>1, <3>2 DEF FileSays, Want
    <3>. QED BY <2>1, <2>2, <3>3 DEF Said, Alone, JobSays, TableSays, At
  <2>. QED BY <1>1, <2>1, <2>3 DEF Loyal, LiveUp
<1>. QED BY <1>2, <1>3, <1>4

\* A program that has been started has not been reported about.
LEMMA SpawnedLoyal ==
  ASSUME Loyal, NEW n \in Name, Spawned(n)
  PROVE  Loyal'
<1>1. Honest'
  BY CommandHonest DEF Loyal, Command
<1>2. n \in Key
  BY Constants
<1>3. /\ up /\ up' = up /\ writer' = writer /\ file' = file
      /\ expect' = [expect EXCEPT ![n].status = "none"]
      /\ muddled' = [muddled EXCEPT ![n] = @ \/ Busy(n)]
      /\ \A m \in Name : m # n => table'[m] = table[m]
  BY DEF Loyal, Honest, TypeOK, Spawned, Muddle
<1>4. LiveUp'
  BY <1>3 DEF LiveUp
<1>5. ASSUME NEW k \in Key, k # n PROVE muddled'[k] \/ Said(k)'
  <2>1. expect'[k] = expect[k] /\ muddled'[k] = muddled[k]
    BY <1>3, <1>5 DEF Loyal, Honest, TypeOK
  <2>2. k \in Name => table'[k] = table[k] /\ Live(k)' = Live(k)
    BY <1>3, <1>5 DEF Live
  <2>. QED BY <1>3, <2>1, <2>2, SaidApart DEF Loyal
<1>6. ASSUME ~muddled'[n] PROVE Said(n)'
  <2>1. Said(n) /\ ~Busy(n)
    BY <1>2, <1>3, <1>6 DEF Loyal, Honest, TypeOK
  <2>2. expect'[n].status = "none" /\ expect'[n].val = expect[n].val
    BY <1>2, <1>3 DEF Loyal, Honest, TypeOK, Word
  <2>4. \A v \in Writer : ~At(v, n) /\ ~At(v, n)'
    BY <1>3, <2>1 DEF Busy, At
  <2>5. file[n] = Want(n)
    BY <2>1, <2>4 DEF Said, FileSays
  <2>. QED BY <1>3, <2>2, <2>4, <2>5 DEF Said, Alone, FileSays, JobSays, TableSays, Want
<1>. QED BY <1>1, <1>4, <1>5, <1>6 DEF Loyal

LEMMA CommandLoyal ==
  ASSUME Loyal, Command
  PROVE  Loyal'
<1>1. Honest'
  BY CommandHonest DEF Loyal
<1>2. ASSUME UNCHANGED <<table, up, writer, file, expect>>,
             \A k \in Key : muddled[k] => muddled'[k]
      PROVE  Loyal'
  <2>1. \A n \in Name : Live(n)' = Live(n)
    BY <1>2 DEF Live
  <2>2. LiveUp'
    BY <1>2, <2>1 DEF Loyal, LiveUp
  <2>. QED BY <1>1, <1>2, <2>1, <2>2, TableApart
<1>3. CASE WithResume \/ RecallFails
  <2>1. \A k \in Key : muddled[k] => muddled'[k]
    BY <1>3 DEF Loyal, Honest, TypeOK, WithResume, RecallFails, Muddle
  <2>. QED BY <1>2, <1>3, <2>1 DEF WithResume, RecallFails
<1>4. ASSUME NEW todo, Begin(todo) PROVE Loyal'
  BY <1>2, <1>4 DEF Begin
<1>5. CASE Abort \/ NothingSpawned
  BY <1>2, <1>5 DEF Abort, NothingSpawned
<1>. QED BY <1>3, <1>4, <1>5, SpawnedLoyal DEF Command, Start, StartAll

LEMMA StepLoyal == Loyal /\ [Next]_vars => Loyal'
<1>. SUFFICES ASSUME Loyal, [Next]_vars PROVE Loyal'
  OBVIOUS
<1>1. ASSUME NEW w \in Writer, AttachLast(w) PROVE Loyal'
  BY <1>1, AttachLoyal DEF AttachLast
<1>2. CASE UNCHANGED vars
  <2>1. Honest'
    BY <1>2, StepHonest DEF Loyal
  <2>2. \A n \in Name : Live(n)' = Live(n)
    BY <1>2 DEF vars, Live
  <2>3. LiveUp'
    BY <1>2, <2>2 DEF Loyal, LiveUp, vars
  <2>. QED BY <1>2, <2>1, <2>2, <2>3, TableApart DEF vars
<1>. QED BY <1>1, <1>2, ProgramLoyal, AttachLoyal, FireLoyal, ReportLoyal, RememberLoyal,
            CommandLoyal, MachineLoyal DEF Next

LEMMA LoyalSays == Loyal => LastWordCounts
<1>. SUFFICES ASSUME Loyal, NEW k \in Key, ~muddled[k], ~Busy(k)
              PROVE  /\ file[k] = IF expect[k].val = 0 THEN NoFile ELSE expect[k].val
                     /\ (k \in Name /\ Live(k) /\ expect[k].status # "none") =>
                          table[k].status = expect[k].status
  BY DEF LastWordCounts
<1>1. Said(k)
  BY DEF Loyal
<1>2. \A v \in Writer : ~At(v, k)
  BY DEF Busy, At
<1>. QED BY <1>1, <1>2 DEF Said, FileSays, TableSays, Want

LEMMA AlwaysLoyal == Spec => []Loyal
<1>. QED BY InitLoyal, StepLoyal, PTL DEF Spec

\* Where nothing has overlapped, the files and the list say what was said last.
THEOREM TheLastWordCounts == Spec => []LastWordCounts
<1>. QED BY LoyalSays, AlwaysLoyal, PTL

-----------------------------------------------------------------------------
(* Resuming                                                                *)

\* Between with_resume and the start nobody has been at work on the hint.
Resuming == cmd.pc = "rpc" =>
  LET next == Head(cmd.todo) IN
  \/ muddled[next.name]
  \/ ~Busy(next.name) /\ cmd.argv = Apply(next.argv, expect[next.name].val)

\* A program is expected to go on only with a chat of its own.
Credited == \A n \in Name : expect[n].prog # "none" => expect[n].val # 0

Faithful == Loyal /\ Resuming /\ Credited

LEMMA InitFaithful == Init => Faithful
<1>1. Init => Resuming /\ Credited
  BY Constants DEF Init, Resuming, Credited, Idle
<1>. QED BY <1>1, InitLoyal DEF Faithful

LEMMA StepCredited ==
  ASSUME Loyal, Credited, [Next]_vars
  PROVE  Credited'
<1>1. ASSUME UNCHANGED expect PROVE Credited'
  BY <1>1 DEF Credited
<1>2. ASSUME NEW w \in Writer, NEW n \in Name,
             NEW e \in SUBSET {"stop", "ask"}, NEW id \in 0..chats, Fire(w, n, e, id)
      PROVE  Credited'
  <2>1. n \in Key
    BY Constants
  <2>2. \A m \in Name : m # n => expect'[m] = expect[m]
    BY <1>2 DEF Loyal, Honest, TypeOK, Fire
  <2>3. \/ expect'[n].val = expect[n].val /\ expect'[n].prog = expect[n].prog
        \/ expect'[n].val = id /\ id # 0
    BY <1>2, <2>1 DEF Loyal, Honest, TypeOK, Fire
  <2>. QED BY <2>2, <2>3 DEF Credited
<1>3. ASSUME NEW w \in Writer, NEW n \in Name, Attach(w, n) PROVE Credited'
  <2>1. \A m \in Name : expect'[m] = expect[m]
    BY <1>3, Constants DEF Loyal, Honest, TypeOK, Attach
  <2>. QED BY <2>1 DEF Credited
<1>4. ASSUME NEW n \in Name, Spawned(n) PROVE Credited'
  <2>1. n \in Key
    BY Constants
  <2>2. \A m \in Name : m # n => expect'[m] = expect[m]
    BY <1>4 DEF Loyal, Honest, TypeOK, Spawned
  <2>3. expect'[n].val = expect[n].val /\ expect'[n].prog = expect[n].prog
    BY <1>4, <2>1 DEF Loyal, Honest, TypeOK, Spawned, Word
  <2>. QED BY <2>2, <2>3 DEF Credited
<1>5. ASSUME NEW w \in Writer, ReportFails(w) PROVE Credited'
  <2>1. PICK n \in Key : n = writer[w].key
    BY JobWith DEF Loyal, Honest, TypeOK
  <2>2. \A m \in Key : m # n => expect'[m] = expect[m]
    BY <1>5, <2>1 DEF Loyal, Honest, TypeOK, ReportFails
  <2>3. expect'[n] = [expect[n] EXCEPT !.status = "none"] /\ expect[n] \in Word
    BY <1>5, <2>1 DEF Loyal, Honest, TypeOK, ReportFails
  <2>4. expect'[n].val = expect[n].val /\ expect'[n].prog = expect[n].prog
    BY <2>3 DEF Word
  <2>. QED BY <2>2, <2>4, Constants DEF Credited
<1>. QED
  BY <1>1, <1>2, <1>3, <1>4, <1>5
     DEF Next, vars, NewChat, Exit, Report, Truncate, Write, RememberFails, AttachLast,
         Command, Start, StartAll, Begin, WithResume, RecallFails, Abort, NothingSpawned,
         DaemonEnds, DaemonStarts, Reboot

\* The command waits and nobody begins to work on its next session.
LEMMA CommandWaits ==
  ASSUME Honest, Resuming, cmd' = cmd,
         \A n \in Name :
           \/ muddled'[n]
           \/ ~muddled[n] /\ expect'[n].val = expect[n].val /\ (Busy(n)' => Busy(n))
  PROVE  Resuming'
<1>1. cmd.pc = "rpc" => Head(cmd.todo).name \in Name
  BY NextSession DEF Honest
<1>. QED BY <1>1 DEF Resuming

LEMMA FireWaits ==
  ASSUME Loyal, Resuming, NEW w \in Writer, NEW n \in Name,
         NEW e \in SUBSET {"stop", "ask"}, NEW id \in 0..chats, Fire(w, n, e, id)
  PROVE  Resuming'
<1>1. n \in Key
  BY Constants
<1>2. cmd' = cmd
  BY DEF Fire, Still
<1>3. CASE cmd.pc = "rpc" /\ Head(cmd.todo).name = n
  <2>1. muddled'[n]
    BY <1>1, <1>3 DEF Loyal, Honest, TypeOK, Fire
  <2>. QED BY <1>2, <1>3, <2>1 DEF Resuming
<1>4. CASE cmd.pc = "rpc" /\ Head(cmd.todo).name # n
  <2>1. Head(cmd.todo).name \in Name
    BY <1>4, NextSession DEF Loyal, Honest
  <2>2. ASSUME NEW m \in Name, m # n
        PROVE  muddled'[m] = muddled[m] /\ expect'[m] = expect[m] /\ Busy(m)' = Busy(m)
    BY <2>2 DEF Loyal, Honest, TypeOK, Fire, Busy
  <2>. QED BY <1>2, <1>4, <2>1, <2>2 DEF Resuming
<1>5. CASE cmd.pc # "rpc"
  BY <1>2, <1>5 DEF Resuming
<1>. QED BY <1>3, <1>4, <1>5

LEMMA WriterWaits ==
  ASSUME Loyal, Resuming, NEW w \in Writer,
         Report(w) \/ ReportFails(w) \/ Truncate(w) \/ Write(w) \/ RememberFails(w)
  PROVE  Resuming'
<1>1. cmd' = cmd
  BY DEF Report, ReportFails, Reported, Truncate, Write, RememberFails, Still
<1>2. \A n \in Name : muddled[n] => muddled'[n]
  BY Constants DEF Loyal, Honest, TypeOK, Report, ReportFails, Reported, Truncate, Write,
                   RememberFails, Muddle
<1>3. writer[w] \in Job /\ writer[w].pc # "free"
  BY DEF Loyal, Honest, TypeOK, Report, ReportFails, Reported, Truncate, Write, RememberFails
<1>4. ASSUME NEW n \in Name, Busy(n)' PROVE Busy(n)
  <2>1. \A v \in Writer : v # w => writer'[v] = writer[v]
    BY DEF Loyal, Honest, TypeOK, Report, ReportFails, Reported, Truncate, Write, RememberFails
  <2>2. writer'[w] \in {Free, [writer[w] EXCEPT !.pc = "write"],
                        [writer[w] EXCEPT !.pc = "truncate", !.status = "none"]}
    BY DEF Loyal, Honest, TypeOK, Report, ReportFails, Reported, Truncate, Write, RememberFails
  <2>3. writer'[w].pc # "free" => writer'[w].key = writer[w].key
    <3>1. [writer[w] EXCEPT !.pc = "write"].key = writer[w].key
      BY <1>3 DEF Job
    <3>2. [writer[w] EXCEPT !.pc = "truncate", !.status = "none"].key = writer[w].key
      BY <1>3 DEF Job
    <3>3. Free.pc = "free"
      BY DEF Free
    <3>. QED BY <2>2, <3>1, <3>2, <3>3
  <2>. QED BY <1>3, <1>4, <2>1, <2>3 DEF Busy
<1>5. \A n \in Name : expect'[n].val = expect[n].val
  <2>1. CASE ReportFails(w)
    <3>1. \A n \in Name : expect[n] \in Word /\
            expect'[n] \in {expect[n], [expect[n] EXCEPT !.status = "none"]}
      BY <2>1, Constants DEF Loyal, Honest, TypeOK, ReportFails
    <3>. QED BY <3>1 DEF Word
  <2>2. CASE ~ReportFails(w)
    BY <2>2 DEF Report, Truncate, Write, RememberFails
  <2>. QED BY <2>1, <2>2
<1>. QED BY <1>1, <1>2, <1>4, <1>5, CommandWaits DEF Loyal

LEMMA AttachWaits ==
  ASSUME Loyal, Resuming, NEW w \in Writer, NEW n \in Name, Attach(w, n)
  PROVE  Resuming'
<1>1. cmd' = cmd
  BY DEF Attach, Still
<1>2. ASSUME NEW m \in Name
      PROVE  muddled'[m] = muddled[m] /\ expect'[m] = expect[m] /\ Busy(m)' = Busy(m)
  BY Constants DEF Loyal, Honest, TypeOK, Attach, Busy
<1>. QED BY <1>1, <1>2, CommandWaits DEF Loyal

\* What with_resume reads is the last word.
LEMMA ResumeReads ==
  ASSUME Loyal, WithResume
  PROVE  Resuming'
<1>. DEFINE next == Head(cmd.todo)
<1>1. next.name \in Name /\ next.name \in Key
  BY NextSession, Constants DEF Loyal, Honest, WithResume
<1>2. /\ cmd'.todo = cmd.todo /\ cmd'.argv = Apply(next.argv, Recall(next.name))
      /\ muddled'[next.name] = (muddled[next.name] \/ Busy(next.name))
      /\ UNCHANGED <<writer, expect>>
  BY <1>1 DEF Loyal, Honest, TypeOK, WithResume, Muddle
<1>3. ASSUME ~muddled[next.name], ~Busy(next.name)
      PROVE  Recall(next.name) = expect[next.name].val
  <2>1. file[next.name] = Want(next.name)
    BY <1>1, <1>3 DEF Loyal, Said, FileSays, Busy, At
  <2>2. expect[next.name].val \in (0..MaxChat) \cup Name
    BY <1>1, WordWith DEF Loyal, Honest, TypeOK
  <2>. QED BY <2>1, <2>2, Constants DEF Recall, Want
<1>. QED BY <1>2, <1>3 DEF Resuming, Busy

LEMMA StepFaithful == Faithful /\ [Next]_vars => Faithful'
<1>. SUFFICES ASSUME Faithful, [Next]_vars PROVE Faithful'
  OBVIOUS
<1>1. Loyal' /\ Credited'
  BY StepLoyal, StepCredited DEF Faithful
<1>2. CASE Command
  <2>1. ~WithResume /\ ~RecallFails => cmd'.pc # "rpc"
    BY <1>2, OthersAnswer DEF Faithful, Loyal, Honest
  <2>2. RecallFails => Resuming'
    <3>. SUFFICES ASSUME RecallFails PROVE muddled'[Head(cmd.todo).name] /\ cmd'.todo = cmd.todo
      BY DEF Resuming
    <3>1. Head(cmd.todo).name \in Key
      BY NextSession, Constants DEF Faithful, Loyal, Honest, RecallFails
    <3>. QED BY <3>1 DEF Faithful, Loyal, Honest, TypeOK, RecallFails, Muddle
  <2>. QED BY <1>1, <2>1, <2>2, ResumeReads DEF Faithful, Resuming
<1>3. CASE Reboot
  <2>1. cmd'.pc # "rpc"
    BY <1>3 DEF Reboot, Idle
  <2>. QED BY <1>1, <2>1 DEF Faithful, Resuming
<1>4. ASSUME UNCHANGED <<cmd, writer, expect, muddled>> PROVE Faithful'
  BY <1>1, <1>4 DEF Faithful, Resuming, Busy
<1>5. ASSUME NEW w \in Writer, AttachLast(w) PROVE Faithful'
  BY <1>1, <1>5, AttachWaits DEF Faithful, AttachLast
<1>. QED
  BY <1>1, <1>2, <1>3, <1>4, <1>5, FireWaits, WriterWaits, AttachWaits
     DEF Faithful, Next, vars, NewChat, Exit, DaemonEnds, DaemonStarts

\* Nothing but a start makes a session live.
LEMMA OnlySpawnedLives ==
  ASSUME Loyal, [Next]_vars, NEW n \in Name, ~Live(n), Live(n)'
  PROVE  Spawned(n)
<1>1. table' # table
  BY DEF Live
<1>2. ASSUME NEW m \in Name, NewChat(m) \/ Exit(m) PROVE FALSE
  <2>1. table[m] \in Entry
    BY DEF Loyal, Honest, TypeOK
  <2>2. table'[n] \in {table[n], [table[m] EXCEPT !.chat = chats'], Dead} /\ (m # n => table'[n] = table[n])
    BY <1>2 DEF Loyal, Honest, TypeOK, NewChat, Exit
  <2>3. [table[m] EXCEPT !.chat = chats'].state = table[m].state
    BY <2>1 DEF Entry
  <2>4. Dead.state = "dead"
    BY DEF Dead
  <2>5. table'[n].state \in {table[n].state, "dead"}
    <3>1. CASE m # n
      BY <2>2, <3>1
    <3>2. CASE m = n
      BY <2>2, <2>3, <2>4, <3>2
    <3>. QED BY <3>1, <3>2
  <2>. QED BY <2>5 DEF Live
<1>3. ASSUME NEW w \in Writer, Report(w) PROVE FALSE
  BY <1>3 DEF Loyal, Honest, TypeOK, Report, Live, Entry
<1>4. CASE DaemonEnds \/ Reboot
  BY <1>4 DEF DaemonEnds, Reboot, Live, None
<1>5. ASSUME NEW m \in Name, Spawned(m) PROVE m = n
  BY <1>5 DEF Loyal, Honest, TypeOK, Spawned, Live
<1>6. \/ table' = table \/ DaemonEnds \/ Reboot
      \/ \E m \in Name : NewChat(m) \/ Exit(m) \/ Spawned(m)
      \/ \E w \in Writer : Report(w)
  <2>1. ASSUME NEW w \in Writer, NEW m \in Name, Attach(w, m) PROVE table' = table
    BY <2>1 DEF Attach
  <2>2. ASSUME NEW w \in Writer, NEW m \in Name, NEW e \in SUBSET {"stop", "ask"},
               NEW id \in 0..chats, Fire(w, m, e, id)
        PROVE  table' = table
    BY <2>2 DEF Fire
  <2>3. ASSUME NEW w \in Writer, \/ ReportFails(w) \/ Truncate(w) \/ Write(w)
                                 \/ RememberFails(w) \/ AttachLast(w)
        PROVE  table' = table
    BY <2>1, <2>3 DEF ReportFails, Truncate, Write, RememberFails, AttachLast
  <2>4. CASE Command
    BY <2>4 DEF Command, Start, StartAll, Begin, WithResume, RecallFails, Abort, NothingSpawned
  <2>5. UNCHANGED vars \/ DaemonStarts => table' = table
    BY DEF vars, DaemonStarts
  <2>. QED BY <2>1, <2>2, <2>3, <2>4, <2>5 DEF Next
<1>. QED BY <1>1, <1>2, <1>3, <1>4, <1>5, <1>6

LEMMA StartResumes ==
  ASSUME Faithful, [Next]_vars, NEW n \in Name, ~Live(n), Live(n)', ~muddled'[n],
         cmd.argv.prog \in Resumable, Head(cmd.todo).argv.id = 0,
         expect[n].prog = cmd.argv.prog
  PROVE  table'[n].chat = expect[n].val
<1>. DEFINE next == Head(cmd.todo)
<1>1. Spawned(n)
  BY OnlySpawnedLives DEF Faithful
<1>2. cmd.pc = "rpc" /\ next.name = n /\ next.argv \in Argv /\ n \in Key
  BY <1>1, NextSession, Constants DEF Faithful, Loyal, Honest, Spawned
<1>3. ~muddled[n]
  BY <1>1, <1>2 DEF Faithful, Loyal, Honest, TypeOK, Spawned, Muddle
<1>4. cmd.argv = Apply(next.argv, expect[n].val)
  BY <1>2, <1>3 DEF Faithful, Resuming
<1>5. expect[n].val # 0
  BY Constants DEF Faithful, Credited
<1>6. cmd.argv.id = expect[n].val
  BY <1>2, <1>4, <1>5 DEF Apply, Argv
<1>7. table'[n].chat = cmd.argv.id
  <2>1. expect[n].val # Torn
    BY <1>2, WordWith, Constants DEF Faithful, Loyal, Honest, TypeOK
  <2>. QED BY <1>1, <1>5, <1>6, <2>1 DEF Faithful, Loyal, Honest, TypeOK, Spawned
<1>. QED BY <1>6, <1>7

\* A mixture is passed on only where writers have met: alone, one leaves what it said.
LEMMA FaithfulPasses == Faithful => NeverInvents
<1>. SUFFICES ASSUME Faithful, cmd.pc = "rpc", cmd.argv # Head(cmd.todo).argv,
                     cmd.argv.id = Torn, ~muddled[Head(cmd.todo).name]
              PROVE  FALSE
  BY DEF Faithful, Loyal, Honest, PassesStops, NeverInvents
<1>. DEFINE n == Head(cmd.todo).name
<1>1. n \in Key /\ Head(cmd.todo).argv \in Argv
  BY NextSession, Constants DEF Faithful, Loyal, Honest
<1>2. cmd.argv = Apply(Head(cmd.todo).argv, expect[n].val)
  BY DEF Faithful, Resuming
<1>3. cmd.argv.id = expect[n].val
  BY <1>1, <1>2 DEF Apply, Argv
<1>. QED BY <1>1, <1>3, WordWith, Constants DEF Faithful, Loyal, Honest, TypeOK

\* What a start passes on is a chat of which a turn has ended under the same name;
\* a mixture of two only where hooks of that name have overlapped, failed or met a
\* start (`muddled`).
THEOREM NoChatIsInvented == Spec => []NeverInvents
<1>. QED BY FaithfulPasses, InitFaithful, StepFaithful, PTL DEF Spec

\* A program that is started again goes on with the chat of its last finished turn.
THEOREM ResumesFaithfully == Spec => ResumesWhereItStopped
<1>1. Faithful /\ [Next]_vars =>
        [\A n \in Name :
           (~Live(n) /\ Live(n)' /\ ~muddled'[n]
              /\ cmd.argv.prog \in Resumable /\ Head(cmd.todo).argv.id = 0
              /\ expect[n].prog = cmd.argv.prog)
           => table'[n].chat = expect[n].val]_vars
  BY StartResumes
<1>. QED BY <1>1, InitFaithful, StepFaithful, PTL DEF Spec, ResumesWhereItStopped
===============================================================================
