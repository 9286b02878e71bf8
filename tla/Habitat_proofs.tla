---------------------------- MODULE Habitat_proofs ----------------------------
(***************************************************************************)
(* One name, one watcher: for any number of sessions and attach commands.  *)
(***************************************************************************)
EXTENDS Habitat, TLAPS

\* Whoever has a child that is not waited for has the name; a session the
\* table calls dead is over.
SessionInv ==
  /\ reg # None => life[reg] \notin {"new", "lost"}
  /\ \A s \in Session : status[s] = "dead" => Over(s)
  /\ \A s \in Session : life[s] \in {"live", "exited"} => s = reg

\* A connection that has found a session, and its exit code.
ClientInv ==
  \A c \in Client :
    /\ slot[c] \in {"checked", "proxy", "drop"} \/ tty[c] \in {"on", "ask"} =>
         at[c] \in Session /\ life[at[c]] # "new"
    /\ slot[c] = "checked" => tty[c] = "wait"
    /\ tty[c] = "away" => slot[c] = "none"
    /\ code[c] # "none" => tty[c] = "back"

\* The oneshots lead to connections that still have their slot, and those of
\* the clients that have not been told are where they belong.
FocusInv ==
  \A c \in Client :
    /\ c \in fired => slot[c] \in {"proxy", "drop"}
    /\ \A s \in Session : cancel[s] = c => slot[c] \in {"proxy", "drop"} /\ at[c] = s
    /\ slot[c] = "proxy" /\ c \notin fired => cancel[at[c]] = c

\* The history of the report is right.
ReportInv ==
  rep.pc # "idle" =>
    rep.at \in Session /\ ~rep.loud /\ (rep.watched => Watched(rep.at))

Inv == TypeOK /\ SessionInv /\ ClientInv /\ FocusInv /\ GoneIsOver /\ ReportInv

DaemonStep == \E s \in Session :
  Start(s) \/ Waiter(s) \/ ChildExits(s) \/ Hangup(s) \/ DrainEnds(s)
ReportStep == ReportCheck \/ ReportSet \/ Notify

-----------------------------------------------------------------------------
LEMMA InitInv == Init => Inv
  BY HabitatNames DEF Init, Inv, TypeOK, SessionInv, ClientInv, FocusInv,
                      GoneIsOver, ReportInv, NoReport, Over

\* What reaping the registered session, or any other, does.
LEMMA ReapFacts ==
  ASSUME TypeOK, NEW s \in Session \cup {None}
  PROVE  /\ Reaped(life, s) \in [Session -> {"new", "live", "exited", "dead", "lost"}]
         /\ Reaped(status, s) \in [Session -> Reports \cup {"none", "running", "dead"}]
         /\ \A x \in Session :
              \/ Reaped(life, s)[x] = life[x] /\ Reaped(status, s)[x] = status[x]
              \/ life[x] = "exited" /\ Reaped(life, s)[x] = "dead"
                 /\ Reaped(status, s)[x] = "dead"
  BY HabitatNames DEF TypeOK, Reaped

\* A step that reaps and leaves the name alone keeps what is known of sessions.
LEMMA ReapKeeps ==
  ASSUME Inv, NEW s \in Session \cup {None}, Reap(s), reg' = reg
  PROVE  /\ life' \in [Session -> {"new", "live", "exited", "dead", "lost"}]
         /\ status' \in [Session -> Reports \cup {"none", "running", "dead"}]
         /\ SessionInv'
         /\ \A x \in Session : (life[x] # "new" => life'[x] # "new") /\ (Over(x) => Over(x)')
<1>1. TypeOK /\ SessionInv
  BY DEF Inv
<1>2. life' = Reaped(life, s) /\ status' = Reaped(status, s)
  BY DEF Reap
<1>. QED BY <1>1, <1>2, ReapFacts, HabitatNames DEF SessionInv, TypeOK, Over

\* Where clients, focus and reports stay as they are, sessions may go on.
LEMMA SessionsGoOn ==
  ASSUME Inv, UNCHANGED <<cancel, fired, clients, rep>>,
         \A x \in Session : (life[x] # "new" => life'[x] # "new") /\ (Over(x) => Over(x)')
  PROVE  ClientInv' /\ FocusInv' /\ GoneIsOver' /\ ReportInv'
  BY DEF Inv, ClientInv, FocusInv, GoneIsOver, ReportInv, Watched, clients

LEMMA DaemonInv == Inv /\ DaemonStep => Inv'
<1>. SUFFICES ASSUME Inv, NEW s \in Session,
                     Start(s) \/ Waiter(s) \/ ChildExits(s) \/ Hangup(s) \/ DrainEnds(s)
              PROVE  Inv'
  BY DEF DaemonStep
<1>0. TypeOK /\ SessionInv
  BY DEF Inv
<1>1. CASE Start(s)
  <2>1. CASE Gone
    <3>1. /\ reg' = s /\ life[s] = "new" /\ up
          /\ life' = [Reaped(life, reg) EXCEPT ![s] = "live"]
          /\ status' = [Reaped(status, reg) EXCEPT ![s] = "running"]
          /\ UNCHANGED <<up, pty, focus, clients, rep>>
      BY <1>1, <2>1 DEF Start
    <3>2. reg \in Session \cup {None}
      BY <1>0 DEF TypeOK
    <3>3. TypeOK'
      BY <1>0, <3>1, <3>2, ReapFacts DEF TypeOK, focus, clients
    <3>4. reg # None => reg \in Session /\ Reaped(status, reg)[reg] = "dead"
      BY <2>1, <3>2 DEF Gone
    <3>5. \A x \in Session : life'[x] \in {"live", "exited"} => x = s
      <4>. SUFFICES ASSUME NEW x \in Session, x # s, life'[x] \in {"live", "exited"}
                    PROVE  FALSE
        OBVIOUS
      <4>1. Reaped(life, reg)[x] \in {"live", "exited"}
        BY <3>1, <3>2, <1>0, ReapFacts
      <4>2. x = reg
        BY <4>1, <1>0, <3>2, ReapFacts DEF SessionInv
      <4>3. Reaped(status, reg)[x] = status[x] /\ life[x] = Reaped(life, reg)[x]
        BY <4>1, <1>0, <3>2, ReapFacts
      <4>. QED BY <4>1, <4>2, <4>3, <3>4, <1>0, HabitatNames DEF SessionInv, Over
    <3>6. \A x \in Session : (life[x] # "new" => life'[x] # "new") /\ (Over(x) => Over(x)')
      BY <1>0, <3>1, <3>2, ReapFacts DEF Over
    <3>7. SessionInv'
      <4>1. reg' # None => life'[reg'] \notin {"new", "lost"}
        BY <1>0, <3>1, <3>2, ReapFacts
      <4>2. \A x \in Session : status'[x] = "dead" => Over(x)'
        BY <1>0, <3>1, <3>2, ReapFacts DEF SessionInv, Over
      <4>. QED BY <3>1, <3>5, <4>1, <4>2 DEF SessionInv
    <3>. QED BY <3>1, <3>3, <3>6, <3>7, SessionsGoOn DEF Inv, focus
  <2>2. CASE ~Gone
    BY <1>0, <1>1, <2>2, ReapKeeps, SessionsGoOn DEF Start, Inv, TypeOK, focus, clients
  <2>. QED BY <2>1, <2>2
<1>2. CASE Waiter(s)
  BY <1>0, <1>2, ReapKeeps, SessionsGoOn DEF Waiter, Inv, TypeOK, daemon, focus, clients
<1>3. CASE ChildExits(s)
  <2>1. TypeOK' /\ SessionInv'
    BY <1>0, <1>3 DEF ChildExits, TypeOK, SessionInv, Over, daemon, focus, clients
  <2>2. \A x \in Session : (life[x] # "new" => life'[x] # "new") /\ (Over(x) => Over(x)')
    BY <1>0, <1>3 DEF ChildExits, TypeOK, Over
  <2>. QED BY <1>3, <2>1, <2>2, SessionsGoOn DEF ChildExits, Inv, focus
<1>4. CASE Hangup(s)
  <2>1. TypeOK' /\ SessionInv'
    BY <1>0, <1>4 DEF Hangup, TypeOK, SessionInv, Over, daemon, focus, clients
  <2>2. \A x \in Session : (life[x] # "new" => life'[x] # "new") /\ (Over(x) => Over(x)')
    BY <1>4 DEF Hangup, Over
  <2>. QED BY <1>4, <2>1, <2>2, SessionsGoOn DEF Hangup, Inv, focus
<1>5. CASE DrainEnds(s)
  <2>1. TypeOK' /\ SessionInv'
    BY <1>0, <1>5 DEF DrainEnds, TypeOK, SessionInv, Over, daemon, clients
  <2>2. \A x \in Session : (life[x] # "new" => life'[x] # "new") /\ (Over(x) => Over(x)')
    BY <1>5 DEF DrainEnds, Over
  <2>. QED BY <1>5, <2>1, <2>2, SessionsGoOn DEF DrainEnds, Inv
<1>. QED BY <1>1, <1>2, <1>3, <1>4, <1>5

-----------------------------------------------------------------------------
(* The clients                                                             *)

LEMMA AttachCheckInv == ASSUME Inv, NEW c \in Client, AttachCheck(c) PROVE Inv'
<1>0. TypeOK /\ SessionInv /\ ClientInv /\ FocusInv /\ GoneIsOver /\ ReportInv
  BY DEF Inv
<1>1. reg \in Session \cup {None} /\ Reap(reg) /\ UNCHANGED <<daemon, pty, focus, rep>>
  BY <1>0 DEF AttachCheck, TypeOK
<1>2. /\ life' \in [Session -> {"new", "live", "exited", "dead", "lost"}]
      /\ status' \in [Session -> Reports \cup {"none", "running", "dead"}]
      /\ SessionInv'
      /\ \A x \in Session : (life[x] # "new" => life'[x] # "new") /\ (Over(x) => Over(x)')
  BY <1>1, ReapKeeps DEF daemon
<1>3. slot[c] = "none" /\ code[c] = "none" /\ tty[c] = "away"
  BY <1>0 DEF AttachCheck, ClientInv, TypeOK
<1>4. \/ /\ code' = [code EXCEPT ![c] = "unknown"] /\ tty' = [tty EXCEPT ![c] = "back"]
         /\ UNCHANGED <<at, slot>>
      \/ /\ reg \in Session /\ life[reg] # "new"
         /\ at' = [at EXCEPT ![c] = reg] /\ slot' = [slot EXCEPT ![c] = "checked"]
         /\ tty' = [tty EXCEPT ![c] = "wait"] /\ UNCHANGED code
  BY <1>0, <1>1 DEF AttachCheck, Back, SessionInv
<1>5. TypeOK'
  BY <1>0, <1>1, <1>2, <1>4 DEF TypeOK, daemon, focus
<1>6. ClientInv'
  BY <1>0, <1>2, <1>3, <1>4 DEF ClientInv, TypeOK
<1>7. FocusInv'
  BY <1>0, <1>1, <1>3, <1>4 DEF FocusInv, TypeOK, focus
<1>8. GoneIsOver'
  BY <1>0, <1>2, <1>3, <1>4 DEF GoneIsOver, TypeOK
<1>9. ReportInv'
  BY <1>0, <1>1, <1>3, <1>4 DEF ReportInv, Watched, TypeOK, focus
<1>. QED BY <1>2, <1>5, <1>6, <1>7, <1>8, <1>9 DEF Inv

LEMMA AttachStealInv == ASSUME Inv, NEW c \in Client, AttachSteal(c) PROVE Inv'
<1>0. TypeOK /\ SessionInv /\ ClientInv /\ FocusInv /\ GoneIsOver /\ ReportInv
  BY DEF Inv
<1>1. /\ slot[c] = "checked" /\ tty[c] = "wait" /\ code[c] = "none"
      /\ at[c] \in Session /\ life[at[c]] # "new" /\ c \notin fired
  BY <1>0 DEF AttachSteal, ClientInv, FocusInv, TypeOK
<1>2. /\ fired' = fired \cup ({cancel[at[c]]} \ {None})
      /\ cancel' = [cancel EXCEPT ![at[c]] = c]
      /\ dest' = [dest EXCEPT ![at[c]] = c]
      /\ slot' = [slot EXCEPT ![c] = "proxy"] /\ tty' = [tty EXCEPT ![c] = "on"]
      /\ UNCHANGED <<up, reg, life, status, pty, at, code, rep>>
  BY DEF AttachSteal, daemon, sessions
<1>3. c \notin fired'
  BY <1>0, <1>1, <1>2 DEF FocusInv
<1>4. TypeOK'
  BY <1>0, <1>1, <1>2 DEF TypeOK
<1>5. SessionInv' /\ GoneIsOver'
  BY <1>0, <1>2 DEF SessionInv, GoneIsOver, Over
<1>6. ClientInv'
  BY <1>0, <1>1, <1>2 DEF ClientInv, TypeOK
<1>7. FocusInv'
  <2>1. ASSUME NEW d \in Client, d \in fired' PROVE slot'[d] \in {"proxy", "drop"}
    BY <1>0, <1>1, <1>2, <2>1 DEF FocusInv, TypeOK
  <2>2. ASSUME NEW d \in Client, NEW s \in Session, cancel'[s] = d
        PROVE  slot'[d] \in {"proxy", "drop"} /\ at'[d] = s
    BY <1>0, <1>1, <1>2, <2>2 DEF FocusInv, TypeOK
  <2>3. ASSUME NEW d \in Client, slot'[d] = "proxy", d \notin fired'
        PROVE  cancel'[at'[d]] = d
    <3>1. CASE d = c
      BY <1>0, <1>1, <1>2, <3>1 DEF TypeOK
    <3>2. CASE d # c
      <4>1. slot[d] = "proxy" /\ d \notin fired /\ cancel[at[d]] = d /\ at[d] \in Session
        BY <1>0, <1>2, <2>3, <3>2 DEF FocusInv, ClientInv, TypeOK
      <4>2. at[d] # at[c]
        BY <1>2, <2>3, <4>1, HabitatNames
      <4>. QED BY <1>0, <1>1, <1>2, <4>1, <4>2 DEF TypeOK
    <3>. QED BY <3>1, <3>2
  <2>. QED BY <2>1, <2>2, <2>3 DEF FocusInv
<1>8. ReportInv'
  <2>. SUFFICES ASSUME rep.pc # "idle", rep.watched
                PROVE  rep.at \in Session /\ Watched(rep.at)'
    BY <1>0, <1>2 DEF ReportInv
  <2>1. rep.at \in Session /\ Watched(rep.at)
    BY <1>0 DEF ReportInv
  <2>2. CASE rep.at = at[c]
    BY <1>0, <1>1, <1>2, <1>3, <2>1, <2>2 DEF Watched, TypeOK
  <2>3. CASE rep.at # at[c]
    <3>1. PICK d \in Client : slot[d] = "proxy" /\ at[d] = rep.at /\ d \notin fired
      BY <2>1 DEF Watched
    <3>2. cancel[at[c]] # d
      BY <1>0, <1>1, <2>1, <2>3, <3>1 DEF FocusInv, TypeOK
    <3>3. slot'[d] = "proxy" /\ at'[d] = rep.at /\ d \notin fired'
      BY <1>0, <1>1, <1>2, <3>1, <3>2 DEF TypeOK
    <3>. QED BY <1>2, <2>1, <3>3 DEF Watched
  <2>. QED BY <2>2, <2>3
<1>. QED BY <1>4, <1>5, <1>6, <1>7, <1>8 DEF Inv

\* A step of c that leaves sessions, focus and lookups alone.
LEMMA ClientGoesOn ==
  ASSUME Inv, NEW c \in Client, UNCHANGED <<daemon, sessions, focus, at, rep>>,
         slot' = slot, tty[c] \in {"away", "wait", "on", "ask"},
         \/ tty' = [tty EXCEPT ![c] = "ask"] /\ tty[c] = "on" /\ code' = code
         \/ /\ tty' = [tty EXCEPT ![c] = "back"]
            /\ slot[c] # "checked"
            /\ code' \in {[code EXCEPT ![c] = x] : x \in {"left", "unreachable", "stolen"}}
  PROVE  Inv'
<1>0. TypeOK /\ SessionInv /\ ClientInv /\ FocusInv /\ GoneIsOver /\ ReportInv
  BY DEF Inv
<1>1. TypeOK'
  BY <1>0 DEF TypeOK, daemon, sessions, focus
<1>2. SessionInv' /\ FocusInv' /\ ReportInv'
  BY <1>0 DEF SessionInv, FocusInv, ReportInv, Watched, Over, daemon, sessions, focus
<1>3. ClientInv'
  BY <1>0 DEF ClientInv, TypeOK, sessions
<1>4. GoneIsOver'
  BY <1>0 DEF GoneIsOver, Over, TypeOK, sessions
<1>. QED BY <1>1, <1>2, <1>3, <1>4 DEF Inv

LEMMA LeaveInv == ASSUME Inv, NEW c \in Client, Leave(c) \/ InputClosed(c) PROVE Inv'
<1>0. TypeOK /\ SessionInv /\ ClientInv /\ FocusInv /\ GoneIsOver /\ ReportInv
  BY DEF Inv
<1>1. /\ slot[c] = "proxy" /\ slot' = [slot EXCEPT ![c] = "drop"]
      /\ rep' = [rep EXCEPT !.watched = @ /\ ~(rep.at = at[c] /\ c \notin fired)]
      /\ UNCHANGED <<up, reg, life, status, pty, cancel, dest, fired, at, tty, code>>
  BY DEF Leave, InputClosed, ProxyEnds, daemon, sessions, focus
<1>2. TypeOK'
  <2>1. rep' \in [pc : {"idle", "set", "notify"}, at : Session \cup {None},
                  watched : BOOLEAN, loud : BOOLEAN]
    BY <1>0, <1>1 DEF TypeOK
  <2>. QED BY <1>0, <1>1, <2>1 DEF TypeOK
<1>3. SessionInv' /\ GoneIsOver'
  BY <1>0, <1>1 DEF SessionInv, GoneIsOver, Over
<1>4. ClientInv' /\ FocusInv'
  BY <1>0, <1>1 DEF ClientInv, FocusInv, TypeOK
<1>5. ReportInv'
  <2>1. rep'.pc = rep.pc /\ rep'.at = rep.at /\ rep'.loud = rep.loud
        /\ (rep'.watched <=> rep.watched /\ ~(rep.at = at[c] /\ c \notin fired))
    BY <1>0, <1>1 DEF TypeOK
  <2>. SUFFICES ASSUME rep.pc # "idle", rep'.watched
                PROVE  rep.at \in Session /\ Watched(rep.at)'
    BY <1>0, <2>1 DEF ReportInv
  <2>2. PICK d \in Client : slot[d] = "proxy" /\ at[d] = rep.at /\ d \notin fired
    BY <1>0, <2>1 DEF ReportInv, Watched
  <2>3. d # c
    BY <2>1, <2>2
  <2>. QED BY <1>0, <1>1, <2>2, <2>3 DEF ReportInv, Watched, TypeOK
<1>. QED BY <1>2, <1>3, <1>4, <1>5 DEF Inv

LEMMA SlotDropInv == ASSUME Inv, NEW c \in Client, SlotDrop(c) PROVE Inv'
<1>0. TypeOK /\ SessionInv /\ ClientInv /\ FocusInv /\ GoneIsOver /\ ReportInv
  BY DEF Inv
<1>1. /\ slot[c] = "drop" /\ slot' = [slot EXCEPT ![c] = "over"]
      /\ fired' = fired \ {c}
      /\ UNCHANGED <<up, reg, life, status, pty, at, tty, code, rep>>
      /\ \/ /\ cancel[at[c]] = c
            /\ cancel' = [cancel EXCEPT ![at[c]] = None]
            /\ dest' = [dest EXCEPT ![at[c]] = None]
         \/ cancel[at[c]] # c /\ UNCHANGED <<cancel, dest>>
  BY DEF SlotDrop, daemon, sessions
<1>2. at[c] \in Session
  BY <1>0, <1>1 DEF ClientInv
<1>3. TypeOK'
  BY <1>0, <1>1 DEF TypeOK
<1>4. SessionInv' /\ GoneIsOver'
  BY <1>0, <1>1 DEF SessionInv, GoneIsOver, Over
<1>5. ClientInv'
  BY <1>0, <1>1 DEF ClientInv, TypeOK
<1>6. FocusInv'
  BY <1>0, <1>1, <1>2, HabitatNames DEF FocusInv, ClientInv, TypeOK
<1>7. ReportInv'
  BY <1>0, <1>1 DEF ReportInv, Watched, TypeOK
<1>. QED BY <1>3, <1>4, <1>5, <1>6, <1>7 DEF Inv

LEMMA MapEofInv == ASSUME Inv, NEW c \in Client, MapEof(c) PROVE Inv'
<1>0. TypeOK /\ SessionInv /\ ClientInv /\ FocusInv /\ GoneIsOver /\ ReportInv
  BY DEF Inv
<1>1. /\ tty[c] = "ask" /\ UNCHANGED <<daemon, pty, focus, at, slot, rep>>
      /\ tty' = [tty EXCEPT ![c] = "back"]
      /\ code' = [code EXCEPT ![c] = IF up /\ Gone THEN "gone" ELSE "stolen"]
  BY DEF MapEof, Back
<1>2. /\ at[c] \in Session /\ life[at[c]] # "new" /\ slot[c] # "checked"
      /\ reg \in Session \cup {None}
  BY <1>0, <1>1 DEF ClientInv, TypeOK
<1>3. CASE ~up
  BY <1>0, <1>1, <1>2, <1>3, ClientGoesOn DEF MapEof, sessions
<1>4. CASE up
  <2>1. Reap(reg)
    BY <1>4 DEF MapEof
  <2>2. /\ life' \in [Session -> {"new", "live", "exited", "dead", "lost"}]
        /\ status' \in [Session -> Reports \cup {"none", "running", "dead"}]
        /\ SessionInv'
        /\ \A x \in Session : (life[x] # "new" => life'[x] # "new") /\ (Over(x) => Over(x)')
    BY <1>1, <1>2, <2>1, ReapKeeps DEF daemon
  <2>3. TypeOK'
    BY <1>0, <1>1, <2>2 DEF TypeOK, daemon, focus
  <2>4. ClientInv' /\ FocusInv'
    BY <1>0, <1>1, <1>2, <2>2 DEF ClientInv, FocusInv, TypeOK, focus
  <2>5. ReportInv'
    BY <1>0, <1>1 DEF ReportInv, Watched, focus
  <2>6. Gone => Over(at[c])'
    <3>. SUFFICES ASSUME Gone PROVE Over(at[c])'
      OBVIOUS
    <3>1. CASE at[c] = reg
      <4>1. status'[reg] = "dead"
        BY <1>2, <2>1, <3>1, HabitatNames DEF Gone, Reap
      <4>. QED BY <1>1, <1>2, <2>2, <3>1, <4>1 DEF SessionInv, daemon
    <3>2. CASE at[c] # reg
      <4>1. Over(at[c])
        BY <1>0, <1>2, <3>2 DEF SessionInv, Over, TypeOK
      <4>. QED BY <1>1, <1>2, <2>2, <4>1
    <3>. QED BY <3>1, <3>2
  <2>7. GoneIsOver'
    BY <1>0, <1>1, <1>2, <2>2, <2>6 DEF GoneIsOver, TypeOK
  <2>. QED BY <2>2, <2>3, <2>4, <2>5, <2>7 DEF Inv
<1>. QED BY <1>3, <1>4 DEF TypeOK

ClientStep == \E c \in Client :
  \/ AttachCheck(c) \/ AttachSteal(c) \/ Leave(c) \/ InputClosed(c) \/ SlotDrop(c)
  \/ Detach(c) \/ Unreachable(c) \/ Eof(c) \/ OutputFails(c) \/ MapEof(c)

LEMMA ClientStepInv == Inv /\ ClientStep => Inv'
<1>. SUFFICES ASSUME Inv, NEW c \in Client,
                     \/ AttachCheck(c) \/ AttachSteal(c)
                     \/ Leave(c) \/ InputClosed(c) \/ SlotDrop(c)
                     \/ Detach(c) \/ Unreachable(c) \/ Eof(c) \/ OutputFails(c) \/ MapEof(c)
              PROVE  Inv'
  BY DEF ClientStep
<1>0. /\ slot[c] = "checked" => tty[c] = "wait"
      /\ tty[c] = "away" => slot[c] = "none"
  BY DEF Inv, ClientInv
<1>1. CASE Detach(c)
  BY <1>0, <1>1, ClientGoesOn DEF Detach, Back
<1>2. CASE Unreachable(c)
  BY <1>0, <1>2, ClientGoesOn DEF Unreachable, Back
<1>3. CASE Eof(c) \/ OutputFails(c)
  BY <1>3, ClientGoesOn DEF Eof, OutputFails, Asks
<1>. QED BY <1>1, <1>2, <1>3, AttachCheckInv, AttachStealInv, LeaveInv, SlotDropInv, MapEofInv

-----------------------------------------------------------------------------
(* Reports, and the daemon as a whole                                      *)

LEMMA ReportStepInv == Inv /\ ReportStep => Inv'
<1>. SUFFICES ASSUME Inv, ReportCheck \/ ReportSet \/ Notify PROVE Inv'
  BY DEF ReportStep
<1>0. TypeOK /\ SessionInv /\ ClientInv /\ FocusInv /\ GoneIsOver /\ ReportInv
  BY DEF Inv
<1>1. CASE ReportCheck
  <2>1. reg \in Session /\ Reap(reg) /\ UNCHANGED <<daemon, pty, focus, clients>>
    BY <1>0, <1>1 DEF ReportCheck, TypeOK
  <2>2. /\ life' \in [Session -> {"new", "live", "exited", "dead", "lost"}]
        /\ status' \in [Session -> Reports \cup {"none", "running", "dead"}]
        /\ SessionInv'
        /\ \A x \in Session : (life[x] # "new" => life'[x] # "new") /\ (Over(x) => Over(x)')
    BY <2>1, ReapKeeps DEF daemon
  <2>3. Watched(reg) \in BOOLEAN
    BY DEF Watched
  <2>4. /\ rep' \in [pc : {"idle", "set", "notify"}, at : Session \cup {None},
                     watched : BOOLEAN, loud : BOOLEAN]
        /\ rep'.pc # "idle" => rep'.at = reg /\ ~rep'.loud /\ (rep'.watched => Watched(reg))
    BY <1>1, <2>1, <2>3 DEF ReportCheck, NoReport
  <2>5. TypeOK'
    BY <1>0, <2>1, <2>2, <2>4 DEF TypeOK, daemon, focus, clients
  <2>6. ClientInv' /\ FocusInv' /\ GoneIsOver'
    BY <1>0, <2>1, <2>2 DEF ClientInv, FocusInv, GoneIsOver, focus, clients
  <2>7. ReportInv'
    BY <2>1, <2>4 DEF ReportInv, Watched, focus, clients
  <2>. QED BY <2>2, <2>5, <2>6, <2>7 DEF Inv
<1>2. CASE ReportSet
  <2>1. PICK st \in Reports : status' = [status EXCEPT ![rep.at] = st]
    BY <1>2 DEF ReportSet
  <2>2. /\ rep.pc = "set" /\ rep' = [rep EXCEPT !.pc = "notify"]
        /\ UNCHANGED <<daemon, life, pty, focus, clients>>
    BY <1>2 DEF ReportSet
  <2>3. TypeOK'
    BY <1>0, <2>1, <2>2 DEF TypeOK, daemon, focus, clients
  <2>4. SessionInv'
    BY <1>0, <2>1, <2>2, HabitatReports DEF SessionInv, TypeOK, Over, daemon
  <2>5. ClientInv' /\ FocusInv' /\ GoneIsOver'
    BY <1>0, <2>2 DEF ClientInv, FocusInv, GoneIsOver, Over, focus, clients
  <2>6. ReportInv'
    BY <1>0, <2>2 DEF ReportInv, TypeOK, Watched, focus, clients
  <2>. QED BY <2>3, <2>4, <2>5, <2>6 DEF Inv
<1>3. CASE Notify
  <2>1. rep' \in [pc : {"idle", "set", "notify"}, at : Session \cup {None},
                  watched : BOOLEAN, loud : BOOLEAN] /\ rep'.pc = "idle"
    BY <1>3 DEF Notify, NoReport
  <2>2. UNCHANGED <<daemon, sessions, focus, clients>>
    BY <1>3 DEF Notify
  <2>3. TypeOK'
    BY <1>0, <2>1, <2>2 DEF TypeOK, daemon, sessions, focus, clients
  <2>. QED BY <1>0, <2>1, <2>2, <2>3
           DEF Inv, SessionInv, ClientInv, FocusInv, GoneIsOver, ReportInv, Over,
               daemon, sessions, focus, clients
<1>. QED BY <1>1, <1>2, <1>3

LEMMA RestartInv == Inv /\ (DaemonEnds \/ DaemonStarts) => Inv'
<1>. SUFFICES ASSUME Inv, DaemonEnds \/ DaemonStarts PROVE Inv'
  OBVIOUS
<1>0. TypeOK /\ SessionInv /\ ClientInv /\ FocusInv /\ GoneIsOver /\ ReportInv
  BY DEF Inv
<1>1. CASE DaemonEnds
  <2>1. TypeOK'
    BY <1>0, <1>1 DEF DaemonEnds, TypeOK, NoReport
  <2>2. SessionInv'
    BY <1>0, <1>1 DEF DaemonEnds, SessionInv, TypeOK, Over
  <2>3. ClientInv'
    BY <1>0, <1>1 DEF DaemonEnds, ClientInv, TypeOK
  <2>4. FocusInv'
    BY <1>0, <1>1, HabitatNames DEF DaemonEnds, FocusInv, TypeOK
  <2>5. GoneIsOver'
    BY <1>0, <1>1 DEF DaemonEnds, GoneIsOver, TypeOK, Over
  <2>6. ReportInv'
    BY <1>1 DEF DaemonEnds, ReportInv, NoReport
  <2>. QED BY <2>1, <2>2, <2>3, <2>4, <2>5, <2>6 DEF Inv
<1>2. CASE DaemonStarts
  <2>1. up' \in BOOLEAN /\ UNCHANGED <<reg, sessions, focus, clients, rep>>
    BY <1>2 DEF DaemonStarts
  <2>2. TypeOK'
    BY <1>0, <2>1 DEF TypeOK, sessions, focus, clients
  <2>. QED BY <1>0, <2>1, <2>2
           DEF Inv, SessionInv, ClientInv, FocusInv, GoneIsOver, ReportInv, Watched, Over,
               sessions, focus, clients
<1>. QED BY <1>1, <1>2

LEMMA StutterInv == Inv /\ UNCHANGED vars => Inv'
<1>. SUFFICES ASSUME Inv, UNCHANGED vars PROVE Inv'
  OBVIOUS
<1>1. TypeOK'
  BY DEF Inv, TypeOK, vars
<1>. QED BY <1>1 DEF Inv, SessionInv, ClientInv, FocusInv, GoneIsOver, ReportInv,
                     Watched, Over, vars

LEMMA NextInv == Inv /\ [Next]_vars => Inv'
<1>1. Next => DaemonStep \/ ClientStep \/ ReportStep \/ DaemonEnds \/ DaemonStarts
  BY DEF Next, DaemonStep, ClientStep, ReportStep
<1>. QED BY <1>1, DaemonInv, ClientStepInv, ReportStepInv, RestartInv, StutterInv

LEMMA SpecInv == Spec => []Inv
  BY InitInv, NextInv, PTL DEF Spec

-----------------------------------------------------------------------------
(* The promise of attach                                                   *)

\* Who has been given the focus is no longer waiting for it.
SeatInv ==
  \A c \in Client : slot[c] \in {"proxy", "drop"} => tty[c] # "wait" /\ code[c] # "unreachable"

LEMMA SeatStep == Inv /\ SeatInv /\ [Next]_vars => SeatInv'
<1>. SUFFICES ASSUME Inv, SeatInv, [Next]_vars PROVE SeatInv'
  OBVIOUS
<1>0. TypeOK /\ ClientInv
  BY DEF Inv
<1>1. ASSUME NEW c \in Client,
             \/ AttachCheck(c) \/ AttachSteal(c)
             \/ Leave(c) \/ InputClosed(c) \/ SlotDrop(c)
             \/ Detach(c) \/ Unreachable(c) \/ Eof(c) \/ OutputFails(c) \/ MapEof(c)
      PROVE  SeatInv'
  <2>1. CASE AttachCheck(c)
    BY <1>0, <2>1 DEF AttachCheck, Back, SeatInv, TypeOK, ClientInv
  <2>2. CASE AttachSteal(c)
    BY <1>0, <2>2 DEF AttachSteal, SeatInv, TypeOK, ClientInv
  <2>3. CASE Leave(c) \/ InputClosed(c) \/ SlotDrop(c)
    BY <1>0, <2>3 DEF Leave, InputClosed, ProxyEnds, SlotDrop, SeatInv, TypeOK
  <2>4. CASE Detach(c) \/ Eof(c) \/ OutputFails(c) \/ MapEof(c)
    BY <1>0, <2>4 DEF Detach, Eof, OutputFails, Asks, MapEof, Back, SeatInv, TypeOK
  <2>5. CASE Unreachable(c)
    BY <1>0, <2>5 DEF Unreachable, Back, SeatInv, TypeOK, ClientInv
  <2>. QED BY <1>1, <2>1, <2>2, <2>3, <2>4, <2>5
<1>2. CASE DaemonEnds
  BY <1>0, <1>2 DEF DaemonEnds, SeatInv, TypeOK
<1>3. CASE UNCHANGED clients \/ UNCHANGED vars
  BY <1>3 DEF clients, vars, SeatInv
<1>4. DaemonStep \/ ReportStep \/ DaemonStarts => UNCHANGED clients
  BY DEF DaemonStep, ReportStep, DaemonStarts, Start, Waiter, ChildExits, Hangup, DrainEnds,
         ReportCheck, ReportSet, Notify
<1>. QED BY <1>1, <1>2, <1>3, <1>4 DEF Next, DaemonStep, ReportStep

\* Nothing of a session's focus changes where no client gets or leaves it.
LEMMA SameFocus ==
  ASSUME NEW s \in Session, cancel'[s] = cancel[s],
         \A c \in Client : /\ c \in Came(s)' <=> c \in Came(s)
                           /\ slot'[c] = "over" <=> slot[c] = "over"
  PROVE  UNCHANGED Focus(s)!vars
<1>1. Came(s)' = Came(s)
  BY DEF Came
<1>2. {c \in Came(s) : slot[c] = "over"}' = {c \in Came(s) : slot[c] = "over"}
  BY <1>1 DEF Came
<1>. QED BY <1>1, <1>2 DEF Focus!vars

-----------------------------------------------------------------------------
(* The theorems                                                            *)

\* Every reachable state is well typed (Supervisor, AttachSlot, proxy_tty).
THEOREM TypeCorrect == Spec => []TypeOK
<1>1. Inv => TypeOK
  BY DEF Inv
<1>. QED BY <1>1, SpecInv, PTL

\* Whatever is started, stolen and restarted under the name, a client that
\* has not been told to go has the focus of the session that has the name, or
\* of one that is over (Supervisor::attach, start).
THEOREM NameHasOneWatcher == Spec => []OneWatcher
<1>1. Inv => OneWatcher
  BY DEF Inv, TypeOK, SessionInv, ClientInv, FocusInv, OneWatcher, Over
<1>. QED BY <1>1, SpecInv, PTL

\* The exit code for an ended session is never given for one that lives on
\* (map_attach_eof).
THEOREM ExitCodeIsRight == Spec => []GoneIsOver
<1>1. Inv => GoneIsOver
  BY DEF Inv
<1>. QED BY <1>1, SpecInv, PTL

\* A report during which somebody is attached all along is not notified, in
\* spite of any number of thefts and of the drops that follow them
\* (Supervisor::report, AttachSlot::drop).
THEOREM WatchedStaysQuiet == Spec => WatchedIsQuiet
<1>1. Inv /\ [Next]_vars => [rep.pc = "notify" /\ rep.watched => ~rep'.loud]_vars
  <2>. SUFFICES ASSUME Inv, Next, rep.pc = "notify", rep.watched PROVE ~rep'.loud
    OBVIOUS
  <2>1. cancel[rep.at] # None /\ ~rep.loud
    BY HabitatNames DEF Inv, ReportInv, FocusInv, Watched
  <2>2. CASE Notify
    BY <2>1, <2>2 DEF Notify, NoReport
  <2>3. CASE DaemonEnds
    BY <2>3 DEF DaemonEnds, NoReport
  <2>4. CASE \E c \in Client : ProxyEnds(c)
    BY <2>1, <2>4 DEF ProxyEnds, Inv, TypeOK
  <2>5. rep' = rep \/ Notify \/ DaemonEnds \/ \E c \in Client : ProxyEnds(c)
    BY DEF Next, Start, Waiter, ChildExits, Hangup, DrainEnds, AttachCheck, AttachSteal,
           Leave, InputClosed, SlotDrop, Detach, Unreachable, Eof, OutputFails, Asks, MapEof,
           ReportCheck, ReportSet, DaemonStarts
  <2>. QED BY <2>1, <2>2, <2>3, <2>4, <2>5
<1>. QED BY <1>1, SpecInv, PTL DEF Spec, WatchedIsQuiet

\* Each session's focus is lost to a newer client or by leaving only, through
\* any deaths, replacements and late drops, and with the daemon by all at once
\* (AttachState, AttachSlot).
THEOREM Refinement == Spec => ImplementsExclusiveFocus
<1>1. Init => \A s \in Session : Focus(s)!Init
  <2>. SUFFICES ASSUME Init, NEW s \in Session PROVE Focus(s)!Init
    OBVIOUS
  <2>1. Came(s) = {} /\ cancel[s] = None
    BY DEF Init, Came
  <2>2. {c \in Came(s) : slot[c] = "over"} = {}
    BY <2>1
  <2>. QED BY <2>1, <2>2 DEF Focus!Init
<1>2. Init => SeatInv
  BY DEF Init, SeatInv
<1>3. Inv /\ SeatInv /\ [Next]_vars =>
        [\A s \in Session : Focus(s)!Next \/ UNCHANGED Focus(s)!vars]_vars
  <2>. SUFFICES ASSUME Inv, SeatInv, Next, NEW s \in Session
                PROVE  Focus(s)!Next \/ UNCHANGED Focus(s)!vars
    OBVIOUS
  <2>0. TypeOK /\ ClientInv /\ FocusInv
    BY DEF Inv
  <2>1. CASE UNCHANGED <<cancel, clients>>
    BY <2>1, SameFocus DEF clients, Came
  <2>2. ASSUME NEW c \in Client, AttachCheck(c) \/ Unreachable(c)
        PROVE  UNCHANGED Focus(s)!vars
    <3>1. /\ cancel' = cancel
          /\ \/ slot[c] = "none" /\ slot'[c] \in {"none", "checked"}
             \/ /\ slot[c] = "over" /\ slot'[c] = "over"
                /\ tty[c] = "wait" /\ code'[c] = "unreachable"
      BY <2>0, <2>2 DEF AttachCheck, Unreachable, Back, focus, TypeOK, ClientInv
    <3>2. \A d \in Client \ {c} :
            at'[d] = at[d] /\ slot'[d] = slot[d] /\ tty'[d] = tty[d] /\ code'[d] = code[d]
      BY <2>0, <2>2 DEF AttachCheck, Unreachable, Back, TypeOK
    <3>. QED BY <3>1, <3>2, SameFocus DEF Came
  <2>3. ASSUME NEW c \in Client, Leave(c) \/ InputClosed(c) PROVE UNCHANGED Focus(s)!vars
    BY <2>0, <2>3, SameFocus DEF Leave, InputClosed, ProxyEnds, focus, TypeOK, Came
  <2>4. ASSUME NEW c \in Client, Detach(c) \/ Eof(c) \/ OutputFails(c) \/ MapEof(c)
        PROVE  UNCHANGED Focus(s)!vars
    <3>1. /\ cancel' = cancel /\ at' = at /\ slot' = slot /\ tty[c] \in {"on", "ask"}
          /\ tty'[c] # "wait" /\ code[c] = "none" /\ code'[c] # "unreachable"
      BY <2>0, <2>4 DEF Detach, Eof, OutputFails, Asks, MapEof, Back, focus, TypeOK, ClientInv
    <3>2. \A d \in Client \ {c} : tty'[d] = tty[d] /\ code'[d] = code[d]
      BY <2>0, <2>4 DEF Detach, Eof, OutputFails, Asks, MapEof, Back, TypeOK
    <3>. QED BY <3>1, <3>2, SameFocus DEF Came
  <2>5. ASSUME NEW c \in Client, AttachSteal(c)
        PROVE  Focus(s)!Next \/ UNCHANGED Focus(s)!vars
    <3>1. /\ slot[c] = "checked" /\ slot' = [slot EXCEPT ![c] = "proxy"]
          /\ tty' = [tty EXCEPT ![c] = "on"] /\ UNCHANGED <<at, code>>
          /\ cancel' = [cancel EXCEPT ![at[c]] = c] /\ at[c] \in Session /\ code[c] = "none"
      BY <2>0, <2>5 DEF AttachSteal, ClientInv
    <3>2. CASE at[c] = s
      <4>1. c \notin Came(s) /\ Came(s)' = Came(s) \cup {c} /\ cancel'[s] = c
        BY <2>0, <3>1, <3>2 DEF Came, TypeOK
      <4>2. {d \in Came(s) : slot[d] = "over"}' = {d \in Came(s) : slot[d] = "over"}
        BY <2>0, <3>1, <4>1 DEF TypeOK
      <4>3. Focus(s)!Take(c)
        BY <4>1, <4>2 DEF Focus!Take
      <4>. QED BY <4>3 DEF Focus!Next
    <3>3. CASE at[c] # s
      BY <2>0, <3>1, <3>3, SameFocus DEF Came, TypeOK
    <3>. QED BY <3>2, <3>3
  <2>6. ASSUME NEW c \in Client, SlotDrop(c)
        PROVE  Focus(s)!Next \/ UNCHANGED Focus(s)!vars
    <3>1. /\ slot[c] = "drop" /\ slot' = [slot EXCEPT ![c] = "over"]
          /\ UNCHANGED <<at, tty, code>> /\ at[c] \in Session
          /\ cancel' = IF cancel[at[c]] = c THEN [cancel EXCEPT ![at[c]] = None] ELSE cancel
      BY <2>0, <2>6 DEF SlotDrop, ClientInv
    <3>2. CASE at[c] = s
      <4>1. c \in Came(s) /\ Came(s)' = Came(s)
        BY <2>0, <3>1, <3>2 DEF Came, TypeOK, SeatInv
      <4>2. {d \in Came(s) : slot[d] = "over"}' = {d \in Came(s) : slot[d] = "over"} \cup {c}
        BY <2>0, <3>1, <4>1 DEF TypeOK
      <4>3. cancel'[s] = IF cancel[s] \in {c} THEN None ELSE cancel[s]
        BY <2>0, <3>1, <3>2 DEF TypeOK
      <4>4. Focus(s)!Leave({c})
        BY <3>1, <4>1, <4>2, <4>3 DEF Focus!Leave
      <4>. QED BY <4>4 DEF Focus!Next
    <3>3. CASE at[c] # s
      <4>1. cancel'[s] = cancel[s]
        BY <2>0, <3>1, <3>3 DEF TypeOK
      <4>2. \A d \in Client : d \in Came(s)' <=> d \in Came(s)
        BY <2>0, <3>1, <3>3 DEF Came, TypeOK
      <4>3. c \notin Came(s)
        BY <3>3 DEF Came
      <4>4. {d \in Came(s) : slot[d] = "over"}' = {d \in Came(s) : slot[d] = "over"}
        BY <2>0, <3>1, <4>2, <4>3 DEF TypeOK, Came
      <4>5. Came(s)' = Came(s)
        BY <4>2 DEF Came
      <4>. QED BY <4>1, <4>4, <4>5 DEF Focus!vars
    <3>. QED BY <3>2, <3>3
  <2>7. CASE DaemonEnds
    <3>. DEFINE Past == {d \in Came(s) : slot[d] = "over"}
                Stay == Came(s) \ Past
    <3>1. /\ slot' = [d \in Client |-> IF slot[d] = "none" THEN "none" ELSE "over"]
          /\ UNCHANGED <<at, tty, code>> /\ cancel'[s] = None
      BY <2>7 DEF DaemonEnds
    <3>2. Came(s)' = Came(s)
      <4>. SUFFICES ASSUME NEW d \in Client PROVE d \in Came(s)' <=> d \in Came(s)
        BY DEF Came
      <4>1. slot[d] = "checked" => tty[d] = "wait"
        BY <2>0 DEF ClientInv
      <4>2. slot[d] \in {"none", "checked", "proxy", "drop", "over"}
        BY <2>0 DEF TypeOK
      <4>. QED BY <3>1, <4>1, <4>2 DEF Came
    <3>3. Past' = Past \cup Stay
      BY <3>1, <3>2 DEF Came
    <3>4. cancel[s] = None \/ cancel[s] \in Stay
      <4>1. cancel[s] \in Client \cup {None}
        BY <2>0 DEF TypeOK
      <4>2. \A c \in Client : cancel[s] = c => slot[c] \in {"proxy", "drop"} /\ at[c] = s
        BY <2>0 DEF FocusInv
      <4>. QED BY <4>1, <4>2 DEF Came, SeatInv
    <3>5. PICK C : C = Stay
      OBVIOUS
    <3>6. C \in SUBSET Client
      BY <3>5 DEF Came
    <3>7. Focus(s)!Leave(C)
      BY <3>1, <3>2, <3>3, <3>4, <3>5 DEF Focus!Leave
    <3>. QED BY <3>6, <3>7 DEF Focus!Next
  <2>8. DaemonStep \/ ReportStep \/ DaemonStarts => UNCHANGED <<cancel, clients>>
    BY DEF DaemonStep, ReportStep, DaemonStarts, Start, Waiter, ChildExits, Hangup, DrainEnds,
           ReportCheck, ReportSet, Notify, focus
  <2>. QED BY <2>1, <2>2, <2>3, <2>4, <2>5, <2>6, <2>7, <2>8 DEF Next, DaemonStep, ReportStep
<1>. QED BY <1>1, <1>2, <1>3, SeatStep, SpecInv, PTL DEF Spec, ImplementsExclusiveFocus
===============================================================================
