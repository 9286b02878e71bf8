------------------------------ MODULE Boot_proofs ------------------------------
(***************************************************************************)
(* Boots that do not overlap leave one daemon, the one the socket leads    *)
(* to, for any number of processes, clients, crashes and polls.            *)
(***************************************************************************)
EXTENDS Boot, TLAPS

Listening == {"chmod", "serve"}

\* The process that owns the socket is alive and listens on it.
OwnerListens == owner # None => kind = "socket" /\ pc[owner] \in Listening

\* Boots one after the other: who listens owns the socket, and whoever has
\* found that nobody answers there, or nothing is there, is right.
OneBoots == \A d, e \in Booting : d = e
ListenerOwns == \A d \in Daemon : pc[d] \in Listening => owner = d
VacantWhenClaimed == \A d \in Daemon :
  pc[d] \in {"remove", "parent", "made", "mode", "bind"} => owner = None

Sequential == ~raced => OneBoots /\ ListenerOwns /\ VacantWhenClaimed

Inv == TypeOK /\ OwnerListens /\ Sequential

-----------------------------------------------------------------------------
LEMMA UnitIsDaemon == Unit \in Daemon /\ None \notin Daemon
  BY BootNames DEF Daemon

LEMMA InitInv == Init => Inv
<1>. SUFFICES ASSUME Init PROVE Inv
  OBVIOUS
<1>1. TypeOK
  <2>1. raced \in BOOLEAN
    BY DEF Init
  <2>. QED BY <2>1, UnitIsDaemon, BootBounds DEF Init, TypeOK
<1>2. OwnerListens /\ Sequential
  BY DEF Init, OwnerListens, Sequential, OneBoots, ListenerOwns,
         VacantWhenClaimed, Booting, Stages, Listening
<1>. QED BY <1>1, <1>2 DEF Inv

\* The end of a process keeps the types of what it changes.
LEMMA EndTypes ==
  ASSUME TypeOK, NEW d \in Daemon, End(d)
  PROVE  /\ pc' \in [Daemon -> Stages \cup {"off", "serve"}]
         /\ owner' \in Daemon \cup {None}
         /\ conn' \in [Client -> Daemon \cup {None}]
         /\ met' \in [Client -> SUBSET Daemon]
  BY DEF TypeOK, End

LEMMA FailedType ==
  ASSUME TypeOK, NEW d \in Daemon
  PROVE  Failed(d) \in [Client -> {"idle", "ping", "install", "bootout", "enable", "poll", "done"}]
  BY DEF TypeOK, Failed

\* A process that ends leaves a socket nobody owns, and no boot of its own.
LEMMA EndInv ==
  ASSUME Inv, NEW d \in Daemon, End(d), kind' = kind, raced' = raced
  PROVE  OwnerListens' /\ Sequential'
<1>1. OwnerListens'
  BY DEF Inv, TypeOK, OwnerListens, End
<1>2. ASSUME ~raced PROVE OneBoots' /\ ListenerOwns' /\ VacantWhenClaimed'
  <2>1. OneBoots /\ ListenerOwns /\ VacantWhenClaimed
    BY <1>2 DEF Inv, Sequential
  <2>2. Booting' \subseteq Booting
    BY DEF Inv, TypeOK, Booting, Stages, End
  <2>3. OneBoots'
    BY <2>1, <2>2 DEF OneBoots
  <2>4. ListenerOwns'
    BY <2>1 DEF Inv, TypeOK, ListenerOwns, Listening, End
  <2>5. VacantWhenClaimed'
    BY <2>1, UnitIsDaemon DEF Inv, TypeOK, VacantWhenClaimed, End
  <2>. QED BY <2>3, <2>4, <2>5
<1>. QED BY <1>1, <1>2 DEF Sequential

\* A step that leaves processes and socket alone keeps what is known of them.
LEMMA ApartInv ==
  ASSUME Inv, kind' = kind, owner' = owner, pc' = pc, raced' = raced
  PROVE  OwnerListens' /\ Sequential'
  BY DEF Inv, OwnerListens, Sequential, OneBoots, ListenerOwns,
         VacantWhenClaimed, Booting, place

\* A boot that goes on at another label, with the socket left alone.
LEMMA GotoInv ==
  ASSUME Inv, NEW d \in Daemon, pc[d] \in Stages, NEW label \in Stages \cup {"serve"},
         pc' = [pc EXCEPT ![d] = label], UNCHANGED <<place, raced>>,
         pc[d] \in Listening <=> label \in Listening,
         label \in {"remove", "parent", "made", "mode", "bind"} =>
           owner = None \/ pc[d] \in {"remove", "parent", "made", "mode", "bind"}
  PROVE  OwnerListens' /\ Sequential'
<1>1. OwnerListens'
  BY DEF Inv, TypeOK, OwnerListens, place
<1>2. ASSUME ~raced PROVE OneBoots' /\ ListenerOwns' /\ VacantWhenClaimed'
  <2>1. OneBoots /\ ListenerOwns /\ VacantWhenClaimed
    BY <1>2 DEF Inv, Sequential
  <2>2. Booting' \subseteq Booting
    BY DEF Inv, TypeOK, Booting
  <2>3. OneBoots'
    BY <2>1, <2>2 DEF OneBoots
  <2>4. ListenerOwns' /\ VacantWhenClaimed'
    BY <2>1 DEF Inv, TypeOK, ListenerOwns, VacantWhenClaimed, place
  <2>. QED BY <2>3, <2>4
<1>. QED BY <1>1, <1>2 DEF Sequential

-----------------------------------------------------------------------------
(* Types                                                                   *)

LEMMA BootTypes ==
  ASSUME TypeOK, NEW d \in Daemon, Boot(d)
  PROVE  TypeOK'
<1>1. ASSUME Bail(d) PROVE TypeOK'
  BY <1>1, EndTypes, FailedType DEF TypeOK, Boot, Bail, site, service
<1>2. ASSUME NEW label \in Stages \cup {"serve"}, Goto(d, label),
             kind' \in {"none", "foreign", "file", "socket"},
             owner' \in Daemon \cup {None},
             dir' \in {"absent", "open", "private", "foreign"}
      PROVE  TypeOK'
  BY <1>2 DEF TypeOK, Boot, Goto, clients, site, service
<1>3. UNCHANGED place => kind' \in {"none", "foreign", "file", "socket"} /\ owner' \in Daemon \cup {None}
  BY DEF TypeOK, place
<1>4. UNCHANGED dir => dir' \in {"absent", "open", "private", "foreign"}
  BY DEF TypeOK
<1>5. CASE Exists(d) BY <1>5, <1>2, <1>3, <1>4 DEF Exists, Stages
<1>6. CASE Owned(d) BY <1>6, <1>1, <1>2, <1>3, <1>4 DEF Owned, Stages
<1>7. CASE Kind(d) BY <1>7, <1>1, <1>2, <1>3, <1>4 DEF Kind, Stages
<1>8. CASE Probe(d) BY <1>8, <1>1, <1>2, <1>3, <1>4 DEF Probe, Stages
<1>9. CASE Remove(d) BY <1>9, <1>1, <1>2, <1>3, <1>4 DEF Remove, Stages
<1>10. CASE Parent(d) BY <1>10, <1>1, <1>2, <1>3, <1>4 DEF Parent, Stages
<1>11. CASE Mode(d) BY <1>11, <1>1, <1>2, <1>3, <1>4 DEF Mode, Stages
<1>12. CASE Bind(d) BY <1>12, <1>1, <1>2, <1>3, <1>4 DEF Bind, Stages
<1>13. CASE Chmod(d) BY <1>13, <1>1, <1>2, <1>3, <1>4 DEF Chmod, Stages
<1>. QED BY <1>5, <1>6, <1>7, <1>8, <1>9, <1>10, <1>11, <1>12, <1>13 DEF Boot

LEMMA ClientTypes ==
  ASSUME TypeOK, NEW c \in Client, Begin(c) \/ Ensure(c) \/ Reply(c)
  PROVE  TypeOK'
<1>1. CASE Begin(c) BY <1>1 DEF TypeOK, Begin, To, Apart, place, site, Serving
<1>2. CASE Connect(c) BY <1>2, BootBounds DEF TypeOK, Connect, Apart, place, site
<1>3. CASE Refused(c) BY <1>3, BootBounds DEF TypeOK, Refused, To, Apart, place, site
<1>4. CASE Install(c) BY <1>4 DEF TypeOK, Install, To, Apart, place, site
<1>5. CASE Bootout(c)
  BY <1>5, EndTypes, FailedType, UnitIsDaemon DEF TypeOK, Bootout, site
<1>6. CASE Enable(c) BY <1>6 DEF TypeOK, Enable, To, Apart, place, site
<1>7. CASE GiveUp(c) BY <1>7 DEF TypeOK, GiveUp, To, Apart, place, site
<1>8. CASE Reply(c) BY <1>8 DEF TypeOK, Reply, To, Apart, place, site
<1>. QED BY <1>1, <1>2, <1>3, <1>4, <1>5, <1>6, <1>7, <1>8 DEF Ensure

LEMMA StepTypes == TypeOK /\ [Next]_vars => TypeOK'
<1>. SUFFICES ASSUME TypeOK, [Next]_vars PROVE TypeOK'
  OBVIOUS
<1>1. ASSUME NEW d \in Daemon, Start(d), starts' \in 0..Burst PROVE TypeOK'
  BY <1>1 DEF TypeOK, Start, place, site, clients, Stages
<1>2. CASE SpawnUnit
  <2>1. starts' \in 0..Burst
    BY <1>2, BootBounds DEF TypeOK, SpawnUnit
  <2>. QED BY <1>1, <1>2, <2>1, UnitIsDaemon DEF SpawnUnit
<1>3. ASSUME NEW d \in Daemon, SpawnHand(d) PROVE TypeOK'
  BY <1>1, <1>3 DEF TypeOK, SpawnHand
<1>4. CASE SpawnRefused \/ IntervalPasses
  BY <1>4, BootBounds DEF TypeOK, SpawnRefused, IntervalPasses, place, site, clients
<1>5. ASSUME NEW d \in Daemon, Dies(d), unit' \in {"stopped", "wanted", "failed"} PROVE TypeOK'
  BY <1>5, EndTypes, FailedType, BootBounds DEF TypeOK, Dies, site
<1>6. ASSUME NEW d \in Daemon, Crash(d) \/ Terminated(d) PROVE TypeOK'
  BY <1>5, <1>6 DEF TypeOK, Crash, Terminated
<1>7. CASE UNCHANGED vars
  BY <1>7 DEF TypeOK, vars
<1>. QED BY <1>2, <1>3, <1>4, <1>6, <1>7, BootTypes, ClientTypes DEF Next, Service

-----------------------------------------------------------------------------
(* One daemon                                                              *)

LEMMA StartInv ==
  ASSUME Inv, NEW d \in Daemon, Start(d)
  PROVE  OwnerListens' /\ Sequential'
<1>1. OwnerListens'
  BY DEF Inv, TypeOK, OwnerListens, Start, place, Listening
<1>2. ASSUME ~raced' PROVE OneBoots' /\ ListenerOwns' /\ VacantWhenClaimed'
  <2>1. ~raced /\ Booting = {}
    BY <1>2 DEF Inv, TypeOK, Start
  <2>2. OneBoots /\ ListenerOwns /\ VacantWhenClaimed
    BY <2>1 DEF Inv, Sequential
  <2>3. \A e \in Booting' : e = d
    BY <2>1 DEF Inv, TypeOK, Start, Booting
  <2>4. OneBoots'
    BY <2>3 DEF OneBoots
  <2>5. ListenerOwns' /\ VacantWhenClaimed'
    BY <2>2 DEF Inv, TypeOK, Start, place, ListenerOwns, VacantWhenClaimed, Listening
  <2>. QED BY <2>4, <2>5
<1>. QED BY <1>1, <1>2 DEF Sequential

\* Removing a socket nobody answered at: no listener loses it.
LEMMA RemoveInv ==
  ASSUME Inv, NEW d \in Daemon, Remove(d), UNCHANGED raced
  PROVE  OwnerListens' /\ Sequential'
<1>1. CASE kind = "none"
  BY <1>1, EndInv DEF Remove, Bail
<1>2. CASE kind # "none"
  <2>1. owner' = None /\ pc' = [pc EXCEPT ![d] = "parent"] /\ pc[d] = "remove"
    BY <1>2 DEF Remove, Goto
  <2>2. OwnerListens'
    BY <2>1 DEF OwnerListens
  <2>3. ASSUME ~raced PROVE OneBoots' /\ ListenerOwns' /\ VacantWhenClaimed'
    <3>1. OneBoots /\ ListenerOwns /\ VacantWhenClaimed
      BY <2>3 DEF Inv, Sequential
    <3>2. owner = None
      BY <2>1, <3>1 DEF VacantWhenClaimed
    <3>3. Booting' \subseteq Booting
      BY <2>1 DEF Inv, TypeOK, Booting, Stages
    <3>4. OneBoots'
      BY <3>1, <3>3 DEF OneBoots
    <3>5. ListenerOwns' /\ VacantWhenClaimed'
      BY <2>1, <3>1, <3>2 DEF Inv, TypeOK, ListenerOwns, VacantWhenClaimed, Listening
    <3>. QED BY <3>4, <3>5
  <2>. QED BY <2>2, <2>3 DEF Sequential
<1>. QED BY <1>1, <1>2

\* Binding at a path where nothing is: the only boot there is becomes its owner.
LEMMA BindInv ==
  ASSUME Inv, NEW d \in Daemon, Bind(d), UNCHANGED raced
  PROVE  OwnerListens' /\ Sequential'
<1>1. CASE kind # "none"
  BY <1>1, EndInv DEF Bind, Bail
<1>2. CASE kind = "none"
  <2>1. /\ kind' = "socket" /\ owner' = d /\ pc[d] = "bind"
        /\ pc' = [pc EXCEPT ![d] = "chmod"]
    BY <1>2 DEF Bind, Goto
  <2>2. OwnerListens'
    BY <2>1 DEF Inv, TypeOK, OwnerListens, Listening
  <2>3. ASSUME ~raced PROVE OneBoots' /\ ListenerOwns' /\ VacantWhenClaimed'
    <3>1. OneBoots /\ ListenerOwns /\ VacantWhenClaimed
      BY <2>3 DEF Inv, Sequential
    <3>2. owner = None /\ d \in Booting
      BY <2>1, <3>1 DEF VacantWhenClaimed, Booting, Stages
    <3>3. Booting' \subseteq Booting
      BY <2>1, <3>2 DEF Inv, TypeOK, Booting, Stages
    <3>4. \A e \in Daemon \ {d} : pc[e] \notin Stages
      BY <3>1, <3>2 DEF OneBoots, Booting
    <3>5. \A e \in Daemon \ {d} : pc[e] \notin Listening
      BY <3>1, <3>2, UnitIsDaemon DEF ListenerOwns
    <3>6. OneBoots'
      BY <3>1, <3>3 DEF OneBoots
    <3>7. ListenerOwns' /\ VacantWhenClaimed'
      BY <2>1, <3>4, <3>5 DEF Inv, TypeOK, ListenerOwns, VacantWhenClaimed, Stages
    <3>. QED BY <3>6, <3>7
  <2>. QED BY <2>2, <2>3 DEF Sequential
<1>. QED BY <1>1, <1>2

LEMMA BootInv ==
  ASSUME Inv, NEW d \in Daemon, Boot(d)
  PROVE  OwnerListens' /\ Sequential'
<1>. UNCHANGED raced
  BY DEF Boot
<1>1. ASSUME Bail(d) PROVE OwnerListens' /\ Sequential'
  BY <1>1, EndInv DEF Bail
<1>2. owner # None => kind = "socket"
  BY DEF Inv, OwnerListens
<1>3. CASE Exists(d)
  BY <1>3, <1>2, GotoInv DEF Exists, Goto, Stages, Listening
<1>4. CASE Owned(d)
  BY <1>4, <1>1, GotoInv DEF Owned, Goto, Stages, Listening
<1>5. CASE Kind(d)
  BY <1>5, <1>1, GotoInv DEF Kind, Goto, Stages, Listening
<1>6. CASE Probe(d)
  BY <1>6, <1>1, <1>2, GotoInv DEF Probe, Reachable, Goto, Stages, Listening
<1>7. CASE Remove(d)
  BY <1>7, RemoveInv
<1>8. CASE Parent(d)
  BY <1>8, <1>1, GotoInv DEF Parent, Goto, Stages, Listening
<1>9. CASE Mode(d)
  BY <1>9, <1>1, GotoInv DEF Mode, Goto, Stages, Listening
<1>10. CASE Bind(d)
  BY <1>10, BindInv
<1>11. CASE Chmod(d)
  BY <1>11, <1>1, GotoInv DEF Chmod, Goto, Stages, Listening
<1>. QED BY <1>3, <1>4, <1>5, <1>6, <1>7, <1>8, <1>9, <1>10, <1>11 DEF Boot

LEMMA StepInv == Inv /\ [Next]_vars => Inv'
<1>. SUFFICES ASSUME Inv, [Next]_vars PROVE Inv'
  OBVIOUS
<1>1. TypeOK'
  BY StepTypes DEF Inv
<1>2. ASSUME NEW d \in Daemon, Dies(d) PROVE OwnerListens' /\ Sequential'
  BY <1>2, EndInv DEF Dies
<1>3. ASSUME NEW c \in Client, Begin(c) \/ Ensure(c) \/ Reply(c)
      PROVE  OwnerListens' /\ Sequential'
  <2>1. CASE Bootout(c)
    BY <2>1, EndInv, UnitIsDaemon DEF Bootout
  <2>2. CASE ~Bootout(c)
    BY <1>3, <2>2, ApartInv
    DEF Begin, Ensure, Connect, Refused, Install, Enable, GiveUp, Reply, Apart, place
  <2>. QED BY <2>1, <2>2
<1>4. ASSUME UNCHANGED vars \/ SpawnRefused \/ IntervalPasses PROVE OwnerListens' /\ Sequential'
  <2>1. kind' = kind /\ owner' = owner /\ pc' = pc /\ raced' = raced
    BY <1>4 DEF vars, SpawnRefused, IntervalPasses, place
  <2>. QED BY <2>1, ApartInv
<1>5. ASSUME NEW d \in Daemon, Start(d) \/ Boot(d)
      PROVE  OwnerListens' /\ Sequential'
  BY <1>5, StartInv, BootInv
<1>6. OwnerListens' /\ Sequential'
  BY <1>2, <1>3, <1>4, <1>5, UnitIsDaemon
  DEF Next, Service, SpawnUnit, SpawnHand, Crash, Terminated
<1>. QED BY <1>1, <1>6 DEF Inv

-----------------------------------------------------------------------------
(* Clients                                                                 *)

\* Who is remembered as serving is, and who is to answer listens; a client that
\* is about to ask for the service met nobody that still serves.
MetServe == \A c \in Client : met[c] \subseteq Serving
ConnListens == \A c \in Client : conn[c] # None => pc[conn[c]] \in Listening
Spared ==
  ~raced => \A c \in Client : cpc[c] \in {"install", "bootout"} => met[c] = {}

ClientInv == MetServe /\ ConnListens /\ Spared

LEMMA InitClient == Init => ClientInv
  BY DEF Init, ClientInv, MetServe, ConnListens, Spared

\* A process that ends is remembered by nobody; and a client whose first ping
\* it leaves without an answer had met it at most.
LEMMA EndClient ==
  ASSUME Inv, ClientInv, NEW d \in Daemon, End(d), kind' = kind, raced' = raced
  PROVE  /\ MetServe' /\ ConnListens'
         /\ ~raced => \A c \in Client : Failed(d)[c] \in {"install", "bootout"} => met'[c] = {}
<1>1. MetServe'
  BY DEF Inv, TypeOK, ClientInv, MetServe, Serving, End
<1>2. ConnListens'
  BY UnitIsDaemon DEF Inv, TypeOK, ClientInv, ConnListens, End
<1>3. ASSUME ~raced, NEW c \in Client, Failed(d)[c] \in {"install", "bootout"}
      PROVE  met'[c] = {}
  <2>1. met'[c] = met[c] \ {d}
    BY DEF End
  <2>2. CASE conn[c] = d /\ cpc[c] = "ping"
    <3>1. pc[d] \in Listening
      BY <2>2, UnitIsDaemon DEF ClientInv, ConnListens
    <3>2. owner = d
      BY <1>3, <3>1 DEF Inv, Sequential, ListenerOwns
    <3>3. \A e \in met[c] : e \in Daemon /\ pc[e] \in Listening
      BY DEF ClientInv, MetServe, Serving, Listening
    <3>4. \A e \in met[c] : owner = e
      BY <1>3, <3>3 DEF Inv, Sequential, ListenerOwns
    <3>. QED BY <2>1, <3>2, <3>4
  <2>3. CASE ~(conn[c] = d /\ cpc[c] = "ping")
    <3>1. met[c] = {}
      BY <1>3, <2>3 DEF Failed, ClientInv, Spared
    <3>. QED BY <2>1, <3>1
  <2>. QED BY <2>2, <2>3
<1>. QED BY <1>1, <1>2, <1>3

\* A boot that goes on does not yet serve nor has it a client, or listens on.
LEMMA GotoClient ==
  ASSUME Inv, ClientInv, NEW d \in Daemon, pc[d] \in Stages, NEW label,
         Goto(d, label), pc[d] \in Listening => label \in Listening, UNCHANGED raced
  PROVE  ClientInv'
<1>1. UNCHANGED <<cpc, conn, met>> /\ pc' = [pc EXCEPT ![d] = label]
  BY DEF Goto, clients
<1>2. MetServe'
  BY <1>1 DEF Inv, TypeOK, ClientInv, MetServe, Serving, Stages
<1>3. ConnListens'
  BY <1>1 DEF Inv, TypeOK, ClientInv, ConnListens
<1>. QED BY <1>1, <1>2, <1>3 DEF ClientInv, Spared

LEMMA DaemonClient ==
  ASSUME Inv, ClientInv, NEW d \in Daemon, Start(d) \/ Dies(d) \/ Boot(d)
  PROVE  ClientInv'
<1>1. ASSUME End(d), cpc' = Failed(d), kind' = kind, raced' = raced PROVE ClientInv'
  BY <1>1, EndClient DEF ClientInv, Spared
<1>2. CASE Start(d)
  <2>1. /\ pc[d] = "off" /\ pc' = [pc EXCEPT ![d] = "exists"] /\ UNCHANGED <<cpc, conn, met>>
        /\ raced => raced'
    BY <1>2 DEF Start, clients
  <2>2. MetServe'
    BY <2>1 DEF Inv, TypeOK, ClientInv, MetServe, Serving
  <2>3. ConnListens'
    BY <2>1 DEF Inv, TypeOK, ClientInv, ConnListens, Listening
  <2>. QED BY <2>1, <2>2, <2>3 DEF ClientInv, Spared
<1>3. CASE Dies(d)
  BY <1>1, <1>3 DEF Dies
<1>4. CASE Boot(d)
  <2>1. UNCHANGED raced
    BY <1>4 DEF Boot
  <2>2. Bail(d) => ClientInv'
    BY <1>1, <2>1 DEF Bail
  <2>. USE DEF Stages, Listening
  <2>3. CASE Exists(d) BY <2>1, <2>3, GotoClient DEF Exists
  <2>4. CASE Owned(d) BY <2>1, <2>2, <2>4, GotoClient DEF Owned
  <2>5. CASE Kind(d) BY <2>1, <2>2, <2>5, GotoClient DEF Kind
  <2>6. CASE Probe(d) BY <2>1, <2>2, <2>6, GotoClient DEF Probe
  <2>7. CASE Remove(d) BY <2>1, <2>2, <2>7, GotoClient DEF Remove
  <2>8. CASE Parent(d) BY <2>1, <2>2, <2>8, GotoClient DEF Parent
  <2>9. CASE Mode(d) BY <2>1, <2>2, <2>9, GotoClient DEF Mode
  <2>10. CASE Bind(d) BY <2>1, <2>2, <2>10, GotoClient DEF Bind
  <2>11. CASE Chmod(d) BY <2>1, <2>2, <2>11, GotoClient DEF Chmod
  <2>. QED BY <1>4, <2>3, <2>4, <2>5, <2>6, <2>7, <2>8, <2>9, <2>10, <2>11 DEF Boot
<1>. QED BY <1>2, <1>3, <1>4

LEMMA OwnClient ==
  ASSUME Inv, ClientInv, NEW c \in Client, Begin(c) \/ Ensure(c) \/ Reply(c)
  PROVE  ClientInv'
\* A step that leaves the processes, and gives no client a new one to wait for.
<1>1. ASSUME UNCHANGED <<pc, raced, met>>, NEW label, To(c, label),
             label \in {"install", "bootout"} => raced \/ met[c] = {},
             conn' = conn \/ conn' = [conn EXCEPT ![c] = None]
      PROVE  ClientInv'
  <2>1. MetServe'
    BY <1>1 DEF ClientInv, MetServe, Serving
  <2>2. ConnListens'
    BY <1>1 DEF Inv, TypeOK, ClientInv, ConnListens
  <2>3. Spared'
    BY <1>1 DEF Inv, TypeOK, ClientInv, Spared, To
  <2>. QED BY <2>1, <2>2, <2>3 DEF ClientInv
<1>2. CASE Begin(c)
  <2>1. MetServe'
    BY <1>2 DEF Inv, TypeOK, ClientInv, MetServe, Serving, Begin
  <2>2. ConnListens'
    BY <1>2 DEF ClientInv, ConnListens, Begin
  <2>3. Spared'
    BY <1>2 DEF Inv, TypeOK, ClientInv, Spared, Begin, To, Apart
  <2>. QED BY <2>1, <2>2, <2>3 DEF ClientInv
<1>3. CASE Connect(c)
  <2>1. /\ owner # None /\ conn' = [conn EXCEPT ![c] = owner]
        /\ UNCHANGED <<pc, cpc, met, raced>>
    BY <1>3 DEF Connect, Reachable, Apart
  <2>2. pc[owner] \in Listening
    BY <2>1 DEF Inv, OwnerListens
  <2>3. ConnListens'
    BY <2>1, <2>2 DEF Inv, TypeOK, ClientInv, ConnListens
  <2>. QED BY <2>1, <2>3 DEF ClientInv, MetServe, Serving, Spared
<1>4. CASE Refused(c)
  <2>1. raced \/ met[c] = {}
    <3>1. SUFFICES ASSUME ~raced, NEW d \in met[c] PROVE FALSE
      OBVIOUS
    <3>2. d \in Daemon /\ pc[d] \in Listening
      BY DEF ClientInv, MetServe, Serving, Listening
    <3>3. owner = d
      BY <3>1, <3>2 DEF Inv, Sequential, ListenerOwns
    <3>4. Reachable
      BY <3>2, <3>3, UnitIsDaemon DEF Inv, OwnerListens, Reachable
    <3>. QED BY <1>4, <3>4 DEF Refused
  <2>. QED BY <1>1, <1>4, <2>1 DEF Refused, Apart
<1>5. CASE Install(c)
  <2>1. raced \/ met[c] = {}
    BY <1>5 DEF Install, ClientInv, Spared
  <2>. QED BY <1>1, <1>5, <2>1 DEF Install, Apart
<1>6. CASE Bootout(c)
  <2>1. End(Unit) /\ kind' = kind /\ raced' = raced /\ cpc' = [Failed(Unit) EXCEPT ![c] = "enable"]
    BY <1>6 DEF Bootout
  <2>2. Spared'
    BY <2>1, EndClient, UnitIsDaemon DEF Spared, Failed
  <2>. QED BY <2>1, <2>2, EndClient, UnitIsDaemon DEF ClientInv
<1>7. CASE Enable(c)
  BY <1>1, <1>7 DEF Enable, Apart
<1>8. CASE GiveUp(c)
  BY <1>1, <1>8 DEF GiveUp, Apart
<1>9. CASE Reply(c)
  BY <1>1, <1>9 DEF Reply, Apart
<1>. QED BY <1>2, <1>3, <1>4, <1>5, <1>6, <1>7, <1>8, <1>9 DEF Ensure

LEMMA StepClient == Inv /\ ClientInv /\ [Next]_vars => ClientInv'
<1>. SUFFICES ASSUME Inv, ClientInv, [Next]_vars PROVE ClientInv'
  OBVIOUS
<1>1. CASE UNCHANGED vars \/ SpawnRefused \/ IntervalPasses
  <2>1. UNCHANGED <<pc, cpc, conn, raced, met>>
    BY <1>1 DEF vars, SpawnRefused, IntervalPasses, clients
  <2>. QED BY <2>1 DEF ClientInv, MetServe, ConnListens, Spared, Serving
<1>. QED BY <1>1, DaemonClient, OwnClient, UnitIsDaemon
         DEF Next, Service, SpawnUnit, SpawnHand, Crash, Terminated

-----------------------------------------------------------------------------
\* Every reachable state of processes, socket, directory and clients is well
\* typed, and no client polls after its deadline (ensure_daemon).
THEOREM TypeCorrect == Spec => []TypeOK
<1>1. Init => TypeOK
  BY InitInv DEF Inv
<1>. QED BY <1>1, StepTypes, PTL DEF Spec

\* Boots that do not overlap leave at most one serving daemon, and the socket
\* leads to it, through any sequence of crashes and restarts (run).
THEOREM OneDaemon == Spec => []OneDaemonServes
<1>1. Inv => OneDaemonServes
  <2>. SUFFICES ASSUME Inv, ~raced, NEW d \in Serving
                PROVE  owner = d /\ Serving = {d}
    BY DEF OneDaemonServes
  <2>1. \A e \in Serving : owner = e
    BY DEF Inv, Sequential, ListenerOwns, Serving, Listening
  <2>. QED BY <2>1
<1>. QED BY <1>1, InitInv, StepInv, PTL DEF Spec

\* A client that asks the service manager to end its daemon has met none that
\* was serving when it began and still is: only a ping that nobody was there to
\* answer gets so far (ensure_daemon), for any number of clients and crashes.
THEOREM ClientsSpare == Spec => ClientsSpareTheDaemon
<1>1. ASSUME Inv, ClientInv, [Next]_vars, NEW c \in Client,
             cpc[c] = "bootout", cpc'[c] = "enable", ~raced
      PROVE  \A d \in met[c] : pc'[d] = "serve"
  <2>1. met[c] = {}
    BY <1>1 DEF ClientInv, Spared
  <2>. QED BY <2>1
<1>2. Inv /\ ClientInv /\ [Next]_vars =>
        [\A c \in Client : cpc[c] = "bootout" /\ cpc'[c] = "enable" =>
           raced \/ \A d \in met[c] : pc'[d] = "serve"]_vars
  BY <1>1
<1>3. Init => Inv /\ ClientInv
  BY InitInv, InitClient
<1>4. Inv /\ ClientInv /\ [Next]_vars => Inv' /\ ClientInv'
  BY StepInv, StepClient
<1>. QED BY <1>2, <1>3, <1>4, PTL DEF Spec, ClientsSpareTheDaemon
===============================================================================
