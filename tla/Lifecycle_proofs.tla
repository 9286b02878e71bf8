--------------------------- MODULE Lifecycle_proofs ---------------------------
(***************************************************************************)
(* Proofs about Lifecycle, for any sets of names, requests, sessions and   *)
(* pids.                                                                   *)
(***************************************************************************)
EXTENDS Lifecycle, TLAPS

\* The part of the type invariant that says what a request is working on.
RequestsOK ==
  \A r \in Req :
    /\ pc[r] \in {"spawn", "insert"} => arg[r] \in Name
    /\ pc[r] \in {"insert", "killCheck", "killSignal", "killReap",
                  "reportCheck", "reportSet", "lookReap"} => at[r] \in Session
    /\ pc[r] = "reportSet" => opt[r] \in Reports
    /\ pc[r] = "reportCheck" => opt[r] \in Reports

Types == TypeOK /\ RequestsOK

(* Reaping only turns sessions with an exited child into dead ones.        *)
LEMMA ReapEffect ==
  ASSUME TypeOK, NEW S, Reap(S)
  PROVE  /\ live' \in [Session -> BOOLEAN]
         /\ child' \in [Session -> {"none", "running", "zombie", "gone"}]
         /\ status' \in [Session -> Reports \cup {"none", "running", "dead"}]
         /\ \A s \in Session :
              \/ /\ live'[s] = live[s] /\ child'[s] = child[s] /\ status'[s] = status[s]
              \/ /\ live[s] /\ child[s] = "zombie"
                 /\ ~live'[s] /\ child'[s] = "gone" /\ status'[s] = "dead"
  BY DEF TypeOK, Reap, Exited

(* Ending a request forgets what it was about.                             *)
LEMMA DoneEffect ==
  ASSUME TypeOK, NEW r \in Req, Done(r)
  PROVE  /\ pc' \in [Req -> Labels] /\ pc'[r] = "idle"
         /\ arg' \in [Req -> Name \cup {None}]
         /\ at' \in [Req -> Session \cup {None}]
         /\ opt' \in [Req -> Signals \cup Reports \cup {"-"}]
         /\ \A q \in Req \ {r} : pc'[q] = pc[q] /\ arg'[q] = arg[q] /\ at'[q] = at[q]
                                 /\ opt'[q] = opt[q]
  BY DEF TypeOK, Done, Labels

-----------------------------------------------------------------------------
\* The steps of a start keep the types.
LEMMA StartTypes ==
  ASSUME Types, NEW r \in Req, Start(r) PROVE Types'
<1> USE DEF Types, TypeOK, RequestsOK
<1>1. ASSUME NEW n \in Name, StartCheck(r, n) PROVE Types'
  BY <1>1, ReapEffect DEF StartCheck, reqs, Labels
<1>2. CASE SpawnFails(r)
  BY <1>2, DoneEffect DEF SpawnFails
<1>3. ASSUME NEW s \in Session, NEW p \in Pid, Spawn(r, s, p) PROVE Types'
  BY <1>3 DEF Spawn, Fork, Labels
<1>4. ASSUME NEW s \in Session, NEW p \in Pid, SpawnLeaks(r, s, p) PROVE Types'
  BY <1>4, DoneEffect DEF SpawnLeaks, Fork
<1>5. CASE Insert(r)
  <2>1. sessions' \in [Name -> Session \cup {None}]
    BY <1>5 DEF Insert, DropNew
  <2>2. doomed' \in [Session -> BOOLEAN]
    <3>1. CASE UNCHANGED doomed
      BY <3>1
    <3>2. CASE DropNew(at[r], sessions[arg[r]])
      BY <3>2 DEF DropNew, Deliver
    <3> QED
      BY <1>5, <3>1, <3>2 DEF Insert
  <2>3. \E S : Reap(S)
    BY <1>5 DEF Insert, DropNew
  <2> QED
    BY <1>5, <2>1, <2>2, <2>3, ReapEffect, DoneEffect DEF Insert
<1> QED
  BY <1>1, <1>2, <1>3, <1>4, <1>5 DEF Start

\* The steps of a kill keep the types.
LEMMA KillTypes ==
  ASSUME Types, NEW r \in Req, Kill(r) PROVE Types'
<1> USE DEF Types, TypeOK, RequestsOK
<1>1. ASSUME NEW n \in Name, NEW sig \in Signals, KillGet(r, n, sig) PROVE Types'
  BY <1>1 DEF KillGet, Get, Labels
<1>2. CASE KillCheck(r)
  BY <1>2, ReapEffect, DoneEffect DEF KillCheck, Labels
<1>3. CASE KillSignal(r)
  BY <1>3 DEF KillSignal, Deliver, Labels
<1>4. CASE KillReap(r)
  BY <1>4, ReapEffect, DoneEffect DEF KillReap
<1> QED
  BY <1>1, <1>2, <1>3, <1>4 DEF Kill

\* The steps of a report keep the types.
LEMMA ReportTypes ==
  ASSUME Types, NEW r \in Req, Report(r) PROVE Types'
<1> USE DEF Types, TypeOK, RequestsOK
<1>1. ASSUME NEW n \in Name, NEW st \in Reports, ReportGet(r, n, st) PROVE Types'
  BY <1>1 DEF ReportGet, Get, Labels
<1>2. CASE ReportCheck(r)
  BY <1>2, ReapEffect, DoneEffect DEF ReportCheck, Labels
<1>3. CASE ReportSet(r)
  BY <1>3, DoneEffect DEF ReportSet
<1> QED
  BY <1>1, <1>2, <1>3 DEF Report

\* Looking a session up and listing keep the types.
LEMMA LookTypes ==
  ASSUME Types, NEW r \in Req, Look(r) PROVE Types'
<1> USE DEF Types, TypeOK, RequestsOK
<1>1. ASSUME NEW n \in Name, LookGet(r, n) PROVE Types'
  BY <1>1 DEF LookGet, Get, Labels
<1>2. CASE LookReap(r)
  BY <1>2, ReapEffect, DoneEffect DEF LookReap
<1>3. CASE List(r)
  BY <1>3, ReapEffect DEF List
<1> QED
  BY <1>1, <1>2, <1>3 DEF Look

\* The types hold in every state.
LEMMA TypesInvariant == Spec => []Types
<1>1. Init => Types
  BY DEF Init, Types, TypeOK, RequestsOK, Labels
<1>2. Types /\ [Next]_vars => Types'
  <2> SUFFICES ASSUME Types, [Next]_vars PROVE Types'
    OBVIOUS
  <2>1. ASSUME NEW s \in Session, Waiter(s) PROVE Types'
    BY <2>1, ReapEffect DEF Waiter, Types, TypeOK, RequestsOK
  <2>2. ASSUME NEW s \in Session, ChildExits(s) PROVE Types'
    BY <2>2 DEF ChildExits, Types, TypeOK, RequestsOK
  <2>3. CASE UNCHANGED vars
    BY <2>3 DEF vars, Types, TypeOK, RequestsOK
  <2> QED
    BY <2>1, <2>2, <2>3, StartTypes, KillTypes, ReportTypes, LookTypes DEF Next
<1> QED
  BY <1>1, <1>2, PTL DEF Spec

(* Every variable keeps its type.                                          *)
THEOREM TypeCorrect == Spec => []TypeOK
  BY TypesInvariant, PTL DEF Types

-----------------------------------------------------------------------------
(* Where a session's child is. A session is registered under one name at   *)
(* most, a start holds a session nobody else has, and a session with a     *)
(* Live has a child to wait for.                                           *)

Tidy ==
  /\ \A s \in Session : live[s] => child[s] \in {"running", "zombie"}
  /\ DeadHasNoProcess

Placed ==
  /\ \A n \in Name : sessions[n] \in Session => child[sessions[n]] # "none"
  /\ \A m, n \in Name : sessions[m] \in Session /\ sessions[m] = sessions[n] => m = n
  /\ \A r \in Req : pc[r] = "insert" => child[at[r]] # "none" /\ ~Registered(at[r])
  /\ \A q, r \in Req : pc[q] = "insert" /\ pc[r] = "insert" /\ at[q] = at[r] => q = r

Safe == Types /\ Tidy /\ Placed /\ NoStrayChild

\* No start comes to hold, or lets go of, a session it has spawned.
SameInserts ==
  \A r \in Req : /\ pc'[r] = "insert" <=> pc[r] = "insert"
                 /\ pc[r] = "insert" => at'[r] = at[r]

\* What is in flight stays so when requests keep their places.
LEMMA SameInsertsEffect ==
  ASSUME SameInserts PROVE \A s \in Session : InFlight(s)' <=> InFlight(s)
  BY DEF SameInserts, InFlight

\* No session exists at first.
LEMMA SafeInit == Init => Safe
<1> SUFFICES ASSUME Init PROVE Safe
  OBVIOUS
<1>1. Types
  BY DEF Init, Types, TypeOK, RequestsOK, Labels
<1>2. Tidy /\ NoStrayChild
  BY DEF Init, Tidy, DeadHasNoProcess, NoStrayChild
<1>3. Placed
  BY NoneAssumption DEF Init, Placed
<1> QED
  BY <1>1, <1>2, <1>3 DEF Safe

\* Steps that reap, whatever else they do to requests and signals.
LEMMA ReapStep ==
  ASSUME Safe, Types', NEW S, Reap(S), UNCHANGED sessions, SameInserts,
         \A s \in Session : doomed[s] => doomed'[s]
  PROVE  Safe'
<1>1. \A s \in Session :
        \/ live'[s] = live[s] /\ child'[s] = child[s] /\ status'[s] = status[s]
        \/ live[s] /\ child[s] = "zombie" /\ ~live'[s] /\ child'[s] = "gone" /\ status'[s] = "dead"
  BY ReapEffect DEF Safe, Types
<1>2. Tidy'
  BY <1>1 DEF Safe, Tidy, DeadHasNoProcess
<1>3. Placed'
  BY <1>1 DEF Safe, Placed, Registered, SameInserts, Types, RequestsOK
<1>4. NoStrayChild'
  BY <1>1, SameInsertsEffect DEF Safe, NoStrayChild, Registered
<1> QED
  BY <1>2, <1>3, <1>4 DEF Safe

\* Steps that touch no process: only a request, a signal or a status moves.
LEMMA KeepStep ==
  ASSUME Safe, Types', UNCHANGED <<sessions, live, child>>, SameInserts,
         \A s \in Session : doomed[s] => doomed'[s],
         \A s \in Session : status'[s] = "dead" => status[s] = "dead"
  PROVE  Safe'
<1>1. Tidy'
  BY DEF Safe, Tidy, DeadHasNoProcess
<1>2. Placed'
  BY DEF Safe, Placed, Registered, SameInserts
<1>3. NoStrayChild'
  BY SameInsertsEffect DEF Safe, NoStrayChild, Registered
<1> QED
  BY <1>1, <1>2, <1>3 DEF Safe

\* A spawned session is in flight to the table.
LEMMA SpawnStep ==
  ASSUME Safe, Types', NEW r \in Req, NEW s \in Session, NEW p \in Pid, Spawn(r, s, p)
  PROVE  Safe'
<1> USE DEF Spawn, Fork, Safe, Types, TypeOK
<1>1. /\ child[s] = "none" /\ child'[s] = "running" /\ live'[s] /\ status'[s] = "running"
      /\ \A t \in Session \ {s} : child'[t] = child[t] /\ live'[t] = live[t] /\ status'[t] = status[t]
      /\ pc[r] = "spawn" /\ pc'[r] = "insert" /\ at'[r] = s
      /\ \A q \in Req \ {r} : pc'[q] = pc[q] /\ at'[q] = at[q]
      /\ UNCHANGED <<sessions, doomed>>
  OBVIOUS
<1>2. Tidy'
  BY <1>1 DEF Tidy, DeadHasNoProcess
<1>3. ~Registered(s)
  BY <1>1 DEF Placed, Registered
<1>4. Placed'
  BY <1>1, <1>3 DEF Placed, Registered, RequestsOK
<1>5. \A t \in Session : InFlight(t) => InFlight(t)'
  BY <1>1 DEF InFlight
<1>6. InFlight(s)'
  BY <1>1 DEF InFlight
<1>7. NoStrayChild'
  BY <1>1, <1>5, <1>6 DEF NoStrayChild, Registered
<1> QED
  BY <1>2, <1>4, <1>7

\* A spawn that fails late leaves a process no session is live for.
LEMMA LeakStep ==
  ASSUME Safe, Types', NEW r \in Req, NEW s \in Session, NEW p \in Pid, SpawnLeaks(r, s, p)
  PROVE  Safe'
<1>1. /\ child[s] = "none" /\ child'[s] = "running"
      /\ \A t \in Session \ {s} : child'[t] = child[t]
      /\ UNCHANGED <<sessions, doomed, live, status>>
      /\ ~live[s]
  BY DEF SpawnLeaks, Fork, Safe, Types, TypeOK, Tidy
<1>2. SameInserts
  BY DoneEffect DEF SpawnLeaks, Fork, SameInserts, Safe, Types
<1>3. Tidy'
  BY <1>1 DEF Safe, Tidy, DeadHasNoProcess
<1>4. Placed'
  BY <1>1, <1>2 DEF Safe, Placed, Registered, SameInserts, Types, RequestsOK
<1>5. NoStrayChild'
  BY <1>1, <1>2, SameInsertsEffect DEF Safe, NoStrayChild, Registered
<1> QED
  BY <1>3, <1>4, <1>5 DEF Safe

\* An exit makes a zombie, which is no stray.
LEMMA ExitStep ==
  ASSUME Safe, Types', NEW s \in Session, ChildExits(s)
  PROVE  Safe'
<1>1. /\ child[s] = "running" /\ child'[s] = "zombie"
      /\ \A t \in Session \ {s} : child'[t] = child[t] /\ doomed'[t] = doomed[t]
      /\ UNCHANGED <<sessions, live, status, pc, at>>
  BY DEF ChildExits, Safe, Types, TypeOK
<1>2. Tidy'
  BY <1>1 DEF Safe, Tidy, DeadHasNoProcess
<1>3. Placed'
  BY <1>1 DEF Safe, Placed, Registered, Types, RequestsOK
<1>4. NoStrayChild'
  BY <1>1 DEF Safe, NoStrayChild, Registered, InFlight
<1> QED
  BY <1>2, <1>3, <1>4 DEF Safe

\* What inserting does: the new session is registered over one whose child
\* has been waited for, or its own child is sent a SIGKILL.
LEMMA InsertEffect ==
  ASSUME Safe, NEW r \in Req, Insert(r)
  PROVE  LET n == arg[r]  new == at[r]  old == sessions[n] IN
         /\ n \in Name /\ new \in Session
         /\ \A s \in Session :
              \/ live'[s] = live[s] /\ child'[s] = child[s] /\ status'[s] = status[s]
              \/ /\ live[s] /\ child[s] = "zombie"
                 /\ ~live'[s] /\ child'[s] = "gone" /\ status'[s] = "dead"
         /\ \A s \in Session : doomed[s] => doomed'[s]
         /\ \/ UNCHANGED sessions /\ (child[new] = "running" => doomed'[new])
            \/ sessions' = [sessions EXCEPT ![n] = new]
               /\ (old \in Session => status'[old] = "dead")
<1> DEFINE n == arg[r]  new == at[r]  old == sessions[n]
<1>1. n \in Name /\ new \in Session
  BY DEF Safe, Types, RequestsOK, Insert
<1>2. \E S : Reap(S)
  BY DEF Insert, DropNew
<1>3. \A s \in Session :
        \/ live'[s] = live[s] /\ child'[s] = child[s] /\ status'[s] = status[s]
        \/ /\ live[s] /\ child[s] = "zombie"
           /\ ~live'[s] /\ child'[s] = "gone" /\ status'[s] = "dead"
  BY <1>2, ReapEffect DEF Safe, Types
<1>4. CASE DropNew(new, old)
  BY <1>1, <1>3, <1>4 DEF DropNew, Deliver, Owners, Safe, Types, TypeOK
<1>5. CASE /\ Reap({old})
           /\ ~Taken(n)
           /\ sessions' = [sessions EXCEPT ![n] = new]
           /\ UNCHANGED doomed
  BY <1>1, <1>3, <1>5 DEF Taken
<1> QED
  BY <1>4, <1>5 DEF Insert

\* An insert registers its session or leaves it dying.
LEMMA InsertStep ==
  ASSUME Safe, Types', NEW r \in Req, Insert(r)
  PROVE  Safe'
<1> DEFINE n == arg[r]  new == at[r]  old == sessions[n]
<1>1. /\ n \in Name /\ new \in Session
      /\ \A s \in Session :
           \/ live'[s] = live[s] /\ child'[s] = child[s] /\ status'[s] = status[s]
           \/ /\ live[s] /\ child[s] = "zombie"
              /\ ~live'[s] /\ child'[s] = "gone" /\ status'[s] = "dead"
      /\ \A s \in Session : doomed[s] => doomed'[s]
      /\ \/ UNCHANGED sessions /\ (child[new] = "running" => doomed'[new])
         \/ sessions' = [sessions EXCEPT ![n] = new]
            /\ (old \in Session => status'[old] = "dead")
  BY InsertEffect
<1>2. /\ pc[r] = "insert" /\ pc'[r] = "idle"
      /\ \A q \in Req \ {r} : pc'[q] = pc[q] /\ at'[q] = at[q]
  BY DoneEffect DEF Insert, Safe, Types
<1>3. Tidy'
  BY <1>1 DEF Safe, Tidy, DeadHasNoProcess
<1>4. /\ child[new] # "none" /\ ~Registered(new)
      /\ \A q \in Req \ {r} : pc[q] = "insert" => at[q] # new
  BY <1>2 DEF Safe, Placed
<1>5. \A s \in Session : InFlight(s) => InFlight(s)' \/ s = new
  BY <1>2 DEF InFlight
<1>6. \A q \in Req : pc'[q] = "insert" =>
        q # r /\ pc[q] = "insert" /\ at'[q] = at[q] /\ at[q] \in Session /\ at[q] # new
  BY <1>2, <1>4 DEF Safe, Types, RequestsOK
<1>7. CASE UNCHANGED sessions /\ (child[new] = "running" => doomed'[new])
  <2>1. Placed'
    BY <1>1, <1>6, <1>7 DEF Safe, Placed, Registered
  <2>2. NoStrayChild'
    BY <1>1, <1>5, <1>7 DEF Safe, Tidy, NoStrayChild, Registered
  <2> QED
    BY <1>3, <2>1, <2>2 DEF Safe
<1>8. CASE sessions' = [sessions EXCEPT ![n] = new] /\ (old \in Session => status'[old] = "dead")
  <2>1. sessions'[n] = new /\ \A m \in Name \ {n} : sessions'[m] = sessions[m]
    BY <1>1, <1>8 DEF Safe, Types, TypeOK
  <2>2. \A m \in Name : sessions[m] # new
    BY <1>4 DEF Registered
  <2>3. Placed'
    <3>1. \A m \in Name : sessions'[m] \in Session => child'[sessions'[m]] # "none"
      BY <1>1, <1>4, <2>1 DEF Safe, Placed
    <3>2. \A l, m \in Name : sessions'[l] \in Session /\ sessions'[l] = sessions'[m] => l = m
      BY <2>1, <2>2 DEF Safe, Placed
    <3>3. \A q \in Req : pc'[q] = "insert" =>
             child'[at'[q]] # "none" /\ \A m \in Name : sessions'[m] # at'[q]
      BY <1>1, <1>6, <2>1 DEF Safe, Placed, Registered
    <3>4. \A p, q \in Req : pc'[p] = "insert" /\ pc'[q] = "insert" /\ at'[p] = at'[q] => p = q
      BY <1>6 DEF Safe, Placed
    <3> QED
      BY <3>1, <3>2, <3>3, <3>4 DEF Placed, Registered
  <2>4. ASSUME NEW s \in Session, live'[s], s # new
        PROVE  Registered(s)' \/ InFlight(s)' \/ doomed'[s] \/ child'[s] = "zombie"
    <3>1. live[s] /\ child'[s] = child[s]
      BY <1>1, <2>4
    <3>2. s # old
      BY <1>3, <1>8, <2>4 DEF Tidy, DeadHasNoProcess
    <3>3. Registered(s) => Registered(s)'
      BY <2>1, <3>2 DEF Registered
    <3> QED
      BY <1>1, <1>5, <2>4, <3>1, <3>3 DEF Safe, NoStrayChild
  <2>5. \E m \in Name : sessions'[m] = new
    BY <1>1, <2>1
  <2>6. NoStrayChild'
    BY <2>4, <2>5 DEF NoStrayChild, Registered
  <2> QED
    BY <1>3, <2>3, <2>6 DEF Safe
<1> QED
  BY <1>1, <1>7, <1>8

\* Every step keeps the inductive invariant, action by action.
LEMMA SafeStep == Safe /\ Types' /\ [Next]_vars => Safe'
<1> SUFFICES ASSUME Safe, Types', [Next]_vars PROVE Safe'
  OBVIOUS
<1> USE DEF reqs
<1>1. ASSUME NEW r \in Req, Start(r) PROVE Safe'
  <2>1. ASSUME NEW n \in Name, StartCheck(r, n) PROVE Safe'
    <3>1. SameInserts
      BY <2>1 DEF StartCheck, SameInserts, Safe, Types, TypeOK
    <3> QED
      BY <2>1, <3>1, ReapStep DEF StartCheck
  <2>2. CASE SpawnFails(r)
    <3>1. SameInserts
      BY <2>2, DoneEffect DEF SpawnFails, SameInserts, Safe, Types
    <3> QED
      BY <2>2, <3>1, KeepStep DEF SpawnFails
  <2> QED
    BY <1>1, <2>1, <2>2, SpawnStep, LeakStep, InsertStep DEF Start
<1>2. ASSUME NEW r \in Req, NEW n \in Name, NEW l \in Labels \ {"insert"}, NEW o, Get(r, n, l, o)
      PROVE  Safe'
  <2>1. SameInserts
    BY <1>2 DEF Get, SameInserts, Safe, Types, TypeOK
  <2> QED
    BY <1>2, <2>1, KeepStep DEF Get
<1>3. ASSUME NEW r \in Req, KillCheck(r) PROVE Safe'
  <2>1. SameInserts
    BY <1>3, DoneEffect DEF KillCheck, SameInserts, Safe, Types, TypeOK
  <2> QED
    BY <1>3, <2>1, ReapStep DEF KillCheck
<1>4. ASSUME NEW r \in Req, KillSignal(r) PROVE Safe'
  <2>1. SameInserts
    BY <1>4 DEF KillSignal, SameInserts, Safe, Types, TypeOK
  <2> QED
    BY <1>4, <2>1, KeepStep DEF KillSignal, Deliver
<1>5. ASSUME NEW r \in Req, KillReap(r) \/ LookReap(r) PROVE Safe'
  <2>1. SameInserts
    BY <1>5, DoneEffect DEF KillReap, LookReap, SameInserts, Safe, Types
  <2> QED
    BY <1>5, <2>1, ReapStep DEF KillReap, LookReap
<1>6. ASSUME NEW r \in Req, ReportCheck(r) PROVE Safe'
  <2>1. SameInserts
    BY <1>6, DoneEffect DEF ReportCheck, SameInserts, Safe, Types, TypeOK
  <2> QED
    BY <1>6, <2>1, ReapStep DEF ReportCheck
<1>7. ASSUME NEW r \in Req, ReportSet(r) PROVE Safe'
  <2>1. SameInserts
    BY <1>7, DoneEffect DEF ReportSet, SameInserts, Safe, Types
  <2>2. \A s \in Session : status'[s] = "dead" => status[s] = "dead"
    BY <1>7, ReportsAssumption DEF ReportSet, Safe, Types, TypeOK, RequestsOK
  <2> QED
    BY <1>7, <2>1, <2>2, KeepStep DEF ReportSet
<1>8. ASSUME NEW r \in Req, List(r) PROVE Safe'
  <2>1. SameInserts
    BY <1>8 DEF List, SameInserts
  <2> QED
    BY <1>8, <2>1, ReapStep DEF List
<1>9. ASSUME NEW s \in Session, Waiter(s) PROVE Safe'
  <2>1. SameInserts
    BY <1>9 DEF Waiter, SameInserts
  <2> QED
    BY <1>9, <2>1, ReapStep DEF Waiter
<1>10. CASE UNCHANGED vars
  <2>1. SameInserts
    BY <1>10 DEF vars, SameInserts
  <2> QED
    BY <1>10, <2>1, KeepStep DEF vars
<1>11. ASSUME NEW r \in Req, Kill(r) \/ Report(r) \/ Look(r) PROVE Safe'
  BY <1>2, <1>3, <1>4, <1>5, <1>6, <1>7, <1>8, <1>11
  DEF Kill, Report, Look, KillGet, ReportGet, LookGet, Labels
<1> QED
  BY <1>1, <1>9, <1>10, <1>11, ExitStep DEF Next

\* The inductive invariant behind the theorems below.
LEMMA SafeInvariant == Spec => []Safe
  BY SafeInit, SafeStep, TypesInvariant, PTL DEF Spec

(* However many starts race for a name, a session with a live child is     *)
(* registered, about to be, or its child is dying.                         *)
THEOREM NoChildIsStray == Spec => []NoStrayChild
  BY SafeInvariant, PTL DEF Safe

(* A session called dead has been waited for, for any interleaving of the  *)
(* requests and waiters that reap it.                                      *)
THEOREM DeadMeansReaped == Spec => []DeadHasNoProcess
<1>1. Safe => DeadHasNoProcess
  BY DEF Safe, Tidy
<1> QED
  BY <1>1, SafeInvariant, PTL

-----------------------------------------------------------------------------
(* The table implements Registry.                                          *)

Running == {s \in Session : child[s] = "running"}
Over    == {s \in Session : child[s] \in {"zombie", "gone"}}

\* Reaping turns zombies into nothing: no process starts or ends by it.
LEMMA ReapKeepsProcesses ==
  ASSUME TypeOK, NEW S, Reap(S) PROVE Running' = Running /\ Over' = Over
  BY ReapEffect DEF Running, Over

(* For any names, requests, sessions and pids: a name passes to another    *)
(* session only after the process of the session it named has ended.       *)
THEOREM Refinement == Spec => ImplementsRegistry
<1> USE DEF Running, Over
<1>1. Init => Abstract!Init
  BY DEF Init, Abstract!Init
<1>2. Safe /\ [Next]_vars => [Abstract!Next]_(Abstract!vars)
  <2> SUFFICES ASSUME Safe, [Next]_vars PROVE [Abstract!Next]_(Abstract!vars)
    OBVIOUS
  <2> USE DEF reqs
  <2>1. ASSUME UNCHANGED sessions, UNCHANGED child \/ \E S : Reap(S)
        PROVE  UNCHANGED Abstract!vars
    <3>1. Running' = Running /\ Over' = Over
      BY <2>1, ReapKeepsProcesses DEF Safe, Types
    <3> QED
      BY <2>1, <3>1 DEF Abstract!vars
  <2>2. ASSUME NEW r \in Req, NEW s \in Session, NEW p \in Pid, Fork(r, s, p)
        PROVE  Abstract!Fork(s)
    <3>1. child[s] = "none" /\ child' = [child EXCEPT ![s] = "running"] /\ UNCHANGED sessions
      BY <2>2 DEF Fork
    <3>2. s \notin Running \cup Over /\ Running' = Running \cup {s} /\ Over' = Over
      BY <3>1 DEF Safe, Types, TypeOK
    <3> QED
      BY <3>1, <3>2 DEF Abstract!Fork
  <2>3. ASSUME NEW s \in Session, ChildExits(s) PROVE Abstract!Exit(s)
    <3>1. child[s] = "running" /\ child' = [child EXCEPT ![s] = "zombie"] /\ UNCHANGED sessions
      BY <2>3 DEF ChildExits
    <3>2. s \in Running /\ Running' = Running \ {s} /\ Over' = Over \cup {s}
      BY <3>1 DEF Safe, Types, TypeOK
    <3> QED
      BY <3>1, <3>2 DEF Abstract!Exit
  <2>4. ASSUME NEW r \in Req, Insert(r)
        PROVE  UNCHANGED Abstract!vars \/ Abstract!Register(arg[r], at[r])
    <3> DEFINE n == arg[r]  new == at[r]  old == sessions[n]
    <3>1. Running' = Running /\ Over' = Over
      BY <2>4, ReapKeepsProcesses DEF Insert, DropNew, Safe, Types
    <3>2. CASE UNCHANGED sessions
      BY <3>1, <3>2 DEF Abstract!vars
    <3>3. CASE sessions' = [sessions EXCEPT ![n] = new] /\ (old \in Session => status'[old] = "dead")
      <4>1. n \in Name /\ new \in Session
        BY <2>4, InsertEffect
      <4>2. new \in Running \cup Over /\ \A m \in Name : sessions[m] # new
        BY <2>4, <4>1 DEF Insert, Safe, Placed, Registered, Types, TypeOK
      <4>3. old \in Session => old \in Over
        BY <2>4, <3>3, InsertEffect DEF Safe, Tidy, DeadHasNoProcess
      <4>4. old \in Over \cup {None}
        BY <4>1, <4>3 DEF Safe, Types, TypeOK
      <4> QED
        BY <3>1, <3>3, <4>1, <4>2, <4>4 DEF Abstract!Register
    <3> QED
      BY <2>4, <3>2, <3>3, InsertEffect
  <2>5. ASSUME NEW r \in Req, Start(r) PROVE [Abstract!Next]_(Abstract!vars)
    <3>1. ASSUME NEW n \in Name, StartCheck(r, n) PROVE UNCHANGED Abstract!vars
      BY <2>1, <3>1 DEF StartCheck
    <3>2. ASSUME SpawnFails(r) PROVE UNCHANGED Abstract!vars
      BY <2>1, <3>2 DEF SpawnFails
    <3>3. ASSUME NEW s \in Session, NEW p \in Pid, Spawn(r, s, p) \/ SpawnLeaks(r, s, p)
          PROVE  Abstract!Fork(s)
      BY <2>2, <3>3 DEF Spawn, SpawnLeaks
    <3>4. ASSUME Insert(r) PROVE UNCHANGED Abstract!vars \/ Abstract!Next
      <4>1. arg[r] \in Name /\ at[r] \in Session
        BY <3>4, InsertEffect
      <4> QED
        BY <2>4, <3>4, <4>1 DEF Abstract!Next
    <3> QED
      BY <2>5, <3>1, <3>2, <3>3, <3>4 DEF Start, Abstract!Next
  <2>6. ASSUME NEW r \in Req, Kill(r) \/ Report(r) \/ Look(r) PROVE UNCHANGED Abstract!vars
    BY <2>1, <2>6
    DEF Kill, KillGet, KillCheck, KillSignal, KillReap, Get, Report, ReportGet, ReportCheck,
        ReportSet, Look, LookGet, LookReap, List
  <2>7. ASSUME NEW s \in Session, Waiter(s) PROVE UNCHANGED Abstract!vars
    BY <2>1, <2>7 DEF Waiter
  <2>8. ASSUME UNCHANGED vars PROVE UNCHANGED Abstract!vars
    BY <2>1, <2>8 DEF vars
  <2> QED
    BY <2>3, <2>5, <2>6, <2>7, <2>8 DEF Next, Abstract!Next
<1> QED
  BY <1>1, <1>2, SafeInvariant, PTL DEF Spec, ImplementsRegistry, Abstract!Spec
=============================================================================
