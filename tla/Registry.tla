------------------------------- MODULE Registry -------------------------------
(***************************************************************************)
(* What the session table promises about processes, whatever the requests  *)
(* do and however they interleave: every session runs one process once,    *)
(* and a name passes to another session only after the process of the      *)
(* session it named has ended. Two processes never answer to one name, and *)
(* none is replaced while it runs.                                         *)
(***************************************************************************)
CONSTANTS Name, Session, None

VARIABLES
  holder,   \* the session each name stands for
  running,  \* the sessions whose process runs
  over      \* the sessions whose process has ended

vars == <<holder, running, over>>

Init ==
  /\ holder  = [n \in Name |-> None]
  /\ running = {}
  /\ over    = {}

Fork(s) ==
  /\ s \notin running \cup over
  /\ running' = running \cup {s}
  /\ UNCHANGED <<holder, over>>

Exit(s) ==
  /\ s \in running
  /\ running' = running \ {s}
  /\ over'    = over \cup {s}
  /\ UNCHANGED holder

Register(n, s) ==
  /\ s \in running \cup over
  /\ \A m \in Name : holder[m] # s
  /\ holder[n] \in over \cup {None}
  /\ holder' = [holder EXCEPT ![n] = s]
  /\ UNCHANGED <<running, over>>

Next ==
  \E s \in Session :
    \/ Fork(s)
    \/ Exit(s)
    \/ \E n \in Name : Register(n, s)

Spec == Init /\ [][Next]_vars
=============================================================================
