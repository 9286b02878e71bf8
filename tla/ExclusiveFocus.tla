---------------------------- MODULE ExclusiveFocus ----------------------------
(***************************************************************************)
(* What attach promises about one session: at most one client holds the    *)
(* focus; a new client takes it from whoever holds it; a client loses it   *)
(* only to a new one or by leaving itself, and never gets it back. Clients *)
(* may leave together, as all of them do when their daemon ends.           *)
(***************************************************************************)
CONSTANTS Client, None

VARIABLES
  holder,  \* the client with the focus
  came,    \* the clients that have had the focus
  left     \* the clients that have left

vars == <<holder, came, left>>

Init == holder = None /\ came = {} /\ left = {}

Take(c) ==
  /\ c \notin came \cup left
  /\ holder' = c
  /\ came'   = came \cup {c}
  /\ UNCHANGED left

Leave(C) ==
  /\ C \subseteq came \ left
  /\ left'   = left \cup C
  /\ holder' = IF holder \in C THEN None ELSE holder
  /\ UNCHANGED came

Next ==
  \/ \E c \in Client : Take(c)
  \/ \E C \in SUBSET Client : Leave(C)

Spec == Init /\ [][Next]_vars
=============================================================================
