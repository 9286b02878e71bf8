------------------------------- MODULE MCLaunch -------------------------------
(* Two names, one of them configured; a vendor with resume arguments and one *)
(* without; two hooks or attaching clients at a time.                        *)
EXTENDS Launch, TLC

CONSTANTS n1, n2, w1, w2

Writers == Permutations({w1, w2})

TwoSessions == <<[name |-> n1, prog |-> "claude"], [name |-> n2, prog |-> "pi"]>>
===============================================================================
