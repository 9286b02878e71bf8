----------------------------- MODULE MCClientTty -----------------------------
(* Small instances of ClientTty for TLC. *)
EXTENDS ClientTty
=============================================================================
