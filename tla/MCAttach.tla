------------------------------- MODULE MCAttach -------------------------------
(* Small instances of Attach for TLC: the clients are model values and the *)
(* bounds are given in the .cfg files.                                     *)
EXTENDS Attach
=============================================================================
