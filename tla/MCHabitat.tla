------------------------------ MODULE MCHabitat ------------------------------
(* Two runs of one name and two attach commands. *)
EXTENDS Habitat
===============================================================================
