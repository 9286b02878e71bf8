------------------------------- MODULE MCFrame -------------------------------
(* Small instances of Frame for TLC. *)
EXTENDS Frame

SmallSizes == {<<2, 1>>, <<2, 2>>, <<1, 3>>}
FirstSize  == <<2, 2>>
=============================================================================
