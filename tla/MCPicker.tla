------------------------------- MODULE MCPicker -------------------------------
(* Small instances of Picker for TLC. The sample configuration of the README *)
(* binds k; g stands for its other keys.                                      *)
EXTENDS Picker, TLC

SampleJumps == ("k" :> 1) @@ ("g" :> 2)
=============================================================================
