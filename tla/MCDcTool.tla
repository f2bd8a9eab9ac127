------------------------------ MODULE MCDcTool ------------------------------
(* Model-checking instance of DcTool: two tool processes, two key pairs, two *)
(* contracts of different formats, a key of one window and two blocks.       *)
EXTENDS DcTool, TLC

CONSTANTS c1, c2

ToolSymmetry == Permutations(Jobs) \cup Permutations(KeyPairs)

MCFormatOf == c1 :> 0 @@ c2 :> 2
=============================================================================
