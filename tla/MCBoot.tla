------------------------------- MODULE MCBoot -------------------------------
(* Model-checking instance of MojoVBoot: two contracts, a key of two windows *)
(* and a contract of three cipher blocks, texts one word short to one long.  *)
EXTENDS MojoVBoot, TLC

CONSTANTS c1, c2

MCFormatOf == c1 :> FORMAT_SEL_PROOFCARRYING @@ c2 :> FORMAT_SEL_STRONG
=============================================================================
