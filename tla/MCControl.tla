------------------------------ MODULE MCControl ------------------------------
(* Model-checking instance of MojoVControl: a public key of one window, an   *)
(* encapsulated key of two, a contract of two one-window cipher blocks.     *)
EXTENDS MojoVControl, TLC

CONSTANTS c1, c2

MCFormatOf == c1 :> FORMAT_SEL_PROOFCARRYING @@ c2 :> FORMAT_SEL_FAST
=============================================================================
