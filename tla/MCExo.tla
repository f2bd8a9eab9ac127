------------------------------- MODULE MCExo -------------------------------
(* Model-checking instance of the EXO library and the kernels written with   *)
(* it: two strings over two characters, and inputs of up to six values or    *)
(* eight bits.  The two do not interact; part is the one a behaviour is      *)
(* about.                                                                    *)
EXTENDS ExoString, GraphKernels

VARIABLE part

ExoInit == part \in {"strings", "kernels"} /\ StringInit /\ KernelInit

ExoNext ==
  /\ UNCHANGED part
  /\ \/ part = "strings" /\ StringNext /\ UNCHANGED input
     \/ part = "kernels" /\ KernelNext /\ UNCHANGED str

ExoSpec == ExoInit /\ [][ExoNext]_<<part, str, input>>
=============================================================================
