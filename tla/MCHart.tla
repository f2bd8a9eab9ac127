------------------------------- MODULE MCHart -------------------------------
\* MojoVHart with a handful of registers and two contracts.
EXTENDS MojoVHart

CONSTANTS k1, zero

MCLoadable == {[key |-> k1, csig |-> k1, format_sel |-> f] : f \in {0, 2}}
MCZeroDc == [key |-> zero, csig |-> zero, format_sel |-> 0]
=============================================================================
