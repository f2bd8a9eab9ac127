------------------------------ MODULE MCPacket ------------------------------
\* MojoVPacket with a contract of each two-block format; the fast one is that
\* of a hart whose contract was reset.
EXTENDS MojoVPacket, TLC

CONSTANTS c1, c2, zero

MCLoadable == {[key |-> c1, csig |-> c1, format_sel |-> FORMAT_SEL_PROOFCARRYING],
               [key |-> c2, csig |-> c2, format_sel |-> FORMAT_SEL_STRONG]}
MCZeroDc == [key |-> zero, csig |-> zero, format_sel |-> FORMAT_SEL_FAST]
HashSymmetry == Permutations(Ids)
=============================================================================
