----------------------------- MODULE MCDisclose -----------------------------
\* MojoVDisclose with two secret registers, a public one, and two grants: the
\* difference of two inputs, and of an input and a constant.
EXTENDS MojoVDisclose

CONSTANTS c1, zero, p0, p1, x5, b1, b2, w1

MCLoadable == {[key |-> c1, csig |-> c1, format_sel |-> FORMAT_SEL_PROOFCARRYING]}
MCZeroDc == [key |-> zero, csig |-> zero, format_sel |-> 0]
MCGrantedTerms == {Applied(<<"sub", p0, p0, p1>>, Leaf(b1), Leaf(b2)),
                   Applied(<<"sub", p0, p0, x5>>, Leaf(b1), Word(w1))}
MCOwnerTerms == {Leaf(b1), Leaf(b2), Word(w1)} \cup MCGrantedTerms
=============================================================================
