------------------------------- MODULE MCRound -------------------------------
(* Instances of MixRound for TLC. *)
EXTENDS MixRound, TLC

CONSTANTS p1, p2, p3

\* Two non-conforming participants; the third, where there is one, brings a
\* conforming coin and owes no fee.  In a run of two only the first has a
\* Lightning address.
Everyone == {p1, p2, p3}
TwoNC == {p1, p2}
OnlyP1 == {p1}
OnlyP3 == {p3}
NobodyConforms == {}
ThreeNC == {p1, p2, p3}
Pair == {p1, p2}

Symmetric == Permutations({p1, p2})
=============================================================================
