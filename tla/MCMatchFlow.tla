----------------------------- MODULE MCMatchFlow -----------------------------
EXTENDS MatchFlow, TLC

CONSTANTS me, p1, p2

Two == {p1, p2}
Symmetry == Permutations(Two)
One == {p1}
=============================================================================
