---- MODULE MCUpgrade ----
\* One run and one tag; an interaction delivered by two processes, and again later,
\* beside the operator's own decisions.
EXTENDS Upgrade, TLC

CONSTANTS d1, d2, m1, m2

Symmetry == Permutations({d1, d2}) \cup Permutations({m1, m2})
====
