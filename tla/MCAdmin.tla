------------------------------ MODULE MCAdmin ------------------------------
(* Admin for TLC: two requests in flight, two keys, two releases.            *)
EXTENDS Admin, TLC

CONSTANTS q1, q2, k1, k2, r1, r2

MCRequest == {q1, q2}
MCKey == {k1, k2}
MCRelease == {r1, r2}
MCBody == {r2, Stable}
MCSymmetry == Permutations(MCRequest) \cup Permutations(MCKey)
=============================================================================
