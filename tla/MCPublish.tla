----------------------------- MODULE MCPublish -----------------------------
(* Publish and Pull for TLC: two publishers, two releases.                   *)
EXTENDS Pull, TLC

CONSTANTS p1, p2, r1, r2

MCPublisher == {p1, p2}
MCRelease == {r1, r2}
MCPulled == {r1}

Symmetric == Permutations(MCPublisher)
=============================================================================
