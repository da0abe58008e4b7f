------------------------------ MODULE MCHealth ------------------------------
(* Health for TLC: two containers.                                         *)
EXTENDS Health

CONSTANTS c1, c2

MCSpecs == <<c1, c2>>
=============================================================================
