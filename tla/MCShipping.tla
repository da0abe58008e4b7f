----------------------------- MODULE MCShipping -----------------------------
(* Shipping for TLC: three jars, two hashes, the last jar protected. *)
EXTENDS Shipping

CONSTANTS f1, f2, f3, h1, h2

MCFile == {f1, f2, f3}
MCSha == {h1, h2}
MCProtected == {f3}
=============================================================================
