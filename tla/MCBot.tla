-------------------------------- MODULE MCBot --------------------------------
(* Bot for TLC: two interactions and one notification.                     *)
EXTENDS Bot

CONSTANTS i1, i2, n1

MCInteractions == {i1, i2}
MCNotices == {n1}
=============================================================================
