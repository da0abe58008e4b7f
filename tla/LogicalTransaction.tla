-------------------------- MODULE LogicalTransaction --------------------------
(* What a shipping transaction promises its caller: the directory's inventory *)
(* ends either as the caller asked or as it was, and a transaction that cannot *)
(* keep that promise (rollback failed, an exception escaped, the process died) *)
(* leaves each file in one of those two states.                                *)
(* External to the code: Shipping implements it (see Shipping!Logical).        *)
CONSTANTS File, Sha, Absent, Protected

VARIABLES
    wanted,     \* the files the caller asks for, with their hashes
    phase,      \* "open", then "committed", "aborted" or "torn"
    inventory   \* the hash of each file of the directory, or Absent

vars == <<wanted, phase, inventory>>

Init == /\ wanted \in [File -> Sha \cup {Absent}]
        /\ phase = "open"
        /\ inventory \in [File -> Sha \cup {Absent}]

Commit == /\ phase = "open"
          /\ phase' = "committed"
          /\ UNCHANGED wanted
          /\ inventory' = [f \in File |->
                 IF wanted[f] = Absent /\ f \in Protected
                 THEN inventory[f] ELSE wanted[f]]

Abort == /\ phase = "open"
         /\ phase' = "aborted"
         /\ UNCHANGED <<wanted, inventory>>

Tear == /\ phase = "open"
        /\ phase' = "torn"
        /\ UNCHANGED wanted
        /\ inventory' \in [File -> Sha \cup {Absent}]
        /\ \A f \in File : inventory'[f] \in {inventory[f], wanted[f]}

Next == Commit \/ Abort \/ Tear

Spec == Init /\ [][Next]_vars
=============================================================================
