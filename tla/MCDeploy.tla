------------------------------ MODULE MCDeploy ------------------------------
(* Deploy for TLC: the release installed at first, an upgrade, two containers, *)
(* and two daemons over one lock, one journal and one directory of mods.  The  *)
(* first daemon deploys without end as long as it is alone; the two together   *)
(* accept at most two requests.                                                *)
EXTENDS Deploy, Naturals

CONSTANTS d1, d2, r0, u1, c1, c2

VARIABLE accepted       \* requests accepted by each daemon, counted up to two

MCProc == {d1, d2}
MCRelease == {r0, u1}
MCContainer == {c1, c2}
MCUpgrade == {u1}

MCInit == Init /\ accepted = [p \in {d1, d2} |-> 0]

Few == accepted[d1] + accepted[d2] < 2
Alone == accepted[d2] = 0

MCNext == \/ \E p \in Proc :
                /\ Few \/ (p = d1 /\ Alone)
                /\ \E r \in Release : Request(p, r)
                /\ accepted' = [accepted EXCEPT ![p] = IF @ = 2 THEN 2 ELSE @ + 1]
          \/ /\ \/ \E p \in Proc : Step(p) \/ Crash(p)
                \/ Age \/ ForceRelease \/ Resolve
                \/ \E c \in Container : Save(c)
             /\ UNCHANGED accepted

MCFairness == \A p \in Proc : WF_<<vars, accepted>>(Step(p) /\ UNCHANGED accepted)

MCSpec == MCInit /\ [][MCNext]_<<vars, accepted>> /\ MCFairness
=============================================================================
