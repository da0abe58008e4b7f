----------------------------- MODULE MCResolver -----------------------------
(* Resolver and Materialize for TLC: four mods of the providers, one known *)
(* by its file.                                                            *)
EXTENDS Materialize, TLC

CONSTANTS p1, p2, p3, p4, f1

MCProjects == {p1, p2, p3, p4}
MCFiles == {f1}

\* One or two mods of the providers; the file is built in-house, unknown or not there.
MCSeedLists == {<<p1>>, <<p1, p2>>}
MCBuiltLists == {<<>>, <<f1>>}

\* Up to two dependencies, in either order; a mod may name itself.
MCDepLists ==
    {<<>>} \cup {<<d>> : d \in MCProjects}
      \cup {s \in MCProjects \X MCProjects : s[1] # s[2]}

MCSkips == {{}, {p2}, {p3}, {p4}}
MCPolicies == {"drop", "ask", "fail"}

\* The operator goes on with a report without losses, of two mods or one.
MCChosen(r) ==
    /\ r.policy = "ask" /\ r.status = "complete" /\ r.skipped = {}
    /\ r.shipped \in {{p1, p2}, {p1, f1}}

MCUnhashed == {p2}
MCCap == [api |-> 1, download |-> 1]

\* Neither the seed nor an override tells p3 from p4.
Symmetric == Permutations({p3, p4})
=============================================================================
