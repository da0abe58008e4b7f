---- MODULE MCScopes ----
\* A member whose config tree is merged and one whose is replaced, three jars, two config
\* files of which one is protected, one script.
EXTENDS Scopes, TLC

\* Jar 1 is for both sides, and its index entry requires 2, which was marked by hand for the
\* client and whose manifest requires 3 on a server; 3 names no valid side, and its
\* manifest requires 1 on a client.
MCJars == {1, 2, 3}
MCDeclared == <<"both", "both", "odd">>
MCManual == <<"none", "client", "none">>
MCSlipSide == <<"both", "server", "client">>
MCIndexDeps == <<{2}, {}, {}>>
MCJarDeps == [server |-> <<{}, {3}, {}>>, client |-> <<{}, {}, {1}>>]

MCConfigMode == <<"merge", "delete">>
MCDeletions == <<{{4}, {5}}, {{4, 5}}>>
MCPolicy == [f \in 1..6 |-> IF f \in MCJars THEN "restart" ELSE IF f = 5 THEN "none" ELSE "reload"]

MCRequests ==
    {[scopes |-> Scoped, part |-> {1, 2}, targeted |-> FALSE, slip |-> FALSE],
     [scopes |-> Scoped, part |-> {1, 2}, targeted |-> FALSE, slip |-> TRUE],
     [scopes |-> {"server", "resource_pack"}, part |-> {1}, targeted |-> TRUE, slip |-> FALSE],
     [scopes |-> {"server", "resource_pack"}, part |-> {}, targeted |-> TRUE, slip |-> FALSE]}
=============================================================================
