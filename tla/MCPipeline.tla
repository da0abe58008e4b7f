---- MODULE MCPipeline ----
\* Two servers under one operator: full, targeted, resource-pack and dry runs; the
\* members are numbered in the order of their names.
EXTENDS Pipeline

Request(scopes, part, targeted, required) ==
    [scopes |-> scopes, part |-> part, targeted |-> targeted, mode |-> "legacy",
     dry |-> FALSE, notify |-> TRUE, required |-> required]

RequestsDef ==
    {[Request(Scopes, Members, FALSE, TRUE) EXCEPT !.mode = "release"],
     [Request({"server"}, {1}, TRUE, FALSE) EXCEPT !.notify = FALSE],
     Request({"client", "resource_pack"}, Members, FALSE, FALSE),
     [Request(Scopes, Members, FALSE, TRUE) EXCEPT !.dry = TRUE]}

MembersDef == {1, 2}

\* Both servers can be reached over RCON, or only the second.
PortMapsDef == {<<1, 1>>, <<0, 1>>}
====
