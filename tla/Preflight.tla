----------------------------- MODULE Preflight -----------------------------
(***************************************************************************)
(* The preflight of a deploy_pack run: what is checked before anything is   *)
(* touched, the states of the containers that the rest of the run trusts,   *)
(* and the plan (deploy_pack/preflight/, main.py, docker_runtime.py).       *)
(*                                                                         *)
(* A check that fails ends the run with 3.  The code collects the failures  *)
(* that it can find independently and raises them together; nothing is done *)
(* between them, so that here each ends the run on its own.                 *)
(***************************************************************************)
EXTENDS Integers, Sequences, FiniteSets

CONSTANTS
    Members,        \* the configured instances, ordered as their names are
    Requests,       \* the command lines an operator may run
    ConfAction,     \* what [restart_policy] says of a changed config file
    RemoteRcon,     \* [docker].rcon_host is set: RCON goes to another host
    PortMaps        \* how often each member publishes its RCON port, the cases

Scopes == {"server", "client", "resource_pack"}

RequestsOfMembers ==
    [scopes : SUBSET Scopes, part : SUBSET Members, targeted : BOOLEAN,
     mode : {"legacy", "release", "integration"},
     dry : BOOLEAN, notify : BOOLEAN, required : BOOLEAN]

ASSUME PreflightAssumption ==
    /\ Members \subseteq Nat
    /\ Requests \subseteq RequestsOfMembers
    /\ \A q \in Requests : ~q.targeted => q.part = Members
    /\ ConfAction \in {"none", "reload", "restart"}
    /\ RemoteRcon \in BOOLEAN
    /\ PortMaps \subseteq [Members -> Nat]

VARIABLES
    \* the host
    up,             \* the containers that run
    published,      \* how often each member publishes its RCON port
    source,         \* version of each kind of file that a run would deploy
    mods,           \* version of the shared mods directory
    conf,           \* version of each member's config tree
    props,          \* pack version each member's server.properties names
    \* the run
    pc, todo, run, exit,
    seen,           \* the members captured as running
    unsettled,      \* the members found restarting
    restartSet, reloadSet,
    transport       \* how each member's RCON is reached, chosen once

captured == <<seen, unsettled>>
chosen == <<restartSet, reloadSet>>
planVars == <<run, captured, chosen, transport>>

\* Members are walked in the order of the partition, which is sorted.
IsNext(m) == m \in todo /\ \A k \in todo : m <= k

Return(code) == pc' = "idle" /\ todo' = {} /\ exit' = code

Goes(to, next) == pc' = to /\ todo' = next /\ UNCHANGED exit

-----------------------------------------------------------------------------
(* The command line. *)

\* _validate_args: there is a scope, and --instance needs one that has members.
ValidRequest(q) ==
    /\ q.scopes # {}
    /\ q.targeted => q.scopes \cap {"server", "resource_pack"} # {}

\* Containers are inspected only for a scope that may touch a server; every
\* member has a resource pack here.
NeedsLifecycle(q) == q.scopes \cap {"server", "resource_pack"} # {}

-----------------------------------------------------------------------------
(* What is checked before any container is looked at. *)

\* The process ends with 3, and what it had found out is gone.
Refuse ==
    /\ Return("3")
    /\ seen' = {} /\ unsettled' = {} /\ restartSet' = {} /\ reloadSet' = {}
    /\ UNCHANGED transport

\* The configuration does not load.
ConfigFails == pc = "load" /\ Refuse

\* The pointer, the slip or HEAD cannot be read, or a tree that an integration run
\* takes from the working directory has uncommitted changes.
SlipContextFails == pc = "load" /\ run.mode # "legacy" /\ Refuse

\* An artifact of the release or candidate is missing or has another hash.
SlipArtifactsFail == pc = "load" /\ run.mode # "legacy" /\ Refuse

\* The slip is not for this deployment: image or platform; for a release also the
\* state of the working directory and the hashes of the trees at HEAD.
SlipIncompatible == pc = "load" /\ run.mode # "legacy" /\ Refuse

\* An instance is unknown, compose cannot be loaded, or there is no web directory.
TopLevelFails ==
    /\ pc = "load"
    /\ run.targeted \/ NeedsLifecycle(run) \/ run.scopes \cap {"client", "resource_pack"} # {}
    /\ Refuse

\* A member has no service, no /data bind or no health check.
ComposeFails == pc = "load" /\ NeedsLifecycle(run) /\ run.part # {} /\ Refuse

\* The members do not share one mods directory; a targeted run does not ask.
ModsDirFails == pc = "load" /\ "server" \in run.scopes /\ ~run.targeted /\ Refuse

\* The configuration, the slip and the compose file are in order.
Load ==
    /\ pc = "load"
    /\ IF NeedsLifecycle(run) THEN Goes("inspect", run.part) ELSE Goes("check", {})
    /\ UNCHANGED <<captured, chosen, transport>>

-----------------------------------------------------------------------------
(* The containers. *)

\* Docker reports State.Running of a container that is restarting, too.
Inspect(m) ==
    /\ pc = "inspect" /\ IsNext(m)
    /\ Goes("inspect", todo \ {m})
    /\ \/ seen' = seen \cup ({m} \cap up) /\ unsettled' = unsettled
       \/ m \in up /\ unsettled' = unsettled \cup {m} /\ seen' = seen
    /\ UNCHANGED <<chosen, transport>>

\* The container cannot be read.
InspectFails(m) == pc = "inspect" /\ IsNext(m) /\ Refuse

\* The bounded wait reads each member until it does not restart, or the time is over.
Settled == unsettled \cap up

\* The members found restarting, and only they, are read again.
Settle ==
    /\ pc = "inspect" /\ todo = {}
    /\ Goes("check", {})
    /\ seen' = seen \cup Settled
    /\ unsettled' = {}
    /\ UNCHANGED <<chosen, transport>>

\* A member is missing, paused, dead, still restarting, or has no health state.
StateFails == pc = "check" /\ NeedsLifecycle(run) /\ Refuse

\* The mounts of a container are not those of the compose file.
DriftFails == pc = "check" /\ NeedsLifecycle(run) /\ Refuse

\* The source of a pack is missing; a slip's sources were checked at its load.
PackSourceFails ==
    pc = "check" /\ "resource_pack" \in run.scopes /\ run.mode = "legacy" /\ Refuse

\* The live template or, unless the run is dry, the failure template is malformed.
TemplateFails == pc = "check" /\ run.notify /\ Refuse

-----------------------------------------------------------------------------
(* The plan. *)

Rank(a) == CASE a = "none" -> 0 [] a = "reload" -> 2 [] a = "restart" -> 4

\* sticky_max, without the +pack marker, which only reaches a warning.
StickyMax(as) ==
    IF as = {} THEN "none" ELSE CHOOSE a \in as : \A b \in as : Rank(b) <= Rank(a)

\* The action a changed path of the server scope asks for.
ServerAction(m, q) ==
    StickyMax((IF conf[m] # source.conf THEN {ConfAction} ELSE {})
              \cup (IF ~q.targeted /\ mods # source.mods THEN {"restart"} ELSE {}))

ResourcePackAction(m) == IF props[m] # source.pack THEN "restart" ELSE "none"

EffectiveAction(m, q) ==
    StickyMax((IF "server" \in q.scopes THEN {ServerAction(m, q)} ELSE {})
              \cup (IF "resource_pack" \in q.scopes THEN {ResourcePackAction(m)} ELSE {}))

\* No check failed: the plan is made.
Plan ==
    /\ pc = "check"
    /\ restartSet' = {m \in run.part : EffectiveAction(m, run) = "restart"}
    /\ reloadSet' = {m \in run.part : EffectiveAction(m, run) = "reload"}
    /\ Goes("rcon", {})
    /\ UNCHANGED <<captured, transport>>

-----------------------------------------------------------------------------
(* RCON. *)

\* published_ports: a container that does not run publishes none.
Published(m) == IF m \in up THEN published[m] ELSE 0

\* select_rcon_transport: TCP over the one published port, or rcon-cli in the
\* container where there is none and the host is this one.
TransportOf(m) ==
    CASE Published(m) = 1 -> "tcp"
      [] Published(m) = 0 /\ ~RemoteRcon -> "exec"
      [] OTHER -> "none"

\* Mutation of Unreachable: the members the plan reloads are checked.
UnreachableOfReload == {m \in reloadSet \cap seen : TransportOf(m) = "none"}

\* check_rcon_available: only for members captured as running that are to restart.
Unreachable == {m \in restartSet \cap seen : TransportOf(m) = "none"}

RconFails == pc = "rcon" /\ ~run.dry /\ Unreachable # {} /\ Refuse

\* The template of the second notification, where one is going to be sent.
OnlineTemplateFails ==
    pc = "rcon" /\ ~run.dry /\ run.notify /\ restartSet \cap seen # {} /\ Refuse

\* The run has a plan.
Ready ==
    /\ pc = "rcon"
    /\ run.dry \/ Unreachable = {}
    /\ Goes("ready", {})
    /\ UNCHANGED <<captured, chosen, transport>>

\* _RconSet: the transport of every configured instance is chosen for the whole run,
\* by what its container publishes now; one that has none stays without.
Connects == transport' = [m \in Members |-> TransportOf(m)]

\* RconTransport.execute: it does not raise, and only a running container answers.
Answers(m) == m \in up /\ transport[m] # "none"

-----------------------------------------------------------------------------
MemberCheck(m) == Inspect(m) \/ InspectFails(m)

PreflightStep ==
    /\ \/ ConfigFails \/ SlipContextFails \/ SlipArtifactsFail \/ SlipIncompatible
       \/ TopLevelFails \/ ComposeFails \/ ModsDirFails \/ Load
       \/ \E m \in Members : MemberCheck(m)
       \/ Settle \/ StateFails \/ DriftFails \/ PackSourceFails \/ TemplateFails
       \/ Plan \/ RconFails \/ OnlineTemplateFails \/ Ready
    /\ UNCHANGED <<up, published, source, mods, conf, props, run>>
=============================================================================
