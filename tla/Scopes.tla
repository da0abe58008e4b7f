------------------------------- MODULE Scopes -------------------------------
(***************************************************************************)
(* What one invocation of `deploy_pack` plans and writes, file by file:    *)
(* the sides of the jars (deps.py, overrides.py), the changes that the     *)
(* preflight announces and the action they ask for (preflight/changes.py,  *)
(* actions.py), and the three scopes that write (scope_server.py,          *)
(* scope_client.py, scope_resource_pack.py, files.py, properties.py).      *)
(*                                                                         *)
(* `Pipeline` has the containers and one version per kind of file; here    *)
(* are the files, and no containers.  Nothing locks the trees: sources     *)
(* are edited, servers and people write into the destinations, single      *)
(* copies fail and are skipped, and the process may die between any two    *)
(* steps.  The files are numbered in the order of their names.             *)
(***************************************************************************)
EXTENDS Integers, FiniteSets

CONSTANTS
    Members,        \* the configured instances, ordered as their names are
    Jars,           \* jars with an index entry
    Configs,        \* files of the config tree
    Scripts,        \* files of the KubeJS tree
    ProtectedFiles, \* files that a protect pattern matches
    Declared,       \* side in the index, "odd" for one outside the valid set
    Manual,         \* side in [by_id] or [by_filename] of the overrides, or "none"
    Answers,        \* what may be answered about an unmarked jar
    SlipSide,       \* side that a slip gives each jar
    IndexDeps,      \* jars that the index entry of a jar requires
    JarDeps,        \* the same of its own manifest, by side
    ConfigMode,     \* clean mode of each member's config tree
    Deletions,      \* a slip's config_deletions: a file, or the files of a directory
    Policy,         \* action that [restart_policy] asks for a changed file
    Requests,       \* the command lines an operator may run
    Values,         \* what a file or a setting can be
    MaxRuns,        \* bound: invocations
    MaxEvents       \* bound: edits, foreign writes, failures and crashes

Files == Jars \cup Configs \cup Scripts
Sides == {"client", "server", "both"}
Scoped == {"server", "client", "resource_pack"}
Actions == {"none", "reload", "restart"}

Missing == -1       \* no such file
Torn == -2          \* the rest of a copy that was cut off
Unscanned == {-1}   \* no manifest was read yet by this process

\* The shared mods directory belongs to no member.
Mods == <<0, "mods">>
Tree == {Mods} \cup (Members \X {"config", "kubejs"})

ASSUME ScopesAssumption ==
    /\ Members \subseteq Nat \ {0}
    /\ Files \subseteq Nat /\ IsFiniteSet(Files)
    /\ Jars \cap Configs = {} /\ Jars \cap Scripts = {} /\ Configs \cap Scripts = {}
    /\ ProtectedFiles \subseteq Files
    /\ Declared \in [Jars -> Sides \cup {"odd"}]
    /\ Manual \in [Jars -> Sides \cup {"skipped", "none"}]
    /\ Answers \subseteq Sides \cup {"skipped"}
    /\ SlipSide \in [Jars -> Sides]
    /\ IndexDeps \in [Jars -> SUBSET Jars]
    /\ JarDeps \in [{"client", "server"} -> [Jars -> SUBSET Jars]]
    /\ ConfigMode \in [Members -> {"merge", "delete"}]
    /\ Deletions \in [Members -> SUBSET SUBSET Configs]
    /\ Policy \in [Files -> Actions]
    /\ Values \subseteq Nat /\ 0 \in Values
    /\ Requests \subseteq [scopes : SUBSET Scoped, part : SUBSET Members,
                           targeted : BOOLEAN, slip : BOOLEAN]
    /\ \A q \in Requests : ~q.targeted => q.part = Members
    /\ MaxRuns \in Nat /\ MaxEvents \in Nat

VARIABLES
    \* what the operator keeps
    sources,        \* content of each file of the source trees
    offer,          \* content of the resource pack's ZIP and its prompt
    review,         \* side in [deployment_tool_review], or "none"
    \* what was deployed
    placed,         \* content of each file of each destination tree
    pack,           \* content of the published resource pack
    props,          \* pack hash and prompt in each member's server.properties
    zip,            \* content of the client ZIP, file by file
    \* the run
    step, run,
    scanned,        \* jars whose manifest is in the process's cache
    plan,           \* action that the preflight announced for each member
    trees, removes, copies,     \* server scope: trees left, files left of the first
    staged,                     \* client scope: the staging tree
    hashed, todo,               \* resource-pack scope: property values, members left
    exit,
    \* what the properties are about
    clean,          \* nothing but the run has happened since it began
    runs, events

operatorVars == <<sources, offer, review>>
deployedVars == <<placed, pack, props, zip>>
serverVars == <<trees, removes, copies>>
packVars == <<hashed, todo>>
runVars == <<step, run, scanned, plan, serverVars, staged, packVars, exit>>
scopesVars == <<operatorVars, deployedVars, runVars, clean, runs, events>>

Idle == step = "idle"

First(S) == CHOOSE x \in S : \A y \in S : x <= y

Nothing == [f \in Files |-> Missing]

ScopesInit ==
    /\ sources = [f \in Files |-> 0]
    /\ offer = [pack |-> 0, prompt |-> 0]
    /\ review = [j \in Jars |-> "none"]
    /\ placed = [t \in Tree |-> Nothing]
    /\ pack = Missing
    /\ props = [m \in Members |-> [pack |-> Missing, prompt |-> Missing]]
    /\ zip = Nothing
    /\ step = "idle"
    /\ run = [scopes |-> {}, part |-> {}, targeted |-> TRUE, slip |-> FALSE]
    /\ scanned = Unscanned
    /\ plan = [m \in Members |-> "none"]
    /\ trees = {} /\ removes = {} /\ copies = {}
    /\ staged = Nothing
    /\ hashed = offer /\ todo = {}
    /\ exit = "none"
    /\ clean = FALSE /\ runs = 0 /\ events = 0

-----------------------------------------------------------------------------
(* The jars of a side. *)

\* SideOverrides.lookup: manual sections before the one that the tool writes.
Override(j) == IF Manual[j] # "none" THEN Manual[j] ELSE review[j]

Unmarked == {j \in Jars : Declared[j] \notin Sides}

Marked == {j \in Jars : j \notin Unmarked \/ Override(j) # "none"}

SideOf(j) == IF Override(j) # "none" THEN Override(j) ELSE Declared[j]

Seeds(side) == {j \in Marked : SideOf(j) \in {"both", side}}

InSource(S) == {f \in S : sources[f] # Missing}

\* scan_manifests: the first caller of a process reads the manifests.
Manifests == IF scanned = Unscanned THEN InSource(Marked) ELSE scanned

Required(S, side) ==
    Marked \cap UNION {IndexDeps[j] \cup (IF j \in Manifests THEN JarDeps[side][j] \cap Manifests
                                                             ELSE {}) : j \in S}

\* expand_with_required: the seeds and, transitively, what they require.
Closure(side) ==
    LET grow[n \in 0..Cardinality(Jars)] ==
            IF n = 0 THEN Seeds(side)
            ELSE grow[n - 1] \cup Required(grow[n - 1], side)
    IN  grow[Cardinality(Jars)]

\* A slip is the authority on sides: neither index nor overrides are read.
JarsFor(side) ==
    InSource(IF run.slip THEN {j \in Jars : SlipSide[j] \in {"both", side}}
                         ELSE Closure(side))

-----------------------------------------------------------------------------
(* The plan. *)

FilesOf(t) == CASE t[2] = "mods" -> Jars [] t[2] = "config" -> Configs [] OTHER -> Scripts

SourceOf(t) == IF t = Mods THEN JarsFor("server") ELSE InSource(FilesOf(t))

\* Mutation of Differing: files that the source lacks are not changes.
DifferingShipped(t, wanted) == {f \in wanted : placed[t][f] # sources[f]}

\* The files of a destination that are not what and where the source says.
Differing(t, wanted) ==
    {f \in FilesOf(t) : placed[t][f] # IF f \in wanted THEN sources[f] ELSE Missing}

\* compute_mods_change: for a slip, over the jars of both sides.
ChangedMods == Differing(Mods, IF run.slip THEN InSource(Jars) ELSE SourceOf(Mods))

\* Extras are counted in merge mode also, and protected ones.
ChangedOf(m) ==
    (IF run.targeted THEN {} ELSE ChangedMods)
        \cup UNION {Differing(<<m, key>>, SourceOf(<<m, key>>)) : key \in {"config", "kubejs"}}

Rank(a) == CASE a = "none" -> 0 [] a = "reload" -> 2 [] a = "restart" -> 4

StickyMax(as) ==
    IF as = {} THEN "none" ELSE CHOOSE a \in as : \A b \in as : Rank(b) <= Rank(a)

ServerAction(m) ==
    IF "server" \in run.scopes THEN StickyMax({Policy[f] : f \in ChangedOf(m)}) ELSE "none"

\* A change of the prompt alone asks for nothing.
ResourcePackAction(m) ==
    IF "resource_pack" \in run.scopes /\ props[m].pack # offer.pack
    THEN "restart" ELSE "none"

\* The scopes are written in the order server, client, resource pack.
PhaseAfter(done) ==
    LET left == run.scopes \ done
    IN  IF "server" \in left THEN "server"
        ELSE IF "client" \in left THEN "stage"
        ELSE IF "resource_pack" \in left THEN "hash"
        ELSE "idle"

Enter(phase) == step' = phase /\ exit' = IF phase = "idle" THEN "0" ELSE exit

\* Something happens that is not the run, or not what the run is meant to do.
Event == events < MaxEvents /\ events' = events + 1 /\ clean' = FALSE

\* A step that leaves the given files out.
Partial(files) == IF files = {} THEN UNCHANGED <<clean, events>> ELSE Event

-----------------------------------------------------------------------------
(* Start of a run. *)

\* _prompt_for_unmarked: each unmarked jar of the index gets a side or is deferred.
Answered(answer) == [j \in Jars |-> IF j \in DOMAIN answer THEN answer[j] ELSE review[j]]

\* main(): the command line, then the prompt if a scope needs the sides of the jars.
Begin(q) ==
    /\ Idle /\ runs < MaxRuns
    /\ q.scopes # {}
    /\ run' = q
    /\ \E S \in SUBSET Unmarked : \E answer \in [S -> Answers] :
          /\ q.scopes \cap {"server", "client"} = {} => S = {}
          /\ review' = Answered(answer)
    /\ step' = "preflight" /\ exit' = "none"
    /\ scanned' = Unscanned
    /\ clean' = TRUE
    /\ runs' = runs + 1
    /\ UNCHANGED <<sources, offer, deployedVars, plan, serverVars, staged, packVars, events>>

\* The destinations of the server scope: the shared mods directory unless members are
\* named, and the trees of each member.  "--instance ," names none.
RunTrees == (IF run.targeted THEN {} ELSE {Mods}) \cup (run.part \X {"config", "kubejs"})

Preflight ==
    /\ step = "preflight"
    /\ plan' = [m \in Members |->
                   IF m \in run.part THEN StickyMax({ServerAction(m), ResourcePackAction(m)})
                                     ELSE "none"]
    /\ scanned' = IF "server" \in run.scopes /\ ~run.slip THEN Manifests ELSE scanned
    /\ trees' = RunTrees
    /\ Enter(PhaseAfter(IF RunTrees = {} THEN {"server"} ELSE {}))
    /\ UNCHANGED <<operatorVars, deployedVars, run, removes, copies, staged, packVars,
                   clean, runs, events>>

-----------------------------------------------------------------------------
(* Server scope: the mods directory, then each member in turn. *)

Order(t) == IF t[2] = "kubejs" THEN 2 * t[1] + 1 ELSE 2 * t[1]

Current == CHOOSE t \in trees : \A u \in trees : Order(t) <= Order(u)

ModeOf(t) == IF t[2] = "config" THEN ConfigMode[t[1]] ELSE "delete"

\* _apply_config_deletions: an entry is looked up in the patterns by its own name.
Deleted(t) ==
    IF run.slip /\ t[2] = "config"
    THEN UNION {e \in Deletions[t[1]] : ~\E f \in ProtectedFiles : e = {f}}
    ELSE {}

\* Mutation of ToCopy: what is there by name is taken to be current.
ToCopyMissing(src, there) == {f \in src : there[f] = Missing}

\* New files and those whose content differs.
ToCopy(src, there) == {f \in src : there[f] # sources[f]}

\* copy_tree and deploy_flat_files hash both sides; what cannot be read is left out.
Compare(unreadable) ==
    /\ step = "server" /\ trees # {}
    /\ LET t == Current
           src == SourceOf(t) \ unreadable
           there == [f \in Files |-> IF f \in Deleted(t) THEN Missing ELSE placed[t][f]]
       IN  /\ unreadable \subseteq SourceOf(t)
           /\ placed' = [placed EXCEPT ![t] = there]
           /\ removes' = IF ModeOf(t) = "merge" THEN {}
                         ELSE {f \in FilesOf(t) \ src : there[f] # Missing} \ ProtectedFiles
           /\ copies' = ToCopy(src, there)
    /\ step' = "write"
    /\ Partial(unreadable)
    /\ UNCHANGED <<operatorVars, pack, props, zip, run, scanned, plan, trees, staged, packVars,
                   exit, runs>>

Place(f, content) == placed' = [placed EXCEPT ![Current][f] = content]

Remove ==
    /\ step = "write" /\ removes # {}
    /\ Place(First(removes), Missing)
    /\ removes' = removes \ {First(removes)}
    /\ UNCHANGED <<operatorVars, pack, props, zip, step, run, scanned, plan, trees, copies,
                   staged, packVars, exit, clean, runs, events>>

\* What is copied is what the source is by now; one that is gone is skipped.  The order
\* is by name in a tree, and new jars come first among the jars.
Copy ==
    /\ step = "write" /\ removes = {}
    /\ \E f \in copies :
          /\ Place(f, IF sources[f] = Missing THEN placed[Current][f] ELSE sources[f])
          /\ copies' = copies \ {f}
    /\ UNCHANGED <<operatorVars, pack, props, zip, step, run, scanned, plan, trees, removes,
                   staged, packVars, exit, clean, runs, events>>

\* The error of one file is a warning: the next one follows.
FileFails ==
    /\ step = "write" /\ Event
    /\ \/ /\ removes # {}
          /\ removes' = removes \ {First(removes)}
          /\ UNCHANGED <<placed, copies>>
       \/ /\ removes = {}
          /\ \E f \in copies : /\ Place(f, Torn) \/ UNCHANGED placed
                             /\ copies' = copies \ {f}
          /\ UNCHANGED removes
    /\ UNCHANGED <<operatorVars, pack, props, zip, step, run, scanned, plan, trees,
                   staged, packVars, exit, runs>>

TreeDone ==
    /\ step = "write" /\ removes = {} /\ copies = {}
    /\ trees' = trees \ {Current}
    /\ Enter(IF trees' = {} THEN PhaseAfter({"server"}) ELSE "server")
    /\ UNCHANGED <<operatorVars, deployedVars, run, scanned, plan, removes, copies, staged,
                   packVars, clean, runs, events>>

-----------------------------------------------------------------------------
(* Client scope: the staging tree and, from it, the ZIP. *)

ClientFiles == JarsFor("client") \cup InSource(Configs \cup Scripts)

\* Staging; a file that cannot be copied is left out with a warning.
StageClient(missing) ==
    /\ step = "stage" /\ missing \subseteq ClientFiles
    /\ staged' = [f \in Files |-> IF f \in ClientFiles \ missing THEN sources[f] ELSE Missing]
    /\ scanned' = IF run.slip THEN scanned ELSE Manifests
    /\ step' = "zip"
    /\ Partial(missing)
    /\ UNCHANGED <<operatorVars, deployedVars, run, plan, serverVars, packVars, exit, runs>>

\* The ZIP is replaced at once.
CreateZip ==
    /\ step = "zip"
    /\ zip' = staged
    /\ staged' = Nothing
    /\ Enter(PhaseAfter({"server", "client"}))
    /\ UNCHANGED <<operatorVars, placed, pack, props, run, scanned, plan, serverVars, packVars,
                   clean, runs, events>>

-----------------------------------------------------------------------------
(* Resource-pack scope: hash every ZIP, publish every ZIP, edit properties. *)

\* Every member of the model has the same pack, at one destination.
HashPacks ==
    /\ step = "hash"
    /\ hashed' = offer
    /\ todo' = run.part
    /\ step' = "publish"
    /\ UNCHANGED <<operatorVars, deployedVars, run, scanned, plan, serverVars, staged, exit,
                   clean, runs, events>>

\* The ZIP is copied again unless the published one has the hash of the plan.
Publish ==
    /\ step = "publish" /\ todo # {}
    /\ pack' = IF pack # hashed.pack THEN offer.pack ELSE pack
    /\ todo' = todo \ {First(todo)}
    /\ UNCHANGED <<operatorVars, placed, props, zip, step, run, scanned, plan, serverVars,
                   staged, hashed, exit, clean, runs, events>>

Published ==
    /\ step = "publish" /\ todo = {}
    /\ todo' = run.part
    /\ step' = "props"
    /\ UNCHANGED <<operatorVars, deployedVars, run, scanned, plan, serverVars, staged,
                   hashed, exit, clean, runs, events>>

\* apply_edits replaces the file when one of the keys differs.
WriteProperties ==
    /\ step = "props" /\ todo # {}
    /\ props' = [props EXCEPT ![First(todo)] = hashed]
    /\ todo' = todo \ {First(todo)}
    /\ UNCHANGED <<operatorVars, placed, pack, zip, step, run, scanned, plan, serverVars,
                   staged, hashed, exit, clean, runs, events>>

PropertiesDone ==
    /\ step = "props" /\ todo = {}
    /\ Enter("idle")
    /\ UNCHANGED <<operatorVars, deployedVars, run, scanned, plan, serverVars, staged,
                   packVars, clean, runs, events>>

-----------------------------------------------------------------------------
(* Everything else that happens. *)

\* A scope fails, which ends the writes, or the process dies: nothing is rolled back, the
\* copy under way may be left torn, and what the process knew is gone.
Ends ==
    /\ ~Idle /\ Event
    /\ step' = "idle" /\ exit' = "failed"
    /\ \/ UNCHANGED placed
       \/ /\ step = "write" /\ removes = {}
          /\ \E f \in copies : Place(f, Torn)
    /\ scanned' = Unscanned
    /\ plan' = [m \in Members |-> "none"]
    /\ trees' = {} /\ removes' = {} /\ copies' = {} /\ todo' = {}
    /\ staged' = Nothing
    /\ UNCHANGED <<operatorVars, pack, props, zip, run, hashed, runs>>

\* The operator, packwiz or an import changes the sources.
EditSource(f, content) ==
    /\ Event
    /\ sources[f] # content
    /\ sources' = [sources EXCEPT ![f] = content]
    /\ UNCHANGED <<offer, review, deployedVars, runVars, runs>>

EditOffer(o) ==
    /\ Event
    /\ offer # o
    /\ offer' = o
    /\ UNCHANGED <<sources, review, deployedVars, runVars, runs>>

\* A server or a person writes or removes a file of a destination.
Drift(t, f, content) ==
    /\ Event
    /\ placed[t][f] # content
    /\ placed' = [placed EXCEPT ![t][f] = content]
    /\ UNCHANGED <<operatorVars, pack, props, zip, runVars, runs>>

ScopesNext ==
    \/ \E q \in Requests : Begin(q)
    \/ Preflight
    \/ Compare({}) \/ \E f \in Files : Compare({f})
    \/ Remove \/ Copy \/ FileFails \/ TreeDone
    \/ StageClient({}) \/ \E f \in Files : StageClient({f})
    \/ CreateZip
    \/ HashPacks \/ Publish \/ Published \/ WriteProperties \/ PropertiesDone
    \/ Ends
    \/ \E f \in Files, content \in Values \cup {Missing} : EditSource(f, content)
    \/ \E o \in [pack : Values, prompt : Values] : EditOffer(o)
    \/ \E t \in Tree : \E f \in FilesOf(t), content \in Values \cup {Missing} :
          Drift(t, f, content)

ScopesSpec == ScopesInit /\ [][ScopesNext]_scopesVars

-----------------------------------------------------------------------------
(* What the runs of the tool promise. *)

\* The side that a jar was meant to have, by hand before by answer before by its index.
IntendedSide(j) ==
    CASE Manual[j] # "none" -> Manual[j]
      [] Manual[j] = "none" /\ review[j] # "none" -> review[j]
      [] OTHER -> Declared[j]

\* The smallest set with every jar of the side and, with a jar, what it requires.
WantedJars(side) ==
    IF run.slip THEN {j \in InSource(Jars) : SlipSide[j] \in {side, "both"}}
    ELSE LET known == {j \in Jars : IntendedSide(j) # "odd"}
             closed(S) ==
                 /\ \A j \in known : IntendedSide(j) \in {side, "both"} => j \in S
                 /\ \A j \in S : known \cap IndexDeps[j] \subseteq S
                 /\ \A j \in S \cap InSource(known) :
                        JarDeps[side][j] \cap InSource(known) \subseteq S
         IN  {j \in InSource(known) : \A S \in SUBSET known : closed(S) => j \in S}

TreeConverged(t) ==
    LET wanted == IF t = Mods THEN WantedJars("server") ELSE InSource(FilesOf(t))
    IN  \A f \in FilesOf(t) :
            IF f \in wanted THEN placed[t][f] = sources[f]
            ELSE \/ placed[t][f] = Missing
                 \/ f \in ProtectedFiles
                 \/ t[2] = "config" /\ ConfigMode[t[1]] = "merge"

\* A run that nothing disturbed and that reports success leaves every destination of its
\* scopes as the sources and the sides ask, whatever failed copies, crashes, edits and
\* answers of earlier runs had left there.
CleanRunConverges ==
    Idle /\ clean /\ exit = "0" =>
        /\ "server" \in run.scopes =>
              \A t \in RunTrees : TreeConverged(t)
        /\ "client" \in run.scopes =>
              \A f \in Files :
                  zip[f] = IF f \in WantedJars("client") \cup Configs \cup Scripts
                           THEN sources[f] ELSE Missing
        /\ "resource_pack" \in run.scopes =>
              \A m \in run.part : pack = offer.pack /\ props[m] = offer

\* What a step of a run that nothing has disturbed may write.
WriteRules ==
    clean /\ clean' =>
        /\ \A t \in Tree : \A f \in FilesOf(t) : placed'[t][f] # placed[t][f] =>
              /\ "server" \in run.scopes
              /\ t \in RunTrees
              /\ \A m \in run.part :
                    \/ t \notin {Mods, <<m, t[2]>>}
                    \/ Rank(Policy[f]) <= Rank(plan[m])
                    \/ run.slip /\ f \in InSource(UNION Deletions[m])
                    \/ run.slip /\ t = Mods /\ SlipSide[f] = "client"
              /\ f \in ProtectedFiles /\ placed'[t][f] = Missing =>
                    \E d \in Deletions[t[1]] : f \in d /\ d # {f}
        /\ \A m \in Members : props'[m].pack # props[m].pack =>
              /\ "resource_pack" \in run.scopes /\ plan[m] = "restart"
              /\ pack = props'[m].pack

\* While nothing else interferes, a run changes a file only of its scopes and members and
\* only if the action announced to the players of each member concerned is at least what
\* the policy asks for that file (except, for a slip, that a file which it both deletes and
\* ships is away for a moment, and that a client's jar which goes is not announced: the
\* preflight compares the jars of both sides with the servers'); it removes a protected
\* file only with a directory that a slip lists; and a server is pointed at a pack only
\* once that pack is published.
WriteDiscipline == [][WriteRules]_scopesVars
=============================================================================
