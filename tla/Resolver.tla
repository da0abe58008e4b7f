------------------------------ MODULE Resolver ------------------------------
(***************************************************************************)
(* Version resolution (modpack_upgrade/resolver.py): from the seed mods it *)
(* walks the required dependencies, refuses cycles, drops every mod that   *)
(* needs one the providers do not have, and reports what is left.          *)
(*                                                                         *)
(* A provider is asked once for each mod, and answers what it likes: no    *)
(* version that the policy allows, or the required dependencies, in order, *)
(* of the version chosen.  The two recursive searches are stacks of        *)
(* frames, a step for each dependency that is looked at.                   *)
(***************************************************************************)
EXTENDS Naturals, Sequences, SequencesExt, FiniteSets

CONSTANTS
    Projects,   \* mods with a provider's project ID
    Files,      \* mods of the seed that are known by their file name only
    SeedLists,  \* the sequences of mods with a provider that the seed may list
    BuiltLists, \* the sequences of files built in-house that it may list
    DepLists,   \* the required dependencies with an ID that a version may declare
    Skips,      \* the sets of mods that the side overrides may skip
    Policies,   \* no_version of the manifest
    None

Mods == Projects \cup Files

ASSUME ResolverAssumption ==
    /\ Projects \cap Files = {}
    /\ SeedLists \subseteq Seq(Projects)
    /\ BuiltLists \subseteq Seq(Files) /\ \A s \in BuiltLists : IsInjective(s)
    /\ DepLists \subseteq Seq(Projects)
    /\ Skips \subseteq SUBSET Mods
    /\ Policies \subseteq {"drop", "ask", "fail"}

VARIABLES
    pc,
    seeds, inHouse,     \* the seed: the mods of the providers, the files built here,
    unknown,            \* and the files of which it does not say where they are from
    work,               \* the queue of mods to ask the providers for
    resolved,           \* the keys of _resolved, in their order
    requires,           \* the required dependencies of each mod that was resolved
    extra,              \* resolved mods that only a dependency brought in
    failed,             \* the keys of _failed
    chain,              \* _cascade: for each mod its dependency_chain, else <<>>
    roots,              \* what the loop over the resolved mods has yet to visit
    stack, visited,     \* the search under way: its frames, and where it has been
    changed,            \* has this round of the cascade dropped a mod
    cycle,              \* the chain of the CycleError
    report

inputVars == <<seeds, inHouse, unknown>>
foundVars == <<resolved, requires, extra, failed>>
searchVars == <<roots, stack, visited, changed>>
endVars == <<cycle, report>>
vars == <<pc, inputVars, work, foundVars, chain, searchVars, endVars>>

Init ==
    /\ pc = "seed"
    /\ seeds \in SeedLists /\ inHouse \in BuiltLists
    /\ unknown \in SUBSET (Files \ ToSet(inHouse))
    /\ work = <<>>
    /\ resolved = <<>> /\ extra = {} /\ failed = {}
    /\ requires = [m \in Mods |-> <<>>]
    /\ chain = [m \in Mods |-> <<>>]
    /\ roots = <<>> /\ stack = <<>> /\ visited = {} /\ changed = FALSE
    /\ cycle = <<>> /\ report = None

Resolved == ToSet(resolved)
Cascaded == {m \in Mods : chain[m] # <<>>}
Missing == failed \cup Cascaded
Seeds == ToSet(seeds) \cup ToSet(inHouse) \cup unknown

-----------------------------------------------------------------------------
(* The seed, and the closure under required dependencies. *)

Item(m, seeded) == [key |-> m, seeded |-> seeded]

SeedPhase ==
    /\ pc = "seed"
    /\ resolved' = inHouse
    /\ failed' = unknown
    /\ work' = [i \in DOMAIN seeds |-> Item(seeds[i], TRUE)]
    /\ pc' = "closure"
    /\ UNCHANGED <<inputVars, requires, extra, chain, searchVars, endVars>>

Known(m) == m \in Resolved \cup Missing

SkipKnown ==
    /\ pc = "closure" /\ work # <<>>
    /\ Known(Head(work).key)
    /\ work' = Tail(work)
    /\ UNCHANGED <<pc, inputVars, foundVars, chain, searchVars, endVars>>

Asked == pc = "closure" /\ work # <<>> /\ ~Known(Head(work).key)

\* The provider cannot be reached, or the budget is spent: the command ends.
QueryRaises ==
    /\ Asked
    /\ pc' = "aborted"
    /\ UNCHANGED <<inputVars, work, foundVars, chain, searchVars, endVars>>

NoCompatibleVersion ==
    /\ Asked
    /\ failed' = failed \cup {Head(work).key}
    /\ work' = Tail(work)
    /\ UNCHANGED <<pc, inputVars, resolved, requires, extra, chain, searchVars, endVars>>

\* A required dependency without a project or mod ID (a file by name, say) is passed over
\* here and by both searches (resolver.py:226, 353), so that none is among deps.
RecordResolved(deps) ==
    /\ Asked
    /\ LET m == Head(work).key IN
         /\ resolved' = Append(resolved, m)
         /\ requires' = [requires EXCEPT ![m] = deps]
         /\ extra' = IF Head(work).seeded THEN extra ELSE extra \cup {m}
    /\ work' = Tail(work) \o [i \in DOMAIN deps |-> Item(deps[i], FALSE)]
    /\ UNCHANGED <<pc, inputVars, failed, chain, searchVars, endVars>>

ClosureEnds ==
    /\ pc = "closure" /\ work = <<>>
    /\ pc' = "cycle"
    /\ roots' = resolved
    /\ UNCHANGED <<inputVars, work, foundVars, chain, stack, visited, changed, endVars>>

-----------------------------------------------------------------------------
(* A search: the frames of the recursion, the mod it started from first. *)

Frame(m) == [node |-> m, deps |-> requires[m]]
Path == [i \in DOMAIN stack |-> stack[i].node]
Top == Last(stack)

\* The innermost call has looked at all its dependencies and returns; or it passes over
\* the next one, or enters it, if it is resolved and was not entered before.
Advanced == [stack EXCEPT ![Len(stack)].deps = Tail(@)]

Leave ==
    /\ Top.deps = <<>>
    /\ stack' = Front(stack) /\ visited' = visited

Pass(d) ==
    /\ d \notin Resolved \ visited
    /\ stack' = Advanced /\ visited' = visited

Enter(d) ==
    /\ d \in Resolved \ visited
    /\ stack' = Append(Advanced, Frame(d)) /\ visited' = visited \cup {d}

\* A step that does not end the search: what it looks for is not the next dependency.
Search(phase, hit) ==
    /\ pc = phase /\ stack # <<>>
    /\ \/ Leave
       \/ /\ Top.deps # <<>> /\ ~hit
          /\ Pass(Head(Top.deps)) \/ Enter(Head(Top.deps))
    /\ UNCHANGED <<pc, inputVars, work, foundVars, chain, roots, changed, endVars>>

Found(phase, hit) ==
    /\ pc = phase /\ stack # <<>>
    /\ Top.deps # <<>> /\ hit

-----------------------------------------------------------------------------
(* Cycles.  A mod is gray while it is on the stack, black when it has left it. *)

\* Mutation of Gray: only a mod that requires itself.
GraySelf(d) == d = Top.node

Gray(d) == d \in ToSet(Path)

CycleRoot ==
    /\ pc = "cycle" /\ stack = <<>> /\ roots # <<>>
    /\ roots' = Tail(roots)
    /\ IF Head(roots) \in visited
       THEN UNCHANGED <<stack, visited>>
       ELSE stack' = <<Frame(Head(roots))>> /\ visited' = visited \cup {Head(roots)}
    /\ UNCHANGED <<pc, inputVars, work, foundVars, chain, changed, endVars>>

CycleSearch == Search("cycle", Gray(Head(Top.deps)))

CycleFound ==
    /\ Found("cycle", Gray(Head(Top.deps)))
    /\ \E i \in DOMAIN Path :
         /\ Path[i] = Head(Top.deps)
         /\ cycle' = Append(SubSeq(Path, i, Len(Path)), Path[i])
    /\ pc' = "cyclic"
    /\ UNCHANGED <<inputVars, work, foundVars, chain, searchVars, report>>

NoCycle ==
    /\ pc = "cycle" /\ stack = <<>> /\ roots = <<>>
    /\ pc' = "cascade"
    /\ changed' = TRUE
    /\ UNCHANGED <<inputVars, work, foundVars, chain, roots, stack, visited, endVars>>

-----------------------------------------------------------------------------
(* The cascade. *)

\* Mutation of Gone: only what a provider does not have.
GoneLost(d) == d \in failed

Gone(d) == d \in Missing

\* Each round visits all that is resolved when it begins; the last one drops nothing.
CascadeRound ==
    /\ pc = "cascade" /\ stack = <<>> /\ roots = <<>> /\ changed
    /\ roots' = resolved /\ changed' = FALSE
    /\ UNCHANGED <<pc, inputVars, work, foundVars, chain, stack, visited, endVars>>

CascadeRoot ==
    /\ pc = "cascade" /\ stack = <<>> /\ roots # <<>>
    /\ roots' = Tail(roots)
    /\ stack' = <<Frame(Head(roots))>>
    /\ visited' = {Head(roots)}
    /\ UNCHANGED <<pc, inputVars, work, foundVars, chain, changed, endVars>>

CascadeSearch == Search("cascade", Gone(Head(Top.deps)))

\* What is missing first, or why it is, then each caller up to the mod that is dropped.
ChainFrom(d) == (IF d \in failed THEN <<d>> ELSE chain[d]) \o Reverse(Path)

CascadeFound ==
    /\ Found("cascade", Gone(Head(Top.deps)))
    /\ \E i \in DOMAIN resolved :
         /\ resolved[i] = Head(Path)
         /\ chain' = [chain EXCEPT ![resolved[i]] = ChainFrom(Head(Top.deps))]
         /\ resolved' = RemoveAt(resolved, i)
    /\ stack' = <<>> /\ changed' = TRUE
    /\ UNCHANGED <<pc, inputVars, work, requires, extra, failed, roots, visited, endVars>>

-----------------------------------------------------------------------------
(* The report. *)

Status(policy) ==
    CASE Missing = {} -> "complete"
      [] policy = "drop" -> "complete"
      [] policy = "ask" -> "paused_awaiting_acknowledgment"
      [] policy = "fail" -> "failed"

\* A mod that an override skips is left out, and is no loss.
BuildReport ==
    /\ pc = "cascade" /\ stack = <<>> /\ roots = <<>> /\ ~changed
    /\ \E policy \in Policies, skipped \in Skips :
         report' = [status |-> Status(policy), policy |-> policy, skipped |-> skipped,
                    shipped |-> Resolved \ skipped, lost |-> failed,
                    cascade |-> Cascaded]
    /\ pc' = "done"
    /\ UNCHANGED <<inputVars, work, foundVars, chain, searchVars, cycle>>

Next ==
    \/ SeedPhase \/ SkipKnown \/ QueryRaises \/ NoCompatibleVersion
    \/ \E deps \in DepLists : RecordResolved(deps)
    \/ ClosureEnds
    \/ CycleRoot \/ CycleSearch \/ CycleFound \/ NoCycle
    \/ CascadeRound \/ CascadeRoot \/ CascadeSearch \/ CascadeFound
    \/ BuildReport

Spec == Init /\ [][Next]_vars

-----------------------------------------------------------------------------
(* Properties *)

\* The state is well formed, and no mod is resolved twice or both resolved and lost:
\* each is asked for once (resolver.py:215).
TypeOK ==
    /\ pc \in {"seed", "closure", "cycle", "cascade", "done", "cyclic", "aborted"}
    /\ seeds \in SeedLists /\ inHouse \in BuiltLists
    /\ unknown \subseteq Files \ ToSet(inHouse)
    /\ work \in Seq([key : Projects, seeded : BOOLEAN])
    /\ resolved \in Seq(Mods) /\ IsInjective(resolved)
    /\ requires \in [Mods -> DepLists \cup {<<>>}]
    /\ extra \subseteq Projects /\ failed \subseteq Mods
    /\ chain \in [Mods -> Seq(Mods)]
    /\ Resolved \cap Missing = {} /\ failed \cap Cascaded = {}
    /\ roots \in Seq(Mods)
    /\ stack \in Seq([node : Mods, deps : Seq(Projects)])
    /\ visited \subseteq Mods /\ changed \in BOOLEAN
    /\ cycle \in Seq(Mods)
    /\ report # None =>
         report \in [status : {"complete", "paused_awaiting_acknowledgment", "failed"},
                     policy : Policies, skipped : Skips, shipped : SUBSET Mods,
                     lost : SUBSET Mods, cascade : SUBSET Mods]

Needs(m) == ToSet(requires[m])

\* What the report ships has all it requires (by an ID) in the release, unless an operator
\* skips it; and no mod of the seed is missing without a word: it is shipped, skipped,
\* lost or dropped with what it needed, and never passes for a mere dependency.  A
\* complete report has losses only where the manifest says that they may be dropped.
RequirementsMet ==
    report # None =>
        /\ \A m \in report.shipped : Needs(m) \subseteq report.shipped \cup report.skipped
        /\ Seeds \subseteq
             report.shipped \cup report.skipped \cup report.lost \cup report.cascade
        /\ extra \cap Seeds = {}
        /\ report.status = "complete" /\ report.policy # "drop" =>
             Seeds \subseteq report.shipped \cup report.skipped

\* A mod is dropped only for a reason that its dependency_chain tells: the chain begins
\* at a mod that no provider has, each mod in it requires the one before, and it ends
\* at the mod that is dropped ("root first, this mod last", Resolution_Report.md:243).
ChainsExplain ==
    \A m \in Cascaded :
        /\ Head(chain[m]) \in failed
        /\ Last(chain[m]) = m
        /\ \A i \in 1..(Len(chain[m]) - 1) : chain[m][i] \in Needs(chain[m][i + 1])

\* No set of resolved mods in which each requires another of the set.
Acyclic(S) == \A C \in SUBSET S : C # {} => \E m \in C : Needs(m) \cap C = {}

\* The command refuses a cycle exactly if there is one among the mods that resolved, and
\* the chain that it prints is one: each mod requires the next, the last is the first.
CycleVerdict ==
    /\ pc = "cyclic" =>
         /\ Len(cycle) > 1 /\ cycle[1] = Last(cycle)
         /\ \A i \in 1..(Len(cycle) - 1) : cycle[i + 1] \in Needs(cycle[i])
    /\ pc \in {"cascade", "done"} => Acyclic(Resolved \cup Cascaded)
=============================================================================
