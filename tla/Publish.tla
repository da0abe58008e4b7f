------------------------------ MODULE Publish ------------------------------
(* Publication of releases: modpack_upgrade/cli/commands/publish.py, run(),    *)
(* and what registry_verify.py makes of the registry.  A publisher is one run  *)
(* of the command; it starts again after it has ended or crashed.  Nothing in  *)
(* the code keeps two runs apart: overlapped says whether the operators have.  *)
(* Refusals before anything is written (slip, key, artifacts, bundle) leave    *)
(* the state alone; the last is the guard of Start.                            *)
EXTENDS Integers, Sequences

CONSTANTS Publisher, Release, Absent, Partial, Staged, Torn

\* A directory: a publisher stands for the content that its manifest signs.
Content == {Absent, Partial, Staged} \cup Publisher

\* The hash of an entry covers its release and the hash before it: it is the
\* sequence of releases up to it, empty at genesis.
Entry == [release : Release, previous : Seq(Release), manifest : Publisher]

ASSUME PublishAssumption ==
    /\ Absent \notin Publisher \cup {Partial, Staged}
    /\ Partial \notin Publisher
    /\ Torn \notin Entry

VARIABLES
    staging,    \* www/releases/<id>.staging
    bundle,     \* www/releases/<id>
    registry,   \* the lines of release-index.jsonl; Torn does not parse
    pc, release, previous,      \* of each publisher
    published,  \* the releases for which the command returned 0
    overlapped  \* a publisher has been started while another one ran

vars == <<staging, bundle, registry, pc, release, previous, published, overlapped>>
history == <<published, overlapped>>
files == <<staging, bundle, registry>>

Stages == {"clean", "make", "stage", "seal", "commit", "tidy",
           "head", "append", "rollback", "abort"}
Ended == {"idle", "exit0", "exit3", "exit7", "leftover", "raised", "crashed"}

Running(p) == pc[p] \in Stages

\* shutil.rmtree with its errors ignored, or caught.
Removals(content) == {Absent} \cup IF content = Absent THEN {} ELSE {Partial, content}

EntryHash(entry) == Append(entry.previous, entry.release)

\* verify_chain
VerifyChain(lines) ==
    \A i \in 1..Len(lines) :
        /\ lines[i] # Torn
        /\ lines[i].previous = IF i = 1 THEN <<>> ELSE EntryHash(lines[i - 1])

\* verify_release
VerifyRelease(lines, r) ==
    /\ VerifyChain(lines)
    /\ \E i \in 1..Len(lines) : /\ lines[i].release = r
                                /\ lines[i].manifest = bundle[r]

\* _find_release_entry
Registered(r) ==
    \E i \in 1..Len(registry) : registry[i] # Torn /\ registry[i].release = r

LastLineTorn == registry # <<>> /\ registry[Len(registry)] = Torn

\* _last_entry_hash, when the last line parses.
LastEntryHash == IF registry = <<>> THEN <<>> ELSE EntryHash(registry[Len(registry)])

\* A line appended to a torn one does not parse either.
Appended(line) == IF LastLineTorn THEN registry ELSE Append(registry, line)

Init == /\ staging = [r \in Release |-> Absent]
        /\ bundle = [r \in Release |-> Absent]
        /\ registry = <<>>
        /\ pc = [p \in Publisher |-> "idle"]
        /\ release \in [Publisher -> Release]
        /\ previous = [p \in Publisher |-> <<>>]
        /\ published = {}
        /\ overlapped = FALSE

Goto(p, from, to) == pc[p] = from /\ pc' = [pc EXCEPT ![p] = to]

\* The slip verifies and has this release ID, the artifacts have its hashes, and there is
\* no bundle: a refusal changes nothing.
MayPublish(r) == bundle[r] = Absent

Start(p, r) ==
    /\ pc[p] \in Ended
    /\ MayPublish(r)
    /\ pc' = [pc EXCEPT ![p] = "clean"]
    /\ release' = [release EXCEPT ![p] = r]
    /\ previous' = [previous EXCEPT ![p] = <<>>]
    /\ overlapped' = (overlapped \/ \E q \in Publisher : Running(q))
    /\ UNCHANGED <<files, published>>

\* _cleanup_dir(staging_dir), whoever made it.
RemoveStaging(p) ==
    /\ \E c \in Removals(staging[release[p]]) :
           staging' = [staging EXCEPT ![release[p]] = c]
    /\ UNCHANGED <<bundle, registry, release, previous, history>>

Clean(p) == Goto(p, "clean", "make") /\ RemoveStaging(p)

\* _stage_bundle: mkdir(exist_ok=False).
Make(p) ==
    /\ Goto(p, "make", "stage")
    /\ staging[release[p]] = Absent
    /\ staging' = [staging EXCEPT ![release[p]] = Partial]
    /\ UNCHANGED <<bundle, registry, release, previous, history>>

\* _stage_bundle: the slip, the trees and the artifacts are copied.
Stage(p) ==
    /\ Goto(p, "stage", "seal")
    /\ staging[release[p]] = Partial
    /\ staging' = [staging EXCEPT ![release[p]] = Staged]
    /\ UNCHANGED <<bundle, registry, release, previous, history>>

\* The approval, the Git references and _finalize_bundle to its last check.
\* Without all of the artifacts the artifact manifest cannot be built.
Seal(p) ==
    /\ Goto(p, "seal", "commit")
    /\ staging[release[p]] \notin {Absent, Partial}
    /\ staging' = [staging EXCEPT ![release[p]] = p]
    /\ UNCHANGED <<bundle, registry, release, previous, history>>

\* Mutation of Commit: an existing bundle is replaced.
CommitOverwriting(p) ==
    /\ Goto(p, "commit", "tidy")
    /\ staging[release[p]] # Absent
    /\ bundle' = [bundle EXCEPT ![release[p]] = staging[release[p]]]
    /\ staging' = [staging EXCEPT ![release[p]] = Absent]
    /\ UNCHANGED <<registry, release, previous, history>>

\* _commit_bundle: what is in the staging directory is renamed.
Commit(p) ==
    /\ Goto(p, "commit", "tidy")
    /\ bundle[release[p]] = Absent
    /\ staging[release[p]] # Absent
    /\ bundle' = [bundle EXCEPT ![release[p]] = staging[release[p]]]
    /\ staging' = [staging EXCEPT ![release[p]] = Absent]
    /\ UNCHANGED <<registry, release, previous, history>>

\* Any step before the commit may fail; some have to.
Fail(p) ==
    /\ pc[p] \in {"make", "stage", "seal", "commit"}
    /\ pc' = [pc EXCEPT ![p] = "abort"]
    /\ UNCHANGED <<files, release, previous, history>>

\* The finally clause, after a commit and after a failure.
Tidy(p) == Goto(p, "tidy", "head") /\ RemoveStaging(p)
Abort(p) == Goto(p, "abort", "exit3") /\ RemoveStaging(p)

\* Mutation of ReadHead: a line that does not parse is skipped.
ReadHeadLeniently(p) ==
    /\ Goto(p, "head", "append")
    /\ previous' = [previous EXCEPT ![p] =
           IF ~LastLineTorn THEN LastEntryHash
           ELSE IF Len(registry) = 1 THEN <<>>
           ELSE EntryHash(registry[Len(registry) - 1])]
    /\ UNCHANGED <<files, release, history>>

\* Mutation of ReadHead: every entry is chained to genesis.
ReadGenesis(p) ==
    /\ Goto(p, "head", "append")
    /\ ~LastLineTorn
    /\ UNCHANGED <<files, release, previous, history>>

\* _append_registry_entry: the hash of the last entry is read.
ReadHead(p) ==
    /\ Goto(p, "head", "append")
    /\ ~LastLineTorn
    /\ previous' = [previous EXCEPT ![p] = LastEntryHash]
    /\ UNCHANGED <<files, release, history>>

\* The last line does not parse, or the registry cannot be read.
ReadHeadFails(p) ==
    /\ Goto(p, "head", "rollback")
    /\ UNCHANGED <<files, release, previous, history>>

NewEntry(p) == [release |-> release[p], previous |-> previous[p], manifest |-> p]

\* The parent directory cannot be made: an OSError no handler rolls back.
\* Before the first entry only, and when slip_dir is another directory.
MakeParentFails(p) ==
    /\ Goto(p, "append", "raised")
    /\ registry = <<>>
    /\ UNCHANGED <<files, release, previous, history>>

AppendEntry(p) ==
    /\ Goto(p, "append", "exit0")
    /\ registry' = Appended(NewEntry(p))
    /\ published' = published \cup {release[p]}
    /\ UNCHANGED <<staging, bundle, release, previous, overlapped>>

\* An append that fails has written nothing, or a line that does not parse.
AppendFails(p) ==
    /\ Goto(p, "append", "rollback")
    /\ registry' \in {registry, Appended(Torn)}
    /\ UNCHANGED <<staging, bundle, release, previous, history>>

\* The handler of a failed append: rmtree(bundle_dir), which may fail too.
Rollback(p) ==
    /\ pc[p] = "rollback"
    /\ \E c \in Removals(bundle[release[p]]) :
           /\ bundle' = [bundle EXCEPT ![release[p]] = c]
           /\ pc' = [pc EXCEPT ![p] = IF c = Absent THEN "exit7" ELSE "leftover"]
    /\ UNCHANGED <<staging, registry, release, previous, history>>

\* The process dies; one that was appending may leave a torn line.  One that
\* dies while it removes a directory leaves what a failed removal leaves.
Crash(p) ==
    /\ Running(p)
    /\ pc' = [pc EXCEPT ![p] = "crashed"]
    /\ registry' \in {registry} \cup IF pc[p] = "append" THEN {Appended(Torn)} ELSE {}
    /\ UNCHANGED <<staging, bundle, release, previous, history>>

\* The operator removes a bundle that a publisher has left without an entry.
RemoveLeftover(r) ==
    /\ bundle[r] # Absent
    /\ ~Registered(r)
    /\ \A p \in Publisher : Running(p) => release[p] # r
    /\ bundle' = [bundle EXCEPT ![r] = Absent]
    /\ UNCHANGED <<staging, registry, pc, release, previous, history>>

Step(p) ==
    \/ Clean(p) \/ Make(p) \/ Stage(p) \/ Seal(p) \/ Commit(p) \/ Fail(p)
    \/ Tidy(p) \/ Abort(p) \/ ReadHead(p) \/ ReadHeadFails(p)
    \/ MakeParentFails(p) \/ AppendEntry(p) \/ AppendFails(p) \/ Rollback(p)

Next == \/ \E p \in Publisher : \/ \E r \in Release : Start(p, r)
                                \/ Step(p)
                                \/ Crash(p)
        \/ \E r \in Release : RemoveLeftover(r)

Spec == Init /\ [][Next]_vars

----------------------------------------------------------------------------

TypeOK ==
    /\ staging \in [Release -> Content]
    /\ bundle \in [Release -> Content]
    /\ registry \in Seq(Entry \cup {Torn})
    /\ pc \in [Publisher -> Stages \cup Ended]
    /\ release \in [Publisher -> Release]
    /\ previous \in [Publisher -> Seq(Release)]
    /\ published \subseteq Release
    /\ overlapped \in BOOLEAN

\* The registry names only releases whose bundle is in place and is the one
\* the entry's manifest hash covers, over failures, roll-backs and crashes of
\* publishers that have not overlapped.
EntriesHaveBundles ==
    ~overlapped =>
        \A i \in 1..Len(registry) : registry[i] # Torn =>
            bundle[registry[i].release] = registry[i].manifest

\* Every entry continues the one before it; only the last line can be torn.
ChainUnbroken ==
    \A i \in 1..Len(registry) :
        IF registry[i] = Torn THEN i = Len(registry)
        ELSE registry[i].previous =
                 IF i = 1 THEN <<>> ELSE EntryHash(registry[i - 1])

\* The same, of publishers that have not overlapped: torn writes, failures and
\* crashes at any step do not fork the chain.
ChainUnbrokenInTurn == ~overlapped => ChainUnbroken

\* A release whose publication returned 0 verifies for good, on the lines
\* before a torn one, as long as publishers do not overlap.
PublishedVerifies ==
    LET lines == IF LastLineTorn THEN SubSeq(registry, 1, Len(registry) - 1)
                 ELSE registry
    IN  ~overlapped => \A r \in published : VerifyRelease(lines, r)

\* A registered release is final, also under concurrent publishers: its bundle
\* does not change, it stays registered and gets no second entry.
RegisteredIsFinal ==
    [][\A r \in Release : Registered(r) =>
           /\ bundle'[r] = bundle[r]
           /\ Registered(r)'
           /\ \A i \in 1..Len(registry') :
                  (registry'[i] # Torn /\ registry'[i].release = r) =>
                      i \in 1..Len(registry)]_vars
=============================================================================
