-------------------------------- MODULE Pull --------------------------------
(***************************************************************************)
(* How a published release gets into the store of production:              *)
(* pull_release (daemon/pull.py) copies the bundle with rsync while        *)
(* publishers may be at work on it, verifies the copy file by file and     *)
(* renames it; verify_release (daemon/verify.py) then compares the         *)
(* manifest with the registry and reads nothing else.  The stage is part   *)
(* of a deployment and runs under its lock: there is one pull at a time.   *)
(*                                                                         *)
(* A copy is its manifest and whether the files are those that it lists.   *)
(* Nothing of <release>.partial outlives a pull: the next one removes it,  *)
(* or has rsync --delete --checksum correct what could not be removed.     *)
(***************************************************************************)
EXTENDS Publish

CONSTANTS
    Pulled,     \* the releases that production deploys
    None

ASSUME PullAssumption == Pulled \subseteq Release

VARIABLES
    store,      \* <target_root>/<release>
    pull        \* the pull under way: its release, and the bundle when rsync began

pullVars == <<store, pull>>

Copy == [manifest : Publisher, whole : BOOLEAN]

PullInit ==
    /\ Init
    /\ store = [r \in Pulled |-> Absent]
    /\ pull = None

Publishing == Next /\ UNCHANGED pullVars

\* _stage_pull goes on without a pull where there is a bundle.
PullStart(r) ==
    /\ pull = None
    /\ store[r] = Absent /\ bundle[r] # Absent
    /\ pull' = [release |-> r, seen |-> IF bundle[r] \in Publisher THEN bundle[r] ELSE Partial]
    /\ UNCHANGED <<vars, store>>

\* What arrives of a bundle: all of it, if that is what rsync has seen at its begin and
\* sees at its end; else any part, with a manifest of some state of it or none.
Arrives(seen, now) ==
    IF seen = now /\ now \in Publisher
    THEN [manifest : {now}, whole : {TRUE}]
    ELSE {Partial} \cup [manifest : Publisher, whole : {FALSE}]

\* Mutation of VerifyBundle: the manifest is enough.
VerifyManifest(copy) == copy \in Copy

\* _verify_bundle: there is a manifest, every file that it lists has its size and hash,
\* and there is no other.  No caller passes the hash that the manifest should have.
VerifyBundle(copy) == copy \in Copy /\ copy.whole

PullCompletes ==
    /\ pull # None
    /\ \E copy \in Arrives(pull.seen, bundle[pull.release]) :
         /\ VerifyBundle(copy)
         /\ store' = [store EXCEPT ![pull.release] = copy]
    /\ pull' = None
    /\ UNCHANGED vars

\* rsync fails or times out, the copy does not verify, the rename fails, or the daemon
\* dies before it.
PullFails ==
    /\ pull # None
    /\ pull' = None
    /\ UNCHANGED <<vars, store>>

PullNext ==
    \/ Publishing
    \/ \E r \in Pulled : PullStart(r)
    \/ PullCompletes \/ PullFails

PullSpec == PullInit /\ [][PullNext]_<<vars, pullVars>>

-----------------------------------------------------------------------------
(* Properties *)

\* _verify_chain_and_bundle with the store of production.
Deployable(r) ==
    /\ store[r] # Absent
    /\ VerifyChain(registry)
    /\ \E i \in 1..Len(registry) :
         registry[i].release = r /\ registry[i].manifest = store[r].manifest

\* What production may deploy is what was published, with all its files, though the
\* check before a deployment reads no file but the manifest, and the copy may have been
\* made of a bundle that was being rolled back and was then published anew.  Of
\* publishers that have not overlapped.
DeployableIsPublished ==
    \A r \in Pulled :
        Deployable(r) /\ ~overlapped => store[r] = [manifest |-> bundle[r], whole |-> TRUE]
=============================================================================
