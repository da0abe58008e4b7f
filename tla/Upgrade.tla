------------------------------ MODULE Upgrade ------------------------------
(***************************************************************************)
(* The life of a release candidate in `minecraft-upgrade`: update,         *)
(* acknowledge, materialize, iterate, the decision of a person, promote    *)
(* (modpack_upgrade/cli/commands/, approval.py, integrity.py, state.py).   *)
(*                                                                         *)
(* One operator runs the commands one after the other; each may die        *)
(* between two of its durable writes.  Decisions come from the operator or *)
(* from the Discord bot, which runs every delivery of an interaction as a  *)
(* process of its own and kills it after a timeout (discord_bot/).  Files  *)
(* are abstracted to what the hashes in state.toml, the packing slip and   *)
(* an approval's binding tell apart: a hash is the hashed value itself.    *)
(***************************************************************************)
EXTENDS Integers, FiniteSets

CONSTANTS
    Runs,           \* resolver runs
    Tags,           \* release tags
    Clicks,         \* Discord interaction ids
    Deliveries,     \* processes of approve and reject
    Runtimes,       \* what [minecraft] of the manifest and Compose may declare
    Expiry,         \* life of a decision
    MaxEdits,       \* bound: edits of the inputs and of docker-compose.yml
    MaxCrashes,     \* bound: commands of the operator that die midway
    MaxNow,         \* bound: the clock
    MaxEvents,      \* bound: all three together
    None

ASSUME UpgradeAssumption ==
    /\ Expiry \in Nat \ {0}
    /\ MaxEdits \in Nat /\ MaxCrashes \in Nat /\ MaxNow \in Nat /\ MaxEvents \in Nat
    /\ None \notin Runs \cup Clicks

VARIABLES
    \* the repository and its git index
    inputs,         \* manifest, seed and side overrides
    compose,        \* docker-compose.yml in the working tree
    head,           \* the same file in HEAD
    index,          \* the same file where it is staged, else None
    \* the state directory and the slips
    report, state, ack, slip, approval, release,
    audit,          \* approvals.jsonl: how many records of each interaction
    \* the operator's command, and the processes that record decisions
    pc, op, delivery,
    \* the world, and what the properties are about
    now, edits, crashes,
    clicked,        \* what each interaction says: it never changes
    word,           \* the last word a person had on each run
    muddled         \* interactions whose record no replay could see

treeVars == <<inputs, compose, head, index>>
diskVars == <<report, state, ack, slip, approval, audit, release>>
histVars == <<now, edits, crashes, clicked, word, muddled>>
vars == <<treeVars, diskVars, pc, op, delivery, histVars>>

Modes == {"update", "upgrade"}
Decisions == {"approved", "rejected"}
Statuses == {"resolved", "awaiting_acknowledgment", "acknowledged",
             "materialized", "failed"}

InputsType == [edit : 0..MaxEdits, target : Runtimes, seed : Runs \cup {None}]
ComposeType == [runtime : Runtimes, text : 0..MaxEdits]

\* state.toml; the Compose hash is recorded in update mode only.
RunStates == [status : Statuses, mode : Modes, inputs : InputsType,
              compose : ComposeType \cup {None}]

\* packing_slip.toml: a sealed slip is its own content hash.
Slips == [id : Runs \cup Tags, run : Runs, inputs : InputsType,
          compose : ComposeType, stamp : 0..MaxNow]

\* A decision as it is recorded; the slip stands for the binding hash.
Records == [run : Runs, decision : Decisions, binding : Slips,
            iid : Clicks \cup {None}, at : 0..MaxNow]

\* None is not the contents of a file.
ASSUME FilesAssumption == None \notin RunStates \cup Slips

NoTask == [pc |-> "free"]
NoOp == [run |-> None]
NoGrant == [word |-> None, at |-> 0]

Init ==
    /\ inputs \in [edit : {0}, target : Runtimes, seed : {None}]
    /\ compose \in [runtime : Runtimes, text : {0}]
    /\ head = compose /\ index = None
    /\ report = [r \in Runs |-> None]
    /\ state = [r \in Runs |-> None]
    /\ ack = {}
    /\ slip = [r \in Runs |-> None]
    /\ approval = [r \in Runs |-> None]
    /\ audit = [i \in Clicks |-> 0]
    /\ release = [t \in Tags |-> None]
    /\ pc = "idle" /\ op = NoOp /\ delivery = [k \in Deliveries |-> NoTask]
    /\ now = 0 /\ edits = 0 /\ crashes = 0
    /\ clicked = [i \in Clicks |-> None]
    /\ word = [r \in Runs |-> None]
    /\ muddled = {}

-----------------------------------------------------------------------------
(* Steps of the operator's command. *)

Idle == pc = "idle"
Goto(l) == pc' = l /\ op' = op
Return == pc' = "idle" /\ op' = NoOp

SetState(r, status) == state' = [state EXCEPT ![r] = [op.state EXCEPT !.status = status]]

\* check_integrity: nothing the run was resolved from has changed.  A report is
\* written once and never edited here, so that its hash never differs.
Intact(r) ==
    /\ report[r] # None
    /\ inputs = state[r].inputs
    /\ state[r].mode = "update" => compose = state[r].compose

-----------------------------------------------------------------------------
(* update *)

\* _verify_manifest_matches_compose: in update mode the manifest must name the runtime
\* that the environment of the Minecraft service in Compose declares.
RuntimesAgree == compose.runtime = inputs.target

\* _load_inputs; the report: complete, with losses to acknowledge, or failed; and state.toml.  A
\* report without a state is never looked at, so that one step stands for all.
Update(r, mode, status) ==
    /\ Idle /\ state[r] = None
    /\ mode = "update" => RuntimesAgree
    /\ report' = [report EXCEPT ![r] = status]
    /\ state' = [state EXCEPT ![r] =
           [status |-> status, mode |-> mode, inputs |-> inputs,
            compose |-> IF mode = "update" THEN compose ELSE None]]
    /\ UNCHANGED <<treeVars, ack, slip, approval, audit, release, pc, op, delivery, histVars>>

-----------------------------------------------------------------------------
(* acknowledge *)

\* The losses are shown, the operator confirms them, acknowledgment.json is written.
AckWrite(r) ==
    /\ Idle /\ state[r] # None
    /\ state[r].status = "awaiting_acknowledgment"
    /\ Intact(r)
    /\ ack' = ack \cup {r}
    /\ pc' = "ack"
    /\ op' = [run |-> r, state |-> state[r]]
    /\ UNCHANGED <<treeVars, report, state, slip, approval, audit, release, delivery, histVars>>

AckSave ==
    /\ pc = "ack"
    /\ SetState(op.run, "acknowledged")
    /\ Return
    /\ UNCHANGED <<treeVars, report, ack, slip, approval, audit, release, delivery, histVars>>

-----------------------------------------------------------------------------
(* materialize *)

\* Mutation of MayMaterialize: losses nobody acknowledged are accepted.
MayMaterializeUnasked(r) ==
    state[r].status \in {"resolved", "awaiting_acknowledgment", "acknowledged"}

\* Mutation of MayMaterialize: a materialized run is materialized again.
MayMaterializeAgain(r) == state[r].status \in {"resolved", "acknowledged", "materialized"}

\* _refuse_bad_status
MayMaterialize(r) == state[r].status \in {"resolved", "acknowledged"}

MatCheck(r) ==
    /\ Idle /\ state[r] # None
    /\ MayMaterialize(r)
    /\ Intact(r)
    /\ state[r].status = "resolved" => report[r] = "resolved"
    /\ pc' = "fetch"
    /\ op' = [run |-> r, state |-> state[r]]
    /\ UNCHANGED <<treeVars, diskVars, delivery, histVars>>

\* A download, a hash, a side or the budget refuses.
FetchRefused ==
    /\ pc = "fetch"
    /\ Return
    /\ UNCHANGED <<treeVars, diskVars, delivery, histVars>>

\* _assemble_slip, _seal_slip: the Compose hash is that of HEAD.
MatSeal ==
    /\ pc = "fetch"
    /\ slip' = [slip EXCEPT ![op.run] =
           [id |-> op.run, run |-> op.run, inputs |-> op.state.inputs,
            compose |-> head, stamp |-> now]]
    /\ Goto("sealed")
    /\ UNCHANGED <<treeVars, report, state, ack, approval, audit, release, delivery, histVars>>

MatSave ==
    /\ pc = "sealed"
    /\ SetState(op.run, "materialized")
    /\ Return
    /\ UNCHANGED <<treeVars, report, ack, slip, approval, audit, release, delivery, histVars>>

-----------------------------------------------------------------------------
(* iterate *)

\* run: the state is read here, and the boot may take three quarters of an hour.
IterateBegin(r) ==
    /\ Idle /\ state[r] # None
    /\ state[r].status = "materialized" /\ slip[r] # None
    /\ pc' = "boot"
    /\ op' = [run |-> r, state |-> state[r]]
    /\ UNCHANGED <<treeVars, diskVars, delivery, histVars>>

\* classify: exit code 0 and nothing fatal in the log.
BootSucceeds ==
    /\ pc = "boot"
    /\ Return
    /\ UNCHANGED <<treeVars, diskVars, delivery, histVars>>

\* An ambiguous boot, or one of the caps: the state as it was read, now failed.
BootFails ==
    /\ pc = "boot"
    /\ SetState(op.run, "failed")
    /\ Return
    /\ UNCHANGED <<treeVars, report, ack, slip, approval, audit, release, delivery, histVars>>

\* The tool could not test: nothing is said of the candidate.
CannotTest ==
    /\ pc = "boot"
    /\ Return
    /\ UNCHANGED <<treeVars, diskVars, delivery, histVars>>

-----------------------------------------------------------------------------
(* promote *)

\* _find_run_id_for_slip: exactly one candidate directory holds a slip.
Candidates == {r \in Runs : slip[r] # None}

PromoteLoad(t) ==
    /\ Idle
    /\ \E r \in Runs :
         /\ Candidates = {r} /\ state[r] # None
         /\ op' = [run |-> r, tag |-> t, state |-> state[r], slip |-> slip[r],
                   staged |-> FALSE, granted |-> NoGrant]
         /\ pc' = IF state[r].mode = "upgrade" THEN "reconcile" ELSE "gate"
    /\ UNCHANGED <<treeVars, diskVars, delivery, histVars>>

\* reconcile_compose: the Compose file with the runtime of the slip; the rest stays.
Reconciled == [compose EXCEPT !.runtime = op.slip.inputs.target]

\* apply_compose_diff: the file is staged only if it changed.
Reconcile ==
    /\ pc = "reconcile"
    /\ compose' = Reconciled
    /\ op' = [op EXCEPT !.staged = compose' # compose]
    /\ pc' = "reseal"
    /\ UNCHANGED <<inputs, head, index, diskVars, delivery, histVars>>

\* The candidate is sealed again around the Compose file of the working tree.
Reseal ==
    /\ pc = "reseal"
    /\ slip' = [slip EXCEPT ![op.run].compose = compose]
    /\ Goto("gate")
    /\ UNCHANGED <<treeVars, report, state, ack, approval, audit, release, delivery, histVars>>

\* Mutation of Authorizes: what was approved is not compared.
AuthorizesAny(record, s) ==
    /\ record # None
    /\ record.decision = "approved"
    /\ now < record.at + Expiry

\* verify_approval
Authorizes(record, s) ==
    /\ record # None
    /\ record.decision = "approved"
    /\ record.binding = s
    /\ now < record.at + Expiry

\* An existing release that differs is not overwritten; then the approval gate,
\* for the slip as it was before Compose was reconciled.
MayPromote ==
    /\ release[op.tag] \in {None, slip[op.run]}
    /\ Authorizes(approval[op.run], op.slip)

\* op.granted is history: the last word on the run when the gate was asked, and the hour.
GatePassed ==
    /\ pc = "gate"
    /\ MayPromote
    /\ op' = [op EXCEPT !.granted = [word |-> word[op.run], at |-> now]]
    /\ pc' = "copy"
    /\ UNCHANGED <<treeVars, diskVars, delivery, histVars>>

GateRefused ==
    /\ pc = "gate"
    /\ ~MayPromote
    /\ Return
    /\ UNCHANGED <<treeVars, diskVars, delivery, histVars>>

\* The approval is not asked for again: what the bot records and the clock does since the
\* gate, a rejection or an expiry, comes too late.
CopySlip ==
    /\ pc = "copy"
    /\ release' = [release EXCEPT ![op.tag] = slip[op.run]]
    /\ Goto("relabel")
    /\ UNCHANGED <<treeVars, report, state, ack, slip, approval, audit, delivery, histVars>>

\* _reseal_release_slip: the copy carries the tag as its identity.
Relabel ==
    /\ pc = "relabel"
    /\ release' = [release EXCEPT ![op.tag].id = op.tag]
    /\ Goto("stage")
    /\ UNCHANGED <<treeVars, report, state, ack, slip, approval, audit, delivery, histVars>>

\* The metadata of the candidate become the seed of the next resolution; then
\* _git_add, where Compose is staged only if this invocation changed it.
Stage ==
    /\ pc = "stage"
    /\ inputs' = [inputs EXCEPT !.seed = op.run]
    /\ index' = IF op.staged THEN compose ELSE index
    /\ Return
    /\ UNCHANGED <<compose, head, diskVars, delivery, histVars>>

StageFails ==
    /\ pc = "stage"
    /\ inputs' = [inputs EXCEPT !.seed = op.run]
    /\ Return
    /\ UNCHANGED <<compose, head, index, diskVars, delivery, histVars>>

Promote ==
    \/ \E t \in Tags : PromoteLoad(t)
    \/ Reconcile \/ Reseal \/ GatePassed \/ GateRefused \/ CopySlip \/ Relabel
    \/ Stage \/ StageFails

-----------------------------------------------------------------------------
(* approve and reject on the command line, without an interaction id. *)

\* build_binding_from_run: the fingerprints of the sealed slip, and the report's.
Binding(r) == slip[r]

\* The record becomes the current one; no lookup seeks its line in the audit log.
Decide(r, d) ==
    LET rec == [run |-> r, decision |-> d, binding |-> Binding(r), iid |-> None, at |-> now]
    IN /\ Idle /\ state[r] # None /\ slip[r] # None
       /\ approval' = [approval EXCEPT ![r] = rec]
       /\ word' = [word EXCEPT ![r] = rec]
       /\ UNCHANGED <<treeVars, report, state, ack, slip, release, audit, pc, op, delivery,
                      now, edits, crashes, clicked, muddled>>

-----------------------------------------------------------------------------
(* The same commands, run by the Discord bot. *)

\* Mutation of Recorded: only the current record of a run is looked at.
RecordedAsCurrent(i) ==
    i # None /\ \E r \in Runs : approval[r] # None /\ approval[r].iid = i

\* _lookup_interaction: the audit log is read from its beginning for the id.
Recorded(i) == i # None /\ audit[i] > 0

\* Deliveries of an interaction between their lookup and their audit record.
Writing(i) == {k \in Deliveries : delivery[k].pc \in {"write", "append"} /\ delivery[k].iid = i}

\* dispatch: a person uses /upgrade approve or /upgrade reject; every delivery of
\* the interaction, the first and the repeated ones, runs the command again.  It
\* builds the binding from state.toml and the sealed slip, without which it refuses,
\* and seeks the interaction; one that finds another delivery at work cannot know it.
Deliver(k, i, r, d) ==
    /\ clicked[i] \in {None, [run |-> r, decision |-> d]}
    /\ delivery[k] = NoTask
    /\ state[r] # None /\ slip[r] # None
    /\ ~Recorded(i)
    /\ clicked' = [clicked EXCEPT ![i] = [run |-> r, decision |-> d]]
    /\ delivery' = [delivery EXCEPT ![k] =
                   [pc |-> "write", iid |-> i,
                    record |-> [run |-> r, decision |-> d, binding |-> Binding(r),
                                iid |-> i, at |-> now]]]
    /\ muddled' = IF Writing(i) # {} THEN muddled \cup {i} ELSE muddled
    /\ UNCHANGED <<treeVars, diskVars, pc, op, now, edits, crashes, word>>

\* The earlier record is returned.
Replay(i) ==
    /\ clicked[i] # None
    /\ Recorded(i)
    /\ UNCHANGED vars

End(k) == delivery' = [delivery EXCEPT ![k] = NoTask]

\* The record becomes the current one; it is a person's word unless it repeats one.
WriteCurrent(k) ==
    LET rec == delivery[k].record IN
    /\ delivery[k].pc = "write"
    /\ approval' = [approval EXCEPT ![rec.run] = rec]
    /\ delivery' = [delivery EXCEPT ![k].pc = "append"]
    /\ word' = IF Recorded(rec.iid) THEN word ELSE [word EXCEPT ![rec.run] = rec]
    /\ UNCHANGED <<treeVars, report, state, ack, slip, audit, release, pc, op, now,
                   edits, crashes, clicked, muddled>>

AppendAudit(k) ==
    /\ delivery[k].pc = "append"
    /\ audit' = [i \in Clicks |->
                    IF i = delivery[k].iid THEN audit[i] + 1 ELSE audit[i]]
    /\ End(k)
    /\ UNCHANGED <<treeVars, report, state, ack, slip, approval, release, pc, op, histVars>>

\* invoke() kills a command after a minute, a write fails, or the bot goes down:
\* a record that is current and not in the audit log is one a replay cannot see.
\* (Before that record is written, to be killed is to wait for ever.)
Killed(k) ==
    /\ delivery[k].pc = "append"
    /\ muddled' = muddled \cup {delivery[k].iid}
    /\ End(k)
    /\ UNCHANGED <<treeVars, diskVars, pc, op, now, edits, crashes, clicked, word>>

Approvals ==
    \/ \E k \in Deliveries, i \in Clicks, r \in Runs, d \in Decisions :
         Deliver(k, i, r, d)
    \/ \E i \in Clicks : Replay(i)
    \/ \E k \in Deliveries : WriteCurrent(k) \/ AppendAudit(k) \/ Killed(k)

-----------------------------------------------------------------------------
(* The operator's editor, git and shell; the clock; crashes. *)

\* Bound: the world is left alone once every tag is taken.
Open == \E t \in Tags : release[t] = None

MayHappen == edits + crashes + now < MaxEvents

\* Files change at any time; an edit is put where the next command to read it starts.
EditInputs(target) ==
    /\ edits < MaxEdits /\ MayHappen /\ Open /\ Idle
    /\ \E r \in Runs : state[r] # None /\ slip[r] = None
    /\ inputs' = [inputs EXCEPT !.edit = @ + 1, !.target = target]
    /\ edits' = edits + 1
    /\ UNCHANGED <<compose, head, index, diskVars, pc, op, delivery, now, crashes,
                   clicked, word, muddled>>

EditCompose(runtime) ==
    /\ edits < MaxEdits /\ MayHappen /\ Open
    /\ pc \in {"idle", "reseal", "stage"}
    /\ compose' = [runtime |-> runtime, text |-> compose.text + 1]
    /\ edits' = edits + 1
    /\ UNCHANGED <<inputs, head, index, diskVars, pc, op, delivery, now, crashes,
                   clicked, word, muddled>>

\* `git commit` of what is staged, or `git commit -a`.
Commit ==
    /\ Idle
    /\ head' \in {compose, IF index = None THEN head ELSE index}
    /\ head' # head
    /\ index' = None
    /\ UNCHANGED <<inputs, compose, diskVars, pc, op, delivery, histVars>>

\* A candidate the operator has no use for is removed by hand.
Discard(r) ==
    /\ Idle /\ slip[r] # None
    /\ slip' = [slip EXCEPT ![r] = None]
    /\ UNCHANGED <<treeVars, report, state, ack, approval, audit, release, pc, op,
                   delivery, histVars>>

Tick ==
    /\ now < MaxNow /\ MayHappen /\ Open
    /\ Candidates # {}
    /\ now' = now + 1
    /\ UNCHANGED <<treeVars, diskVars, pc, op, delivery, edits, crashes, clicked, word,
                   muddled>>

Crash ==
    /\ ~Idle /\ crashes < MaxCrashes /\ MayHappen
    /\ Return
    /\ crashes' = crashes + 1
    /\ UNCHANGED <<treeVars, diskVars, delivery, now, edits, clicked, word, muddled>>

Environment ==
    \/ \E m \in Runtimes : EditInputs(m) \/ EditCompose(m)
    \/ Commit
    \/ \E r \in Runs : Discard(r)
    \/ Tick
    \/ Crash

Commands ==
    \/ \E r \in Runs, mode \in Modes,
          status \in {"resolved", "awaiting_acknowledgment", "failed"} :
         Update(r, mode, status)
    \/ \E r \in Runs : AckWrite(r) \/ MatCheck(r) \/ IterateBegin(r)
    \/ \E r \in Runs, d \in Decisions : Decide(r, d)
    \/ AckSave \/ FetchRefused \/ MatSeal \/ MatSave
    \/ BootSucceeds \/ BootFails \/ CannotTest

Next == Commands \/ Promote \/ Approvals \/ Environment

Spec == Init /\ [][Next]_vars

-----------------------------------------------------------------------------
(* Properties. *)

\* The records in flight have the form of the records on disk.
TaskOK(t) ==
    /\ t.pc \in {"free", "write", "append"}
    /\ t.pc \in {"write", "append"} =>
         t.record \in Records /\ t.iid \in Clicks /\ t.iid = t.record.iid

\* Every file holds what its reader accepts, whatever died while writing it.
TypeOK ==
    /\ inputs \in InputsType /\ compose \in ComposeType
    /\ head \in ComposeType /\ index \in ComposeType \cup {None}
    /\ report \in [Runs -> Statuses \cup {None}]
    /\ state \in [Runs -> RunStates \cup {None}]
    /\ ack \subseteq Runs
    /\ slip \in [Runs -> Slips \cup {None}]
    /\ approval \in [Runs -> Records \cup {None}]
    /\ audit \in [Clicks -> Nat]
    /\ release \in [Tags -> Slips \cup {None}]
    /\ ~Idle => op.run \in Runs /\ op.state \in RunStates
    /\ \A k \in Deliveries : TaskOK(delivery[k])
    /\ word \in [Runs -> Records \cup {None}]
    /\ muddled \subseteq Clicks

\* Only what Compose reconciliation may change tells the two slips apart.
SameCandidate(s, a) ==
    /\ <<s.run, s.inputs, s.stamp>> = <<a.run, a.inputs, a.stamp>>
    /\ state[s.run].mode = "update" => s.compose = a.compose

ApprovedWhenWritten ==
    \A t \in Tags :
       LET s == release'[t]
           w == op.granted.word
       IN s # None /\ s # release[t] /\ pc # "relabel" /\ muddled = {} =>
             /\ w # None /\ w.decision = "approved"
             /\ op.granted.at < w.at + Expiry
             /\ SameCandidate(s, w.binding)

\* A release is what a person approved: of every release that is written, the last word
\* on its run when the gate was asked was an approval, not expired at that hour, of the
\* very contents that are written, whatever was sealed again, rejected, replayed or
\* edited before (promote.py, approval.py).  A rejection or an expiry between the gate
\* and the copy comes too late.  Exempt: once an interaction's record is missing from
\* the audit log.
ReleasesWereApproved == [][ApprovedWhenWritten]_vars

\* "Discord replay attacks [are] harmless" (approval.py:346): an interaction is
\* recorded once, however often it is delivered and whatever was decided since.
ReplayHarmless ==
    \A i \in Clicks \ muddled :
        audit[i] + Cardinality(Writing(i)) <= 1

\* Mods are never lost silently: a sealed candidate whose report asks for an
\* acknowledgment has one on disk, whatever died on the way (acknowledge.py,
\* materialize.py).
LossesAcknowledged ==
    \A r \in Runs : slip[r] # None /\ report[r] = "awaiting_acknowledgment" => r \in ack

SealStands ==
    \A r \in Runs :
       slip[r] # None /\ state[r].status \in {"materialized", "failed"} =>
          \/ slip'[r] \in {None, slip[r]}
          \/ /\ state[r].mode = "upgrade"
             /\ slip'[r] = [slip[r] EXCEPT !.compose = slip'[r].compose]

\* What was sealed stays sealed: once a run is materialized its slip changes no more,
\* but for the Compose hash that an upgrade reconciles; it may be thrown away.
SealedIsImmutable == [][SealStands]_vars

\* "the slip must still record what will actually be committed" (promote.py:245):
\* the next commit of the index holds the Compose file of the release.
ReleaseRecordsCommit ==
    [][Stage => release[op.tag].compose = (IF index' = None THEN head ELSE index')]_vars

=============================================================================
