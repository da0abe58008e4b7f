------------------------------ MODULE Shipping ------------------------------
(* One shipping transaction: modpack_upgrade/shipping.py, ship().             *)
(* Files are told apart only by name and hash.  Unreadable stands for a jar    *)
(* whose hash cannot be read: the inventory scan leaves such a file out.       *)
(* The staging directory is not a variable: once staging has succeeded it      *)
(* holds every added and updated file at its source hash.                      *)
EXTENDS Naturals, Sequences

CONSTANTS File, Sha, Absent, Unreadable,
          Protected     \* the files the protect patterns match

ASSUME ShippingAssumption == /\ Absent \notin Sha
                             /\ Unreadable \notin Sha
                             /\ Absent # Unreadable
                             /\ Protected \subseteq File

Contents == Sha \cup {Absent, Unreadable}
Op == {"remove", "replace", "add"}
Record == [op : Op, file : File]

VARIABLES
    pre,        \* the target directory as the transaction found it
    source,     \* request.source_set
    target,     \* the target directory
    backup,     \* the sibling backup directory
    journal,    \* the operations of the journal after its snapshot record
    opened,     \* the journal holds its snapshot record
    undo,       \* how many journal records the rollback has still to undo
    pc,
    rollbackOK  \* result.rollback_succeeded

vars == <<pre, source, target, backup, journal, opened, undo, pc, rollbackOK>>
request == <<pre, source>>

Final == {"done", "failed", "raised", "crashed"}

\* _scan_jar_inventory: a file that cannot be read is left out.
Scan(dir) == [f \in File |-> IF dir[f] = Unreadable THEN Absent ELSE dir[f]]

\* Mutation of Removed: the protect patterns are not consulted.
RemovedIgnoringProtection ==
    {f \in File : source[f] = Absent /\ Scan(pre)[f] # Absent}

\* _compute_diff, over the inventory scanned at the start.
Removed == {f \in File \ Protected : source[f] = Absent /\ Scan(pre)[f] # Absent}
Updated == {f \in File : /\ source[f] # Absent
                         /\ Scan(pre)[f] \notin {Absent, source[f]}}
Added == {f \in File : source[f] # Absent /\ Scan(pre)[f] = Absent}

\* _expected_after_ship: the source set, and the protected files at their old hash.
Expected == [f \in File |-> IF source[f] = Absent /\ f \in Protected
                            THEN Scan(pre)[f] ELSE source[f]]

Applied == {journal[i].file : i \in 1..Len(journal)}

Init == /\ pre \in [File -> Contents]
        /\ source \in [File -> Sha \cup {Absent}]
        /\ target = pre
        /\ backup = [f \in File |-> Absent]
        /\ journal = <<>>
        /\ opened = FALSE
        /\ undo = 0
        /\ pc = "prepare"
        /\ rollbackOK = TRUE

Goto(from, to) == pc = from /\ pc' = to

-----------------------------------------------------------------------------
(* Scan, hash, diff; stage every added and updated file and check its hash. *)

\* A source that cannot be hashed fails the request before anything is touched.
PrepareFails == /\ Goto("prepare", "failed")
                /\ UNCHANGED <<request, target, backup, journal, opened, undo, rollbackOK>>

\* Nothing to add, update or remove: success with no transaction.
PrepareNoop == /\ Goto("prepare", "done")
               /\ Added \cup Updated \cup Removed = {}
               /\ UNCHANGED <<request, target, backup, journal, opened, undo, rollbackOK>>

Prepare == /\ Goto("prepare", "stage")
           /\ Added \cup Updated \cup Removed # {}
           /\ UNCHANGED <<request, target, backup, journal, opened, undo, rollbackOK>>

\* Every copy is staged and verified; then the journal is opened.
Stage == /\ Goto("stage", "backup")
         /\ opened' = TRUE
         /\ UNCHANGED <<request, target, backup, journal, undo, rollbackOK>>

\* A copy fails, or its hash is not the source's: rollback with no journal.
StageFails == /\ Goto("stage", "rollback")
              /\ UNCHANGED <<request, target, backup, journal, opened, undo, rollbackOK>>

-----------------------------------------------------------------------------
(* Back up the files that the transaction will remove or replace. *)

AllOf(fs) == \A f \in fs : backup[f] # Absent

BackupOne(f) == /\ pc = "backup"
                /\ f \in Updated \cup Removed
                /\ backup[f] = Absent
                /\ backup' = [backup EXCEPT ![f] = target[f]]
                /\ UNCHANGED <<request, target, journal, opened, undo, pc, rollbackOK>>

BackupFails == /\ Goto("backup", "rollback")
               /\ ~AllOf(Updated \cup Removed)
               /\ undo' = Len(journal)
               /\ UNCHANGED <<request, target, backup, journal, opened, rollbackOK>>

\* Mutation of BackupDone: only the replaced files are backed up.
BackupDoneTooEarly == /\ Goto("backup", "apply")
                      /\ AllOf(Updated)
                      /\ UNCHANGED <<request, target, backup, journal, opened, undo, rollbackOK>>

BackupDone == /\ Goto("backup", "apply")
              /\ AllOf(Updated \cup Removed)
              /\ UNCHANGED <<request, target, backup, journal, opened, undo, rollbackOK>>

-----------------------------------------------------------------------------
(* Apply: removals, then replacements, then additions.  Each operation is one *)
(* rename or unlink, followed by its journal record.                          *)

NextOp(op, f) ==
    \/ op = "remove" /\ f \in Removed \ Applied
    \/ op = "replace" /\ f \in Updated \ Applied /\ Removed \subseteq Applied
    \/ op = "add" /\ f \in Added \ Applied /\ Removed \cup Updated \subseteq Applied

Apply(op, f) == /\ pc = "apply"
                /\ NextOp(op, f)
                /\ target' = [target EXCEPT ![f] = source[f]]

ApplyOne(op, f) == /\ Apply(op, f)
                   /\ journal' = Append(journal, [op |-> op, file |-> f])
                   /\ UNCHANGED <<request, backup, opened, undo, pc, rollbackOK>>

\* The unlink or the rename fails: an UpgradeError, caught in ship().
ApplyFails(op, f) == /\ Goto("apply", "rollback")
                     /\ NextOp(op, f)
                     /\ undo' = Len(journal)
                     /\ UNCHANGED <<request, target, backup, journal, opened, rollbackOK>>

\* The operation is done and its journal record cannot be written: an OSError,
\* which ship() does not catch.
JournalFails(op, f) == /\ Apply(op, f)
                       /\ pc' = "raised"
                       /\ UNCHANGED <<request, backup, journal, opened, undo, rollbackOK>>

ApplyDone == /\ Goto("apply", "verify")
             /\ Added \cup Updated \cup Removed \subseteq Applied
             /\ UNCHANGED <<request, target, backup, journal, opened, undo, rollbackOK>>

-----------------------------------------------------------------------------
(* Verify, roll back, clean up. *)

NoBackup == [f \in File |-> Absent]

\* The scanned inventory is the expected one: success, both directories removed.
Verify == /\ Goto("verify", "done")
          /\ Scan(target) = Expected
          /\ backup' = NoBackup
          /\ UNCHANGED <<request, target, journal, opened, undo, rollbackOK>>

\* It is not, or some file of it cannot be read now.
VerifyFails == /\ Goto("verify", "rollback")
               /\ undo' = Len(journal)
               /\ UNCHANGED <<request, target, backup, journal, opened, rollbackOK>>

\* _undo_one on the last record not yet undone.  An addition is unlinked, a
\* removed or replaced file is moved back from the backup.
UndoOne == /\ pc = "rollback"
           /\ undo > 0
           /\ undo' = undo - 1
           /\ LET r == journal[undo] IN
              IF r.op = "add"
              THEN /\ target' = [target EXCEPT ![r.file] = Absent]
                   /\ UNCHANGED backup
              ELSE /\ target' = [target EXCEPT ![r.file] =
                             IF backup[r.file] = Absent THEN @ ELSE backup[r.file]]
                   /\ backup' = [backup EXCEPT ![r.file] = Absent]
           /\ UNCHANGED <<request, journal, opened, pc, rollbackOK>>

\* An OSError while undoing is suppressed: the next record is tried.
UndoFails == /\ pc = "rollback"
             /\ undo > 0
             /\ undo' = undo - 1
             /\ UNCHANGED <<request, target, backup, journal, opened, pc, rollbackOK>>

\* Mutation of RollbackSucceeds: the restored inventory is not compared.
RollbackUnchecked == /\ Goto("rollback", "failed")
                     /\ undo = 0
                     /\ backup' = NoBackup
                     /\ UNCHANGED <<request, target, journal, opened, undo, rollbackOK>>

\* The inventory is the snapshot's again (or the journal was never opened):
\* the rollback succeeded and the backup is removed.
RollbackSucceeds == /\ Goto("rollback", "failed")
                    /\ undo = 0
                    /\ ~opened \/ Scan(target) = Scan(pre)
                    /\ backup' = NoBackup
                    /\ UNCHANGED <<request, target, journal, opened, undo, rollbackOK>>

\* It is not, or some file cannot be read: the backup stays for the operator.
RollbackFails == /\ Goto("rollback", "failed")
                 /\ undo = 0
                 /\ opened
                 /\ rollbackOK' = FALSE
                 /\ UNCHANGED <<request, target, backup, journal, opened, undo>>

-----------------------------------------------------------------------------
(* An OSError outside the guarded calls (mkdir, listing the directory, hashing *)
(* a staged or backed up file, opening the journal) leaves ship() as an        *)
(* exception; the process may die between any two steps.                       *)

Raise == /\ pc \in {"prepare", "stage", "backup", "verify", "rollback"}
         /\ pc' = "raised"
         /\ UNCHANGED <<request, target, backup, journal, opened, undo, rollbackOK>>

Crash == /\ pc \notin Final
         /\ pc' = "crashed"
         /\ UNCHANGED <<request, target, backup, journal, opened, undo, rollbackOK>>

Next == \/ PrepareFails \/ PrepareNoop \/ Prepare
        \/ Stage \/ StageFails
        \/ \E f \in File : BackupOne(f)
        \/ BackupFails \/ BackupDone
        \/ \E op \in Op, f \in File :
              ApplyOne(op, f) \/ ApplyFails(op, f) \/ JournalFails(op, f)
        \/ ApplyDone
        \/ Verify \/ VerifyFails
        \/ UndoOne \/ UndoFails \/ RollbackSucceeds \/ RollbackFails
        \/ Raise \/ Crash

Spec == Init /\ [][Next]_vars

-----------------------------------------------------------------------------
(* Properties. *)

\* Type correctness of the transaction's state.
TypeOK == /\ pre \in [File -> Contents]
          /\ source \in [File -> Sha \cup {Absent}]
          /\ target \in [File -> Contents]
          /\ backup \in [File -> Contents]
          /\ journal \in Seq(Record)
          /\ opened \in BOOLEAN
          /\ undo \in 0..Len(journal)
          /\ pc \in {"prepare", "stage", "backup", "apply", "verify", "rollback"} \cup Final
          /\ rollbackOK \in BOOLEAN

\* No jar the scan could read is ever lost before the transaction has
\* succeeded: in every state, also after a crash, an escaped exception or a
\* failed rollback, its old bytes are in the target or in the backup.
NoJarLost ==
    \A f \in File : pc # "done" /\ pre[f] \in Sha => pre[f] \in {target[f], backup[f]}

\* A protected jar that the release does not ship is never touched, on any path.
ProtectedUntouched ==
    \A f \in Protected : source[f] = Absent => target[f] = pre[f]

\* The transaction is logically atomic (shipping.py:27-31): committed or as
\* before; only an escaped exception, a crash or a rollback reported as failed
\* leaves a mixture.
Logical == INSTANCE LogicalTransaction WITH
    wanted <- source,
    inventory <- IF pc \in Final THEN Scan(target) ELSE Scan(pre),
    phase <- CASE pc \notin Final -> "open"
               [] pc = "done" -> "committed"
               [] pc = "failed" /\ rollbackOK -> "aborted"
               [] OTHER -> "torn"
LogicallyAtomic == Logical!Spec
=============================================================================
