---------------------------- MODULE FileProofs ------------------------------
(* Proofs about the two components that write an instance's files.  Shipping:  *)
(* for every set of jars, every pair of a directory and a source set, and      *)
(* every length of the journal.  Scopes: for every set of mods, requests,      *)
(* properties, packs and attacks of the outside world.                         *)
EXTENDS Shipping, Scopes, FiniteSetTheorems, WellFoundedInduction, TLAPS

(* The inductive invariant.  NoJarLost alone is not inductive: that a removal  *)
(* is safe rests on the backups being complete while operations are applied,   *)
(* that an undone addition is safe on the journal naming only added files, and *)
(* that a rollback without a journal is one on nothing having been applied.    *)

\* A backup holds the old bytes of its file.
BackupsTrue == \A f \in File : backup[f] \in {Absent, pre[f]}

\* While operations are applied and checked every backup is there.
BackupsComplete == pc \in {"apply", "verify"} =>
                       \A f \in Updated \cup Removed : backup[f] = pre[f]

\* A record is in the journal under the bucket of its file.
JournalTrue == \A i \in 1..Len(journal) :
                   /\ journal[i].op = "add" => journal[i].file \in Added
                   /\ journal[i].op # "add" => journal[i].file \in Updated \cup Removed

\* Nothing is applied before the journal is opened and the backups are made.
NothingYet == /\ ~opened => target = pre /\ journal = <<>>
              /\ pc \in {"prepare", "stage", "backup"} => target = pre
              /\ pc \in {"backup", "apply", "verify"} => opened

\* Every file is seen as it was or as the source has it, and a file of no
\* bucket is untouched.
EitherWay == /\ \A f \in File : Scan(target)[f] \in {Scan(pre)[f], source[f]}
             /\ \A f \in File : f \in Added \cup Updated \cup Removed
                                \/ target[f] = pre[f]

\* A rollback is reported as failed only at the end.
NotYetFailed == pc \notin Final => rollbackOK

\* The inductive invariant of a transaction.
Inv == /\ TypeOK
       /\ BackupsTrue
       /\ BackupsComplete
       /\ JournalTrue
       /\ NothingYet
       /\ EitherWay
       /\ NotYetFailed
       /\ NoJarLost

\* The buckets of the diff are disjoint, and only an added file may be one
\* whose old bytes the scan could not read.
LEMMA Buckets ==
    ASSUME TypeOK
    PROVE /\ Added \cap (Updated \cup Removed) = {}
          /\ \A f \in Added : pre[f] \notin Sha
          /\ \A f \in Updated \cup Removed : pre[f] \in Sha
          /\ \A f \in Removed : source[f] = Absent
          /\ \A f \in Updated \cup Added : source[f] \in Sha
          /\ \A f \in Protected : source[f] = Absent =>
                                      f \notin Added \cup Updated \cup Removed
BY ShippingAssumption DEF TypeOK, Contents, Added, Updated, Removed, Scan

\* The state a transaction starts in satisfies the invariant.
LEMMA InitInv == Init => Inv
<1> SUFFICES ASSUME Init PROVE Inv
  OBVIOUS
<1>1. TypeOK
  <2>1. journal \in Seq(Record) /\ undo \in 0..Len(journal)
    BY DEF Init
  <2>2. /\ pre \in [File -> Contents] /\ source \in [File -> Sha \cup {Absent}]
        /\ target \in [File -> Contents] /\ backup \in [File -> Contents]
    BY DEF Init, Contents
  <2>3. opened \in BOOLEAN /\ pc = "prepare" /\ rollbackOK \in BOOLEAN
    BY DEF Init
  <2> QED
    BY <2>1, <2>2, <2>3 DEF TypeOK
<1>2. BackupsTrue /\ BackupsComplete /\ JournalTrue /\ NothingYet /\ NotYetFailed
  BY DEF Init, BackupsTrue, BackupsComplete, JournalTrue, NothingYet, NotYetFailed
<1>3. EitherWay
  BY DEF Init, EitherWay, Scan
<1>4. NoJarLost
  BY DEF Init, NoJarLost
<1> QED
  BY <1>1, <1>2, <1>3, <1>4 DEF Inv

\* The steps that leave every file, backup and record alone.
Quiet == \/ PrepareFails \/ PrepareNoop \/ Prepare \/ Stage
         \/ StageFails \/ BackupFails \/ BackupDone
         \/ \E op \in Op, f \in File : ApplyFails(op, f)
         \/ ApplyDone \/ VerifyFails \/ UndoFails \/ RollbackFails
         \/ Raise \/ Crash

\* A quiet step preserves the invariant.
LEMMA QuietInv == Inv /\ Quiet => Inv'
<1> SUFFICES ASSUME Inv, Quiet PROVE Inv'
  OBVIOUS
<1>1. UNCHANGED <<pre, source, target, backup, journal>>
  BY DEF Quiet, PrepareFails, PrepareNoop, Prepare, Stage, StageFails, BackupFails,
         BackupDone, ApplyFails, ApplyDone, VerifyFails, UndoFails, RollbackFails,
         Raise, Crash, request
<1>2. undo' \in 0..Len(journal)
  BY DEF Quiet, PrepareFails, PrepareNoop, Prepare, Stage, StageFails, BackupFails,
         BackupDone, ApplyFails, ApplyDone, VerifyFails, UndoFails, RollbackFails,
         Raise, Crash, Inv, TypeOK
<1>3. /\ pc' \in {"stage", "backup", "apply", "verify", "rollback"} \cup Final
      /\ pc' = "done" => pc = "prepare"
      /\ pc' = "apply" => pc = "backup" /\ AllOf(Updated \cup Removed)
      /\ pc' = "verify" => pc = "apply"
      /\ pc' \in {"stage", "backup"} => pc \in {"prepare", "stage"}
      /\ pc' = "backup" => opened'
      /\ opened' = opened \/ (pc = "stage" /\ opened' = TRUE)
      /\ rollbackOK' = rollbackOK \/ (pc' \in Final /\ rollbackOK' = FALSE)
      /\ pc \notin Final
  BY DEF Quiet, PrepareFails, PrepareNoop, Prepare, Stage, StageFails, BackupFails,
         BackupDone, ApplyFails, ApplyDone, VerifyFails, UndoFails, RollbackFails,
         Raise, Crash, Goto, Final, Inv, TypeOK
<1>4. TypeOK'
  BY <1>1, <1>2, <1>3 DEF Inv, TypeOK
<1>5. BackupsTrue' /\ JournalTrue'
  BY <1>1 DEF Inv, BackupsTrue, JournalTrue, Added, Updated, Removed, Scan
<1>6. BackupsComplete'
  <2>1. pc = "backup" /\ AllOf(Updated \cup Removed) =>
            \A f \in Updated \cup Removed : backup[f] = pre[f]
    BY DEF AllOf, Inv, BackupsTrue, Updated, Removed
  <2> QED
    BY <1>1, <1>3, <2>1 DEF Inv, BackupsComplete, Updated, Removed, Scan
<1>7. NothingYet'
  BY <1>1, <1>3 DEF Inv, TypeOK, NothingYet, Final
<1>8. EitherWay'
  BY <1>1 DEF Inv, EitherWay, Added, Updated, Removed, Scan
<1>9. NotYetFailed'
  <2>1. pc \notin Final /\ rollbackOK
    BY <1>3 DEF Inv, NotYetFailed
  <2>2. rollbackOK' = rollbackOK \/ pc' \in Final
    BY <1>3
  <2> QED
    BY <2>1, <2>2, Zenon DEF NotYetFailed
<1>10. NoJarLost'
  <2>1. CASE pc' # "done"
    BY <1>1, <1>3, <2>1 DEF Inv, NoJarLost, Final
  <2>2. CASE pc' = "done"
    BY <2>2 DEF NoJarLost
  <2> QED
    BY <2>1, <2>2
<1> QED
  BY <1>4, <1>5, <1>6, <1>7, <1>8, <1>9, <1>10 DEF Inv

\* Backing up one file: the target still is as it was found.
LEMMA BackupOneInv == ASSUME Inv, NEW f \in File, BackupOne(f) PROVE Inv'
<1>1. /\ UNCHANGED <<pre, source, target, journal, opened, undo, pc, rollbackOK>>
      /\ backup' = [backup EXCEPT ![f] = pre[f]]
      /\ pc = "backup" /\ target = pre
  BY DEF BackupOne, request, Inv, NothingYet
<1>2. TypeOK'
  BY <1>1 DEF Inv, TypeOK, Contents
<1>3. BackupsTrue' /\ BackupsComplete' /\ JournalTrue' /\ NothingYet' /\ EitherWay'
      /\ NotYetFailed'
  BY <1>1 DEF Inv, TypeOK, BackupsTrue, BackupsComplete, JournalTrue, NothingYet,
              EitherWay, NotYetFailed, Added, Updated, Removed, Scan
<1>4. NoJarLost'
  BY <1>1 DEF Inv, TypeOK, NoJarLost
<1> QED
  BY <1>2, <1>3, <1>4 DEF Inv

\* Applying one operation, whether or not its record is written.
LEMMA ApplyInv ==
    ASSUME Inv, NEW op \in Op, NEW f \in File,
           ApplyOne(op, f) \/ JournalFails(op, f)
    PROVE  Inv'
<1>1. /\ UNCHANGED <<pre, source, backup, opened, undo, rollbackOK>>
      /\ target' = [target EXCEPT ![f] = source[f]]
      /\ pc = "apply" /\ pc' \in {"apply", "raised"}
      /\ NextOp(op, f)
  BY DEF ApplyOne, JournalFails, Apply, request
<1>2. /\ op = "add" => f \in Added
      /\ op # "add" => f \in Updated \cup Removed
  BY <1>1 DEF NextOp, Op
<1>3. journal' = journal \/ journal' = Append(journal, [op |-> op, file |-> f])
  BY DEF ApplyOne, JournalFails
<1>4. TypeOK'
  <2>1. [op |-> op, file |-> f] \in Record
    BY DEF Record
  <2>2. journal' \in Seq(Record) /\ Len(journal') >= Len(journal)
    BY <1>3, <2>1 DEF Inv, TypeOK
  <2> QED
    BY <1>1, <2>2 DEF Inv, TypeOK, Contents, Final
<1>5. BackupsTrue' /\ BackupsComplete'
  BY <1>1 DEF Inv, BackupsTrue, BackupsComplete, Updated, Removed, Scan
<1>6. JournalTrue'
  <2> SUFFICES ASSUME NEW i \in 1..Len(journal')
               PROVE /\ journal'[i].op = "add" => journal'[i].file \in Added
                     /\ journal'[i].op # "add" => journal'[i].file \in Updated \cup Removed
    BY <1>1 DEF JournalTrue, Added, Updated, Removed, Scan
  <2>1. CASE i \in 1..Len(journal)
    <3>1. journal'[i] = journal[i]
      BY <1>3, <2>1 DEF Inv, TypeOK
    <3> QED
      BY <2>1, <3>1 DEF Inv, JournalTrue
  <2>2. CASE i \notin 1..Len(journal)
    <3>1. journal'[i] = [op |-> op, file |-> f]
      BY <1>3, <2>2 DEF Inv, TypeOK
    <3> QED
      BY <1>2, <3>1
  <2> QED
    BY <2>1, <2>2
<1>7. NothingYet' /\ NotYetFailed'
  BY <1>1 DEF Inv, NothingYet, NotYetFailed, Final
<1>8. EitherWay'
  <2>1. \A g \in File : g # f => target'[g] = target[g]
    BY <1>1 DEF Inv, TypeOK
  <2>2. target'[f] = source[f] /\ source[f] # Unreadable
    BY <1>1, ShippingAssumption DEF Inv, TypeOK
  <2>3. f \in Added \cup Updated \cup Removed
    BY <1>2
  <2> QED
    BY <1>1, <2>1, <2>2, <2>3 DEF Inv, EitherWay, Scan, Added, Updated, Removed
<1>9. NoJarLost'
  <2> SUFFICES ASSUME NEW g \in File, pre[g] \in Sha
               PROVE pre[g] \in {target'[g], backup[g]}
    BY <1>1 DEF NoJarLost
  <2>1. CASE g # f
    BY <1>1, <2>1 DEF Inv, TypeOK, NoJarLost
  <2>2. CASE g = f
    BY <1>1, <1>2, <2>2, Buckets DEF Inv, BackupsComplete
  <2> QED
    BY <2>1, <2>2
<1> QED
  BY <1>4, <1>5, <1>6, <1>7, <1>8, <1>9 DEF Inv
\* Undoing one record.
LEMMA UndoOneInv == Inv /\ UndoOne => Inv'
<1> SUFFICES ASSUME Inv, UndoOne PROVE Inv'
  OBVIOUS
<1> DEFINE r == journal[undo]
           f == r.file
<1>1. /\ UNCHANGED <<pre, source, journal, opened, pc, rollbackOK>>
      /\ pc = "rollback" /\ undo' = undo - 1 /\ undo \in 1..Len(journal)
  BY DEF UndoOne, request, Inv, TypeOK
<1>2. r \in Record /\ f \in File /\ f \in Added \cup Updated \cup Removed
  <2>1. r \in Record
    BY <1>1 DEF Inv, TypeOK
  <2>2. f \in File
    BY <2>1 DEF Record
  <2>3. f \in Added \cup Updated \cup Removed
    BY <1>1 DEF Inv, JournalTrue
  <2> QED
    BY <2>1, <2>2, <2>3
<1>3. CASE r.op = "add"
  <2>1. target' = [target EXCEPT ![f] = Absent] /\ backup' = backup /\ f \in Added
    BY <1>1, <1>3 DEF UndoOne, Inv, JournalTrue
  <2>2. TypeOK'
    BY <1>1, <1>2, <2>1 DEF Inv, TypeOK, Contents
  <2>3. BackupsTrue' /\ BackupsComplete' /\ JournalTrue' /\ NotYetFailed'
    BY <1>1, <2>1 DEF Inv, BackupsTrue, BackupsComplete, JournalTrue, NotYetFailed,
                      Added, Updated, Removed, Scan
  <2>4. EitherWay'
    BY <1>1, <1>2, <2>1 DEF Inv, TypeOK, EitherWay, Scan, Added, Updated, Removed
  <2>5. NoJarLost'
    BY <1>1, <1>2, <2>1, Buckets DEF Inv, TypeOK, NoJarLost
  <2>6. NothingYet'
    BY <1>1, <1>2 DEF Inv, TypeOK, NothingYet
  <2> QED
    BY <2>2, <2>3, <2>4, <2>5, <2>6 DEF Inv
<1>4. CASE r.op # "add"
  <2>1. /\ target' = [target EXCEPT ![f] = IF backup[f] = Absent THEN @ ELSE backup[f]]
        /\ backup' = [backup EXCEPT ![f] = Absent]
    BY <1>1, <1>4 DEF UndoOne
  <2>2. TypeOK'
    BY <1>1, <1>2, <2>1 DEF Inv, TypeOK, Contents
  <2>3. BackupsTrue' /\ BackupsComplete' /\ JournalTrue' /\ NotYetFailed'
    BY <1>1, <2>1 DEF Inv, TypeOK, BackupsTrue, BackupsComplete, JournalTrue,
                      NotYetFailed, Added, Updated, Removed, Scan
  <2>4. EitherWay'
    BY <1>1, <1>2, <2>1 DEF Inv, TypeOK, BackupsTrue, EitherWay, Scan,
                            Added, Updated, Removed
  <2>5. NoJarLost'
    BY <1>1, <1>2, <2>1, ShippingAssumption DEF Inv, TypeOK, BackupsTrue, NoJarLost
  <2>6. NothingYet'
    BY <1>1, <1>2, <2>1 DEF Inv, TypeOK, NothingYet, BackupsTrue
  <2> QED
    BY <2>2, <2>3, <2>4, <2>5, <2>6 DEF Inv
<1> QED
  BY <1>3, <1>4

\* The two ends of a transaction that remove the backup directory.
LEMMA CleanupInv == Inv /\ (Verify \/ RollbackSucceeds) => Inv'
<1> SUFFICES ASSUME Inv, Verify \/ RollbackSucceeds PROVE Inv'
  OBVIOUS
<1>1. /\ UNCHANGED <<pre, source, target, journal, opened, undo, rollbackOK>>
      /\ backup' = NoBackup
      /\ pc' \in {"done", "failed"}
      /\ pc' = "failed" => ~opened \/ Scan(target) = Scan(pre)
  BY DEF Verify, RollbackSucceeds, Goto, request
<1>2. TypeOK'
  BY <1>1 DEF Inv, TypeOK, NoBackup, Contents, Final
<1>3. BackupsTrue' /\ BackupsComplete' /\ JournalTrue' /\ NotYetFailed' /\ NothingYet'
      /\ EitherWay'
  BY <1>1 DEF Inv, TypeOK, BackupsTrue, BackupsComplete, JournalTrue, NotYetFailed,
              NothingYet, EitherWay, NoBackup, Added, Updated, Removed, Scan, Final
<1>4. NoJarLost'
  <2> SUFFICES ASSUME pc' = "failed", NEW g \in File, pre[g] \in Sha
               PROVE pre[g] = target[g]
    BY <1>1 DEF NoJarLost
  <2>1. CASE ~opened
    BY <2>1 DEF Inv, NothingYet
  <2>2. CASE Scan(target) = Scan(pre)
    <3>1. Scan(target)[g] = Scan(pre)[g]
      BY <2>2
    <3> QED
      BY <3>1, ShippingAssumption DEF Scan
  <2> QED
    BY <1>1, <2>1, <2>2
<1> QED
  BY <1>2, <1>3, <1>4 DEF Inv

\* Every step of the transaction preserves the invariant.
LEMMA NextInv == Inv /\ [Next]_vars => Inv'
<1> SUFFICES ASSUME Inv, [Next]_vars PROVE Inv'
  OBVIOUS
<1>1. CASE Quiet
  BY <1>1, QuietInv
<1>2. ASSUME NEW f \in File, BackupOne(f) PROVE Inv'
  BY <1>2, BackupOneInv
<1>3. ASSUME NEW op \in Op, NEW f \in File, ApplyOne(op, f) \/ JournalFails(op, f)
      PROVE Inv'
  BY <1>3, ApplyInv
<1>4. CASE UndoOne
  BY <1>4, UndoOneInv
<1>5. CASE Verify \/ RollbackSucceeds
  BY <1>5, CleanupInv
<1>6. CASE UNCHANGED vars
  BY <1>6 DEF vars, Inv, TypeOK, BackupsTrue, BackupsComplete, JournalTrue, NothingYet,
              EitherWay, NotYetFailed, NoJarLost, Added, Updated, Removed, Scan
<1> QED
  BY <1>1, <1>2, <1>3, <1>4, <1>5, <1>6 DEF Next, Quiet

\* The invariant holds of every transaction.
THEOREM Invariance == Spec => []Inv
<1> QED
  BY InitInv, NextInv, PTL DEF Spec

\* The state of a transaction is well typed, whatever the jars and the hashes.
THEOREM TypeCorrect == Spec => []TypeOK
<1>1. Inv => TypeOK
  BY DEF Inv
<1> QED
  BY <1>1, Invariance, PTL

\* No readable jar is lost before the transaction has succeeded: its old bytes
\* are in the target or in the backup in every state, also after a crash.
THEOREM JarsSafe == Spec => []NoJarLost
<1>1. Inv => NoJarLost
  BY DEF Inv
<1> QED
  BY <1>1, Invariance, PTL

\* A protected jar outside the release is never touched.
THEOREM ProtectedSafe == Spec => []ProtectedUntouched
<1>1. Inv => ProtectedUntouched
  BY ShippingAssumption, Buckets DEF Inv, EitherWay, ProtectedUntouched
<1> QED
  BY <1>1, Invariance, PTL
-----------------------------------------------------------------------------
(* The transaction implements the abstract one.  A step that leaves the        *)
(* transaction open is a stutter; a step that ends it commits, aborts or tears.*)

\* The initial states map to those of the atomic transaction.
LEMMA InitLogical == Init => Logical!Init
BY ShippingAssumption DEF Init, Logical!Init, Scan, Contents, Final

\* With nothing to add, update or remove the inventory is the one expected.
LEMMA NothingToDo ==
    ASSUME TypeOK, Added \cup Updated \cup Removed = {}
    PROVE  Scan(pre) = Expected
<1> SUFFICES ASSUME NEW f \in File
             PROVE Scan(pre)[f] = IF source[f] = Absent /\ f \in Protected
                                  THEN Scan(pre)[f] ELSE source[f]
  BY DEF Scan, Expected
<1>1. f \notin Added /\ f \notin Updated /\ f \notin Removed
  OBVIOUS
<1> QED
  BY <1>1 DEF Added, Updated, Removed

\* A step is one of the atomic transaction, or changes nothing that it shows.
LEMMA StepLogical == Inv /\ [Next]_vars => [Logical!Next]_(Logical!vars)
<1> SUFFICES ASSUME Inv, [Next]_vars PROVE [Logical!Next]_(Logical!vars)
  OBVIOUS
<1>0. CASE UNCHANGED vars
  BY <1>0 DEF vars, Logical!vars, Scan
<1> SUFFICES ASSUME Next PROVE [Logical!Next]_(Logical!vars)
  BY <1>0
<1>1. pc \notin Final /\ rollbackOK = TRUE /\ UNCHANGED <<pre, source>>
  BY DEF Next, PrepareFails, PrepareNoop, Prepare, Stage, StageFails, BackupOne,
         BackupFails, BackupDone, ApplyOne, ApplyFails, JournalFails, Apply, ApplyDone,
         Verify, VerifyFails, UndoOne, UndoFails, RollbackSucceeds, RollbackFails,
         Raise, Crash, Goto, request, Final, Inv, TypeOK, NotYetFailed
<1>2. Inv'
  BY NextInv
<1>3. CASE pc' \notin Final
  BY <1>1, <1>3 DEF Logical!vars, Scan, Final
<1>4. CASE PrepareNoop \/ Verify
  <2>1. pc' = "done" /\ UNCHANGED <<target, source, pre>>
    BY <1>1, <1>4 DEF PrepareNoop, Verify, Goto
  <2>2. Scan(target) = Expected
    BY <1>4, NothingToDo DEF PrepareNoop, Verify, Goto, Inv, NothingYet
  <2>3. Scan(target)' = Expected
    BY <2>1, <2>2 DEF Scan
  <2> QED
    BY <1>1, <2>1, <2>3 DEF Logical!Next, Logical!Commit, Expected, Scan, Final
<1>5. CASE PrepareFails \/ RollbackSucceeds
  <2>1. pc' = "failed" /\ UNCHANGED <<target, source, pre, rollbackOK>>
    BY <1>1, <1>5 DEF PrepareFails, RollbackSucceeds, Goto
  <2>2. Scan(target) = Scan(pre)
    BY <1>5 DEF PrepareFails, RollbackSucceeds, Goto, Inv, NothingYet
  <2> QED
    BY <1>1, <2>1, <2>2 DEF Logical!Next, Logical!Abort, Scan, Final
<1>6. ASSUME \/ pc' \in {"raised", "crashed"}
             \/ pc' = "failed" /\ rollbackOK' = FALSE
      PROVE Logical!Tear
  <2>1. Scan(target)' \in [File -> Sha \cup {Absent}]
    BY <1>2, ShippingAssumption DEF Inv, TypeOK, Contents, Scan
  <2>2. \A f \in File : Scan(target)'[f] \in {Scan(pre)[f], source[f]}
    BY <1>1, <1>2 DEF Inv, EitherWay, Scan
  <2> QED
    BY <1>1, <1>6, <2>1, <2>2 DEF Logical!Tear, Final
<1>7. \/ pc' \notin Final
      \/ PrepareNoop \/ Verify \/ PrepareFails \/ RollbackSucceeds
      \/ pc' \in {"raised", "crashed"}
      \/ pc' = "failed" /\ rollbackOK' = FALSE
  BY <1>1 DEF Next, Prepare, Stage, StageFails, BackupOne, BackupFails, BackupDone,
         ApplyOne, ApplyFails, JournalFails, Apply, ApplyDone, VerifyFails, UndoOne,
         UndoFails, RollbackFails, Raise, Crash, Goto, Final
<1> QED
  BY <1>3, <1>4, <1>5, <1>6, <1>7 DEF Logical!Next

\* Every behaviour of ship() is one of the abstract transaction: committed, or
\* as it was, unless it raised, crashed or reported its rollback as failed.
THEOREM Atomicity == Spec => LogicallyAtomic
<1>1. Spec => Logical!Init /\ [][Logical!Next]_(Logical!vars)
  BY InitLogical, StepLogical, Invariance, PTL DEF Spec
<1> QED
  BY <1>1 DEF LogicallyAtomic, Logical!Spec
-----------------------------------------------------------------------------
(* Scopes: which jars belong on a side.  The closure over what a jar requires  *)
(* is a recursive function.  That it is the least closed set with the seeds is *)
(* shown of the sequence of sets it is the last of: were a claim wrong of some *)
(* of these sets, it would be wrong of a first one, which follows from the one *)
(* before it.                                                                  *)

\* A set of natural numbers that is not empty has a smallest element.
LEMMA Smallest ==
    ASSUME NEW T \in SUBSET Nat, T # {}
    PROVE  \E x \in T : \A y \in T : x <= y
<1> DEFINE R == {ss \in Nat \X Nat : ss[1] < ss[2]}
<1>1. IsWellFoundedOn(R, Nat)
  BY NatLessThanWellFounded DEF OpToRel
<1>2. \E x \in T : \A y \in T : ~ (<<y, x>> \in R)
  <2> HIDE DEF R
  <2> QED
    BY <1>1, WFMin
<1>3. ASSUME NEW x \in Nat, NEW y \in Nat, y < x PROVE <<y, x>> \in R
  <2>1. <<y, x>> \in Nat \X Nat /\ <<y, x>>[1] = y /\ <<y, x>>[2] = x
    OBVIOUS
  <2> QED
    BY <2>1, <1>3
<1> HIDE DEF R
<1>4. PICK x \in T : \A y \in T : ~ (<<y, x>> \in R)
  BY <1>2
<1>5. ASSUME NEW y \in T PROVE x <= y
  <2>1. x \in Nat /\ y \in Nat
    OBVIOUS
  <2>2. ~(y < x)
    BY <1>4, <1>3, <2>1
  <2> QED
    BY <2>1, <2>2
<1> QED
  BY <1>5

\* A set grows from A in N steps by what F adds to it.
GrowsBy(g, N, A, F) ==
    \A n \in 0..N : g[n] = IF n = 0 THEN A ELSE g[n - 1] \cup F[g[n - 1]]

\* There is such a growth, of every length.
LEMMA Grows ==
    ASSUME NEW D, NEW A \in SUBSET D, NEW F \in [SUBSET D -> SUBSET D], NEW N \in Nat
    PROVE  \E g \in [0..N -> SUBSET D] : GrowsBy(g, N, A, F)
<1> DEFINE Good(k) == \E g \in [0..k -> SUBSET D] :
               \A n \in 0..k : g[n] = IF n = 0 THEN A ELSE g[n - 1] \cup F[g[n - 1]]
           Bad == {k \in Nat : ~Good(k)}
<1>1. Good(0)
  <2> DEFINE g == [n \in 0..0 |-> A]
  <2>1. g \in [0..0 -> SUBSET D] /\ \A n \in 0..0 : n = 0 /\ g[n] = A
    OBVIOUS
  <2> HIDE DEF g
  <2> QED
    BY <2>1
<1>2. ASSUME NEW k \in Nat, Good(k) PROVE Good(k + 1)
  <2>1. PICK g \in [0..k -> SUBSET D] :
            \A n \in 0..k : g[n] = IF n = 0 THEN A ELSE g[n - 1] \cup F[g[n - 1]]
    BY <1>2
  <2> DEFINE h == [n \in 0..(k + 1) |-> IF n = k + 1 THEN g[k] \cup F[g[k]] ELSE g[n]]
  <2>2. g[k] \in SUBSET D /\ F[g[k]] \in SUBSET D
    OBVIOUS
  <2>3. h \in [0..(k + 1) -> SUBSET D]
    BY <2>2
  <2>4. /\ \A n \in 0..k : h[n] = g[n]
        /\ h[k + 1] = g[k] \cup F[g[k]]
    OBVIOUS
  <2> HIDE DEF h
  <2>5. ASSUME NEW n \in 0..(k + 1)
        PROVE h[n] = IF n = 0 THEN A ELSE h[n - 1] \cup F[h[n - 1]]
    <3>1. CASE n = k + 1
      <4>1. n - 1 = k /\ n # 0 /\ k \in 0..k
        BY <3>1
      <4> QED
        BY <3>1, <4>1, <2>4
    <3>2. CASE n \in 0..k /\ n # 0
      <4>1. n - 1 \in 0..k
        BY <3>2
      <4> QED
        BY <3>2, <4>1, <2>1, <2>4
    <3>3. CASE n = 0
      BY <3>3, <2>1, <2>4
    <3> QED
      BY <3>1, <3>2, <3>3
  <2> QED
    BY <2>3, <2>5
<1>3. ASSUME Bad # {} PROVE FALSE
  <2> HIDE DEF Good
  <2>1. PICK k \in Bad : \A i \in Bad : k <= i
    BY <1>3, Smallest
  <2>2. k # 0 /\ k - 1 \in Nat /\ k - 1 \notin Bad
    BY <2>1, <1>1
  <2>3. Good(k)
    <3>1. Good(k - 1)
      BY <2>2
    <3>2. Good((k - 1) + 1)
      BY <3>1, <2>2, <1>2
    <3>3. (k - 1) + 1 = k
      OBVIOUS
    <3> QED
      BY <3>2, <3>3
  <2> QED
    BY <2>1, <2>3
<1>4. Good(N)
  <2> HIDE DEF Good
  <2> QED
    BY <1>3
<1> QED
  BY <1>4 DEF GrowsBy

\* L is the least subset of D with A and with what F adds to it.
LeastFixed(L, D, A, F) ==
    /\ L \in SUBSET D
    /\ A \subseteq L
    /\ F[L] \subseteq L
    /\ \A S \in SUBSET D :
           A \subseteq S /\ (\A T \in SUBSET S : F[T] \subseteq S) => L \subseteq S

\* What F adds to a growth from A: it ends within every set that holds A and with a set
\* what F adds to it, and as it cannot grow more often than there are elements, its last
\* set is one to which F adds nothing.
LEMMA GrowthEnds ==
    ASSUME NEW D, IsFiniteSet(D), NEW A \in SUBSET D, NEW F \in [SUBSET D -> SUBSET D],
           NEW g \in [0..Cardinality(D) -> SUBSET D], GrowsBy(g, Cardinality(D), A, F)
    PROVE  LeastFixed(g[Cardinality(D)], D, A, F)
<1> DEFINE N == Cardinality(D)
<1>1. N \in Nat
  BY FS_CardinalityType
<1> HIDE DEF N
<1>2. /\ g \in [0..N -> SUBSET D]
      /\ \A n \in 0..N : g[n] = IF n = 0 THEN A ELSE g[n - 1] \cup F[g[n - 1]]
  BY DEF N, GrowsBy
<1>3. ASSUME NEW n \in 0..N, n # 0
      PROVE n - 1 \in 0..N /\ g[n] = g[n - 1] \cup F[g[n - 1]]
  <2>1. n - 1 \in 0..N
    BY <1>1, <1>3
  <2>2. g[n] = IF n = 0 THEN A ELSE g[n - 1] \cup F[g[n - 1]]
    BY <1>2
  <2> QED
    BY <2>1, <2>2, <1>3
<1>4. ASSUME NEW S \in SUBSET D, A \subseteq S, \A T \in SUBSET S : F[T] \subseteq S,
             NEW n \in 0..N
      PROVE g[n] \subseteq S
  <2> DEFINE Bad == {k \in 0..N : ~(g[k] \subseteq S)}
  <2>1. ASSUME Bad # {} PROVE FALSE
    <3>1. PICK k \in Bad : \A i \in Bad : k <= i
      <4>1. Bad \in SUBSET Nat
        BY <1>1
      <4> HIDE DEF Bad
      <4> QED
        BY <4>1, <2>1, Smallest
    <3>2. k # 0
      BY <1>2, <1>1, <1>4
    <3>3. k - 1 \in 0..N /\ g[k] = g[k - 1] \cup F[g[k - 1]] /\ k - 1 < k
      BY <3>2, <1>3, <1>1
    <3>4. g[k - 1] \subseteq S
      BY <3>1, <3>3
    <3> QED
      BY <3>1, <3>3, <3>4, <1>4
  <2> QED
    BY <2>1
<1>5. ASSUME NEW n \in 0..N PROVE IsFiniteSet(g[n]) /\ Cardinality(g[n]) \in Nat
  BY <1>2, FS_Subset, FS_CardinalityType
<1>6. ASSUME NEW n \in 0..N
      PROVE F[g[n]] \subseteq g[n] \/ Cardinality(g[n]) >= n
  <2> DEFINE Bad == {k \in 0..N : ~(F[g[k]] \subseteq g[k] \/ Cardinality(g[k]) >= k)}
  <2>1. ASSUME Bad # {} PROVE FALSE
    <3>1. PICK k \in Bad : \A i \in Bad : k <= i
      <4>1. Bad \in SUBSET Nat
        BY <1>1
      <4> HIDE DEF Bad
      <4> QED
        BY <4>1, <2>1, Smallest
    <3>2. k # 0
      BY <3>1, <1>5
    <3>3. k - 1 \in 0..N /\ g[k] = g[k - 1] \cup F[g[k - 1]] /\ k - 1 < k
      BY <3>2, <1>3, <1>1
    <3>4. F[g[k - 1]] \subseteq g[k - 1] \/ Cardinality(g[k - 1]) >= k - 1
      BY <3>1, <3>3
    <3>5. CASE F[g[k - 1]] \subseteq g[k - 1]
      <4>1. g[k] = g[k - 1]
        BY <3>5, <3>3
      <4> QED
        BY <4>1, <3>5, <3>1
    <3>6. CASE ~(F[g[k - 1]] \subseteq g[k - 1])
      <4>1. PICK x \in F[g[k - 1]] : x \notin g[k - 1]
        BY <3>6
      <4>2. /\ IsFiniteSet(g[k - 1] \cup {x})
            /\ Cardinality(g[k - 1] \cup {x}) = Cardinality(g[k - 1]) + 1
        BY <4>1, <3>3, <1>5, FS_AddElement
      <4>3. g[k - 1] \cup {x} \in SUBSET g[k]
        BY <4>1, <3>3
      <4>4. Cardinality(g[k - 1] \cup {x}) <= Cardinality(g[k])
        BY <4>3, <1>5, FS_Subset
      <4>5. Cardinality(g[k]) \in Nat /\ Cardinality(g[k - 1]) \in Nat
        BY <1>5, <3>3
      <4>6. Cardinality(g[k]) >= k
        BY <4>2, <4>4, <4>5, <3>4, <3>6, <1>1
      <4> QED
        BY <4>6, <3>1
    <3> QED
      BY <3>5, <3>6
  <2> QED
    BY <2>1
<1>7. 0 \in 0..N /\ N \in 0..N
  BY <1>1
<1>8. g[N] \in SUBSET D
  BY <1>2, <1>7
<1>9. F[g[N]] \subseteq g[N]
  <2>1. CASE Cardinality(g[N]) >= N
    <3>1. Cardinality(g[N]) <= N
      BY <1>8, FS_Subset DEF N
    <3>2. Cardinality(D) = Cardinality(g[N])
      BY <2>1, <3>1, <1>1, <1>5, <1>7 DEF N
    <3>3. g[N] = D
      BY <3>2, <1>8, FS_Subset
    <3>4. F[g[N]] \in SUBSET D
      BY <1>8
    <3> QED
      BY <3>3, <3>4
  <2> QED
    BY <2>1, <1>6, <1>7
<1>10. A \subseteq g[N]
  <2> DEFINE Bad == {k \in 0..N : ~(A \subseteq g[k])}
  <2>1. ASSUME Bad # {} PROVE FALSE
    <3>1. PICK k \in Bad : \A i \in Bad : k <= i
      <4>1. Bad \in SUBSET Nat
        BY <1>1
      <4> HIDE DEF Bad
      <4> QED
        BY <4>1, <2>1, Smallest
    <3>2. k # 0
      BY <1>2, <1>7, <3>1
    <3>3. k - 1 \in 0..N /\ g[k] = g[k - 1] \cup F[g[k - 1]] /\ k - 1 < k
      BY <3>2, <1>3, <1>1
    <3> QED
      BY <3>1, <3>3
  <2> QED
    BY <2>1, <1>7
<1>11. \A S \in SUBSET D : A \subseteq S /\ (\A T \in SUBSET S : F[T] \subseteq S)
                               => g[N] \subseteq S
  BY <1>4, <1>7
<1> QED
  BY <1>8, <1>9, <1>10, <1>11 DEF N, LeastFixed

\* A jar that a set of jars requires is one that a jar of the set requires.
LEMMA RequiredBy ==
    ASSUME NEW S, NEW side, NEW x
    PROVE  x \in Required(S, side) <=>
               /\ x \in Marked
               /\ \E j \in S : \/ x \in IndexDeps[j]
                               \/ j \in Manifests /\ x \in JarDeps[side][j] \cap Manifests
BY DEF Required

\* What the worklist of expand_with_required (deps.py) reaches is the least set of marked
\* jars with the seeds of a side and all that its members require, and as many rounds as
\* there are jars reach it: no jar is shipped that nothing asks for and none is forgotten,
\* whatever the dependencies, cycles among them included.
THEOREM ClosureIsLeast ==
    ASSUME NEW side
    PROVE  /\ Closure(side) \in SUBSET Marked
           /\ Seeds(side) \subseteq Closure(side)
           /\ Required(Closure(side), side) \subseteq Closure(side)
           /\ \A S \in SUBSET Marked :
                  Seeds(side) \subseteq S /\ Required(S, side) \subseteq S
                      => Closure(side) \subseteq S
<1> DEFINE F == [S \in SUBSET Jars |-> Required(S, side)]
           N == Cardinality(Jars)
           grow == CHOOSE g : g = [n \in 0..N |->
                       IF n = 0 THEN Seeds(side)
                       ELSE g[n - 1] \cup Required(g[n - 1], side)]
<1>1. IsFiniteSet(Jars) /\ N \in Nat
  <2>1. IsFiniteSet(Files) /\ Jars \in SUBSET Files
    BY ScopesAssumption DEF Files
  <2>2. IsFiniteSet(Jars)
    BY <2>1, FS_Subset
  <2> QED
    BY <2>2, FS_CardinalityType
<1>2. Marked \in SUBSET Jars /\ Seeds(side) \in SUBSET Marked
  BY DEF Marked, Seeds
<1>3. \A S : Required(S, side) \in SUBSET Marked
  BY RequiredBy
<1>4. F \in [SUBSET Jars -> SUBSET Jars] /\ \A S \in SUBSET Jars : F[S] = Required(S, side)
  BY <1>2, <1>3
<1>5. \A S, T : T \subseteq S => Required(T, side) \subseteq Required(S, side)
  BY RequiredBy
<1>6. Closure(side) = grow[N]
  BY DEF Closure
<1>7. \E g : g = [n \in 0..N |-> IF n = 0 THEN Seeds(side)
                                  ELSE g[n - 1] \cup Required(g[n - 1], side)]
  <2> HIDE DEF F, N, grow
  <2>1. PICK g \in [0..N -> SUBSET Jars] : GrowsBy(g, N, Seeds(side), F)
    <3>1. Seeds(side) \in SUBSET Jars
      BY <1>2
    <3>2. F \in [SUBSET Jars -> SUBSET Jars] /\ N \in Nat
      BY <1>1, <1>4
    <3> QED
      BY <3>1, <3>2, Grows
  <2>2. ASSUME NEW n \in 0..N
        PROVE g[n] = IF n = 0 THEN Seeds(side)
                              ELSE g[n - 1] \cup Required(g[n - 1], side)
    <3>1. CASE n = 0
      BY <3>1, <2>1 DEF GrowsBy
    <3>2. CASE n # 0
      <4>1. n - 1 \in 0..N
        BY <3>2, <1>1
      <4>2. F[g[n - 1]] = Required(g[n - 1], side)
        BY <4>1, <1>4
      <4> QED
        BY <4>2, <3>2, <2>1 DEF GrowsBy
    <3> QED
      BY <3>1, <3>2
  <2>3. g = [n \in 0..N |-> g[n]]
    OBVIOUS
  <2>4. g = [n \in 0..N |-> IF n = 0 THEN Seeds(side)
                            ELSE g[n - 1] \cup Required(g[n - 1], side)]
    BY <2>2, <2>3, Zenon
  <2> QED
    BY <2>4
<1>8. grow = [n \in 0..N |-> IF n = 0 THEN Seeds(side)
                             ELSE grow[n - 1] \cup Required(grow[n - 1], side)]
  <2> HIDE DEF F, N
  <2> QED
    BY <1>7, Zenon
<1> HIDE DEF F, N, grow
<1>9. grow \in [0..N -> SUBSET Jars] /\ GrowsBy(grow, N, Seeds(side), F)
  <2>1. \A n \in 0..N : grow[n] = IF n = 0 THEN Seeds(side)
                                  ELSE grow[n - 1] \cup Required(grow[n - 1], side)
    BY <1>8, Zenon
  <2>2. DOMAIN grow = 0..N /\ grow = [n \in 0..N |-> grow[n]]
    BY <1>8, Zenon
  <2> DEFINE Bad == {n \in 0..N : grow[n] \notin SUBSET Jars}
  <2>3. ASSUME Bad # {} PROVE FALSE
    <3>1. PICK k \in Bad : \A i \in Bad : k <= i
      <4>1. Bad \in SUBSET Nat
        BY <1>1
      <4> HIDE DEF Bad
      <4> QED
        BY <4>1, <2>3, Smallest
    <3>2. grow[k] = IF k = 0 THEN Seeds(side)
                    ELSE grow[k - 1] \cup Required(grow[k - 1], side)
      BY <2>1
    <3>3. CASE k = 0
      BY <3>1, <3>2, <3>3, <1>2
    <3>4. CASE k # 0
      <4>1. k - 1 \in 0..N /\ k - 1 < k
        BY <3>4, <1>1
      <4>2. grow[k - 1] \in SUBSET Jars
        BY <4>1, <3>1
      <4>3. Required(grow[k - 1], side) \in SUBSET Jars
        BY <1>2, <1>3
      <4> QED
        BY <3>1, <3>2, <3>4, <4>2, <4>3
    <3> QED
      BY <3>3, <3>4
  <2>4. \A n \in 0..N : grow[n] \in SUBSET Jars
    BY <2>3
  <2>5. grow \in [0..N -> SUBSET Jars]
    BY <2>2, <2>4, Zenon
  <2>6. ASSUME NEW n \in 0..N
        PROVE grow[n] = IF n = 0 THEN Seeds(side) ELSE grow[n - 1] \cup F[grow[n - 1]]
    <3>1. CASE n = 0
      BY <3>1, <2>1
    <3>2. CASE n # 0
      <4>1. n - 1 \in 0..N
        BY <3>2, <1>1
      <4>2. F[grow[n - 1]] = Required(grow[n - 1], side)
        BY <4>1, <1>4, <2>4
      <4> QED
        BY <4>2, <3>2, <2>1
    <3> QED
      BY <3>1, <3>2
  <2> QED
    BY <2>5, <2>6 DEF GrowsBy
<1>10. Seeds(side) \in SUBSET Jars
  BY <1>2
<1>11. /\ grow[N] \in SUBSET Jars
       /\ Seeds(side) \subseteq grow[N]
       /\ F[grow[N]] \subseteq grow[N]
       /\ \A S \in SUBSET Jars :
              Seeds(side) \subseteq S /\ (\A T \in SUBSET S : F[T] \subseteq S)
                  => grow[N] \subseteq S
  <2>1. F \in [SUBSET Jars -> SUBSET Jars] /\ IsFiniteSet(Jars)
    BY <1>1, <1>4
  <2>2. /\ grow \in [0..Cardinality(Jars) -> SUBSET Jars]
        /\ GrowsBy(grow, Cardinality(Jars), Seeds(side), F)
    BY <1>9 DEF N
  <2>3. LeastFixed(grow[Cardinality(Jars)], Jars, Seeds(side), F)
    BY <2>1, <2>2, <1>10, GrowthEnds
  <2> QED
    BY <2>3 DEF N, LeastFixed
<1>12. ASSUME NEW S \in SUBSET Marked, Seeds(side) \subseteq S, Required(S, side) \subseteq S
       PROVE grow[N] \subseteq S
  <2>1. ASSUME NEW T \in SUBSET S PROVE F[T] \subseteq S
    <3>1. F[T] = Required(T, side)
      BY <1>2, <1>4
    <3> QED
      BY <3>1, <1>5, <1>12
  <2>2. S \in SUBSET Jars
    BY <1>2
  <2> QED
    BY <2>1, <2>2, <1>11, <1>12
<1>13. grow[N] \in SUBSET Marked
  <2>1. /\ Marked \in SUBSET Marked /\ Seeds(side) \subseteq Marked
        /\ Required(Marked, side) \subseteq Marked
    BY <1>2, <1>3
  <2> QED
    BY <2>1, <1>12
<1>14. Required(grow[N], side) \subseteq grow[N]
  BY <1>11, <1>4
<1> QED
  BY <1>6, <1>11, <1>12, <1>13, <1>14

-----------------------------------------------------------------------------
(* The inductive invariant of a run.  CleanRunConverges is not inductive: that *)
(* the last step of an undisturbed run finds every destination in order rests  *)
(* on each tree being in order once it is left, that on what Compare listed to *)
(* remove and to copy, and that on the jars found by the scan being the ones   *)
(* asked for.  WriteDiscipline rests on the plan, made before the first write, *)
(* still being one for whatever is left to write.                              *)

\* A published pack: its bytes, and the prompt that the clients are shown.
Setting == [pack : Int, prompt : Int]

\* The types of the variables.
ScopesTypeOK ==
    /\ sources \in [Files -> Int]
    /\ offer \in Setting
    /\ review \in [Jars -> Sides \cup {"skipped", "none"}]
    /\ placed \in [Tree -> [Files -> Int]]
    /\ pack \in Int
    /\ props \in [Members -> Setting]
    /\ zip \in [Files -> Int]
    /\ step \in {"idle", "preflight", "server", "write", "stage", "zip", "hash", "publish",
                 "props"}
    /\ run \in [scopes : SUBSET Scoped, part : SUBSET Members, targeted : BOOLEAN,
                slip : BOOLEAN]
    /\ scanned = Unscanned \/ scanned \subseteq Jars
    /\ plan \in [Members -> Actions]
    /\ trees \subseteq Tree /\ removes \subseteq Files /\ copies \subseteq Files
    /\ staged \in [Files -> Int]
    /\ hashed \in Setting /\ todo \subseteq Members
    /\ exit \in {"none", "0", "failed"}
    /\ clean \in BOOLEAN /\ runs \in Nat /\ events \in Nat

\* What the sources and the sides ask for at a destination.
Wanted(t) == IF t = Mods THEN WantedJars("server") ELSE InSource(FilesOf(t))

\* Each phase is one of the run's scopes; trees are left only in the server's.
Phases ==
    /\ step \in {"server", "write"} => "server" \in run.scopes /\ trees \subseteq RunTrees
    /\ step = "write" => trees # {}
    /\ step \in {"stage", "zip"} => "client" \in run.scopes
    /\ step \in {"hash", "publish", "props"} => "resource_pack" \in run.scopes
    /\ step \in {"publish", "props"} => todo \subseteq run.part
    /\ step \notin {"publish", "props"} => todo = {}

\* The manifests that the process has read are those of the jars there.
Fresh == clean => scanned \in {Unscanned, InSource(Marked)}

\* A file of a destination is not yet as it is asked for.
Pends(t, f) ==
    placed[t][f] # IF f \in Wanted(t) THEN sources[f] ELSE Missing

\* A change of this file may be written: the plan asks of each member concerned at least
\* what the policy does, but for the two exceptions of WriteDiscipline.
Covered(t, f) ==
    \A m \in run.part :
        \/ t \notin {Mods, <<m, t[2]>>}
        \/ Rank(Policy[f]) <= Rank(plan[m])
        \/ run.slip /\ f \in InSource(UNION Deletions[m])
        \/ run.slip /\ t = Mods /\ SlipSide[f] = "client"

\* Whatever still differs in the trees left may be written.
Announced ==
    clean /\ step \in {"server", "write"} =>
        \A t \in trees : \A f \in FilesOf(t) : Pends(t, f) => Covered(t, f)

\* The files that cleaning a destination may remove.
Removable(t) == (FilesOf(t) \ Wanted(t)) \ ProtectedFiles

\* What is left to remove is removable, and what is left to copy is asked for.
Pending ==
    clean /\ step = "write" =>
        removes \subseteq Removable(Current) /\ copies \subseteq Wanted(Current)

\* A file of a destination is as the run is to leave it.
Settled(t, f) ==
    IF f \in Wanted(t) THEN placed[t][f] = sources[f]
    ELSE \/ placed[t][f] = Missing
         \/ f \in ProtectedFiles
         \/ t[2] = "config" /\ ConfigMode[t[1]] = "merge"

\* In the tree being written a file is settled, or to remove, or to copy.
Arranged ==
    clean /\ step = "write" =>
        \A f \in FilesOf(Current) : Settled(Current, f) \/ f \in removes \/ f \in copies

\* The trees of the run that are not left are settled, and none is left after the server
\* scope.
TreesDone ==
    clean /\ "server" \in run.scopes /\ step # "preflight" =>
        /\ \A t \in RunTrees : t \notin trees => \A f \in FilesOf(t) : Settled(t, f)
        /\ step \notin {"server", "write"} => trees = {}

\* What a client is to get.
ClientTree ==
    [f \in Files |-> IF f \in WantedJars("client") \cup Configs \cup Scripts
                     THEN sources[f] ELSE Missing]

\* The staging tree, once filled, and the ZIP, once made, hold what a client is to get.
ClientDone ==
    /\ clean /\ step = "zip" => staged = ClientTree
    /\ clean /\ "client" \in run.scopes /\ step \in {"hash", "publish", "props", "idle"} =>
           zip = ClientTree

\* A member whose published pack is to change has a restart in its plan.
PackAnnounced ==
    clean /\ "resource_pack" \in run.scopes /\ step \notin {"idle", "preflight"} =>
        \A m \in run.part : props[m].pack # offer.pack => plan[m] = "restart"

\* What was hashed is the pack offered; it is published before a server is pointed at it;
\* and the servers no longer left to do are pointed at it.
PackDone ==
    /\ clean /\ step \in {"publish", "props"} => hashed = offer
    /\ clean /\ step = "publish" => todo = run.part \/ pack = offer.pack
    /\ clean /\ step = "props" =>
           /\ run.part # {} => pack = offer.pack
           /\ \A m \in run.part \ todo : props[m] = offer
    /\ clean /\ step = "idle" /\ "resource_pack" \in run.scopes =>
           \A m \in run.part : pack = offer.pack /\ props[m] = offer

-----------------------------------------------------------------------------
(* What the operators of the model return.                                     *)

\* What the index, the answers and the overrides say of a jar is what it was meant to be.
LEMMA Intended ==
    ASSUME ScopesTypeOK
    PROVE  /\ Marked = {j \in Jars : IntendedSide(j) # "odd"}
           /\ \A j \in Marked : SideOf(j) = IntendedSide(j)
<1>1. ASSUME NEW j \in Jars
      PROVE /\ IntendedSide(j) = IF Override(j) # "none" THEN Override(j) ELSE Declared[j]
            /\ Override(j) # "odd"
            /\ Declared[j] \notin Sides <=> Declared[j] = "odd"
  BY ScopesAssumption DEF ScopesTypeOK, IntendedSide, Override, Sides
<1> QED
  BY <1>1 DEF Marked, Unmarked, SideOf

\* The jars that a run takes for a side, found step by step from the manifests that it has
\* read, are those that the sources and the sides ask for.
LEMMA WantedJarsFound ==
    ASSUME ScopesTypeOK, Fresh, clean, NEW side
    PROVE  JarsFor(side) = WantedJars(side)
<1>1. CASE run.slip
  BY <1>1 DEF JarsFor, WantedJars, InSource
<1>2. CASE ~run.slip
  <2> DEFINE closed(S) ==
                 /\ \A j \in Marked : IntendedSide(j) \in {side, "both"} => j \in S
                 /\ \A j \in S : Marked \cap IndexDeps[j] \subseteq S
                 /\ \A j \in S \cap InSource(Marked) :
                        JarDeps[side][j] \cap InSource(Marked) \subseteq S
  <2>1. WantedJars(side) =
            {j \in InSource(Marked) : \A S \in SUBSET Marked : closed(S) => j \in S}
    BY <1>2, Intended DEF WantedJars
  <2>2. Manifests = InSource(Marked) /\ Manifests \subseteq Marked
    BY DEF Fresh, Manifests, InSource
  <2>3. ASSUME NEW S \in SUBSET Marked
        PROVE closed(S) <=> Seeds(side) \subseteq S /\ Required(S, side) \subseteq S
    <3>1. (\A j \in Marked : IntendedSide(j) \in {side, "both"} => j \in S)
              <=> Seeds(side) \subseteq S
      BY Intended DEF Seeds
    <3>2. ASSUME Required(S, side) \subseteq S
          PROVE /\ \A j \in S : Marked \cap IndexDeps[j] \subseteq S
                /\ \A j \in S \cap InSource(Marked) :
                        JarDeps[side][j] \cap InSource(Marked) \subseteq S
      BY <2>2, <3>2, RequiredBy
    <3>3. ASSUME /\ \A j \in S : Marked \cap IndexDeps[j] \subseteq S
                 /\ \A j \in S \cap InSource(Marked) :
                        JarDeps[side][j] \cap InSource(Marked) \subseteq S
          PROVE Required(S, side) \subseteq S
      BY <2>2, <3>3, RequiredBy
    <3> QED
      BY <3>1, <3>2, <3>3
  <2> HIDE DEF closed
  <2>4. /\ Closure(side) \in SUBSET Marked /\ closed(Closure(side))
        /\ \A S \in SUBSET Marked : closed(S) => Closure(side) \subseteq S
    BY <2>3, ClosureIsLeast
  <2>5. JarsFor(side) = InSource(Closure(side))
    BY <1>2 DEF JarsFor
  <2> QED
    BY <2>1, <2>4, <2>5 DEF InSource
<1> QED
  BY <1>1, <1>2

\* The first of some members, or of some files, is one of them.
LEMMA FirstIsOne ==
    ASSUME NEW S \in SUBSET Nat, S # {}
    PROVE  First(S) \in S
BY Smallest DEF First

\* The tree that is written is one of those left.
LEMMA CurrentIsOne ==
    ASSUME ScopesTypeOK, trees # {}
    PROVE  Current \in trees
<1> DEFINE T == {Order(t) : t \in trees}
<1>1. ASSUME NEW t \in trees PROVE Order(t) \in Nat
  <2>1. t = Mods \/ t \in Members \X {"config", "kubejs"}
    BY DEF ScopesTypeOK, Tree
  <2>2. Mods[1] = 0
    BY DEF Mods
  <2>3. t[1] \in Nat
    <3>1. Members \subseteq Nat
      BY ScopesAssumption
    <3>2. CASE t = Mods
      BY <3>2, <2>2
    <3>3. CASE t \in Members \X {"config", "kubejs"}
      BY <3>1, <3>3
    <3> QED
      BY <2>1, <3>2, <3>3
  <2> QED
    BY <2>3 DEF Order
<1>2. T \in SUBSET Nat /\ T # {}
  BY <1>1
<1>3. PICK x \in T : \A y \in T : x <= y
  <2> HIDE DEF T
  <2> QED
    BY <1>2, Smallest
<1>4. PICK t \in trees : x = Order(t)
  BY <1>3
<1>5. \A u \in trees : Order(t) <= Order(u)
  BY <1>3, <1>4
<1> QED
  BY <1>5 DEF Current

\* The jars of a side are jars.
LEMMA JarsForJars ==
    ASSUME NEW side
    PROVE  JarsFor(side) \in SUBSET Jars
<1>1. Closure(side) \in SUBSET Jars
  BY ClosureIsLeast DEF Marked
<1> QED
  BY <1>1 DEF JarsFor, InSource

\* What a destination is to get are files of its kind.
LEMMA SourceOfFiles ==
    ASSUME NEW t
    PROVE  SourceOf(t) \in SUBSET FilesOf(t) /\ FilesOf(t) \in SUBSET Files
<1>1. FilesOf(Mods) = Jars
  BY DEF FilesOf, Mods
<1> QED
  BY <1>1, JarsForJars DEF SourceOf, InSource, FilesOf, Files

\* Where a run goes on once the scopes of `done` are written.
LEMMA PhasesAfter ==
    /\ PhaseAfter({}) = IF "server" \in run.scopes THEN "server" ELSE PhaseAfter({"server"})
    /\ PhaseAfter({"server"}) = IF "client" \in run.scopes THEN "stage"
                                ELSE PhaseAfter({"server", "client"})
    /\ PhaseAfter({"server", "client"}) = IF "resource_pack" \in run.scopes THEN "hash"
                                          ELSE "idle"
BY DEF PhaseAfter

\* A write into the current tree leaves the trees typed.
LEMMA PlaceTyped ==
    ASSUME ScopesTypeOK, NEW f, NEW content \in Int, Place(f, content)
    PROVE  placed' \in [Tree -> [Files -> Int]]
BY DEF Place, ScopesTypeOK

-----------------------------------------------------------------------------
(* One lemma for each part of the invariant that a step preserves.             *)

\* The state before the first run has the types.
LEMMA InitTyped == ScopesInit => ScopesTypeOK
<1> SUFFICES ASSUME ScopesInit PROVE ScopesTypeOK
  OBVIOUS
<1>1. Nothing \in [Files -> Int] /\ Missing \in Int
  BY DEF Nothing, Missing
<1>2. offer \in Setting /\ hashed \in Setting
  BY DEF ScopesInit, Setting
<1>3. props \in [Members -> Setting]
  BY <1>1 DEF ScopesInit, Setting
<1>4. placed \in [Tree -> [Files -> Int]] /\ zip \in [Files -> Int] /\ staged \in [Files -> Int]
  BY <1>1 DEF ScopesInit
<1>5. sources \in [Files -> Int] /\ review \in [Jars -> Sides \cup {"skipped", "none"}]
  BY DEF ScopesInit
<1>6. plan \in [Members -> Actions]
  BY DEF ScopesInit, Actions
<1>7. run \in [scopes : SUBSET Scoped, part : SUBSET Members, targeted : BOOLEAN, slip : BOOLEAN]
  BY DEF ScopesInit
<1> QED
  BY <1>1, <1>2, <1>3, <1>4, <1>5, <1>6, <1>7 DEF ScopesInit, ScopesTypeOK

\* A phase that a run may go on in.
LEMMA PhaseTyped ==
    ASSUME NEW done
    PROVE  PhaseAfter(done) \in {"server", "stage", "hash", "idle"}
BY DEF PhaseAfter

\* The action asked for by some files is an action.
LEMMA StickyMaxTyped ==
    ASSUME NEW as \in SUBSET Actions
    PROVE  /\ StickyMax(as) \in Actions
           /\ \A a \in as : Rank(a) <= Rank(StickyMax(as))
<1>1. \A a \in Actions : Rank(a) \in {0, 2, 4}
  BY DEF Actions, Rank
<1>2. CASE as = {}
  BY <1>2 DEF StickyMax, Actions
<1>3. CASE as # {}
  <2> DEFINE top == IF "restart" \in as THEN "restart"
                    ELSE IF "reload" \in as THEN "reload" ELSE "none"
  <2>1. top \in as
    BY <1>3 DEF Actions
  <2>3. Rank("none") = 0 /\ Rank("reload") = 2 /\ Rank("restart") = 4
    BY DEF Rank
  <2>4. ASSUME NEW a \in as PROVE Rank(a) <= Rank(top)
    <3>1. a \in {"none", "reload", "restart"}
      BY DEF Actions
    <3>2. CASE a = "restart"
      <4>1. top = "restart"
        BY <3>2
      <4> HIDE DEF top
      <4> QED
        BY <3>2, <4>1, <2>3
    <3>3. CASE a = "reload"
      <4>1. top \in {"restart", "reload"}
        BY <3>3
      <4> HIDE DEF top
      <4> QED
        BY <3>3, <4>1, <2>3
    <3>4. CASE a = "none"
      <4>1. top \in {"restart", "reload", "none"}
        OBVIOUS
      <4> HIDE DEF top
      <4> QED
        BY <3>4, <4>1, <2>3
    <3> QED
      BY <3>1, <3>2, <3>3, <3>4
  <2> HIDE DEF top
  <2>2. StickyMax(as) \in as /\ \A a \in as : Rank(a) <= Rank(StickyMax(as))
    BY <1>3, <2>1, <2>4 DEF StickyMax
  <2> QED
    BY <2>2
<1> QED
  BY <1>2, <1>3

\* Something that is not the run, or a step that leaves files out, is counted.
LEMMA EventTyped ==
    ASSUME ScopesTypeOK, Event
    PROVE  clean' \in BOOLEAN /\ events' \in Nat
<1>1. events \in Nat
  BY DEF ScopesTypeOK
<1>2. clean' = FALSE /\ events' = events + 1
  BY DEF Event
<1>3. events + 1 \in Nat
  BY <1>1
<1> QED
  BY <1>2, <1>3

\* The same of a step that leaves out the given files, if any.
LEMMA PartialTyped ==
    ASSUME ScopesTypeOK, NEW out, Partial(out)
    PROVE  clean' \in BOOLEAN /\ events' \in Nat
<1>1. CASE out = {}
  BY <1>1 DEF Partial, ScopesTypeOK
<1>2. CASE out # {}
  BY <1>2, EventTyped DEF Partial
<1> QED
  BY <1>1, <1>2

\* What a file or a setting can be is a number.
LEMMA ValuesTyped == Values \cup {Missing} \subseteq Int
<1>1. Values \subseteq Nat
  BY ScopesAssumption
<1> QED
  BY <1>1 DEF Missing

\* Every step preserves the types.
LEMMA StepTyped == ScopesTypeOK /\ [ScopesNext]_scopesVars => ScopesTypeOK'
<1> SUFFICES ASSUME ScopesTypeOK, [ScopesNext]_scopesVars PROVE ScopesTypeOK'
  OBVIOUS
<1> USE DEF operatorVars, deployedVars, serverVars, packVars, runVars
<1>0. Missing \in Int /\ Torn \in Int /\ Nothing \in [Files -> Int]
  BY DEF Missing, Torn, Nothing
<1>1. ASSUME NEW q \in Requests, Begin(q) PROVE ScopesTypeOK'
  <2>1. q \in [scopes : SUBSET Scoped, part : SUBSET Members, targeted : BOOLEAN, slip : BOOLEAN]
    BY ScopesAssumption
  <2>2. review' \in [Jars -> Sides \cup {"skipped", "none"}]
    <3>0. PICK S \in SUBSET Unmarked : \E answer \in [S -> Answers] : review' = Answered(answer)
      BY <1>1 DEF Begin
    <3>1. PICK answer \in [S -> Answers] : review' = Answered(answer)
      BY <3>0
    <3>2. \A j \in DOMAIN answer : answer[j] \in Sides \cup {"skipped"}
      BY <3>1, ScopesAssumption
    <3> QED
      BY <3>1, <3>2 DEF Answered, ScopesTypeOK
  <2> QED
    BY <1>1, <2>1, <2>2 DEF Begin, ScopesTypeOK
<1>2. CASE Preflight
  <2>1. plan' \in [Members -> Actions]
    <3>1. \A m \in Members : ServerAction(m) \in Actions
      <4> SUFFICES ASSUME NEW m \in Members PROVE ServerAction(m) \in Actions
        OBVIOUS
      <4>1. ChangedOf(m) \in SUBSET Files
        BY DEF ChangedOf, ChangedMods, Differing, FilesOf, Files, Mods
      <4>2. {Policy[f] : f \in ChangedOf(m)} \in SUBSET Actions
        BY <4>1, ScopesAssumption
      <4> QED
        BY <4>2, StickyMaxTyped DEF ServerAction, Actions
    <3>2. \A m \in Members : ResourcePackAction(m) \in Actions
      BY DEF ResourcePackAction, Actions
    <3>3. \A m \in Members : StickyMax({ServerAction(m), ResourcePackAction(m)}) \in Actions
      BY <3>1, <3>2, StickyMaxTyped
    <3>4. "none" \in Actions
      BY DEF Actions
    <3> QED
      BY <1>2, <3>3, <3>4 DEF Preflight
  <2>2. scanned' = Unscanned \/ scanned' \subseteq Jars
    BY <1>2 DEF Preflight, Manifests, InSource, Marked, ScopesTypeOK
  <2>3. trees' \subseteq Tree
    BY <1>2 DEF Preflight, RunTrees, Tree, ScopesTypeOK
  <2>4. /\ step' \in {"server", "stage", "hash", "idle"}
        /\ exit' \in {"0", exit}
    BY <1>2, PhaseTyped DEF Preflight, Enter
  <2> QED
    BY <1>2, <2>1, <2>2, <2>3, <2>4 DEF Preflight, ScopesTypeOK
<1>3. ASSUME NEW out \in SUBSET Files, Compare(out) PROVE ScopesTypeOK'
  <2>1. /\ copies' \subseteq Files /\ removes' \subseteq Files
    BY <1>3, SourceOfFiles DEF Compare, ToCopy
  <2>2. placed' \in [Tree -> [Files -> Int]]
    BY <1>3, <1>0, CurrentIsOne DEF Compare, ScopesTypeOK
  <2>3. clean' \in BOOLEAN /\ events' \in Nat
    BY <1>3, PartialTyped DEF Compare
  <2> QED
    BY <1>3, <2>1, <2>2, <2>3 DEF Compare, ScopesTypeOK
<1>4. CASE Remove
  BY <1>4, <1>0, PlaceTyped DEF Remove, ScopesTypeOK
<1>5. CASE Copy
  <2>1. PICK f \in copies : /\ Place(f, IF sources[f] = Missing THEN placed[Current][f]
                                        ELSE sources[f])
                            /\ copies' = copies \ {f}
    BY <1>5 DEF Copy
  <2>3. placed' \in [Tree -> [Files -> Int]]
    <3>1. CASE Current \in Tree
      <4>1. f \in Files
        BY DEF ScopesTypeOK
      <4>2. sources[f] \in Int /\ placed[Current][f] \in Int
        BY <3>1, <4>1 DEF ScopesTypeOK
      <4>3. PICK c \in Int : c = IF sources[f] = Missing THEN placed[Current][f] ELSE sources[f]
        BY <4>2
      <4>4. Place(f, c)
        BY <2>1, <4>3
      <4> QED
        BY <4>4, PlaceTyped
    <3>2. CASE Current \notin Tree
      <4>1. placed' = placed
        BY <2>1, <3>2 DEF Place, ScopesTypeOK
      <4> QED
        BY <4>1 DEF ScopesTypeOK
    <3> QED
      BY <3>1, <3>2
  <2> QED
    BY <1>5, <2>1, <2>3 DEF Copy, ScopesTypeOK
<1>6. CASE FileFails
  <2>1. placed' \in [Tree -> [Files -> Int]]
    BY <1>6, <1>0, PlaceTyped DEF FileFails, ScopesTypeOK
  <2> QED
    BY <1>6, <2>1, EventTyped DEF FileFails, ScopesTypeOK
<1>7. CASE TreeDone
  <2>1. /\ step' \in {"server", "stage", "hash", "idle"}
        /\ exit' \in {"0", exit}
    BY <1>7, PhaseTyped DEF TreeDone, Enter
  <2> QED
    BY <1>7, <2>1 DEF TreeDone, ScopesTypeOK
<1>8. ASSUME NEW out \in SUBSET Files, StageClient(out) PROVE ScopesTypeOK'
  <2>1. staged' \in [Files -> Int]
    BY <1>8, <1>0 DEF StageClient, ScopesTypeOK
  <2>2. scanned' = Unscanned \/ scanned' \subseteq Jars
    BY <1>8 DEF StageClient, Manifests, InSource, Marked, ScopesTypeOK
  <2>3. clean' \in BOOLEAN /\ events' \in Nat
    BY <1>8, PartialTyped DEF StageClient
  <2> QED
    BY <1>8, <2>1, <2>2, <2>3 DEF StageClient, ScopesTypeOK
<1>9. CASE CreateZip
  <2>1. /\ step' \in {"server", "stage", "hash", "idle"}
        /\ exit' \in {"0", exit}
    BY <1>9, PhaseTyped DEF CreateZip, Enter
  <2> QED
    BY <1>9, <1>0, <2>1 DEF CreateZip, ScopesTypeOK
<1>10. CASE HashPacks
  BY <1>10 DEF HashPacks, ScopesTypeOK
<1>11. CASE Publish
  <2>1. pack' \in Int
    BY <1>11 DEF Publish, ScopesTypeOK, Setting
  <2> QED
    BY <1>11, <2>1 DEF Publish, ScopesTypeOK
<1>12. CASE Published
  BY <1>12 DEF Published, ScopesTypeOK
<1>13. CASE WriteProperties
  <2>1. props' \in [Members -> Setting]
    BY <1>13 DEF WriteProperties, ScopesTypeOK
  <2> QED
    BY <1>13, <2>1 DEF WriteProperties, ScopesTypeOK
<1>14. CASE PropertiesDone
  BY <1>14 DEF PropertiesDone, Enter, ScopesTypeOK
<1>15. CASE Ends
  <2>1. placed' \in [Tree -> [Files -> Int]]
    BY <1>15, <1>0, PlaceTyped DEF Ends, ScopesTypeOK
  <2>2. plan' \in [Members -> Actions]
    BY <1>15 DEF Ends, Actions
  <2> QED
    BY <1>15, <1>0, <2>1, <2>2, EventTyped DEF Ends, ScopesTypeOK
<1>16. ASSUME NEW f \in Files, NEW content \in Values \cup {Missing}, EditSource(f, content)
       PROVE ScopesTypeOK'
  <2>1. sources' \in [Files -> Int]
    BY <1>16, ValuesTyped DEF EditSource, ScopesTypeOK
  <2> QED
    BY <1>16, <2>1, EventTyped DEF EditSource, ScopesTypeOK
<1>17. ASSUME NEW o \in [pack : Values, prompt : Values], EditOffer(o) PROVE ScopesTypeOK'
  <2>1. o \in Setting
    BY ValuesTyped DEF Setting
  <2> QED
    BY <1>17, <2>1, EventTyped DEF EditOffer, ScopesTypeOK
<1>18. ASSUME NEW t \in Tree, NEW f \in FilesOf(t), NEW content \in Values \cup {Missing},
              Drift(t, f, content)
       PROVE ScopesTypeOK'
  <2>1. placed' \in [Tree -> [Files -> Int]]
    BY <1>18, ValuesTyped DEF Drift, ScopesTypeOK
  <2> QED
    BY <1>18, <2>1, EventTyped DEF Drift, ScopesTypeOK
<1>19. CASE UNCHANGED scopesVars
  BY <1>19 DEF scopesVars, ScopesTypeOK
<1> QED
  BY <1>1, <1>2, <1>3, <1>4, <1>5, <1>6, <1>7, <1>8, <1>9, <1>10, <1>11, <1>12, <1>13, <1>14,
     <1>15, <1>16, <1>17, <1>18, <1>19 DEF ScopesNext

\* The phase after each step is one of the run's scopes.
LEMMA StepPhases ==
    ScopesTypeOK /\ Phases /\ [ScopesNext]_scopesVars => Phases'
<1> SUFFICES ASSUME ScopesTypeOK, Phases, [ScopesNext]_scopesVars PROVE Phases'
  OBVIOUS
<1> USE DEF operatorVars, deployedVars, serverVars, packVars, runVars
<1>1. ASSUME NEW q \in Requests, Begin(q) PROVE Phases'
  BY <1>1 DEF Begin, Phases, Idle
<1>2. CASE Preflight
  <2>1. step' = PhaseAfter(IF RunTrees = {} THEN {"server"} ELSE {}) /\ trees' = RunTrees
    BY <1>2 DEF Preflight, Enter
  <2>2. UNCHANGED run /\ RunTrees' = RunTrees /\ todo' = {}
    BY <1>2 DEF Preflight, RunTrees, Phases
  <2>3. /\ step' = "server" => "server" \in run.scopes
        /\ step' = "stage" => "client" \in run.scopes
        /\ step' = "hash" => "resource_pack" \in run.scopes
        /\ step' \in {"server", "stage", "hash", "idle"}
    BY <2>1, PhasesAfter, PhaseTyped
  <2> QED
    BY <2>1, <2>2, <2>3 DEF Phases
<1>3. ASSUME NEW out, Compare(out) PROVE Phases'
  BY <1>3 DEF Compare, Phases, RunTrees
<1>4. CASE Remove \/ Copy \/ FileFails
  BY <1>4 DEF Remove, Copy, FileFails, Phases, RunTrees
<1>5. CASE TreeDone
  <2>1. step' = IF trees' = {} THEN PhaseAfter({"server"}) ELSE "server"
    BY <1>5 DEF TreeDone, Enter
  <2>2. UNCHANGED run /\ RunTrees' = RunTrees /\ todo' = {} /\ trees' \subseteq trees
        /\ trees \subseteq RunTrees /\ "server" \in run.scopes
    BY <1>5 DEF TreeDone, RunTrees, Phases
  <2>3. /\ step' = "stage" => "client" \in run.scopes
        /\ step' = "hash" => "resource_pack" \in run.scopes
        /\ step' \in {"server", "stage", "hash", "idle"}
    BY <2>1, PhasesAfter, PhaseTyped
  <2> QED
    BY <2>1, <2>2, <2>3 DEF Phases
<1>6. ASSUME NEW out, StageClient(out) PROVE Phases'
  BY <1>6 DEF StageClient, Phases, RunTrees
<1>7. CASE CreateZip
  <2>1. step' = PhaseAfter({"server", "client"}) /\ UNCHANGED run /\ todo' = {}
    BY <1>7 DEF CreateZip, Enter, Phases
  <2>2. step' \in {"hash", "idle"} /\ (step' = "hash" => "resource_pack" \in run.scopes)
    BY <2>1, PhasesAfter
  <2> QED
    BY <2>1, <2>2 DEF Phases
<1>8. CASE HashPacks \/ Publish \/ Published \/ WriteProperties \/ PropertiesDone
  BY <1>8 DEF HashPacks, Publish, Published, WriteProperties, PropertiesDone, Enter, Phases
<1>9. CASE Ends
  BY <1>9 DEF Ends, Phases
<1>10. CASE \/ \E f \in Files, content \in Values \cup {Missing} : EditSource(f, content)
            \/ \E o \in [pack : Values, prompt : Values] : EditOffer(o)
            \/ \E t \in Tree : \E f \in FilesOf(t), content \in Values \cup {Missing} :
                  Drift(t, f, content)
  <2>1. UNCHANGED <<step, run, trees, todo>>
    BY <1>10 DEF EditSource, EditOffer, Drift
  <2> QED
    BY <2>1 DEF Phases, RunTrees
<1>11. CASE UNCHANGED scopesVars
  BY <1>11 DEF scopesVars, Phases, RunTrees
<1> QED
  BY <1>1, <1>2, <1>3, <1>4, <1>5, <1>6, <1>7, <1>8, <1>9, <1>10, <1>11 DEF ScopesNext

\* The steps of a run that nothing disturbs.
Regular ==
    \/ Preflight \/ Compare({}) \/ Remove \/ Copy \/ TreeDone \/ StageClient({}) \/ CreateZip
    \/ HashPacks \/ Publish \/ Published \/ WriteProperties \/ PropertiesDone

\* A step after which the run is undisturbed begins it or goes on with it.
LEMMA CleanSteps ==
    ASSUME [ScopesNext]_scopesVars, clean'
    PROVE  \/ \E q \in Requests : Begin(q)
           \/ clean /\ Regular
           \/ UNCHANGED scopesVars
<1>1. ~Event
  BY DEF Event
<1>2. ASSUME NEW f, Partial({f}) PROVE FALSE
  <2>1. {f} # {}
    OBVIOUS
  <2> QED
    BY <1>1, <1>2, <2>1, Zenon DEF Partial
<1>3. ~ \E f \in Files : Compare({f}) \/ StageClient({f})
  BY <1>2 DEF Compare, StageClient
<1>4. ~FileFails /\ ~Ends
  BY <1>1 DEF FileFails, Ends
<1>5. ~ \/ \E f \in Files, content \in Values \cup {Missing} : EditSource(f, content)
        \/ \E o \in [pack : Values, prompt : Values] : EditOffer(o)
        \/ \E t \in Tree : \E f \in FilesOf(t), content \in Values \cup {Missing} :
              Drift(t, f, content)
  BY <1>1 DEF EditSource, EditOffer, Drift
<1>6. Regular => clean
  BY <1>1 DEF Regular, Preflight, Compare, Remove, Copy, TreeDone, StageClient, CreateZip,
     HashPacks,
         Publish, Published, WriteProperties, PropertiesDone, Partial
<1> QED
  BY <1>3, <1>4, <1>5, <1>6 DEF ScopesNext, Regular

\* An undisturbed run leaves the sources, the sides and the command line alone.
LEMMA RegularFrame ==
    ASSUME Regular
    PROVE  UNCHANGED <<sources, offer, review, run>>
BY DEF Regular, Preflight, Compare, Remove, Copy, TreeDone, StageClient, CreateZip, HashPacks,
       Publish, Published, WriteProperties, PropertiesDone, operatorVars

\* What a run is to deploy changes with the sources, the sides and the command line only.
LEMMA WantedStays ==
    ASSUME UNCHANGED <<sources, review, run>>
    PROVE  /\ \A t : Wanted(t)' = Wanted(t)
           /\ \A side : WantedJars(side)' = WantedJars(side)
           /\ InSource(Marked)' = InSource(Marked)
           /\ ClientTree' = ClientTree
           /\ RunTrees' = RunTrees
<1>1. \A side : WantedJars(side)' = WantedJars(side)
  BY DEF WantedJars, InSource, IntendedSide
<1>2. \A t : Wanted(t)' = Wanted(t)
  BY <1>1 DEF Wanted, InSource
<1>3. InSource(Marked)' = InSource(Marked)
  BY DEF InSource, Marked, Unmarked, Override
<1>4. ClientTree' = ClientTree
  BY <1>1 DEF ClientTree
<1>5. RunTrees' = RunTrees
  BY DEF RunTrees
<1> QED
  BY <1>1, <1>2, <1>3, <1>4, <1>5

\* The manifests that an undisturbed run has read stay those of the jars there.
LEMMA StepFresh ==
    ASSUME ScopesTypeOK, Fresh, [ScopesNext]_scopesVars
    PROVE  Fresh'
<1> SUFFICES ASSUME clean' PROVE scanned' \in {Unscanned, InSource(Marked)'}
  BY DEF Fresh
<1>1. CASE \E q \in Requests : Begin(q)
  BY <1>1 DEF Begin
<1>2. CASE clean /\ Regular
  <2>1. InSource(Marked)' = InSource(Marked)
    BY <1>2, RegularFrame, WantedStays
  <2>2. Manifests = InSource(Marked) /\ scanned \in {Unscanned, InSource(Marked)}
    BY <1>2 DEF Fresh, Manifests
  <2>3. scanned' \in {scanned, Manifests}
    BY <1>2 DEF Regular, Preflight, Compare, Remove, Copy, TreeDone, StageClient,
       CreateZip, HashPacks,
       Publish, Published, WriteProperties, PropertiesDone
  <2> QED
    BY <2>1, <2>2, <2>3
<1>3. CASE UNCHANGED scopesVars
  <2>1. UNCHANGED <<sources, review, run, clean, scanned>>
    BY <1>3 DEF scopesVars, operatorVars, deployedVars, serverVars, packVars, runVars
  <2>2. InSource(Marked)' = InSource(Marked)
    BY <2>1, WantedStays
  <2> QED
    BY <2>1, <2>2 DEF Fresh
<1> QED
  BY <1>1, <1>2, <1>3, CleanSteps

\* An undisturbed run takes for a destination what the sources and the sides ask for.
LEMMA SourceIsWanted ==
    ASSUME ScopesTypeOK, Fresh, clean, NEW t
    PROVE  SourceOf(t) = Wanted(t)
BY WantedJarsFound DEF SourceOf, Wanted

\* What is wanted at a destination is there in the sources.
LEMMA WantedFiles ==
    ASSUME NEW t
    PROVE  /\ Wanted(t) \subseteq FilesOf(t)
           /\ \A f \in Wanted(t) : sources[f] # Missing
           /\ WantedJars("server") \subseteq Jars
<1>1. FilesOf(Mods) = Jars
  BY DEF FilesOf, Mods
<1>2. WantedJars("server") \subseteq InSource(Jars)
  BY DEF WantedJars, InSource
<1> QED
  BY <1>1, <1>2 DEF Wanted, InSource

\* The files of a kind are files.
LEMMA FilesTyped == \A t : FilesOf(t) \subseteq Files
BY SourceOfFiles

\* A write changes one file of the current tree.
LEMMA PlaceEffect ==
    ASSUME ScopesTypeOK, Current \in Tree, NEW f, NEW content, Place(f, content)
    PROVE  \A t \in Tree : \A g \in Files :
               placed'[t][g] = IF t = Current /\ g = f THEN content ELSE placed[t][g]
BY DEF Place, ScopesTypeOK

\* What comparing a tree with its source does: listed files go, and what is left to
\* remove and to copy is what differs.
LEMMA CompareEffect ==
    ASSUME ScopesTypeOK, Phases, Fresh, clean, Compare({})
    PROVE  /\ Current \in trees /\ Current \in Tree
           /\ UNCHANGED <<trees, plan, clean>> /\ step' = "write"
           /\ \A t \in Tree : \A f \in Files :
                  placed'[t][f] = IF t = Current /\ f \in Deleted(Current) THEN Missing
                                                                       ELSE placed[t][f]
           /\ copies' = {f \in Wanted(Current) : placed'[Current][f] # sources[f]}
           /\ removes' = IF ModeOf(Current) = "merge" THEN {}
                         ELSE {f \in Removable(Current) : placed'[Current][f] # Missing}
<1>1. Current \in trees /\ Current \in Tree
  BY CurrentIsOne DEF Compare, ScopesTypeOK
<1>2. SourceOf(Current) \ {} = Wanted(Current) /\ Wanted(Current) \subseteq Files
  BY SourceIsWanted, WantedFiles, FilesTyped
<1> DEFINE there == [f \in Files |-> IF f \in Deleted(Current) THEN Missing
                                     ELSE placed[Current][f]]
<1>3. /\ placed' = [placed EXCEPT ![Current] = there]
      /\ removes' = IF ModeOf(Current) = "merge" THEN {}
                    ELSE {f \in FilesOf(Current) \ Wanted(Current) : there[f] # Missing}
                             \ ProtectedFiles
      /\ copies' = {f \in Wanted(Current) : there[f] # sources[f]}
  BY <1>2 DEF Compare, ToCopy
<1>4. UNCHANGED <<trees, plan, clean>> /\ step' = "write"
  BY DEF Compare, Partial
<1>5. \A f \in Files : placed'[Current][f] = there[f]
  BY <1>1, <1>3 DEF ScopesTypeOK
<1>6. \A t \in Tree : t # Current => placed'[t] = placed[t]
  BY <1>3 DEF ScopesTypeOK
<1>7. \A t \in Tree : \A f \in Files :
          placed'[t][f] = IF t = Current /\ f \in Deleted(Current) THEN Missing
                          ELSE placed[t][f]
  BY <1>5, <1>6
<1> HIDE DEF there
<1>8. copies' = {f \in Wanted(Current) : placed'[Current][f] # sources[f]}
  BY <1>2, <1>3, <1>5
<1>9. FilesOf(Current) \subseteq Files
  BY FilesTyped
<1>10. removes' = IF ModeOf(Current) = "merge" THEN {}
                  ELSE {f \in Removable(Current) : placed'[Current][f] # Missing}
  BY <1>3, <1>5, <1>9 DEF Removable
<1> QED
  BY <1>1, <1>4, <1>7, <1>8, <1>10

\* A file that a slip both lists and ships may be away for a moment.
LEMMA DeletedCovered ==
    ASSUME NEW t, NEW f \in Deleted(t), sources[f] # Missing
    PROVE  Covered(t, f)
<1>1. run.slip /\ t[2] = "config" /\ f \in UNION Deletions[t[1]]
  BY DEF Deleted
<1>2. ASSUME NEW m \in run.part, t \in {Mods, <<m, t[2]>>}
      PROVE f \in InSource(UNION Deletions[m])
  <2>1. t # Mods
    BY <1>1 DEF Mods
  <2>2. t = <<m, t[2]>>
    BY <1>2, <2>1
  <2>3. t[1] = m
    BY <2>2
  <2> QED
    BY <1>1, <2>3 DEF InSource
<1> QED
  BY <1>1, <1>2 DEF Covered

\* Removing takes the first file that is left to remove out of the current tree.
LEMMA RemoveEffect ==
    ASSUME ScopesTypeOK, Phases, Remove
    PROVE  /\ Current \in trees /\ Current \in Tree /\ First(removes) \in removes
           /\ UNCHANGED <<trees, plan, clean, copies, step>>
           /\ removes' = removes \ {First(removes)}
           /\ \A t \in Tree : \A g \in Files :
                  placed'[t][g] = IF t = Current /\ g = First(removes) THEN Missing
                                                                        ELSE placed[t][g]
<1>1. Current \in trees /\ Current \in Tree
  BY CurrentIsOne DEF Remove, Phases, ScopesTypeOK
<1>2. First(removes) \in removes
  <2>1. removes \in SUBSET Nat /\ removes # {}
    BY ScopesAssumption DEF Remove, ScopesTypeOK
  <2> QED
    BY <2>1, FirstIsOne
<1>3. PICK x : x = First(removes)
  OBVIOUS
<1>4. Place(x, Missing) /\ UNCHANGED <<trees, plan, clean, copies, step>>
      /\ removes' = removes \ {First(removes)}
  BY <1>3 DEF Remove
<1>5. \A t \in Tree : \A g \in Files :
          placed'[t][g] = IF t = Current /\ g = x THEN Missing ELSE placed[t][g]
  BY <1>1, <1>4, PlaceEffect DEF Missing
<1> QED
  BY <1>1, <1>2, <1>3, <1>4, <1>5

\* Copying gives one file that is left to copy the bytes of its source.
LEMMA CopyEffect ==
    ASSUME ScopesTypeOK, Phases, Pending, clean, Copy
    PROVE  /\ Current \in trees /\ Current \in Tree
           /\ UNCHANGED <<trees, plan, clean, removes, step>>
           /\ \E f \in copies :
                  /\ f \in Wanted(Current)
                  /\ copies' = copies \ {f}
                  /\ \A t \in Tree : \A g \in Files :
                         placed'[t][g] = IF t = Current /\ g = f THEN sources[f]
                                         ELSE placed[t][g]
<1>1. Current \in trees /\ Current \in Tree
  BY CurrentIsOne DEF Copy, Phases, ScopesTypeOK
<1>2. PICK f \in copies :
          /\ Place(f, IF sources[f] = Missing THEN placed[Current][f] ELSE sources[f])
          /\ copies' = copies \ {f}
  BY DEF Copy
<1>3. f \in Wanted(Current) /\ sources[f] # Missing
  BY WantedFiles DEF Pending, Copy
<1>4. PICK c : c = sources[f]
  OBVIOUS
<1>5. Place(f, c)
  BY <1>2, <1>3, <1>4
<1>6. \A t \in Tree : \A g \in Files :
          placed'[t][g] = IF t = Current /\ g = f THEN c ELSE placed[t][g]
  BY <1>1, <1>5, PlaceEffect
<1> QED
  BY <1>1, <1>2, <1>3, <1>4, <1>6 DEF Copy

\* The rank of what the plan asks of a member is that of each change of its files.
LEMMA PlannedRank ==
    ASSUME ScopesTypeOK, Preflight, "server" \in run.scopes, NEW m \in run.part,
           NEW f \in ChangedOf(m)
    PROVE  Rank(Policy[f]) <= Rank(plan'[m])
<1>1. ChangedOf(m) \in SUBSET Files
  BY DEF ChangedOf, ChangedMods, Differing, FilesOf, Files, Mods
<1>2. m \in Members /\ plan'[m] = StickyMax({ServerAction(m), ResourcePackAction(m)})
  BY DEF Preflight, ScopesTypeOK
<1> DEFINE as == {Policy[g] : g \in ChangedOf(m)}
<1>3. as \in SUBSET Actions /\ Policy[f] \in as
  BY <1>1, ScopesAssumption
<1>4. ServerAction(m) = StickyMax(as)
  BY DEF ServerAction
<1> HIDE DEF as
<1>5. ServerAction(m) \in Actions /\ Rank(Policy[f]) <= Rank(ServerAction(m))
  BY <1>3, <1>4, StickyMaxTyped
<1>6. ResourcePackAction(m) \in Actions
  BY DEF ResourcePackAction, Actions
<1>7. Rank(ServerAction(m)) <= Rank(plan'[m]) /\ plan'[m] \in Actions
  BY <1>2, <1>5, <1>6, StickyMaxTyped
<1>8. \A a \in Actions : Rank(a) \in Int
  BY DEF Actions, Rank
<1>9. Rank(Policy[f]) \in Int /\ Rank(ServerAction(m)) \in Int /\ Rank(plan'[m]) \in Int
  BY <1>3, <1>5, <1>7, <1>8
<1> QED
  BY <1>5, <1>7, <1>9

\* What differs from what is wanted at a destination of the run is a change of each
\* member concerned, or a client's jar that goes.
LEMMA PendingIsChange ==
    ASSUME ScopesTypeOK, Fresh, clean, NEW t \in RunTrees, NEW f \in FilesOf(t), Pends(t, f),
           NEW m \in run.part, t \in {Mods, <<m, t[2]>>}
    PROVE  f \in ChangedOf(m) \/ (run.slip /\ t = Mods /\ SlipSide[f] = "client")
<1>1. f \in Differing(t, SourceOf(t))
  BY SourceIsWanted DEF Pends, Differing
<1>2. CASE t = Mods
  <2>1. ~run.targeted
    <3>1. t \notin run.part \X {"config", "kubejs"}
      BY <1>2 DEF Mods
    <3> QED
      BY <3>1 DEF RunTrees
  <2>2. CASE ~run.slip
    BY <1>1, <1>2, <2>1, <2>2 DEF ChangedOf, ChangedMods
  <2>3. CASE run.slip
    <3>1. f \in Jars /\ FilesOf(Mods) = Jars
      BY <1>2 DEF FilesOf, Mods
    <3>2. Wanted(Mods) = {j \in InSource(Jars) : SlipSide[j] \in {"server", "both"}}
      BY <2>3 DEF Wanted, WantedJars
    <3>3. SlipSide[f] \in {"client", "server", "both"}
      BY <3>1, ScopesAssumption DEF Sides
    <3>4. SlipSide[f] = "client" \/ f \in Differing(Mods, InSource(Jars))
      BY <1>2, <3>1, <3>2, <3>3 DEF Pends, Differing, InSource
    <3> QED
      BY <1>2, <2>1, <2>3, <3>4 DEF ChangedOf, ChangedMods
  <2> QED
    BY <2>2, <2>3
<1>3. CASE t # Mods
  <2>1. t = <<m, t[2]>> /\ t[2] \in {"config", "kubejs"}
    BY <1>3 DEF RunTrees
  <2>2. f \in UNION {Differing(<<m, key>>, SourceOf(<<m, key>>)) : key \in {"config", "kubejs"}}
    BY <1>1, <2>1
  <2> QED
    BY <2>2 DEF ChangedOf
<1> QED
  BY <1>2, <1>3

\* Whatever is still to change in the trees left was announced.
LEMMA StepAnnounced ==
    ASSUME ScopesTypeOK, Phases, Fresh, Pending, Announced, [ScopesNext]_scopesVars
    PROVE  Announced'
<1> SUFFICES ASSUME clean', step' \in {"server", "write"},
                    NEW t \in trees', NEW f \in FilesOf(t), Pends(t, f)'
             PROVE  Covered(t, f)'
  BY DEF Announced, FilesOf
<1>1. ASSUME Regular, UNCHANGED plan
      PROVE Wanted(t)' = Wanted(t) /\ Covered(t, f)' = Covered(t, f) /\ sources' = sources
  BY <1>1, RegularFrame, WantedStays DEF Covered, InSource
<1>2. f \in Files
  BY FilesTyped
<1>3. CASE Preflight /\ clean
  <2>1. trees' = RunTrees /\ UNCHANGED <<sources, review, run, placed>>
    BY <1>3 DEF Preflight, operatorVars, deployedVars
  <2>2. Pends(t, f) /\ t \in RunTrees
    BY <2>1, WantedStays DEF Pends
  <2>3. "server" \in run.scopes
    <3>1. step' = PhaseAfter(IF RunTrees = {} THEN {"server"} ELSE {})
      BY <1>3 DEF Preflight, Enter
    <3>2. PhaseAfter({"server"}) \in {"stage", "hash", "idle"}
      BY PhasesAfter
    <3> QED
      BY <2>2, <3>1, <3>2, PhasesAfter
  <2>4. ASSUME NEW m \in run.part, t \in {Mods, <<m, t[2]>>}
        PROVE \/ Rank(Policy[f]) <= Rank(plan'[m])
              \/ run.slip /\ t = Mods /\ SlipSide[f] = "client"
    BY <1>3, <2>2, <2>3, <2>4, PendingIsChange, PlannedRank
  <2> QED
    BY <2>1, <2>4 DEF Covered
<1>4. CASE Compare({}) /\ clean
  <2>1. /\ Current \in trees /\ Current \in Tree /\ UNCHANGED <<trees, plan>>
        /\ \A u \in Tree : \A g \in Files :
               placed'[u][g] = IF u = Current /\ g \in Deleted(Current) THEN Missing
                               ELSE placed[u][g]
    BY <1>4, CompareEffect
  <2>2. t \in trees /\ t \in Tree /\ step = "server"
    BY <1>4, <2>1 DEF Compare, ScopesTypeOK
  <2>3. Wanted(t)' = Wanted(t) /\ Covered(t, f)' = Covered(t, f) /\ sources' = sources
    BY <1>1, <1>4, <2>1 DEF Regular
  <2>4. CASE t = Current /\ f \in Deleted(Current)
    <3>1. f \in Wanted(t)
      BY <1>2, <2>1, <2>2, <2>3, <2>4 DEF Pends
    <3> QED
      BY <2>3, <2>4, <3>1, WantedFiles, DeletedCovered
  <2>5. CASE ~(t = Current /\ f \in Deleted(Current))
    <3>1. Pends(t, f)
      BY <1>2, <2>1, <2>2, <2>3, <2>5 DEF Pends
    <3> QED
      BY <1>4, <2>2, <2>3, <3>1 DEF Announced
  <2> QED
    BY <2>4, <2>5
<1>5. CASE Remove /\ clean
  <2>1. /\ Current \in trees /\ Current \in Tree /\ First(removes) \in removes
        /\ UNCHANGED <<trees, plan>>
        /\ \A u \in Tree : \A g \in Files :
               placed'[u][g] = IF u = Current /\ g = First(removes) THEN Missing
                               ELSE placed[u][g]
    BY <1>5, RemoveEffect
  <2>2. t \in trees /\ t \in Tree /\ step = "write"
    BY <1>5, <2>1 DEF Remove, ScopesTypeOK
  <2>3. Wanted(t)' = Wanted(t) /\ Covered(t, f)' = Covered(t, f) /\ sources' = sources
    BY <1>1, <1>5, <2>1 DEF Regular
  <2>4. First(removes) \notin Wanted(Current)
    BY <1>5, <2>1, <2>2 DEF Pending, Removable
  <2>5. Pends(t, f)
    BY <1>2, <2>1, <2>2, <2>3, <2>4 DEF Pends
  <2> QED
    BY <1>5, <2>2, <2>3, <2>5 DEF Announced
<1>6. CASE Copy /\ clean
  <2>1. /\ Current \in trees /\ Current \in Tree /\ UNCHANGED <<trees, plan>>
        /\ \E h \in copies : /\ h \in Wanted(Current)
                             /\ \A u \in Tree : \A g \in Files :
                                    placed'[u][g] = IF u = Current /\ g = h THEN sources[h]
                                                    ELSE placed[u][g]
    BY <1>6, CopyEffect
  <2>2. t \in trees /\ t \in Tree /\ step = "write"
    BY <1>6, <2>1 DEF Copy, ScopesTypeOK
  <2>3. Wanted(t)' = Wanted(t) /\ Covered(t, f)' = Covered(t, f) /\ sources' = sources
    BY <1>1, <1>6, <2>1 DEF Regular
  <2>5. Pends(t, f)
    BY <1>2, <2>1, <2>2, <2>3 DEF Pends
  <2> QED
    BY <1>6, <2>2, <2>3, <2>5 DEF Announced
<1>7. CASE TreeDone /\ clean
  <2>1. t \in trees /\ UNCHANGED <<placed, plan>> /\ step = "write"
    BY <1>7 DEF TreeDone, deployedVars
  <2>2. Wanted(t)' = Wanted(t) /\ Covered(t, f)' = Covered(t, f) /\ sources' = sources
    BY <1>1, <1>7, <2>1 DEF Regular
  <2>3. Pends(t, f)
    BY <2>1, <2>2 DEF Pends
  <2> QED
    BY <1>7, <2>1, <2>2, <2>3 DEF Announced
<1>8. CASE \/ StageClient({}) \/ CreateZip \/ HashPacks \/ Publish \/ Published
           \/ WriteProperties \/ PropertiesDone
  <2>1. PhaseAfter({"server", "client"}) \in {"hash", "idle"}
    BY PhasesAfter
  <2> QED
    BY <1>8, <2>1 DEF StageClient, CreateZip, HashPacks, Publish, Published, WriteProperties,
           PropertiesDone, Enter
<1>9. CASE \E q \in Requests : Begin(q)
  BY <1>9 DEF Begin
<1>10. CASE UNCHANGED scopesVars
  <2>1. UNCHANGED <<sources, review, run, placed, plan, trees, step, clean>>
    BY <1>10 DEF scopesVars, operatorVars, deployedVars, serverVars, packVars, runVars
  <2>2. Wanted(t)' = Wanted(t) /\ Covered(t, f)' = Covered(t, f)
    BY <2>1, WantedStays DEF Covered, InSource
  <2>3. Pends(t, f)
    BY <2>1, <2>2 DEF Pends
  <2> QED
    BY <2>1, <2>2, <2>3 DEF Announced
<1> QED
  BY <1>3, <1>4, <1>5, <1>6, <1>7, <1>8, <1>9, <1>10, CleanSteps DEF Regular

\* The steps that leave a tree half written are those of its writing.
LEMMA WriteSteps ==
    ASSUME [ScopesNext]_scopesVars, clean', step' = "write"
    PROVE  clean /\ (Compare({}) \/ Remove \/ Copy \/ UNCHANGED scopesVars)
<1>1. ~ \E q \in Requests : Begin(q)
  BY DEF Begin
<1>2. ~Preflight
  <2>1. PhaseAfter(IF RunTrees = {} THEN {"server"} ELSE {}) # "write"
    BY PhaseTyped
  <2> QED
    BY <2>1 DEF Preflight, Enter
<1>3. ~TreeDone
  <2>1. (IF trees' = {} THEN PhaseAfter({"server"}) ELSE "server") # "write"
    BY PhaseTyped
  <2> QED
    BY <2>1 DEF TreeDone, Enter
<1>4. ~ \/ StageClient({}) \/ CreateZip \/ HashPacks \/ Publish \/ Published
        \/ WriteProperties \/ PropertiesDone
  <2>1. PhaseAfter({"server", "client"}) # "write"
    BY PhaseTyped
  <2> QED
    BY <2>1 DEF StageClient, CreateZip, HashPacks, Publish, Published, WriteProperties,
           PropertiesDone, Enter
<1>5. UNCHANGED scopesVars => clean
  BY DEF scopesVars
<1> QED
  BY <1>1, <1>2, <1>3, <1>4, <1>5, CleanSteps DEF Regular

\* The current tree is the same as long as the trees left are.
LEMMA CurrentStays == UNCHANGED trees => Current' = Current
BY DEF Current, Order

\* What is left to remove and to copy is what the comparison found.
LEMMA StepPending ==
    ASSUME ScopesTypeOK, Phases, Fresh, Pending, [ScopesNext]_scopesVars
    PROVE  Pending'
<1> SUFFICES ASSUME clean', step' = "write"
             PROVE  removes' \subseteq Removable(Current)' /\ copies' \subseteq Wanted(Current)'
  BY DEF Pending
<1>1. ASSUME UNCHANGED <<sources, review, run, trees>>
      PROVE Current' = Current /\ Wanted(Current)' = Wanted(Current)
            /\ Removable(Current)' = Removable(Current)
  <2>1. Current' = Current
    BY <1>1, CurrentStays
  <2>2. PICK t : t = Current
    OBVIOUS
  <2>3. Wanted(t)' = Wanted(t)
    BY <1>1, WantedStays
  <2> QED
    BY <2>1, <2>2, <2>3 DEF Removable, FilesOf, Wanted
<1>2. CASE Compare({})
  BY <1>1, <1>2, CompareEffect, RegularFrame, WriteSteps DEF Regular
<1>3. CASE Remove
  BY <1>1, <1>3, RemoveEffect, RegularFrame, WriteSteps DEF Regular, Pending
<1>4. CASE Copy
  BY <1>1, <1>4, CopyEffect, RegularFrame, WriteSteps DEF Regular, Pending
<1>5. CASE UNCHANGED scopesVars
  <2>1. UNCHANGED <<sources, review, run, trees, removes, copies, step, clean>>
    BY <1>5 DEF scopesVars, operatorVars, deployedVars, serverVars, packVars, runVars
  <2> QED
    BY <1>1, <2>1 DEF Pending
<1> QED
  BY <1>2, <1>3, <1>4, <1>5, WriteSteps

\* Each file of the current tree is as it is wanted or left to remove or to copy.
LEMMA StepArranged ==
    ASSUME ScopesTypeOK, Phases, Fresh, Pending, Arranged, [ScopesNext]_scopesVars
    PROVE  Arranged'
<1> SUFFICES ASSUME clean', step' = "write", NEW t, t = Current, NEW f \in FilesOf(t)
             PROVE  Current' = t /\ (Settled(t, f)' \/ f \in removes' \/ f \in copies')
  <2> SUFFICES ASSUME clean', step' = "write" PROVE Current' = Current
    BY DEF Arranged, FilesOf
  <2>1. UNCHANGED scopesVars => UNCHANGED trees
    BY DEF scopesVars, operatorVars, deployedVars, serverVars, packVars, runVars
  <2>2. Compare({}) \/ Remove \/ Copy => UNCHANGED trees
    BY DEF Compare, Remove, Copy
  <2> QED
    BY <2>1, <2>2, WriteSteps, CurrentStays
<1>0. clean /\ UNCHANGED <<sources, review, run>>
  <2>1. CASE UNCHANGED scopesVars
    BY <2>1, WriteSteps DEF scopesVars, operatorVars, deployedVars, serverVars, packVars,
       runVars
  <2> QED
    BY <2>1, WriteSteps, RegularFrame DEF Regular
<1>1. Wanted(t)' = Wanted(t) /\ f \in Files
  BY <1>0, WantedStays, FilesTyped
<1>2. CASE Compare({})
  <2>1. /\ Current \in Tree /\ UNCHANGED trees
        /\ copies' = {g \in Wanted(t) : placed'[t][g] # sources[g]}
        /\ removes' = IF ModeOf(t) = "merge" THEN {}
                      ELSE {g \in Removable(t) : placed'[t][g] # Missing}
    BY <1>0, <1>2, CompareEffect
  <2>2. Current' = t
    BY <2>1, CurrentStays
  <2>3. CASE f \in Wanted(t)
    BY <2>1, <2>2, <2>3, <1>0, <1>1 DEF Settled
  <2>4. CASE f \notin Wanted(t) /\ ModeOf(t) = "merge"
    <3>1. t[2] = "config" /\ ConfigMode[t[1]] = "merge"
      BY <2>4 DEF ModeOf
    <3> QED
      BY <3>1, <2>2, <2>4, <1>1 DEF Settled
  <2>5. CASE f \notin Wanted(t) /\ ModeOf(t) # "merge"
    BY <2>1, <2>2, <2>5, <1>1 DEF Settled, Removable
  <2> QED
    BY <2>3, <2>4, <2>5
<1>3. CASE Remove
  <2>1. /\ Current \in Tree /\ First(removes) \in removes /\ UNCHANGED <<trees, copies, step>>
        /\ removes' = removes \ {First(removes)}
        /\ \A u \in Tree : \A g \in Files :
               placed'[u][g] = IF u = Current /\ g = First(removes) THEN Missing
                               ELSE placed[u][g]
    BY <1>3, RemoveEffect
  <2>2. Current' = t /\ First(removes) \notin Wanted(t)
    BY <2>1, <1>0, CurrentStays DEF Pending, Removable
  <2>3. CASE f = First(removes)
    BY <2>1, <2>2, <2>3, <1>1 DEF Settled
  <2>4. CASE f # First(removes)
    <3>1. placed'[t][f] = placed[t][f]
      BY <2>1, <2>4, <1>1
    <3>2. Settled(t, f) \/ f \in removes \/ f \in copies
      BY <2>1, <1>0 DEF Arranged
    <3> QED
      BY <2>1, <2>2, <2>4, <3>1, <3>2, <1>0, <1>1 DEF Settled
  <2> QED
    BY <2>3, <2>4
<1>4. CASE Copy
  <2>1. /\ Current \in Tree /\ UNCHANGED <<trees, removes, step>>
        /\ \E h \in copies : /\ h \in Wanted(Current)
                             /\ copies' = copies \ {h}
                             /\ \A u \in Tree : \A g \in Files :
                                    placed'[u][g] = IF u = Current /\ g = h THEN sources[h]
                                                    ELSE placed[u][g]
    BY <1>0, <1>4, CopyEffect
  <2>2. PICK h \in copies : /\ h \in Wanted(Current)
                            /\ copies' = copies \ {h}
                            /\ \A u \in Tree : \A g \in Files :
                                   placed'[u][g] = IF u = Current /\ g = h THEN sources[h]
                                                   ELSE placed[u][g]
    BY <2>1
  <2>3. Current' = t
    BY <2>1, CurrentStays
  <2>4. CASE f = h
    BY <2>1, <2>2, <2>3, <2>4, <1>0, <1>1 DEF Settled
  <2>5. CASE f # h
    <3>1. placed'[t][f] = placed[t][f]
      BY <2>1, <2>2, <2>5, <1>1
    <3>2. Settled(t, f) \/ f \in removes \/ f \in copies
      BY <2>1, <1>0 DEF Arranged
    <3> QED
      BY <2>1, <2>2, <2>3, <2>5, <3>1, <3>2, <1>0, <1>1 DEF Settled
  <2> QED
    BY <2>4, <2>5
<1>5. CASE UNCHANGED scopesVars
  <2>1. UNCHANGED <<sources, placed, trees, removes, copies, step, clean>>
    BY <1>5 DEF scopesVars, operatorVars, deployedVars, serverVars, packVars, runVars
  <2>2. Current' = t
    BY <2>1, CurrentStays
  <2> QED
    BY <1>0, <1>1, <2>1, <2>2 DEF Arranged, Settled
<1> QED
  BY <1>2, <1>3, <1>4, <1>5, WriteSteps

\* The trees of the run that are not left are as the sources and the sides ask.
LEMMA StepTreesDone ==
    ASSUME ScopesTypeOK, Phases, Fresh, Pending, Arranged, TreesDone, [ScopesNext]_scopesVars
    PROVE  TreesDone'
<1> SUFFICES ASSUME clean', ("server" \in run.scopes)', step' # "preflight"
             PROVE  /\ \A t \in RunTrees' : t \notin trees' =>
                            \A f \in FilesOf(t) : Settled(t, f)'
                    /\ step' \notin {"server", "write"} => trees' = {}
  BY DEF TreesDone, FilesOf
<1>1. clean /\ (Regular \/ UNCHANGED scopesVars)
  <2>1. UNCHANGED scopesVars => clean
    BY DEF scopesVars
  <2>2. ~ \E q \in Requests : Begin(q)
    BY DEF Begin
  <2> QED
    BY <2>1, <2>2, CleanSteps
<1>2. UNCHANGED <<sources, review, run>>
  <2>1. CASE UNCHANGED scopesVars
    BY <2>1 DEF scopesVars, operatorVars, deployedVars, serverVars, packVars, runVars
  <2> QED
    BY <2>1, <1>1, RegularFrame
<1>3. RunTrees' = RunTrees /\ \A t : Wanted(t)' = Wanted(t)
  BY <1>2, WantedStays
<1>4. RunTrees \subseteq Tree
  BY DEF RunTrees, Tree, ScopesTypeOK
<1>5. ASSUME NEW t, NEW f, placed'[t][f] = placed[t][f], Settled(t, f)
      PROVE Settled(t, f)'
  BY <1>2, <1>3, <1>5 DEF Settled
<1>6. CASE Preflight
  <2>1. trees' = RunTrees /\ step' = PhaseAfter(IF RunTrees = {} THEN {"server"} ELSE {})
    BY <1>6 DEF Preflight, Enter
  <2>2. RunTrees # {} => step' = "server"
    BY <1>2, <2>1, PhasesAfter
  <2> QED
    BY <1>3, <2>1, <2>2
<1>7. CASE Compare({})
  <2>1. /\ Current \in trees /\ trees' = trees /\ step' = "write"
        /\ \A u \in Tree : \A g \in Files :
               placed'[u][g] = IF u = Current /\ g \in Deleted(Current) THEN Missing
                               ELSE placed[u][g]
    BY <1>1, <1>7, CompareEffect
  <2>2. step = "server"
    BY <1>7 DEF Compare
  <2> QED
    BY <1>1, <1>2, <1>3, <1>4, <1>5, <2>1, <2>2, FilesTyped DEF TreesDone
<1>8. CASE Remove
  <2>1. /\ Current \in trees /\ trees' = trees /\ step' = step
        /\ \A u \in Tree : \A g \in Files :
               placed'[u][g] = IF u = Current /\ g = First(removes) THEN Missing
                               ELSE placed[u][g]
    BY <1>8, RemoveEffect
  <2>2. step = "write"
    BY <1>8 DEF Remove
  <2> QED
    BY <1>1, <1>2, <1>3, <1>4, <1>5, <2>1, <2>2, FilesTyped DEF TreesDone
<1>9. CASE Copy
  <2>1. /\ Current \in trees /\ trees' = trees /\ step' = step
        /\ \E h \in copies : \A u \in Tree : \A g \in Files :
               placed'[u][g] = IF u = Current /\ g = h THEN sources[h] ELSE placed[u][g]
    BY <1>1, <1>9, CopyEffect
  <2>2. step = "write"
    BY <1>9 DEF Copy
  <2> QED
    BY <1>1, <1>2, <1>3, <1>4, <1>5, <2>1, <2>2, FilesTyped DEF TreesDone
<1>10. CASE TreeDone
  <2>1. /\ placed' = placed /\ trees' = trees \ {Current} /\ step = "write"
        /\ step' = IF trees' = {} THEN PhaseAfter({"server"}) ELSE "server"
        /\ removes = {} /\ copies = {}
    BY <1>10 DEF TreeDone, Enter, deployedVars
  <2>2. \A f \in FilesOf(Current) : Settled(Current, f)
    BY <1>1, <2>1 DEF Arranged
  <2>3. \A t \in RunTrees : t \notin trees => \A f \in FilesOf(t) : Settled(t, f)
    BY <1>1, <1>2, <2>1 DEF TreesDone
  <2>4. \A t \in RunTrees : t \notin trees' => \A f \in FilesOf(t) : Settled(t, f)
    BY <2>1, <2>2, <2>3
  <2> QED
    BY <1>3, <1>5, <2>1, <2>4
<1>11. CASE \/ StageClient({}) \/ CreateZip \/ HashPacks \/ Publish \/ Published
            \/ WriteProperties \/ PropertiesDone
  <2>1. UNCHANGED <<placed, trees>> /\ step \notin {"preflight", "server", "write"}
    BY <1>11 DEF StageClient, CreateZip, HashPacks, Publish, Published, WriteProperties,
           PropertiesDone, deployedVars, serverVars
  <2> QED
    BY <1>1, <1>2, <1>3, <1>5, <2>1 DEF TreesDone
<1>12. CASE UNCHANGED scopesVars
  <2>1. UNCHANGED <<placed, trees, step, clean>>
    BY <1>12 DEF scopesVars, operatorVars, deployedVars, serverVars, packVars, runVars
  <2> QED
    BY <1>1, <1>2, <1>3, <1>5, <2>1 DEF TreesDone
<1> QED
  BY <1>1, <1>6, <1>7, <1>8, <1>9, <1>10, <1>11, <1>12 DEF Regular

\* The staging tree, then the ZIP, holds what a client is to get.
LEMMA StepClientDone ==
    ASSUME ScopesTypeOK, Phases, Fresh, ClientDone, [ScopesNext]_scopesVars
    PROVE  ClientDone'
<1> SUFFICES ASSUME clean'
             PROVE  /\ step' = "zip" => staged' = ClientTree'
                    /\ ("client" \in run.scopes)' /\ step' \in {"hash", "publish", "props", "idle"}
                           => zip' = ClientTree'
  BY DEF ClientDone
<1>1. CASE \E q \in Requests : Begin(q)
  BY <1>1 DEF Begin
<1>2. ASSUME UNCHANGED <<sources, review, run>>
      PROVE ClientTree' = ClientTree
  BY <1>2, WantedStays
<1>3. CASE clean /\ Regular
  <2>1. UNCHANGED run /\ ClientTree' = ClientTree
    BY <1>2, <1>3, RegularFrame
  <2>2. CASE Preflight
    <3>1. step' = PhaseAfter(IF RunTrees = {} THEN {"server"} ELSE {})
      BY <2>2 DEF Preflight, Enter
    <3>2. step' # "zip" /\ ("client" \in run.scopes => step' \in {"server", "stage"})
      BY <3>1, PhasesAfter, PhaseTyped
    <3> QED
      BY <2>1, <3>2
  <2>3. CASE Compare({}) \/ Remove \/ Copy
    BY <2>3 DEF Compare, Remove, Copy
  <2>4. CASE TreeDone
    <3>1. step' = IF trees' = {} THEN PhaseAfter({"server"}) ELSE "server"
      BY <2>4 DEF TreeDone, Enter
    <3>2. step' # "zip" /\ ("client" \in run.scopes => step' \in {"server", "stage"})
      BY <3>1, PhasesAfter, PhaseTyped
    <3> QED
      BY <2>1, <3>2
  <2>5. CASE StageClient({})
    <3>1. step' = "zip" /\ staged' = [f \in Files |-> IF f \in ClientFiles THEN sources[f]
                                                      ELSE Missing]
      BY <2>5 DEF StageClient
    <3>2. ClientFiles = WantedJars("client") \cup InSource(Configs \cup Scripts)
      BY <1>3, WantedJarsFound DEF ClientFiles
    <3>3. \A f \in Files : (IF f \in ClientFiles THEN sources[f] ELSE Missing)
              = IF f \in WantedJars("client") \cup Configs \cup Scripts THEN sources[f]
                ELSE Missing
      BY <3>2 DEF InSource
    <3> QED
      BY <2>1, <3>1, <3>3 DEF ClientTree
  <2>6. CASE CreateZip
    <3>1. step = "zip" /\ zip' = staged /\ step' = PhaseAfter({"server", "client"})
      BY <2>6 DEF CreateZip, Enter
    <3>2. step' # "zip"
      BY <3>1, PhaseTyped
    <3> QED
      BY <1>3, <2>1, <3>1, <3>2 DEF ClientDone
  <2>7. CASE HashPacks \/ Publish \/ Published \/ WriteProperties \/ PropertiesDone
    <3>1. /\ step \in {"hash", "publish", "props"} /\ step' \in {"publish", "props", "idle"}
          /\ zip' = zip
      BY <2>7 DEF HashPacks, Publish, Published, WriteProperties, PropertiesDone, Enter,
         deployedVars
    <3> QED
      BY <1>3, <2>1, <3>1 DEF ClientDone
  <2> QED
    BY <1>3, <2>2, <2>3, <2>4, <2>5, <2>6, <2>7 DEF Regular
<1>4. CASE UNCHANGED scopesVars
  <2>1. UNCHANGED <<sources, review, run, zip, staged, step, clean>>
    BY <1>4 DEF scopesVars, operatorVars, deployedVars, serverVars, packVars, runVars
  <2> QED
    BY <1>2, <2>1 DEF ClientDone
<1> QED
  BY <1>1, <1>3, <1>4, CleanSteps

\* Members are numbers, as a first one is one of them.
LEMMA FirstMember ==
    ASSUME ScopesTypeOK, todo # {}
    PROVE  First(todo) \in todo /\ todo \subseteq Members
<1>1. todo \in SUBSET Nat
  BY ScopesAssumption DEF ScopesTypeOK
<1> QED
  BY <1>1, FirstIsOne DEF ScopesTypeOK

\* The restart of a member whose published pack changes was announced to its players.
LEMMA StepPackAnnounced ==
    ASSUME ScopesTypeOK, Phases, PackDone, PackAnnounced, [ScopesNext]_scopesVars
    PROVE  PackAnnounced'
<1> SUFFICES ASSUME clean', ("resource_pack" \in run.scopes)', step' \notin {"idle", "preflight"},
                    NEW m \in run'.part, props'[m].pack # offer'.pack
             PROVE  plan'[m] = "restart"
  BY DEF PackAnnounced
<1>1. CASE \E q \in Requests : Begin(q)
  BY <1>1 DEF Begin
<1>2. CASE Preflight /\ clean
  <2>1. /\ m \in run.part /\ m \in Members /\ props' = props /\ offer' = offer
        /\ "resource_pack" \in run.scopes
        /\ plan'[m] = StickyMax({ServerAction(m), ResourcePackAction(m)})
    BY <1>2 DEF Preflight, ScopesTypeOK, operatorVars, deployedVars
  <2>2. ResourcePackAction(m) = "restart"
    BY <2>1 DEF ResourcePackAction
  <2>3. ServerAction(m) \in Actions
    <3>1. ChangedOf(m) \in SUBSET Files
      BY DEF ChangedOf, ChangedMods, Differing, FilesOf, Files, Mods
    <3>2. {Policy[f] : f \in ChangedOf(m)} \in SUBSET Actions
      BY <3>1, ScopesAssumption
    <3> QED
      BY <3>2, StickyMaxTyped DEF ServerAction, Actions
  <2>4. plan'[m] \in Actions /\ Rank("restart") <= Rank(plan'[m])
    BY <2>1, <2>2, <2>3, StickyMaxTyped DEF Actions
  <2> QED
    BY <2>4 DEF Actions, Rank
<1>3. CASE clean /\ Regular /\ ~Preflight
  <2>1. UNCHANGED <<offer, run>>
    BY <1>3, RegularFrame
  <2>2. step \notin {"idle", "preflight"} /\ plan' = plan
    BY <1>3 DEF Regular, Compare, Remove, Copy, TreeDone, StageClient, CreateZip, HashPacks,
           Publish, Published, WriteProperties, PropertiesDone
  <2>3. props[m].pack # offer.pack
    <3>1. CASE WriteProperties
      <4>1. props' = [props EXCEPT ![First(todo)] = offer]
        BY <1>3, <3>1 DEF WriteProperties, PackDone
      <4>2. m \in Members
        BY <2>1 DEF ScopesTypeOK
      <4>3. props'[m] \in {offer, props[m]}
        BY <4>1, <4>2 DEF ScopesTypeOK
      <4> QED
        BY <2>1, <4>3
    <3>2. CASE ~WriteProperties
      <4>1. props' = props
        BY <1>3, <3>2 DEF Regular, Compare, Remove, Copy, TreeDone, StageClient, CreateZip,
               HashPacks, Publish, Published, PropertiesDone, deployedVars
      <4> QED
        BY <2>1, <4>1
    <3> QED
      BY <3>1, <3>2
  <2> QED
    BY <1>3, <2>1, <2>2, <2>3 DEF PackAnnounced
<1>4. CASE UNCHANGED scopesVars
  <2>1. UNCHANGED <<offer, run, props, plan, step, clean>>
    BY <1>4 DEF scopesVars, operatorVars, deployedVars, serverVars, packVars, runVars
  <2> QED
    BY <2>1 DEF PackAnnounced
<1> QED
  BY <1>1, <1>2, <1>3, <1>4, CleanSteps

\* A pack is published before the servers are pointed at it, and then they all are.
LEMMA StepPackDone ==
    ASSUME ScopesTypeOK, Phases, PackDone, [ScopesNext]_scopesVars
    PROVE  PackDone'
<1> SUFFICES ASSUME clean' PROVE PackDone'
  BY DEF PackDone
<1>1. CASE \E q \in Requests : Begin(q)
  BY <1>1 DEF Begin, PackDone
<1>2. CASE clean /\ Preflight
  <2>1. step' = PhaseAfter(IF RunTrees = {} THEN {"server"} ELSE {}) /\ run' = run
    BY <1>2 DEF Preflight, Enter
  <2>2. step' \in {"server", "stage", "hash", "idle"}
        /\ ("resource_pack" \in run.scopes => step' # "idle")
    BY <2>1, PhasesAfter, PhaseTyped
  <2> QED
    BY <2>1, <2>2 DEF PackDone
<1>3. CASE clean /\ (Compare({}) \/ Remove \/ Copy \/ StageClient({}))
  BY <1>3 DEF Compare, Remove, Copy, StageClient, PackDone
<1>4. CASE clean /\ (TreeDone \/ CreateZip)
  <2>1. step' \in {PhaseAfter({"server"}), PhaseAfter({"server", "client"}), "server"} /\ run' = run
    BY <1>4 DEF TreeDone, CreateZip, Enter
  <2>2. step' \in {"server", "stage", "hash", "idle"}
        /\ ("resource_pack" \in run.scopes => step' # "idle")
    BY <2>1, PhasesAfter, PhaseTyped
  <2> QED
    BY <2>1, <2>2 DEF PackDone
<1>5. CASE clean /\ HashPacks
  BY <1>5 DEF HashPacks, PackDone, operatorVars
<1>6. CASE clean /\ Publish
  <2>1. hashed = offer /\ step' = "publish" /\ UNCHANGED <<hashed, offer, run>>
    BY <1>6 DEF Publish, PackDone, operatorVars
  <2>2. pack' = offer.pack
    BY <1>6, <2>1 DEF Publish
  <2> QED
    BY <2>1, <2>2 DEF PackDone
<1>7. CASE clean /\ Published
  BY <1>7 DEF Published, PackDone, operatorVars, deployedVars
<1>8. CASE clean /\ WriteProperties
  <2>1. /\ hashed = offer /\ step' = "props" /\ UNCHANGED <<hashed, offer, run, pack>>
        /\ todo' = todo \ {First(todo)} /\ First(todo) \in Members
        /\ props' = [props EXCEPT ![First(todo)] = offer]
    BY <1>8, FirstMember DEF WriteProperties, PackDone, operatorVars
  <2>2. run.part \subseteq Members
    BY DEF ScopesTypeOK
  <2>3. ASSUME NEW m \in run.part \ todo' PROVE props'[m] = offer
    <3>1. CASE m = First(todo)
      BY <2>1, <3>1 DEF ScopesTypeOK
    <3>2. CASE m # First(todo)
      <4>1. props[m] = offer
        BY <1>8, <2>1, <3>2 DEF WriteProperties, PackDone
      <4> QED
        BY <2>1, <2>2, <3>2, <4>1 DEF ScopesTypeOK
    <3> QED
      BY <3>1, <3>2
  <2>4. run.part # {} => pack = offer.pack
    BY <1>8 DEF WriteProperties, PackDone
  <2> QED
    BY <2>1, <2>3, <2>4 DEF PackDone
<1>9. CASE clean /\ PropertiesDone
  <2>1. /\ step = "props" /\ todo = {} /\ step' = "idle"
        /\ UNCHANGED <<offer, run, pack, props>>
    BY <1>9 DEF PropertiesDone, Enter, operatorVars, deployedVars
  <2>2. \A m \in run.part : pack = offer.pack /\ props[m] = offer
    BY <1>9, <2>1 DEF PackDone
  <2> QED
    BY <2>1, <2>2 DEF PackDone
<1>10. CASE UNCHANGED scopesVars
  <2>1. UNCHANGED <<offer, run, pack, props, hashed, todo, step, clean>>
    BY <1>10 DEF scopesVars, operatorVars, deployedVars, serverVars, packVars, runVars
  <2> QED
    BY <2>1 DEF PackDone
<1> QED
  BY <1>1, <1>2, <1>3, <1>4, <1>5, <1>6, <1>7, <1>8, <1>9, <1>10, CleanSteps DEF Regular

-----------------------------------------------------------------------------
(* The theorems on Scopes.                                                     *)

\* The inductive invariant of a run that writes an instance's files.
ScopesInv ==
    /\ ScopesTypeOK /\ Phases /\ Fresh
    /\ Announced /\ Pending
    /\ Arranged /\ TreesDone /\ ClientDone
    /\ PackAnnounced /\ PackDone

\* Before the first run nothing is left over, and no run is undisturbed.
LEMMA InitScopes == ScopesInit => ScopesInv
<1> SUFFICES ASSUME ScopesInit PROVE ScopesInv
  OBVIOUS
<1>1. ScopesTypeOK
  BY InitTyped
<1>2. clean = FALSE /\ step = "idle" /\ todo = {}
  BY DEF ScopesInit
<1> QED
  BY <1>1, <1>2 DEF ScopesInv, Phases, Fresh, Announced, Pending, Arranged, TreesDone,
     ClientDone,
         PackAnnounced, PackDone

\* Every step preserves the inductive invariant.
LEMMA StepScopes == ScopesInv /\ [ScopesNext]_scopesVars => ScopesInv'
BY StepTyped, StepPhases, StepFresh, StepAnnounced, StepPending, StepArranged, StepTreesDone,
   StepClientDone, StepPackAnnounced, StepPackDone DEF ScopesInv

\* In every state that the tool, the operator and the outside world can bring about, the
\* conjuncts above hold: of an undisturbed run, what is announced, what is left to write
\* and what is written agree.
THEOREM ScopesInvariant == ScopesSpec => []ScopesInv
<1>1. ScopesInit => ScopesInv
  BY InitScopes
<1>2. ScopesInv /\ [ScopesNext]_scopesVars => ScopesInv'
  BY StepScopes
<1> QED
  BY <1>1, <1>2, PTL DEF ScopesSpec

\* The state of the tool, of its destinations and of its sources has its types.
THEOREM ScopesTypeCorrect == ScopesSpec => []ScopesTypeOK
<1>1. ScopesInv => ScopesTypeOK
  BY DEF ScopesInv
<1> QED
  BY <1>1, ScopesInvariant, PTL

\* A run that nothing disturbed and that reports success leaves every destination of its
\* scopes as the sources and the sides ask (scope_server.py, scope_client.py,
\* scope_resource_pack.py), from whatever state earlier runs had left there: the jars of a
\* side are the least set closed under what a jar requires, and no partial copy, torn file
\* or stale setting is left.
THEOREM ScopesConverge == ScopesSpec => []CleanRunConverges
<1>1. ScopesInv => CleanRunConverges
  <2> SUFFICES ASSUME ScopesInv, step = "idle", clean PROVE CleanRunConverges
    BY DEF CleanRunConverges, Idle
  <2>1. ASSUME "server" \in run.scopes, NEW t \in RunTrees PROVE TreeConverged(t)
    <3>1. \A f \in FilesOf(t) : Settled(t, f)
      BY <2>1 DEF ScopesInv, TreesDone
    <3> QED
      BY <3>1 DEF Settled, Wanted, TreeConverged
  <2>2. ASSUME "client" \in run.scopes, NEW f \in Files
        PROVE zip[f] = IF f \in WantedJars("client") \cup Configs \cup Scripts
                       THEN sources[f] ELSE Missing
    <3>1. zip = ClientTree
      BY <2>2 DEF ScopesInv, ClientDone
    <3> QED
      BY <3>1 DEF ClientTree
  <2>3. ASSUME "resource_pack" \in run.scopes
        PROVE \A m \in run.part : pack = offer.pack /\ props[m] = offer
    BY <2>3 DEF ScopesInv, PackDone
  <2> QED
    BY <2>1, <2>2, <2>3 DEF CleanRunConverges
<1> QED
  BY <1>1, ScopesInvariant, PTL

\* A protected file that a slip deletes is one of several in a directory that it lists.
LEMMA DeletedProtected ==
    ASSUME NEW t, NEW f \in Deleted(t), f \in ProtectedFiles
    PROVE  \E d \in Deletions[t[1]] : f \in d /\ d # {f}
BY DEF Deleted

\* What still differs and was announced is written within the rules.
LEMMA AnnouncedRules ==
    ASSUME ScopesInv, clean, step \in {"server", "write"}, NEW t \in trees, NEW f \in FilesOf(t),
           Covered(t, f)
    PROVE  /\ "server" \in run.scopes
           /\ t \in RunTrees
           /\ \A m \in run.part :
                 \/ t \notin {Mods, <<m, t[2]>>}
                 \/ Rank(Policy[f]) <= Rank(plan[m])
                 \/ run.slip /\ f \in InSource(UNION Deletions[m])
                 \/ run.slip /\ t = Mods /\ SlipSide[f] = "client"
BY DEF ScopesInv, Phases, Covered

\* Every step of an undisturbed run keeps to the rules.
LEMMA StepRules == ScopesInv /\ [ScopesNext]_scopesVars => WriteRules
<1> SUFFICES ASSUME ScopesInv, [ScopesNext]_scopesVars, clean, clean' PROVE WriteRules
  BY DEF WriteRules
<1> USE DEF ScopesInv
<1>1. ASSUME UNCHANGED <<placed, props>> PROVE WriteRules
  BY <1>1 DEF WriteRules
<1>2. CASE Compare({})
  <2>1. /\ Current \in trees /\ Current \in Tree
        /\ \A t \in Tree : \A f \in Files :
               placed'[t][f] = IF t = Current /\ f \in Deleted(Current) THEN Missing
                               ELSE placed[t][f]
    BY <1>2, CompareEffect
  <2>2. step = "server" /\ props' = props
    BY <1>2 DEF Compare
  <2> SUFFICES ASSUME NEW t \in Tree, NEW f \in FilesOf(t), placed'[t][f] # placed[t][f]
               PROVE  /\ "server" \in run.scopes
                      /\ t \in RunTrees
                      /\ \A m \in run.part :
                            \/ t \notin {Mods, <<m, t[2]>>}
                            \/ Rank(Policy[f]) <= Rank(plan[m])
                            \/ run.slip /\ f \in InSource(UNION Deletions[m])
                            \/ run.slip /\ t = Mods /\ SlipSide[f] = "client"
                      /\ f \in ProtectedFiles /\ placed'[t][f] = Missing =>
                            \E d \in Deletions[t[1]] : f \in d /\ d # {f}
    BY <2>2 DEF WriteRules
  <2>3. t = Current /\ f \in Deleted(t) /\ placed[t][f] # Missing
    BY <2>1, FilesTyped
  <2>4. Covered(t, f)
    <3>1. CASE sources[f] # Missing
      BY <2>3, <3>1, DeletedCovered
    <3>2. CASE sources[f] = Missing
      <4>1. Pends(t, f)
        BY <2>3, <3>2, WantedFiles DEF Pends
      <4> QED
        BY <2>1, <2>2, <2>3, <4>1 DEF Announced
    <3> QED
      BY <3>1, <3>2
  <2> QED
    BY <2>1, <2>2, <2>3, <2>4, AnnouncedRules, DeletedProtected
<1>3. CASE Remove
  <2>1. /\ Current \in trees /\ Current \in Tree /\ First(removes) \in removes
        /\ \A t \in Tree : \A f \in Files :
               placed'[t][f] = IF t = Current /\ f = First(removes) THEN Missing
                               ELSE placed[t][f]
    BY <1>3, RemoveEffect
  <2>2. step = "write" /\ props' = props
    BY <1>3 DEF Remove
  <2> SUFFICES ASSUME NEW t \in Tree, NEW f \in FilesOf(t), placed'[t][f] # placed[t][f]
               PROVE  /\ "server" \in run.scopes
                      /\ t \in RunTrees
                      /\ \A m \in run.part :
                            \/ t \notin {Mods, <<m, t[2]>>}
                            \/ Rank(Policy[f]) <= Rank(plan[m])
                            \/ run.slip /\ f \in InSource(UNION Deletions[m])
                            \/ run.slip /\ t = Mods /\ SlipSide[f] = "client"
                      /\ f \in ProtectedFiles /\ placed'[t][f] = Missing =>
                            \E d \in Deletions[t[1]] : f \in d /\ d # {f}
    BY <2>2 DEF WriteRules
  <2>3. t = Current /\ f = First(removes) /\ placed[t][f] # Missing
    BY <2>1, FilesTyped
  <2>4. f \notin Wanted(t) /\ f \notin ProtectedFiles
    BY <2>1, <2>2, <2>3 DEF Pending, Removable
  <2>5. Covered(t, f)
    BY <2>1, <2>2, <2>3, <2>4 DEF Announced, Pends
  <2> QED
    BY <2>1, <2>2, <2>3, <2>4, <2>5, AnnouncedRules
<1>4. CASE Copy
  <2>1. /\ Current \in trees /\ Current \in Tree
        /\ \E h \in copies : /\ h \in Wanted(Current)
                             /\ \A t \in Tree : \A f \in Files :
                                    placed'[t][f] = IF t = Current /\ f = h THEN sources[h]
                                                    ELSE placed[t][f]
    BY <1>4, CopyEffect
  <2>2. step = "write" /\ props' = props
    BY <1>4 DEF Copy
  <2> SUFFICES ASSUME NEW t \in Tree, NEW f \in FilesOf(t), placed'[t][f] # placed[t][f]
               PROVE  /\ "server" \in run.scopes
                      /\ t \in RunTrees
                      /\ \A m \in run.part :
                            \/ t \notin {Mods, <<m, t[2]>>}
                            \/ Rank(Policy[f]) <= Rank(plan[m])
                            \/ run.slip /\ f \in InSource(UNION Deletions[m])
                            \/ run.slip /\ t = Mods /\ SlipSide[f] = "client"
                      /\ f \in ProtectedFiles /\ placed'[t][f] = Missing =>
                            \E d \in Deletions[t[1]] : f \in d /\ d # {f}
    BY <2>2 DEF WriteRules
  <2>3. t = Current /\ f \in Wanted(t) /\ placed'[t][f] = sources[f] /\ placed[t][f] # sources[f]
    BY <2>1, FilesTyped
  <2>4. sources[f] # Missing
    BY <2>3, WantedFiles
  <2>5. Covered(t, f)
    BY <2>1, <2>2, <2>3, <2>4 DEF Announced, Pends
  <2> QED
    BY <2>1, <2>2, <2>3, <2>4, <2>5, AnnouncedRules
<1>5. CASE WriteProperties
  <2>1. /\ step = "props" /\ placed' = placed /\ hashed = offer
        /\ First(todo) \in todo /\ todo \subseteq run.part /\ todo \subseteq Members
        /\ props' = [props EXCEPT ![First(todo)] = offer]
    BY <1>5, FirstMember DEF WriteProperties, Phases, PackDone
  <2>2. ASSUME NEW m \in Members, props'[m].pack # props[m].pack
        PROVE "resource_pack" \in run.scopes /\ plan[m] = "restart" /\ pack = props'[m].pack
    <3>1. m = First(todo) /\ props'[m] = offer
      BY <2>1, <2>2 DEF ScopesTypeOK
    <3>2. "resource_pack" \in run.scopes /\ m \in run.part
      BY <2>1, <3>1 DEF Phases
    <3> QED
      BY <2>1, <2>2, <3>1, <3>2 DEF PackAnnounced, PackDone
  <2> QED
    BY <2>1, <2>2 DEF WriteRules
<1>6. CASE \/ Preflight \/ TreeDone \/ StageClient({}) \/ CreateZip \/ HashPacks \/ Publish
           \/ Published \/ PropertiesDone \/ \E q \in Requests : Begin(q)
  BY <1>1, <1>6 DEF Preflight, TreeDone, StageClient, CreateZip, HashPacks, Publish, Published,
         PropertiesDone, Begin, deployedVars
<1>7. CASE UNCHANGED scopesVars
  BY <1>1, <1>7 DEF scopesVars, operatorVars, deployedVars, serverVars, packVars, runVars
<1> QED
  BY <1>2, <1>3, <1>4, <1>5, <1>6, <1>7, CleanSteps DEF Regular

\* While nothing interferes, a run writes only what it announced, in its own scopes and
\* members, keeps protected files, and points a server only at a pack that is published.
THEOREM ScopesRules == ScopesSpec => WriteDiscipline
<1>1. ScopesInv /\ [ScopesNext]_scopesVars => [WriteRules]_scopesVars
  BY StepRules
<1> QED
  BY <1>1, ScopesInvariant, PTL DEF ScopesSpec, WriteDiscipline
=============================================================================
