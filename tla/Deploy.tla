------------------------------- MODULE Deploy -------------------------------
(* The deployment orchestrator of the production daemon: one POST /deploy as   *)
(* daemon/deploy.py runs it, with the operation journal, the deployment lock,  *)
(* the world backup, the shipping of the mods, recovery and the active-release *)
(* pointer, over daemon crashes and restarts.                                  *)
(*                                                                             *)
(* What is abstracted.  A process is a daemon that may run one deployment at a *)
(* time.  A run is named after its release (deploy_runtime.py:301), so the     *)
(* journal is kept as the last stage of each release, which is all that        *)
(* unresolved_runs() reads.  A shipping transaction ends as the abstract one   *)
(* does (LogicalTransaction): committed, aborted or torn.  A world is the set  *)
(* of releases that have run on it.  The bundle is on disk already: the daemon *)
(* refuses a release whose slip is not in its store.                           *)
EXTENDS FiniteSets

CONSTANTS Proc, Release, Container,
          Upgrade,      \* the releases with release_mode "upgrade"
          Installed,    \* the release the directory holds at first
          None, Down, Torn, Gone, Partial

\* A world: the releases that have run on it, Gone when it is not the players'.
Worlds == SUBSET (Release \cup {Torn, Gone})

ASSUME DeployAssumption ==
    /\ Upgrade \subseteq Release
    /\ Installed \in Release
    /\ Container # {}
    /\ None \notin Release \cup Proc
    /\ Release \cap {Down, Torn, Gone} = {}
    /\ Down # Torn /\ Gone # Torn
    /\ \A w \in Worlds : w \notin {None, Partial}

VARIABLES
    last,       \* the last journaled stage of each run
    lock,       \* the process whose lock file is in place, or None
    stale,      \* the lock file is older than stale_after_seconds
    mods,       \* the release in the mods directory, or Torn
    world,      \* the releases that have run on the world; Gone: not the players' world
    backup,     \* of each release: None, Partial (no manifest) or the world saved
    running,    \* the mods each container was started with, or Down
    active,     \* the active-release pointer of the state directory
    pc, run, prior, code, at, done, bad     \* each process's deployment

files == <<mods, world, backup>>
request == <<run, prior>>
outcome == <<code, at, bad>>
vars == <<last, lock, stale, files, running, active, pc, request, outcome, done>>

Terminal == {"complete", "failed", "recovery_completed", "recovery_failed"}
Unresolved == {r \in Release : last[r] \notin Terminal \cup {"none"}}

\* The stages between the acquisition of the lock and its release.
Pipeline == {"locked", "backup", "copying", "slip", "stop", "ship", "shipping",
             "start", "health", "complete", "abort", "world", "replace", "mods",
             "recovered", "restart", "conclude", "release"}

Init == /\ last = [r \in Release |-> "none"]
        /\ lock = None
        /\ stale = FALSE
        /\ mods = Installed
        /\ world = {Installed}
        /\ backup = [r \in Release |-> None]
        /\ running = [c \in Container |-> Installed]
        /\ active \in {None, Installed}
        /\ pc = [p \in Proc |-> "idle"]
        /\ run = [p \in Proc |-> None]
        /\ prior = [p \in Proc |-> None]
        /\ code = [p \in Proc |-> 0]
        /\ at = [p \in Proc |-> "none"]
        /\ done = [p \in Proc |-> {}]
        /\ bad = [p \in Proc |-> FALSE]

Goto(p, from, to) == pc[p] = from /\ pc' = [pc EXCEPT ![p] = to]
Journal(p, stage) == last' = [last EXCEPT ![run[p]] = stage]

\* _fail: the failure is journaled and remembered.
Fail(p, stage, c) == /\ Journal(p, "failed")
                     /\ code' = [code EXCEPT ![p] = c]
                     /\ at' = [at EXCEPT ![p] = stage]
                     /\ UNCHANGED bad

\* deploy() has returned or is gone, and with it all it knew.
Leave(p) == /\ pc' = [pc EXCEPT ![p] = "idle"]
            /\ run' = [run EXCEPT ![p] = None]
            /\ prior' = [prior EXCEPT ![p] = None]
            /\ code' = [code EXCEPT ![p] = 0]
            /\ at' = [at EXCEPT ![p] = "none"]
            /\ done' = [done EXCEPT ![p] = {}]
            /\ bad' = [bad EXCEPT ![p] = FALSE]

-----------------------------------------------------------------------------
(* Request, refusal, lock. *)

\* _deploy_one: the prior bundle is the one the pointer names now, if the
\* pointer can be read and the release store still has that bundle.
Request(p, r) == /\ Goto(p, "idle", "preflight")
                 /\ run' = [run EXCEPT ![p] = r]
                 /\ \E bundle \in {active, None} : prior' = [prior EXCEPT ![p] = bundle]
                 /\ UNCHANGED <<last, lock, stale, files, running, active, outcome, done>>

\* An unresolved run refuses the request with 21; the refusal is journaled as
\* FAILED under the request's own run.
Refuse(p) == /\ pc[p] = "preflight"
             /\ Unresolved # {}
             /\ Journal(p, "failed")
             /\ Leave(p)
             /\ UNCHANGED <<lock, stale, files, running, active>>

Preflight(p) == /\ Goto(p, "preflight", "lock")
                /\ Unresolved = {}
                /\ UNCHANGED <<last, lock, stale, files, running, active, request,
                               outcome, done>>

\* Mutation of LockHeld: the request waits for the lock.
WaitForLock(p) == pc[p] = "lock" /\ lock # None /\ UNCHANGED vars

\* The lock file exists: refused with 25, and nothing is journaled.
LockHeld(p) == /\ pc[p] = "lock"
               /\ lock # None
               /\ Leave(p)
               /\ UNCHANGED <<last, lock, stale, files, running, active>>

\* Mutation of Acquire: the lock file is replaced instead of linked.
AcquireByReplacing(p) ==
    /\ Goto(p, "lock", "locked")
    /\ lock' = p
    /\ stale' = FALSE
    /\ UNCHANGED <<last, files, running, active, request, outcome, done>>

\* os.link puts the lock file in place, if there is none.
Acquire(p) == /\ Goto(p, "lock", "locked")
              /\ lock = None
              /\ lock' = p
              /\ stale' = FALSE
              /\ UNCHANGED <<last, files, running, active, request, outcome, done>>

JournalLock(p) == /\ Goto(p, "locked", IF run[p] \in Upgrade THEN "backup" ELSE "slip")
                  /\ Journal(p, "lock_acquired")
                  /\ UNCHANGED <<lock, stale, files, running, active, request, outcome,
                                 done>>
-----------------------------------------------------------------------------
(* World backup and slip: nothing that runs or is installed is touched yet. *)

\* An upgrade needs a world directory and a backup root.
BackupUnconfigured(p) == /\ Goto(p, "backup", "release")
                         /\ Fail(p, "backup", 21)
                         /\ UNCHANGED <<lock, stale, files, running, active, request, done>>

\* BACKUP_STARTED is journaled; the directory of this release must not exist.
BackupStart(p) == /\ Goto(p, "backup", "copying")
                  /\ Journal(p, "backup_started")
                  /\ UNCHANGED <<lock, stale, files, running, active, request, outcome,
                                 done>>

\* Mutation of BackupFails: the outcome of create_backup is not looked at.
BackupFailureIgnored(p) ==
    /\ Goto(p, "copying", "slip")
    /\ Journal(p, "backup_completed")
    /\ backup' \in {backup, [backup EXCEPT ![run[p]] = Partial]}
    /\ UNCHANGED <<lock, stale, mods, world, running, active, request, outcome, done>>

\* create_backup refuses an existing backup or a missing world; a failed copy
\* is removed, a failed manifest leaves the copy behind without one.
BackupFails(p) == /\ Goto(p, "copying", "release")
                  /\ Fail(p, "backup", 21)
                  /\ backup' \in {backup, [backup EXCEPT ![run[p]] =
                                       IF @ = None /\ world # {Gone} THEN Partial ELSE @]}
                  /\ UNCHANGED <<lock, stale, mods, world, running, active, request,
                                 done>>

BackupDone(p) == /\ Goto(p, "copying", "slip")
                 /\ backup[run[p]] = None
                 /\ world # {Gone}
                 /\ backup' = [backup EXCEPT ![run[p]] = world]
                 /\ Journal(p, "backup_completed")
                 /\ UNCHANGED <<lock, stale, mods, world, running, active, request,
                                outcome, done>>

\* The slip of the release is missing, unreadable or not a slip.
SlipFails(p) == /\ Goto(p, "slip", "release")
                /\ Fail(p, "slip", 22)
                /\ UNCHANGED <<lock, stale, files, running, active, request, done>>

SlipLoads(p) == /\ Goto(p, "slip", "stop")
                /\ UNCHANGED <<last, lock, stale, files, running, active, request,
                               outcome, done>>

-----------------------------------------------------------------------------
(* Stop, ship, start, check. *)

StopOne(p, c) == /\ pc[p] = "stop"
                 /\ c \notin done[p]
                 /\ running' = [running EXCEPT ![c] = Down]
                 /\ done' = [done EXCEPT ![p] = @ \cup {c}]
                 /\ UNCHANGED <<last, lock, stale, files, active, pc, request, outcome>>

\* A container that does not stop: no file is touched, the others are restarted.
StopFails(p) == /\ Goto(p, "stop", "restart")
                /\ done[p] # Container
                /\ Fail(p, "stop", 22)
                /\ done' = [done EXCEPT ![p] = {}]
                /\ UNCHANGED <<lock, stale, files, running, active, request>>

\* Mutation of Stopped: the stage ends with the first container.
StoppedAfterTheFirst(p) ==
    /\ Goto(p, "stop", "ship")
    /\ done[p] # {}
    /\ Journal(p, "services_stopped")
    /\ done' = [done EXCEPT ![p] = {}]
    /\ UNCHANGED <<lock, stale, files, running, active, request, outcome>>

Stopped(p) == /\ Goto(p, "stop", "ship")
              /\ done[p] = Container
              /\ Journal(p, "services_stopped")
              /\ done' = [done EXCEPT ![p] = {}]
              /\ UNCHANGED <<lock, stale, files, running, active, request, outcome>>

\* A source jar is missing or has another hash than the slip: nothing shipped.
ShipRefused(p) == /\ Goto(p, "ship", "abort")
                  /\ Fail(p, "ship", 22)
                  /\ UNCHANGED <<lock, stale, files, running, active, request, done>>

ShipStart(p) == /\ Goto(p, "ship", "shipping")
                /\ Journal(p, "ship_started")
                /\ UNCHANGED <<lock, stale, files, running, active, request, outcome,
                               done>>

Shipped(p) == /\ Goto(p, "shipping", "start")
              /\ mods' = run[p]
              /\ Journal(p, "ship_completed")
              /\ UNCHANGED <<lock, stale, world, backup, running, active, request,
                             outcome, done>>

\* The transaction is aborted, or is torn; SHIP_FAILED, then FAILED.
ShipFails(p) == /\ Goto(p, "shipping", "abort")
                /\ mods' \in {mods, Torn}
                /\ Fail(p, "ship", 22)
                /\ UNCHANGED <<lock, stale, world, backup, running, active, request,
                               done>>

\* Starting a container that runs already changes nothing.  A server that
\* starts writes the world, and makes a new one where there is none.
Start(p, c) == /\ c \notin done[p]
               /\ done' = [done EXCEPT ![p] = @ \cup {c}]
               /\ IF running[c] = Down
                  THEN /\ running' = [running EXCEPT ![c] = mods]
                       /\ world' = world \cup {mods}
                  ELSE UNCHANGED <<running, world>>
               /\ UNCHANGED <<last, lock, stale, mods, backup, active, pc, request,
                              outcome>>

StartOne(p, c) == pc[p] = "start" /\ Start(p, c)

StartFails(p) == /\ Goto(p, "start", "abort")
                 /\ done[p] # Container
                 /\ Fail(p, "start", 22)
                 /\ UNCHANGED <<lock, stale, files, running, active, request, done>>

Started(p) == /\ Goto(p, "start", "health")
              /\ done[p] = Container
              /\ Journal(p, "services_started")
              /\ UNCHANGED <<lock, stale, files, running, active, request, outcome,
                             done>>

HealthPasses(p) == /\ Goto(p, "health", "complete")
                   /\ Journal(p, "health_check_passed")
                   /\ UNCHANGED <<lock, stale, files, running, active, request, outcome,
                                  done>>

\* Some server is unhealthy; any of them may have exited, none has to.
HealthFails(p) == /\ Goto(p, "health", "abort")
                  /\ Fail(p, "health", 23)
                  /\ \E dead \in SUBSET Container :
                        running' = [c \in Container |->
                                       IF c \in dead THEN Down ELSE running[c]]
                  /\ UNCHANGED <<lock, stale, files, active, request, done>>

Complete(p) == /\ Goto(p, "complete", "release")
               /\ Journal(p, "complete")
               /\ UNCHANGED <<lock, stale, files, running, active, request, outcome,
                              done>>
-----------------------------------------------------------------------------
(* Recovery: the world from this run's backup, the mods from the prior bundle, *)
(* each attempted whatever became of the other; then every container again.    *)

\* Mutation of NothingToRestore: the restore is skipped whatever there is.
RestoreSkipped(p) ==
    /\ Goto(p, "abort", "restart")
    /\ done' = [done EXCEPT ![p] = {}]
    /\ UNCHANGED <<last, lock, stale, files, running, active, request, outcome>>

\* Nothing to restore from: a first deployment that is no upgrade.
NothingToRestore(p) == /\ Goto(p, "abort", "restart")
                       /\ prior[p] = None
                       /\ run[p] \notin Upgrade
                       /\ done' = [done EXCEPT ![p] = {}]
                       /\ UNCHANGED <<last, lock, stale, files, running, active, request,
                                      outcome>>

RecoveryStart(p) == /\ Goto(p, "abort", IF run[p] \in Upgrade THEN "world" ELSE "mods")
                    /\ prior[p] # None \/ run[p] \in Upgrade
                    /\ Journal(p, "recovery_started")
                    /\ UNCHANGED <<lock, stale, files, running, active, request, outcome,
                                   done>>

\* verify_backup rejects the backup: the world is left alone.
WorldBackupBad(p) == /\ Goto(p, "world", "mods")
                     /\ bad' = [bad EXCEPT ![p] = TRUE]
                     /\ UNCHANGED <<last, lock, stale, files, running, active, request,
                                    code, at, done>>

\* The backup is verified and the target world is removed.
WorldRemoved(p) == /\ Goto(p, "world", "replace")
                   /\ backup[run[p]] # Partial
                   /\ world' = {Gone}
                   /\ UNCHANGED <<last, lock, stale, mods, backup, running, active,
                                  request, outcome, done>>

WorldCopied(p) == /\ Goto(p, "replace", "mods")
                  /\ world' = backup[run[p]]
                  /\ UNCHANGED <<last, lock, stale, mods, backup, running, active,
                                 request, outcome, done>>

WorldCopyFails(p) == /\ Goto(p, "replace", "mods")
                     /\ bad' = [bad EXCEPT ![p] = TRUE]
                     /\ UNCHANGED <<last, lock, stale, files, running, active, request,
                                    code, at, done>>

ModsRestored(p) == /\ Goto(p, "mods", "recovered")
                   /\ mods' = IF prior[p] = None THEN mods ELSE prior[p]
                   /\ UNCHANGED <<last, lock, stale, world, backup, running, active,
                                  request, outcome, done>>

\* The prior slip is unreadable, or the prior bundle does not ship.
ModsNotRestored(p) == /\ Goto(p, "mods", "recovered")
                      /\ prior[p] # None
                      /\ mods' \in {mods, Torn}
                      /\ bad' = [bad EXCEPT ![p] = TRUE]
                      /\ UNCHANGED <<last, lock, stale, world, backup, running, active,
                                     request, code, at, done>>

RecoveryCompleted(p) == /\ Goto(p, "recovered", "restart")
                        /\ ~bad[p]
                        /\ Journal(p, "recovery_completed")
                        /\ done' = [done EXCEPT ![p] = {}]
                        /\ UNCHANGED <<lock, stale, files, running, active, request,
                                       outcome>>

\* RECOVERY_FAILED and FAILED are journaled; the services are left as they are.
RecoveryFailed(p) == /\ Goto(p, "recovered", "release")
                     /\ bad[p]
                     /\ Fail(p, at[p], 24)
                     /\ UNCHANGED <<lock, stale, files, running, active, request, done>>

\* _start_services_after_failure.
RestartOne(p, c) == pc[p] = "restart" /\ Start(p, c)

RestartFails(p) == /\ Goto(p, "restart", "release")
                   /\ done[p] # Container
                   /\ Fail(p, at[p], 24)
                   /\ UNCHANGED <<lock, stale, files, running, active, request, done>>

\* Mutation of Restarted: the restart stage is left at once.
RestartSkipped(p) ==
    /\ Goto(p, "restart", "conclude")
    /\ Journal(p, "services_started")
    /\ UNCHANGED <<lock, stale, files, running, active, request, outcome, done>>

Restarted(p) == /\ Goto(p, "restart", "conclude")
                /\ done[p] = Container
                /\ Journal(p, "services_started")
                /\ UNCHANGED <<lock, stale, files, running, active, request, outcome,
                               done>>

\* Mutation of Conclude: the failure was journaled when it happened.
ConcludeSilently(p) ==
    /\ Goto(p, "conclude", "release")
    /\ UNCHANGED <<last, lock, stale, files, running, active, request, outcome, done>>

\* The original failure is journaled again, now as the last stage.
Conclude(p) == /\ Goto(p, "conclude", "release")
               /\ Fail(p, at[p], code[p])
               /\ UNCHANGED <<lock, stale, files, running, active, request, done>>

-----------------------------------------------------------------------------
(* The lock is released on every way out; then the pointer is written. *)

\* What becomes of the lock file: release() removes it, whoever put it there; if
\* it cannot be removed a warning is logged and the outcome stands.
Unlock(p) == \/ lock' = None /\ stale' = FALSE
             \/ UNCHANGED <<lock, stale>>

ReturnFailure(p) == /\ pc[p] = "release"
                    /\ code[p] # 0
                    /\ Unlock(p)
                    /\ Leave(p)
                    /\ UNCHANGED <<last, files, running, active>>

ReturnSuccess(p) == /\ Goto(p, "release", "record")
                    /\ code[p] = 0
                    /\ Unlock(p)
                    /\ UNCHANGED <<last, files, running, active, request, outcome, done>>

\* plugins/http.py writes the pointer after the deployment has returned.
RecordActive(p) == /\ pc[p] = "record"
                   /\ active' = run[p]
                   /\ Leave(p)
                   /\ UNCHANGED <<last, lock, stale, files, running>>

\* Where a stage that is cut off may have come to: the copy of the world to
\* Partial or to its end, a shipping transaction to either inventory or between.
CutOff(p) ==
    /\ backup' \in IF pc[p] = "copying" /\ backup[run[p]] = None /\ world # {Gone}
                   THEN {backup} \cup {[backup EXCEPT ![run[p]] = b] : b \in {Partial, world}}
                   ELSE {backup}
    /\ mods' \in CASE pc[p] = "shipping" -> {mods, run[p], Torn}
                   [] pc[p] = "mods" /\ prior[p] # None -> {mods, prior[p], Torn}
                   [] OTHER -> {mods}
    /\ UNCHANGED world

\* A journal write fails: the OSError leaves deploy(), which releases the lock
\* unless the write was the one that follows the acquisition.
JournalFails(p) ==
    /\ \/ pc[p] \in {"locked", "backup", "copying", "slip", "ship", "shipping", "health",
                     "complete", "recovered", "conclude"}
       \/ pc[p] \in {"abort", "mods"} /\ (prior[p] # None \/ run[p] \in Upgrade)
       \/ pc[p] \in {"stop", "start", "restart"}
    /\ CutOff(p)
    /\ Leave(p)
    /\ IF pc[p] = "locked" THEN UNCHANGED <<lock, stale>> ELSE Unlock(p)
    /\ UNCHANGED <<last, running, active>>

-----------------------------------------------------------------------------
(* Crashes, time and the operator. *)

\* The daemon dies and restarts.  Its lock file stays and the containers run on.
Crash(p) ==
    /\ pc[p] \notin {"idle", "preflight", "lock"}
    /\ CutOff(p)
    /\ Leave(p)
    /\ UNCHANGED <<last, lock, stale, running, active>>

\* The lock file grows older than stale_after_seconds.
Age == /\ lock # None
       /\ stale' = TRUE
       /\ UNCHANGED <<last, lock, files, running, active, pc, request, outcome, done>>

\* The operator removes a stale lock, having made sure that its deployment is dead.
ForceRelease == /\ lock # None
                /\ stale
                /\ pc[lock] \notin Pipeline
                /\ lock' = None
                /\ stale' = FALSE
                /\ UNCHANGED <<last, files, running, active, pc, request, outcome,
                               done>>

\* The operator resolves what is left: a terminal record for every crashed run.
Resolve == /\ \A p \in Proc : pc[p] \notin Pipeline
           /\ Unresolved # {}
           /\ last' = [r \in Release |-> IF r \in Unresolved THEN "failed" ELSE last[r]]
           /\ UNCHANGED <<lock, stale, files, running, active, pc, request, outcome, done>>

\* A server that runs saves its world.
Save(c) == /\ running[c] # Down
           /\ world # {Gone}
           /\ world' = world \cup {running[c]}
           /\ UNCHANGED <<last, lock, stale, mods, backup, running, active, pc, request,
                          outcome, done>>

Step(p) == \/ Refuse(p) \/ Preflight(p) \/ LockHeld(p) \/ Acquire(p) \/ JournalLock(p)
           \/ BackupUnconfigured(p) \/ BackupStart(p) \/ BackupFails(p) \/ BackupDone(p)
           \/ SlipFails(p) \/ SlipLoads(p)
           \/ \E c \in Container : StopOne(p, c) \/ StartOne(p, c) \/ RestartOne(p, c)
           \/ StopFails(p) \/ Stopped(p)
           \/ ShipRefused(p) \/ ShipStart(p) \/ Shipped(p) \/ ShipFails(p)
           \/ StartFails(p) \/ Started(p)
           \/ HealthPasses(p) \/ HealthFails(p) \/ Complete(p)
           \/ NothingToRestore(p) \/ RecoveryStart(p)
           \/ WorldBackupBad(p) \/ WorldRemoved(p) \/ WorldCopied(p) \/ WorldCopyFails(p)
           \/ ModsRestored(p) \/ ModsNotRestored(p)
           \/ RecoveryCompleted(p) \/ RecoveryFailed(p)
           \/ RestartFails(p) \/ Restarted(p) \/ Conclude(p)
           \/ ReturnFailure(p) \/ ReturnSuccess(p) \/ RecordActive(p)
           \/ JournalFails(p)

Next == \/ \E p \in Proc : \/ \E r \in Release : Request(p, r)
                          \/ Step(p)
                          \/ Crash(p)
        \/ Age \/ ForceRelease \/ Resolve
        \/ \E c \in Container : Save(c)

\* The event loop runs a deployment's synchronous code to its end.
Fairness == \A p \in Proc : WF_vars(Step(p))

Spec == Init /\ [][Next]_vars /\ Fairness
-----------------------------------------------------------------------------
(* Properties. *)

\* Type correctness.
TypeOK ==
    /\ last \in [Release -> Terminal \cup
            {"none", "lock_acquired", "backup_started", "backup_completed",
             "services_stopped", "ship_started", "ship_completed", "services_started",
             "health_check_passed", "recovery_started"}]
    /\ lock \in Proc \cup {None}
    /\ stale \in BOOLEAN
    /\ mods \in Release \cup {Torn}
    /\ world \in Worlds
    /\ backup \in [Release -> Worlds \cup {None, Partial}]
    /\ running \in [Container -> Release \cup {Torn, Down}]
    /\ active \in Release \cup {None}
    /\ pc \in [Proc -> Pipeline \cup {"idle", "preflight", "lock", "record"}]
    /\ run \in [Proc -> Release \cup {None}]
    /\ prior \in [Proc -> Release \cup {None}]
    /\ code \in [Proc -> {0, 21, 22, 23, 24}]
    /\ at \in [Proc -> {"none", "backup", "slip", "stop", "ship", "start", "health"}]
    /\ done \in [Proc -> SUBSET Container]
    /\ bad \in [Proc -> BOOLEAN]

\* One deployment at a time (spec 12.6): no two processes are between the
\* acquisition and the release of the lock, whoever crashed or was forced out.
OneDeployment == \A p, q \in Proc : pc[p] \in Pipeline /\ pc[q] \in Pipeline => p = q

\* COMPLETE is journaled only for a release that is installed whole and that
\* every container was started with, though other daemons, crashes and the
\* operator act between any two stages.
CompletesDeployed ==
    \A p \in Proc : Complete(p) => /\ mods = run[p]
                                   /\ \A c \in Container : running[c] = run[p]
CompleteIsDeployed == [][CompletesDeployed]_vars

\* While jars are moved by a forward shipping no server runs on them.
ShippedWhileStopped ==
    \A p \in Proc : pc[p] = "shipping" => \A c \in Container : running[c] = Down

\* The players' world is never lost: whenever it is not in its place (a restore
\* under way, failed or cut off, a new world made over it) a backup has it.
WorldRecoverable ==
    Gone \in world => \E r \in Release : /\ backup[r] \notin {None, Partial}
                                         /\ Gone \notin backup[r]

\* A deployment that failed to ship and could be rolled back is: the prior
\* release is installed and runs everywhere, on the world it had.
ShipFailureRolledBack ==
    \A p \in Proc :
        pc[p] = "release" /\ at[p] = "ship" /\ code[p] = 22 /\ prior[p] # None =>
            /\ mods = prior[p]
            /\ \A c \in Container : running[c] = prior[p]
            /\ run[p] \in Upgrade => world = backup[run[p]] \cup {prior[p]}

\* A deployment that failed after it began to stop the services ends with every
\* service up, unless it reports that recovery failed.
FailureLeavesServicesUp ==
    \A p \in Proc :
        /\ pc[p] = "release"
        /\ at[p] \in {"stop", "ship", "start", "health"}
        /\ code[p] # 24
        => \A c \in Container : running[c] # Down

\* A daemon gives the lock back only after an outcome was journaled for its release
\* (12.7), and a failure is never covered by a COMPLETE.  The converse is not so: a second
\* daemon refused by its preflight or by the lock journals FAILED for that release too.
OutcomeJournaled ==
    \A p \in Proc :
        pc[p] = "release" => /\ last[run[p]] \in {"complete", "failed"}
                             /\ last[run[p]] = "complete" => code[p] = 0

\* A deployment ends, in success, failure or a crash, and the daemon is free again.
DeploymentEnds == \A p \in Proc : pc[p] # "idle" ~> pc[p] = "idle"

\* Spec 12.10 and 12.11: a rollback brings back the prior combination; after a
\* recovery that succeeded every service runs the prior release.
RecoveredServicesRunPrior ==
    \A p \in Proc :
        pc[p] = "release" /\ code[p] \in {22, 23} /\ prior[p] # None
            /\ at[p] \in {"ship", "start", "health"}
        => \A c \in Container : running[c] = prior[p]
=============================================================================
