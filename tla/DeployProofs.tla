----------------------------- MODULE DeployProofs -----------------------------
(* Theorems about Deploy, for any daemons, releases and containers, proved     *)
(* from one inductive invariant, Inv.  Each of its parts is preserved by every *)
(* step, and each is a lemma; who may act while a process is in the pipeline   *)
(* (Exclusive) is what the others rest on.                                     *)
EXTENDS Deploy, TLAPS

\* A process in the pipeline has its lock file in place.
Exclusive == \A p \in Proc : pc[p] \in Pipeline => lock = p

Busy == \A p \in Proc : pc[p] # "idle" => run[p] \in Release

\* What a deployment that has not failed has brought about, stage by stage.
Forward ==
    \A p \in Proc :
        /\ pc[p] \in {"idle", "preflight", "lock", "locked", "backup", "copying", "slip"}
              => done[p] = {}
        /\ pc[p] = "stop" => \A c \in done[p] : running[c] = Down
        /\ pc[p] \in {"ship", "shipping"}
              => done[p] = {} /\ \A c \in Container : running[c] = Down
        /\ pc[p] = "start"
              => /\ mods = run[p]
                 /\ \A c \in Container : running[c] = IF c \in done[p] THEN run[p] ELSE Down
        /\ pc[p] \in {"health", "complete"}
              => mods = run[p] /\ \A c \in Container : running[c] = run[p]

\* Some backup holds the players' world.
Whole(b) == b \notin {None, Partial}
Kept == \E r \in Release : Whole(backup[r]) /\ Gone \notin backup[r]

\* As soon as a backup is whole some backup holds the players' world, and an
\* upgrade past its backup stage has a whole one to restore from.
Saved ==
    /\ Gone \in world => Kept
    /\ (\E r \in Release : Whole(backup[r])) => Kept
    /\ \A p \in Proc :
          /\ pc[p] \in {"slip", "stop", "ship", "shipping", "start", "health", "abort",
                        "world", "replace", "mods", "recovered", "restart", "conclude"}
                /\ run[p] \in Upgrade => Whole(backup[run[p]])
          /\ pc[p] \in {"world", "replace"} => run[p] \in Upgrade

\* What a deployment that has failed has brought back, stage by stage.
Back ==
    \A p \in Proc :
        /\ pc[p] \in {"idle", "preflight", "lock", "locked", "backup", "copying", "slip",
                      "stop", "ship", "shipping", "start", "health", "complete", "record"}
              => code[p] = 0 /\ at[p] = "none" /\ ~bad[p]
        /\ pc[p] = "abort" => ~bad[p]
        /\ pc[p] \in {"abort", "world", "replace", "mods", "recovered", "restart", "conclude"}
              => code[p] # 0
        /\ pc[p] = "release" /\ code[p] = 0 => at[p] = "none" /\ ~bad[p]
        /\ pc[p] = "restart" => \A c \in done[p] : running[c] # Down
        /\ pc[p] = "conclude" => \A c \in Container : running[c] # Down
        /\ pc[p] = "release" /\ at[p] \in {"stop", "ship", "start", "health"} /\ code[p] # 24
              => \A c \in Container : running[c] # Down

\* The prior release is installed and runs in the containers up, on its world.
OnPrior(p, up) ==
    /\ mods = prior[p]
    /\ \A c \in Container : running[c] = IF c \in up THEN prior[p] ELSE Down
    /\ run[p] \in Upgrade =>
          world = IF up = {} THEN backup[run[p]] ELSE backup[run[p]] \cup {prior[p]}

\* A failed shipping: every service is down until the recovery is over, and
\* comes up on what the recovery has restored.
RolledBack ==
    \A p \in Proc : at[p] = "ship" =>
        /\ pc[p] \in {"abort", "world", "replace", "mods", "recovered"}
              => \A c \in Container : running[c] = Down
        /\ pc[p] \in {"mods", "recovered"} /\ ~bad[p] /\ run[p] \in Upgrade
              => world = backup[run[p]]
        /\ pc[p] = "recovered" /\ ~bad[p] /\ prior[p] # None => mods = prior[p]
        /\ pc[p] = "restart" /\ prior[p] # None => OnPrior(p, done[p])
        /\ pc[p] = "conclude" /\ prior[p] # None => OnPrior(p, Container)
        /\ pc[p] = "release" /\ prior[p] # None /\ code[p] # 24 => OnPrior(p, Container)

Inv == TypeOK /\ Exclusive /\ Busy /\ Forward /\ Saved /\ Back /\ RolledBack
-----------------------------------------------------------------------------
(* Every step preserves every part. *)

\* A stage that is cut off leaves the files well typed.
LEMMA CutOffType == ASSUME TypeOK, Busy, NEW p \in Proc, pc[p] # "idle", CutOff(p)
                    PROVE  /\ mods' \in Release \cup {Torn}
                           /\ world' \in Worlds
                           /\ backup' \in [Release -> Worlds \cup {None, Partial}]
<1>1. run[p] \in Release
  BY DEF Busy
<1>2. mods' \in Release \cup {Torn} /\ world' = world
  BY <1>1 DEF CutOff, TypeOK
<1>3. backup' \in [Release -> Worlds \cup {None, Partial}]
  BY <1>1 DEF CutOff, TypeOK
<1>q. QED
  BY <1>2, <1>3 DEF TypeOK

\* Every step keeps the types.
LEMMA TypeStep == ASSUME TypeOK, Busy, Saved, [Next]_vars
                  PROVE  TypeOK'
<1>1. ASSUME NEW p \in Proc, NEW r \in Release, Request(p, r) PROVE TypeOK'
  BY <1>1 DEF Request, Goto, files, outcome, TypeOK, Pipeline, Terminal
<1>2. ASSUME NEW p \in Proc, Step(p) PROVE TypeOK'
  <2>1. CASE Refuse(p) \/ Preflight(p) \/ LockHeld(p)
      BY <2>1 DEF Refuse, Journal, Leave, files, Preflight, Goto, request,
                  outcome, LockHeld, TypeOK, Pipeline, Terminal
  <2>2. CASE Acquire(p)
      BY <2>2 DEF Acquire, Goto, files, request, outcome, TypeOK,
                  Pipeline, Terminal
  <2>3. CASE JournalLock(p) \/ BackupUnconfigured(p) \/ BackupStart(p)
      BY <2>3 DEF JournalLock, Goto, Journal, files, request, outcome,
                  BackupUnconfigured, Fail, BackupStart, TypeOK, Pipeline, Terminal
  <2>4. CASE BackupFails(p)
      <3>1. backup' \in [Release -> Worlds \cup {None, Partial}]
          BY <2>4 DEF BackupFails, TypeOK
      <3>q. QED
          BY <2>4, <3>1 DEF BackupFails, Goto, Fail, Journal, request, TypeOK,
                    Pipeline, Terminal
  <2>5. CASE BackupDone(p)
      BY <2>5 DEF BackupDone, Goto, Journal, request, outcome, TypeOK,
                  Pipeline, Terminal
  <2>6. CASE SlipFails(p) \/ SlipLoads(p)
      BY <2>6 DEF SlipFails, Goto, Fail, Journal, files, request,
                  SlipLoads, outcome, TypeOK, Pipeline, Terminal
  <2>7. ASSUME NEW c \in Container, StopOne(p, c) PROVE TypeOK'
      BY <2>7 DEF StopOne, files, request, outcome, TypeOK, Pipeline,
                  Terminal
  <2>8. ASSUME NEW c \in Container, StartOne(p, c) PROVE TypeOK'
      BY <2>8 DEF StartOne, Start, request, outcome, TypeOK, Pipeline,
                  Terminal, Worlds
  <2>9. ASSUME NEW c \in Container, RestartOne(p, c) PROVE TypeOK'
      BY <2>9 DEF RestartOne, Start, request, outcome, TypeOK, Pipeline,
                  Terminal, Worlds
  <2>10. CASE StopFails(p) \/ Stopped(p) \/ ShipRefused(p) \/ ShipStart(p)
      BY <2>10 DEF StopFails, Goto, Fail, Journal, files, request,
                   Stopped, outcome, ShipRefused, ShipStart, TypeOK, Pipeline,
                   Terminal
  <2>11. CASE Shipped(p)
      BY <2>11 DEF Shipped, Goto, Journal, request, outcome, TypeOK,
                   Pipeline, Terminal, Busy
  <2>12. CASE ShipFails(p)
      BY <2>12 DEF ShipFails, Goto, Fail, Journal, request, TypeOK,
                   Pipeline, Terminal
  <2>13. CASE StartFails(p) \/ Started(p) \/ HealthPasses(p)
      BY <2>13 DEF StartFails, Goto, Fail, Journal, files, request,
                   Started, outcome, HealthPasses, TypeOK, Pipeline, Terminal
  <2>14. CASE HealthFails(p)
      <3>1. running' \in [Container -> Release \cup {Torn, Down}]
          BY <2>14 DEF HealthFails, TypeOK
      <3>q. QED
          BY <2>14, <3>1 DEF HealthFails, Goto, Fail, Journal, files, request,
                    TypeOK, Pipeline, Terminal
  <2>15. CASE Complete(p) \/ NothingToRestore(p) \/ RecoveryStart(p) \/
              WorldBackupBad(p)
      BY <2>15 DEF Complete, Goto, Journal, files, request, outcome,
                   NothingToRestore, RecoveryStart, WorldBackupBad, TypeOK,
                   Pipeline, Terminal
  <2>16. CASE WorldRemoved(p)
      BY <2>16 DEF WorldRemoved, Goto, request, outcome, TypeOK, Pipeline,
                   Terminal, Worlds
  <2>17. CASE WorldCopied(p)
      BY <2>17 DEF WorldCopied, Goto, request, outcome, TypeOK, Pipeline,
                   Terminal, Busy, Saved, Whole
  <2>18. CASE WorldCopyFails(p)
      BY <2>18 DEF WorldCopyFails, Goto, files, request, TypeOK, Pipeline,
                   Terminal
  <2>19. CASE ModsRestored(p)
      BY <2>19 DEF ModsRestored, Goto, request, outcome, TypeOK, Pipeline,
                   Terminal
  <2>20. CASE ModsNotRestored(p)
      BY <2>20 DEF ModsNotRestored, Goto, request, TypeOK, Pipeline,
                   Terminal
  <2>21. CASE RecoveryCompleted(p)
      BY <2>21 DEF RecoveryCompleted, Goto, Journal, files, request, outcome,
                   TypeOK, Pipeline, Terminal
  <2>22. CASE RecoveryFailed(p)
      BY <2>22 DEF RecoveryFailed, Goto, Fail, Journal, files, request, TypeOK,
                   Pipeline, Terminal, Busy
  <2>23. CASE RestartFails(p) \/ Restarted(p) \/ Conclude(p) \/ ReturnFailure(p)
      BY <2>23 DEF RestartFails, Goto, Fail, Journal, files, request,
                   Restarted, outcome, Conclude, ReturnFailure, Leave, Unlock,
                   TypeOK, Pipeline, Terminal
  <2>24. CASE ReturnSuccess(p)
      BY <2>24 DEF ReturnSuccess, Goto, Unlock, files, request, outcome,
                   TypeOK, Pipeline, Terminal
  <2>25. CASE RecordActive(p)
      BY <2>25 DEF RecordActive, Leave, files, TypeOK, Pipeline, Terminal,
                   Busy
  <2>26. CASE JournalFails(p)
      <3>1. lock' \in Proc \cup {None} /\ stale' \in BOOLEAN
          BY <2>26 DEF JournalFails, Unlock, TypeOK
      <3>q. QED
          BY <2>26, <3>1, CutOffType DEF JournalFails, Leave, TypeOK, Pipeline, Terminal
  <2>q. QED
      BY <1>2, <2>1, <2>2, <2>3, <2>4, <2>5, <2>6, <2>7, <2>8, <2>9, <2>10, <2>11,
         <2>12, <2>13, <2>14, <2>15, <2>16, <2>17, <2>18, <2>19, <2>20, <2>21,
         <2>22, <2>23, <2>24, <2>25, <2>26 DEF Step
<1>3. ASSUME NEW p \in Proc, Crash(p) PROVE TypeOK'
  BY <1>3, CutOffType DEF Crash, Leave, TypeOK, Busy, Unresolved, Pipeline, Terminal
<1>4. CASE Age
  BY <1>4 DEF Age, files, request, outcome, TypeOK, Pipeline, Terminal
<1>5. CASE ForceRelease
  BY <1>5 DEF ForceRelease, files, request, outcome, TypeOK, Pipeline,
              Terminal
<1>6. CASE Resolve
  BY <1>6 DEF Resolve, files, request, outcome, TypeOK, Pipeline, Terminal,
              Unresolved
<1>7. ASSUME NEW c \in Container, Save(c) PROVE TypeOK'
  BY <1>7 DEF Save, request, outcome, TypeOK, Pipeline, Terminal, Worlds
<1>8. CASE UNCHANGED vars
  BY <1>8 DEF vars, files, request, outcome, TypeOK, Pipeline, Terminal
<1>q. QED
  BY <1>1, <1>2, <1>3, <1>4, <1>5, <1>6, <1>7, <1>8 DEF Next

\* A process that is not idle has a request.
LEMMA BusyStep == ASSUME TypeOK, Busy, [Next]_vars
                  PROVE  Busy'
<1>1. ASSUME NEW p \in Proc, NEW r \in Release, Request(p, r) PROVE Busy'
  BY <1>1 DEF Request, Goto, files, outcome, TypeOK, Busy
<1>2. ASSUME NEW p \in Proc, Step(p) PROVE Busy'
  <2>1. CASE Refuse(p) \/ Preflight(p) \/ LockHeld(p) \/ Acquire(p) \/
             JournalLock(p) \/ BackupUnconfigured(p)
      BY <2>1 DEF Refuse, Journal, Leave, files, Preflight, Goto, request,
                  outcome, LockHeld, Acquire, JournalLock, BackupUnconfigured, Fail,
                  TypeOK, Busy
  <2>2. CASE BackupStart(p) \/ BackupFails(p) \/ BackupDone(p) \/ SlipFails(p) \/
             SlipLoads(p)
      BY <2>2 DEF BackupStart, Goto, Journal, files, request, outcome,
                  BackupFails, Fail, BackupDone, SlipFails, SlipLoads, TypeOK, Busy
  <2>3. ASSUME NEW c \in Container, StopOne(p, c) PROVE Busy'
      BY <2>3 DEF StopOne, files, request, outcome, TypeOK, Busy
  <2>4. ASSUME NEW c \in Container, StartOne(p, c) PROVE Busy'
      BY <2>4 DEF StartOne, Start, request, outcome, TypeOK, Busy
  <2>5. ASSUME NEW c \in Container, RestartOne(p, c) PROVE Busy'
      BY <2>5 DEF RestartOne, Start, request, outcome, TypeOK, Busy
  <2>6. CASE StopFails(p) \/ Stopped(p) \/ ShipRefused(p) \/ ShipStart(p) \/
             Shipped(p) \/ ShipFails(p)
      BY <2>6 DEF StopFails, Goto, Fail, Journal, files, request, Stopped,
                  outcome, ShipRefused, ShipStart, Shipped, ShipFails, TypeOK, Busy
  <2>7. CASE StartFails(p) \/ Started(p) \/ HealthPasses(p) \/ HealthFails(p) \/
             Complete(p) \/ NothingToRestore(p)
      BY <2>7 DEF StartFails, Goto, Fail, Journal, files, request,
                  Started, outcome, HealthPasses, HealthFails, Complete,
                  NothingToRestore, TypeOK, Busy
  <2>8. CASE RecoveryStart(p) \/ WorldBackupBad(p) \/ WorldRemoved(p) \/
             WorldCopied(p) \/ WorldCopyFails(p) \/ ModsRestored(p)
      BY <2>8 DEF RecoveryStart, Goto, Journal, files, request, outcome,
                  WorldBackupBad, WorldRemoved, WorldCopied, WorldCopyFails,
                  ModsRestored, TypeOK, Busy
  <2>9. CASE ModsNotRestored(p) \/ RecoveryCompleted(p) \/ RecoveryFailed(p) \/
             RestartFails(p) \/ Restarted(p) \/ Conclude(p)
      BY <2>9 DEF ModsNotRestored, Goto, request, RecoveryCompleted,
                  Journal, files, outcome, RecoveryFailed, Fail, RestartFails,
                  Restarted, Conclude, TypeOK, Busy
  <2>10. CASE ReturnFailure(p) \/ ReturnSuccess(p) \/ RecordActive(p) \/
              JournalFails(p)
      BY <2>10 DEF ReturnFailure, Leave, Unlock, files, ReturnSuccess,
                   Goto, request, outcome, RecordActive, JournalFails, CutOff,
                   TypeOK, Busy
  <2>q. QED
      BY <1>2, <2>1, <2>2, <2>3, <2>4, <2>5, <2>6, <2>7, <2>8, <2>9, <2>10 DEF Step
<1>3. ASSUME NEW p \in Proc, Crash(p) PROVE Busy'
  BY <1>3 DEF Crash, Leave, CutOff, TypeOK, Busy
<1>4. CASE Age
  BY <1>4 DEF Age, files, request, outcome, TypeOK, Busy
<1>5. CASE ForceRelease
  BY <1>5 DEF ForceRelease, files, request, outcome, TypeOK, Busy
<1>6. CASE Resolve
  BY <1>6 DEF Resolve, files, request, outcome, TypeOK, Busy
<1>7. ASSUME NEW c \in Container, Save(c) PROVE Busy'
  BY <1>7 DEF Save, request, outcome, TypeOK, Busy
<1>8. CASE UNCHANGED vars
  BY <1>8 DEF vars, files, request, outcome, TypeOK, Busy
<1>q. QED
  BY <1>1, <1>2, <1>3, <1>4, <1>5, <1>6, <1>7, <1>8 DEF Next

\* The lock is taken only when there is none, released by its holder or, when
\* its holder is dead, by the operator.
LEMMA ExclusiveStep == ASSUME TypeOK, Exclusive, [Next]_vars
                       PROVE  Exclusive'
<1>1. ASSUME NEW p \in Proc, NEW r \in Release, Request(p, r) PROVE Exclusive'
  BY <1>1 DEF Request, Goto, files, outcome, TypeOK, Exclusive, Pipeline
<1>2. ASSUME NEW p \in Proc, Step(p) PROVE Exclusive'
  <2>1. CASE Refuse(p) \/ Preflight(p) \/ LockHeld(p)
      BY <2>1 DEF Refuse, Journal, Leave, files, Preflight, Goto, request,
                  outcome, LockHeld, TypeOK, Exclusive, Pipeline
  <2>2. CASE Acquire(p)
      BY <2>2, DeployAssumption DEF Acquire, Goto, files, request, outcome,
            TypeOK, Exclusive, Pipeline
  <2>3. CASE JournalLock(p) \/ BackupUnconfigured(p) \/ BackupStart(p) \/
             BackupFails(p)
      BY <2>3 DEF JournalLock, Goto, Journal, files, request, outcome,
                  BackupUnconfigured, Fail, BackupStart, BackupFails, TypeOK,
                  Exclusive, Pipeline
  <2>4. CASE BackupDone(p) \/ SlipFails(p) \/ SlipLoads(p)
      BY <2>4 DEF BackupDone, Goto, Journal, request, outcome, SlipFails,
                  Fail, files, SlipLoads, TypeOK, Exclusive, Pipeline
  <2>5. ASSUME NEW c \in Container, StopOne(p, c) PROVE Exclusive'
      BY <2>5 DEF StopOne, files, request, outcome, TypeOK, Exclusive,
                  Pipeline
  <2>6. ASSUME NEW c \in Container, StartOne(p, c) PROVE Exclusive'
      BY <2>6 DEF StartOne, Start, request, outcome, TypeOK, Exclusive,
                  Pipeline
  <2>7. ASSUME NEW c \in Container, RestartOne(p, c) PROVE Exclusive'
      BY <2>7 DEF RestartOne, Start, request, outcome, TypeOK, Exclusive,
                  Pipeline
  <2>8. CASE StopFails(p) \/ Stopped(p) \/ ShipRefused(p) \/ ShipStart(p)
      BY <2>8 DEF StopFails, Goto, Fail, Journal, files, request, Stopped,
                  outcome, ShipRefused, ShipStart, TypeOK, Exclusive, Pipeline
  <2>9. CASE Shipped(p) \/ ShipFails(p) \/ StartFails(p) \/ Started(p)
      BY <2>9 DEF Shipped, Goto, Journal, request, outcome, ShipFails,
                  Fail, StartFails, files, Started, TypeOK, Exclusive, Pipeline
  <2>10. CASE HealthPasses(p) \/ HealthFails(p) \/ Complete(p) \/
              NothingToRestore(p)
      BY <2>10 DEF HealthPasses, Goto, Journal, files, request, outcome,
                   HealthFails, Fail, Complete, NothingToRestore, TypeOK, Exclusive,
                   Pipeline
  <2>11. CASE RecoveryStart(p) \/ WorldBackupBad(p) \/ WorldRemoved(p) \/
              WorldCopied(p)
      BY <2>11 DEF RecoveryStart, Goto, Journal, files, request, outcome,
                   WorldBackupBad, WorldRemoved, WorldCopied, TypeOK, Exclusive,
                   Pipeline
  <2>12. CASE WorldCopyFails(p) \/ ModsRestored(p) \/ ModsNotRestored(p) \/
              RecoveryCompleted(p)
      BY <2>12 DEF WorldCopyFails, Goto, files, request, ModsRestored,
                   outcome, ModsNotRestored, RecoveryCompleted, Journal, TypeOK,
                   Exclusive, Pipeline
  <2>13. CASE RecoveryFailed(p) \/ RestartFails(p) \/ Restarted(p) \/ Conclude(p)
      BY <2>13 DEF RecoveryFailed, Goto, Fail, Journal, files, request,
                   RestartFails, Restarted, outcome, Conclude, TypeOK,
                   Exclusive, Pipeline
  <2>14. CASE ReturnFailure(p)
      BY <2>14, DeployAssumption DEF ReturnFailure, Leave, Unlock, files,
            TypeOK, Exclusive, Pipeline
  <2>15. CASE ReturnSuccess(p)
      BY <2>15, DeployAssumption DEF ReturnSuccess, Goto, Unlock, files, request,
            outcome, TypeOK, Exclusive, Pipeline
  <2>16. CASE RecordActive(p)
      BY <2>16 DEF RecordActive, Leave, files, TypeOK, Exclusive, Pipeline
  <2>17. CASE JournalFails(p)
      BY <2>17 DEF JournalFails, Leave, Unlock, CutOff, TypeOK, Exclusive,
                   Pipeline
  <2>q. QED
      BY <1>2, <2>1, <2>2, <2>3, <2>4, <2>5, <2>6, <2>7, <2>8, <2>9, <2>10, <2>11,
         <2>12, <2>13, <2>14, <2>15, <2>16, <2>17 DEF Step
<1>3. ASSUME NEW p \in Proc, Crash(p) PROVE Exclusive'
  BY <1>3 DEF Crash, Leave, CutOff, TypeOK, Exclusive, Pipeline
<1>4. CASE Age
  BY <1>4 DEF Age, files, request, outcome, TypeOK, Exclusive, Pipeline
<1>5. CASE ForceRelease
  BY <1>5 DEF ForceRelease, files, request, outcome, TypeOK, Exclusive,
              Pipeline
<1>6. CASE Resolve
  BY <1>6 DEF Resolve, files, request, outcome, TypeOK, Exclusive, Pipeline
<1>7. ASSUME NEW c \in Container, Save(c) PROVE Exclusive'
  BY <1>7 DEF Save, request, outcome, TypeOK, Exclusive, Pipeline
<1>8. CASE UNCHANGED vars
  BY <1>8 DEF vars, files, request, outcome, TypeOK, Exclusive, Pipeline
<1>q. QED
  BY <1>1, <1>2, <1>3, <1>4, <1>5, <1>6, <1>7, <1>8 DEF Next

\* Containers and mods change only at the hands of the process that holds the
\* lock, and as its stage says.
LEMMA ForwardStep == ASSUME TypeOK, Exclusive, Busy, Forward, [Next]_vars
                     PROVE  Forward'
<1>1. ASSUME NEW p \in Proc, NEW r \in Release, Request(p, r) PROVE Forward'
  BY <1>1 DEF Request, Goto, files, outcome, TypeOK, Exclusive, Forward,
              Pipeline
<1>2. ASSUME NEW p \in Proc, Step(p) PROVE Forward'
  <2>1. CASE Refuse(p) \/ Preflight(p) \/ LockHeld(p) \/ Acquire(p)
      BY <2>1 DEF Refuse, Journal, Leave, files, Preflight, Goto, request,
                  outcome, LockHeld, Acquire, TypeOK, Exclusive, Forward, Pipeline
  <2>2. CASE JournalLock(p) \/ BackupUnconfigured(p) \/ BackupStart(p) \/
             BackupFails(p)
      BY <2>2 DEF JournalLock, Goto, Journal, files, request, outcome,
                  BackupUnconfigured, Fail, BackupStart, BackupFails, TypeOK,
                  Exclusive, Forward, Pipeline
  <2>3. CASE BackupDone(p) \/ SlipFails(p) \/ SlipLoads(p)
      BY <2>3 DEF BackupDone, Goto, Journal, request, outcome, SlipFails,
                  Fail, files, SlipLoads, TypeOK, Exclusive, Forward, Pipeline
  <2>4. ASSUME NEW c \in Container, StopOne(p, c) PROVE Forward'
      BY <2>4 DEF StopOne, files, request, outcome, TypeOK, Exclusive,
                  Forward, Pipeline
  <2>5. ASSUME NEW c \in Container, StartOne(p, c) PROVE Forward'
      BY <2>5 DEF StartOne, Start, request, outcome, TypeOK, Exclusive,
                  Forward, Pipeline, Busy
  <2>6. ASSUME NEW c \in Container, RestartOne(p, c) PROVE Forward'
      BY <2>6 DEF RestartOne, Start, request, outcome, TypeOK, Exclusive,
                  Forward, Pipeline
  <2>7. CASE StopFails(p)
      BY <2>7 DEF StopFails, Goto, Fail, Journal, files, request, TypeOK,
                  Exclusive, Forward, Pipeline
  <2>8. CASE Stopped(p)
      BY <2>8 DEF Stopped, Goto, Journal, files, request, outcome, TypeOK,
                  Exclusive, Forward, Pipeline
  <2>9. CASE ShipRefused(p)
      BY <2>9 DEF ShipRefused, Goto, Fail, Journal, files, request,
                  TypeOK, Exclusive, Forward, Pipeline
  <2>10. CASE ShipStart(p)
      BY <2>10 DEF ShipStart, Goto, Journal, files, request, outcome,
                   TypeOK, Exclusive, Forward, Pipeline
  <2>11. CASE Shipped(p)
      BY <2>11, DeployAssumption DEF Shipped, Goto, Journal, request, outcome,
            TypeOK, Exclusive, Forward, Pipeline, Busy
  <2>12. CASE ShipFails(p)
      BY <2>12 DEF ShipFails, Goto, Fail, Journal, request, TypeOK,
                   Exclusive, Forward, Pipeline
  <2>13. CASE StartFails(p)
      BY <2>13 DEF StartFails, Goto, Fail, Journal, files, request,
                   TypeOK, Exclusive, Forward, Pipeline
  <2>14. CASE Started(p)
      BY <2>14 DEF Started, Goto, Journal, files, request, outcome,
                   TypeOK, Exclusive, Forward, Pipeline
  <2>15. CASE HealthPasses(p)
      BY <2>15 DEF HealthPasses, Goto, Journal, files, request, outcome,
                   TypeOK, Exclusive, Forward, Pipeline
  <2>16. CASE HealthFails(p)
      BY <2>16 DEF HealthFails, Goto, Fail, Journal, files, request,
                   TypeOK, Exclusive, Forward, Pipeline
  <2>17. CASE Complete(p)
      BY <2>17 DEF Complete, Goto, Journal, files, request, outcome,
                   TypeOK, Exclusive, Forward, Pipeline
  <2>18. CASE NothingToRestore(p) \/ RecoveryStart(p) \/ WorldBackupBad(p) \/
              WorldRemoved(p)
      BY <2>18 DEF NothingToRestore, Goto, files, request, outcome,
                   RecoveryStart, Journal, WorldBackupBad, WorldRemoved, TypeOK,
                   Exclusive, Forward, Pipeline
  <2>19. CASE WorldCopied(p) \/ WorldCopyFails(p)
      BY <2>19 DEF WorldCopied, Goto, request, outcome, WorldCopyFails,
                   files, TypeOK, Exclusive, Forward, Pipeline
  <2>20. CASE ModsRestored(p)
      BY <2>20 DEF ModsRestored, Goto, request, outcome, TypeOK,
                   Exclusive, Forward, Pipeline
  <2>21. CASE ModsNotRestored(p)
      BY <2>21 DEF ModsNotRestored, Goto, request, TypeOK, Exclusive,
                   Forward, Pipeline
  <2>22. CASE RecoveryCompleted(p) \/ RecoveryFailed(p) \/ RestartFails(p) \/
              Restarted(p)
      BY <2>22 DEF RecoveryCompleted, Goto, Journal, files, request, outcome,
                   RecoveryFailed, Fail, RestartFails, Restarted, TypeOK,
                   Exclusive, Forward, Pipeline
  <2>23. CASE Conclude(p) \/ ReturnFailure(p) \/ ReturnSuccess(p) \/ RecordActive(p)
      BY <2>23 DEF Conclude, Goto, Fail, Journal, files, request,
                   ReturnFailure, Leave, Unlock, ReturnSuccess, outcome,
                   RecordActive, TypeOK, Exclusive, Forward, Pipeline
  <2>24. CASE JournalFails(p)
      BY <2>24 DEF JournalFails, Leave, Unlock, CutOff, TypeOK, Exclusive,
                   Forward, Pipeline
  <2>q. QED
      BY <1>2, <2>1, <2>2, <2>3, <2>4, <2>5, <2>6, <2>7, <2>8, <2>9, <2>10, <2>11,
         <2>12, <2>13, <2>14, <2>15, <2>16, <2>17, <2>18, <2>19, <2>20, <2>21,
         <2>22, <2>23, <2>24 DEF Step
<1>3. ASSUME NEW p \in Proc, Crash(p) PROVE Forward'
  BY <1>3 DEF Crash, Leave, CutOff, TypeOK, Exclusive, Forward, Pipeline
<1>4. CASE Age
  BY <1>4 DEF Age, files, request, outcome, TypeOK, Exclusive, Forward,
              Pipeline
<1>5. CASE ForceRelease
  BY <1>5 DEF ForceRelease, files, request, outcome, TypeOK, Exclusive,
              Forward, Pipeline
<1>6. CASE Resolve
  BY <1>6 DEF Resolve, files, request, outcome, TypeOK, Exclusive, Forward, Pipeline
<1>7. ASSUME NEW c \in Container, Save(c) PROVE Forward'
  BY <1>7 DEF Save, request, outcome, TypeOK, Exclusive, Forward, Pipeline
<1>8. CASE UNCHANGED vars
  BY <1>8 DEF vars, files, request, outcome, TypeOK, Exclusive, Forward,
              Pipeline
<1>q. QED
  BY <1>1, <1>2, <1>3, <1>4, <1>5, <1>6, <1>7, <1>8 DEF Next

\* No step destroys a whole backup, and the first one is of the players' world.
LEMMA SavedStep == ASSUME TypeOK, Exclusive, Busy, Saved, [Next]_vars
                   PROVE  Saved'
<1>1. ASSUME NEW p \in Proc, NEW r \in Release, Request(p, r) PROVE Saved'
  BY <1>1 DEF Request, Goto, files, outcome, TypeOK, Exclusive, Busy,
              Saved, Kept, Whole, Pipeline
<1>2. ASSUME NEW p \in Proc, Step(p) PROVE Saved'
  <2>1. CASE Refuse(p) \/ Preflight(p) \/ LockHeld(p) \/ Acquire(p)
      BY <2>1 DEF Refuse, Journal, Leave, files, Preflight, Goto, request,
                  outcome, LockHeld, Acquire, TypeOK, Exclusive, Busy, Saved, Kept,
                  Whole, Pipeline
  <2>2. CASE JournalLock(p) \/ BackupUnconfigured(p) \/ BackupStart(p)
      BY <2>2 DEF JournalLock, Goto, Journal, files, request, outcome,
                  BackupUnconfigured, Fail, BackupStart, TypeOK, Exclusive, Busy,
                  Saved, Kept, Whole, Pipeline
  <2>3. CASE BackupFails(p)
      BY <2>3, DeployAssumption DEF BackupFails, Goto, Fail, Journal, request,
            TypeOK, Exclusive, Busy, Saved, Kept, Whole, Pipeline
  <2>4. CASE BackupDone(p)
      BY <2>4, DeployAssumption DEF BackupDone, Goto, Journal, request, outcome,
            TypeOK, Exclusive, Busy, Saved, Kept, Whole, Pipeline
  <2>5. CASE SlipFails(p)
      BY <2>5 DEF SlipFails, Goto, Fail, Journal, files, request, TypeOK,
                  Exclusive, Busy, Saved, Kept, Whole, Pipeline
  <2>6. CASE SlipLoads(p)
      BY <2>6 DEF SlipLoads, Goto, files, request, outcome, TypeOK,
                  Exclusive, Busy, Saved, Kept, Whole, Pipeline
  <2>7. ASSUME NEW c \in Container, StopOne(p, c) PROVE Saved'
      BY <2>7 DEF StopOne, files, request, outcome, TypeOK, Exclusive,
                  Busy, Saved, Kept, Whole, Pipeline
  <2>8. ASSUME NEW c \in Container, StartOne(p, c) PROVE Saved'
      BY <2>8, DeployAssumption DEF StartOne, Start, request, outcome,
            TypeOK, Exclusive, Busy, Saved, Kept, Whole, Pipeline
  <2>9. ASSUME NEW c \in Container, RestartOne(p, c) PROVE Saved'
      BY <2>9, DeployAssumption DEF RestartOne, Start, request, outcome,
            TypeOK, Exclusive, Busy, Saved, Kept, Whole, Pipeline
  <2>10. CASE StopFails(p) \/ Stopped(p) \/ ShipRefused(p) \/ ShipStart(p)
      BY <2>10 DEF StopFails, Goto, Fail, Journal, files, request,
                   Stopped, outcome, ShipRefused, ShipStart, TypeOK, Exclusive,
                   Busy, Saved, Kept, Whole, Pipeline
  <2>11. CASE Shipped(p) \/ ShipFails(p) \/ StartFails(p) \/ Started(p)
      BY <2>11 DEF Shipped, Goto, Journal, request, outcome, ShipFails,
                   Fail, StartFails, files, Started, TypeOK, Exclusive, Busy, Saved,
                   Kept, Whole, Pipeline
  <2>12. CASE HealthPasses(p) \/ HealthFails(p) \/ Complete(p) \/
              NothingToRestore(p)
      BY <2>12 DEF HealthPasses, Goto, Journal, files, request, outcome,
                   HealthFails, Fail, Complete, NothingToRestore, TypeOK, Exclusive,
                   Busy, Saved, Kept, Whole, Pipeline
  <2>13. CASE RecoveryStart(p)
      BY <2>13 DEF RecoveryStart, Goto, Journal, files, request, outcome,
                   TypeOK, Exclusive, Busy, Saved, Kept, Whole, Pipeline
  <2>14. CASE WorldBackupBad(p)
      BY <2>14 DEF WorldBackupBad, Goto, files, request, TypeOK,
                   Exclusive, Busy, Saved, Kept, Whole, Pipeline
  <2>15. CASE WorldRemoved(p)
      BY <2>15, DeployAssumption DEF WorldRemoved, Goto, request, outcome,
            TypeOK, Exclusive, Busy, Saved, Kept, Whole, Pipeline
  <2>16. CASE WorldCopied(p)
      BY <2>16, DeployAssumption DEF WorldCopied, Goto, request, outcome,
            TypeOK, Exclusive, Busy, Saved, Kept, Whole, Pipeline
  <2>17. CASE WorldCopyFails(p)
      BY <2>17 DEF WorldCopyFails, Goto, files, request, TypeOK,
                   Exclusive, Busy, Saved, Kept, Whole, Pipeline
  <2>18. CASE ModsRestored(p) \/ ModsNotRestored(p) \/ RecoveryCompleted(p) \/
              RecoveryFailed(p)
      BY <2>18 DEF ModsRestored, Goto, request, outcome, ModsNotRestored,
                   RecoveryCompleted, Journal, files, RecoveryFailed, Fail, TypeOK,
                   Exclusive, Busy, Saved, Kept, Whole, Pipeline
  <2>19. CASE RestartFails(p) \/ Restarted(p) \/ Conclude(p) \/ ReturnFailure(p)
      BY <2>19 DEF RestartFails, Goto, Fail, Journal, files, request,
                   Restarted, outcome, Conclude, ReturnFailure, Leave, Unlock,
                   TypeOK, Exclusive, Busy, Saved, Kept, Whole, Pipeline
  <2>20. CASE ReturnSuccess(p) \/ RecordActive(p)
      BY <2>20 DEF ReturnSuccess, Goto, Unlock, files, request, outcome,
                   RecordActive, Leave, TypeOK, Exclusive, Busy, Saved, Kept, Whole,
                   Pipeline
  <2>21. CASE JournalFails(p)
      BY <2>21, DeployAssumption DEF JournalFails, Leave, Unlock, CutOff,
            TypeOK, Exclusive, Busy, Saved, Kept, Whole, Pipeline
  <2>q. QED
      BY <1>2, <2>1, <2>2, <2>3, <2>4, <2>5, <2>6, <2>7, <2>8, <2>9, <2>10, <2>11,
         <2>12, <2>13, <2>14, <2>15, <2>16, <2>17, <2>18, <2>19, <2>20, <2>21 DEF Step
<1>3. ASSUME NEW p \in Proc, Crash(p) PROVE Saved'
  BY <1>3, DeployAssumption DEF Crash, Leave, CutOff, TypeOK, Exclusive, Busy,
            Saved, Kept, Whole, Pipeline
<1>4. CASE Age
  BY <1>4 DEF Age, files, request, outcome, TypeOK, Exclusive, Busy,
              Saved, Kept, Whole, Pipeline
<1>5. CASE ForceRelease
  BY <1>5 DEF ForceRelease, files, request, outcome, TypeOK, Exclusive,
              Busy, Saved, Kept, Whole, Pipeline
<1>6. CASE Resolve
  BY <1>6 DEF Resolve, files, request, outcome, TypeOK, Exclusive, Busy, Saved,
              Kept, Whole, Pipeline
<1>7. ASSUME NEW c \in Container, Save(c) PROVE Saved'
  BY <1>7, DeployAssumption DEF Save, request, outcome, TypeOK, Exclusive,
            Busy, Saved, Kept, Whole, Pipeline
<1>8. CASE UNCHANGED vars
  BY <1>8 DEF vars, files, request, outcome, TypeOK, Exclusive, Busy,
              Saved, Kept, Whole, Pipeline
<1>q. QED
  BY <1>1, <1>2, <1>3, <1>4, <1>5, <1>6, <1>7, <1>8 DEF Next

\* A failure is remembered until the deployment returns; after it every container
\* is started again, or the failure is turned into a failed recovery.
LEMMA BackStep == ASSUME TypeOK, Exclusive, Busy, Forward, Back, [Next]_vars
                  PROVE  Back'
<1>1. ASSUME NEW p \in Proc, NEW r \in Release, Request(p, r) PROVE Back'
  BY <1>1 DEF Request, Goto, files, outcome, TypeOK, Exclusive, Back,
              Pipeline
<1>2. ASSUME NEW p \in Proc, Step(p) PROVE Back'
  <2>1. CASE Refuse(p) \/ Preflight(p) \/ LockHeld(p) \/ Acquire(p)
      BY <2>1 DEF Refuse, Journal, Leave, files, Preflight, Goto, request,
                  outcome, LockHeld, Acquire, TypeOK, Exclusive, Back, Pipeline
  <2>2. CASE JournalLock(p) \/ BackupUnconfigured(p) \/ BackupStart(p) \/
             BackupFails(p)
      BY <2>2 DEF JournalLock, Goto, Journal, files, request, outcome,
                  BackupUnconfigured, Fail, BackupStart, BackupFails, TypeOK,
                  Exclusive, Back, Pipeline
  <2>3. CASE BackupDone(p) \/ SlipFails(p) \/ SlipLoads(p)
      BY <2>3 DEF BackupDone, Goto, Journal, request, outcome, SlipFails,
                  Fail, files, SlipLoads, TypeOK, Exclusive, Back, Pipeline
  <2>4. ASSUME NEW c \in Container, StopOne(p, c) PROVE Back'
      BY <2>4 DEF StopOne, files, request, outcome, TypeOK, Exclusive,
                  Back, Pipeline
  <2>5. ASSUME NEW c \in Container, StartOne(p, c) PROVE Back'
      BY <2>5, DeployAssumption DEF StartOne, Start, request, outcome,
            TypeOK, Exclusive, Back, Pipeline
  <2>6. ASSUME NEW c \in Container, RestartOne(p, c) PROVE Back'
      BY <2>6, DeployAssumption DEF RestartOne, Start, request, outcome,
            TypeOK, Exclusive, Back, Pipeline
  <2>7. CASE StopFails(p)
      BY <2>7 DEF StopFails, Goto, Fail, Journal, files, request, TypeOK,
                  Exclusive, Back, Pipeline
  <2>8. CASE Stopped(p)
      BY <2>8 DEF Stopped, Goto, Journal, files, request, outcome, TypeOK,
                  Exclusive, Back, Pipeline
  <2>9. CASE ShipRefused(p)
      BY <2>9 DEF ShipRefused, Goto, Fail, Journal, files, request,
                  TypeOK, Exclusive, Back, Pipeline
  <2>10. CASE ShipStart(p) \/ Shipped(p)
      BY <2>10 DEF ShipStart, Goto, Journal, files, request, outcome,
                   Shipped, TypeOK, Exclusive, Back, Pipeline
  <2>11. CASE ShipFails(p)
      BY <2>11 DEF ShipFails, Goto, Fail, Journal, request, TypeOK,
                   Exclusive, Back, Pipeline
  <2>12. CASE StartFails(p)
      BY <2>12 DEF StartFails, Goto, Fail, Journal, files, request,
                   TypeOK, Exclusive, Back, Pipeline
  <2>13. CASE Started(p) \/ HealthPasses(p)
      BY <2>13 DEF Started, Goto, Journal, files, request, outcome,
                   HealthPasses, TypeOK, Exclusive, Back, Pipeline
  <2>14. CASE HealthFails(p)
      BY <2>14 DEF HealthFails, Goto, Fail, Journal, files, request,
                   TypeOK, Exclusive, Back, Pipeline
  <2>15. CASE Complete(p)
      BY <2>15 DEF Complete, Goto, Journal, files, request, outcome,
                   TypeOK, Exclusive, Back, Pipeline
  <2>16. CASE NothingToRestore(p)
      BY <2>16 DEF NothingToRestore, Goto, files, request, outcome,
                   TypeOK, Exclusive, Back, Pipeline
  <2>17. CASE RecoveryStart(p) \/ WorldBackupBad(p) \/ WorldRemoved(p) \/
              WorldCopied(p)
      BY <2>17 DEF RecoveryStart, Goto, Journal, files, request, outcome,
                   WorldBackupBad, WorldRemoved, WorldCopied, TypeOK, Exclusive,
                   Back, Pipeline
  <2>18. CASE WorldCopyFails(p) \/ ModsRestored(p) \/ ModsNotRestored(p)
      BY <2>18 DEF WorldCopyFails, Goto, files, request, ModsRestored,
                   outcome, ModsNotRestored, TypeOK, Exclusive, Back, Pipeline
  <2>19. CASE RecoveryCompleted(p)
      BY <2>19 DEF RecoveryCompleted, Goto, Journal, files, request, outcome,
                   TypeOK, Exclusive, Back, Pipeline
  <2>20. CASE RecoveryFailed(p)
      BY <2>20 DEF RecoveryFailed, Goto, Fail, Journal, files, request, TypeOK,
                   Exclusive, Back, Pipeline
  <2>21. CASE RestartFails(p)
      BY <2>21 DEF RestartFails, Goto, Fail, Journal, files, request,
                   TypeOK, Exclusive, Back, Pipeline
  <2>22. CASE Restarted(p)
      BY <2>22 DEF Restarted, Goto, Journal, files, request, outcome,
                   TypeOK, Exclusive, Back, Pipeline
  <2>23. CASE Conclude(p)
      BY <2>23 DEF Conclude, Goto, Fail, Journal, files, request, TypeOK,
                   Exclusive, Back, Pipeline
  <2>24. CASE ReturnFailure(p) \/ ReturnSuccess(p) \/ RecordActive(p)
      BY <2>24 DEF ReturnFailure, Leave, Unlock, files, ReturnSuccess,
                   Goto, request, outcome, RecordActive, TypeOK, Exclusive, Back,
                   Pipeline
  <2>25. CASE JournalFails(p)
      BY <2>25 DEF JournalFails, Leave, Unlock, CutOff, TypeOK, Exclusive,
                   Back, Pipeline
  <2>q. QED
      BY <1>2, <2>1, <2>2, <2>3, <2>4, <2>5, <2>6, <2>7, <2>8, <2>9, <2>10, <2>11,
         <2>12, <2>13, <2>14, <2>15, <2>16, <2>17, <2>18, <2>19, <2>20, <2>21,
         <2>22, <2>23, <2>24, <2>25 DEF Step
<1>3. ASSUME NEW p \in Proc, Crash(p) PROVE Back'
  BY <1>3 DEF Crash, Leave, CutOff, TypeOK, Exclusive, Back, Pipeline
<1>4. CASE Age
  BY <1>4 DEF Age, files, request, outcome, TypeOK, Exclusive, Back,
              Pipeline
<1>5. CASE ForceRelease
  BY <1>5 DEF ForceRelease, files, request, outcome, TypeOK, Exclusive,
              Back, Pipeline
<1>6. CASE Resolve
  BY <1>6 DEF Resolve, files, request, outcome, TypeOK, Exclusive, Back, Pipeline
<1>7. ASSUME NEW c \in Container, Save(c) PROVE Back'
  BY <1>7 DEF Save, request, outcome, TypeOK, Exclusive, Back, Pipeline
<1>8. CASE UNCHANGED vars
  BY <1>8 DEF vars, files, request, outcome, TypeOK, Exclusive, Back,
              Pipeline
<1>q. QED
  BY <1>1, <1>2, <1>3, <1>4, <1>5, <1>6, <1>7, <1>8 DEF Next

\* Every service is down from a failed shipping to the end of its recovery, so
\* what is restored stays as it is and is what the services start on.
LEMMA RolledBackStep == ASSUME TypeOK, Exclusive, Busy, Forward, Saved, Back,
            RolledBack, [Next]_vars
                        PROVE  RolledBack'
<1>1. ASSUME NEW p \in Proc, NEW r \in Release, Request(p, r) PROVE RolledBack'
  BY <1>1 DEF Request, Goto, files, outcome, TypeOK, Exclusive,
              RolledBack, OnPrior, Pipeline
<1>2. ASSUME NEW p \in Proc, Step(p) PROVE RolledBack'
  <2>1. CASE Refuse(p) \/ Preflight(p) \/ LockHeld(p) \/ Acquire(p)
      BY <2>1, DeployAssumption DEF Refuse, Journal, Leave, files,
            Preflight, Goto, request, outcome, LockHeld, Acquire, TypeOK, Exclusive,
            RolledBack, OnPrior, Pipeline
  <2>2. CASE JournalLock(p) \/ BackupUnconfigured(p) \/ BackupStart(p) \/
             BackupFails(p)
      BY <2>2, DeployAssumption DEF JournalLock, Goto, Journal, files, request,
            outcome, BackupUnconfigured, Fail, BackupStart, BackupFails,
            TypeOK, Exclusive, RolledBack, OnPrior, Pipeline
  <2>3. CASE BackupDone(p) \/ SlipFails(p) \/ SlipLoads(p)
      BY <2>3, DeployAssumption DEF BackupDone, Goto, Journal, request, outcome,
            SlipFails, Fail, files, SlipLoads, TypeOK, Exclusive,
            RolledBack, OnPrior, Pipeline
  <2>4. ASSUME NEW c \in Container, StopOne(p, c) PROVE RolledBack'
      BY <2>4, DeployAssumption DEF StopOne, files, request, outcome,
            TypeOK, Exclusive, RolledBack, OnPrior, Pipeline
  <2>5. ASSUME NEW c \in Container, StartOne(p, c) PROVE RolledBack'
      BY <2>5, DeployAssumption DEF StartOne, Start, request, outcome,
            TypeOK, Exclusive, RolledBack, OnPrior, Pipeline
  <2>6. ASSUME NEW c \in Container, RestartOne(p, c) PROVE RolledBack'
      BY <2>6, DeployAssumption DEF RestartOne, Start, request, outcome,
            TypeOK, Exclusive, RolledBack, OnPrior, Pipeline
  <2>7. CASE StopFails(p)
      BY <2>7, DeployAssumption DEF StopFails, Goto, Fail, Journal, files, request,
            TypeOK, Exclusive, RolledBack, OnPrior, Pipeline, Forward,
            Back
  <2>8. CASE Stopped(p)
      BY <2>8, DeployAssumption DEF Stopped, Goto, Journal, files, request, outcome,
            TypeOK, Exclusive, RolledBack, OnPrior, Pipeline
  <2>9. CASE ShipRefused(p)
      BY <2>9, DeployAssumption DEF ShipRefused, Goto, Fail, Journal, files,
            request, TypeOK, Exclusive, RolledBack, OnPrior, Pipeline,
            Forward, Back
  <2>10. CASE ShipStart(p) \/ Shipped(p)
      BY <2>10, DeployAssumption DEF ShipStart, Goto, Journal, files, request,
            outcome, Shipped, TypeOK, Exclusive, RolledBack, OnPrior,
            Pipeline
  <2>11. CASE ShipFails(p)
      BY <2>11, DeployAssumption DEF ShipFails, Goto, Fail, Journal, request,
            TypeOK, Exclusive, RolledBack, OnPrior, Pipeline, Forward,
            Back
  <2>12. CASE StartFails(p)
      BY <2>12, DeployAssumption DEF StartFails, Goto, Fail, Journal, files,
            request, TypeOK, Exclusive, RolledBack, OnPrior, Pipeline
  <2>13. CASE Started(p) \/ HealthPasses(p)
      BY <2>13, DeployAssumption DEF Started, Goto, Journal, files, request,
            outcome, HealthPasses, TypeOK, Exclusive, RolledBack, OnPrior,
            Pipeline
  <2>14. CASE HealthFails(p)
      BY <2>14, DeployAssumption DEF HealthFails, Goto, Fail, Journal, files,
            request, TypeOK, Exclusive, RolledBack, OnPrior, Pipeline
  <2>15. CASE Complete(p)
      BY <2>15, DeployAssumption DEF Complete, Goto, Journal, files, request,
            outcome, TypeOK, Exclusive, RolledBack, OnPrior, Pipeline,
            Back
  <2>16. CASE NothingToRestore(p)
      BY <2>16, DeployAssumption DEF NothingToRestore, Goto, files, request,
            outcome, TypeOK, Exclusive, RolledBack, OnPrior, Pipeline
  <2>17. CASE RecoveryStart(p)
      BY <2>17, DeployAssumption DEF RecoveryStart, Goto, Journal, files, request,
            outcome, TypeOK, Exclusive, RolledBack, OnPrior, Pipeline
  <2>18. CASE WorldBackupBad(p)
      BY <2>18, DeployAssumption DEF WorldBackupBad, Goto, files, request,
            TypeOK, Exclusive, RolledBack, OnPrior, Pipeline
  <2>19. CASE WorldRemoved(p)
      BY <2>19, DeployAssumption DEF WorldRemoved, Goto, request, outcome,
            TypeOK, Exclusive, RolledBack, OnPrior, Pipeline
  <2>20. CASE WorldCopied(p)
      BY <2>20, DeployAssumption DEF WorldCopied, Goto, request, outcome,
            TypeOK, Exclusive, RolledBack, OnPrior, Pipeline
  <2>21. CASE WorldCopyFails(p)
      BY <2>21, DeployAssumption DEF WorldCopyFails, Goto, files, request,
            TypeOK, Exclusive, RolledBack, OnPrior, Pipeline
  <2>22. CASE ModsRestored(p)
      BY <2>22, DeployAssumption DEF ModsRestored, Goto, request, outcome,
            TypeOK, Exclusive, RolledBack, OnPrior, Pipeline
  <2>23. CASE ModsNotRestored(p)
      BY <2>23, DeployAssumption DEF ModsNotRestored, Goto, request,
            TypeOK, Exclusive, RolledBack, OnPrior, Pipeline
  <2>24. CASE RecoveryCompleted(p)
      BY <2>24, DeployAssumption DEF RecoveryCompleted, Goto, Journal, files,
            request, outcome, TypeOK, Exclusive, RolledBack, OnPrior,
            Pipeline
  <2>25. CASE RecoveryFailed(p)
      BY <2>25, DeployAssumption DEF RecoveryFailed, Goto, Fail, Journal, files,
            request, TypeOK, Exclusive, RolledBack, OnPrior, Pipeline
  <2>26. CASE RestartFails(p)
      BY <2>26, DeployAssumption DEF RestartFails, Goto, Fail, Journal, files,
            request, TypeOK, Exclusive, RolledBack, OnPrior, Pipeline
  <2>27. CASE Restarted(p)
      BY <2>27, DeployAssumption DEF Restarted, Goto, Journal, files, request,
            outcome, TypeOK, Exclusive, RolledBack, OnPrior, Pipeline
  <2>28. CASE Conclude(p)
      BY <2>28, DeployAssumption DEF Conclude, Goto, Fail, Journal, files, request,
            TypeOK, Exclusive, RolledBack, OnPrior, Pipeline
  <2>29. CASE ReturnFailure(p) \/ ReturnSuccess(p) \/ RecordActive(p)
      BY <2>29, DeployAssumption DEF ReturnFailure, Leave, Unlock, files,
            ReturnSuccess, Goto, request, outcome, RecordActive, TypeOK, Exclusive,
            RolledBack, OnPrior, Pipeline
  <2>30. CASE JournalFails(p)
      BY <2>30, DeployAssumption DEF JournalFails, Leave, Unlock, CutOff,
            TypeOK, Exclusive, RolledBack, OnPrior, Pipeline
  <2>q. QED
      BY <1>2, <2>1, <2>2, <2>3, <2>4, <2>5, <2>6, <2>7, <2>8, <2>9, <2>10, <2>11,
         <2>12, <2>13, <2>14, <2>15, <2>16, <2>17, <2>18, <2>19, <2>20, <2>21,
         <2>22, <2>23, <2>24, <2>25, <2>26, <2>27, <2>28, <2>29, <2>30 DEF Step
<1>3. ASSUME NEW p \in Proc, Crash(p) PROVE RolledBack'
  BY <1>3, DeployAssumption DEF Crash, Leave, CutOff, TypeOK, Exclusive, RolledBack,
            OnPrior, Pipeline
<1>4. CASE Age
  BY <1>4 DEF Age, files, request, outcome, TypeOK, Exclusive, RolledBack,
              OnPrior, Pipeline
<1>5. CASE ForceRelease
  BY <1>5 DEF ForceRelease, files, request, outcome, TypeOK, Exclusive,
              RolledBack, OnPrior, Pipeline
<1>6. CASE Resolve
  BY <1>6 DEF Resolve, files, request, outcome, TypeOK, Exclusive, RolledBack,
              OnPrior, Pipeline
<1>7. ASSUME NEW c \in Container, Save(c) PROVE RolledBack'
  BY <1>7, DeployAssumption DEF Save, request, outcome, TypeOK, Exclusive,
            RolledBack, OnPrior, Pipeline
<1>8. CASE UNCHANGED vars
  BY <1>8 DEF vars, files, request, outcome, TypeOK, Exclusive,
              RolledBack, OnPrior, Pipeline
<1>q. QED
  BY <1>1, <1>2, <1>3, <1>4, <1>5, <1>6, <1>7, <1>8 DEF Next

\* An outcome that was journaled stays the last of its run until the lock is given back:
\* only a refusal, in another daemon, can write for that run, and it writes FAILED.
LEMMA OutcomeStep ==
    ASSUME TypeOK, Exclusive, Busy, Back, OutcomeJournaled, [Next]_vars
    PROVE  OutcomeJournaled'
<1>1. ASSUME NEW p \in Proc, NEW r \in Release, Request(p, r) PROVE OutcomeJournaled'
  BY <1>1, DeployAssumption
     DEF Request, Goto, outcome, TypeOK, Exclusive, Busy, Back, OutcomeJournaled,
         Pipeline
<1>2. ASSUME NEW p \in Proc, Step(p) PROVE OutcomeJournaled'
  <2>1. CASE Refuse(p)
      BY <2>1, DeployAssumption
         DEF Refuse, Leave, Journal, TypeOK, Exclusive, Busy, Back,
             OutcomeJournaled, Pipeline
  <2>2. CASE Preflight(p) \/ LockHeld(p) \/ Acquire(p) \/ SlipLoads(p)
      BY <2>2, DeployAssumption
         DEF Preflight, LockHeld, Acquire, SlipLoads, Goto, Leave, files, request,
             outcome, TypeOK, Exclusive, Busy, Back, OutcomeJournaled, Pipeline
  <2>3. CASE JournalLock(p) \/ BackupStart(p) \/ BackupDone(p)
      BY <2>3, DeployAssumption
         DEF JournalLock, BackupStart, BackupDone, Goto, Journal, request,
             outcome, TypeOK, Exclusive, Busy, Back, OutcomeJournaled, Pipeline
  <2>4. CASE BackupUnconfigured(p) \/ BackupFails(p) \/ SlipFails(p)
      BY <2>4, DeployAssumption
         DEF BackupUnconfigured, BackupFails, SlipFails, Goto, Fail, Journal,
             request, TypeOK, Exclusive, Busy, Back, OutcomeJournaled, Pipeline
  <2>5. CASE \E c \in Container : StopOne(p, c) \/ StartOne(p, c) \/ RestartOne(p, c)
      BY <2>5, DeployAssumption
         DEF StopOne, StartOne, RestartOne, Start, request, outcome, TypeOK,
             Exclusive, Busy, Back, OutcomeJournaled, Pipeline
  <2>6. CASE StopFails(p) \/ ShipRefused(p) \/ ShipFails(p) \/ StartFails(p) \/ HealthFails(p)
      BY <2>6, DeployAssumption
         DEF StopFails, ShipRefused, ShipFails, StartFails, HealthFails, Goto,
             Fail, Journal, request, TypeOK, Exclusive, Busy, Back,
             OutcomeJournaled, Pipeline
  <2>7. CASE Stopped(p) \/ ShipStart(p) \/ Shipped(p) \/ Started(p) \/ HealthPasses(p)
      BY <2>7, DeployAssumption
         DEF Stopped, ShipStart, Shipped, Started, HealthPasses, Goto, Journal,
             request, outcome, TypeOK, Exclusive, Busy, Back, OutcomeJournaled,
             Pipeline
  <2>8. CASE Complete(p)
      BY <2>8, DeployAssumption
         DEF Complete, Goto, Journal, request, outcome, TypeOK, Exclusive, Busy,
             Back, OutcomeJournaled, Pipeline
  <2>9. CASE \/ NothingToRestore(p) \/ RecoveryStart(p) \/ RecoveryCompleted(p)
              \/ Restarted(p)
      BY <2>9, DeployAssumption
         DEF NothingToRestore, RecoveryStart, RecoveryCompleted, Restarted, Goto,
             Journal, request, outcome, TypeOK, Exclusive, Busy, Back,
             OutcomeJournaled, Pipeline
  <2>10. CASE \/ WorldBackupBad(p) \/ WorldRemoved(p) \/ WorldCopied(p)
              \/ WorldCopyFails(p) \/ ModsRestored(p) \/ ModsNotRestored(p)
      BY <2>10, DeployAssumption
         DEF WorldBackupBad, WorldRemoved, WorldCopied, WorldCopyFails,
             ModsRestored, ModsNotRestored, Goto, request, outcome, TypeOK,
             Exclusive, Busy, Back, OutcomeJournaled, Pipeline
  <2>11. CASE RecoveryFailed(p) \/ RestartFails(p) \/ Conclude(p)
      BY <2>11, DeployAssumption
         DEF RecoveryFailed, RestartFails, Conclude, Goto, Fail, Journal, request,
             TypeOK, Exclusive, Busy, Back, OutcomeJournaled, Pipeline
  <2>12. CASE ReturnFailure(p) \/ ReturnSuccess(p) \/ RecordActive(p)
      BY <2>12, DeployAssumption
         DEF ReturnFailure, ReturnSuccess, RecordActive, Goto, Leave, request,
             outcome, TypeOK, Exclusive, Busy, Back, OutcomeJournaled, Pipeline
  <2>13. CASE JournalFails(p)
      BY <2>13, DeployAssumption
         DEF JournalFails, Leave, TypeOK, Exclusive, Busy, Back, OutcomeJournaled,
             Pipeline
  <2>q. QED
      BY <1>2, <2>1, <2>2, <2>3, <2>4, <2>5, <2>6, <2>7, <2>8, <2>9, <2>10, <2>11, <2>12, <2>13 DEF Step
<1>3. ASSUME NEW p \in Proc, Crash(p) PROVE OutcomeJournaled'
  BY <1>3, DeployAssumption
     DEF Crash, Leave, TypeOK, Exclusive, Busy, Back, OutcomeJournaled, Pipeline
<1>4. CASE Resolve
  BY <1>4, DeployAssumption
     DEF Resolve, Unresolved, Terminal, request, outcome, TypeOK, Exclusive, Busy,
         Back, OutcomeJournaled, Pipeline
<1>5. CASE Age \/ ForceRelease \/ (\E c \in Container : Save(c)) \/ UNCHANGED vars
  BY <1>5 DEF Age, ForceRelease, Save, vars, request, outcome, OutcomeJournaled
<1>q. QED
  BY <1>1, <1>2, <1>3, <1>4, <1>5 DEF Next
-----------------------------------------------------------------------------
(* The theorems. *)

\* The invariant of the deployment: its parts hold in every reachable state.
THEOREM Invariance == Spec => []Inv
<1>1. Init => Inv
  <2> SUFFICES ASSUME Init PROVE Inv
    OBVIOUS
  <2>1. TypeOK
    BY DeployAssumption DEF Init, TypeOK, Terminal, Worlds
  <2>2. Exclusive /\ Busy /\ Forward /\ Back /\ RolledBack
    BY DEF Init, Exclusive, Busy, Forward, Back, RolledBack, Pipeline
  <2>3. Saved
    BY DeployAssumption DEF Init, Saved, Kept, Whole
  <2>q. QED
    BY <2>1, <2>2, <2>3 DEF Inv
<1>2. Inv /\ [Next]_vars => Inv'
  BY TypeStep, BusyStep, ExclusiveStep, ForwardStep, SavedStep, BackStep, RolledBackStep DEF Inv
<1>q. QED
  BY <1>1, <1>2, PTL DEF Spec

\* The state of every deployment, of the files and of the journal is well typed
\* (the stages the code can journal, the exit codes deploy() can return).
THEOREM TypeCorrect == Spec => []TypeOK
<1>1. Inv => TypeOK
  BY DEF Inv
<1>q. QED
  BY <1>1, Invariance, PTL

\* Mutual exclusion of deployments by the lock file, whatever daemons crash and
\* whenever the operator removes a stale lock (lock.py, spec 12.6).
THEOREM Mutex == Spec => []OneDeployment
<1>1. Inv => OneDeployment
  BY DEF Inv, Exclusive, OneDeployment
<1>q. QED
  BY <1>1, Invariance, PTL

\* A forward shipping (deploy.py, _stage_ship) moves jars under no running server.
THEOREM ShipsStopped == Spec => []ShippedWhileStopped
<1>1. Inv => ShippedWhileStopped
  BY DEF Inv, Forward, ShippedWhileStopped
<1>q. QED
  BY <1>1, Invariance, PTL

\* The world that backup.py saved and recovery.py removes and copies back is in
\* its place or in a backup, at every moment and after every crash.
THEOREM WorldSafe == Spec => []WorldRecoverable
<1>1. Inv => WorldRecoverable
  BY DEF Inv, Saved, Kept, Whole, WorldRecoverable
<1>q. QED
  BY <1>1, Invariance, PTL

\* _abort_with_recovery leaves no service down, or reports a failed recovery.
THEOREM ServicesUp == Spec => []FailureLeavesServicesUp
<1>1. Inv => FailureLeavesServicesUp
  BY DEF Inv, Back, FailureLeavesServicesUp
<1>q. QED
  BY <1>1, Invariance, PTL

\* A deployment that fails to ship returns to the prior release everywhere, on
\* the world saved for it, or reports a failed recovery.
THEOREM ShipRollback == Spec => []ShipFailureRolledBack
<1>1. Inv => ShipFailureRolledBack
  BY DeployAssumption DEF Inv, RolledBack, OnPrior, ShipFailureRolledBack
<1>q. QED
  BY <1>1, Invariance, PTL

\* COMPLETE is journaled only over a release that is installed and runs in every
\* container (deploy.py, the end of _run_stages).
THEOREM CompleteMeansDeployed == Spec => CompleteIsDeployed
<1>1. Inv /\ [Next]_vars => [CompletesDeployed]_vars
  BY DEF Inv, Forward, CompletesDeployed, Complete, Goto
<1>q. QED
  BY <1>1, Invariance, PTL DEF Spec, CompleteIsDeployed

\* The lock is given back over a journaled outcome (deploy.py, spec 12.7), and a failure
\* is never covered by a COMPLETE, whatever other daemons journal for the release.
THEOREM OutcomeIsJournaled == Spec => []OutcomeJournaled
<1>1. Init => OutcomeJournaled
  BY DEF Init, OutcomeJournaled
<1>2. Inv /\ OutcomeJournaled /\ [Next]_vars => OutcomeJournaled'
  BY OutcomeStep DEF Inv
<1>q. QED
  BY <1>1, <1>2, Invariance, PTL DEF Spec
=============================================================================
