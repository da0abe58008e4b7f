--------------------------- MODULE PipelineProofs ---------------------------
(***************************************************************************)
(* Theorems about Pipeline, for any members, command lines, port maps and  *)
(* bounds, from one inductive invariant, Inv, each part of which is a      *)
(* lemma: how far a run is (Staged), what its preflight saw (Captured) and *)
(* planned (Planned) holds until it is used, and so who is warned, stopped *)
(* and started again, and what the servers that run have loaded.           *)
(***************************************************************************)
EXTENDS Pipeline, SequenceTheorems, TLAPS

-----------------------------------------------------------------------------
(* The invariant. *)

Early == {"load", "inspect", "check", "rcon", "ready", "notice"}
Writing == {"write", "mods", "members", "client", "pack", "props"}

\* Nothing has been done yet that a player or an operator could notice.
Fresh ==
    /\ warned = {} /\ attempted = {} /\ delivered = {} /\ stopped = {} /\ stopFailed = {}
    /\ started = {} /\ startFailed = {} /\ healthy = {} /\ reloadFailed = {}
    /\ failure = "none" /\ posts = <<>> /\ promised = {}

\* What a run has done, stage by stage, and what it has posted.
Staged ==
    /\ pc \in Early \/ NoRun => Fresh
    /\ ~Idle => exit = "none"
    /\ pc \in {"warn", "stop", "reload", "start", "health"} \cup Writing => failure = "none"
    /\ pc = "recover" =>
         /\ failure \in {"pre_hook", "mid_scope_write", "reload"}
         /\ failure = "mid_scope_write" => "server" \notin run.scopes
    /\ pc \in {"warn", "stop", "recover", "reload"} \cup Writing => posts = <<>>
    /\ pc \in {"start", "health"} => posts = IF run.notify THEN <<"live">> ELSE <<>>

\* The containers of the run that are up, and that nobody else has started since it began,
\* have been up since it began.
Steady == (run.part \cap up) \ outsiders

\* The preflight has seen all of them.
Captured ==
    NeedsLifecycle(run) =>
        /\ pc = "inspect" => Steady \subseteq todo \cup seen \cup unsettled
        /\ pc \in {"check", "rcon", "ready", "notice", "warn", "stop", "reload"} \cup Writing
             => Steady \subseteq seen

\* The plan covers whatever is still to be written: who it changes is restarted, or
\* reloaded where only the config differs.
Planned ==
    pc \in {"rcon", "ready", "notice", "warn", "stop", "reload"} \cup Writing =>
        /\ restartSet \cup reloadSet \subseteq run.part
        /\ restartSet \cup reloadSet # {} => NeedsLifecycle(run)
        /\ "server" \in run.scopes /\ ~run.targeted /\ mods # source.mods
             => restartSet = run.part
        /\ pc = "mods" => "server" \in run.scopes /\ ~run.targeted
        /\ pc = "members" => "server" \in run.scopes /\ todo \subseteq run.part
        /\ pc = "pack" => "resource_pack" \in run.scopes
        /\ pc = "props" => "resource_pack" \in run.scopes /\ todo \subseteq run.part
        /\ \A m \in run.part :
             /\ "resource_pack" \in run.scopes /\ props[m] # source.pack => m \in restartSet
             /\ "server" \in run.scopes /\ conf[m] # source.conf /\ ConfAction # "none"
                  => m \in restartSet \cup reloadSet

\* Who is warned and stopped, stage by stage.
Warned ==
    /\ warned \subseteq restartSet \cap seen
    /\ stopped \cup stopFailed \cup promised \subseteq warned
    /\ pc = "ready" /\ ~run.dry =>
         \A m \in (restartSet \cap seen) \cap Steady : TransportOf(m) # "none"
    /\ pc = "notice" => \A m \in (restartSet \cap seen) \cap Steady : transport[m] # "none"
    /\ NoticesCanArrive
    /\ pc = "warn" =>
         /\ todo \subseteq warned /\ stopped \cup stopFailed = {}
         /\ warned \ todo \subseteq attempted
         /\ run.required => warned \ todo \subseteq delivered
         /\ restartSet \cap Steady \subseteq warned
    /\ pc = "stop" =>
         /\ todo \subseteq warned /\ warned \subseteq attempted
         /\ run.required => warned \subseteq delivered
         /\ restartSet \cap Steady \subseteq todo \cup stopFailed
    /\ pc \in {"reload"} \cup Writing => restartSet \cap Steady = {}

\* Who still waits for a restart that was announced, stage by stage.
Promised ==
    /\ promised \subseteq attempted \cap up
    /\ \A m \in promised : transport[m] # "none"
    /\ pc = "stop" => promised \subseteq todo \cup stopFailed
    /\ pc \in {"reload", "start", "health"} \cup Writing => promised = {}
    /\ PromisesKept

\* Who has been started again, stage by stage.
Restored ==
    /\ pc \in {"warn", "stop", "reload"} \cup Writing =>
         started = {} /\ stopped \cap up \subseteq outsiders
    /\ pc \in {"recover", "start"} => stopped \subseteq todo \cup started \cup startFailed
    /\ pc = "health" => stopped \subseteq started \cup startFailed
    /\ FailedRunRestores

\* What a server that is up and did not lag has loaded, stage by stage.
Loads(m) == loaded[m].mods = mods /\ loaded[m].props = props[m]
Current(m) == Loads(m) /\ loaded[m].conf = conf[m]

Served ==
    \A m \in (up \ lagging) \ outsiders :
        /\ pc \in {"notice", "warn", "stop", "write", "start", "health"} => Current(m)
        /\ pc \in Writing => Current(m) \/ (Loads(m) /\ m \in reloadSet \cap seen)
        /\ pc = "reload" => Current(m) \/ (Loads(m) /\ m \in todo \cup reloadFailed)
        /\ Idle /\ exit = "0" /\ ~run.dry => Current(m)

\* The types, in the parts that the proofs use.
RunTyped ==
    /\ run \in RequestsOfMembers /\ (~run.targeted => run.part = Members)
    /\ pc \in {"idle", "load", "inspect", "check", "rcon", "ready", "notice", "warn", "stop",
               "recover", "write", "mods", "members", "client", "pack", "props", "reload",
               "start", "health"}
    /\ failure \in ReportedStages \cup {"none", "in_game_notice", "pre_hook"}
    /\ exit \in {"none", "0", "1", "3"}
    /\ edits \in Nat /\ runs \in Nat /\ events \in Nat

PostsTyped == posts \in Seq({"live", "failure", "online"})

SetsTyped ==
    /\ up \subseteq Members
    /\ todo \cup seen \cup unsettled \cup restartSet \cup reloadSet \subseteq Members
    /\ warned \cup attempted \cup delivered \cup promised \subseteq Members
    /\ stopped \cup stopFailed \cup started \cup startFailed \cup healthy \subseteq Members
    /\ reloaded \cup reloadFailed \cup outsiders \cup lagging \subseteq Members

LoadedType == [Members -> [mods : Nat, conf : Nat, props : Nat]]

HostTyped ==
    /\ published \in [Members -> Nat]
    /\ transport \in [Members -> {"tcp", "exec", "none"}]
    /\ source \in [Files -> Nat] /\ mods \in Nat /\ pack \in Nat
    /\ conf \in [Members -> Nat] /\ props \in [Members -> Nat]
    /\ loaded \in LoadedType

TypeInv == RunTyped /\ PostsTyped /\ SetsTyped /\ HostTyped

-----------------------------------------------------------------------------
(* Lemmas about the operators. *)

\* What the preflight may do, and what it leaves alone.
LEMMA ChecksTouch ==
    ASSUME Checks
    PROVE  /\ UNCHANGED <<hostVars, run, transport, noticeVars, hookVars, reloadVars, failure,
                          posts, histVars>>
           /\ pc \in {"load", "inspect", "check", "rcon"}
           /\ \/ Refuse \/ Load \/ Settle \/ Plan \/ Ready
              \/ \E m \in Members : Inspect(m)
  <1>1. /\ pc \in {"load", "inspect", "check", "rcon"}
        /\ \/ Refuse \/ Load \/ Settle \/ Plan \/ Ready
           \/ \E m \in Members : Inspect(m)
    BY DEF Checks, PreflightStep, MemberCheck, ConfigFails, SlipContextFails,
           SlipArtifactsFail, SlipIncompatible, TopLevelFails, ComposeFails, ModsDirFails,
           Load, Inspect, InspectFails, Settle, StateFails, DriftFails, PackSourceFails,
           TemplateFails, Plan, RconFails, OnlineTemplateFails, Ready
  <1>2. UNCHANGED transport
    BY <1>1 DEF Refuse, Load, Settle, Plan, Ready, Inspect
  <1>3. QED BY <1>1, <1>2 DEF Checks, PreflightStep, hostVars

\* Where the writes go on, and what that scope needs.
LEMMA Phases ==
    ASSUME NEW done
    PROVE  /\ PhaseAfter(done) \in {"members", "mods", "client", "pack", "reload"}
           /\ PhaseAfter(done) = "mods" => "server" \in run.scopes /\ ~run.targeted
           /\ PhaseAfter(done) = "members" => "server" \in run.scopes
           /\ PhaseAfter(done) = "pack" => "resource_pack" \in run.scopes
  BY DEF PhaseAfter

-----------------------------------------------------------------------------
(* Every step preserves every part. *)

\* Without a run there is a request of the type, too.
LEMMA NoRequest ==
    /\ [scopes |-> {}, part |-> {}, targeted |-> TRUE, mode |-> "legacy", dry |-> FALSE,
        notify |-> FALSE, required |-> FALSE] \in RequestsOfMembers
    /\ [scopes |-> {}, part |-> {}, targeted |-> TRUE, mode |-> "legacy", dry |-> FALSE,
        notify |-> FALSE, required |-> FALSE].targeted
    /\ [scopes |-> {}, part |-> {}, targeted |-> TRUE, mode |-> "legacy", dry |-> FALSE,
        notify |-> FALSE, required |-> FALSE].part = {}
  BY DEF RequestsOfMembers

\* A request names members only.
LEMMA PartTyped ==
    ASSUME RunTyped PROVE run.part \subseteq Members
  BY DEF RunTyped, RequestsOfMembers

\* Every step keeps the types of the run.
LEMMA RunStep ==
    ASSUME RunTyped, [Next]_vars PROVE RunTyped'
<1> USE DEF hostVars, planVars, captured, chosen, noticeVars, hookVars, reloadVars,
   reportVars, histVars
<1>1. ASSUME NEW q \in Requests, Begin(q) PROVE RunTyped'
    BY <1>1, PreflightAssumption DEF Begin, NoRun, Idle, Goes, ValidRequest, RunTyped,
       ReportedStages
<1>2. CASE Forget
    BY <1>2, PreflightAssumption, NoRequest DEF Forget, RunTyped, ReportedStages
<1>3. CASE Checks /\ Refuse
    BY <1>3, ChecksTouch, PreflightAssumption DEF Checks, Refuse, Return, RunTyped,
       ReportedStages
<1>4. CASE Checks /\ Load
    BY <1>4, ChecksTouch, PreflightAssumption DEF Load, Goes, RunTyped, ReportedStages
<1>5. ASSUME NEW m \in Members, Checks, Inspect(m) PROVE RunTyped'
    BY <1>5, ChecksTouch, PreflightAssumption DEF Inspect, Goes, IsNext, RunTyped,
       ReportedStages
<1>6. CASE Checks /\ Settle
    BY <1>6, ChecksTouch, PreflightAssumption DEF Settle, Settled, Goes, RunTyped,
       ReportedStages
<1>7. CASE Checks /\ Plan
    BY <1>7, ChecksTouch, PreflightAssumption DEF Plan, Goes, RunTyped, ReportedStages
<1>8. CASE Checks /\ Ready
    BY <1>8, ChecksTouch, PreflightAssumption DEF Ready, Goes, RunTyped, ReportedStages
<1>9. CASE DryRun
    BY <1>9, PreflightAssumption DEF DryRun, Post, Return, RunTyped, ReportedStages
<1>10. CASE Prepare
    BY <1>10, PreflightAssumption DEF Prepare, Connects, Goes, RunTyped, ReportedStages
<1>11. CASE Reinspect
    BY <1>11, PreflightAssumption DEF Reinspect, RunTyped, ReportedStages
<1>12. ASSUME NEW m \in Members, Warn(m) \/ WarnFails(m) PROVE RunTyped'
    BY <1>12, PreflightAssumption DEF Warn, WarnFails, IsNext, Answers, RunTyped,
       ReportedStages
<1>13. ASSUME NEW m \in Members, WarnAborts(m) PROVE RunTyped'
    BY <1>13, PreflightAssumption DEF WarnAborts, IsNext, Return, RunTyped, ReportedStages
<1>14. CASE StopInspect
    BY <1>14, PreflightAssumption DEF StopInspect, RunTyped, ReportedStages
<1>15. ASSUME NEW m \in Members, Stop(m) \/ ExitedBeforeStop(m) \/ StopFails(m)
       PROVE  RunTyped'
    BY <1>15, PreflightAssumption DEF Stop, ExitedBeforeStop, StopFails, IsNext, RunTyped,
       ReportedStages
<1>16. CASE StopsDone
    BY <1>16, PreflightAssumption DEF StopsDone, RunTyped, ReportedStages
<1>17. ASSUME NEW m \in Members, Start(m) \/ StartFails(m) PROVE RunTyped'
    BY <1>17, PreflightAssumption DEF Start, StartFails, StartOf, IsNext, RunTyped,
       ReportedStages
<1>18. CASE Recovered
    BY <1>18, PreflightAssumption DEF Recovered, Post, Return, RunTyped, ReportedStages
<1>19. CASE BeginWrites \/ ServerScopeDone \/ ResourcePackScopeDone
    BY <1>19, Phases, PreflightAssumption DEF BeginWrites, ServerScopeDone,
       ResourcePackScopeDone, Goto, RunTyped, ReportedStages
<1>20. CASE WriteMods
    BY <1>20, PreflightAssumption DEF WriteMods, Goto, WriteFailure, Post, Return,
       RunTyped, ReportedStages
<1>21. ASSUME NEW m \in Members, WriteMember(m) PROVE RunTyped'
    BY <1>21, PreflightAssumption DEF WriteMember, IsNext, WriteFailure, Post, Return,
       RunTyped, ReportedStages
<1>22. CASE ClientScope
    BY <1>22, Phases, PreflightAssumption DEF ClientScope, Goto, WriteFailure, Post,
       Return, RunTyped, ReportedStages
<1>23. CASE PublishPack
    BY <1>23, PreflightAssumption DEF PublishPack, Goto, WriteFailure, Post, Return,
       RunTyped, ReportedStages
<1>24. ASSUME NEW m \in Members, WriteProps(m) PROVE RunTyped'
    BY <1>24, PreflightAssumption DEF WriteProps, IsNext, WriteFailure, Post, Return,
       RunTyped, ReportedStages
<1>25. ASSUME NEW m \in Members, Reload(m) \/ ReloadFails(m) PROVE RunTyped'
    BY <1>25, PreflightAssumption DEF Reload, ReloadFails, IsNext, RunTyped,
       ReportedStages
<1>26. CASE ReloadsDone
    BY <1>26, PreflightAssumption DEF ReloadsDone, Post, Return, RunTyped, ReportedStages
<1>27. CASE StartsDone
    BY <1>27, PreflightAssumption DEF StartsDone, RunTyped, ReportedStages
<1>28. CASE RestartsDone
    BY <1>28, PreflightAssumption DEF RestartsDone, Post, Return, RunTyped, ReportedStages
<1>29. ASSUME NEW m \in Members, Healthy(m) \/ HealthFails(m) PROVE RunTyped'
    BY <1>29, PreflightAssumption DEF Healthy, HealthFails, IsNext, RunTyped,
       ReportedStages
<1>30. ASSUME NEW m \in Members, Exits(m) PROVE RunTyped'
    BY <1>30, PreflightAssumption DEF Exits, RunTyped, ReportedStages
<1>31. ASSUME NEW m \in Members, StartsElsewhere(m) PROVE RunTyped'
    BY <1>31, PreflightAssumption DEF StartsElsewhere, StartOf, RunTyped, ReportedStages
<1>32. ASSUME NEW f \in Files, EditSource(f) PROVE RunTyped'
    BY <1>32, PreflightAssumption DEF EditSource, RunTyped, ReportedStages
<1>33. CASE UNCHANGED vars
    BY <1>33, PreflightAssumption DEF vars, RunTyped, ReportedStages
<1> QED
    BY ChecksTouch, <1>1, <1>2, <1>3, <1>4, <1>5, <1>6, <1>7, <1>8, <1>9, <1>10, <1>11,
       <1>12, <1>13, <1>14, <1>15, <1>16, <1>17, <1>18, <1>19, <1>20, <1>21, <1>22, <1>23,
       <1>24, <1>25, <1>26, <1>27, <1>28, <1>29, <1>30, <1>31, <1>32, <1>33
       DEF Next, Run, PhaseStep, MemberStep, Lost, Gone

\* Every step keeps the sets of members.
LEMMA SetsStep ==
    ASSUME RunTyped, SetsTyped, [Next]_vars PROVE SetsTyped'
<1> USE DEF hostVars, planVars, captured, chosen, noticeVars, hookVars, reloadVars,
   reportVars, histVars
<1>1. ASSUME NEW q \in Requests, Begin(q) PROVE SetsTyped'
    BY <1>1, PreflightAssumption, PartTyped DEF Begin, NoRun, Idle, Goes, ValidRequest,
       SetsTyped
<1>2. CASE Forget
    BY <1>2, PreflightAssumption, PartTyped, NoRequest DEF Forget, SetsTyped
<1>3. CASE Checks /\ Refuse
    BY <1>3, ChecksTouch, PreflightAssumption, PartTyped DEF Checks, Refuse, Return,
       SetsTyped
<1>4. CASE Checks /\ Load
  <2>1. todo' = {} \/ todo' = run.part
    BY <1>4 DEF Load, Goes
  <2>2. todo' \subseteq Members
    BY <2>1, PartTyped
  <2>3. UNCHANGED <<captured, chosen>>
    BY <1>4 DEF Load
  <2>4. QED BY <1>4, <2>2, <2>3, ChecksTouch DEF SetsTyped
<1>5. ASSUME NEW m \in Members, Checks, Inspect(m) PROVE SetsTyped'
    BY <1>5, ChecksTouch, PreflightAssumption, PartTyped DEF Inspect, Goes, IsNext,
       SetsTyped
<1>6. CASE Checks /\ Settle
    BY <1>6, ChecksTouch, PreflightAssumption, PartTyped DEF Settle, Settled, Goes,
       SetsTyped
<1>7. CASE Checks /\ Plan
    BY <1>7, ChecksTouch, PreflightAssumption, PartTyped DEF Plan, Goes, SetsTyped
<1>8. CASE Checks /\ Ready
    BY <1>8, ChecksTouch, PreflightAssumption, PartTyped DEF Ready, Goes, SetsTyped
<1>9. CASE DryRun
    BY <1>9, PreflightAssumption, PartTyped DEF DryRun, Post, Return, SetsTyped
<1>10. CASE Prepare
    BY <1>10, PreflightAssumption, PartTyped DEF Prepare, Connects, Goes, SetsTyped
<1>11. CASE Reinspect
    BY <1>11, PreflightAssumption, PartTyped DEF Reinspect, SetsTyped
<1>12. ASSUME NEW m \in Members, Warn(m) \/ WarnFails(m) PROVE SetsTyped'
    BY <1>12, PreflightAssumption, PartTyped DEF Warn, WarnFails, IsNext, Answers,
       SetsTyped
<1>13. ASSUME NEW m \in Members, WarnAborts(m) PROVE SetsTyped'
    BY <1>13, PreflightAssumption, PartTyped DEF WarnAborts, IsNext, Return, SetsTyped
<1>14. CASE StopInspect
    BY <1>14, PreflightAssumption, PartTyped DEF StopInspect, SetsTyped
<1>15. ASSUME NEW m \in Members, Stop(m) \/ ExitedBeforeStop(m) \/ StopFails(m)
       PROVE  SetsTyped'
    BY <1>15, PreflightAssumption, PartTyped DEF Stop, ExitedBeforeStop, StopFails,
       IsNext, SetsTyped
<1>16. CASE StopsDone
    BY <1>16, PreflightAssumption, PartTyped DEF StopsDone, SetsTyped
<1>17. ASSUME NEW m \in Members, Start(m) \/ StartFails(m) PROVE SetsTyped'
    BY <1>17, PreflightAssumption, PartTyped DEF Start, StartFails, StartOf, IsNext,
       SetsTyped
<1>18. CASE Recovered
    BY <1>18, PreflightAssumption, PartTyped DEF Recovered, Post, Return, SetsTyped,
       CancelRecipients
<1>19. CASE BeginWrites \/ ServerScopeDone \/ ResourcePackScopeDone
    BY <1>19, Phases, PreflightAssumption, PartTyped DEF BeginWrites, ServerScopeDone,
       ResourcePackScopeDone, Goto, SetsTyped
<1>20. CASE WriteMods
    BY <1>20, PreflightAssumption, PartTyped DEF WriteMods, Goto, WriteFailure, Post,
       Return, SetsTyped
<1>21. ASSUME NEW m \in Members, WriteMember(m) PROVE SetsTyped'
    BY <1>21, PreflightAssumption, PartTyped DEF WriteMember, IsNext, WriteFailure, Post,
       Return, SetsTyped
<1>22. CASE ClientScope
    BY <1>22, Phases, PreflightAssumption, PartTyped DEF ClientScope, Goto, WriteFailure,
       Post, Return, SetsTyped
<1>23. CASE PublishPack
    BY <1>23, PreflightAssumption, PartTyped DEF PublishPack, Goto, WriteFailure, Post,
       Return, SetsTyped
<1>24. ASSUME NEW m \in Members, WriteProps(m) PROVE SetsTyped'
    BY <1>24, PreflightAssumption, PartTyped DEF WriteProps, IsNext, WriteFailure, Post,
       Return, SetsTyped
<1>25. ASSUME NEW m \in Members, Reload(m) \/ ReloadFails(m) PROVE SetsTyped'
    BY <1>25, PreflightAssumption, PartTyped DEF Reload, ReloadFails, IsNext, SetsTyped
<1>26. CASE ReloadsDone
    BY <1>26, PreflightAssumption, PartTyped DEF ReloadsDone, Post, Return, SetsTyped
<1>27. CASE StartsDone
    BY <1>27, PreflightAssumption, PartTyped DEF StartsDone, SetsTyped
<1>28. CASE RestartsDone
    BY <1>28, PreflightAssumption, PartTyped DEF RestartsDone, Post, Return, SetsTyped
<1>29. ASSUME NEW m \in Members, Healthy(m) \/ HealthFails(m) PROVE SetsTyped'
    BY <1>29, PreflightAssumption, PartTyped DEF Healthy, HealthFails, IsNext, SetsTyped
<1>30. ASSUME NEW m \in Members, Exits(m) PROVE SetsTyped'
    BY <1>30, PreflightAssumption, PartTyped DEF Exits, SetsTyped
<1>31. ASSUME NEW m \in Members, StartsElsewhere(m) PROVE SetsTyped'
    BY <1>31, PreflightAssumption, PartTyped DEF StartsElsewhere, StartOf, SetsTyped
<1>32. ASSUME NEW f \in Files, EditSource(f) PROVE SetsTyped'
    BY <1>32, PreflightAssumption, PartTyped DEF EditSource, SetsTyped
<1>33. CASE UNCHANGED vars
    BY <1>33, PreflightAssumption, PartTyped DEF vars, SetsTyped
<1> QED
    BY ChecksTouch, <1>1, <1>2, <1>3, <1>4, <1>5, <1>6, <1>7, <1>8, <1>9, <1>10, <1>11,
       <1>12, <1>13, <1>14, <1>15, <1>16, <1>17, <1>18, <1>19, <1>20, <1>21, <1>22, <1>23,
       <1>24, <1>25, <1>26, <1>27, <1>28, <1>29, <1>30, <1>31, <1>32, <1>33
       DEF Next, Run, PhaseStep, MemberStep, Lost, Gone

\* A start and a reload keep the type of what the servers have loaded.
LEMMA StartTyped ==
    ASSUME NEW m \in Members, HostTyped, StartOf(m) PROVE loaded' \in LoadedType
  BY DEF HostTyped, StartOf, OnDisk, LoadedType

LEMMA ReloadTyped ==
    ASSUME NEW m \in Members, HostTyped, loaded' = [loaded EXCEPT ![m].conf = conf[m]]
    PROVE  /\ loaded' \in LoadedType
           /\ loaded'[m].conf = conf[m]
           /\ loaded'[m].mods = loaded[m].mods /\ loaded'[m].props = loaded[m].props
           /\ \A k \in Members \ {m} : loaded'[k] = loaded[k]
  BY DEF HostTyped, LoadedType

\* RCON is reached in one of two ways, or not at all.
LEMMA TransportTyped == \A m : TransportOf(m) \in {"tcp", "exec", "none"}
  BY DEF TransportOf

\* Every step keeps the type of what was posted.
LEMMA PostsStep ==
    ASSUME RunTyped, PostsTyped, [Next]_vars PROVE PostsTyped'
<1> USE DEF hostVars, planVars, captured, chosen, noticeVars, hookVars, reloadVars,
   reportVars, histVars
<1>1. ASSUME NEW q \in Requests, Begin(q) PROVE PostsTyped'
    BY <1>1 DEF Begin, NoRun, Idle, Goes, ValidRequest, PostsTyped
<1>2. CASE Forget
    BY <1>2 DEF Forget, PostsTyped
<1>3. CASE Checks /\ Refuse
    BY <1>3, ChecksTouch DEF Checks, Refuse, Return, PostsTyped
<1>4. CASE Checks /\ Load
    BY <1>4, ChecksTouch DEF Load, Goes, PostsTyped
<1>5. ASSUME NEW m \in Members, Checks, Inspect(m) PROVE PostsTyped'
    BY <1>5, ChecksTouch DEF Inspect, Goes, IsNext, PostsTyped
<1>6. CASE Checks /\ Settle
    BY <1>6, ChecksTouch DEF Settle, Settled, Goes, PostsTyped
<1>7. CASE Checks /\ Plan
    BY <1>7, ChecksTouch DEF Plan, Goes, PostsTyped
<1>8. CASE Checks /\ Ready
    BY <1>8, ChecksTouch DEF Ready, Goes, PostsTyped
<1>9. CASE DryRun
    BY <1>9 DEF DryRun, Post, Return, PostsTyped
<1>10. CASE Prepare
    BY <1>10 DEF Prepare, Connects, Goes, PostsTyped
<1>11. CASE Reinspect
    BY <1>11 DEF Reinspect, PostsTyped
<1>12. ASSUME NEW m \in Members, Warn(m) \/ WarnFails(m) PROVE PostsTyped'
    BY <1>12 DEF Warn, WarnFails, IsNext, Answers, PostsTyped
<1>13. ASSUME NEW m \in Members, WarnAborts(m) PROVE PostsTyped'
    BY <1>13 DEF WarnAborts, IsNext, Return, PostsTyped
<1>14. CASE StopInspect
    BY <1>14 DEF StopInspect, PostsTyped
<1>15. ASSUME NEW m \in Members, Stop(m) \/ ExitedBeforeStop(m) \/ StopFails(m)
       PROVE  PostsTyped'
    BY <1>15 DEF Stop, ExitedBeforeStop, StopFails, IsNext, PostsTyped
<1>16. CASE StopsDone
    BY <1>16 DEF StopsDone, PostsTyped
<1>17. ASSUME NEW m \in Members, Start(m) \/ StartFails(m) PROVE PostsTyped'
    BY <1>17 DEF Start, StartFails, StartOf, IsNext, PostsTyped
<1>18. CASE Recovered
    BY <1>18 DEF Recovered, Post, Return, PostsTyped
<1>19. CASE BeginWrites \/ ServerScopeDone \/ ResourcePackScopeDone
    BY <1>19, Phases DEF BeginWrites, ServerScopeDone, ResourcePackScopeDone, Goto,
       PostsTyped
<1>20. CASE WriteMods
    BY <1>20 DEF WriteMods, Goto, WriteFailure, Post, Return, PostsTyped
<1>21. ASSUME NEW m \in Members, WriteMember(m) PROVE PostsTyped'
    BY <1>21 DEF WriteMember, IsNext, WriteFailure, Post, Return, PostsTyped
<1>22. CASE ClientScope
    BY <1>22, Phases DEF ClientScope, Goto, WriteFailure, Post, Return, PostsTyped
<1>23. CASE PublishPack
    BY <1>23 DEF PublishPack, Goto, WriteFailure, Post, Return, PostsTyped
<1>24. ASSUME NEW m \in Members, WriteProps(m) PROVE PostsTyped'
    BY <1>24 DEF WriteProps, IsNext, WriteFailure, Post, Return, PostsTyped
<1>25. ASSUME NEW m \in Members, Reload(m) \/ ReloadFails(m) PROVE PostsTyped'
    BY <1>25 DEF Reload, ReloadFails, IsNext, PostsTyped
<1>26. CASE ReloadsDone
    BY <1>26 DEF ReloadsDone, Post, Return, PostsTyped
<1>27. CASE StartsDone
    BY <1>27 DEF StartsDone, PostsTyped
<1>28. CASE RestartsDone
    BY <1>28 DEF RestartsDone, Post, Return, PostsTyped
<1>29. ASSUME NEW m \in Members, Healthy(m) \/ HealthFails(m) PROVE PostsTyped'
    BY <1>29 DEF Healthy, HealthFails, IsNext, PostsTyped
<1>30. ASSUME NEW m \in Members, Exits(m) PROVE PostsTyped'
    BY <1>30 DEF Exits, PostsTyped
<1>31. ASSUME NEW m \in Members, StartsElsewhere(m) PROVE PostsTyped'
    BY <1>31 DEF StartsElsewhere, StartOf, PostsTyped
<1>32. ASSUME NEW f \in Files, EditSource(f) PROVE PostsTyped'
    BY <1>32 DEF EditSource, PostsTyped
<1>33. CASE UNCHANGED vars
    BY <1>33 DEF vars, PostsTyped
<1> QED
    BY ChecksTouch, <1>1, <1>2, <1>3, <1>4, <1>5, <1>6, <1>7, <1>8, <1>9, <1>10, <1>11,
       <1>12, <1>13, <1>14, <1>15, <1>16, <1>17, <1>18, <1>19, <1>20, <1>21, <1>22, <1>23,
       <1>24, <1>25, <1>26, <1>27, <1>28, <1>29, <1>30, <1>31, <1>32, <1>33
       DEF Next, Run, PhaseStep, MemberStep, Lost, Gone

\* Every step keeps the types of the host's variables.
LEMMA HostStep ==
    ASSUME HostTyped, [Next]_vars PROVE HostTyped'
<1> USE DEF hostVars, planVars, captured, chosen, noticeVars, hookVars, reloadVars,
   reportVars, histVars
<1>1. ASSUME NEW q \in Requests, Begin(q) PROVE HostTyped'
    BY <1>1 DEF Begin, NoRun, Idle, Goes, ValidRequest, HostTyped, Files
<1>2. CASE Forget
    BY <1>2 DEF Forget, HostTyped, Files
<1>3. CASE Checks /\ Refuse
    BY <1>3, ChecksTouch DEF Checks, Refuse, Return, HostTyped, Files
<1>4. CASE Checks /\ Load
    BY <1>4, ChecksTouch DEF Load, Goes, HostTyped, Files
<1>5. ASSUME NEW m \in Members, Checks, Inspect(m) PROVE HostTyped'
    BY <1>5, ChecksTouch DEF Inspect, Goes, IsNext, HostTyped, Files
<1>6. CASE Checks /\ Settle
    BY <1>6, ChecksTouch DEF Settle, Settled, Goes, HostTyped, Files
<1>7. CASE Checks /\ Plan
    BY <1>7, ChecksTouch DEF Plan, Goes, HostTyped, Files
<1>8. CASE Checks /\ Ready
    BY <1>8, ChecksTouch DEF Ready, Goes, HostTyped, Files
<1>9. CASE DryRun
    BY <1>9 DEF DryRun, Post, Return, HostTyped, Files
<1>10. CASE Prepare
    BY <1>10, TransportTyped DEF Prepare, Connects, Goes, HostTyped, Files
<1>11. CASE Reinspect
    BY <1>11 DEF Reinspect, HostTyped, Files
<1>12. ASSUME NEW m \in Members, Warn(m) \/ WarnFails(m) PROVE HostTyped'
    BY <1>12 DEF Warn, WarnFails, IsNext, Answers, HostTyped, Files
<1>13. ASSUME NEW m \in Members, WarnAborts(m) PROVE HostTyped'
    BY <1>13 DEF WarnAborts, IsNext, Return, HostTyped, Files
<1>14. CASE StopInspect
    BY <1>14 DEF StopInspect, HostTyped, Files
<1>15. ASSUME NEW m \in Members, Stop(m) \/ ExitedBeforeStop(m) \/ StopFails(m)
       PROVE  HostTyped'
    BY <1>15 DEF Stop, ExitedBeforeStop, StopFails, IsNext, HostTyped, Files
<1>16. CASE StopsDone
    BY <1>16 DEF StopsDone, HostTyped, Files
<1>17. ASSUME NEW m \in Members, Start(m) \/ StartFails(m) PROVE HostTyped'
    BY <1>17, StartTyped DEF Start, StartFails, StartOf, IsNext, HostTyped, Files
<1>18. CASE Recovered
    BY <1>18 DEF Recovered, Post, Return, HostTyped, Files
<1>19. CASE BeginWrites \/ ServerScopeDone \/ ResourcePackScopeDone
    BY <1>19, Phases DEF BeginWrites, ServerScopeDone, ResourcePackScopeDone, Goto,
       HostTyped, Files
<1>20. CASE WriteMods
    BY <1>20 DEF WriteMods, Goto, WriteFailure, Post, Return, HostTyped, Files
<1>21. ASSUME NEW m \in Members, WriteMember(m) PROVE HostTyped'
    BY <1>21 DEF WriteMember, IsNext, WriteFailure, Post, Return, HostTyped, Files
<1>22. CASE ClientScope
    BY <1>22, Phases DEF ClientScope, Goto, WriteFailure, Post, Return, HostTyped, Files
<1>23. CASE PublishPack
    BY <1>23 DEF PublishPack, Goto, WriteFailure, Post, Return, HostTyped, Files
<1>24. ASSUME NEW m \in Members, WriteProps(m) PROVE HostTyped'
    BY <1>24 DEF WriteProps, IsNext, WriteFailure, Post, Return, HostTyped, Files
<1>25. ASSUME NEW m \in Members, Reload(m) \/ ReloadFails(m) PROVE HostTyped'
    BY <1>25, ReloadTyped DEF Reload, ReloadFails, IsNext, HostTyped, Files
<1>26. CASE ReloadsDone
    BY <1>26 DEF ReloadsDone, Post, Return, HostTyped, Files
<1>27. CASE StartsDone
    BY <1>27 DEF StartsDone, HostTyped, Files
<1>28. CASE RestartsDone
    BY <1>28 DEF RestartsDone, Post, Return, HostTyped, Files
<1>29. ASSUME NEW m \in Members, Healthy(m) \/ HealthFails(m) PROVE HostTyped'
    BY <1>29 DEF Healthy, HealthFails, IsNext, HostTyped, Files
<1>30. ASSUME NEW m \in Members, Exits(m) PROVE HostTyped'
    BY <1>30 DEF Exits, HostTyped, Files
<1>31. ASSUME NEW m \in Members, StartsElsewhere(m) PROVE HostTyped'
    BY <1>31, StartTyped DEF StartsElsewhere, StartOf, HostTyped, Files
<1>32. ASSUME NEW f \in Files, EditSource(f) PROVE HostTyped'
    BY <1>32 DEF EditSource, HostTyped, Files
<1>33. CASE UNCHANGED vars
    BY <1>33 DEF vars, HostTyped, Files
<1> QED
    BY ChecksTouch, <1>1, <1>2, <1>3, <1>4, <1>5, <1>6, <1>7, <1>8, <1>9, <1>10, <1>11,
       <1>12, <1>13, <1>14, <1>15, <1>16, <1>17, <1>18, <1>19, <1>20, <1>21, <1>22, <1>23,
       <1>24, <1>25, <1>26, <1>27, <1>28, <1>29, <1>30, <1>31, <1>32, <1>33
       DEF Next, Run, PhaseStep, MemberStep, Lost, Gone

\* The stickiest of some actions is one of them, and none of them is stickier.
LEMMA StickyTop ==
    ASSUME NEW as \in SUBSET {"none", "reload", "restart"}
    PROVE  /\ StickyMax(as) \in as \cup {"none"}
           /\ \A b \in as : Rank(b) <= Rank(StickyMax(as))
  <1>1. /\ Rank("none") = 0 /\ Rank("reload") = 2 /\ Rank("restart") = 4
        /\ \A b \in {"none", "reload", "restart"} : Rank(b) <= 4
        /\ \A b \in {"none", "reload"} : Rank(b) <= 2
    BY DEF Rank
  <1>2. CASE as = {}
    BY <1>2 DEF StickyMax
  <1>3. CASE as # {}
    <2>1. \E a \in as : \A b \in as : Rank(b) <= Rank(a)
      <3>1. CASE "restart" \in as
        <4>1. \A b \in as : Rank(b) <= Rank("restart")
          BY <1>1
        <4> QED BY <3>1, <4>1
      <3>2. CASE "restart" \notin as /\ "reload" \in as
        <4>1. \A b \in as : b \in {"none", "reload"}
          BY <3>2
        <4>2. \A b \in as : Rank(b) <= Rank("reload")
          BY <1>1, <4>1
        <4> QED BY <3>2, <4>2
      <3>3. CASE as = {"none"}
        BY <1>1, <3>3
      <3> QED BY <1>3, <3>1, <3>2, <3>3
    <2> DEFINE a == CHOOSE c \in as : \A b \in as : Rank(b) <= Rank(c)
    <2>2. a \in as /\ \A b \in as : Rank(b) <= Rank(a)
      BY <2>1
    <2>3. StickyMax(as) = a
      BY <1>3 DEF StickyMax
    <2> QED BY <2>2, <2>3
  <1> QED BY <1>2, <1>3

\* What the plan asks for a member, by what differs at it.
LEMMA Effective ==
    ASSUME NEW m, NEW q
    PROVE  /\ "server" \in q.scopes /\ ~q.targeted /\ mods # source.mods
                => EffectiveAction(m, q) = "restart"
           /\ "resource_pack" \in q.scopes /\ props[m] # source.pack
                => EffectiveAction(m, q) = "restart"
           /\ "server" \in q.scopes /\ conf[m] # source.conf /\ ConfAction # "none"
                => EffectiveAction(m, q) \in {"reload", "restart"}
           /\ ~NeedsLifecycle(q) => EffectiveAction(m, q) = "none"
  <1> DEFINE C == IF conf[m] # source.conf THEN {ConfAction} ELSE {}
             M == IF ~q.targeted /\ mods # source.mods THEN {"restart"} ELSE {}
             S == IF "server" \in q.scopes THEN {ServerAction(m, q)} ELSE {}
             P == IF "resource_pack" \in q.scopes THEN {ResourcePackAction(m)} ELSE {}
             A == {"none", "reload", "restart"}
  <1>1. Rank("none") = 0 /\ Rank("reload") = 2 /\ Rank("restart") = 4
    BY DEF Rank
  <1>2. C \cup M \in SUBSET A /\ ServerAction(m, q) = StickyMax(C \cup M)
    BY PreflightAssumption DEF ServerAction
  <1>3. ServerAction(m, q) \in A /\ \A b \in C \cup M : Rank(b) <= Rank(ServerAction(m, q))
    BY <1>2, StickyTop
  <1>4. ResourcePackAction(m) \in A
    BY DEF ResourcePackAction
  <1>5. S \cup P \in SUBSET A /\ EffectiveAction(m, q) = StickyMax(S \cup P)
    BY <1>3, <1>4 DEF EffectiveAction
  <1>6. /\ EffectiveAction(m, q) \in (S \cup P) \cup {"none"}
        /\ EffectiveAction(m, q) \in A
        /\ \A b \in S \cup P : Rank(b) <= Rank(EffectiveAction(m, q))
    <2> HIDE DEF S, P
    <2> QED BY <1>5, StickyTop
  <1>7. ASSUME "server" \in q.scopes PROVE Rank(ServerAction(m, q)) <= Rank(EffectiveAction(m, q))
    BY <1>6, <1>7
  <1>8. ASSUME "server" \in q.scopes, ~q.targeted, mods # source.mods
        PROVE  EffectiveAction(m, q) = "restart"
    <2>1. "restart" \in C \cup M
      BY <1>8
    <2>2. ServerAction(m, q) = "restart"
      <3> HIDE DEF C, M
      <3> QED BY <1>1, <1>3, <2>1
    <2> QED BY <1>1, <1>6, <1>7, <1>8, <2>2
  <1>9. ASSUME "resource_pack" \in q.scopes, props[m] # source.pack
        PROVE  EffectiveAction(m, q) = "restart"
    <2>1. "restart" \in S \cup P
      BY <1>9 DEF ResourcePackAction
    <2> HIDE DEF S, P
    <2> QED BY <1>1, <1>6, <2>1
  <1>10. ASSUME "server" \in q.scopes, conf[m] # source.conf, ConfAction # "none"
         PROVE  EffectiveAction(m, q) \in {"reload", "restart"}
    <2>1. ConfAction \in C \cup M /\ ConfAction \in {"reload", "restart"}
      BY <1>10, PreflightAssumption
    <2>2. ServerAction(m, q) # "none"
      <3> HIDE DEF C, M
      <3> QED BY <1>1, <1>3, <2>1
    <2> QED BY <1>1, <1>3, <1>6, <1>7, <1>10, <2>2
  <1>11. ASSUME ~NeedsLifecycle(q) PROVE EffectiveAction(m, q) = "none"
    <2>1. S \cup P = {}
      BY <1>11 DEF NeedsLifecycle
    <2> HIDE DEF S, P
    <2> QED BY <1>6, <2>1
  <1> QED BY <1>8, <1>9, <1>10, <1>11

\* Every step keeps what the run has done, stage by stage.
LEMMA StagedStep ==
    ASSUME RunTyped, Staged, [Next]_vars PROVE Staged'
<1> USE DEF hostVars, planVars, captured, chosen, noticeVars, hookVars, reloadVars,
   reportVars, histVars
<1>1. ASSUME NEW q \in Requests, Begin(q) PROVE Staged'
    BY <1>1 DEF Begin, NoRun, Idle, Goes, ValidRequest, Staged, Fresh, Early, Writing,
       Idle, NoRun
<1>2. CASE Forget
    BY <1>2 DEF Forget, Staged, Fresh, Early, Writing, Idle, NoRun
<1>3. CASE Checks /\ Refuse
    BY <1>3, ChecksTouch DEF Checks, Refuse, Return, Staged, Fresh, Early, Writing, Idle,
       NoRun
<1>4. CASE Checks /\ Load
    BY <1>4, ChecksTouch DEF Load, Goes, Staged, Fresh, Early, Writing, Idle, NoRun
<1>5. ASSUME NEW m \in Members, Checks, Inspect(m) PROVE Staged'
    BY <1>5, ChecksTouch DEF Inspect, Goes, IsNext, Staged, Fresh, Early, Writing, Idle,
       NoRun
<1>6. CASE Checks /\ Settle
    BY <1>6, ChecksTouch DEF Settle, Settled, Goes, Staged, Fresh, Early, Writing, Idle,
       NoRun
<1>7. CASE Checks /\ Plan
    BY <1>7, ChecksTouch DEF Plan, Goes, Staged, Fresh, Early, Writing, Idle, NoRun
<1>8. CASE Checks /\ Ready
    BY <1>8, ChecksTouch DEF Ready, Goes, Staged, Fresh, Early, Writing, Idle, NoRun
<1>9. CASE DryRun
    BY <1>9 DEF DryRun, Post, Return, Staged, Fresh, Early, Writing, Idle, NoRun
<1>10. CASE Prepare
    BY <1>10 DEF Prepare, Connects, Goes, Staged, Fresh, Early, Writing, Idle, NoRun
<1>11. CASE Reinspect
    BY <1>11 DEF Reinspect, Staged, Fresh, Early, Writing, Idle, NoRun
<1>12. ASSUME NEW m \in Members, Warn(m) \/ WarnFails(m) PROVE Staged'
    BY <1>12 DEF Warn, WarnFails, IsNext, Answers, Staged, Fresh, Early, Writing, Idle,
       NoRun
<1>13. ASSUME NEW m \in Members, WarnAborts(m) PROVE Staged'
    BY <1>13 DEF WarnAborts, IsNext, Return, Staged, Fresh, Early, Writing, Idle, NoRun
<1>14. CASE StopInspect
    BY <1>14 DEF StopInspect, Staged, Fresh, Early, Writing, Idle, NoRun
<1>15. ASSUME NEW m \in Members, Stop(m) \/ ExitedBeforeStop(m) \/ StopFails(m) PROVE Staged'
    BY <1>15 DEF Stop, ExitedBeforeStop, StopFails, IsNext, Staged, Fresh, Early, Writing,
       Idle, NoRun
<1>16. CASE StopsDone
    BY <1>16 DEF StopsDone, Staged, Fresh, Early, Writing, Idle, NoRun
<1>17. ASSUME NEW m \in Members, Start(m) \/ StartFails(m) PROVE Staged'
    BY <1>17 DEF Start, StartFails, StartOf, IsNext, Staged, Fresh, Early, Writing, Idle,
       NoRun
<1>18. CASE Recovered
    BY <1>18 DEF Recovered, Post, Return, Staged, Fresh, Early, Writing, Idle, NoRun
<1>19. CASE BeginWrites \/ ServerScopeDone \/ ResourcePackScopeDone
    BY <1>19, Phases DEF BeginWrites, ServerScopeDone, ResourcePackScopeDone, Goto,
       Staged, Fresh, Early, Writing, Idle, NoRun, ReportedStages
<1>20. CASE WriteMods
    BY <1>20 DEF WriteMods, Goto, WriteFailure, Post, Return, Staged, Fresh, Early,
       Writing, Idle, NoRun
<1>21. ASSUME NEW m \in Members, WriteMember(m) PROVE Staged'
    BY <1>21 DEF WriteMember, IsNext, WriteFailure, Post, Return, Staged, Fresh, Early,
       Writing, Idle, NoRun
<1>22. CASE ClientScope
    BY <1>22, Phases DEF ClientScope, Goto, WriteFailure, Post, Return, Staged, Fresh,
       Early, Writing, Idle, NoRun
<1>23. CASE PublishPack
    BY <1>23 DEF PublishPack, Goto, WriteFailure, Post, Return, Staged, Fresh, Early,
       Writing, Idle, NoRun
<1>24. ASSUME NEW m \in Members, WriteProps(m) PROVE Staged'
    BY <1>24 DEF WriteProps, IsNext, WriteFailure, Post, Return, Staged, Fresh, Early,
       Writing, Idle, NoRun
<1>25. ASSUME NEW m \in Members, Reload(m) \/ ReloadFails(m) PROVE Staged'
    BY <1>25 DEF Reload, ReloadFails, IsNext, Staged, Fresh, Early, Writing, Idle, NoRun
<1>26. CASE ReloadsDone
    BY <1>26 DEF ReloadsDone, Post, Return, Staged, Fresh, Early, Writing, Idle, NoRun
<1>27. CASE StartsDone
    BY <1>27 DEF StartsDone, Staged, Fresh, Early, Writing, Idle, NoRun
<1>28. CASE RestartsDone
    BY <1>28 DEF RestartsDone, Post, Return, Staged, Fresh, Early, Writing, Idle, NoRun
<1>29. ASSUME NEW m \in Members, Healthy(m) \/ HealthFails(m) PROVE Staged'
    BY <1>29 DEF Healthy, HealthFails, IsNext, Staged, Fresh, Early, Writing, Idle, NoRun
<1>30. ASSUME NEW m \in Members, Exits(m) PROVE Staged'
    BY <1>30 DEF Exits, Staged, Fresh, Early, Writing, Idle, NoRun
<1>31. ASSUME NEW m \in Members, StartsElsewhere(m) PROVE Staged'
    BY <1>31 DEF StartsElsewhere, StartOf, Staged, Fresh, Early, Writing, Idle, NoRun
<1>32. ASSUME NEW f \in Files, EditSource(f) PROVE Staged'
    BY <1>32 DEF EditSource, Staged, Fresh, Early, Writing, Idle, NoRun
<1>33. CASE UNCHANGED vars
    BY <1>33 DEF vars, Staged, Fresh, Early, Writing, Idle, NoRun
<1> QED
    BY ChecksTouch, <1>1, <1>2, <1>3, <1>4, <1>5, <1>6, <1>7, <1>8, <1>9, <1>10, <1>11,
       <1>12, <1>13, <1>14, <1>15, <1>16, <1>17, <1>18, <1>19, <1>20, <1>21, <1>22, <1>23,
       <1>24, <1>25, <1>26, <1>27, <1>28, <1>29, <1>30, <1>31, <1>32, <1>33
       DEF Next, Run, PhaseStep, MemberStep, Lost, Gone

\* Every step keeps what the preflight has seen.
LEMMA CapturedStep ==
    ASSUME RunTyped, SetsTyped, Captured, [Next]_vars PROVE Captured'
<1> USE DEF hostVars, planVars, captured, chosen, noticeVars, hookVars, reloadVars,
   reportVars, histVars
<1>1. ASSUME NEW q \in Requests, Begin(q) PROVE Captured'
    BY <1>1 DEF Begin, NoRun, Idle, Goes, ValidRequest, Captured, Steady, Writing, Idle
<1>2. CASE Forget
    BY <1>2 DEF Forget, Captured, Steady, Writing, Idle
<1>3. CASE Checks /\ Refuse
    BY <1>3, ChecksTouch DEF Checks, Refuse, Return, Captured, Steady, Writing, Idle
<1>4. CASE Checks /\ Load
    BY <1>4, ChecksTouch DEF Load, Goes, Captured, Steady, Writing, Idle
<1>5. ASSUME NEW m \in Members, Checks, Inspect(m) PROVE Captured'
    BY <1>5, ChecksTouch DEF Inspect, Goes, IsNext, Captured, Steady, Writing, Idle
<1>6. CASE Checks /\ Settle
    BY <1>6, ChecksTouch DEF Settle, Settled, Goes, Captured, Steady, Writing, Idle
<1>7. CASE Checks /\ Plan
    BY <1>7, ChecksTouch DEF Plan, Goes, Captured, Steady, Writing, Idle
<1>8. CASE Checks /\ Ready
    BY <1>8, ChecksTouch DEF Ready, Goes, Captured, Steady, Writing, Idle
<1>9. CASE DryRun
    BY <1>9 DEF DryRun, Post, Return, Captured, Steady, Writing, Idle
<1>10. CASE Prepare
    BY <1>10 DEF Prepare, Connects, Goes, Captured, Steady, Writing, Idle
<1>11. CASE Reinspect
    BY <1>11 DEF Reinspect, Captured, Steady, Writing, Idle
<1>12. ASSUME NEW m \in Members, Warn(m) \/ WarnFails(m) PROVE Captured'
    BY <1>12 DEF Warn, WarnFails, IsNext, Answers, Captured, Steady, Writing, Idle
<1>13. ASSUME NEW m \in Members, WarnAborts(m) PROVE Captured'
    BY <1>13 DEF WarnAborts, IsNext, Return, Captured, Steady, Writing, Idle
<1>14. CASE StopInspect
    BY <1>14 DEF StopInspect, Captured, Steady, Writing, Idle
<1>15. ASSUME NEW m \in Members, Stop(m) \/ ExitedBeforeStop(m) \/ StopFails(m)
       PROVE  Captured'
    BY <1>15 DEF Stop, ExitedBeforeStop, StopFails, IsNext, Captured, Steady, Writing,
       Idle
<1>16. CASE StopsDone
    BY <1>16 DEF StopsDone, Captured, Steady, Writing, Idle
<1>17. ASSUME NEW m \in Members, Start(m) \/ StartFails(m) PROVE Captured'
    BY <1>17 DEF Start, StartFails, StartOf, IsNext, Captured, Steady, Writing, Idle
<1>18. CASE Recovered
    BY <1>18 DEF Recovered, Post, Return, Captured, Steady, Writing, Idle
<1>19. CASE BeginWrites \/ ServerScopeDone \/ ResourcePackScopeDone
    BY <1>19, Phases DEF BeginWrites, ServerScopeDone, ResourcePackScopeDone, Goto,
       Captured, Steady, Writing, Idle
<1>20. CASE WriteMods
    BY <1>20 DEF WriteMods, Goto, WriteFailure, Post, Return, Captured, Steady, Writing,
       Idle
<1>21. ASSUME NEW m \in Members, WriteMember(m) PROVE Captured'
    BY <1>21 DEF WriteMember, IsNext, WriteFailure, Post, Return, Captured, Steady,
       Writing, Idle
<1>22. CASE ClientScope
    BY <1>22, Phases DEF ClientScope, Goto, WriteFailure, Post, Return, Captured, Steady,
       Writing, Idle
<1>23. CASE PublishPack
    BY <1>23 DEF PublishPack, Goto, WriteFailure, Post, Return, Captured, Steady, Writing,
       Idle
<1>24. ASSUME NEW m \in Members, WriteProps(m) PROVE Captured'
    BY <1>24 DEF WriteProps, IsNext, WriteFailure, Post, Return, Captured, Steady,
       Writing, Idle
<1>25. ASSUME NEW m \in Members, Reload(m) \/ ReloadFails(m) PROVE Captured'
    BY <1>25 DEF Reload, ReloadFails, IsNext, Captured, Steady, Writing, Idle
<1>26. CASE ReloadsDone
    BY <1>26 DEF ReloadsDone, Post, Return, Captured, Steady, Writing, Idle
<1>27. CASE StartsDone
    BY <1>27 DEF StartsDone, Captured, Steady, Writing, Idle
<1>28. CASE RestartsDone
    BY <1>28 DEF RestartsDone, Post, Return, Captured, Steady, Writing, Idle
<1>29. ASSUME NEW m \in Members, Healthy(m) \/ HealthFails(m) PROVE Captured'
    BY <1>29 DEF Healthy, HealthFails, IsNext, Captured, Steady, Writing, Idle
<1>30. ASSUME NEW m \in Members, Exits(m) PROVE Captured'
    BY <1>30 DEF Exits, Captured, Steady, Writing, Idle
<1>31. ASSUME NEW m \in Members, StartsElsewhere(m) PROVE Captured'
    BY <1>31 DEF StartsElsewhere, StartOf, Captured, Steady, Writing, Idle
<1>32. ASSUME NEW f \in Files, EditSource(f) PROVE Captured'
    BY <1>32 DEF EditSource, Captured, Steady, Writing, Idle
<1>33. CASE UNCHANGED vars
    BY <1>33 DEF vars, Captured, Steady, Writing, Idle
<1> QED
    BY ChecksTouch, <1>1, <1>2, <1>3, <1>4, <1>5, <1>6, <1>7, <1>8, <1>9, <1>10, <1>11,
       <1>12, <1>13, <1>14, <1>15, <1>16, <1>17, <1>18, <1>19, <1>20, <1>21, <1>22, <1>23,
       <1>24, <1>25, <1>26, <1>27, <1>28, <1>29, <1>30, <1>31, <1>32, <1>33
       DEF Next, Run, PhaseStep, MemberStep, Lost, Gone

\* A write of one member's config or server.properties leaves the others alone.
LEMMA WriteMemberTouches ==
    ASSUME NEW m \in Members, HostTyped, WriteMember(m)
    PROVE  /\ conf'[m] \in {conf[m], source.conf}
           /\ \A k \in Members \ {m} : conf'[k] = conf[k]
  BY DEF WriteMember, HostTyped

LEMMA WritePropsTouches ==
    ASSUME NEW m \in Members, HostTyped, WriteProps(m)
    PROVE  /\ props'[m] \in {props[m], source.pack}
           /\ \A k \in Members \ {m} : props'[k] = props[k]
  BY DEF WriteProps, HostTyped

\* Every step keeps what the plan covers.
LEMMA PlannedStep ==
    ASSUME RunTyped, SetsTyped, HostTyped, Planned, [Next]_vars PROVE Planned'
<1> USE DEF hostVars, planVars, captured, chosen, noticeVars, hookVars, reloadVars,
   reportVars, histVars
<1>1. ASSUME NEW q \in Requests, Begin(q) PROVE Planned'
    BY <1>1, PartTyped DEF Begin, NoRun, Idle, Goes, ValidRequest, Planned, Writing, Idle
<1>2. CASE Forget
    BY <1>2, PartTyped DEF Forget, Planned, Writing, Idle
<1>3. CASE Checks /\ Refuse
    BY <1>3, ChecksTouch, PartTyped DEF Checks, Refuse, Return, Planned, Writing, Idle
<1>4. CASE Checks /\ Load
    BY <1>4, ChecksTouch, PartTyped DEF Load, Goes, Planned, Writing, Idle
<1>5. ASSUME NEW m \in Members, Checks, Inspect(m) PROVE Planned'
    BY <1>5, ChecksTouch, PartTyped DEF Inspect, Goes, IsNext, Planned, Writing, Idle
<1>6. CASE Checks /\ Settle
    BY <1>6, ChecksTouch, PartTyped DEF Settle, Settled, Goes, Planned, Writing, Idle
<1>7. CASE Checks /\ Plan
  <2>1. /\ restartSet' = {m \in run.part : EffectiveAction(m, run) = "restart"}
        /\ reloadSet' = {m \in run.part : EffectiveAction(m, run) = "reload"}
        /\ pc' = "rcon"
        /\ UNCHANGED <<run, mods, conf, props, source>>
    BY <1>7, ChecksTouch DEF Plan, Goes
  <2>2. restartSet' \cup reloadSet' # {} => NeedsLifecycle(run)
    BY <2>1, Effective
  <2>3. "server" \in run.scopes /\ ~run.targeted /\ mods # source.mods => restartSet' = run.part
    BY <2>1, Effective
  <2>4. ASSUME NEW m \in run.part
        PROVE  /\ "resource_pack" \in run.scopes /\ props[m] # source.pack => m \in restartSet'
               /\ "server" \in run.scopes /\ conf[m] # source.conf /\ ConfAction # "none"
                    => m \in restartSet' \cup reloadSet'
    BY <2>1, <2>4, Effective
  <2>5. NeedsLifecycle(run)' = NeedsLifecycle(run)
    BY <2>1 DEF NeedsLifecycle
  <2> QED BY <2>1, <2>2, <2>3, <2>4, <2>5 DEF Planned, Writing
<1>8. CASE Checks /\ Ready
    BY <1>8, ChecksTouch, PartTyped DEF Ready, Goes, Planned, Writing, Idle
<1>9. CASE DryRun
    BY <1>9, PartTyped DEF DryRun, Post, Return, Planned, Writing, Idle
<1>10. CASE Prepare
    BY <1>10, PartTyped DEF Prepare, Connects, Goes, Planned, Writing, Idle
<1>11. CASE Reinspect
    BY <1>11, PartTyped DEF Reinspect, Planned, Writing, Idle
<1>12. ASSUME NEW m \in Members, Warn(m) \/ WarnFails(m) PROVE Planned'
    BY <1>12, PartTyped DEF Warn, WarnFails, IsNext, Answers, Planned, Writing, Idle
<1>13. ASSUME NEW m \in Members, WarnAborts(m) PROVE Planned'
    BY <1>13, PartTyped DEF WarnAborts, IsNext, Return, Planned, Writing, Idle
<1>14. CASE StopInspect
    BY <1>14, PartTyped DEF StopInspect, Planned, Writing, Idle
<1>15. ASSUME NEW m \in Members, Stop(m) \/ ExitedBeforeStop(m) \/ StopFails(m) PROVE Planned'
    BY <1>15, PartTyped DEF Stop, ExitedBeforeStop, StopFails, IsNext, Planned, Writing,
       Idle
<1>16. CASE StopsDone
    BY <1>16, PartTyped DEF StopsDone, Planned, Writing, Idle
<1>17. ASSUME NEW m \in Members, Start(m) \/ StartFails(m) PROVE Planned'
    BY <1>17, PartTyped DEF Start, StartFails, StartOf, IsNext, Planned, Writing, Idle
<1>18. CASE Recovered
    BY <1>18, PartTyped DEF Recovered, Post, Return, Planned, Writing, Idle
<1>19. CASE BeginWrites \/ ServerScopeDone \/ ResourcePackScopeDone
    BY <1>19, Phases, PartTyped DEF BeginWrites, ServerScopeDone, ResourcePackScopeDone,
       Goto, Planned, Writing, Idle
<1>20. CASE WriteMods
    BY <1>20, PartTyped DEF WriteMods, Goto, WriteFailure, Post, Return, Planned, Writing,
       Idle
<1>21. ASSUME NEW m \in Members, WriteMember(m) PROVE Planned'
    BY <1>21, PartTyped, WriteMemberTouches DEF WriteMember, IsNext, WriteFailure, Post,
       Return, Planned, Writing, Idle
<1>22. CASE ClientScope
    BY <1>22, Phases, PartTyped DEF ClientScope, Goto, WriteFailure, Post, Return,
       Planned, Writing, Idle
<1>23. CASE PublishPack
    BY <1>23, PartTyped DEF PublishPack, Goto, WriteFailure, Post, Return, Planned,
       Writing, Idle
<1>24. ASSUME NEW m \in Members, WriteProps(m) PROVE Planned'
    BY <1>24, PartTyped, WritePropsTouches DEF WriteProps, IsNext, WriteFailure, Post,
       Return, Planned, Writing, Idle
<1>25. ASSUME NEW m \in Members, Reload(m) \/ ReloadFails(m) PROVE Planned'
    BY <1>25, PartTyped DEF Reload, ReloadFails, IsNext, Planned, Writing, Idle
<1>26. CASE ReloadsDone
    BY <1>26, PartTyped DEF ReloadsDone, Post, Return, Planned, Writing, Idle
<1>27. CASE StartsDone
    BY <1>27, PartTyped DEF StartsDone, Planned, Writing, Idle
<1>28. CASE RestartsDone
    BY <1>28, PartTyped DEF RestartsDone, Post, Return, Planned, Writing, Idle
<1>29. ASSUME NEW m \in Members, Healthy(m) \/ HealthFails(m) PROVE Planned'
    BY <1>29, PartTyped DEF Healthy, HealthFails, IsNext, Planned, Writing, Idle
<1>30. ASSUME NEW m \in Members, Exits(m) PROVE Planned'
    BY <1>30, PartTyped DEF Exits, Planned, Writing, Idle
<1>31. ASSUME NEW m \in Members, StartsElsewhere(m) PROVE Planned'
    BY <1>31, PartTyped DEF StartsElsewhere, StartOf, Planned, Writing, Idle
<1>32. ASSUME NEW f \in Files, EditSource(f) PROVE Planned'
    BY <1>32, PartTyped DEF EditSource, Planned, Writing, Idle, NoRun
<1>33. CASE UNCHANGED vars
    BY <1>33, PartTyped DEF vars, Planned, Writing, Idle
<1> QED
    BY ChecksTouch, <1>1, <1>2, <1>3, <1>4, <1>5, <1>6, <1>7, <1>8, <1>9, <1>10, <1>11,
       <1>12, <1>13, <1>14, <1>15, <1>16, <1>17, <1>18, <1>19, <1>20, <1>21, <1>22, <1>23,
       <1>24, <1>25, <1>26, <1>27, <1>28, <1>29, <1>30, <1>31, <1>32, <1>33
       DEF Next, Run, PhaseStep, MemberStep, Lost, Gone

\* The transport of a member depends on its container alone.
LEMMA TransportSame ==
    ASSUME published' = published, NEW m, m \in up <=> m \in up'
    PROVE  TransportOf(m)' = TransportOf(m)
  BY DEF TransportOf, Published

\* Every step keeps who is warned and stopped.
LEMMA WarnedStep ==
    ASSUME RunTyped, SetsTyped, HostTyped, Staged, Captured, Planned, Warned, [Next]_vars PROVE Warned'
<1> USE DEF hostVars, planVars, captured, chosen, noticeVars, hookVars, reloadVars,
   reportVars, histVars
<1>1. ASSUME NEW q \in Requests, Begin(q) PROVE Warned'
    BY <1>1 DEF Begin, NoRun, Idle, Goes, ValidRequest, Warned, NoticesCanArrive, Steady,
       Writing, Idle
<1>2. CASE Forget
    BY <1>2 DEF Forget, Warned, NoticesCanArrive, Steady, Writing, Idle
<1>3. CASE Checks /\ Refuse
    BY <1>3, ChecksTouch DEF Checks, Refuse, Return, Warned, NoticesCanArrive, Steady,
       Writing, Idle, Staged, Fresh, Early
<1>4. CASE Checks /\ Load
    BY <1>4, ChecksTouch DEF Load, Goes, Warned, NoticesCanArrive, Steady, Writing, Idle
<1>5. ASSUME NEW m \in Members, Checks, Inspect(m) PROVE Warned'
    BY <1>5, ChecksTouch DEF Inspect, Goes, IsNext, Warned, NoticesCanArrive, Steady,
       Writing, Idle
<1>6. CASE Checks /\ Settle
    BY <1>6, ChecksTouch DEF Settle, Settled, Goes, Warned, NoticesCanArrive, Steady,
       Writing, Idle
<1>7. CASE Checks /\ Plan
    BY <1>7, ChecksTouch DEF Plan, Goes, Warned, NoticesCanArrive, Steady, Writing, Idle
<1>8. CASE Checks /\ Ready
  <2>1. pc = "rcon" /\ pc' = "ready" /\ (run.dry \/ Unreachable = {})
    BY <1>8 DEF Ready, Goes
  <2>2. ~run.dry => \A m \in restartSet \cap seen : TransportOf(m) # "none"
    BY <2>1 DEF Unreachable
  <2>3. \A m : TransportOf(m)' = TransportOf(m)
    BY <1>8, ChecksTouch, TransportSame
  <2> QED BY <1>8, <2>1, <2>2, <2>3, ChecksTouch DEF Ready, Warned, NoticesCanArrive, Steady, Writing
<1>9. CASE DryRun
    BY <1>9 DEF DryRun, Post, Return, Warned, NoticesCanArrive, Steady, Writing, Idle
<1>10. CASE Prepare
  <2>1. /\ pc = "ready" /\ ~run.dry /\ pc' \in {"write", "notice"}
        /\ pc' = "write" => restartSet = {}
        /\ UNCHANGED <<up, outsiders, run, seen, restartSet, warned, stopped, stopFailed, promised>>
        /\ transport' = [m \in Members |-> TransportOf(m)]
    BY <1>10 DEF Prepare, Connects, Goes
  <2>2. warned = {} /\ stopped = {} /\ stopFailed = {} /\ promised = {}
    BY <2>1 DEF Staged, Fresh, Early
  <2>3. \A m \in (restartSet \cap seen) \cap Steady : transport'[m] # "none"
    BY <2>1 DEF Warned, SetsTyped
  <2> QED BY <2>1, <2>2, <2>3 DEF Warned, NoticesCanArrive, Steady, Writing
<1>11. CASE Reinspect
  <2>1. /\ pc = "notice" /\ pc' = "warn" /\ warned' = (restartSet \cap seen) \cap up /\ todo' = warned'
        /\ UNCHANGED <<up, outsiders, run, seen, restartSet, stopped, stopFailed, promised, transport>>
    BY <1>11 DEF Reinspect
  <2>2. stopped = {} /\ stopFailed = {} /\ promised = {}
    BY <2>1 DEF Staged, Fresh, Early
  <2>3. restartSet \subseteq run.part /\ (restartSet # {} => Steady \subseteq seen)
    BY <2>1 DEF Planned, Captured
  <2>4. Steady' = Steady /\ restartSet \cap Steady \subseteq warned'
    BY <2>1, <2>3 DEF Steady
  <2>5. \A m \in warned' \ outsiders : m \in (restartSet \cap seen) \cap Steady
    BY <2>1, <2>3 DEF Steady
  <2>6. NoticesCanArrive'
    BY <2>1, <2>5 DEF Warned, NoticesCanArrive
  <2> QED BY <2>1, <2>2, <2>4, <2>6 DEF Warned, Writing
<1>12. ASSUME NEW m \in Members, Warn(m) \/ WarnFails(m) PROVE Warned'
    BY <1>12 DEF Warn, WarnFails, IsNext, Answers, Warned, NoticesCanArrive, Steady,
       Writing, Idle
<1>13. ASSUME NEW m \in Members, WarnAborts(m) PROVE Warned'
    BY <1>13 DEF WarnAborts, IsNext, Return, Warned, NoticesCanArrive, Steady, Writing,
       Idle
<1>14. CASE StopInspect
    BY <1>14 DEF StopInspect, Warned, NoticesCanArrive, Steady, Writing, Idle
<1>15. ASSUME NEW m \in Members, Stop(m) \/ ExitedBeforeStop(m) \/ StopFails(m) PROVE Warned'
    BY <1>15 DEF Stop, ExitedBeforeStop, StopFails, IsNext, Warned, NoticesCanArrive,
       Steady, Writing, Idle
<1>16. CASE StopsDone
    BY <1>16 DEF StopsDone, Warned, NoticesCanArrive, Steady, Writing, Idle
<1>17. ASSUME NEW m \in Members, Start(m) \/ StartFails(m) PROVE Warned'
    BY <1>17 DEF Start, StartFails, StartOf, IsNext, Warned, NoticesCanArrive, Steady,
       Writing, Idle
<1>18. CASE Recovered
    BY <1>18 DEF Recovered, Post, Return, Warned, NoticesCanArrive, Steady, Writing, Idle
<1>19. CASE BeginWrites \/ ServerScopeDone \/ ResourcePackScopeDone
    BY <1>19, Phases DEF BeginWrites, ServerScopeDone, ResourcePackScopeDone, Goto,
       Warned, NoticesCanArrive, Steady, Writing, Idle
<1>20. CASE WriteMods
    BY <1>20 DEF WriteMods, Goto, WriteFailure, Post, Return, Warned, NoticesCanArrive,
       Steady, Writing, Idle
<1>21. ASSUME NEW m \in Members, WriteMember(m) PROVE Warned'
    BY <1>21 DEF WriteMember, IsNext, WriteFailure, Post, Return, Warned,
       NoticesCanArrive, Steady, Writing, Idle
<1>22. CASE ClientScope
    BY <1>22, Phases DEF ClientScope, Goto, WriteFailure, Post, Return, Warned,
       NoticesCanArrive, Steady, Writing, Idle
<1>23. CASE PublishPack
    BY <1>23 DEF PublishPack, Goto, WriteFailure, Post, Return, Warned, NoticesCanArrive,
       Steady, Writing, Idle
<1>24. ASSUME NEW m \in Members, WriteProps(m) PROVE Warned'
    BY <1>24 DEF WriteProps, IsNext, WriteFailure, Post, Return, Warned, NoticesCanArrive,
       Steady, Writing, Idle
<1>25. ASSUME NEW m \in Members, Reload(m) \/ ReloadFails(m) PROVE Warned'
    BY <1>25 DEF Reload, ReloadFails, IsNext, Warned, NoticesCanArrive, Steady, Writing,
       Idle
<1>26. CASE ReloadsDone
    BY <1>26 DEF ReloadsDone, Post, Return, Warned, NoticesCanArrive, Steady, Writing,
       Idle
<1>27. CASE StartsDone
    BY <1>27 DEF StartsDone, Warned, NoticesCanArrive, Steady, Writing, Idle
<1>28. CASE RestartsDone
    BY <1>28 DEF RestartsDone, Post, Return, Warned, NoticesCanArrive, Steady, Writing,
       Idle
<1>29. ASSUME NEW m \in Members, Healthy(m) \/ HealthFails(m) PROVE Warned'
    BY <1>29 DEF Healthy, HealthFails, IsNext, Warned, NoticesCanArrive, Steady, Writing,
       Idle
<1>30. ASSUME NEW m \in Members, Exits(m) PROVE Warned'
  <2>1. \A k \in up : k \in up' => TransportOf(k)' = TransportOf(k)
    BY <1>30, TransportSame DEF Exits
  <2> QED BY <1>30, <2>1 DEF Exits, Warned, NoticesCanArrive, Steady, Writing, Idle
<1>31. ASSUME NEW m \in Members, StartsElsewhere(m) PROVE Warned'
  <2>1. /\ up \subseteq up' /\ UNCHANGED <<published, pc, todo, run, seen, restartSet, transport, warned,
                                       attempted, delivered, stopped, stopFailed, promised>>
        /\ Idle => NoRun
        /\ ~Idle => outsiders' = outsiders \cup {m} /\ up' = up \cup {m}
    BY <1>31 DEF StartsElsewhere, StartOf
  <2>2. CASE Idle
    <3>1. warned = {} /\ stopped = {} /\ stopFailed = {} /\ promised = {}
      BY <2>1, <2>2 DEF Staged, Fresh
    <3> QED BY <2>1, <2>2, <3>1 DEF Warned, NoticesCanArrive, Writing, Idle
  <2>3. CASE ~Idle
    <3>1. Steady' \subseteq Steady
      BY <2>1, <2>3 DEF Steady
    <3>2. \A k \in Steady' : TransportOf(k)' = TransportOf(k)
      BY <2>1, <2>3, TransportSame DEF Steady
    <3> QED BY <2>1, <2>3, <3>1, <3>2 DEF Warned, NoticesCanArrive, Writing
  <2> QED BY <2>2, <2>3
<1>32. ASSUME NEW f \in Files, EditSource(f) PROVE Warned'
  <2>1. Idle /\ pc' = pc /\ UNCHANGED <<run, warned, stopped, stopFailed, promised, restartSet, seen, outsiders, transport>>
    BY <1>32 DEF EditSource, NoRun
  <2> QED BY <2>1 DEF Warned, NoticesCanArrive, Writing, Idle
<1>33. CASE UNCHANGED vars
  <2>1. \A m \in up : m \in up' => TransportOf(m)' = TransportOf(m)
    BY <1>33, TransportSame DEF vars
  <2> QED BY <1>33, <2>1 DEF vars, Warned, NoticesCanArrive, Steady, Writing, Idle
<1> QED
    BY ChecksTouch, <1>1, <1>2, <1>3, <1>4, <1>5, <1>6, <1>7, <1>8, <1>9, <1>10, <1>11,
       <1>12, <1>13, <1>14, <1>15, <1>16, <1>17, <1>18, <1>19, <1>20, <1>21, <1>22, <1>23,
       <1>24, <1>25, <1>26, <1>27, <1>28, <1>29, <1>30, <1>31, <1>32, <1>33
       DEF Next, Run, PhaseStep, MemberStep, Lost, Gone

\* Every step keeps who still waits for an announced restart.
LEMMA PromisedStep ==
    ASSUME SetsTyped, HostTyped, Staged, Warned, Promised, [Next]_vars PROVE Promised'
<1> USE DEF hostVars, planVars, captured, chosen, noticeVars, hookVars, reloadVars,
   reportVars, histVars
<1>1. ASSUME NEW q \in Requests, Begin(q) PROVE Promised'
    BY <1>1 DEF Begin, NoRun, Idle, Goes, ValidRequest, Promised, PromisesKept, Ended,
       Writing, Idle
<1>2. CASE Forget
    BY <1>2 DEF Forget, Promised, PromisesKept, Ended, Writing, Idle
<1>3. CASE Checks /\ Refuse
    BY <1>3, ChecksTouch DEF Checks, Refuse, Return, Promised, PromisesKept, Ended,
       Writing, Idle
<1>4. CASE Checks /\ Load
    BY <1>4, ChecksTouch DEF Load, Goes, Promised, PromisesKept, Ended, Writing, Idle
<1>5. ASSUME NEW m \in Members, Checks, Inspect(m) PROVE Promised'
    BY <1>5, ChecksTouch DEF Inspect, Goes, IsNext, Promised, PromisesKept, Ended,
       Writing, Idle
<1>6. CASE Checks /\ Settle
    BY <1>6, ChecksTouch DEF Settle, Settled, Goes, Promised, PromisesKept, Ended,
       Writing, Idle
<1>7. CASE Checks /\ Plan
    BY <1>7, ChecksTouch DEF Plan, Goes, Promised, PromisesKept, Ended, Writing, Idle
<1>8. CASE Checks /\ Ready
    BY <1>8, ChecksTouch DEF Ready, Goes, Promised, PromisesKept, Ended, Writing, Idle
<1>9. CASE DryRun
    BY <1>9 DEF DryRun, Post, Return, Promised, PromisesKept, Ended, Writing, Idle,
       Staged, Fresh, Early
<1>10. CASE Prepare
    BY <1>10 DEF Prepare, Connects, Goes, Promised, PromisesKept, Ended, Writing, Idle,
       Staged, Fresh, Early
<1>11. CASE Reinspect
    BY <1>11 DEF Reinspect, Promised, PromisesKept, Ended, Writing, Idle
<1>12. ASSUME NEW m \in Members, Warn(m) \/ WarnFails(m) PROVE Promised'
    BY <1>12 DEF Warn, WarnFails, IsNext, Answers, Promised, PromisesKept, Ended, Writing,
       Idle
<1>13. ASSUME NEW m \in Members, WarnAborts(m) PROVE Promised'
    BY <1>13 DEF WarnAborts, IsNext, Return, Promised, PromisesKept, Ended, Writing, Idle
<1>14. CASE StopInspect
    BY <1>14 DEF StopInspect, Promised, PromisesKept, Ended, Writing, Idle, Warned
<1>15. ASSUME NEW m \in Members, Stop(m) \/ ExitedBeforeStop(m) \/ StopFails(m)
       PROVE  Promised'
    BY <1>15 DEF Stop, ExitedBeforeStop, StopFails, IsNext, Promised, PromisesKept, Ended,
       Writing, Idle
<1>16. CASE StopsDone
    BY <1>16 DEF StopsDone, Promised, PromisesKept, Ended, Writing, Idle
<1>17. ASSUME NEW m \in Members, Start(m) \/ StartFails(m) PROVE Promised'
    BY <1>17 DEF Start, StartFails, StartOf, IsNext, Promised, PromisesKept, Ended,
       Writing, Idle
<1>18. CASE Recovered
  <2>1. /\ promised' = promised \ CancelRecipients /\ promised \subseteq up
        /\ \A m \in promised : transport[m] # "none"
    BY <1>18 DEF Recovered, Promised
  <2>2. promised \subseteq warned \cap up
    BY <2>1 DEF Warned
  <2>3. promised' = {}
    BY <2>1, <2>2 DEF CancelRecipients, Answers
  <2> QED BY <1>18, <2>3 DEF Recovered, Return, Promised, PromisesKept, Writing
<1>19. CASE BeginWrites \/ ServerScopeDone \/ ResourcePackScopeDone
    BY <1>19, Phases DEF BeginWrites, ServerScopeDone, ResourcePackScopeDone, Goto,
       Promised, PromisesKept, Ended, Writing, Idle
<1>20. CASE WriteMods
    BY <1>20 DEF WriteMods, Goto, WriteFailure, Post, Return, Promised, PromisesKept,
       Ended, Writing, Idle
<1>21. ASSUME NEW m \in Members, WriteMember(m) PROVE Promised'
    BY <1>21 DEF WriteMember, IsNext, WriteFailure, Post, Return, Promised, PromisesKept,
       Ended, Writing, Idle
<1>22. CASE ClientScope
    BY <1>22, Phases DEF ClientScope, Goto, WriteFailure, Post, Return, Promised,
       PromisesKept, Ended, Writing, Idle
<1>23. CASE PublishPack
    BY <1>23 DEF PublishPack, Goto, WriteFailure, Post, Return, Promised, PromisesKept,
       Ended, Writing, Idle
<1>24. ASSUME NEW m \in Members, WriteProps(m) PROVE Promised'
    BY <1>24 DEF WriteProps, IsNext, WriteFailure, Post, Return, Promised, PromisesKept,
       Ended, Writing, Idle
<1>25. ASSUME NEW m \in Members, Reload(m) \/ ReloadFails(m) PROVE Promised'
    BY <1>25 DEF Reload, ReloadFails, IsNext, Promised, PromisesKept, Ended, Writing, Idle
<1>26. CASE ReloadsDone
    BY <1>26 DEF ReloadsDone, Post, Return, Promised, PromisesKept, Ended, Writing, Idle
<1>27. CASE StartsDone
    BY <1>27 DEF StartsDone, Promised, PromisesKept, Ended, Writing, Idle
<1>28. CASE RestartsDone
    BY <1>28 DEF RestartsDone, Post, Return, Promised, PromisesKept, Ended, Writing, Idle
<1>29. ASSUME NEW m \in Members, Healthy(m) \/ HealthFails(m) PROVE Promised'
    BY <1>29 DEF Healthy, HealthFails, IsNext, Promised, PromisesKept, Ended, Writing,
       Idle
<1>30. ASSUME NEW m \in Members, Exits(m) PROVE Promised'
    BY <1>30 DEF Exits, Promised, PromisesKept, Ended, Writing, Idle
<1>31. ASSUME NEW m \in Members, StartsElsewhere(m) PROVE Promised'
    BY <1>31 DEF StartsElsewhere, StartOf, Promised, PromisesKept, Ended, Writing, Idle
<1>32. ASSUME NEW f \in Files, EditSource(f) PROVE Promised'
    BY <1>32 DEF EditSource, Promised, PromisesKept, Ended, Writing, Idle
<1>33. CASE UNCHANGED vars
    BY <1>33 DEF vars, Promised, PromisesKept, Ended, Writing, Idle
<1> QED
    BY ChecksTouch, <1>1, <1>2, <1>3, <1>4, <1>5, <1>6, <1>7, <1>8, <1>9, <1>10, <1>11,
       <1>12, <1>13, <1>14, <1>15, <1>16, <1>17, <1>18, <1>19, <1>20, <1>21, <1>22, <1>23,
       <1>24, <1>25, <1>26, <1>27, <1>28, <1>29, <1>30, <1>31, <1>32, <1>33
       DEF Next, Run, PhaseStep, MemberStep, Lost, Gone

\* Every step keeps who has been started again.
LEMMA RestoredStep ==
    ASSUME Staged, Warned, Restored, [Next]_vars PROVE Restored'
<1> USE DEF hostVars, planVars, captured, chosen, noticeVars, hookVars, reloadVars,
   reportVars, histVars
<1>1. ASSUME NEW q \in Requests, Begin(q) PROVE Restored'
    BY <1>1 DEF Begin, NoRun, Idle, Goes, ValidRequest, Restored, Writing, FailedRunRestores, Idle
<1>2. CASE Forget
    BY <1>2 DEF Forget, Restored, Writing, FailedRunRestores, Idle
<1>3. CASE Checks /\ Refuse
    BY <1>3, ChecksTouch DEF Checks, Refuse, Return, Restored, Writing, FailedRunRestores, Idle
<1>4. CASE Checks /\ Load
    BY <1>4, ChecksTouch DEF Load, Goes, Restored, Writing, FailedRunRestores, Idle
<1>5. ASSUME NEW m \in Members, Checks, Inspect(m) PROVE Restored'
    BY <1>5, ChecksTouch DEF Inspect, Goes, IsNext, Restored, Writing, FailedRunRestores, Idle
<1>6. CASE Checks /\ Settle
    BY <1>6, ChecksTouch DEF Settle, Settled, Goes, Restored, Writing, FailedRunRestores, Idle
<1>7. CASE Checks /\ Plan
    BY <1>7, ChecksTouch DEF Plan, Goes, Restored, Writing, FailedRunRestores, Idle
<1>8. CASE Checks /\ Ready
    BY <1>8, ChecksTouch DEF Ready, Goes, Restored, Writing, FailedRunRestores, Idle
<1>9. CASE DryRun
    BY <1>9 DEF DryRun, Post, Return, Restored, Writing, FailedRunRestores, Idle
<1>10. CASE Prepare
    BY <1>10 DEF Prepare, Connects, Goes, Staged, Fresh, Early, Restored, Writing,
       FailedRunRestores, Idle
<1>11. CASE Reinspect
    BY <1>11 DEF Reinspect, Staged, Fresh, Early, Restored, Writing, FailedRunRestores, Idle
<1>12. ASSUME NEW m \in Members, Warn(m) \/ WarnFails(m) PROVE Restored'
    BY <1>12 DEF Warn, WarnFails, IsNext, Answers, Restored, Writing, FailedRunRestores, Idle
<1>13. ASSUME NEW m \in Members, WarnAborts(m) PROVE Restored'
    BY <1>13 DEF WarnAborts, IsNext, Return, Restored, Writing, FailedRunRestores, Idle, Warned
<1>14. CASE StopInspect
    BY <1>14 DEF StopInspect, Restored, Writing, FailedRunRestores, Idle
<1>15. ASSUME NEW m \in Members, Stop(m) \/ ExitedBeforeStop(m) \/ StopFails(m)
       PROVE  Restored'
    BY <1>15 DEF Stop, ExitedBeforeStop, StopFails, IsNext, Restored, Writing, FailedRunRestores,
       Idle
<1>16. CASE StopsDone
    BY <1>16 DEF StopsDone, Restored, Writing, FailedRunRestores, Idle
<1>17. ASSUME NEW m \in Members, Start(m) \/ StartFails(m) PROVE Restored'
    BY <1>17 DEF Start, StartFails, StartOf, IsNext, Restored, Writing, FailedRunRestores, Idle
<1>18. CASE Recovered
    BY <1>18 DEF Recovered, Post, Return, Staged, Restored, Writing, FailedRunRestores, Idle
<1>19. CASE BeginWrites \/ ServerScopeDone \/ ResourcePackScopeDone
    BY <1>19, Phases DEF BeginWrites, ServerScopeDone, ResourcePackScopeDone, Goto,
       Restored, Writing, FailedRunRestores, Idle
<1>20. CASE WriteMods
    BY <1>20 DEF WriteMods, Goto, WriteFailure, Post, Return, Restored, Writing, FailedRunRestores,
       Idle
<1>21. ASSUME NEW m \in Members, WriteMember(m) PROVE Restored'
    BY <1>21 DEF WriteMember, IsNext, WriteFailure, Post, Return, Restored,
       Writing, FailedRunRestores, Idle
<1>22. CASE ClientScope
    BY <1>22, Phases DEF ClientScope, Goto, WriteFailure, Post, Return, Restored,
       Writing, FailedRunRestores, Idle
<1>23. CASE PublishPack
    BY <1>23 DEF PublishPack, Goto, WriteFailure, Post, Return, Restored,
       Writing, FailedRunRestores, Idle
<1>24. ASSUME NEW m \in Members, WriteProps(m) PROVE Restored'
    BY <1>24 DEF WriteProps, IsNext, WriteFailure, Post, Return, Restored,
       Writing, FailedRunRestores, Idle
<1>25. ASSUME NEW m \in Members, Reload(m) \/ ReloadFails(m) PROVE Restored'
    BY <1>25 DEF Reload, ReloadFails, IsNext, Restored, Writing, FailedRunRestores, Idle
<1>26. CASE ReloadsDone
    BY <1>26 DEF ReloadsDone, Post, Return, Restored, Writing, FailedRunRestores, Idle
<1>27. CASE StartsDone
    BY <1>27 DEF StartsDone, Restored, Writing, FailedRunRestores, Idle
<1>28. CASE RestartsDone
    BY <1>28 DEF RestartsDone, Post, Return, Restored, Writing, FailedRunRestores, Idle
<1>29. ASSUME NEW m \in Members, Healthy(m) \/ HealthFails(m) PROVE Restored'
    BY <1>29 DEF Healthy, HealthFails, IsNext, Restored, Writing, FailedRunRestores, Idle
<1>30. ASSUME NEW m \in Members, Exits(m) PROVE Restored'
    BY <1>30 DEF Exits, Restored, Writing, FailedRunRestores, Idle
<1>31. ASSUME NEW m \in Members, StartsElsewhere(m) PROVE Restored'
    BY <1>31 DEF StartsElsewhere, StartOf, NoRun, Restored, Writing, FailedRunRestores, Idle
<1>32. ASSUME NEW f \in Files, EditSource(f) PROVE Restored'
    BY <1>32 DEF EditSource, Restored, Writing, FailedRunRestores, Idle
<1>33. CASE UNCHANGED vars
    BY <1>33 DEF vars, Restored, Writing, FailedRunRestores, Idle
<1> QED
    BY ChecksTouch, <1>1, <1>2, <1>3, <1>4, <1>5, <1>6, <1>7, <1>8, <1>9, <1>10, <1>11,
       <1>12, <1>13, <1>14, <1>15, <1>16, <1>17, <1>18, <1>19, <1>20, <1>21, <1>22, <1>23,
       <1>24, <1>25, <1>26, <1>27, <1>28, <1>29, <1>30, <1>31, <1>32, <1>33
       DEF Next, Run, PhaseStep, MemberStep, Lost, Gone

\* A server is current exactly when it has loaded what is on its disk.
LEMMA CurrentIs ==
    ASSUME HostTyped, NEW m \in Members PROVE Current(m) <=> loaded[m] = OnDisk(m)
  BY DEF HostTyped, LoadedType, Current, Loads, OnDisk

\* The servers that still run while files are written are not to restart, so that only a
\* config that is to be reloaded can change under them.
LEMMA WritesAreSafe ==
    ASSUME RunTyped, Captured, Planned, Warned, pc \in Writing,
           NEW m \in (run.part \cap up) \ outsiders
    PROVE  /\ "resource_pack" \in run.scopes => props[m] = source.pack
           /\ "server" \in run.scopes /\ ~run.targeted => mods = source.mods
           /\ "server" \in run.scopes /\ conf[m] # source.conf /\ ConfAction # "none"
                => m \in reloadSet \cap seen
  <1>1. m \in Steady /\ m \notin restartSet
    BY DEF Warned, Steady
  <1>2. NeedsLifecycle(run) => m \in seen
    BY <1>1 DEF Captured
  <1> QED BY <1>1, <1>2 DEF Planned, Writing

\* A container that is started loads what is on its disk; one that runs keeps what it has.
LEMMA StartLoads ==
    ASSUME HostTyped, NEW m \in Members, StartOf(m), UNCHANGED <<mods, conf, props>>
    PROVE  /\ up' = up \cup {m}
           /\ \A k \in Members \cap up : (Current(k)' <=> Current(k)) /\ (Loads(k)' <=> Loads(k))
           /\ \A k \in up' \ up : Current(k)'
  <1>1. /\ \A k \in Members \cap up : loaded'[k] = loaded[k]
        /\ m \notin up => loaded'[m] = OnDisk(m)
    BY DEF HostTyped, LoadedType, StartOf
  <1>2. \A k \in up' \ up : k = m /\ m \notin up
    BY DEF StartOf
  <1>3. OnDisk(m).mods = mods /\ OnDisk(m).conf = conf[m] /\ OnDisk(m).props = props[m]
    BY DEF OnDisk
  <1>4. up' = up \cup {m}
    BY DEF StartOf
  <1>5. \A k \in Members \cap up : (Current(k)' <=> Current(k)) /\ (Loads(k)' <=> Loads(k))
    BY <1>1 DEF Current, Loads
  <1>6. \A k \in up' \ up : Current(k)'
    BY <1>1, <1>2, <1>3 DEF Current, Loads
  <1> QED BY <1>4, <1>5, <1>6

\* Every step keeps what the servers that run have loaded.
LEMMA ServedStep ==
    ASSUME ConfAction # "none", RunTyped, SetsTyped, HostTyped, Captured, Planned, Warned, Served, [Next]_vars PROVE Served'
<1> USE DEF hostVars, planVars, captured, chosen, noticeVars, hookVars, reloadVars,
   reportVars, histVars
<1>1. ASSUME NEW q \in Requests, Begin(q) PROVE Served'
    BY <1>1 DEF Begin, NoRun, Idle, Goes, ValidRequest, Served, Current, Loads, Writing,
       Idle
<1>2. CASE Forget
    BY <1>2 DEF Forget, Served, Current, Loads, Writing, Idle
<1>3. CASE Checks /\ Refuse
    BY <1>3, ChecksTouch DEF Checks, Refuse, Return, Served, Current, Loads, Writing, Idle
<1>4. CASE Checks /\ Load
    BY <1>4, ChecksTouch DEF Load, Goes, Served, Current, Loads, Writing, Idle
<1>5. ASSUME NEW m \in Members, Checks, Inspect(m) PROVE Served'
    BY <1>5, ChecksTouch DEF Inspect, Goes, IsNext, Served, Current, Loads, Writing, Idle
<1>6. CASE Checks /\ Settle
    BY <1>6, ChecksTouch DEF Settle, Settled, Goes, Served, Current, Loads, Writing, Idle
<1>7. CASE Checks /\ Plan
    BY <1>7, ChecksTouch DEF Plan, Goes, Served, Current, Loads, Writing, Idle
<1>8. CASE Checks /\ Ready
    BY <1>8, ChecksTouch DEF Ready, Goes, Served, Current, Loads, Writing, Idle
<1>9. CASE DryRun
    BY <1>9 DEF DryRun, Post, Return, Served, Current, Loads, Writing, Idle
<1>10. CASE Prepare
  <2>1. /\ lagging' = {m \in Members : loaded[m] # OnDisk(m)} /\ pc' \in {"write", "notice"}
        /\ UNCHANGED <<up, outsiders, mods, conf, props, loaded>>
    BY <1>10 DEF Prepare, Goes
  <2>2. \A m \in up \ lagging' : Current(m)
    BY <2>1, CurrentIs DEF SetsTyped
  <2> QED BY <2>1, <2>2 DEF Served, Current, Loads, Writing, Idle
<1>11. CASE Reinspect
    BY <1>11 DEF Reinspect, Served, Current, Loads, Writing, Idle
<1>12. ASSUME NEW m \in Members, Warn(m) \/ WarnFails(m) PROVE Served'
    BY <1>12 DEF Warn, WarnFails, IsNext, Answers, Served, Current, Loads, Writing, Idle
<1>13. ASSUME NEW m \in Members, WarnAborts(m) PROVE Served'
    BY <1>13 DEF WarnAborts, IsNext, Return, Served, Current, Loads, Writing, Idle
<1>14. CASE StopInspect
    BY <1>14 DEF StopInspect, Served, Current, Loads, Writing, Idle
<1>15. ASSUME NEW m \in Members, Stop(m) \/ ExitedBeforeStop(m) \/ StopFails(m) PROVE Served'
    BY <1>15 DEF Stop, ExitedBeforeStop, StopFails, IsNext, Served, Current, Loads,
       Writing, Idle
<1>16. CASE StopsDone
    BY <1>16 DEF StopsDone, Served, Current, Loads, Writing, Idle
<1>17. ASSUME NEW m \in Members, Start(m) \/ StartFails(m) PROVE Served'
  <2>1. CASE Start(m)
    <3>1. /\ pc' = pc /\ pc \in {"recover", "start"} /\ StartOf(m)
          /\ UNCHANGED <<lagging, outsiders, mods, conf, props, reloadSet, seen, exit, run>>
      BY <2>1 DEF Start
    <3>2. \A k \in (up \ lagging) \ outsiders : pc = "start" => Current(k)
      BY DEF Served
    <3>3. up \subseteq Members
      BY DEF SetsTyped
    <3>4. \A k \in (up' \ lagging) \ outsiders : pc = "start" => Current(k)'
      BY <3>1, <3>2, <3>3, StartLoads
    <3> QED BY <3>1, <3>4 DEF Served, Writing, Idle
  <2>2. CASE StartFails(m)
    BY <2>2 DEF StartFails, Served, Current, Loads, Writing, Idle
  <2> QED BY <1>17, <2>1, <2>2
<1>18. CASE Recovered
    BY <1>18 DEF Recovered, Post, Return, Served, Current, Loads, Writing, Idle
<1>19. CASE BeginWrites \/ ServerScopeDone \/ ResourcePackScopeDone
    BY <1>19, Phases DEF BeginWrites, ServerScopeDone, ResourcePackScopeDone, Goto,
       Served, Current, Loads, Writing, Idle
<1>20. CASE WriteMods
  <2>1. /\ pc = "mods" /\ mods' \in {mods, source.mods}
        /\ pc' \in {"members", "recover"} \/ (pc' = "idle" /\ exit' = "1")
        /\ UNCHANGED <<up, lagging, outsiders, conf, props, loaded, reloadSet, seen>>
    BY <1>20 DEF WriteMods, Goto, WriteFailure, Return

  <2>2. \A k \in (run.part \cap up) \ outsiders :
          /\ "resource_pack" \in run.scopes => props[k] = source.pack
          /\ "server" \in run.scopes /\ ~run.targeted => mods = source.mods
          /\ "server" \in run.scopes /\ conf[k] # source.conf => k \in reloadSet \cap seen
    BY <2>1, WritesAreSafe DEF Writing

  <2>3. run.part = Members /\ "server" \in run.scopes /\ ~run.targeted
    BY <2>1 DEF Planned, Writing, RunTyped
  <2>4. \A k \in (up \ lagging) \ outsiders : mods' = mods
    BY <2>1, <2>2, <2>3 DEF SetsTyped
  <2>5. \A k \in (up \ lagging) \ outsiders : Current(k) \/ (Loads(k) /\ k \in reloadSet \cap seen)
    BY <2>1 DEF Served, Writing
  <2> QED BY <2>1, <2>4, <2>5 DEF Served, Current, Loads, Writing, Idle
<1>21. ASSUME NEW m \in Members, WriteMember(m) PROVE Served'
  <2>1. /\ pc = "members" /\ m \in todo
        /\ pc' \in {"members", "recover"} \/ (pc' = "idle" /\ exit' = "1")
        /\ UNCHANGED <<up, lagging, outsiders, mods, props, loaded, reloadSet, seen>>
    BY <1>21 DEF WriteMember, IsNext, WriteFailure, Return

  <2>2. \A k \in (run.part \cap up) \ outsiders :
          /\ "resource_pack" \in run.scopes => props[k] = source.pack
          /\ "server" \in run.scopes /\ ~run.targeted => mods = source.mods
          /\ "server" \in run.scopes /\ conf[k] # source.conf => k \in reloadSet \cap seen
    BY <2>1, WritesAreSafe DEF Writing

  <2>3. m \in run.part /\ "server" \in run.scopes
    BY <2>1 DEF Planned, Writing
  <2>4. \A k \in (up \ lagging) \ outsiders : conf'[k] = conf[k] \/ k \in reloadSet \cap seen
    BY <1>21, <2>1, <2>2, <2>3, WriteMemberTouches DEF SetsTyped
  <2>5. \A k \in (up \ lagging) \ outsiders : Current(k) \/ (Loads(k) /\ k \in reloadSet \cap seen)
    BY <2>1 DEF Served, Writing
  <2> QED BY <2>1, <2>4, <2>5 DEF Served, Current, Loads, Writing, Idle
<1>22. CASE ClientScope
    BY <1>22, Phases DEF ClientScope, Goto, WriteFailure, Post, Return, Served, Current,
       Loads, Writing, Idle
<1>23. CASE PublishPack
    BY <1>23 DEF PublishPack, Goto, WriteFailure, Post, Return, Served, Current, Loads,
       Writing, Idle
<1>24. ASSUME NEW m \in Members, WriteProps(m) PROVE Served'
  <2>1. /\ pc = "props" /\ m \in todo
        /\ pc' \in {"props", "recover"} \/ (pc' = "idle" /\ exit' = "1")
        /\ UNCHANGED <<up, lagging, outsiders, mods, conf, loaded, reloadSet, seen>>
    BY <1>24 DEF WriteProps, IsNext, WriteFailure, Return

  <2>2. \A k \in (run.part \cap up) \ outsiders :
          /\ "resource_pack" \in run.scopes => props[k] = source.pack
          /\ "server" \in run.scopes /\ ~run.targeted => mods = source.mods
          /\ "server" \in run.scopes /\ conf[k] # source.conf => k \in reloadSet \cap seen
    BY <2>1, WritesAreSafe DEF Writing

  <2>3. m \in run.part /\ "resource_pack" \in run.scopes
    BY <2>1 DEF Planned, Writing
  <2>4. \A k \in (up \ lagging) \ outsiders : props'[k] = props[k]
    BY <1>24, <2>1, <2>2, <2>3, WritePropsTouches DEF SetsTyped
  <2>5. \A k \in (up \ lagging) \ outsiders : Current(k) \/ (Loads(k) /\ k \in reloadSet \cap seen)
    BY <2>1 DEF Served, Writing
  <2> QED BY <2>1, <2>4, <2>5 DEF Served, Current, Loads, Writing, Idle
<1>25. ASSUME NEW m \in Members, Reload(m) \/ ReloadFails(m) PROVE Served'
  <2>1. CASE Reload(m)
    <3>1. /\ pc = "reload" /\ pc' = pc /\ todo' = todo \ {m}
          /\ loaded' = [loaded EXCEPT ![m].conf = conf[m]]
          /\ UNCHANGED <<up, lagging, outsiders, mods, conf, props, reloadFailed>>
      BY <2>1 DEF Reload
    <3>2. \A k \in (up \ lagging) \ outsiders : Current(k) \/ (Loads(k) /\ k \in todo \cup reloadFailed)
      BY <3>1 DEF Served
    <3>3. up \subseteq Members
      BY DEF SetsTyped
    <3>4. /\ loaded'[m].conf = conf[m]
          /\ loaded'[m].mods = loaded[m].mods /\ loaded'[m].props = loaded[m].props
          /\ \A k \in Members \ {m} : loaded'[k] = loaded[k]
      BY <3>1, ReloadTyped
    <3>5. \A k \in (up \ lagging) \ outsiders :
            Current(k)' \/ (Loads(k)' /\ k \in todo' \cup reloadFailed)
      BY <3>1, <3>2, <3>3, <3>4 DEF Current, Loads
    <3> QED BY <3>1, <3>5 DEF Served, Writing, Idle
  <2>2. CASE ReloadFails(m)
    BY <2>2 DEF ReloadFails, Served, Current, Loads, Writing, Idle
  <2> QED BY <1>25, <2>1, <2>2
<1>26. CASE ReloadsDone
    BY <1>26 DEF ReloadsDone, Post, Return, Served, Current, Loads, Writing, Idle
<1>27. CASE StartsDone
    BY <1>27 DEF StartsDone, Served, Current, Loads, Writing, Idle
<1>28. CASE RestartsDone
    BY <1>28 DEF RestartsDone, Post, Return, Served, Current, Loads, Writing, Idle
<1>29. ASSUME NEW m \in Members, Healthy(m) \/ HealthFails(m) PROVE Served'
    BY <1>29 DEF Healthy, HealthFails, IsNext, Served, Current, Loads, Writing, Idle
<1>30. ASSUME NEW m \in Members, Exits(m) PROVE Served'
    BY <1>30 DEF Exits, Served, Current, Loads, Writing, Idle, NoRun
<1>31. ASSUME NEW m \in Members, StartsElsewhere(m) PROVE Served'
  <2>1. /\ UNCHANGED <<pc, todo, run, exit, lagging, mods, conf, props, reloadSet, seen, reloadFailed>>
        /\ (Idle => NoRun) /\ (~Idle => outsiders' = outsiders \cup {m}) /\ StartOf(m)
    BY <1>31 DEF StartsElsewhere
  <2>2. CASE Idle
    BY <2>1, <2>2 DEF NoRun, Idle, Served, Writing
  <2>3. CASE ~Idle
    <3>1. up \subseteq Members
      BY DEF SetsTyped
    <3>2. (up' \ lagging) \ outsiders' \subseteq (up \ lagging) \ outsiders
      BY <2>1, <2>3 DEF StartOf
    <3>3. \A k \in (up' \ lagging) \ outsiders' :
            (Current(k)' <=> Current(k)) /\ (Loads(k)' <=> Loads(k))
      BY <2>1, <3>1, <3>2, StartLoads
    <3> QED BY <2>1, <2>3, <3>2, <3>3 DEF Served, Writing, Idle
  <2> QED BY <2>2, <2>3
<1>32. ASSUME NEW f \in Files, EditSource(f) PROVE Served'
    BY <1>32 DEF EditSource, Served, Current, Loads, Writing, Idle
<1>33. CASE UNCHANGED vars
    BY <1>33 DEF vars, Served, Current, Loads, Writing, Idle
<1> QED
    BY ChecksTouch, <1>1, <1>2, <1>3, <1>4, <1>5, <1>6, <1>7, <1>8, <1>9, <1>10, <1>11,
       <1>12, <1>13, <1>14, <1>15, <1>16, <1>17, <1>18, <1>19, <1>20, <1>21, <1>22, <1>23,
       <1>24, <1>25, <1>26, <1>27, <1>28, <1>29, <1>30, <1>31, <1>32, <1>33
       DEF Next, Run, PhaseStep, MemberStep, Lost, Gone

\* An element appended to a sequence of one is its second.
LEMMA AppendTwo ==
    ASSUME NEW S, NEW s \in Seq(S), NEW k \in S, Len(s) = 1
    PROVE  /\ Append(s, k) \in Seq(S) /\ Len(Append(s, k)) = 2
           /\ Append(s, k)[1] = s[1] /\ Append(s, k)[2] = k
  <1>1. /\ Append(s, k) \in Seq(S) /\ Len(Append(s, k)) = Len(s) + 1
        /\ \A i \in 1 .. Len(s) : Append(s, k)[i] = s[i]
        /\ Append(s, k)[Len(s) + 1] = k
    BY AppendProperties, Zenon
  <1> DEFINE r == Append(s, k)
  <1> HIDE DEF r
  <1>2. r \in Seq(S) /\ Len(r) = 2 /\ r[1] = s[1] /\ r[2] = k
    BY <1>1 DEF r
  <1> QED BY <1>2 DEF r

\* What follows the first notification comes after it.
LEMMA LiveThen ==
    ASSUME NEW k \in {"online", "failure"}
    PROVE  Append(<<"live">>, k) = <<"live", k>>
  <1> DEFINE S == {"live", "online", "failure"}
             s == <<"live">>
             r == Append(s, k)
             t == <<"live", k>>
  <1> SUFFICES r = t
    OBVIOUS
  <1>1. s \in Seq(S) /\ Len(s) = 1 /\ s[1] = "live" /\ k \in S
    OBVIOUS
  <1>2. t \in Seq(S) /\ Len(t) = 2 /\ t[1] = "live" /\ t[2] = k
    OBVIOUS
  <1>3. r \in Seq(S) /\ Len(r) = 2 /\ r[1] = "live" /\ r[2] = k
    <2> HIDE DEF s, S
    <2> QED BY <1>1, AppendTwo
  <1> HIDE DEF r, t, S
  <1>4. Len(r) = Len(t) /\ \A i \in 1 .. Len(r) : r[i] = t[i]
    BY <1>2, <1>3
  <1> QED BY <1>2, <1>3, <1>4, SeqEqual

\* Every step keeps what Discord is told.
LEMMA AnnouncedStep ==
    ASSUME RunTyped, Staged, Warned, Restored, Announced, [Next]_vars PROVE Announced'
<1> USE DEF hostVars, planVars, captured, chosen, noticeVars, hookVars, reloadVars,
   reportVars, histVars
<1>1. ASSUME NEW q \in Requests, Begin(q) PROVE Announced'
    BY <1>1 DEF Begin, NoRun, Idle, Goes, ValidRequest, Announced, Ended, Idle
<1>2. CASE Forget
    BY <1>2 DEF Forget, Announced, Ended, Idle
<1>3. CASE Checks /\ Refuse
    BY <1>3, ChecksTouch DEF Checks, Refuse, Return, Announced, Ended, Idle
<1>4. CASE Checks /\ Load
    BY <1>4, ChecksTouch DEF Load, Goes, Announced, Ended, Idle
<1>5. ASSUME NEW m \in Members, Checks, Inspect(m) PROVE Announced'
    BY <1>5, ChecksTouch DEF Inspect, Goes, IsNext, Announced, Ended, Idle
<1>6. CASE Checks /\ Settle
    BY <1>6, ChecksTouch DEF Settle, Settled, Goes, Announced, Ended, Idle
<1>7. CASE Checks /\ Plan
    BY <1>7, ChecksTouch DEF Plan, Goes, Announced, Ended, Idle
<1>8. CASE Checks /\ Ready
    BY <1>8, ChecksTouch DEF Ready, Goes, Announced, Ended, Idle
<1>9. CASE DryRun
    BY <1>9 DEF DryRun, Post, Return, Announced, Ended, Idle
<1>10. CASE Prepare
    BY <1>10 DEF Prepare, Connects, Goes, Announced, Ended, Idle
<1>11. CASE Reinspect
    BY <1>11 DEF Reinspect, Announced, Ended, Idle
<1>12. ASSUME NEW m \in Members, Warn(m) \/ WarnFails(m) PROVE Announced'
    BY <1>12 DEF Warn, WarnFails, IsNext, Answers, Announced, Ended, Idle
<1>13. ASSUME NEW m \in Members, WarnAborts(m) PROVE Announced'
    BY <1>13 DEF WarnAborts, IsNext, Return, Announced, Ended, Idle, Staged, Writing
<1>14. CASE StopInspect
    BY <1>14 DEF StopInspect, Announced, Ended, Idle
<1>15. ASSUME NEW m \in Members, Stop(m) \/ ExitedBeforeStop(m) \/ StopFails(m)
       PROVE  Announced'
    BY <1>15 DEF Stop, ExitedBeforeStop, StopFails, IsNext, Announced, Ended, Idle
<1>16. CASE StopsDone
    BY <1>16 DEF StopsDone, Announced, Ended, Idle
<1>17. ASSUME NEW m \in Members, Start(m) \/ StartFails(m) PROVE Announced'
    BY <1>17 DEF Start, StartFails, StartOf, IsNext, Announced, Ended, Idle
<1>18. CASE Recovered
    BY <1>18 DEF Recovered, Post, Return, Announced, Ended, Idle, Staged, Writing,
       ReportedStages
<1>19. CASE BeginWrites \/ ServerScopeDone \/ ResourcePackScopeDone
    BY <1>19, Phases DEF BeginWrites, ServerScopeDone, ResourcePackScopeDone, Goto,
       Announced, Ended, Idle
<1>20. CASE WriteMods
    BY <1>20 DEF WriteMods, Goto, WriteFailure, Post, Return, Announced, Ended, Idle,
       Staged, Writing
<1>21. ASSUME NEW m \in Members, WriteMember(m) PROVE Announced'
    BY <1>21 DEF WriteMember, IsNext, WriteFailure, Post, Return, Announced, Ended, Idle,
       Staged, Writing
<1>22. CASE ClientScope
    BY <1>22, Phases DEF ClientScope, Goto, WriteFailure, Post, Return, Announced, Ended,
       Idle, Staged, Writing
<1>23. CASE PublishPack
    BY <1>23 DEF PublishPack, Goto, WriteFailure, Post, Return, Announced, Ended, Idle,
       Staged, Writing
<1>24. ASSUME NEW m \in Members, WriteProps(m) PROVE Announced'
    BY <1>24 DEF WriteProps, IsNext, WriteFailure, Post, Return, Announced, Ended, Idle,
       Staged, Writing
<1>25. ASSUME NEW m \in Members, Reload(m) \/ ReloadFails(m) PROVE Announced'
    BY <1>25 DEF Reload, ReloadFails, IsNext, Announced, Ended, Idle
<1>26. CASE ReloadsDone
    BY <1>26 DEF ReloadsDone, Post, Return, Announced, Ended, Idle, Staged, Writing,
       Warned
<1>27. CASE StartsDone
    BY <1>27 DEF StartsDone, Announced, Ended, Idle
<1>28. CASE RestartsDone
  <2>1. /\ pc = "health" /\ pc' = "idle" /\ failure = "none" /\ UNCHANGED <<run, stopped, healthy>>
        /\ posts = IF run.notify THEN <<"live">> ELSE <<>>
        /\ stopped \subseteq started \cup startFailed
    BY <1>28 DEF RestartsDone, Return, Staged, Restored
  <2>2. /\ Append(<<"live">>, "online") = <<"live", "online">>
        /\ Append(<<"live">>, "failure") = <<"live", "failure">>
    BY LiveThen
  <2>3. CASE startFailed = {} /\ healthy = started
    <3>1. stopped \subseteq healthy /\ exit' = "0" /\ failure' = "none"
      BY <1>28, <2>1, <2>3 DEF RestartsDone, Return
    <3>2. CASE run.notify /\ stopped # {}
      <4>1. posts' = <<"live", "online">>
        BY <1>28, <2>1, <2>2, <2>3, <3>2 DEF RestartsDone, Post
      <4> QED BY <2>1, <3>1, <3>2, <4>1 DEF Announced, Ended, Idle
    <3>3. CASE ~(run.notify /\ stopped # {})
      <4>1. posts' = posts
        BY <1>28, <2>1, <2>3, <3>3 DEF RestartsDone, Post
      <4> QED BY <2>1, <3>1, <3>3, <4>1 DEF Announced, Ended, Idle
    <3> QED BY <3>2, <3>3
  <2>4. CASE ~(startFailed = {} /\ healthy = started)
    <3>1. exit' = "1" /\ failure' \in {"post_hook", "health_timeout"}
      BY <1>28, <2>4 DEF RestartsDone, Return
    <3>2. posts' = IF run.notify THEN <<"live", "failure">> ELSE <<>>
      BY <1>28, <2>1, <2>2, <2>4 DEF RestartsDone, Post
    <3> QED BY <2>1, <3>1, <3>2 DEF Announced, Ended, Idle
  <2> QED BY <2>3, <2>4
<1>29. ASSUME NEW m \in Members, Healthy(m) \/ HealthFails(m) PROVE Announced'
    BY <1>29 DEF Healthy, HealthFails, IsNext, Announced, Ended, Idle
<1>30. ASSUME NEW m \in Members, Exits(m) PROVE Announced'
    BY <1>30 DEF Exits, Announced, Ended, Idle
<1>31. ASSUME NEW m \in Members, StartsElsewhere(m) PROVE Announced'
    BY <1>31 DEF StartsElsewhere, StartOf, Announced, Ended, Idle
<1>32. ASSUME NEW f \in Files, EditSource(f) PROVE Announced'
    BY <1>32 DEF EditSource, Announced, Ended, Idle
<1>33. CASE UNCHANGED vars
    BY <1>33 DEF vars, Announced, Ended, Idle
<1> QED
    BY ChecksTouch, <1>1, <1>2, <1>3, <1>4, <1>5, <1>6, <1>7, <1>8, <1>9, <1>10, <1>11,
       <1>12, <1>13, <1>14, <1>15, <1>16, <1>17, <1>18, <1>19, <1>20, <1>21, <1>22, <1>23,
       <1>24, <1>25, <1>26, <1>27, <1>28, <1>29, <1>30, <1>31, <1>32, <1>33
       DEF Next, Run, PhaseStep, MemberStep, Lost, Gone

\* Only a server that was warned is stopped, and files change under none that runs.
LEMMA RulesStep ==
    ASSUME RunTyped, SetsTyped, HostTyped, Captured, Planned, Warned, [Next]_vars PROVE RestartRules
<1> USE DEF hostVars, planVars, captured, chosen, noticeVars, hookVars, reloadVars,
   reportVars, histVars
<1>1. ASSUME NEW q \in Requests, Begin(q) PROVE RestartRules
    BY <1>1 DEF Begin, NoRun, Idle, Goes, ValidRequest, RestartRules
<1>2. CASE Forget
    BY <1>2 DEF Forget, RestartRules
<1>3. CASE Checks /\ Refuse
    BY <1>3, ChecksTouch DEF Checks, Refuse, Return, RestartRules
<1>4. CASE Checks /\ Load
    BY <1>4, ChecksTouch DEF Load, Goes, RestartRules
<1>5. ASSUME NEW m \in Members, Checks, Inspect(m) PROVE RestartRules
    BY <1>5, ChecksTouch DEF Inspect, Goes, IsNext, RestartRules
<1>6. CASE Checks /\ Settle
    BY <1>6, ChecksTouch DEF Settle, Settled, Goes, RestartRules
<1>7. CASE Checks /\ Plan
    BY <1>7, ChecksTouch DEF Plan, Goes, RestartRules
<1>8. CASE Checks /\ Ready
    BY <1>8, ChecksTouch DEF Ready, Goes, RestartRules
<1>9. CASE DryRun
    BY <1>9 DEF DryRun, Post, Return, RestartRules
<1>10. CASE Prepare
    BY <1>10 DEF Prepare, Connects, Goes, RestartRules
<1>11. CASE Reinspect
    BY <1>11 DEF Reinspect, RestartRules
<1>12. ASSUME NEW m \in Members, Warn(m) \/ WarnFails(m) PROVE RestartRules
    BY <1>12 DEF Warn, WarnFails, IsNext, Answers, RestartRules
<1>13. ASSUME NEW m \in Members, WarnAborts(m) PROVE RestartRules
    BY <1>13 DEF WarnAborts, IsNext, Return, RestartRules
<1>14. CASE StopInspect
    BY <1>14 DEF StopInspect, RestartRules
<1>15. ASSUME NEW m \in Members, Stop(m) \/ ExitedBeforeStop(m) \/ StopFails(m)
       PROVE  RestartRules
    BY <1>15 DEF Stop, ExitedBeforeStop, StopFails, IsNext, RestartRules, Warned
<1>16. CASE StopsDone
    BY <1>16 DEF StopsDone, RestartRules
<1>17. ASSUME NEW m \in Members, Start(m) \/ StartFails(m) PROVE RestartRules
    BY <1>17 DEF Start, StartFails, StartOf, IsNext, RestartRules
<1>18. CASE Recovered
    BY <1>18 DEF Recovered, Post, Return, RestartRules
<1>19. CASE BeginWrites \/ ServerScopeDone \/ ResourcePackScopeDone
    BY <1>19, Phases DEF BeginWrites, ServerScopeDone, ResourcePackScopeDone, Goto,
       RestartRules
<1>20. CASE WriteMods
  <2>1. /\ pc = "mods" /\ mods' \in {mods, source.mods}
        /\ UNCHANGED <<stopped, stopFailed, props>>
    BY <1>20 DEF WriteMods
  <2>2. run.part = Members /\ "server" \in run.scopes /\ ~run.targeted
    BY <2>1 DEF Planned, Writing, RunTyped
  <2>3. \A k \in (Members \cap up) \ outsiders : mods = source.mods
    BY <2>1, <2>2, WritesAreSafe DEF Writing
  <2> QED BY <2>1, <2>3 DEF RestartRules
<1>21. ASSUME NEW m \in Members, WriteMember(m) PROVE RestartRules
    BY <1>21, WriteMemberTouches DEF WriteMember, IsNext, WriteFailure, Post, Return,
       RestartRules
<1>22. CASE ClientScope
    BY <1>22, Phases DEF ClientScope, Goto, WriteFailure, Post, Return, RestartRules
<1>23. CASE PublishPack
    BY <1>23 DEF PublishPack, Goto, WriteFailure, Post, Return, RestartRules
<1>24. ASSUME NEW m \in Members, WriteProps(m) PROVE RestartRules
  <2>1. /\ pc = "props" /\ m \in todo /\ UNCHANGED <<stopped, stopFailed, mods>>
    BY <1>24 DEF WriteProps, IsNext
  <2>2. m \in run.part /\ "resource_pack" \in run.scopes
    BY <2>1 DEF Planned, Writing
  <2>3. m \in up \ outsiders => props[m] = source.pack
    BY <2>1, <2>2, WritesAreSafe DEF Writing
  <2>4. \A k \in Members : props'[k] # props[k] => k \notin up \/ k \in outsiders
    BY <1>24, <2>3, WritePropsTouches
  <2> QED BY <2>1, <2>4 DEF RestartRules
<1>25. ASSUME NEW m \in Members, Reload(m) \/ ReloadFails(m) PROVE RestartRules
    BY <1>25 DEF Reload, ReloadFails, IsNext, RestartRules
<1>26. CASE ReloadsDone
    BY <1>26 DEF ReloadsDone, Post, Return, RestartRules
<1>27. CASE StartsDone
    BY <1>27 DEF StartsDone, RestartRules
<1>28. CASE RestartsDone
    BY <1>28 DEF RestartsDone, Post, Return, RestartRules
<1>29. ASSUME NEW m \in Members, Healthy(m) \/ HealthFails(m) PROVE RestartRules
    BY <1>29 DEF Healthy, HealthFails, IsNext, RestartRules
<1>30. ASSUME NEW m \in Members, Exits(m) PROVE RestartRules
    BY <1>30 DEF Exits, RestartRules
<1>31. ASSUME NEW m \in Members, StartsElsewhere(m) PROVE RestartRules
    BY <1>31 DEF StartsElsewhere, StartOf, RestartRules
<1>32. ASSUME NEW f \in Files, EditSource(f) PROVE RestartRules
    BY <1>32 DEF EditSource, RestartRules
<1>33. CASE UNCHANGED vars
    BY <1>33 DEF vars, RestartRules
<1> QED
    BY ChecksTouch, <1>1, <1>2, <1>3, <1>4, <1>5, <1>6, <1>7, <1>8, <1>9, <1>10, <1>11,
       <1>12, <1>13, <1>14, <1>15, <1>16, <1>17, <1>18, <1>19, <1>20, <1>21, <1>22, <1>23,
       <1>24, <1>25, <1>26, <1>27, <1>28, <1>29, <1>30, <1>31, <1>32, <1>33
       DEF Next, Run, PhaseStep, MemberStep, Lost, Gone

-----------------------------------------------------------------------------
(* The theorems. *)

Inv ==
    /\ TypeInv /\ Staged /\ Captured /\ Planned /\ Warned /\ Promised /\ Restored /\ Announced
    /\ ConfAction # "none" => Served

LEMMA InitInv == Init => Inv
  <1> SUFFICES ASSUME Init PROVE Inv
    OBVIOUS
  <1> USE DEF Init
  <1>1. RunTyped
    BY NoRequest DEF RunTyped
  <1>2. PostsTyped /\ SetsTyped
    BY DEF PostsTyped, SetsTyped
  <1>3. HostTyped
    BY PreflightAssumption DEF HostTyped, LoadedType, Files
  <1>4. Staged /\ Captured /\ Planned
    BY DEF Staged, Fresh, Early, Writing, Idle, NoRun, Captured, Planned
  <1>5. Warned /\ Promised /\ Restored /\ Announced
    BY DEF Warned, NoticesCanArrive, Promised, PromisesKept, Restored, FailedRunRestores,
           Announced, Ended, Idle, Writing
  <1>6. Served
    BY DEF Served, Writing, Idle
  <1> QED BY <1>1, <1>2, <1>3, <1>4, <1>5, <1>6 DEF Inv, TypeInv

LEMMA StepInv == Inv /\ [Next]_vars => Inv'
  <1> SUFFICES ASSUME Inv, [Next]_vars PROVE Inv'
    OBVIOUS
  <1>1. /\ RunTyped /\ PostsTyped /\ SetsTyped /\ HostTyped /\ Staged /\ Captured /\ Planned
        /\ Warned /\ Promised /\ Restored /\ Announced /\ (ConfAction # "none" => Served)
    BY DEF Inv, TypeInv
  <1>2. TypeInv'
    BY <1>1, RunStep, PostsStep, SetsStep, HostStep DEF TypeInv
  <1>3. Staged' /\ Captured' /\ Planned'
    BY <1>1, StagedStep, CapturedStep, PlannedStep
  <1>4. Warned' /\ Promised' /\ Restored' /\ Announced'
    BY <1>1, WarnedStep, PromisedStep, RestoredStep, AnnouncedStep
  <1>5. (ConfAction # "none" => Served)'
    BY <1>1, ServedStep
  <1> QED BY <1>2, <1>3, <1>4, <1>5 DEF Inv

\* The invariant holds of every run of the pipeline.
THEOREM InvHolds == Spec => []Inv
  BY InitInv, StepInv, PTL DEF Spec

\* Every variable keeps its type, whatever the command line.
THEOREM TypeCorrect == Spec => []TypeOK
  <1>1. Inv => TypeOK
    BY DEF Inv, TypeInv, RunTyped, PostsTyped, SetsTyped, HostTyped, LoadedType, TypeOK
  <1> QED BY <1>1, InvHolds, PTL

\* A server that was told of a restart and has run ever since hears, before the run ends,
\* that none comes, whichever stage failed.
THEOREM KeepsPromises == Spec => []PromisesKept
  <1>1. Inv => PromisesKept
    BY DEF Inv, Promised
  <1> QED BY <1>1, InvHolds, PTL

\* A run that was asked for the server scope and fails in a write, of whatever scope, starts
\* none of the servers it stopped; one that fails anywhere else tries to start them all.
THEOREM RestoresServers == Spec => []FailedRunRestores
  <1>1. Inv => FailedRunRestores
    BY DEF Inv, Restored
  <1> QED BY <1>1, InvHolds, PTL

\* Whoever is warned of a restart can be reached over RCON: what the preflight found of the
\* containers still holds when the transports are chosen.
THEOREM NoticesReach == Spec => []NoticesCanArrive
  <1>1. Inv => NoticesCanArrive
    BY DEF Inv, Warned
  <1> QED BY <1>1, InvHolds, PTL

\* What Discord is told agrees with how the run ended.
THEOREM AnnouncesOutcome == Spec => []Announced
  <1>1. Inv => Announced
    BY DEF Inv
  <1> QED BY <1>1, InvHolds, PTL

\* A run that exits 0 leaves every running server with what is on its disk, where the restart
\* policy asks for something when a config file changes.
THEOREM SuccessServed == Spec => [](ConfAction # "none" => SuccessIsServed)
  <1>1. ASSUME Inv, ConfAction # "none" PROVE SuccessIsServed
    <2>1. HostTyped /\ up \subseteq Members /\ Served
      BY <1>1 DEF Inv, TypeInv, SetsTyped
    <2>2. \A m \in up : Current(m) <=> loaded[m] = OnDisk(m)
      BY <2>1, CurrentIs
    <2> QED BY <2>1, <2>2 DEF Served, SuccessIsServed
  <1>2. Inv => (ConfAction # "none" => SuccessIsServed)
    BY <1>1
  <1> QED BY <1>2, InvHolds, PTL

\* No step stops a server that was not warned, or rewrites the jars or the
\* server.properties of one that runs.
THEOREM ProtocolFollowed == Spec => RestartProtocol
  <1>1. Inv /\ [Next]_vars => [RestartRules]_vars
    BY RulesStep DEF Inv, TypeInv
  <1> QED BY <1>1, InvHolds, PTL DEF Spec, RestartProtocol
=============================================================================
