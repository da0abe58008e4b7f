------------------------------ MODULE Pipeline ------------------------------
(***************************************************************************)
(* The interactive deployment pipeline, `deploy_pack`: preflight, restart  *)
(* notices, stop, scope writes, reload, start and health check, each with  *)
(* its own failure path (deploy_pack/main.py, hooks.py, preflight/,        *)
(* scope_*.py, docker_runtime.py).                                         *)
(*                                                                         *)
(* The pipeline holds no lock and is not alone: Docker's restart policy,   *)
(* the operator and the game itself stop and start containers between any  *)
(* two of its steps.  Files are abstracted to versions: one jar stands for *)
(* the shared mods directory, one file for the config tree of a member,    *)
(* one ZIP for the published resource pack, and one key for the resource   *)
(* pack entry of a member's server.properties.                             *)
(***************************************************************************)
EXTENDS Preflight

CONSTANTS
    MaxEdits,       \* bound: changes of the source tree
    MaxRuns,        \* bound: invocations
    MaxEvents       \* bound: containers stopped or started by somebody else

Files == {"mods", "conf", "pack"}

ASSUME PipelineAssumption == MaxEdits \in Nat /\ MaxRuns \in Nat /\ MaxEvents \in Nat

VARIABLES
    \* the host
    pack,           \* version of the published resource pack
    loaded,         \* what each member's server read at its start or reload
    \* the run
    warned, attempted, delivered, stopped, stopFailed, started, startFailed,
    reloaded, reloadFailed, healthy, failure, posts,
    \* what the properties are about
    promised,       \* members told of a restart that has not come, nor been cancelled
    outsiders,      \* members somebody else started since the preflight
    lagging,        \* members whose server differed from its files at the preflight
    edits, runs, events

hostVars == <<up, published, source, mods, conf, pack, props, loaded>>
noticeVars == <<warned, attempted, delivered>>
hookVars == <<stopped, stopFailed, started, startFailed, healthy>>
reloadVars == <<reloaded, reloadFailed>>
reportVars == <<failure, posts, exit>>
histVars == <<promised, outsiders, lagging, edits, runs, events>>
vars == <<hostVars, pc, todo, planVars, noticeVars, hookVars, reloadVars,
          reportVars, histVars>>

Idle == pc = "idle"

\* What the files of a member are now: what a server that starts reads.
OnDisk(m) == [mods |-> mods, conf |-> conf[m], props |-> props[m]]

\* The stages of a failure that the pipeline reports to Discord (section 5.10).
ReportedStages == {"mid_scope_write", "reload", "post_hook", "health_timeout"}

\* No process runs, and none has left a result that nobody has seen.
NoRun == Idle /\ exit = "none"

Init ==
    /\ up \in SUBSET Members
    /\ published \in PortMaps
    /\ source = [f \in Files |-> 0]
    /\ mods = 0
    /\ conf = [m \in Members |-> 0]
    /\ pack = 0
    /\ props = [m \in Members |-> 0]
    /\ loaded = [m \in Members |-> [mods |-> 0, conf |-> 0, props |-> 0]]
    /\ pc = "idle" /\ todo = {}
    /\ run = [scopes |-> {}, part |-> {}, targeted |-> TRUE, mode |-> "legacy",
              dry |-> FALSE, notify |-> FALSE, required |-> FALSE]
    /\ seen = {} /\ unsettled = {} /\ restartSet = {} /\ reloadSet = {}
    /\ transport = [m \in Members |-> "none"]
    /\ warned = {} /\ attempted = {} /\ delivered = {}
    /\ stopped = {} /\ stopFailed = {}
    /\ started = {} /\ startFailed = {} /\ healthy = {}
    /\ reloaded = {} /\ reloadFailed = {}
    /\ failure = "none" /\ posts = <<>> /\ exit = "none"
    /\ promised = {} /\ outsiders = {} /\ lagging = {}
    /\ edits = 0 /\ runs = 0 /\ events = 0

-----------------------------------------------------------------------------
(* Ends of a run. *)

Post(kind) == posts' = IF run.notify THEN Append(posts, kind) ELSE posts

-----------------------------------------------------------------------------
(* Start of a run, and what follows its preflight. *)

\* main(): the command line is in order.
Begin(q) ==
    /\ NoRun
    /\ runs < MaxRuns
    /\ ValidRequest(q)
    /\ runs' = runs + 1
    /\ run' = q
    /\ Goes("load", {})
    /\ UNCHANGED <<hostVars, captured, chosen, transport, noticeVars, hookVars, reloadVars,
                   failure, posts, promised, outsiders, lagging, edits, events>>

\* The process is gone, with all it knew.
Forget ==
    /\ pc' = "idle" /\ todo' = {}
    /\ run' = [scopes |-> {}, part |-> {}, targeted |-> TRUE, mode |-> "legacy",
               dry |-> FALSE, notify |-> FALSE, required |-> FALSE]
    /\ seen' = {} /\ unsettled' = {} /\ restartSet' = {} /\ reloadSet' = {}
    /\ transport' = [m \in Members |-> "none"]
    /\ warned' = {} /\ attempted' = {} /\ delivered' = {}
    /\ stopped' = {} /\ stopFailed' = {}
    /\ started' = {} /\ startFailed' = {} /\ healthy' = {}
    /\ reloaded' = {} /\ reloadFailed' = {}
    /\ failure' = "none" /\ posts' = <<>> /\ exit' = "none"
    /\ promised' = {} /\ outsiders' = {} /\ lagging' = {}
    /\ UNCHANGED <<hostVars, edits, runs, events>>

\* A run has ended, and its result was read.
Gone == Idle /\ exit # "none" /\ Forget

Checks ==
    /\ PreflightStep
    /\ UNCHANGED <<pack, loaded, noticeVars, hookVars, reloadVars, failure, posts, histVars>>

\* A dry run reports its plan and returns.
DryRun ==
    /\ pc = "ready" /\ run.dry
    /\ Post("live") /\ Return("0")
    /\ UNCHANGED <<hostVars, planVars, noticeVars, hookVars, reloadVars, failure, histVars>>

\* _make_runtime_state: the transports are chosen.
Prepare ==
    /\ pc = "ready" /\ ~run.dry
    /\ Connects
    /\ lagging' = {m \in Members : loaded[m] # OnDisk(m)}
    /\ Goes(IF restartSet = {} THEN "write" ELSE "notice", {})
    /\ UNCHANGED <<hostVars, run, captured, chosen, noticeVars, hookVars, reloadVars,
                   failure, posts, promised, outsiders, edits, runs, events>>

-----------------------------------------------------------------------------
(* Restart notices and stop. *)

\* compute_warned_and_running: running at the preflight and again now.
Reinspect ==
    /\ pc = "notice"
    /\ warned' = restartSet \cap seen \cap up
    /\ todo' = warned'
    /\ pc' = "warn"
    /\ UNCHANGED <<hostVars, planVars, attempted, delivered, hookVars, reloadVars,
                   reportVars, histVars>>

\* One notice over RCON.
Warn(m) ==
    /\ pc = "warn" /\ IsNext(m)
    /\ Answers(m)
    /\ attempted' = attempted \cup {m}
    /\ delivered' = delivered \cup {m}
    /\ promised' = promised \cup {m}
    /\ todo' = todo \ {m}
    /\ UNCHANGED <<hostVars, pc, planVars, warned, hookVars, reloadVars, reportVars,
                   outsiders, lagging, edits, runs, events>>

\* A notice fails and notices are optional: it is skipped.
WarnFails(m) ==
    /\ pc = "warn" /\ IsNext(m)
    /\ ~run.required
    /\ attempted' = attempted \cup {m}
    /\ todo' = todo \ {m}
    /\ UNCHANGED <<hostVars, pc, planVars, warned, delivered, hookVars, reloadVars,
                   reportVars, histVars>>

\* A notice fails and notices are required: the ones attempted are cancelled
\* and the run ends before any stop or write.
WarnAborts(m) ==
    /\ pc = "warn" /\ IsNext(m)
    /\ run.required
    /\ attempted' = attempted \cup {m}
    /\ promised' = promised \ attempted'
    /\ failure' = "in_game_notice"
    /\ Return("1")
    /\ UNCHANGED <<hostVars, planVars, warned, delivered, hookVars, reloadVars,
                   posts, outsiders, lagging, edits, runs, events>>

\* Mutation of StopInspect: only the members whose notice was delivered are stopped.
StopInspectDelivered ==
    /\ pc = "warn" /\ todo = {}
    /\ todo' = delivered \cap up
    /\ pc' = "stop"
    /\ UNCHANGED <<hostVars, planVars, noticeVars, hookVars, reloadVars, reportVars, histVars>>

\* The restart window is over: the warned members still running are to stop.
StopInspect ==
    /\ pc = "warn" /\ todo = {}
    /\ todo' = warned \cap up
    /\ pc' = "stop"
    /\ UNCHANGED <<hostVars, planVars, noticeVars, hookVars, reloadVars, reportVars, histVars>>

\* runtime.stop stops the container, or finds it exited after its state was read
\* and calls that a stop: the SDK does not tell the caller of a 304.
Stop(m) ==
    /\ pc = "stop" /\ IsNext(m)
    /\ up' = up \ {m}
    /\ stopped' = stopped \cup {m}
    /\ promised' = promised \ {m}
    /\ todo' = todo \ {m}
    /\ UNCHANGED <<published, source, mods, conf, pack, props, loaded, pc, planVars, noticeVars,
                   stopFailed, started, startFailed, healthy, reloadVars, reportVars,
                   outsiders, lagging, edits, runs, events>>

\* The container exited before the call: nothing was stopped.
ExitedBeforeStop(m) ==
    /\ pc = "stop" /\ IsNext(m)
    /\ m \notin up
    /\ todo' = todo \ {m}
    /\ UNCHANGED <<hostVars, pc, planVars, noticeVars, hookVars, reloadVars, reportVars, histVars>>

\* Docker reports an error for the stop; the container may have stopped all the same.
StopFails(m) ==
    /\ pc = "stop" /\ IsNext(m)
    /\ up' \in {up, up \ {m}}
    /\ promised' = promised \cap up'
    /\ stopFailed' = stopFailed \cup {m}
    /\ todo' = todo \ {m}
    /\ UNCHANGED <<published, source, mods, conf, pack, props, loaded, pc, planVars, noticeVars,
                   stopped, started, startFailed, healthy, reloadVars, reportVars,
                   outsiders, lagging, edits, runs, events>>

\* Mutation of StopsDone: the recovery starts the members whose stop failed.
StopsDoneStartingOthers ==
    /\ pc = "stop" /\ todo = {}
    /\ IF stopFailed = {}
       THEN pc' = "write" /\ todo' = {} /\ failure' = failure
       ELSE pc' = "recover" /\ todo' = stopFailed /\ failure' = "pre_hook"
    /\ UNCHANGED <<hostVars, planVars, noticeVars, hookVars, reloadVars, posts,
                   exit, histVars>>

\* Every stop was attempted: go on, or undo them when one failed.
StopsDone ==
    /\ pc = "stop" /\ todo = {}
    /\ IF stopFailed = {}
       THEN pc' = "write" /\ todo' = {} /\ failure' = failure
       ELSE pc' = "recover" /\ todo' = stopped /\ failure' = "pre_hook"
    /\ UNCHANGED <<hostVars, planVars, noticeVars, hookVars, reloadVars, posts,
                   exit, histVars>>

-----------------------------------------------------------------------------
(* recover_stopped_containers and the two ways a container is started. *)

\* A container that runs already keeps what it has loaded.
StartOf(m) ==
    /\ up' = up \cup {m}
    /\ loaded' = IF m \in up THEN loaded ELSE [loaded EXCEPT ![m] = OnDisk(m)]

\* A start of a stopped member, in a recovery or after the writes.
Start(m) ==
    /\ pc \in {"recover", "start"} /\ IsNext(m)
    /\ StartOf(m)
    /\ started' = started \cup {m}
    /\ todo' = todo \ {m}
    /\ UNCHANGED <<published, source, mods, conf, pack, props, pc, planVars, noticeVars, stopped,
                   stopFailed, startFailed, healthy, reloadVars, reportVars, histVars>>

StartFails(m) ==
    /\ pc \in {"recover", "start"} /\ IsNext(m)
    /\ startFailed' = startFailed \cup {m}
    /\ todo' = todo \ {m}
    /\ UNCHANGED <<hostVars, pc, planVars, noticeVars, stopped, stopFailed, started, healthy,
                   reloadVars, reportVars, histVars>>

\* Mutation of CancelRecipients: only the restarted servers are told.
RestartedRecipients == {m \in started \cap up : Answers(m)}

\* The warned members that run are told that no restart comes, those that answer.
CancelRecipients == {m \in warned \cap up : Answers(m)}

\* The bounded wait for RCON is over: cancel notices, report, exit 1.
Recovered ==
    /\ pc = "recover" /\ todo = {}
    /\ promised' = promised \ CancelRecipients
    /\ IF failure \in ReportedStages THEN Post("failure") ELSE UNCHANGED posts
    /\ Return("1")
    /\ UNCHANGED <<hostVars, planVars, noticeVars, hookVars, reloadVars, failure,
                   outsiders, lagging, edits, runs, events>>

-----------------------------------------------------------------------------
(* Scope writes, in the order server, client, resource pack. *)

PhaseAfter(done) ==
    LET left == run.scopes \ done
    IN  IF "server" \in left THEN IF run.targeted THEN "members" ELSE "mods"
        ELSE IF "client" \in left THEN "client"
        ELSE IF "resource_pack" \in left THEN "pack"
        ELSE "reload"

\* Mutation of Goto: the members that were warned are reloaded.
GotoReloadingWarned(phase) ==
    /\ pc' = phase
    /\ todo' = IF phase \in {"members", "props"} THEN run.part
               ELSE IF phase = "reload" THEN reloadSet \cap warned ELSE {}

Goto(phase) ==
    /\ pc' = phase
    /\ todo' = IF phase \in {"members", "props"} THEN run.part
               ELSE IF phase = "reload" THEN reloadSet \cap seen ELSE {}

\* A scope reports a failure.  With the server scope requested no container is
\* started again, whichever scope failed: also a client or a resource pack scope, after
\* the server scope has succeeded.
WriteFailure ==
    /\ failure' = "mid_scope_write"
    /\ IF "server" \in run.scopes
       THEN Post("failure") /\ Return("1")
       ELSE pc' = "recover" /\ todo' = stopped /\ UNCHANGED <<posts, exit>>

BeginWrites ==
    /\ pc = "write"
    /\ Goto(PhaseAfter({}))
    /\ UNCHANGED <<hostVars, planVars, noticeVars, hookVars, reloadVars, reportVars, histVars>>

\* deploy_flat_files over the shared mods directory.  The error of a single jar
\* is logged and skipped: the old jar stays and the scope succeeds.
WriteMods ==
    /\ pc = "mods"
    /\ mods' \in {mods, source.mods}
    /\ \/ Goto("members") /\ UNCHANGED reportVars
       \/ WriteFailure
    /\ UNCHANGED <<up, published, source, conf, pack, props, loaded, planVars, noticeVars, hookVars,
                   reloadVars, histVars>>

\* copy_tree for one member, with the same treatment of a file's error.
WriteMember(m) ==
    /\ pc = "members" /\ IsNext(m)
    /\ \E v \in {conf[m], source.conf} : conf' = [conf EXCEPT ![m] = v]
    /\ \/ pc' = pc /\ todo' = todo \ {m} /\ UNCHANGED reportVars
       \/ WriteFailure
    /\ UNCHANGED <<up, published, source, mods, pack, props, loaded, planVars, noticeVars, hookVars,
                   reloadVars, histVars>>

ServerScopeDone ==
    /\ pc = "members" /\ todo = {}
    /\ Goto(PhaseAfter({"server"}))
    /\ UNCHANGED <<hostVars, planVars, noticeVars, hookVars, reloadVars, reportVars, histVars>>

\* The client pack: stage, compare with the baseline, replace the ZIP, its page and
\* the shared items of the web directory.  No server reads them: what counts here
\* is that the scope may fail, after the server scope succeeded.
ClientScope ==
    /\ pc = "client"
    /\ \/ Goto(PhaseAfter({"server", "client"})) /\ UNCHANGED reportVars
       \/ WriteFailure
    /\ UNCHANGED <<hostVars, planVars, noticeVars, hookVars, reloadVars, histVars>>

\* Every pack is published before any server.properties names it.
PublishPack ==
    /\ pc = "pack"
    /\ \/ pack' = source.pack /\ Goto("props") /\ UNCHANGED reportVars
       \/ pack' = pack /\ WriteFailure
    /\ UNCHANGED <<up, published, source, mods, conf, props, loaded, planVars, noticeVars, hookVars,
                   reloadVars, histVars>>

WriteProps(m) ==
    /\ pc = "props" /\ IsNext(m)
    /\ \/ /\ props' = [props EXCEPT ![m] = source.pack]
          /\ pc' = pc /\ todo' = todo \ {m} /\ UNCHANGED reportVars
       \/ props' = props /\ WriteFailure
    /\ UNCHANGED <<up, published, source, mods, conf, pack, loaded, planVars, noticeVars, hookVars,
                   reloadVars, histVars>>

ResourcePackScopeDone ==
    /\ pc = "props" /\ todo = {}
    /\ Goto("reload")
    /\ UNCHANGED <<hostVars, planVars, noticeVars, hookVars, reloadVars, reportVars, histVars>>

-----------------------------------------------------------------------------
(* Reload, start, health. *)

\* /reload re-reads the config, of the members that ran at the preflight.
Reload(m) ==
    /\ pc = "reload" /\ IsNext(m)
    /\ Answers(m)
    /\ loaded' = [loaded EXCEPT ![m].conf = conf[m]]
    /\ reloaded' = reloaded \cup {m}
    /\ todo' = todo \ {m}
    /\ UNCHANGED <<up, published, source, mods, conf, pack, props, pc, planVars, noticeVars, hookVars,
                   reloadFailed, reportVars, histVars>>

ReloadFails(m) ==
    /\ pc = "reload" /\ IsNext(m)
    /\ reloadFailed' = reloadFailed \cup {m}
    /\ todo' = todo \ {m}
    /\ UNCHANGED <<hostVars, pc, planVars, noticeVars, hookVars, reloaded, reportVars, histVars>>

\* Some reload failed: recover; otherwise announce, then start what was stopped.
ReloadsDone ==
    /\ pc = "reload" /\ todo = {}
    /\ IF reloadFailed # {}
       THEN pc' = "recover" /\ todo' = stopped /\ failure' = "reload" /\ UNCHANGED <<posts, exit>>
       ELSE /\ Post("live") /\ failure' = failure
            /\ IF restartSet = {} THEN Return("0")
                                  ELSE pc' = "start" /\ todo' = stopped /\ exit' = exit
    /\ UNCHANGED <<hostVars, planVars, noticeVars, hookVars, reloadVars, histVars>>

StartsDone ==
    /\ pc = "start" /\ todo = {}
    /\ pc' = "health" /\ todo' = started
    /\ UNCHANGED <<hostVars, planVars, noticeVars, hookVars, reloadVars, reportVars, histVars>>

\* wait_healthy, bounded by its timeout.
Healthy(m) ==
    /\ pc = "health" /\ IsNext(m)
    /\ m \in up
    /\ healthy' = healthy \cup {m}
    /\ todo' = todo \ {m}
    /\ UNCHANGED <<hostVars, pc, planVars, noticeVars, stopped, stopFailed, started, startFailed,
                   reloadVars, reportVars, histVars>>

HealthFails(m) ==
    /\ pc = "health" /\ IsNext(m)
    /\ todo' = todo \ {m}
    /\ UNCHANGED <<hostVars, pc, planVars, noticeVars, hookVars, reloadVars, reportVars, histVars>>

\* Mutation of RestartsDone: the online notification does not wait for a restart.
RestartsDoneAlwaysOnline ==
    /\ pc = "health" /\ todo = {}
    /\ IF startFailed = {} /\ healthy = started
       THEN Post("online") /\ failure' = failure /\ Return("0")
       ELSE /\ failure' = IF startFailed # {} THEN "post_hook" ELSE "health_timeout"
            /\ Post("failure") /\ Return("1")
    /\ UNCHANGED <<hostVars, planVars, noticeVars, hookVars, reloadVars, histVars>>

RestartsDone ==
    /\ pc = "health" /\ todo = {}
    /\ IF startFailed = {} /\ healthy = started
       THEN /\ IF stopped # {} THEN Post("online") ELSE UNCHANGED posts
            /\ failure' = failure /\ Return("0")
       ELSE /\ failure' = IF startFailed # {} THEN "post_hook" ELSE "health_timeout"
            /\ Post("failure") /\ Return("1")
    /\ UNCHANGED <<hostVars, planVars, noticeVars, hookVars, reloadVars, histVars>>

\* The Docker daemon is lost, which no phase recovers from, or the process dies.
Lost == ~Idle /\ Forget

-----------------------------------------------------------------------------
(* Everybody else. *)

\* A container exits: a crash, the operator, the host.
Exits(m) ==
    /\ Idle => NoRun
    /\ events < MaxEvents
    /\ m \in up
    /\ up' = up \ {m}
    /\ promised' = promised \ {m}
    /\ events' = events + 1
    /\ UNCHANGED <<published, source, mods, conf, pack, props, loaded, pc, todo, planVars, noticeVars,
                   hookVars, reloadVars, reportVars, outsiders, lagging, edits, runs>>

\* The operator or Docker's restart policy starts a container.
StartsElsewhere(m) ==
    /\ Idle => NoRun
    /\ events < MaxEvents
    /\ m \notin up
    /\ StartOf(m)
    /\ outsiders' = IF Idle THEN {} ELSE outsiders \cup {m}
    /\ events' = events + 1
    /\ UNCHANGED <<published, source, mods, conf, pack, props, pc, todo, planVars, noticeVars,
                   hookVars, reloadVars, reportVars, promised, lagging, edits, runs>>

\* The operator changes the source tree between two runs.
EditSource(f) ==
    /\ NoRun
    /\ edits < MaxEdits
    /\ edits' = edits + 1
    /\ source' = [source EXCEPT ![f] = @ + 1]
    /\ UNCHANGED <<up, published, mods, conf, pack, props, loaded, pc, todo, planVars, noticeVars,
                   hookVars, reloadVars, reportVars, promised, outsiders, lagging, runs, events>>

-----------------------------------------------------------------------------
MemberStep(m) ==
    \/ Warn(m) \/ WarnFails(m) \/ WarnAborts(m)
    \/ Stop(m) \/ ExitedBeforeStop(m) \/ StopFails(m)
    \/ Start(m) \/ StartFails(m)
    \/ WriteMember(m) \/ WriteProps(m)
    \/ Reload(m) \/ ReloadFails(m)
    \/ Healthy(m) \/ HealthFails(m)

PhaseStep ==
    \/ Checks \/ DryRun \/ Prepare \/ Reinspect \/ StopInspect \/ StopsDone \/ Recovered
    \/ BeginWrites \/ WriteMods \/ ServerScopeDone \/ ClientScope \/ PublishPack
    \/ ResourcePackScopeDone \/ ReloadsDone \/ StartsDone \/ RestartsDone

\* The process itself.
Run == PhaseStep \/ \E m \in Members : MemberStep(m)

Next ==
    \/ \E q \in Requests : Begin(q)
    \/ Run \/ Lost \/ Gone
    \/ \E m \in Members : Exits(m) \/ StartsElsewhere(m)
    \/ \E f \in Files : EditSource(f)

Spec == Init /\ [][Next]_vars

-----------------------------------------------------------------------------
(* Properties. *)

\* Every variable has its type.
TypeOK ==
    /\ up \subseteq Members /\ published \in [Members -> Nat]
    /\ transport \in [Members -> {"tcp", "exec", "none"}]
    /\ source \in [Files -> Nat] /\ mods \in Nat /\ pack \in Nat
    /\ conf \in [Members -> Nat] /\ props \in [Members -> Nat]
    /\ loaded \in [Members -> [mods : Nat, conf : Nat, props : Nat]]
    /\ pc \in {"idle", "load", "inspect", "check", "rcon", "ready", "notice", "warn", "stop",
               "recover", "write", "mods", "members", "client", "pack", "props", "reload",
               "start", "health"}
    /\ run \in RequestsOfMembers
    /\ todo \cup seen \cup unsettled \cup restartSet \cup reloadSet \subseteq Members
    /\ warned \cup attempted \cup delivered \cup promised \subseteq Members
    /\ stopped \cup stopFailed \cup started \cup startFailed \cup healthy \subseteq Members
    /\ reloaded \cup reloadFailed \cup outsiders \cup lagging \subseteq Members
    /\ failure \in ReportedStages \cup {"none", "in_game_notice", "pre_hook"}
    /\ posts \in Seq({"live", "failure", "online"})
    /\ exit \in {"none", "0", "1", "3"}
    /\ edits \in Nat /\ runs \in Nat /\ events \in Nat

\* The run has ended by itself.
Ended == Idle /\ exit \in {"0", "1"}

\* A server that was told of a restart and has run ever since is told, before the
\* run ends, that none comes: whatever failed, at whichever member.
PromisesKept == Ended => promised = {}

\* What a failed run makes of the servers it stopped.  If it failed in a write, of whatever
\* scope, and was asked for the server scope among others, it starts none: half-written
\* files are loaded by no server but one that somebody else starts (main.py:1262; of a
\* client or resource pack scope that fails, section 4.7 says the contrary: README).  If it
\* failed anywhere else it has tried to start every one of them again.
FailedRunRestores ==
    Idle /\ exit = "1" =>
        IF failure = "mid_scope_write" /\ "server" \in run.scopes
        THEN started = {} /\ stopped \cap up \subseteq outsiders
        ELSE stopped \subseteq started \cup startFailed

\* After a run that exits 0 every running server serves what is on its disk, unless
\* it already lagged behind before the run or somebody else started it meanwhile.
SuccessIsServed ==
    (Idle /\ exit = "0" /\ ~run.dry) =>
        \A m \in (up \ lagging) \ outsiders : loaded[m] = OnDisk(m)

\* What a step may stop, and what it may change under whom.
RestartRules ==
    /\ \A m \in (stopped' \cup stopFailed') \ (stopped \cup stopFailed) :
         m \in seen \cap attempted /\ (run.required => m \in delivered)
    /\ \A m \in Members :
         (mods' # mods \/ props'[m] # props[m]) => m \notin up \/ m \in outsiders

\* Nothing is taken from players unawares: a server is stopped only if it ran at the
\* preflight, and after a notice was sent to it, where notices are required after it was
\* delivered; and jars and server.properties never change under a server that runs, unless
\* somebody else started it after the preflight.
RestartProtocol == [][RestartRules]_vars

\* Every server that a notice of a restart is sent to has an RCON transport, unless
\* somebody else started it after the preflight: what the preflight found of the RCON
\* of a running server still holds when the transports are chosen and used.
NoticesCanArrive == \A m \in warned \ outsiders : transport[m] # "none"

\* What Discord is told agrees with how a run ended: "live" exactly when every write
\* and reload was done, "online" exactly when a restart was and all is healthy,
\* "failure" exactly for the stages that section 5.10 lists, and last.
Announced ==
    (Ended /\ ~run.dry) =>
        posts = IF ~run.notify \/ failure \in {"in_game_notice", "pre_hook"} THEN <<>>
                ELSE IF failure \in {"mid_scope_write", "reload"} THEN <<"failure">>
                ELSE IF exit = "1" THEN <<"live", "failure">>
                ELSE IF stopped # {} /\ stopped \subseteq healthy THEN <<"live", "online">>
                ELSE <<"live">>
=============================================================================
