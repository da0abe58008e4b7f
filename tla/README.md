# A TLA+ model of the deployment toolkit

The repository builds releases of a Minecraft modpack, approves and publishes
them, and deploys them on a production server. This directory models the parts
of it whose correctness depends on order, failure and crashes, model-checks
them with TLC and proves their main properties with TLAPS. `PROJECT.json`
maps every definition to the lines it models; line numbers below are of
`src/src/minecraft/` (`SHIP` is `modpack_upgrade/shipping.py`, `DAEMON` is
`deploy_pack/daemon/`, "the spec" is `src/docs/Upgrade_System_specifications.md`).

## 1. The system

### Components, state, operations

| Component | State | Operations | Hard behaviour | Correct means |
|---|---|---|---|---|
| Shipping transaction (SHIP) | target directory, staging and backup directories, JSONL journal | `ship`: scan, diff, stage, back up, apply, verify, roll back | any file operation may fail; failed undo; crash between rename and journal | ends as asked or as before, or says otherwise; no jar lost |
| Deployment orchestrator (DAEMON `deploy.py`, `ship.py`) | none of its own; drives the others | `deploy`: refusal, lock, pull, backup, slip, stop, ship, start, health, recovery | each stage fails on its own; recovery may fail; crash anywhere | COMPLETE only for what runs; failure is undone or reported |
| Operation journal (`journal.py`) | append-only JSONL | `append_stage`, `unresolved_runs` | append may fail; run ID = release ID, so runs share records | an interrupted run refuses later deployments |
| Deployment lock (`lock.py`) | a lock file | `acquire` (link), `release`, `force_release` | crash leaves it; operator removes it when stale | one deployment at a time |
| World backup, recovery (`backup.py`, `recovery.py`) | `backups/world/<release>/` with a manifest | `create_backup`, `verify_backup`, `restore_world`, `restore_mods` | partial copy; world removed before it is copied back | the players' world is never lost |
| Runtime glue (`deploy_runtime.py`, `service_control.py`) | active-release pointer (read) | `_deploy_one`, `stop`, `start` | starting a running container is a no-op | the prior bundle is the active one |
| Health checks (`health.py`, `health_probe.py`) | none | poll log sentinel, restarts, RCON | timeouts, a restart inside a window | a passed check means a server that stayed up |
| HTTP admin plugin (`plugins/http.py`, `idempotency.py`) | SQLite ledger, `active-release`, `last-verification` | `/verify`, `/publish`, `/deploy`, `/status` | requests interleave at awaits; repeats; crash at an await | one answer per key; pointer = last completed release |
| Release pull (`pull.py`) | release store | rsync to staging, verify, rename | a bundle rolled back while it is copied, lost transfer, crash | production deploys only what was published |
| Verification (`verify.py`, `modpack_upgrade/registry_verify.py`) | none | chain, signatures, hashes, approval | two readers of one growing file | "ok" only for an intact, approved release |
| Publication (`cli/commands/publish.py`, `build/`, `signing.py`) | bundle directories, `release-index.jsonl` | stage, sign, commit by rename, append | crash between commit and append, two publishers | every entry has its bundle; chain unbroken |
| Approval (`approval.py`, CLI commands) | current record per run and scope, audit log | approve, reject, acknowledge | replayed and concurrent interactions, crash between the two writes | one decision per interaction, the last one counts |
| Discord bot (`discord_bot/`) | none durable | signed interaction to CLI process | processes side by side, deadlines | each interaction answered once |
| Interactive pipeline (`deploy_pack/main.py`, `hooks.py`, `files.py`, `preflight/`) | server trees, published packs, containers; the plan of a run | preflight, notice, stop, scope writes, reload, start, health, posts | a phase fails at one member; others start and stop servers between any two steps | what was stopped is started again, players and Discord are told what happened |
| Docker runtime (`docker_runtime.py`) | none | inspect, stop, start, exec, RCON | daemon lost, restart loops | outcomes distinguish stop from no-op |
| Scopes, overrides, properties, dependencies (`scope_*.py`, `files.py`, `deps.py`, `overrides.py`, `preflight/changes.py`) | the destination trees, the ZIPs, `server.properties`, the review section of the overrides | sides and closure of the jars, announced changes, copies, staging, publication | single copies that fail, a crash in a copy, edits and foreign writes at any time | what is written is what was announced; a later run repairs the rest |
| Resolution and composition (`resolver.py`, `slip.py`, `state.py`, `iterate`, `materialize`, `promote`) | `state.toml`, candidates, release slips, `docker-compose.yml`, git index | `update`, `acknowledge`, `materialize`, `iterate`, `promote` | crash between two files, edits between two commands, re-runs | the release is what was approved |
| Providers and usage log (`providers/`, `usage.py`) | JSON-lines log of calls | query versions, project and jar, with retries under a budget | failed answers, lost and torn records, two commands on one log | the budget is kept |
| Installer, changelog, audits, generators | none | user interface, text | none of protocol kind | not modelled |

### Interaction

An operator approves a run through the Discord bot (a signed interaction that
starts a CLI process) or the CLI. `publish` copies the run's acknowledgment, stages, signs
and renames a bundle into place and appends a hash-chained registry entry.
Production pulls the bundle. `POST /deploy` verifies it against registry and
approval and calls `deploy()` **synchronously on the event loop**, so one daemon
runs one deployment at a time; only a second daemon process, the CLI or the
operator can act in between. The daemon and its servers share the mods directory
and the world, which running servers write at any time. The orchestrator calls
the shipping transaction once forward and once more, on the prior bundle, in
recovery. After `deploy()` has returned the plugin writes the active-release
pointer, which the next deployment reads to learn its prior release.

## 2. Modules

| Module | Models | Role |
|---|---|---|
| `LogicalTransaction` | what a shipping transaction promises: commit, abort, or torn and reported | abstract specification |
| `Shipping` | SHIP, every step of `ship()` | component, refines `LogicalTransaction` |
| `FileProofs` | | theorems about `Shipping` and `Scopes`, which share no state: the names of `Scopes` are its own (`ScopesSpec`) |
| `Deploy` | orchestrator, journal, lock, backup, recovery, pointer, crashes, operator | composition of the daemon's parts |
| `DeployProofs` | | theorems about `Deploy` |
| `Publish` | `publish`: staging, commit, registry, several publishers; the chain check | component |
| `Pull` | `pull.py`, and the check of the store before a deployment | composition with `Publish`, from which it copies |
| `PublishProofs` | | theorems about `Publish` |
| `Preflight` | the request, every check before a run touches anything, the plan, the choice of RCON transports | first part of `Pipeline` |
| `Pipeline`, `PipelineProofs` | a run of `deploy_pack`: preflight, notice, stop, writes, reload, start, health, posts | component, with the other users of the host; theorems |
| `Scopes` | what a run announces and writes, file by file: sides, closure, comparison, copies, ZIP, packs, properties | component, with everybody who writes the same files |
| `Upgrade` | the life of a candidate: the commands of `minecraft-upgrade`, the approvals, the bot's deliveries | composition of upgrade commands, approval and bot |
| `Admin` | the HTTP plugin, the idempotency ledger, the verification gate, the active-release pointer | component, over an abstract deployment |
| `AdminProofs` | | theorems about `Admin` |
| `Resolver` | `resolver.py`: the closure under requirements, the search for cycles, the cascade, the report | component |
| `Materialize` | `materialize` with its providers, the usage log and the warehouse | composition with `Resolver`, whose report it takes |
| `ResolverProofs` | | theorems about `Resolver` |
| `Health` | `health.py` and `health_probe.py`: the checks of one container after the other, against servers that go on meanwhile | component, with the servers it looks at |
| `HealthProofs` | | theorems about `Health` |
| `Bot` | the Discord bot from the delivery of an interaction to the post, its CLI processes, and the notifications of `deploy_pack` | component, with Discord and the CLI |
| `ApprovalProofs` | | theorems about `Bot` and `Upgrade`, side by side: they share no state, and what is named alike in both is prefixed in `Bot` (`BotSpec`) |
| `MCShipping`, `MCDeploy`, `MCPublish`, `MCPipeline`, `MCScopes`, `MCUpgrade`, `MCAdmin`, `MCResolver`, `MCHealth`, `MCBot` | | instances for TLC |

### `Shipping`

`target`, `backup` and `journal` are the three places bytes and intent live;
`pre` and `source` record the request. A file is a name with a hash; a jar that
cannot be hashed is `Unreadable`, which the inventory scan skips. Removals,
replacements and additions are applied in that order, one action each: the
rename or unlink together with the journal record that follows it (`ApplyOne`),
the failed operation (`ApplyFails`, an `UpgradeError`: rollback), and the
operation whose record cannot be written (`JournalFails`, an `OSError`, which
`ship()` does not catch). Undoing walks the journal backwards, a failed undo is
suppressed as in the code, and the end of the rollback compares the inventory
with the snapshot. `Crash` may happen between any two steps.
Staging is one step: a staged file is in nobody's way until it is renamed.

### `Deploy`

Each daemon (`Proc`) has a program counter over the stages of `_run_stages` and
the locals of a deployment: `run` (release), `prior` (the release of
`prior_bundle_dir`), `code`/`at` (the failure being carried), `done` (containers
handled in the current loop), `bad` (a restore failed). Shared are the journal
(`last`), the lock file (`lock`, `stale`), the files (`mods`, `world`, `backup`),
what each container was started with (`running`) and the pointer (`active`).

* A run is named after its release (`deploy_runtime.py:307`), so the journal is
  kept as the last stage per release: all `unresolved_runs` and the refusal look at.
  Non-terminal stages written between two others of the same step (SHIP_FAILED
  before FAILED, the stages of a recovery's own shipping) are not kept.
* A stage that can be cut off by a crash or a failing journal write (`CutOff`)
  leaves what its steps can leave: no backup, a partial one or a whole one; the old mods,
  the new ones or a torn directory. `Shipping` justifies these outcomes.
* `world` is the set of releases that have run on the world, `{Gone}` after it is
  removed; a server that starts where there is no world makes a new one.
* `JournalFails` is the `OSError` that leaves `deploy()` from any append; the lock
  is released, except when the append is the one right after the acquisition.
* `Save`, `Age`, `Resolve` are external: servers, time, an operator who appends a terminal
  record. `ForceRelease` is `force_release` by an operator who, as its docstring
  asks, has made sure the deployment is dead.
* Configuration failures of `_deploy_one` return before anything is written and
  have no action. The pull stage is in `Pull`; here the release is in the store, as it
  is whenever the daemon gets as far as `deploy()` (a release without its slip in the store is refused before).
* A second daemon's request, refused by its pre-flight or by the lock, may journal FAILED over the
  COMPLETE of a deployment: `OutcomeJournaled` says the other direction, that no failure is
  covered by a COMPLETE.

### `Publish`

A publisher is a run of `minecraft-upgrade publish`, with a program counter
over the steps of `run()`; after it has ended (`exit0`, `exit3`, `exit7`), raised
or crashed it may start again. Per release there are a staging directory and a
bundle, whose content is absent, partial, staged (without manifests) or signed by
the manifest of a publisher; the registry is the sequence of its lines. The hash of
an entry covers the hash before it, so it is modelled as the sequence of releases up
to the entry; two entries for one release would share a hash only if the same release
were registered twice, which `RegisteredIsFinal` excludes.

* Nothing in the code keeps two publishers apart, but operators may. `overlapped`
  remembers that one was started while another ran; `EntriesHaveBundles` (proved only),
  `ChainUnbrokenInTurn` and `PublishedVerifies` speak of the time before that.
* `RemoveStaging` is `_cleanup_dir`: it ignores errors, so the directory may stay,
  whole or in part, and the next `mkdir` fails on it. It removes the staging of
  the release, whoever made it, also in the `finally` after a commit (`Tidy`).
* `Commit` renames what is in the staging directory at that moment, which another
  publisher of the release may have removed, begun anew or signed in the meantime.
* An append that fails or crashes writes nothing, or a line that does not parse
  (`Torn`); the next line would be lost on it (`Appended`). A write cut just before
  its newline is not modelled.
* `Crash` may happen anywhere; a crash half-way through a removal leaves what a
  failed removal leaves. Data once written survives a crash (loss of unsynced
  pages is not modelled).
* `RemoveLeftover` is external: the operator removes a bundle without an entry, as the
  messages of `publish` ask. Nobody repairs a torn registry.

### `Pull`

`store` is the release store of production, `pull` the copy under way with the state of the
bundle when rsync began. What arrives is the bundle if it was whole then and is the same when rsync
ends, and else any mixture (`Arrives`); `VerifyBundle` asks for every file that the manifest lists
and for no other, and passes no expected hash, as no caller does. A deployment then compares the
manifest with the registry and reads no other file (`Deployable`).

* A pull is a stage of a deployment and runs under its lock, so there is one at a time.
* `<release>.partial` is not kept between pulls: it is removed, or corrected by
  `--delete --checksum`.
* The stage is not reached through the daemon as it is configured: the verification before it blocks a
  release that is not in the store. The module models the operation, for any caller.

### `Preflight` and `Pipeline`

`Preflight` has the run up to its plan: `ConfigFails` to `ModsDirFails` before any container is
read, `Inspect`, `Settle`, `StateFails` and `DriftFails` over the containers, `Plan`, and the checks of
RCON and of the second template. Each check that fails ends the run with 3 (`Refuse`). The code
collects what it can find independently and raises it together, which changes the report and nothing else.
`Prepare` then chooses the transport of every member for the whole run, by what its container
publishes at that moment. In `Pipeline`, with a step of its own for each, are the phases after that.

One run at a time: `pc` is its phase, `todo` the members the phase has yet to
handle, and the locals of `main.py` and `hooks.py` are variables of their own
(`warned`, `delivered`, `stopped`, `stopFailed`, `started`, `healthy` and so
on). A version number stands for each kind of file; `loaded` is what a server
read when it started or was reloaded, so that "serves what is on its disk" is
`loaded[m] = OnDisk(m)`.

* The pipeline takes no lock. `Exits` and `StartsElsewhere` stop and start a container
  between any two steps; `EditSource` changes the source tree between runs (an edit
  in the middle of one is in `Scopes`).
* Every phase can fail at each member, and has the failure path of the code:
  stop failure to recovery and cancel notice, write failure with and without
  the server scope, reload failure to recovery, start and health failures.
* `Lost` is the loss of the Docker daemon or of the process: the run ends with no recovery, as
  in the code. `Gone` is the process after its end: nothing of a run reaches the next
  but what it did to the host. Others act while a run goes on or when its result has been read.
* A server answers over RCON when it is up and has a transport (`Answers`): a post that
  is sent to it may fail during the notice and the reload, not for the cancel notice.
* `State.Running` is true of a container that restarts: such a member is `unsettled`
  until the bounded wait is over. Signing keys and secrets are not looked at.
* Two groups are exempt from a property each, since the code cannot tell them:
  `outsiders`, members that somebody else started after the preflight, and
  `lagging`, members whose server already differed from its files before the run.
* Prompts, argument parsing and the wording of messages are left out; a confirmation
  that is declined ends a run before it has done anything.

### `Scopes`

The same run without its containers, on six files: three jars whose sides and requirements differ by
index, override, manifest and slip, two config files and a script. `placed` is each destination tree,
`zip`, `pack` and `props` the rest of what is deployed; `removes` and `copies` are what is left of the
comparison of one tree, `RunTrees` the trees of a run: those of its members, and the shared mods unless it
is targeted (a run whose `--instance` names nobody goes on with none). `Closure` is `expand_with_required`, with the manifests that the process read first.

* A copy takes what the source is by then. Its failure is a warning, it may leave a torn file,
  and `Ends` is a scope that fails or a process that dies at any step.
* Sources are edited and destinations written by others at any step (`EditSource`, `EditOffer`, `Drift`).
  `clean` remembers that nothing of this happened to the run; `CleanRunConverges` is about such a
  run, after whatever happened to those before it.
* Directories and their pruning, ZIP dates, the changelog page and the shared web items are left out.

### `Upgrade`

One operator runs commands one after the other (`pc`, `op`), each with a step per
durable write; approvals and rejections, the operator's and the bot's, are processes of
their own (`delivery`), since the bot starts one per delivery and kills it after a
timeout. A hash is the hashed value; a binding is the slip that was approved.

* `Update` is one step: the resolver writes a run directory that nobody reads before
  the state file, its last write, is in place.
* `promote` asks the gate, copies the slip and gives it its tag in three steps (`GatePassed`, `CopySlip`,
  `Relabel`), with the bot and the clock between them: a rejection or an expiry after the gate comes too
  late. `op.granted` is history, for `ReleasesWereApproved`: the last word and the hour when the gate was asked.
* The look-up of an interaction happens as its process starts; the two writes are
  steps (`WriteCurrent`, `AppendAudit`), and `Killed` strikes between them, which is the
  only place where it leaves something half done.
* Edits of the inputs and of Compose are possible where a later step reads them.
* `iterate` reads the state when it begins and writes it back, failed, when the boot was
  ambiguous or a cap was reached (`BootFails`). The classifier that ships never says
  "failure", so that the loop makes one attempt.
* `Crash` drops a command between two of its writes. A kill of a bot process and two
  overlapping deliveries of one interaction make it `muddled`: no replay can see
  its record, and `ReplayHarmless` and `ReleasesWereApproved` speak of the others.

### `Admin`

The handlers are coroutines on one event loop. Each action is the code between two
awaits, which are the appends to the audit log and the writes to the state store (of
DaemonCore, which is not in the repository: any of them may let others run). A
request is a place `q`; a caller that gives up and repeats its request takes
another place or key, or the same. `Replay` and `Execute` are the two outcomes of
`_run_idempotent`; a row that belongs to another request answers 409 and has no
action, as the other refusals. `Store` prunes any rows, because any may have passed
its time to live. A deployment is one step, `DeploySucceeds` or
`DeployFails`: the callable holds the loop, and `Deploy` has its inside. A failure may
leave what was served, the bundle the pointer names, the new release, or neither.

* `loose` keys, whose executions overlapped or whose row was pruned, are exempt from
  `OneAnswerPerKey`: nothing in the code keeps two executions apart.
* `astray` is set by a crash that loses a pointer update and by a second deployment
  that succeeds while the update of the first is still to come; it is cleared by the
  next deployment in turn. `ActiveIsDeployed` speaks of the other states.
* `/deploy` does not use its key ("single-shot"): a repeated request deploys again.

### `Resolver`

An algorithm, with one step per queue item and per dependency looked at: `SeedPhase`,
the closure (`SkipKnown`, `NoCompatibleVersion`, `RecordResolved`), the depth-first
search for cycles and the rounds of the cascade, and the report. The two recursive
functions of the code are stacks of frames (`Frame`: a mod and the dependencies its
call has yet to look at), which keeps the module free of recursion and makes the
call stack, on which the printed chains depend, a variable to reason about.

* A provider answers what it likes, once for each mod: no version, or a list of
  requirements (`DepLists`). Which of several versions and channels it chose, files of
  mods and the pacing of requests are left out; an exception or a spent budget is
  `QueryRaises`.
* `resolved` keeps the order of the dictionary, since both searches start from it.
* A required dependency that has neither a project nor a mod ID is passed over (`resolver.py:226`, 353), so
  that `DepLists` are the requirements that have one, and `RequirementsMet` speaks of these.
* The policy for mods without a version and the skips of the overrides are chosen at the
  report, the only place where the code reads them.

### `Materialize`

Continues where the resolver ends: `UpdateEnds` leaves only the report, for the reports that `Chosen`
admits. `VerifyInHouse`, the queries of a mod (`request`: stage, step, attempt), the warehouse and the
writes of metadata, slip and state follow one by one; a command that is killed leaves what it had
stored and can be run again. A jar is `Right`, `Other` or `Torn`.

* The budget is a number of requests for the api, and of bytes for downloads (`usage.py:329`). An
  answer weighs what it takes of it (`Weights`): 1 for a request, any number of bytes up to `Largest` for a
  download, none and more than is left among them. `used` is what the log says of the present window, `sent`
  what was answered. The window passes as a whole; `RecordLost` and `torn` are records that were not
  written or swallowed. An attempt that ends in a network error, or a body that breaks off, is neither
  recorded nor in `sent`.
* `_copy_to_warehouse` looks (`Store`) and then copies (`CopyJar`), with others in between.
* `OtherChecks` and `OtherCalls` are another command on the same log. `OtherFindsNone` and `OtherCopies` are the
  same look and copy by the materialization of another run; `BuildCopies` and `BuildCopied` are `build-inhouse`, of
  a jar of the release. A jar that was built again since it was read, or that another run which had not found it
  replaced by other bytes, is `overwritten` and exempt from `SealedIsStored`: nothing locks the warehouse.

### `Health`

One step is one look of the probe, what the code makes of the answer, and the sleep after
it; time is counted in poll intervals, `left` is what remains to the deadline of the
loop under way. `CheckRunning`, `CaptureBaseline`, `CheckStartupSentinel`, `CompareRestarts`, the loop
of `LogsBeforeList` and `Answers...`, and `CheckNoFatalMarkers` are the checks of a container in
their order; the first that fails is its `result`, and the next container of `todo` follows.

* Between two looks a server boots, prints a fatal marker, restarts, exits, or logs so
  much that a line leaves the tail the probe reads (`Boots`, `Complains`, `Restarts`, `Exits`,
  `Scrolls`: external). The tail may hold lines of an earlier life, since a log outlives
  a restart. `TimePasses` is a call that takes time of its own.
* `hiccups` are calls to Docker that fail: the probe answers them with a count of 0, an
  empty log or "not running". `DockerUnreachable` is the client's own error, which the probe does not
  catch and which leaves `run_health_checks`.
* `marker`, `restarted` and `flawed` remember what happened to a server, for the
  properties: a marker that was printed and read, read too late or never, a restart while
  the start was watched, and anything for which a check may fail.

### `Bot`

An interaction has the answer to its HTTP request (`response`), the task of its dispatch
(`task`, with the `message` it posts) and the process of its command (`process`), which
goes on by itself: `CliTakesEffect` and `CliExits` are external, `CliTimesOut` kills it. A
post may fail because Discord refused it, or after Discord has shown it (`unclear`); what a
handler posts is inside its `try` (`guarded`), so that such a failure is posted in turn. A
notification goes by one `route` of the configuration, with no way back to another: to the
bot's `/notify`, whose answer may come after the notifier's own time limit, or to the webhook.

* `Stop`, `Ends` and `Start` are the life of the daemon. `Ends` drops the tasks, whose
  posts may still arrive and whose commands may go on; nothing is kept for the next start.
* Signatures, users and arguments are one value each of `Requests`: what `verify` and the
  parsers tell apart. The length limit of Discord is `NotifyTooLong`.
* Any status below 400 counts as a delivery (`discord_client.py:116`, `notifications.py:676`). That Discord shows
  what it answers so, and redirects no post, is an assumption on it: an outcome `ok` was shown.
* Two interactions share nothing but the daemon's life and the bound on faults (a command
  locks nothing); what two deliveries do to the approval files is in `Upgrade`.

## 3. Runs

The type invariants of the modules with proofs are proved; those of the others are stated for
the proofs to come. `ShippedWhileStopped`, `ReceiptsAudited` and `ChainsExplain` are proved and not run.

| Run | Instance and bounds | Checks |
|---|---|---|
| `shipping` | 3 files (1 protected), 2 hashes; every old inventory (absent, 2 hashes, unreadable) and every source set: all diffs with up to three operations of any kinds | `NoJarLost`, `ProtectedUntouched`, `LogicallyAtomic` (refinement) |
| `deploy` | 2 daemons over one lock and journal, 2 containers, the installed release and an upgrade; one daemon accepts unboundedly many requests while it is alone, the two together 2; crashes, resolutions, forced releases | `OneDeployment`, `WorldRecoverable`, `ShipFailureRolledBack`, `FailureLeavesServicesUp`, `OutcomeJournaled`, `CompleteIsDeployed`, `DeploymentEnds` |
| `deploy_running` | as `deploy` | violation of `RecoveredServicesRunPrior` |
| `publish` | 2 publishers, overlapping or not, 2 releases, of which production pulls one, unboundedly many starts, failures, crashes, pulls | `ChainUnbrokenInTurn`, `PublishedVerifies`, `DeployableIsPublished`, `RegisteredIsFinal` |
| `pipeline` | 2 servers, of which the first may publish no RCON port, RCON over the network; a full run of a release, targeted, pack and dry runs; 2 runs, 2 edits of the source (`MaxEdits`), 3 containers stopped or started by others (`MaxEvents`) | `PromisesKept`, `FailedRunRestores`, `SuccessIsServed`, `Announced`, `NoticesCanArrive`, `RestartProtocol` |
| `scopes` | 2 members, one with a merged and one with a replaced config tree; 3 jars, 2 config files (1 protected), 1 script; 2 contents; full runs from the index and from a slip, a run targeted at one member and one targeted at nobody; `MaxRuns` = 2, `MaxEvents` = 2 failures, crashes, edits or foreign writes | `CleanRunConverges`, `WriteDiscipline` |
| `upgrade` | 1 run, 1 tag, 1 interaction delivered to 2 processes, 2 runtimes; two (`MaxEvents`) of: 1 edit, 1 crash, 1 tick, after which an approval is expired (`Expiry` = 1) | `ReplayHarmless`, `LossesAcknowledged`, `ReleasesWereApproved`, `SealedIsImmutable` |
| `upgrade_compose` | 1 run, no edits, crashes or interactions | violation of `ReleaseRecordsCommit` |
| `admin` | 2 requests in flight, 2 keys, 2 releases (callers ask for the new one or for the pointer), `MaxExecutions` = 3, 1 change of a release or of the pointer, 1 crash | `OneAnswerPerKey`, `ServedWasVerified`, `ActiveIsDeployed` |
| `resolver` | 4 mods of the providers, each with up to 2 requirements in either order, itself among them; 1 or 2 in the seed; a file built in-house, unknown or absent; 3 policies; 0 or 1 skipped mod; the two mods that neither seed nor overrides tell apart are symmetric; materialized are reports of two mods, one without hashes, or of one and the in-house file, with a budget of 1 request and 1 byte in a window and downloads of 0 to 2 bytes (`Largest`), 1 retry, 1 lost record, 1 build, any number of other runs' copies | `RequirementsMet`, `CycleVerdict`, `SealedIsStored`, `BudgetKept` |
| `health` | 2 containers, `Timeout` = 2 and `RconInterval` = 2 poll intervals, `Required` = 2 answers, `MaxRestarts` = 1 per container, `MaxHiccups` = 1 failed call | `FaultsNoticed`, `HealthyPasses`, `ChecksEnd` |
| `bot` | 2 interactions of any kind, 1 notification, every route, `MaxFaults` = 2 failed posts, unboundedly many stops and starts | `AnswersHonest`, `NobodyForgotten`, `NoticesHonest`, `EveryoneTold` |

Why the bounds are enough. Shipping treats each file on its own and orders
kinds of operations, so three files give each kind a predecessor and a
successor of another; a second hash is what an update needs. In `deploy`, two
containers are the least with which a loop can stop half way; the releases are
one that is an upgrade and one that is not, and each can be the prior of the
other; nothing bounds the number of deployments, so a backup can be made of a world that is
itself a restored or new one. With two daemons the two accepted requests are one
per daemon or two in a row of one, with any number of crashes. For `publish`, two
publishers are enough for a fork and for a race on one release, and of two
releases the second entry depends on the first; that a third continues the chain
is the theorem `OneChain`.

In `pipeline` two servers are the least with which a phase fails at one after it was done
at the other, and two runs the least with which one meets what another left; a third event was checked because
a server may be stopped, started and stopped again by others during one run. In `scopes` each tree, clean mode and source of sides
occurs, two runs are one that is disturbed and one that repairs, and of two disturbances each may
meet the other's remains. In
`upgrade` a run's files are its own, so that one run meets every order of its
commands; two deliveries are an interaction and its replay. The bounds on
events let any two of them meet in any order; a third was out of reach. In
`admin` two requests overlap in every way, two keys are what it takes to prune one
by storing the other, and the third execution repeats a key after that. In `resolver` four
mods give diamonds, two cycles that share a mod, chains of four, and a cascade that
needs a second round; the proofs are for any graph. A budget of 1 is spent by one request or by one byte, an answer of none leaves it, and one of 2 bytes exceeds it by itself; a report of two mods is fetched in either order, with one mod kept from an earlier run. In `health` the second container is
checked after whatever the first one did; two answers, an interval and a time limit of two let a
check answer in time, at the last moment and too late; one restart may be before the start,
in its window or after it; the proofs have no bound on time or restarts. In `bot` two faults
are a post that fails and the report of it that fails too, or one of each interaction.

`shipping`, `deploy`, `pipeline`, `scopes`, `resolver`, `health` and the runs of `Publish` and `Upgrade` may
stop (a transaction, a resolution or a health check ends; the requests are used up; nothing is left for the
operator to do; every release has its bundle; a run fails for good), and only they turn
deadlock checking off.

**Fairness.** `DeploymentEnds` assumes `WF(Step(p))` for each daemon: the code
of a deployment runs synchronously to its end, every external call in it has a
timeout, and nothing in it waits for another deployment (a held lock is
refused). `ChecksEnd` assumes `WF(Check)`: every loop of the health checks has a
deadline and every call a time-out. `EveryoneTold` assumes `WF` of each dispatch and of each
notification: the event loop runs every task, and the waits for Discord (15 s), for a command
and for the bot's answer (10 s) are limited. Requests, crashes, time, operators, containers, servers, the CLI and Discord are not fair.
`Publish`, `Pull`, `Pipeline`, `Scopes`, `Upgrade`, `Admin`, `Resolver` and `Materialize` have safety properties only.

## 4. What the violation runs show

1. **`deploy_running`**. A rollback must bring back the compatible combination of
   world, artifacts and runtime. After a failed start or health check the
   containers that run are never stopped: they go on with the failed release on
   the restored world. (After a failed *shipping* all are down, and the
   rollback does what is promised: `ShipFailureRolledBack`, proved.)
2. **`upgrade_compose`**. The release slip must record the Compose file that the commit
   will hold. An upgrade's `promote` edits `docker-compose.yml` and seals the slip anew
   (`promote.py:280`) before it asks for the approval. The gate is asked for the slip as it was loaded
   (`promote.py:349`, 368), so a candidate that was approved before passes at once and stages the file. But a `promote`
   that is refused, since nobody has approved yet, leaves the edited file and the new seal behind. The next one, after the
   approval of that slip, finds nothing to reconcile and does not stage the file (`promote.py:292`).

Met while reading, and not run.

*Deployment.* A crashed run must refuse all deployments until an operator
resolves it (`deploy.py:25`, line 1358 of the spec), but a retry of the same release is refused and the
FAILED it journals under the same run ID (`deploy_runtime.py:307`) resolves the crashed run; a
failed recovery must be resolved before the next deployment (line 1457 of the spec), but it ends
in RECOVERY_FAILED and FAILED (`recovery.py:204`, `deploy.py:384`), both terminal (`journal.py:89`),
so the next deployment is admitted; `health.py:10` and line 1419 of the spec speak of a restart during the
whole health window, but the count is compared once (`health.py:303`), before the answers are
awaited; two publishers of different releases read the last hash and append under
no lock (`publish.py:927`) and fork the chain that section 7.1 of the spec wants unbroken, after
which nothing verifies (`overlapped` in `Publish`); a mod that an override skips leaves its
dependents in the release without it (`resolver.py`, the `skipped` of `RequirementsMet`), and a
requirement stays in the release when all that required it was dropped; the spec (section 15.1.1)
lists the cascade before the cycles, while the code refuses a cycle even through mods that the
cascade would have dropped; the `mkdir` of the registry's directory
(`publish.py:948`) fails with an `OSError` that passes the roll-back of the committed bundle;
the lock leaks when the LOCK_ACQUIRED append fails (`deploy.py:544` is before
the `try`); an unreadable jar is treated as an addition and lost; nothing calls
`is_stale` at start-up though `lock.py` says so; an `OSError` of a shipping journal write
leaves `ship()` past its rollback, although its docstring says that it never raises (the
refinement lets it be torn); a failed client or pack write leaves the servers down
if the server scope was requested too (`main.py:1262`, Project_Specs section 4.7 says
otherwise); `/deploy` ignores its idempotency key, which the spec (line 1483) requires on every
POST; without `source_host` it answers code 22 where the spec (line 2074) says 501; daemon and
deployment lock are given one path (`daemon/main.py:120`, `deploy_runtime.py:346`); `_scan_jar_inventory`
says symlinks are ignored but `is_file` follows them; FAILED is
journaled before recovery begins, so a crash during recovery is not seen as
unresolved; an upgrade without a prior bundle restores the world under the new mods. `verify_release`
reads the manifest and none of the files it lists (`Deployable`); the `.sig` files are exempt from
the check of a pull. `publish` never checks that its own signing key is a trusted one (only
`--verify-only` loads these), so a release may be published that never verifies.

*Pipeline and scopes.* A dry run looks neither at RCON nor at the failure and online templates, and
may pass where the live run exits with 3. `_RconSet` chooses transports for all configured
instances, also outside the partition, and a container missing by then ends the run after its preflight passed. Under a slip
the preflight counts jars of both sides as changes (`changes.py:92`), the scope writes those of the server.
Files that only the destination has are announced as removed, in merge mode and if protected also. A slip's
`config_deletions` are compared with the patterns by the name of the entry: a directory is removed with the
protected files in it. A copy that fails is a warning and the scope a success. In delete mode a
source file that cannot be read is removed from the destination. A crash between ZIP and page loses
the changelog. A pack edited between its hash and its copy is published under the other's SHA-1, and
a targeted run that publishes a shared pack leaves the other members' SHA-1 behind. The prompt asks
again for jars that have an answer. Jars marked "skipped" or for the client are included on a server if a jar requires them.
Without an index directory every unprotected jar is removed. `BotDaemonNotifier` promises failure for
every answer that is not 2xx, and takes any below 400 for a success (`notifications.py:676`). A change of the prompt alone is written,
though the log says "deferred".

*Composition.* Network errors are attempts that the usage log never sees, though `providers/http.py:31`
counts every attempt. The byte limit of artifacts is never passed to the transport. The approval is not asked for again
between the gate and the copy of the slip (`promote.py:368`, 375): a release may be written whose last word is by then a
rejection. Two materializations that both found no jar of a name replace each other's (`materialize.py:246`,
255), which the collision check is there to refuse. A required dependency that a provider declares without an ID
is neither followed nor reported (`resolver.py:226`). CurseForge's
paging argument is unused: the same page is fetched up to five times. Nothing creates
`candidates/<run>/artifacts`, which `build_client.py:66` and `slip_context.py:187` need. The log is read up to
the first line that is older or odd, and a line cut off swallows the next record. `materialize.py:841`
advises to edit `side_overrides.toml` and run again, but the integrity check hashes that file
(`integrity.py:62`): the command exits with 3 until `update` is run.

## 5. Theorems

All hold for any sets of files, hashes, daemons, releases, containers, publishers, requests, keys
and mods that satisfy `ShippingAssumption`, `DeployAssumption`, `PublishAssumption`,
`AdminAssumption`, `ResolverAssumption`, `MaterializeAssumption`, `HealthAssumption`, `BotAssumption`,
`UpgradeAssumption`, `FilesAssumption`, `PreflightAssumption`, `PipelineAssumption` and
`ScopesAssumption` (the special values are distinct from the data; a run without `--instance` is about all members; a deployment has a container; a seed lists a file built in-house once;
a container is checked once, and its time limit leaves room for the answers required, as the
defaults do that `_build_health_specs` never changes).

**`FileProofs`.** *`Shipping`.* The invariant relates, for each program counter, the target to the
snapshot through the journal: a file in `Applied` is at its source hash and, if
it was there, in the backup; any other is as found. `JarsSafe` and
`ProtectedSafe` follow state by state. `Atomicity` is the refinement of
`LogicalTransaction`: steps before the end stutter, `Verify` maps to `Commit`, a
checked rollback to `Abort`, and a crash, an exception or an unchecked rollback to
`Tear`, whose condition (each file old or new) needs the invariant.

*`Scopes`.* `Closure` has the worklist of `expand_with_required` as a recursive function of the number of rounds. That the prover takes no
induction theorem is got around with the smallest counterexample, which is first-order (`Smallest`):
`Grows` and `GrowthEnds` show that a set which grows by what a function adds to it is, after as many
rounds as there are elements, the least closed one, since the rounds that add something are at most so many.
Hence `ClosureIsLeast`, and `WantedJarsFound`: what an undisturbed run ships to a side is what
the sources, the index, the overrides and the manifests ask for. The invariant `ScopesInv` takes this through a run:
`Fresh` (the manifests read are those there), `Arranged` and `Pending` (in the tree being written a file is
in order, or listed to remove or to copy, and only what may be), `TreesDone`, `ClientDone` and `PackDone` (what a
phase has left behind is in order); at the end that is `CleanRunConverges`. `Announced` and
`PackAnnounced` say that the plan asks of each member at least what the policy asks of
whatever still differs, for as long as it differs; a step of `WriteDiscipline` writes nothing else. TLC checked the
parts on the instance of `scopes` first. Both theorems hold for any finite set of files and any members, dependencies, sides, policies,
slips and command lines, and any disturbance of the runs before.

**`DeployProofs`.** `Inv` has seven parts. `Exclusive` (a process in the
pipeline has its lock in place) is what `OneDeployment` needs and what makes the
rest hold with several daemons: while one is in the pipeline nobody else changes
mods, containers or backups. `Forward` says stage by stage what the deployment has brought
about (`ShippedWhileStopped`, `CompleteIsDeployed`). `Saved` says that once a
backup is whole some backup holds the players' world: a backup of a world made
anew is possible only when an older one exists (`WorldRecoverable`). `Back` and
`RolledBack` carry a failure to the return: containers come up one by one, on what the
recovery has restored (`FailureLeavesServicesUp`, `ShipFailureRolledBack`). `OutcomeJournaled`
is a part of its own, which rests on `Exclusive`, `Busy` and `Back`: the pipeline journals its outcome last,
and all that another daemon can journal for the same release until the lock is given back is that it
was refused.
Each part has a lemma that every step preserves it; TLC
checked each part on the instance of `deploy` first.

**`PublishProofs`.** `Owned` holds however publishers interleave: a publisher
between its commit and its append owns a bundle that no entry names and no other
such publisher shares. Hence a roll-back never removes a registered bundle, and
`RegistrationFinal` follows. While publishers do not overlap, `InTurn` adds that one
publisher runs (`Alone`), that the bundle it owns is the one it has signed
(`Sealed`), and that the hash it holds at the append is that of the last entry
(`Linked`): `BundlesInPlace`, `OneChain` and `PublishedStaysVerified`. `Pull` only reads what is
published (`PullsOnlyRead`), so that those hold beside any puller; a copy that verifies is a copy of
a bundle, and whole (`StoreVerified`), and with the chain unbroken what is deployable is what was
published (`DeployedAsPublished`).

**`AdminProofs`.** One inductive part for each property. `Trail`: a receipt that a handler
holds, returns or has stored is in the audit log. `Gated`: a release that waits in
a handler past the gate has passed it, whatever the other handlers did at the awaits in
between. `Pointing`: while nothing is `astray`, what the handler that waits is about
to record is `latest`, and if none waits the pointer is already there. `Answered`: a key that
is not loose is executed by at most one handler at a time and by none once its row
exists, and whatever was told for it is the row (`OneAnswer`).

**`ResolverProofs`.** `Basic` says that the frames of a search are resolved mods,
each a requirement of its caller (`Linked`), and which variables rest in which phase;
`TypeCorrect` needs it. `ChainsCorrect` follows: a chain is the reversed stack, after a
chain that is already right. For `RequirementsCorrect`, `Queued` says that what a resolved
mod requires is resolved, missing or still queued, with the mods of the seed ahead of
all others; `Settled` that in a round that has dropped nothing so far a mod already
visited from the current root lacks nothing, so that the last round proves
it of all. For `CyclesCorrect`, `Coloured` and `Searched` say that the mods which have left the stack
(black) are closed under requirements and have no cycle, and a step that takes one more
off the stack keeps it so: a set without a minimal mod could not contain it. A materialization leaves
the report alone (`ReportStands`); a sealed slip lists what was stored with its hash (`SealedStored`),
and a jar under copy finds no sealed slip (`Stored`). `Accounted` adds up the budget in the weights of answers:
what the log counts, with what may still be recorded by this command and the other one, is less than two of the
heaviest answers above the budget, and the log misses two answers at most for each record that was not written, of
which a line cut off has not swallowed the second yet (`Dangling`, `Missed`; `BudgetIsKept`).

**`HealthProofs`.** `Basic` has the types and `TodoOK`: the containers still to be checked
are an end of the list, without a result. For `FaultsAreNoticed`, `Noticed` follows a
fatal marker and a restart through the checks: a marker that was read has failed the check, and as
long as no call has failed a container in `restarted` has a count above its baseline until
the comparison. For `HealthyAlwaysPasses`, `Sound` says that a
server which is not flawed has an empty log until it is up and no marker in it after, and
`InTime` that its answers so far and the time left suffice for those still required.

**`ApprovalProofs`.** *`Bot`.* A text that was shown, or is about to be, tells what has happened to the
process, and a second text for one interaction is the report of an unclear failure: the
invariant says so for each state of a task (`AnswersCorrect`); for a notification it relates the
copies shown to where it is on its way and to what the notifier was told (`NoticesCorrect`). For
`NobodyIsForgotten`, `TellInv` says in which states of a task nothing was shown yet, and how many
texts Discord has refused in them.

*`Upgrade`.* One command of the operator runs at a time, so that what it read of its run still stands
when it writes (`Standing`), and the candidate under promotion is the one whose approval will be asked
for, but for a Compose file that an upgrade has reconciled (`SamePromoted`); hence `SealsStand`. `Asked`
says that a run gets past its losses, in the state file or in a command under way, only with the
acknowledgment on disk, which is written first (`LossesAreAcknowledged`). `Once` says of an interaction that is not
`muddled` that one delivery at most is at work on it, and none once its record is in the audit log
(`RecordedOnce`); so no delivery at work repeats a word, and the current record of a run is a person's
last word (`LastWord`), which is what the gate of `promote` compares. From the gate to the copy the command
remembers that word and hour, and that they approve what it is about to write (`Granted`): hence `OnlyApproved`. These parts are inductive
together; TLC has checked them on the instance of `upgrade` first.

**`PipelineProofs`.** Between any two steps somebody else may stop or start a server, so that the
proof is about those that nobody else has started since the run began and that are still up
(`Steady`): they were up all along. `Captured` says that the preflight has seen all of them, `Planned` that
its plan covers whatever is still to be written: who differs in jars or pack is to restart, who
differs in config at least to reload, if the restart policy says so. `Warned` follows them from there: at
the first stop all who are to restart and are steady are warned, at the first write none is left,
so that jars and `server.properties` never change under a steady server (`ProtocolFollowed`), and its
RCON is what the preflight found (`NoticesReach`). `Promised` keeps those who wait for an announced
restart among those who can be told otherwise (`KeepsPromises`); `Restored` keeps who was stopped
among those still to start, started or failed, and after a failed write of a run with the server scope says that none was
started (`RestoresServers`); `Served` says stage by stage what a
server has loaded (`SuccessServed`, which needs a restart policy other than `none` for config files: with
`none` an operator has chosen that a server lags); `Staged` and `Announced` relate the posts to the stage
(`AnnouncesOutcome`). TLC has checked every part on the instance of `pipeline` first.

Only model-checked: `DeploymentEnds`, `ChecksEnd` and `EveryoneTold` (liveness under fairness is out
of the prover's reach). Every other property that a passing run checks is a theorem. No module uses
RECURSIVE operators.

## 6. Plan

What is left: `Deploy`'s use of a shipping transaction as `LogicalTransaction`; `Admin`'s deployment
as an abstraction of `Deploy`.

## 7. Not modelled

Installer, changelog, audits and generators (user interface, reports, text: no protocol);
configuration parsing, authentication tokens and wiring (no state that changes); the parsing of arguments
and the wording of messages; contents of jars, slips and manifests (hashes and names are values);
the choice among several versions and channels of a mod; the text of `server.properties`;
directories and their pruning; the shared items of the web directory. Disk contents after power loss are
those of the completed system calls. Spec 12.8 (runtime staging) has no code.
