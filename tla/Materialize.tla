---------------------------- MODULE Materialize ----------------------------
(***************************************************************************)
(* What follows a resolution: `materialize` fetches the jars of a report   *)
(* into the warehouse and seals a packing slip over them                   *)
(* (cli/commands/materialize.py).  Each request to a provider goes through *)
(* the transport with its retries (providers/http.py) and through the      *)
(* budget, which is counted from a log (usage.py): requests to the api,    *)
(* and bytes of downloads.  `build-inhouse` may replace a jar of the       *)
(* warehouse at any time (build/runner.py), and other runs fill it too.    *)
(*                                                                         *)
(* The bytes of a jar are Right, what the report or the seed recorded, or  *)
(* Other.  A jar has the name of its mod.                                  *)
(***************************************************************************)
EXTENDS Resolver

CONSTANTS
    Right, Other, Torn, Absent,
    Chosen(_),      \* the reports with which the operator goes on
    Unhashed,       \* mods for which their provider declares no hash
    Cap,            \* the budget of a window: requests to the api, bytes of downloads
    Largest,        \* bound: the bytes of an answer to a download
    MaxRetries,
    MaxLapses,      \* bound: records of the usage log that are not written
    MaxBuilds       \* bound: builds of a jar

Kinds == {"api", "download"}
Bytes == {Right, Other}
Hashes == [Mods -> Bytes \cup {None}]
Answers == {"ok", "busy", "refused"}    \* a success; 429 or a server error; a refusal

\* What an answer takes of the budget: a request, or its bytes.
Weights(k) == IF k = "api" THEN {1} ELSE 0..Largest
Heaviest(k) == IF k = "api" THEN 1 ELSE Largest

\* A request to a provider, in its stages and steps, its attempts, the weight of its last
\* answer, and the jar that was served.
Requests == [mod : Projects, stage : {"versions", "project", "artifact"},
             step : {"check", "send", "answered", "hints", "copy"} \cup Answers,
             try : Nat, weight : Nat, jar : Bytes \cup {None}]

ASSUME MaterializeAssumption ==
    /\ Unhashed \subseteq Projects
    /\ Absent \notin Bytes /\ Torn \notin Bytes \cup {Absent}
    /\ None \notin Bytes \cup Hashes \cup Requests
    /\ None \notin {"resolved", "materialized"}
    /\ Cap \in [Kinds -> Nat] /\ Largest \in Nat \ {0} /\ MaxRetries \in Nat
    /\ MaxLapses \in Nat /\ MaxBuilds \in Nat

VARIABLES
    mat,            \* where the command is; "update" while the resolver runs
    status,         \* state.toml
    warehouse,      \* sync/downloads
    slip,           \* the sealed slip: the hash of each jar
    todo, fetched,  \* the jars still to fetch, and the hashes of the others
    request,        \* the request under way
    used, torn,     \* usage.jsonl: what it counts in the window; its last line is cut off
    other,          \* another command that has seen room in the budget
    rival,          \* a jar that another run has not found in the warehouse
    \* what happened, for the properties
    sent,           \* what was answered in the window
    lapses, builds, overwritten

fileVars == <<status, warehouse, slip>>
fetchVars == <<todo, fetched, request>>
usageVars == <<used, torn, other, sent, lapses>>
buildVars == <<rival, builds, overwritten>>
matVars == <<mat, fileVars, fetchVars, usageVars, buildVars>>

MatInit ==
    /\ Init
    /\ mat = "update" /\ status = None /\ slip = None
    /\ warehouse = [m \in Mods |-> IF m \in Files THEN Right ELSE Absent]
    /\ todo = {} /\ fetched = [m \in Mods |-> None] /\ request = None
    /\ used = [k \in Kinds |-> 0] /\ sent = used /\ torn = FALSE /\ other = None
    /\ rival = None /\ lapses = 0 /\ builds = 0 /\ overwritten = {}

Resolve == mat = "update" /\ Next /\ UNCHANGED matVars

\* update ends with its state file: the report is what remains of it.  Of the mods that
\* it resolved, other releases may have left any jar in the warehouse.
UpdateEnds ==
    /\ mat = "update" /\ pc = "done"
    /\ Chosen(report) /\ report.status # "failed"
    /\ resolved' = <<>> /\ extra' = {} /\ failed' = {}
    /\ requires' = [m \in Mods |-> <<>>] /\ chain' = [m \in Mods |-> <<>>]
    /\ visited' = {}
    /\ mat' = "ready" /\ status' = "resolved"
    /\ \E jars \in [report.shipped \cap Projects -> {Right, Other, Absent}] :
         warehouse' = [m \in Mods |-> IF m \in DOMAIN jars THEN jars[m] ELSE warehouse[m]]
    /\ UNCHANGED <<pc, inputVars, work, roots, stack, changed, endVars, slip,
                   fetchVars, usageVars, buildVars>>

-----------------------------------------------------------------------------
(* The command. *)

Shipped == report.shipped

\* The command returns, with any exit code: its staging is removed, it can be run again.
Quits ==
    /\ mat' = "ready"
    /\ todo' = {} /\ fetched' = [m \in Mods |-> None] /\ request' = None

\* check_integrity reads the seed again, with the jars that were built in-house.  A run
\* that waited for an acknowledgment has got it.
Begin ==
    /\ mat = "ready" /\ status = "resolved"
    /\ \A m \in ToSet(inHouse) : warehouse[m] = Right
    /\ mat' = "fetch" /\ todo' = Shipped
    /\ UNCHANGED <<vars, fileVars, fetched, request, usageVars, buildVars>>

Fetching(m) == mat = "fetch" /\ request = None /\ m \in todo

Got(m, bytes) ==
    /\ fetched' = [fetched EXCEPT ![m] = bytes]
    /\ todo' = todo \ {m}
    /\ request' = None /\ mat' = mat

\* _verify_in_house: the jar must still be that of the seed.
VerifyInHouse(m) ==
    /\ Fetching(m) /\ m \in Files
    /\ IF warehouse[m] = Right
       THEN Got(m, Right) /\ overwritten' = overwritten \ {m}
       ELSE Quits /\ overwritten' = overwritten
    /\ UNCHANGED <<vars, fileVars, usageVars, rival, builds>>

-----------------------------------------------------------------------------
(* A request: up to MaxRetries + 1 attempts, each after a look at the budget. *)

Kind(stage) == IF stage = "artifact" THEN "download" ELSE "api"

Request(m, stage) ==
    [mod |-> m, stage |-> stage, step |-> "check", try |-> 0, weight |-> 0, jar |-> None]

\* _fetch_external begins with query_versions.
Query(m) ==
    /\ Fetching(m) /\ m \in Projects
    /\ request' = Request(m, "versions")
    /\ UNCHANGED <<vars, mat, fileVars, todo, fetched, usageVars, buildVars>>

At(step) == mat = "fetch" /\ request # None /\ request.step = step
KindAsked == Kind(request.stage)
Room(k) == used[k] < Cap[k]

\* Mutation of CheckCap: only before the first attempt.
CheckCapOnce ==
    /\ At("check") /\ (Room(KindAsked) \/ request.try > 0)
    /\ request' = [request EXCEPT !.step = "send"]
    /\ UNCHANGED <<vars, mat, fileVars, todo, fetched, usageVars, buildVars>>

CheckCap ==
    /\ At("check") /\ Room(KindAsked)
    /\ request' = [request EXCEPT !.step = "send"]
    /\ UNCHANGED <<vars, mat, fileVars, todo, fetched, usageVars, buildVars>>

\* UsageCapExceeded, or the log cannot be read: no adapter catches either.
NoBudget ==
    /\ At("check")
    /\ Quits
    /\ UNCHANGED <<vars, fileVars, usageVars, buildVars>>

Again == request' = [request EXCEPT !.step = "check", !.try = @ + 1]

\* The last attempt has failed.  The side hints of a project are dispensable.
GivesUp ==
    IF request.stage = "project"
    THEN request' = [request EXCEPT !.step = "hints"] /\ UNCHANGED <<mat, todo, fetched>>
    ELSE Quits

\* A network error, or a body that breaks off: neither is recorded, nor counted here.
NetworkError ==
    /\ At("send")
    /\ IF request.try < MaxRetries
       THEN Again /\ UNCHANGED <<mat, todo, fetched>>
       ELSE GivesUp
    /\ UNCHANGED <<vars, fileVars, usageVars, buildVars>>

\* A body is read whole, whatever its status: no caller sets a limit.
Responds(answer) ==
    /\ At("send")
    /\ \E w \in Weights(KindAsked) :
         /\ sent' = [sent EXCEPT ![KindAsked] = @ + w]
         /\ request' = [request EXCEPT !.step = answer, !.weight = w]
    /\ UNCHANGED <<vars, mat, fileVars, todo, fetched, used, torn, other, lapses, buildVars>>

\* A record after a line that was cut off is part of that line, which does not parse.
Recorded(k, w) ==
    /\ used' = IF torn THEN used ELSE [used EXCEPT ![k] = @ + w]
    /\ torn' = FALSE

\* _record_call, then the answer is returned, or the attempt repeated.
RecordCall(answer) ==
    /\ At(answer)
    /\ Recorded(KindAsked, request.weight)
    /\ IF answer = "busy" /\ request.try < MaxRetries
       THEN Again /\ UNCHANGED <<mat, todo, fetched>>
       ELSE IF answer = "ok"
       THEN /\ request' = [request EXCEPT !.step = "answered"]
            /\ UNCHANGED <<mat, todo, fetched>>
       ELSE GivesUp
    /\ UNCHANGED <<vars, fileVars, other, sent, lapses, buildVars>>

\* The append fails, which nothing catches, or the process dies in it or before.
RecordLost(answer) ==
    /\ At(answer) /\ lapses < MaxLapses
    /\ lapses' = lapses + 1
    /\ torn' \in {torn, TRUE}
    /\ Quits
    /\ UNCHANGED <<vars, fileVars, used, other, sent, buildVars>>

\* Modrinth: the hints of the project are asked for.  CurseForge: there may be a next
\* page.  Then the jar.
VersionsAnswered(next) ==
    /\ At("answered") /\ request.stage = "versions"
    /\ request' = Request(request.mod, next)
    /\ UNCHANGED <<vars, mat, fileVars, todo, fetched, usageVars, buildVars>>

ProjectAnswered ==
    /\ \/ At("answered") /\ request.stage = "project"
       \/ At("hints")
    /\ request' = Request(request.mod, "artifact")
    /\ UNCHANGED <<vars, mat, fileVars, todo, fetched, usageVars, buildVars>>

\* The version is not offered any more, has no download, or its body is malformed.
Unusable ==
    /\ At("answered") /\ request.stage # "project"
    /\ Quits
    /\ UNCHANGED <<vars, fileVars, usageVars, buildVars>>

Copies(bytes) ==
    /\ request' = [request EXCEPT !.step = "copy", !.jar = bytes]
    /\ UNCHANGED <<mat, todo, fetched>>

\* Mutation of Store: what has the name in the warehouse is reused unread.
StoreReuses(m, bytes) ==
    \/ warehouse[m] = Absent /\ Copies(bytes)
    \/ warehouse[m] # Absent /\ Got(m, bytes)

\* _copy_to_warehouse: the same bytes are reused, others of that name are a collision.
Store(m, bytes) ==
    \/ warehouse[m] = Absent /\ Copies(bytes)
    \/ warehouse[m] = bytes /\ Got(m, bytes)
    \/ warehouse[m] \notin {Absent, bytes} /\ Quits

\* The jar that was served must have the hashes of the report, if that has any.
FetchExternal(bytes) ==
    /\ At("answered") /\ request.stage = "artifact"
    /\ IF bytes = Right \/ request.mod \in Unhashed
       THEN Store(request.mod, bytes)
       ELSE Quits
    /\ UNCHANGED <<vars, fileVars, usageVars, buildVars>>

\* atomic_copy replaces what may have come there since the look.
CopyJar ==
    /\ At("copy")
    /\ warehouse' = [warehouse EXCEPT ![request.mod] = request.jar]
    /\ Got(request.mod, request.jar)
    /\ UNCHANGED <<vars, status, slip, usageVars, buildVars>>

-----------------------------------------------------------------------------
(* The slip. *)

Fetched == mat = "fetch" /\ todo = {}

\* Of one of the mods neither an override nor the jar, the provider or the .pw.toml of the
\* seed says on which side it belongs.
SidesUnresolved ==
    /\ Fetched
    /\ Quits
    /\ UNCHANGED <<vars, fileVars, usageVars, buildVars>>

\* _write_all_pw_tomls: with the hashes that were fetched.
WriteMetadata ==
    /\ Fetched
    /\ mat' = "metadata"
    /\ UNCHANGED <<vars, fileVars, fetchVars, usageVars, buildVars>>

\* parse_slip refuses what was assembled.
SlipRefused ==
    /\ mat = "metadata"
    /\ Quits
    /\ UNCHANGED <<vars, fileVars, usageVars, buildVars>>

SealSlip ==
    /\ mat = "metadata"
    /\ slip' = fetched
    /\ mat' = "sealed"
    /\ UNCHANGED <<vars, status, warehouse, fetchVars, usageVars, buildVars>>

SaveState ==
    /\ mat = "sealed"
    /\ status' = "materialized"
    /\ Quits
    /\ UNCHANGED <<vars, warehouse, slip, usageVars, buildVars>>

\* What has been fetched or sealed stays.  With an answer not yet recorded: RecordLost.
Killed ==
    /\ mat \in {"fetch", "metadata", "sealed"}
    /\ ~\E answer \in Answers : At(answer)
    /\ Quits
    /\ UNCHANGED <<vars, fileVars, usageVars, buildVars>>

-----------------------------------------------------------------------------
(* Others. *)

\* build-inhouse copies its jar over what is there, and not at once.  A build of another
\* jar changes nothing here.
BuildCopies(m) ==
    /\ mat # "update" /\ m \in ToSet(inHouse) /\ builds < MaxBuilds
    /\ warehouse' = [warehouse EXCEPT ![m] = Torn]
    /\ builds' = builds + 1 /\ overwritten' = overwritten \cup {m}
    /\ UNCHANGED <<vars, mat, status, slip, fetchVars, usageVars, rival>>

BuildCopied(m) ==
    /\ warehouse[m] = Torn
    /\ \E bytes \in Bytes : warehouse' = [warehouse EXCEPT ![m] = bytes]
    /\ UNCHANGED <<vars, mat, status, slip, fetchVars, usageVars, buildVars>>

\* The materialize of another run copies a jar of the same name, in the same two steps:
\* nothing locks the warehouse.
OtherFindsNone(m) ==
    /\ mat # "update" /\ rival = None
    /\ m \in Shipped \cap Projects /\ warehouse[m] = Absent
    /\ rival' = m
    /\ UNCHANGED <<vars, mat, fileVars, fetchVars, usageVars, builds, overwritten>>

OtherCopies ==
    /\ rival # None
    /\ \E bytes \in Bytes :
         /\ warehouse' = [warehouse EXCEPT ![rival] = bytes]
         /\ overwritten' = IF warehouse[rival] \in {Absent, bytes}
                           THEN overwritten ELSE overwritten \cup {rival}
    /\ rival' = None
    /\ UNCHANGED <<vars, mat, status, slip, fetchVars, usageVars, builds>>

\* A command on another run has the same log.
OtherChecks(k) ==
    /\ mat # "update" /\ other = None /\ Room(k)
    /\ other' = k
    /\ UNCHANGED <<vars, mat, fileVars, fetchVars, used, torn, sent, lapses, buildVars>>

OtherCalls ==
    /\ other # None
    /\ \E w \in Weights(other) :
         sent' = [sent EXCEPT ![other] = @ + w] /\ Recorded(other, w)
    /\ other' = None
    /\ UNCHANGED <<vars, mat, fileVars, fetchVars, lapses, buildVars>>

\* usage_window_hours without a request.
WindowPasses ==
    /\ used # [k \in Kinds |-> 0]
    /\ used' = [k \in Kinds |-> 0] /\ sent' = used'
    /\ UNCHANGED <<vars, mat, fileVars, fetchVars, torn, other, lapses, buildVars>>

Materialize ==
    \/ Begin
    \/ \E m \in Mods : VerifyInHouse(m) \/ Query(m)
    \/ CheckCap \/ NoBudget \/ NetworkError
    \/ \E answer \in Answers :
         Responds(answer) \/ RecordCall(answer) \/ RecordLost(answer)
    \/ \E next \in {"versions", "project", "artifact"} : VersionsAnswered(next)
    \/ ProjectAnswered \/ Unusable
    \/ \E bytes \in Bytes : FetchExternal(bytes)
    \/ CopyJar
    \/ SidesUnresolved \/ WriteMetadata \/ SlipRefused \/ SealSlip \/ SaveState
    \/ Killed

Others ==
    \/ \E m \in Mods : BuildCopies(m) \/ BuildCopied(m) \/ OtherFindsNone(m)
    \/ OtherCopies
    \/ \E k \in Kinds : OtherChecks(k)
    \/ OtherCalls \/ WindowPasses

MatNext == Resolve \/ UpdateEnds \/ Materialize \/ Others

MatSpec == MatInit /\ [][MatNext]_<<vars, matVars>>

-----------------------------------------------------------------------------
(* Properties *)

\* A slip lists the jars of its report, all of them, and each is in the warehouse with
\* the hash that the slip has: when a run is `materialized`, and also when it was killed
\* after the slip was written and fetches again.  Except for a jar that another process
\* has overwritten: that was built again since materialize has last read it
\* (build/runner.py:265 asks no one), or that another run had not found before this one
\* copied it, and then replaced by other bytes (materialize.py:246, 255).
SealedIsStored ==
    /\ status = "materialized" => slip # None
    /\ slip # None => \A m \in Mods :
         IF m \in Shipped THEN m \in overwritten \/ slip[m] = warehouse[m] ELSE slip[m] = None

\* What a provider answers in a window - the requests to its api, the bytes of its
\* downloads - exceeds the budget by less than two answers, as "a single download can
\* slightly exceed the cap; the next check catches it" (usage.py:344) and there is one
\* other command on the same log.  A record that could not be written is one answer
\* more, and so is the next one if the line was cut off ("its caps are checked before
\* every attempt and its log is updated after every response", http.py:201).
BudgetKept == \A k \in Kinds : sent[k] < Cap[k] + (2 + 2 * lapses) * Heaviest(k)
=============================================================================
