------------------------------- MODULE Health -------------------------------
(***************************************************************************)
(* The health checks after a start (deploy_pack/daemon/health.py) against  *)
(* the servers they look at (health_probe.py): one container after the     *)
(* other is asked whether it runs, whether its log shows that it has       *)
(* started, whether it has restarted meanwhile and whether it answers.     *)
(*                                                                         *)
(* Every look is a call of its own and the servers go on between two of    *)
(* them.  Time is counted in poll intervals.  A step of the loops is one   *)
(* look, what the code makes of it, and the sleep after it.                *)
(***************************************************************************)
EXTENDS Naturals, Sequences, FiniteSetsExt, SequencesExt

CONSTANTS
    Specs,          \* the containers, in the order in which they are checked
    Timeout,        \* timeout_seconds, in poll intervals
    RconInterval,   \* rcon_list_interval_seconds, in poll intervals
    Required,       \* rcon_list_required_successes
    MaxRestarts,    \* bound on the restarts of a container
    MaxHiccups,     \* bound on the calls to Docker that fail
    None

Containers == ToSet(Specs)

\* The results of a check, and what the journal is told.
Verdicts == {"running", "marker", "sentinel", "restarted", "list", "passed"}
Stages == {"HEALTH_CHECK_STARTED", "HEALTH_CHECK_PASSED", "HEALTH_CHECK_FAILED"}

\* _build_health_specs leaves every check its defaults, with time for the answers required.
ASSUME HealthAssumption ==
    /\ Specs \in Seq(Containers) /\ IsInjective(Specs) /\ Specs # <<>>
    /\ Timeout \in Nat /\ RconInterval \in Nat \ {0} /\ Required \in Nat \ {0}
    /\ (Required - 1) * RconInterval <= Timeout
    /\ MaxRestarts \in Nat /\ MaxHiccups \in Nat
    /\ None \notin Verdicts \cup Stages

VARIABLES
    server,     \* booting, up, or down for good
    tail,       \* what of the lines the checks look for is in the end of the log
    restarts,   \* RestartCount
    hiccups,    \* calls to Docker that have failed
    pc,
    todo,       \* the containers not yet checked, the one under check first
    baseline,   \* baseline_restarts
    left,       \* time to the deadline of the loop
    successes,  \* of list
    result,     \* for each container None, passed, or the check that it failed
    stage,      \* the last stage in the journal
    \* What happened, for the properties:
    marker,     \* of the fatal markers since the start: none, unread, read or missed
    restarted,  \* the containers that restarted while their start was watched
    flawed      \* the containers to which anything happened for which they might fail

servers == <<server, tail, restarts>>
locals == <<todo, baseline, left, successes>>
witness == <<marker, restarted, flawed>>
vars == <<servers, hiccups, pc, locals, result, stage, witness>>

Least(a, b) == Min({a, b})

\* The log outlives a stop and a start, so what an earlier run has left may still be in
\* its tail; and a container may have restarted before.
Init ==
    /\ server = [c \in Containers |-> "booting"]
    /\ tail \in [Containers -> SUBSET {"done", "fatal"}]
    /\ restarts \in [Containers -> {0, 1} \cap 0..MaxRestarts]
    /\ hiccups = 0
    /\ pc = "begin" /\ todo = Specs
    /\ baseline = 0 /\ left = 0 /\ successes = 0
    /\ result = [c \in Containers |-> None] /\ stage = None
    /\ marker = [c \in Containers |-> "none"]
    /\ restarted = {}
    /\ flawed = {c \in Containers : tail[c] # {}}

Checking == Head(todo)

-----------------------------------------------------------------------------
(* The servers.  After its result nobody looks at a container again.  *)

Watched(c) == result[c] = None /\ pc # "raised"

ServerUnchanged == UNCHANGED <<hiccups, pc, locals, result, stage>>

\* "Done (" is printed.
Boots(c) ==
    /\ Watched(c) /\ server[c] = "booting"
    /\ server' = [server EXCEPT ![c] = "up"]
    /\ tail' = [tail EXCEPT ![c] = @ \cup {"done"}]
    /\ UNCHANGED <<restarts, marker, restarted, flawed>>
    /\ ServerUnchanged

\* A fatal marker is printed, whether the server survives it or not.
Complains(c) ==
    /\ Watched(c) /\ server[c] # "down"
    /\ tail' = [tail EXCEPT ![c] = @ \cup {"fatal"}]
    /\ marker' = [marker EXCEPT ![c] = "unread"]
    /\ flawed' = flawed \cup {c}
    /\ UNCHANGED <<server, restarts, restarted>>
    /\ ServerUnchanged

\* It dies and is restarted by its restart policy.
Restarts(c) ==
    /\ Watched(c) /\ server[c] # "down" /\ restarts[c] < MaxRestarts
    /\ server' = [server EXCEPT ![c] = "booting"]
    /\ restarts' = [restarts EXCEPT ![c] = @ + 1]
    /\ restarted' = IF pc \in {"sentinel", "compare"} /\ c = Checking
                    THEN restarted \cup {c} ELSE restarted
    /\ flawed' = flawed \cup {c}
    /\ UNCHANGED <<tail, marker>>
    /\ ServerUnchanged

\* It ends, and stays so.
Exits(c) ==
    /\ Watched(c) /\ server[c] # "down"
    /\ server' = [server EXCEPT ![c] = "down"]
    /\ flawed' = flawed \cup {c}
    /\ UNCHANGED <<tail, restarts, marker, restarted>>
    /\ ServerUnchanged

\* So much is logged that a line leaves the tail.
Scrolls(c, line) ==
    /\ Watched(c) /\ line \in tail[c]
    /\ tail' = [tail EXCEPT ![c] = @ \ {line}]
    /\ marker' = [marker EXCEPT ![c] =
                    IF line = "fatal" /\ @ = "unread" THEN "missed" ELSE @]
    /\ flawed' = IF line = "done" THEN flawed \cup {c} ELSE flawed
    /\ UNCHANGED <<server, restarts, restarted>>
    /\ ServerUnchanged

\* A call takes time of its own.
TimePasses ==
    /\ pc \in {"sentinel", "logs", "list"} /\ left > 0
    /\ left' = left - 1
    /\ flawed' = flawed \cup {Checking}
    /\ UNCHANGED <<servers, hiccups, pc, todo, baseline, successes, result, stage, marker,
                   restarted>>

Servers ==
    \E c \in Containers :
        \/ Boots(c) \/ Complains(c) \/ Restarts(c) \/ Exits(c)
        \/ \E line \in {"done", "fatal"} : Scrolls(c, line)

-----------------------------------------------------------------------------
(* The probe.  A call that fails is answered like one for no container. *)

\* `blank`: the call to Docker fails.
Call(blank) ==
    IF blank
    THEN /\ hiccups < MaxHiccups /\ hiccups' = hiccups + 1
    ELSE hiccups' = hiccups

Running(blank) == ~blank /\ server[Checking] # "down"
RestartCount(blank) == IF blank THEN 0 ELSE restarts[Checking]
RecentLogs(blank) == IF blank THEN {} ELSE tail[Checking]

\* What a look at the log, or one that fails, does to the witnesses.  A server that has
\* not started when its time is up is late.
Read(blank) ==
    /\ marker' = [marker EXCEPT ![Checking] =
                    IF @ # "unread" THEN @ ELSE IF blank THEN "missed" ELSE "read"]
    /\ flawed' = IF blank \/ (pc = "sentinel" /\ left = 0 /\ server[Checking] = "booting")
                 THEN flawed \cup {Checking} ELSE flawed
    /\ UNCHANGED restarted

Asked(blank) ==
    /\ flawed' = IF blank THEN flawed \cup {Checking} ELSE flawed
    /\ UNCHANGED <<marker, restarted>>

-----------------------------------------------------------------------------
(* The checks of one container. *)

Conclude(verdict) ==
    /\ result' = [result EXCEPT ![Checking] = verdict]
    /\ todo' = Tail(todo)
    /\ pc' = IF Len(todo) = 1 THEN "report" ELSE "running"

Continue(next) == pc' = next /\ UNCHANGED <<todo, result>>

CheckRunning ==
    /\ pc = "running"
    /\ \E blank \in BOOLEAN :
         /\ Call(blank) /\ Asked(blank)
         /\ IF Running(blank) THEN Continue("baseline") ELSE Conclude("running")
    /\ UNCHANGED <<servers, baseline, left, successes, stage>>

\* Mutation of CaptureBaseline: the count is taken to be none.
CaptureNothing ==
    /\ pc = "baseline"
    /\ baseline' = 0 /\ left' = Timeout
    /\ Continue("sentinel")
    /\ UNCHANGED <<servers, hiccups, successes, stage, witness>>

CaptureBaseline ==
    /\ pc = "baseline"
    /\ \E blank \in BOOLEAN :
         /\ Call(blank) /\ Asked(blank)
         /\ baseline' = RestartCount(blank)
    /\ left' = Timeout
    /\ Continue("sentinel")
    /\ UNCHANGED <<servers, successes, stage>>

\* Mutation of PollsLeft: the deadline is renewed with every poll.
PollsLeftRenewed == Timeout

PollsLeft == left - Least(1, left)

CheckStartupSentinel ==
    /\ pc = "sentinel"
    /\ \E blank \in BOOLEAN :
         /\ Call(blank) /\ Read(blank)
         /\ LET logs == RecentLogs(blank) IN
              \/ /\ "fatal" \in logs
                 /\ Conclude("marker") /\ UNCHANGED left
              \/ /\ "fatal" \notin logs /\ "done" \in logs
                 /\ Continue("compare") /\ UNCHANGED left
              \/ /\ logs = {} /\ left > 0
                 /\ Continue("sentinel") /\ left' = PollsLeft
              \/ /\ logs = {} /\ left = 0
                 /\ Conclude("sentinel") /\ UNCHANGED left
    /\ UNCHANGED <<servers, baseline, successes, stage>>

\* _check_no_unexpected_restart, and the deadline of the loop that follows.
CompareRestarts ==
    /\ pc = "compare"
    /\ \E blank \in BOOLEAN :
         /\ Call(blank) /\ Asked(blank)
         /\ IF RestartCount(blank) = baseline
            THEN Continue("logs") /\ left' = Timeout /\ successes' = 0
            ELSE Conclude("restarted") /\ UNCHANGED <<left, successes>>
    /\ UNCHANGED <<servers, baseline, stage>>

\* Each turn of _check_rcon_list looks at the log first ...
LogsBeforeList ==
    /\ pc = "logs"
    /\ \E blank \in BOOLEAN :
         /\ Call(blank) /\ Read(blank)
         /\ IF "fatal" \in RecentLogs(blank) THEN Conclude("marker") ELSE Continue("list")
    /\ UNCHANGED <<servers, baseline, left, successes, stage>>

Interval == Least(RconInterval, left)

\* ... and then asks for the players.
Answers(enough) ==
    /\ pc = "list" /\ server[Checking] = "up"
    /\ successes' = successes + 1
    /\ enough <=> successes' >= Required
    /\ UNCHANGED <<servers, hiccups, baseline, stage, marker, restarted, flawed>>

AnswersAgain ==
    /\ Answers(FALSE) /\ left > 0
    /\ Continue("logs")
    /\ left' = left - Interval

AnswersTooLate ==
    /\ Answers(FALSE) /\ left = 0
    /\ Conclude("list")
    /\ UNCHANGED left

AnswersEnough ==
    /\ Answers(TRUE)
    /\ Continue("final")
    /\ UNCHANGED left

\* A server that is up may fail to answer, too.
ListFails ==
    /\ pc = "list"
    /\ IF left > 0 THEN Continue("logs") ELSE Conclude("list")
    /\ left' = PollsLeft
    /\ flawed' = flawed \cup {Checking}
    /\ UNCHANGED <<servers, hiccups, baseline, successes, stage, marker, restarted>>

\* Mutation of CheckNoFatalMarkers: the last look is left out.
PassAtOnce ==
    /\ pc = "final"
    /\ Conclude("passed")
    /\ UNCHANGED <<servers, hiccups, baseline, left, successes, stage, witness>>

CheckNoFatalMarkers ==
    /\ pc = "final"
    /\ \E blank \in BOOLEAN :
         /\ Call(blank) /\ Read(blank)
         /\ Conclude(IF "fatal" \in RecentLogs(blank) THEN "marker" ELSE "passed")
    /\ UNCHANGED <<servers, baseline, left, successes, stage>>

-----------------------------------------------------------------------------
(* run_health_checks. *)

\* The append to the journal may fail: nothing is checked, or nothing is told.
Begin ==
    /\ pc = "begin"
    /\ \/ stage' = "HEALTH_CHECK_STARTED" /\ pc' = "running"
       \/ stage' = stage /\ pc' = "raised"
    /\ UNCHANGED <<servers, hiccups, locals, result, witness>>

Report ==
    /\ pc = "report"
    /\ \/ /\ stage' = IF \A c \in Containers : result[c] = "passed"
                      THEN "HEALTH_CHECK_PASSED" ELSE "HEALTH_CHECK_FAILED"
          /\ pc' = "ended"
       \/ stage' = stage /\ pc' = "raised"
    /\ UNCHANGED <<servers, hiccups, locals, result, witness>>

\* Docker does not answer at all: the client's own error is none of those that the probe
\* expects, and leaves run_health_checks.
DockerUnreachable ==
    /\ pc \in {"running", "baseline", "sentinel", "compare", "logs", "final"}
    /\ pc' = "raised"
    /\ UNCHANGED <<servers, hiccups, locals, result, stage, witness>>

Check ==
    \/ Begin \/ DockerUnreachable \/ CheckRunning \/ CaptureBaseline \/ CheckStartupSentinel
    \/ CompareRestarts \/ LogsBeforeList
    \/ AnswersAgain \/ AnswersTooLate \/ AnswersEnough \/ ListFails
    \/ CheckNoFatalMarkers \/ Report

Next == Check \/ Servers \/ TimePasses

Spec == Init /\ [][Next]_vars /\ WF_vars(Check)

-----------------------------------------------------------------------------
(* Properties *)

\* The state is well formed.
TypeOK ==
    /\ server \in [Containers -> {"booting", "up", "down"}]
    /\ tail \in [Containers -> SUBSET {"done", "fatal"}]
    /\ restarts \in [Containers -> 0..MaxRestarts]
    /\ hiccups \in 0..MaxHiccups
    /\ pc \in {"begin", "running", "baseline", "sentinel", "compare", "logs", "list",
              "final", "report", "ended", "raised"}
    /\ \E i \in 0..Len(Specs) : todo = SubSeq(Specs, i + 1, Len(Specs))
    /\ baseline \in Nat /\ left \in 0..Timeout /\ successes \in 0..Required
    /\ result \in [Containers -> Verdicts \cup {None}]
    /\ stage \in Stages \cup {None}
    /\ marker \in [Containers -> {"none", "unread", "read", "missed"}]
    /\ restarted \subseteq Containers /\ flawed \subseteq Containers

Passed(c) == result[c] = "passed"

\* A deployment passes only if every server has passed.  One has passed only if it has
\* printed no fatal marker since its start, up to the last look at it, but for a line that
\* had left the tail, or that a failed call hid, before the next look (health.py:28-38); and
\* only if it has not restarted while its start was watched (health.py:15), unless a call to
\* Docker failed, which is answered with a count of its own.
FaultsNoticed ==
    /\ stage = "HEALTH_CHECK_PASSED" => \A c \in Containers : Passed(c)
    /\ \A c \in Containers : Passed(c) =>
         /\ marker[c] \in {"none", "missed"}
         /\ hiccups = 0 => c \notin restarted

\* No false alarm: a server that starts in time on an empty log, prints no fatal marker, goes
\* on running and answers promptly whenever it is asked passes, whatever happens to the
\* others.
HealthyPasses ==
    \A c \in Containers : result[c] \notin {None, "passed"} => c \in flawed

\* Every check ends, whatever the servers do.
ChecksEnd == <>(pc \in {"ended", "raised"})
=============================================================================
