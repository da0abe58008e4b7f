---------------------------- MODULE HealthProofs ----------------------------
(* Theorems about Health, for any containers, times and numbers of events.   *)
EXTENDS Health, SequenceTheorems, TLAPS

-----------------------------------------------------------------------------
(* Types, and what is still to check. *)

Phases == {"begin", "running", "baseline", "sentinel", "compare", "logs", "list", "final",
           "report", "ended", "raised"}

\* Phases in which a container is under check, or is about to be.
AtWork == {"begin", "running", "baseline", "sentinel", "compare", "logs", "list", "final"}

ServersOK ==
    /\ server \in [Containers -> {"booting", "up", "down"}]
    /\ tail \in [Containers -> SUBSET {"done", "fatal"}]
    /\ restarts \in [Containers -> 0..MaxRestarts]

WitnessOK ==
    /\ marker \in [Containers -> {"none", "unread", "read", "missed"}]
    /\ restarted \subseteq Containers /\ flawed \subseteq Containers

\* The containers still to check are an end of the list, all different, without results.
TodoOK ==
    /\ pc \in Phases
    /\ \E i \in 0..Len(Specs) : todo = SubSeq(Specs, i + 1, Len(Specs))
    /\ todo \in Seq(Containers)
    /\ result \in [Containers -> Verdicts \cup {None}]
    /\ pc \in AtWork => todo # <<>>
    /\ \A k \in 1..Len(todo) : result[todo[k]] = None
    /\ \A j, k \in 1..Len(todo) : todo[j] = todo[k] => j = k

CountsOK ==
    /\ baseline \in Nat /\ left \in 0..Timeout /\ successes \in 0..Required
    /\ pc \in {"logs", "list"} => successes < Required

\* The journal holds the verdict of all containers, and nothing follows it.
StageOK ==
    /\ stage \in Stages \cup {None}
    /\ stage \in {"HEALTH_CHECK_PASSED", "HEALTH_CHECK_FAILED"} => pc = "ended"
    /\ stage = "HEALTH_CHECK_PASSED" => \A c \in Containers : Passed(c)

HiccupsOK == hiccups \in 0..MaxHiccups

Basic == ServersOK /\ HiccupsOK /\ WitnessOK /\ TodoOK /\ CountsOK /\ StageOK

\* The lesser of two times.
LEMMA LeastOf ==
    ASSUME NEW a \in Nat, NEW b \in Nat
    PROVE  Least(a, b) = IF a <= b THEN a ELSE b
<1>1. CASE a <= b
    <2>1. Min({a, b}) = a
        BY <1>1 DEF Min
    <2> QED
        BY <1>1, <2>1 DEF Least
<1>2. CASE ~(a <= b)
    <2>1. Min({a, b}) = b
        BY <1>2 DEF Min
    <2> QED
        BY <1>2, <2>1 DEF Least
<1> QED
    BY <1>1, <1>2

\* The container under check is one of those listed and has no result.
LEMMA Current ==
    ASSUME TodoOK, pc \in AtWork
    PROVE  /\ Checking \in Containers /\ result[Checking] = None
           /\ Len(todo) \in Nat \ {0} /\ Checking = todo[1]
<1>1. todo \in Seq(Containers) /\ todo # <<>>
    BY DEF TodoOK
<1>2. Len(todo) \in Nat \ {0} /\ Checking = todo[1] /\ todo[1] \in Containers
    BY <1>1 DEF Checking
<1>3. \A k \in 1..Len(todo) : result[todo[k]] = None
    BY DEF TodoOK
<1>4. result[todo[1]] = None
    BY <1>2, <1>3
<1> QED
    BY <1>2, <1>4

\* A check goes on to its next part.
LEMMA ContinueTodo ==
    ASSUME TodoOK, pc \in AtWork, NEW next \in AtWork, Continue(next)
    PROVE  TodoOK'
BY DEF TodoOK, Continue, AtWork, Phases

\* A check ends.
LEMMA ConcludeTodo ==
    ASSUME TodoOK, pc \in AtWork, NEW v \in Verdicts, Conclude(v)
    PROVE  TodoOK'
<1>1. /\ Checking \in Containers /\ Len(todo) \in Nat \ {0} /\ Checking = todo[1]
      /\ todo \in Seq(Containers) /\ todo # <<>>
    BY Current DEF TodoOK
<1>2. /\ todo' \in Seq(Containers) /\ Len(todo') = Len(todo) - 1
      /\ \A k \in 1..Len(todo') : todo'[k] = todo[k + 1]
    BY <1>1, HeadTailProperties DEF Conclude
<1>3. \E i \in 0..Len(Specs) : todo' = SubSeq(Specs, i + 1, Len(Specs))
    <2>1. PICK i \in 0..Len(Specs) : todo = SubSeq(Specs, i + 1, Len(Specs))
        BY DEF TodoOK
    <2>2. Len(Specs) \in Nat /\ Specs \in Seq(Containers)
        BY HealthAssumption
    <2>3. i + 1 <= Len(Specs)
        <3>1. i + 1 \in Int /\ Len(Specs) \in Int
            BY <2>2
        <3> QED
            BY <3>1, <2>1, <1>1, SubSeqEmpty
    <2>4. Tail(todo) = SubSeq(Specs, i + 2, Len(Specs))
        <3>1. Specs \in Seq(Containers) /\ i + 1 \in 1..Len(Specs)
              /\ Len(Specs) \in (i + 1)..Len(Specs) /\ (i + 1) + 1 = i + 2
            BY <2>2, <2>3
        <3> QED
            BY <3>1, <2>1, HeadTailOfSubSeq
    <2>5. i + 1 \in 0..Len(Specs) /\ (i + 1) + 1 = i + 2
        BY <2>2, <2>3
    <2> QED
        BY <2>4, <2>5 DEF Conclude
<1>4. result' \in [Containers -> Verdicts \cup {None}]
    BY <1>1 DEF Conclude, TodoOK
<1>5. \A j, k \in 1..Len(todo') : todo'[j] = todo'[k] => j = k
    <2>1. \A j, k \in 1..Len(todo) : todo[j] = todo[k] => j = k
        BY DEF TodoOK
    <2>2. ASSUME NEW j \in 1..Len(todo'), NEW k \in 1..Len(todo'), todo'[j] = todo'[k]
          PROVE  j = k
        <3>1. j + 1 \in 1..Len(todo) /\ k + 1 \in 1..Len(todo)
            BY <1>1, <1>2
        <3>2. todo[j + 1] = todo[k + 1]
            BY <1>2, <2>2
        <3>3. j + 1 = k + 1
            BY <2>1, <3>1, <3>2
        <3> QED
            BY <3>3
    <2> QED
        BY <2>2
<1>6. \A k \in 1..Len(todo') : result'[todo'[k]] = None
    <2>1. ASSUME NEW k \in 1..Len(todo') PROVE result'[todo'[k]] = None
        <3>1. k + 1 \in 1..Len(todo) /\ k + 1 # 1 /\ 1 \in 1..Len(todo)
            BY <1>1, <1>2
        <3>2. todo[k + 1] # todo[1] /\ result[todo[k + 1]] = None
            BY <3>1 DEF TodoOK
        <3> QED
            BY <3>2, <1>1, <1>2 DEF Conclude, TodoOK
    <2> QED
        BY <2>1
<1>7. pc' \in Phases /\ (pc' \in AtWork => todo' # <<>>)
    <2>1. CASE Len(todo) = 1
        BY <2>1 DEF Conclude, Phases, AtWork
    <2>2. CASE Len(todo) # 1
        <3>1. Len(todo') # 0
            BY <2>2, <1>1, <1>2
        <3> QED
            BY <3>1, <2>2 DEF Conclude, Phases, AtWork
    <2> QED
        BY <2>1, <2>2
<1> QED
    BY <1>2, <1>3, <1>4, <1>5, <1>6, <1>7 DEF TodoOK

\* A call to Docker is counted if it fails, and seen if it does not.
LEMMA Probed ==
    ASSUME Basic, pc \in AtWork, NEW b \in BOOLEAN, Call(b), Read(b) \/ Asked(b)
    PROVE  HiccupsOK' /\ WitnessOK'
<1> USE HealthAssumption
<1>1. Checking \in Containers
    BY Current DEF Basic
<1>2. HiccupsOK'
    BY DEF Basic, HiccupsOK, Call
<1>3. WitnessOK'
    BY <1>1 DEF Basic, WitnessOK, Read, Asked
<1> QED
    BY <1>2, <1>3

\* The journal while a check is at work.
LEMMA StageStays ==
    ASSUME Basic, pc \in AtWork, stage' = stage
    PROVE  StageOK'
BY DEF Basic, StageOK, AtWork

\* What the servers do on their own.
LEMMA ServersTyped ==
    ASSUME Basic, Servers \/ TimePasses
    PROVE  Basic'
<1> USE HealthAssumption
<1>1. CASE Servers
    <2>1. PICK c \in Containers :
            \/ Boots(c) \/ Complains(c) \/ Restarts(c) \/ Exits(c)
            \/ \E line \in {"done", "fatal"} : Scrolls(c, line)
        BY <1>1 DEF Servers
    <2>2. UNCHANGED <<hiccups, pc, locals, result, stage>>
        BY <2>1 DEF Boots, Complains, Restarts, Exits, Scrolls, ServerUnchanged
    <2>3. ServersOK'
        <3>1. restarts[c] \in 0..MaxRestarts /\ tail[c] \subseteq {"done", "fatal"}
            BY DEF Basic, ServersOK
        <3>2. restarts' \in [Containers -> 0..MaxRestarts]
            BY <2>1, <3>1 DEF Basic, ServersOK, Boots, Complains, Restarts, Exits, Scrolls
        <3>3. server' \in [Containers -> {"booting", "up", "down"}]
            BY <2>1 DEF Basic, ServersOK, Boots, Complains, Restarts, Exits, Scrolls
        <3>4. tail' \in [Containers -> SUBSET {"done", "fatal"}]
            BY <2>1, <3>1 DEF Basic, ServersOK, Boots, Complains, Restarts, Exits, Scrolls
        <3> QED
            BY <3>2, <3>3, <3>4 DEF ServersOK
    <2>4. WitnessOK'
        BY <2>1 DEF Basic, WitnessOK, Boots, Complains, Restarts, Exits, Scrolls
    <2>5. HiccupsOK' /\ TodoOK' /\ CountsOK' /\ StageOK'
        BY <2>2 DEF Basic, HiccupsOK, TodoOK, CountsOK, StageOK, Passed, locals
    <2> QED
        BY <2>3, <2>4, <2>5 DEF Basic
<1>2. CASE TimePasses
    <2>1. /\ pc \in AtWork /\ left \in Nat /\ left > 0 /\ left <= Timeout /\ left' = left - 1
          /\ UNCHANGED <<servers, hiccups, pc, todo, baseline, successes, result, stage,
                         marker, restarted>>
        BY <1>2 DEF TimePasses, AtWork, Basic, CountsOK
    <2>2. Checking \in Containers
        BY <2>1, Current DEF Basic
    <2>3. WitnessOK'
        BY <2>1, <2>2, <1>2 DEF TimePasses, Basic, WitnessOK
    <2>4. CountsOK'
        BY <2>1 DEF Basic, CountsOK
    <2>5. ServersOK' /\ HiccupsOK' /\ TodoOK'
        BY <2>1 DEF Basic, ServersOK, HiccupsOK, TodoOK, servers
    <2>6. StageOK'
        BY <2>1, StageStays
    <2> QED
        BY <2>3, <2>4, <2>5, <2>6 DEF Basic
<1> QED
    BY <1>1, <1>2

\* A part of a check that ends or goes on.
LEMMA PartTyped ==
    ASSUME Basic, pc \in AtWork, UNCHANGED servers, stage' = stage,
           HiccupsOK', WitnessOK', CountsOK',
           \/ \E v \in Verdicts : Conclude(v)
           \/ \E next \in AtWork : Continue(next)
    PROVE  Basic'
<1>1. TodoOK'
    BY ConcludeTodo, ContinueTodo DEF Basic
<1>2. ServersOK'
    BY DEF Basic, ServersOK, servers
<1> QED
    BY <1>1, <1>2, StageStays DEF Basic

\* What the code does.
LEMMA CheckTyped ==
    ASSUME Basic, Check
    PROVE  Basic'
<1> USE HealthAssumption
<1>0. /\ baseline \in Nat /\ left \in 0..Timeout /\ successes \in 0..Required
      /\ pc \in {"logs", "list"} => successes < Required
    BY DEF Basic, CountsOK
<1>1. CASE Begin \/ DockerUnreachable
    <2>1. ServersOK' /\ HiccupsOK' /\ WitnessOK'
        BY <1>1 DEF Basic, ServersOK, HiccupsOK, WitnessOK, Begin, DockerUnreachable,
                    servers, witness
    <2>2. TodoOK' /\ CountsOK'
        BY <1>1 DEF Basic, TodoOK, CountsOK, Begin, DockerUnreachable, locals, AtWork, Phases
    <2>3. StageOK'
        BY <1>1 DEF Basic, StageOK, Begin, DockerUnreachable, Stages
    <2> QED
        BY <2>1, <2>2, <2>3 DEF Basic
<1>2. CASE Report
    <2>1. ServersOK' /\ HiccupsOK' /\ WitnessOK'
        BY <1>2 DEF Basic, ServersOK, HiccupsOK, WitnessOK, Report, servers, witness
    <2>2. TodoOK' /\ CountsOK'
        BY <1>2 DEF Basic, TodoOK, CountsOK, Report, locals, AtWork, Phases
    <2>3. StageOK'
        BY <1>2 DEF Basic, StageOK, Report, Passed, Stages
    <2> QED
        BY <2>1, <2>2, <2>3 DEF Basic
<1>3. CASE CheckRunning
    <2>1. PICK b \in BOOLEAN :
            /\ Call(b) /\ Asked(b)
            /\ IF Running(b) THEN Continue("baseline") ELSE Conclude("running")
        BY <1>3 DEF CheckRunning
    <2>2. /\ pc \in AtWork
          /\ UNCHANGED <<servers, baseline, left, successes, stage>> /\ pc' \notin {"logs", "list"}
        BY <1>3, <2>1 DEF CheckRunning, AtWork, Continue, Conclude
    <2>3. CountsOK'
        BY <1>0, <2>2 DEF CountsOK
    <2> QED
        BY <2>1, <2>2, <2>3, Probed, PartTyped DEF Verdicts, AtWork
<1>4. CASE CaptureBaseline
    <2>1. PICK b \in BOOLEAN : Call(b) /\ Asked(b) /\ baseline' = RestartCount(b)
        BY <1>4 DEF CaptureBaseline
    <2>2. /\ pc \in AtWork /\ left' = Timeout /\ Continue("sentinel")
          /\ UNCHANGED <<servers, successes, stage>> /\ pc' = "sentinel"
        BY <1>4 DEF CaptureBaseline, AtWork, Continue
    <2>3. baseline' \in Nat
        BY <2>1, <2>2, Current DEF RestartCount, Basic, ServersOK
    <2>4. CountsOK'
        BY <1>0, <2>2, <2>3 DEF CountsOK
    <2> QED
        BY <2>1, <2>2, <2>4, Probed, PartTyped DEF AtWork
<1>5. CASE CheckStartupSentinel
    <2>1. PICK b \in BOOLEAN :
            /\ Call(b) /\ Read(b)
            /\ \/ Conclude("marker") /\ UNCHANGED left
               \/ Continue("compare") /\ UNCHANGED left
               \/ Continue("sentinel") /\ left' = PollsLeft /\ left > 0
               \/ Conclude("sentinel") /\ UNCHANGED left
        BY <1>5 DEF CheckStartupSentinel
    <2>2. /\ pc \in AtWork
          /\ UNCHANGED <<servers, baseline, successes, stage>> /\ pc' \notin {"logs", "list"}
        BY <1>5, <2>1 DEF CheckStartupSentinel, AtWork, Continue, Conclude
    <2>3. left' \in 0..Timeout
        BY <1>0, <2>1, LeastOf DEF PollsLeft
    <2>4. CountsOK'
        BY <1>0, <2>2, <2>3 DEF CountsOK
    <2> QED
        BY <2>1, <2>2, <2>4, Probed, PartTyped DEF Verdicts, AtWork
<1>6. CASE CompareRestarts
    <2>1. PICK b \in BOOLEAN :
            /\ Call(b) /\ Asked(b)
            /\ \/ Continue("logs") /\ left' = Timeout /\ successes' = 0
               \/ Conclude("restarted") /\ UNCHANGED <<left, successes>>
        BY <1>6 DEF CompareRestarts
    <2>2. pc \in AtWork /\ UNCHANGED <<servers, baseline, stage>>
        BY <1>6 DEF CompareRestarts, AtWork
    <2>3. CountsOK'
        BY <1>0, <2>1, <2>2 DEF CountsOK, Continue, Conclude
    <2> QED
        BY <2>1, <2>2, <2>3, Probed, PartTyped DEF Verdicts, AtWork
<1>7. CASE LogsBeforeList
    <2>1. PICK b \in BOOLEAN :
            /\ Call(b) /\ Read(b)
            /\ Conclude("marker") \/ Continue("list")
        BY <1>7 DEF LogsBeforeList
    <2>2. /\ pc \in AtWork /\ successes < Required
          /\ UNCHANGED <<servers, baseline, left, successes, stage>>
        BY <1>0, <1>7 DEF LogsBeforeList, AtWork
    <2>3. CountsOK'
        BY <1>0, <2>2 DEF CountsOK
    <2> QED
        BY <2>1, <2>2, <2>3, Probed, PartTyped DEF Verdicts, AtWork
<1>8. CASE AnswersAgain \/ AnswersTooLate \/ AnswersEnough
    <2>1. /\ pc = "list" /\ pc \in AtWork /\ successes' = successes + 1
          /\ UNCHANGED <<servers, hiccups, baseline, stage, marker, restarted, flawed>>
        BY <1>8 DEF AnswersAgain, AnswersTooLate, AnswersEnough, Answers, AtWork
    <2>2. \/ /\ Continue("logs") /\ left' = left - Interval /\ ~(successes' >= Required)
          \/ Conclude("list") /\ left' = left
          \/ Continue("final") /\ left' = left
        BY <1>8 DEF AnswersAgain, AnswersTooLate, AnswersEnough, Answers
    <2>3. left' \in 0..Timeout
        BY <1>0, <2>2, LeastOf DEF Interval
    <2>4. CountsOK'
        BY <1>0, <2>1, <2>2, <2>3 DEF CountsOK, Continue, Conclude
    <2>5. HiccupsOK' /\ WitnessOK'
        BY <2>1 DEF Basic, HiccupsOK, WitnessOK
    <2> QED
        BY <2>1, <2>2, <2>4, <2>5, PartTyped DEF Verdicts, AtWork
<1>9. CASE ListFails
    <2>1. /\ pc = "list" /\ pc \in AtWork /\ left' = PollsLeft
          /\ Continue("logs") \/ Conclude("list")
          /\ flawed' = flawed \cup {Checking}
          /\ UNCHANGED <<servers, hiccups, baseline, successes, stage, marker, restarted>>
        BY <1>9 DEF ListFails, AtWork
    <2>2. left' \in 0..Timeout
        BY <1>0, <2>1, LeastOf DEF PollsLeft
    <2>3. CountsOK'
        BY <1>0, <2>1, <2>2 DEF CountsOK
    <2>4. HiccupsOK' /\ WitnessOK'
        BY <2>1, Current DEF Basic, HiccupsOK, WitnessOK
    <2> QED
        BY <2>1, <2>3, <2>4, PartTyped DEF Verdicts, AtWork
<1>10. CASE CheckNoFatalMarkers
    <2>1. PICK b \in BOOLEAN :
            /\ Call(b) /\ Read(b)
            /\ Conclude("marker") \/ Conclude("passed")
        BY <1>10 DEF CheckNoFatalMarkers
    <2>2. /\ pc \in AtWork
          /\ UNCHANGED <<servers, baseline, left, successes, stage>> /\ pc' \notin {"logs", "list"}
        BY <1>10, <2>1 DEF CheckNoFatalMarkers, AtWork, Conclude
    <2>3. CountsOK'
        BY <1>0, <2>2 DEF CountsOK
    <2> QED
        BY <2>1, <2>2, <2>3, Probed, PartTyped DEF Verdicts
<1> QED
    BY <1>1, <1>2, <1>3, <1>4, <1>5, <1>6, <1>7, <1>8, <1>9, <1>10 DEF Check

\* The invariant holds at first.
LEMMA InitTyped == Init => Basic
<1> SUFFICES ASSUME Init PROVE Basic
    OBVIOUS
<1> USE HealthAssumption
<1>1. ServersOK /\ HiccupsOK /\ WitnessOK /\ CountsOK /\ StageOK
    <2>1. ServersOK
        <3>1. restarts \in [Containers -> {0, 1} \cap 0..MaxRestarts]
            BY DEF Init
        <3>2. restarts \in [Containers -> 0..MaxRestarts]
            BY <3>1
        <3> QED
            BY <3>2 DEF Init, ServersOK
    <2>2. HiccupsOK /\ CountsOK /\ StageOK
        BY DEF Init, HiccupsOK, CountsOK, StageOK, Stages
    <2>3. WitnessOK
        BY DEF Init, WitnessOK
    <2> QED
        BY <2>1, <2>2, <2>3
<1>2. /\ 0 \in 0..Len(Specs) /\ todo = SubSeq(Specs, 0 + 1, Len(Specs))
      /\ todo \in Seq(Containers) /\ todo # <<>>
    BY SubSeqFull DEF Init
<1>3. \A k \in 1..Len(todo) : result[todo[k]] = None
    BY DEF Init
<1>4. \A j, k \in 1..Len(todo) : todo[j] = todo[k] => j = k
    BY DEF Init, IsInjective
<1>5. TodoOK
    BY <1>2, <1>3, <1>4 DEF Init, TodoOK, Phases
<1> QED
    BY <1>1, <1>5 DEF Basic

\* Every step keeps it.
LEMMA NextTyped == Basic /\ [Next]_vars => Basic'
<1> SUFFICES ASSUME Basic, [Next]_vars PROVE Basic'
    OBVIOUS
<1>1. CASE UNCHANGED vars
    BY <1>1 DEF vars, servers, locals, witness, Basic, ServersOK, HiccupsOK, WitnessOK, TodoOK,
                CountsOK, StageOK, Passed
<1> QED
    BY <1>1, CheckTyped, ServersTyped DEF Next

\* The variables keep their types, for any containers, times and bounds.
THEOREM TypeCorrect == Spec => []TypeOK
<1>1. Basic => TypeOK
    BY DEF Basic, ServersOK, HiccupsOK, WitnessOK, TodoOK, CountsOK, StageOK, TypeOK, Phases
<1> QED
    BY InitTyped, NextTyped, <1>1, PTL DEF Spec

-----------------------------------------------------------------------------
(* A fault that could be seen is seen. *)

\* A marker no look has met yet is in the tail of the log; one that a look met has decided
\* the check.
MarkerOK(c) ==
    /\ marker[c] = "unread" => "fatal" \in tail[c]
    /\ marker[c] = "read" => result[c] = "marker"
    /\ Passed(c) => marker[c] \in {"none", "missed"}

\* While no call has failed, a restart under watch either shows in the count or has been
\* noticed.
RestartOK ==
    hiccups = 0 =>
        /\ pc \in {"sentinel", "compare"} => baseline <= restarts[Checking]
        /\ \A c \in restarted :
             /\ ~Passed(c)
             /\ result[c] = None =>
                  \/ pc \in {"ended", "raised"}
                  \/ /\ pc \in {"sentinel", "compare"} /\ c = Checking
                     /\ baseline < restarts[c]

Noticed == (\A c \in Containers : MarkerOK(c)) /\ RestartOK

\* The servers on their own.
LEMMA ServersNoticed ==
    ASSUME Basic, Noticed, Servers \/ TimePasses
    PROVE  Noticed'
<1> USE HealthAssumption
<1>0. /\ server \in [Containers -> {"booting", "up", "down"}]
      /\ tail \in [Containers -> SUBSET {"done", "fatal"}]
      /\ restarts \in [Containers -> 0..MaxRestarts]
      /\ marker \in [Containers -> {"none", "unread", "read", "missed"}]
      /\ baseline \in Nat
      /\ pc \in AtWork => Checking \in Containers
    BY Current DEF Basic, ServersOK, WitnessOK, CountsOK
<1>1. CASE TimePasses
    BY <1>1 DEF TimePasses, servers, Noticed, MarkerOK, RestartOK, Passed, Checking
<1>2. CASE Servers
    <2>1. PICK c \in Containers :
            \/ Boots(c) \/ Complains(c) \/ Restarts(c) \/ Exits(c)
            \/ \E line \in {"done", "fatal"} : Scrolls(c, line)
        BY <1>2 DEF Servers
    <2>2. /\ UNCHANGED <<hiccups, pc, todo, baseline, result>> /\ Checking' = Checking
          /\ result[c] = None
        BY <2>1 DEF Boots, Complains, Restarts, Exits, Scrolls, ServerUnchanged, locals, Watched,
                    Checking
    <2>3. \A d \in Containers : MarkerOK(d)'
        <3>1. ASSUME NEW d \in Containers \ {c} PROVE tail'[d] = tail[d] /\ marker'[d] = marker[d]
            BY <2>1, <1>0 DEF Boots, Complains, Restarts, Exits, Scrolls
        <3>2. /\ marker'[c] = "unread" => "fatal" \in tail'[c]
              /\ marker'[c] = "read" => marker[c] = "read"
            BY <2>1, <1>0 DEF Noticed, MarkerOK, Boots, Complains, Restarts, Exits, Scrolls
        <3>3. MarkerOK(c)'
            BY <3>2, <2>2 DEF Noticed, MarkerOK, Passed, Verdicts
        <3> QED
            BY <3>1, <3>3, <2>2 DEF Noticed, MarkerOK, Passed
    <2>4. RestartOK'
        <3>1. CASE restarts' = restarts /\ restarted' = restarted
            BY <3>1, <2>2 DEF Noticed, RestartOK, Passed
        <3>2. CASE Restarts(c)
            <4>1. /\ restarts' = [restarts EXCEPT ![c] = @ + 1]
                  /\ restarted' = IF pc \in {"sentinel", "compare"} /\ c = Checking
                                  THEN restarted \cup {c} ELSE restarted
                BY <3>2 DEF Restarts
            <4>2. \A d \in Containers :
                    restarts[d] \in Nat /\ restarts'[d] \in Nat /\ restarts[d] <= restarts'[d]
                BY <4>1, <1>0
            <4>3. restarts'[c] = restarts[c] + 1
                BY <4>1, <1>0
            <4>4. pc \in {"sentinel", "compare"} => Checking \in Containers
                BY <1>0 DEF AtWork
            <4>5. restarted \subseteq Containers
                BY DEF Basic, WitnessOK
            <4>6. ASSUME hiccups = 0
                  PROVE  /\ pc \in {"sentinel", "compare"} => baseline <= restarts'[Checking]
                         /\ \A d \in restarted \ {c} :
                              /\ ~Passed(d)
                              /\ result[d] = None =>
                                   \/ pc \in {"ended", "raised"}
                                   \/ /\ pc \in {"sentinel", "compare"} /\ d = Checking
                                      /\ baseline < restarts'[d]
                BY <4>2, <4>4, <4>5, <4>6, <1>0 DEF Noticed, RestartOK
            <4>7. ASSUME hiccups = 0, c \in restarted'
                  PROVE  \/ pc \in {"ended", "raised"}
                         \/ /\ pc \in {"sentinel", "compare"} /\ c = Checking
                            /\ baseline < restarts'[c]
                <5>1. pc \in {"sentinel", "compare"} /\ c = Checking => baseline <= restarts[c]
                    BY <4>7 DEF Noticed, RestartOK
                <5>2. \/ pc \in {"ended", "raised"}
                      \/ pc \in {"sentinel", "compare"} /\ c = Checking
                    BY <4>1, <4>7, <2>2 DEF Noticed, RestartOK
                <5> QED
                    BY <5>1, <5>2, <4>1, <4>2, <4>3, <4>7, <1>0
            <4>8. ~Passed(c)'
                BY <2>2 DEF Passed, Verdicts
            <4> QED
                BY <4>1, <4>6, <4>7, <4>8, <2>2 DEF RestartOK, Passed
        <3> QED
            BY <3>1, <3>2, <2>1 DEF Boots, Complains, Exits, Scrolls
    <2> QED
        BY <2>3, <2>4 DEF Noticed
<1> QED
    BY <1>1, <1>2

\* A look at the log, or another call, and what the code makes of it: a marker that is there
\* decides the check.
LEMMA LookNoticed ==
    ASSUME Basic, Noticed, pc \in AtWork, UNCHANGED <<tail, restarts>>, NEW b \in BOOLEAN,
           Read(b) \/ Asked(b),
           \/ \E next \in AtWork : Continue(next)
           \/ \E v \in Verdicts : Conclude(v),
           Read(b) /\ "fatal" \in RecentLogs(b) => Conclude("marker"),
           Conclude("passed") => Read(b)
    PROVE  \A c \in Containers : MarkerOK(c)'
<1>0. /\ Checking \in Containers /\ result[Checking] = None
      /\ marker \in [Containers -> {"none", "unread", "read", "missed"}]
      /\ result \in [Containers -> Verdicts \cup {None}]
    BY Current DEF Basic, WitnessOK, TodoOK
<1>1. ASSUME NEW c \in Containers \ {Checking} PROVE MarkerOK(c)'
    <2>1. marker'[c] = marker[c] /\ result'[c] = result[c] /\ tail'[c] = tail[c]
        BY <1>0, <1>1 DEF Read, Asked, Continue, Conclude
    <2> QED
        BY <2>1 DEF Noticed, MarkerOK, Passed
<1>2. ASSUME NEW c \in Containers, c = Checking PROVE MarkerOK(c)'
    <2>0. /\ MarkerOK(c) /\ tail'[c] = tail[c] /\ marker[c] # "read"
          /\ marker[c] \in {"none", "unread", "missed"} /\ result[c] = None
        BY <1>0, <1>2, HealthAssumption DEF Noticed, MarkerOK, Verdicts
    <2>1. CASE \E next \in AtWork : Continue(next)
        <3>1. result'[c] = None /\ ~Passed(c)'
            BY <2>0, <2>1, HealthAssumption DEF Continue, Passed, Verdicts
        <3>2. CASE Read(b)
            <4>1. ~("fatal" \in RecentLogs(b))
                BY <3>1, <3>2, <1>0, <1>2, HealthAssumption DEF Conclude, Verdicts
            <4>2. marker'[c] = IF marker[c] # "unread" THEN marker[c]
                               ELSE IF b THEN "missed" ELSE "read"
                BY <3>2, <1>0, <1>2 DEF Read
            <4>3. marker[c] = "unread" => b
                BY <4>1, <2>0, <1>2 DEF RecentLogs, MarkerOK
            <4> QED
                BY <4>2, <4>3, <3>1, <2>0 DEF MarkerOK
        <3>3. CASE Asked(b)
            BY <3>1, <3>3, <2>0 DEF Asked, MarkerOK
        <3> QED
            BY <3>2, <3>3
    <2>2. ASSUME NEW v \in Verdicts, Conclude(v) PROVE MarkerOK(c)'
        <3>1. result'[c] = v
            BY <2>2, <1>0, <1>2 DEF Conclude
        <3>2. CASE Read(b)
            <4>1. "fatal" \in RecentLogs(b) => v = "marker"
                BY <3>1, <3>2, <1>0, <1>2 DEF Conclude
            <4>2. marker'[c] = IF marker[c] # "unread" THEN marker[c]
                               ELSE IF b THEN "missed" ELSE "read"
                BY <3>2, <1>0, <1>2 DEF Read
            <4>3. marker[c] = "unread" => b \/ v = "marker"
                BY <4>1, <2>0, <1>2 DEF RecentLogs, MarkerOK
            <4> QED
                BY <4>2, <4>3, <3>1, <2>0 DEF MarkerOK, Passed
        <3>3. CASE Asked(b) /\ ~Read(b)
            <4>1. v # "passed"
                BY <3>3, <2>2
            <4> QED
                BY <4>1, <3>1, <3>3, <2>0 DEF Asked, MarkerOK, Passed
        <3> QED
            BY <3>2, <3>3, <2>2
    <2> QED
        BY <2>1, <2>2
<1> QED
    BY <1>0, <1>1, <1>2

\* A call that is not counted has not failed.
LEMMA NotCounted ==
    ASSUME Basic, NEW b \in BOOLEAN, Call(b), hiccups' = 0
    PROVE  ~b /\ hiccups = 0
BY HealthAssumption DEF Basic, HiccupsOK, Call

\* The end of a check leaves no restart unnoticed.
LEMMA ConcludeRestart ==
    ASSUME Basic, Noticed, pc \in AtWork, NEW v \in Verdicts, Conclude(v),
           UNCHANGED <<restarts, restarted>>, hiccups' = 0 => hiccups = 0,
           v = "passed" => pc = "final"
    PROVE  RestartOK'
<1> SUFFICES ASSUME hiccups' = 0 PROVE RestartOK'
    BY DEF RestartOK
<1>1. /\ Checking \in Containers /\ result[Checking] = None
      /\ result \in [Containers -> Verdicts \cup {None}] /\ restarted \subseteq Containers
    BY Current DEF Basic, TodoOK, WitnessOK
<1>2. pc' \in {"report", "running"} /\ result' = [result EXCEPT ![Checking] = v]
    BY DEF Conclude
<1>3. ASSUME NEW c \in restarted
      PROVE  ~Passed(c)' /\ result'[c] # None
    <2>1. /\ ~Passed(c)
          /\ result[c] = None => pc \in {"sentinel", "compare"} /\ c = Checking
        BY <1>3 DEF Noticed, RestartOK, AtWork
    <2>2. CASE c = Checking
        BY <2>1, <2>2, <1>1, <1>2, HealthAssumption DEF Passed
    <2>3. CASE c # Checking
        BY <2>1, <2>3, <1>1, <1>2 DEF Passed
    <2> QED
        BY <2>2, <2>3
<1> QED
    BY <1>2, <1>3 DEF RestartOK

\* A check that goes on leaves none behind either.
LEMMA ContinueRestart ==
    ASSUME Basic, Noticed, pc \in AtWork, NEW next \in AtWork, Continue(next),
           UNCHANGED <<restarts, restarted>>, hiccups' = 0 => hiccups = 0,
           hiccups' = 0 =>
              \/ next \in {"sentinel", "compare"} /\ pc = "sentinel" /\ baseline' = baseline
              \/ next = "sentinel" /\ pc = "baseline" /\ baseline' = restarts[Checking]
              \/ next = "logs" /\ pc = "compare" /\ restarts[Checking] = baseline
              \/ next \notin {"sentinel", "compare"} /\ pc \notin {"sentinel", "compare"}
    PROVE  RestartOK'
<1> SUFFICES ASSUME hiccups' = 0 PROVE RestartOK'
    BY DEF RestartOK
<1>1. pc' = next /\ result' = result /\ Checking' = Checking
    BY DEF Continue, Checking
<1>2. restarts[Checking] \in Nat /\ baseline \in Nat
    BY HealthAssumption, Current DEF Basic, ServersOK, CountsOK
<1>3. ASSUME NEW c \in restarted
      PROVE  /\ ~Passed(c)
             /\ result[c] = None => /\ pc \in {"sentinel", "compare"} /\ c = Checking
                                    /\ baseline < restarts[c]
    BY <1>3 DEF Noticed, RestartOK, AtWork
<1>4. pc \in {"sentinel", "compare"} => baseline <= restarts[Checking]
    BY DEF Noticed, RestartOK
<1> QED
    BY <1>1, <1>2, <1>3, <1>4 DEF RestartOK, Passed

\* Neither a log nor a count is looked at.
LEMMA MarkerStays ==
    ASSUME Basic, Noticed, pc \in AtWork, UNCHANGED <<tail, marker>>,
           \/ \E next \in AtWork : Continue(next)
           \/ \E v \in Verdicts \ {"passed"} : Conclude(v)
    PROVE  \A c \in Containers : MarkerOK(c)'
<1>1. /\ Checking \in Containers /\ result[Checking] = None
      /\ result \in [Containers -> Verdicts \cup {None}]
    BY Current DEF Basic, TodoOK
<1>2. ASSUME NEW c \in Containers
      PROVE  result'[c] = result[c] \/ (result[c] = None /\ result'[c] # "passed")
    BY <1>1 DEF Continue, Conclude
<1> QED
    BY <1>2, HealthAssumption DEF Noticed, MarkerOK, Passed, Verdicts

\* What the code does.
LEMMA CheckNoticed ==
    ASSUME Basic, Noticed, Check
    PROVE  Noticed'
<1>1. CASE Begin
    <2>1. /\ pc = "begin" /\ pc' \in {"running", "raised"}
          /\ UNCHANGED <<servers, hiccups, locals, result, witness>>
        BY <1>1 DEF Begin
    <2> QED
        BY <2>1 DEF Noticed, MarkerOK, RestartOK, Passed, servers, witness
<1>2. CASE Report \/ DockerUnreachable
    <2>1. pc' \in {"ended", "raised"} /\ UNCHANGED <<servers, hiccups, locals, result, witness>>
        BY <1>2 DEF Report, DockerUnreachable
    <2> QED
        BY <2>1 DEF Noticed, MarkerOK, RestartOK, Passed, servers, witness
<1>3. CASE CheckRunning
    <2>1. PICK b \in BOOLEAN :
            /\ Call(b) /\ Asked(b)
            /\ IF Running(b) THEN Continue("baseline") ELSE Conclude("running")
        BY <1>3 DEF CheckRunning
    <2>2. pc = "running" /\ pc \in AtWork /\ UNCHANGED <<tail, restarts, marker, restarted>>
        BY <1>3, <2>1 DEF CheckRunning, AtWork, servers, Asked
    <2>3. \A c \in Containers : MarkerOK(c)'
        BY <2>1, <2>2, MarkerStays DEF AtWork, Verdicts
    <2>4. RestartOK'
        BY <2>1, <2>2, NotCounted, ConcludeRestart, ContinueRestart DEF AtWork, Verdicts
    <2> QED
        BY <2>3, <2>4 DEF Noticed
<1>4. CASE CaptureBaseline
    <2>1. PICK b \in BOOLEAN : Call(b) /\ Asked(b) /\ baseline' = RestartCount(b)
        BY <1>4 DEF CaptureBaseline
    <2>2. /\ pc = "baseline" /\ pc \in AtWork /\ UNCHANGED <<tail, restarts, marker, restarted>>
          /\ Continue("sentinel")
        BY <1>4, <2>1 DEF CaptureBaseline, AtWork, servers, Asked
    <2>3. \A c \in Containers : MarkerOK(c)'
        BY <2>2, MarkerStays DEF AtWork
    <2>4. hiccups' = 0 => hiccups = 0 /\ baseline' = restarts[Checking]
        BY <2>1, NotCounted DEF RestartCount
    <2>5. RestartOK'
        BY <2>2, <2>4, ContinueRestart DEF AtWork
    <2> QED
        BY <2>3, <2>5 DEF Noticed
<1>5. CASE CheckStartupSentinel
    <2>1. PICK b \in BOOLEAN :
            /\ Call(b) /\ Read(b)
            /\ \/ Conclude("marker")
               \/ Continue("compare") /\ "fatal" \notin RecentLogs(b)
               \/ Continue("sentinel") /\ RecentLogs(b) = {}
               \/ Conclude("sentinel") /\ RecentLogs(b) = {}
        BY <1>5 DEF CheckStartupSentinel
    <2>2. /\ pc = "sentinel" /\ pc \in AtWork /\ UNCHANGED <<tail, restarts, baseline, restarted>>
        BY <1>5, <2>1 DEF CheckStartupSentinel, AtWork, servers, Read
    <2>3. \A c \in Containers : MarkerOK(c)'
        BY <2>1, <2>2, LookNoticed DEF AtWork, Verdicts
    <2>4. RestartOK'
        BY <2>1, <2>2, NotCounted, ConcludeRestart, ContinueRestart DEF AtWork, Verdicts
    <2> QED
        BY <2>3, <2>4 DEF Noticed
<1>6. CASE CompareRestarts
    <2>1. PICK b \in BOOLEAN :
            /\ Call(b) /\ Asked(b)
            /\ \/ Continue("logs") /\ RestartCount(b) = baseline
               \/ Conclude("restarted")
        BY <1>6 DEF CompareRestarts
    <2>2. /\ pc = "compare" /\ pc \in AtWork
          /\ UNCHANGED <<tail, restarts, baseline, marker, restarted>>
        BY <1>6, <2>1 DEF CompareRestarts, AtWork, servers, Asked
    <2>3. \A c \in Containers : MarkerOK(c)'
        BY <2>1, <2>2, MarkerStays DEF AtWork, Verdicts
    <2>4. CASE Continue("logs") /\ RestartCount(b) = baseline
        <3>1. hiccups' = 0 => hiccups = 0 /\ restarts[Checking] = baseline
            BY <2>1, <2>4, NotCounted DEF RestartCount
        <3>2. RestartOK'
            BY <2>2, <2>4, <3>1, ContinueRestart DEF AtWork
        <3> QED
            BY <2>3, <3>2 DEF Noticed
    <2>5. CASE Conclude("restarted")
        <3>1. RestartOK'
            BY <2>1, <2>2, <2>5, NotCounted, ConcludeRestart DEF Verdicts
        <3> QED
            BY <2>3, <3>1 DEF Noticed
    <2> QED
        BY <2>1, <2>4, <2>5
<1>7. CASE LogsBeforeList
    <2>1. PICK b \in BOOLEAN :
            /\ Call(b) /\ Read(b)
            /\ IF "fatal" \in RecentLogs(b) THEN Conclude("marker") ELSE Continue("list")
        BY <1>7 DEF LogsBeforeList
    <2>2. pc = "logs" /\ pc \in AtWork /\ UNCHANGED <<tail, restarts, restarted>>
        BY <1>7, <2>1 DEF LogsBeforeList, AtWork, servers, Read
    <2>3. \A c \in Containers : MarkerOK(c)'
        BY <2>1, <2>2, LookNoticed DEF AtWork, Verdicts
    <2>4. RestartOK'
        BY <2>1, <2>2, NotCounted, ConcludeRestart, ContinueRestart DEF AtWork, Verdicts
    <2> QED
        BY <2>3, <2>4 DEF Noticed
<1>8. CASE AnswersAgain \/ AnswersTooLate \/ AnswersEnough \/ ListFails
    <2>1. /\ pc = "list" /\ pc \in AtWork
          /\ UNCHANGED <<tail, restarts, hiccups, marker, restarted>>
          /\ Continue("logs") \/ Conclude("list") \/ Continue("final")
        BY <1>8 DEF AnswersAgain, AnswersTooLate, AnswersEnough, ListFails, Answers, AtWork, servers
    <2>2. \A c \in Containers : MarkerOK(c)'
        BY <2>1, MarkerStays DEF AtWork, Verdicts
    <2>3. RestartOK'
        BY <2>1, ConcludeRestart, ContinueRestart DEF AtWork, Verdicts
    <2> QED
        BY <2>2, <2>3 DEF Noticed
<1>9. CASE CheckNoFatalMarkers
    <2>1. PICK b \in BOOLEAN :
            /\ Call(b) /\ Read(b)
            /\ Conclude(IF "fatal" \in RecentLogs(b) THEN "marker" ELSE "passed")
        BY <1>9 DEF CheckNoFatalMarkers
    <2>2. pc = "final" /\ pc \in AtWork /\ UNCHANGED <<tail, restarts, restarted>>
        BY <1>9, <2>1 DEF CheckNoFatalMarkers, AtWork, servers, Read
    <2>3. \A c \in Containers : MarkerOK(c)'
        BY <2>1, <2>2, LookNoticed DEF Verdicts
    <2>4. RestartOK'
        BY <2>1, <2>2, NotCounted, ConcludeRestart DEF Verdicts
    <2> QED
        BY <2>3, <2>4 DEF Noticed
<1> QED
    BY <1>1, <1>2, <1>3, <1>4, <1>5, <1>6, <1>7, <1>8, <1>9 DEF Check

\* At first nothing has happened.
LEMMA InitNoticed == Init => Noticed
BY HealthAssumption DEF Init, Noticed, MarkerOK, RestartOK, Passed, Verdicts

\* Every step keeps the invariant.
LEMMA NextNoticed == Basic /\ Noticed /\ [Next]_vars => Noticed'
<1> SUFFICES ASSUME Basic, Noticed, [Next]_vars PROVE Noticed'
    OBVIOUS
<1>1. CASE UNCHANGED vars
    BY <1>1 DEF vars, servers, locals, witness, Noticed, MarkerOK, RestartOK, Passed, Checking
<1> QED
    BY <1>1, CheckNoticed, ServersNoticed DEF Next

\* A deployment passes only without a fault that could be seen, for any number of containers,
\* restarts, failed calls and polls.
THEOREM FaultsAreNoticed == Spec => []FaultsNoticed
<1>1. Basic /\ Noticed => FaultsNoticed
    BY DEF Basic, StageOK, Noticed, MarkerOK, RestartOK, FaultsNoticed, WitnessOK
<1> QED
    BY InitTyped, NextTyped, InitNoticed, NextNoticed, <1>1, PTL DEF Spec

-----------------------------------------------------------------------------
(* No false alarm. *)

\* A container to which nothing has happened shows what it should.
SoundOK(c) ==
    /\ server[c] # "down"
    /\ "fatal" \notin tail[c]
    /\ server[c] = "up" => "done" \in tail[c]
    /\ result[c] \in {None, "passed"}

\* And its check has the right count, and time for the answers it still needs.
InTime ==
    /\ pc \in {"sentinel", "compare"} => baseline = restarts[Checking]
    /\ pc \in {"logs", "list"} => left + successes * RconInterval >= Timeout

Sound ==
    /\ \A c \in Containers \ flawed : SoundOK(c)
    /\ pc \in AtWork /\ Checking \notin flawed => InTime

\* The servers on their own.
LEMMA ServersSound ==
    ASSUME Basic, Sound, Servers \/ TimePasses
    PROVE  Sound'
<1>0. /\ server \in [Containers -> {"booting", "up", "down"}]
      /\ tail \in [Containers -> SUBSET {"done", "fatal"}]
      /\ restarts \in [Containers -> 0..MaxRestarts]
      /\ pc \in AtWork => Checking \in Containers
    BY Current DEF Basic, ServersOK
<1>1. CASE TimePasses
    BY <1>1 DEF TimePasses, servers, Sound, SoundOK, InTime, Checking
<1>2. CASE Servers
    <2>1. PICK c \in Containers :
            \/ Boots(c) \/ Complains(c) \/ Restarts(c) \/ Exits(c)
            \/ \E line \in {"done", "fatal"} : Scrolls(c, line)
        BY <1>2 DEF Servers
    <2>2. /\ UNCHANGED <<pc, baseline, left, successes, result>> /\ Checking' = Checking
          /\ flawed \subseteq flawed'
          /\ c \notin flawed' => restarts'[c] = restarts[c]
        BY <2>1 DEF Boots, Complains, Restarts, Exits, Scrolls, ServerUnchanged, locals, Checking
    <2>3. ASSUME NEW d \in Containers \ {c}
          PROVE  server'[d] = server[d] /\ tail'[d] = tail[d] /\ restarts'[d] = restarts[d]
        BY <2>1, <1>0 DEF Boots, Complains, Restarts, Exits, Scrolls
    <2>4. ASSUME c \notin flawed' PROVE SoundOK(c)'
        <3>1. SoundOK(c)
            BY <2>2, <2>4 DEF Sound
        <3>2. CASE Boots(c)
            BY <3>1, <3>2, <2>2, <1>0 DEF Boots, SoundOK
        <3>3. CASE \E line \in {"done", "fatal"} : Scrolls(c, line)
            BY <3>1, <3>3, <2>2, <2>4, <1>0 DEF Scrolls, SoundOK
        <3> QED
            BY <3>2, <3>3, <2>1, <2>4 DEF Complains, Restarts, Exits
    <2>5. \A d \in Containers \ flawed' : SoundOK(d)'
        BY <2>2, <2>3, <2>4 DEF Sound, SoundOK
    <2>6. pc' \in AtWork /\ Checking' \notin flawed' => InTime'
        BY <2>2, <2>3, <1>0 DEF Sound, InTime
    <2> QED
        BY <2>5, <2>6 DEF Sound
<1> QED
    BY <1>1, <1>2

\* The end of a check: it passes, or something has happened to the container.
LEMMA ConcludeSound ==
    ASSUME Basic, Sound, pc \in AtWork, NEW v \in Verdicts, Conclude(v), UNCHANGED servers,
           flawed \subseteq flawed', v = "passed" \/ Checking \in flawed'
    PROVE  Sound'
<1>1. /\ Checking \in Containers /\ result \in [Containers -> Verdicts \cup {None}]
    BY Current DEF Basic, TodoOK
<1>2. pc' \in {"report", "running"} /\ result' = [result EXCEPT ![Checking] = v]
    BY DEF Conclude
<1>3. \A c \in Containers \ flawed' : SoundOK(c)'
    BY <1>1, <1>2 DEF Sound, SoundOK, servers
<1> QED
    BY <1>2, <1>3 DEF Sound, InTime

\* A check goes on.
LEMMA ContinueSound ==
    ASSUME Basic, Sound, NEW next \in AtWork, Continue(next), UNCHANGED servers,
           flawed \subseteq flawed', Checking \notin flawed' => InTime'
    PROVE  Sound'
<1>1. result' = result /\ Checking' = Checking
    BY DEF Continue, Checking
<1> QED
    BY <1>1 DEF Sound, SoundOK, servers

\* A call that has failed, or a look at a server that is late, is held against the container.
LEMMA Held ==
    ASSUME pc \in AtWork, NEW b \in BOOLEAN, Read(b) \/ Asked(b)
    PROVE  flawed \subseteq flawed' /\ (b => Checking \in flawed')
BY DEF Read, Asked

\* While the answers come in time there is time for all of them.
LEMMA TimeForAll ==
    ASSUME Basic, left + successes * RconInterval >= Timeout, pc = "list", left = 0
    PROVE  successes + 1 >= Required
<1> USE HealthAssumption
<1>1. successes \in Nat
    BY DEF Basic, CountsOK
<1>2. SUFFICES ASSUME successes + 1 < Required PROVE FALSE
    BY <1>1
<1>3. PICK d \in Nat : Required - 1 = successes + 1 + d
    <2>1. Required - 1 - (successes + 1) \in Nat
        BY <1>1, <1>2
    <2> QED
        BY <2>1, <1>1
<1>4. (successes + 1 + d) * RconInterval = successes * RconInterval + RconInterval + d * RconInterval
    BY <1>1, <1>3
<1>5. d * RconInterval \in Nat /\ successes * RconInterval \in Nat
    BY <1>1, <1>3
<1>6. (Required - 1) * RconInterval >= successes * RconInterval + RconInterval
    BY <1>3, <1>4, <1>5, <1>1
<1>7. (Required - 1) * RconInterval <= Timeout /\ successes * RconInterval >= Timeout
    BY <1>5
<1> QED
    BY <1>5, <1>6, <1>7

\* What the code does.
LEMMA CheckSound ==
    ASSUME Basic, Sound, Check
    PROVE  Sound'
<1> USE HealthAssumption
<1>0. /\ server \in [Containers -> {"booting", "up", "down"}]
      /\ tail \in [Containers -> SUBSET {"done", "fatal"}]
      /\ restarts \in [Containers -> 0..MaxRestarts]
      /\ baseline \in Nat /\ left \in 0..Timeout /\ successes \in 0..Required
      /\ pc \in AtWork => Checking \in Containers
      /\ pc \in AtWork /\ Checking \notin flawed => SoundOK(Checking) /\ InTime
    BY Current DEF Basic, ServersOK, CountsOK, Sound
<1>1. CASE Begin \/ Report \/ DockerUnreachable
    <2>1. /\ pc' \in {"running", "ended", "raised"}
          /\ UNCHANGED <<servers, result, flawed>>
        BY <1>1 DEF Begin, Report, DockerUnreachable, witness
    <2> QED
        BY <2>1 DEF Sound, SoundOK, InTime, servers
<1>2. CASE CheckRunning
    <2>1. PICK b \in BOOLEAN :
            /\ Asked(b)
            /\ IF Running(b) THEN Continue("baseline") ELSE Conclude("running")
        BY <1>2 DEF CheckRunning
    <2>2. pc \in AtWork /\ UNCHANGED servers
        BY <1>2 DEF CheckRunning, AtWork
    <2>3. CASE Continue("baseline")
        <3>1. InTime'
            BY <2>3 DEF Continue, InTime
        <3> QED
            BY <2>1, <2>2, <2>3, <3>1, Held, ContinueSound DEF AtWork
    <2>4. CASE ~Running(b) /\ Conclude("running")
        <3>1. Checking \in flawed'
            BY <2>1, <2>2, <2>4, <1>0, Held DEF Running, SoundOK
        <3> QED
            BY <2>1, <2>2, <2>4, <3>1, Held, ConcludeSound DEF Verdicts
    <2> QED
        BY <2>1, <2>3, <2>4
<1>3. CASE CaptureBaseline
    <2>1. PICK b \in BOOLEAN : Asked(b) /\ baseline' = RestartCount(b)
        BY <1>3 DEF CaptureBaseline
    <2>2. pc \in AtWork /\ UNCHANGED servers /\ Continue("sentinel")
        BY <1>3 DEF CaptureBaseline, AtWork
    <2>3. Checking' = Checking /\ pc' = "sentinel" /\ restarts' = restarts
        BY <2>2 DEF Continue, Checking, servers
    <2>4. Checking \notin flawed' => InTime'
        BY <2>1, <2>2, <2>3, Held DEF InTime, RestartCount
    <2> QED
        BY <2>1, <2>2, <2>4, Held, ContinueSound DEF AtWork
<1>4. CASE CheckStartupSentinel
    <2>1. PICK b \in BOOLEAN :
            /\ Read(b)
            /\ \/ "fatal" \in RecentLogs(b) /\ Conclude("marker")
               \/ Continue("compare")
               \/ Continue("sentinel")
               \/ RecentLogs(b) = {} /\ left = 0 /\ Conclude("sentinel")
        BY <1>4 DEF CheckStartupSentinel
    <2>2. /\ pc = "sentinel" /\ pc \in AtWork /\ UNCHANGED servers /\ baseline' = baseline
        BY <1>4 DEF CheckStartupSentinel, AtWork
    <2>3. CASE Continue("compare") \/ Continue("sentinel")
        <3>1. Checking' = Checking /\ pc' \in {"sentinel", "compare"} /\ restarts' = restarts
            BY <2>2, <2>3 DEF Continue, Checking, servers
        <3>2. Checking \notin flawed' => InTime'
            BY <2>1, <2>2, <3>1, <1>0, Held DEF InTime
        <3> QED
            BY <2>1, <2>2, <2>3, <3>2, Held, ContinueSound DEF AtWork
    <2>4. CASE "fatal" \in RecentLogs(b) /\ Conclude("marker")
        <3>1. Checking \in flawed'
            BY <2>1, <2>2, <2>4, <1>0, Held DEF RecentLogs, SoundOK
        <3> QED
            BY <2>1, <2>2, <2>4, <3>1, Held, ConcludeSound DEF Verdicts
    <2>5. CASE RecentLogs(b) = {} /\ left = 0 /\ Conclude("sentinel")
        <3>1. Checking \in flawed'
            <4>1. CASE b
                BY <4>1, <2>1, <2>2, Held
            <4>2. CASE ~b /\ server[Checking] = "booting"
                BY <4>2, <2>1, <2>2, <2>5 DEF Read
            <4>3. CASE ~b /\ server[Checking] # "booting"
                <5>1. tail[Checking] = {} /\ server[Checking] \in {"up", "down"}
                    BY <4>3, <2>2, <2>5, <1>0 DEF RecentLogs
                <5> QED
                    BY <5>1, <2>1, <2>2, <1>0, Held DEF SoundOK
            <4> QED
                BY <4>1, <4>2, <4>3
        <3> QED
            BY <2>1, <2>2, <2>5, <3>1, Held, ConcludeSound DEF Verdicts
    <2> QED
        BY <2>1, <2>3, <2>4, <2>5
<1>5. CASE CompareRestarts
    <2>1. PICK b \in BOOLEAN :
            /\ Asked(b)
            /\ IF RestartCount(b) = baseline
               THEN Continue("logs") /\ left' = Timeout /\ successes' = 0
               ELSE Conclude("restarted")
        BY <1>5 DEF CompareRestarts
    <2>2. pc = "compare" /\ pc \in AtWork /\ UNCHANGED servers
        BY <1>5 DEF CompareRestarts, AtWork
    <2>3. CASE Continue("logs") /\ left' = Timeout /\ successes' = 0
        <3>1. InTime'
            BY <2>3 DEF InTime, Continue
        <3> QED
            BY <2>1, <2>2, <2>3, <3>1, Held, ContinueSound DEF AtWork
    <2>4. CASE RestartCount(b) # baseline /\ Conclude("restarted")
        <3>1. Checking \in flawed'
            BY <2>1, <2>2, <2>4, <1>0, Held DEF RestartCount, InTime
        <3> QED
            BY <2>1, <2>2, <2>4, <3>1, Held, ConcludeSound DEF Verdicts
    <2> QED
        BY <2>1, <2>3, <2>4
<1>6. CASE LogsBeforeList
    <2>1. PICK b \in BOOLEAN :
            /\ Read(b)
            /\ IF "fatal" \in RecentLogs(b) THEN Conclude("marker") ELSE Continue("list")
        BY <1>6 DEF LogsBeforeList
    <2>2. pc = "logs" /\ pc \in AtWork /\ UNCHANGED <<servers, left, successes>>
        BY <1>6 DEF LogsBeforeList, AtWork
    <2>3. CASE Continue("list")
        <3>1. pc' = "list" /\ left' = left /\ successes' = successes
            BY <2>2, <2>3 DEF Continue
        <3>2. Checking \notin flawed' => InTime'
            BY <3>1, <2>1, <2>2, <1>0, Held DEF InTime
        <3> QED
            BY <2>1, <2>2, <2>3, <3>2, Held, ContinueSound DEF AtWork
    <2>4. CASE "fatal" \in RecentLogs(b) /\ Conclude("marker")
        <3>1. Checking \in flawed'
            BY <2>1, <2>2, <2>4, <1>0, Held DEF RecentLogs, SoundOK
        <3> QED
            BY <2>1, <2>2, <2>4, <3>1, Held, ConcludeSound DEF Verdicts
    <2> QED
        BY <2>1, <2>3, <2>4
<1>7. CASE AnswersAgain
    <2>1. /\ pc = "list" /\ pc \in AtWork /\ UNCHANGED <<servers, flawed>> /\ Continue("logs")
          /\ pc' = "logs" /\ successes' = successes + 1 /\ left' = left - Interval
        BY <1>7 DEF AnswersAgain, Answers, AtWork, Continue
    <2>2. ASSUME Checking \notin flawed PROVE InTime'
        <3>1. left + successes * RconInterval >= Timeout
            BY <2>1, <2>2, <1>0 DEF InTime
        <3>2. /\ (successes + 1) * RconInterval = successes * RconInterval + RconInterval
              /\ successes * RconInterval \in Nat
            BY <1>0
        <3>3. left' \in Nat /\ left' + RconInterval >= left
            BY <2>1, <1>0, LeastOf DEF Interval
        <3>4. left' + (successes' * RconInterval) >= Timeout
            BY <3>1, <3>2, <3>3, <2>1, <1>0
        <3> QED
            BY <3>4, <2>1 DEF InTime
    <2> QED
        BY <2>1, <2>2, ContinueSound DEF AtWork
<1>8. CASE AnswersEnough
    <2>1. UNCHANGED <<servers, flawed>> /\ Continue("final") /\ pc' = "final"
        BY <1>8 DEF AnswersEnough, Answers, Continue
    <2>2. InTime'
        BY <2>1 DEF InTime
    <2> QED
        BY <2>1, <2>2, ContinueSound DEF AtWork
<1>9. CASE AnswersTooLate
    <2>1. /\ pc = "list" /\ pc \in AtWork /\ UNCHANGED <<servers, flawed>> /\ left = 0
          /\ Conclude("list") /\ ~(successes + 1 >= Required)
        BY <1>9 DEF AnswersTooLate, Answers, AtWork
    <2>2. Checking \in flawed
        BY <2>1, <1>0, TimeForAll DEF InTime
    <2> QED
        BY <2>1, <2>2, ConcludeSound DEF Verdicts
<1>10. CASE ListFails
    <2>1. /\ pc = "list" /\ pc \in AtWork /\ UNCHANGED servers
          /\ flawed' = flawed \cup {Checking}
          /\ Continue("logs") \/ Conclude("list")
        BY <1>10 DEF ListFails, AtWork
    <2>2. Checking' = Checking \/ Conclude("list")
        BY <2>1 DEF Continue, Checking
    <2> QED
        BY <2>1, <2>2, ContinueSound, ConcludeSound DEF AtWork, Verdicts
<1>11. CASE CheckNoFatalMarkers
    <2>1. PICK b \in BOOLEAN :
            /\ Read(b)
            /\ Conclude(IF "fatal" \in RecentLogs(b) THEN "marker" ELSE "passed")
        BY <1>11 DEF CheckNoFatalMarkers
    <2>2. pc \in AtWork /\ UNCHANGED servers
        BY <1>11 DEF CheckNoFatalMarkers, AtWork
    <2>3. "fatal" \in RecentLogs(b) => Checking \in flawed'
        BY <2>1, <2>2, <1>0, Held DEF RecentLogs, SoundOK
    <2> QED
        BY <2>1, <2>2, <2>3, Held, ConcludeSound DEF Verdicts
<1> QED
    BY <1>1, <1>2, <1>3, <1>4, <1>5, <1>6, <1>7, <1>8, <1>9, <1>10, <1>11 DEF Check

\* At first whatever an earlier life has left in the log is held against a container.
LEMMA InitSound == Init => Sound
<1> SUFFICES ASSUME Init PROVE Sound
    OBVIOUS
<1>1. \A c \in Containers \ flawed : SoundOK(c)
    BY DEF Init, SoundOK
<1> QED
    BY <1>1 DEF Init, Sound, InTime

\* Every step keeps the invariant.
LEMMA NextSound == Basic /\ Sound /\ [Next]_vars => Sound'
<1> SUFFICES ASSUME Basic, Sound, [Next]_vars PROVE Sound'
    OBVIOUS
<1>1. CASE UNCHANGED vars
    BY <1>1 DEF vars, servers, locals, witness, Sound, SoundOK, InTime, Checking
<1> QED
    BY <1>1, CheckSound, ServersSound DEF Next

\* A healthy server passes, whatever the others do, for any times that leave room for the
\* answers required.
THEOREM HealthyAlwaysPasses == Spec => []HealthyPasses
<1>1. Basic /\ Sound => HealthyPasses
    BY DEF Sound, SoundOK, HealthyPasses
<1> QED
    BY InitTyped, NextTyped, InitSound, NextSound, <1>1, PTL DEF Spec
=============================================================================
