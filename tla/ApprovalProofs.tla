--------------------------- MODULE ApprovalProofs ---------------------------
(***************************************************************************)
(* Theorems about the two modules through which people decide: Bot, for    *)
(* any interactions, notifications and bounds, and Upgrade, for any runs,  *)
(* tags, interactions and processes that deliver them.  The modules share  *)
(* no state: what is BotSpec here is the bot, what is Spec the upgrade.    *)
(***************************************************************************)
EXTENDS Bot, Upgrade, FiniteSetTheorems, TLAPS

-----------------------------------------------------------------------------
(* Bot: types.  What is posted is a message, and every post that failed is counted. *)

Messages == [text : Texts, guarded : BOOLEAN]

TypeInv ==
    /\ BotTypeOK
    /\ \A i \in Interactions :
         /\ task[i] = "posting" => message[i] \in Messages
         /\ tried[i] <= faults

\* The notifications' part of BotTypeOK.
NoticesTyped ==
    /\ relay \in [Notices -> {"none", "posting", "ok", "502", "lost", "over"}]
    /\ result \in [Notices -> Verdicts \cup {Unset}]
    /\ copies \in [Notices -> Nat]

\* A step of one notification keeps the types.
LEMMA NoticeTyped ==
    ASSUME TypeInv, NEW n \in Notices, NotifyStep(n) \/ RelayToDiscord(n)
    PROVE  TypeInv'
<1> USE BotAssumption
<1> DEFINE Typed == NoticesTyped' /\ faults' \in 0..MaxFaults /\ faults' >= faults
<1>0. NoticesTyped /\ faults \in 0..MaxFaults
    BY DEF TypeInv, BotTypeOK, NoticesTyped
<1>1. ASSUME NEW v \in Verdicts, Tell(n, v), NoticesTyped
      PROVE  /\ relay' \in [Notices -> {"none", "posting", "ok", "502", "lost", "over"}]
             /\ result' \in [Notices -> Verdicts \cup {Unset}]
    BY <1>1 DEF NoticesTyped, Tell
<1>2. ASSUME NEW o \in {"ok", "error"}, Delivery(n, o), NoticesTyped
      PROVE  /\ copies' \in [Notices -> Nat]
             /\ faults' \in 0..MaxFaults /\ faults' >= faults
    <2>1. faults \in Nat /\ faults <= MaxFaults /\ copies \in [Notices -> Nat]
        BY <1>0 DEF NoticesTyped
    <2>2. copies[n] + 1 \in Nat
        BY <2>1
    <2>3. copies' \in [Notices -> Nat]
        BY <1>2, <2>1, <2>2 DEF Delivery
    <2>4. faults' = faults \/ (faults < MaxFaults /\ faults' = faults + 1)
        BY <1>2 DEF Delivery
    <2> QED
        BY <2>1, <2>3, <2>4
<1>3. ASSUME Typed, NotifyUnchanged PROVE TypeInv'
    <2>1. \A i \in Interactions : tried[i] \in 0..MaxFaults /\ tried[i] <= faults
        BY DEF TypeInv, BotTypeOK
    <2>2. \A i \in Interactions : tried'[i] <= faults'
        BY <2>1, <1>0, <1>3 DEF NotifyUnchanged
    <2>3. BotTypeOK'
        BY <1>3 DEF TypeInv, BotTypeOK, NoticesTyped, NotifyUnchanged, dispatching
    <2> QED
        BY <2>2, <2>3, <1>3 DEF TypeInv, NotifyUnchanged, dispatching
<1>4. CASE NotifyBot(n)
    <2>1. Typed
        BY <1>1, <1>0, <1>4 DEF NotifyBot, NoticesTyped, Verdicts
    <2> QED
        BY <2>1, <1>3, <1>4 DEF NotifyBot
<1>5. CASE NotifierReturns(n)
    <2>1. Typed
        BY <1>1, <1>0, <1>5 DEF NotifierReturns, NoticesTyped, Verdicts
    <2> QED
        BY <2>1, <1>3, <1>5 DEF NotifierReturns
<1>6. CASE NotifierGivesUp(n)
    <2>1. Typed
        BY <1>0, <1>6 DEF NotifierGivesUp, NoticesTyped, Verdicts
    <2> QED
        BY <2>1, <1>3, <1>6 DEF NotifierGivesUp
<1>7. CASE NotifyWebhook(n)
    <2>0. PICK o \in {"ok", "error"} :
            Delivery(n, o) /\ Tell(n, IF o = "ok" THEN "sent" ELSE "failed")
        BY <1>7 DEF NotifyWebhook
    <2>1. Typed
        BY <1>1, <1>2, <1>0, <2>0 DEF NoticesTyped, Verdicts
    <2> QED
        BY <2>1, <1>3, <1>7 DEF NotifyWebhook
<1>8. CASE NotifySkipped(n) \/ NotifyTooLong(n)
    <2>1. Typed
        BY <1>1, <1>0, <1>8 DEF NotifySkipped, NotifyTooLong, NoticesTyped, Verdicts
    <2> QED
        BY <2>1, <1>3, <1>8 DEF NotifySkipped, NotifyTooLong
<1>9. CASE RelayToDiscord(n)
    <2>0. PICK o \in {"ok", "error"} :
            /\ Delivery(n, o)
            /\ relay' = [relay EXCEPT ![n] = IF result[n] = Unset THEN Reply(o) ELSE "over"]
        BY <1>9 DEF RelayToDiscord
    <2>1. relay' \in [Notices -> {"none", "posting", "ok", "502", "lost", "over"}]
        BY <1>0, <2>0 DEF Reply, NoticesTyped
    <2>2. result' = result
        BY <1>9 DEF RelayToDiscord
    <2>3. Typed
        BY <1>2, <1>0, <2>0, <2>1, <2>2 DEF NoticesTyped
    <2> QED
        BY <2>3, <1>3, <1>9 DEF RelayToDiscord
<1> QED
    BY <1>4, <1>5, <1>6, <1>7, <1>8, <1>9 DEF NotifyStep

\* A step of one interaction keeps the types.
LEMMA InteractionTyped ==
    ASSUME TypeInv, NEW i \in Interactions,
           HandleInteraction(i) \/ DispatchStep(i) \/ CliTakesEffect(i) \/ CliExits(i)
    PROVE  TypeInv'
<1> USE BotAssumption
<1>1. CASE HandleInteraction(i)
    BY <1>1 DEF TypeInv, BotTypeOK, HandleInteraction, Interpret, Verified, Responses,
                discord, notifications
<1>2. ASSUME NEW t \in Texts, NEW g \in BOOLEAN, Say(i, t, g)
      PROVE  /\ task' \in [Interactions -> {"none", "ready", "invoking", "waiting",
                                            "posting", "ended", "dropped"}]
             /\ message' \in [Interactions -> Messages \cup {Unset}]
             /\ \A j \in Interactions : task'[j] = "posting" => message'[j] \in Messages
    BY <1>2 DEF TypeInv, BotTypeOK, Say, Messages
<1>3. CASE Dispatch(i)
    BY <1>3, <1>2 DEF TypeInv, BotTypeOK, Dispatch, Texts, Messages, DispatchUnchanged,
                      discord, notifications
<1>4. CASE StartCli(i)
    BY <1>4, <1>2 DEF TypeInv, BotTypeOK, StartCli, Texts, Messages, DispatchUnchanged,
                      discord, notifications
<1>5. CASE CliReturns(i)
    BY <1>5, <1>2 DEF TypeInv, BotTypeOK, CliReturns, Output, Texts, Messages,
                      DispatchUnchanged, discord, notifications
<1>6. CASE CliTimesOut(i)
    BY <1>6, <1>2 DEF TypeInv, BotTypeOK, CliTimesOut, Texts, Messages, DispatchUnchanged,
                      discord, notifications
<1>7. CASE PostIsTaken(i)
    <2>1. message[i].text \in Texts
        BY <1>7 DEF TypeInv, PostIsTaken, Messages
    <2>2. shown \subseteq Interactions \X Texts
        BY DEF TypeInv, BotTypeOK
    <2>3. shown' = shown \cup {<<i, message[i].text>>}
        BY <1>7 DEF PostIsTaken
    <2>4. shown' \subseteq Interactions \X Texts
        BY <2>1, <2>2, <2>3
    <2> QED
        BY <2>4, <1>7 DEF TypeInv, BotTypeOK, PostIsTaken, PostUnchanged, notifications
<1>8. CASE PostFails(i)
    <2>1. /\ task' \in [Interactions -> {"none", "ready", "invoking", "waiting",
                                         "posting", "ended", "dropped"}]
          /\ message' \in [Interactions -> Messages \cup {Unset}]
          /\ \A j \in Interactions : task'[j] = "posting" => message'[j] \in Messages
        BY <1>8, <1>2 DEF PostFails, Recover, TypeInv, BotTypeOK, Texts, Messages
    <2>2. /\ faults \in Nat /\ faults < MaxFaults /\ faults' = faults + 1
          /\ tried \in [Interactions -> 0..MaxFaults]
          /\ \A j \in Interactions : tried[j] <= faults
          /\ tried' = tried \/ tried' = [tried EXCEPT ![i] = @ + 1]
        <3>1. /\ faults \in 0..MaxFaults /\ tried \in [Interactions -> 0..MaxFaults]
              /\ \A j \in Interactions : tried[j] <= faults
            BY DEF TypeInv, BotTypeOK
        <3>2. /\ faults < MaxFaults /\ faults' = faults + 1
              /\ tried' = tried \/ tried' = [tried EXCEPT ![i] = @ + 1]
            BY <1>8 DEF PostFails
        <3> QED
            BY <3>1, <3>2
    <2>3. /\ faults' \in 0..MaxFaults
          /\ \A j \in Interactions : tried'[j] \in 0..MaxFaults /\ tried'[j] <= faults'
        BY <2>2
    <2>4. tried' \in [Interactions -> 0..MaxFaults]
        BY <2>2, <2>3
    <2>5. message[i].text \in Texts
        BY <1>8 DEF TypeInv, PostFails, Messages
    <2>6. unclear' \subseteq Interactions /\ shown' \subseteq Interactions \X Texts
        <3>1. unclear \subseteq Interactions /\ shown \subseteq Interactions \X Texts
            BY DEF TypeInv, BotTypeOK
        <3>2. /\ unclear' = unclear \/ unclear' = unclear \cup {i}
              /\ shown' = shown \/ shown' = shown \cup {<<i, message[i].text>>}
            BY <1>8 DEF PostFails
        <3> QED
            BY <2>5, <3>1, <3>2
    <2> QED
        BY <2>1, <2>3, <2>4, <2>6, <1>8 DEF PostFails, PostUnchanged, notifications,
                                           TypeInv, BotTypeOK, Messages
<1>9. CASE CliTakesEffect(i)
    BY <1>9 DEF TypeInv, BotTypeOK, CliTakesEffect, CliMoves, DispatchUnchanged, discord,
                notifications
<1>10. CASE CliExits(i)
    BY <1>10 DEF TypeInv, BotTypeOK, CliExits, CliMoves, DispatchUnchanged, discord,
                 notifications
<1> QED
    BY <1>1, <1>3, <1>4, <1>5, <1>6, <1>7, <1>8, <1>9, <1>10 DEF DispatchStep

\* The end of the daemon keeps the types.
LEMMA EndTyped == TypeInv /\ Ends => TypeInv'
<1> SUFFICES ASSUME TypeInv, Ends PROVE TypeInv'
    OBVIOUS
<1>1. PICK late \in SUBSET {i \in Interactions : task[i] = "posting"} :
        shown' = shown \cup {<<i, message[i].text>> : i \in late}
    BY DEF Ends
<1>2. \A i \in late : i \in Interactions /\ message[i].text \in Texts
    BY DEF TypeInv, Messages
<1>3. shown \subseteq Interactions \X Texts
    BY DEF TypeInv, BotTypeOK
<1>4. shown' \subseteq Interactions \X Texts
    BY <1>1, <1>2, <1>3
<1>5. PICK gone \in SUBSET {i \in Interactions : process[i] \in {"working", "worked"}} :
        process' = [i \in Interactions |-> IF i \in gone THEN "killed" ELSE process[i]]
    BY DEF Ends
<1>6. process' \in [Interactions -> {"none", "working", "worked", "exit_0", "exit_1",
                                    "killed"}]
    BY <1>5 DEF TypeInv, BotTypeOK
<1>7. PICK sent \in SUBSET {n \in Notices : relay[n] = "posting"} :
        copies' = [n \in Notices |-> IF n \in sent THEN copies[n] + 1 ELSE copies[n]]
    BY DEF Ends
<1>8. copies' \in [Notices -> Nat]
    <2>1. \A n \in Notices : copies[n] \in Nat
        BY DEF TypeInv, BotTypeOK
    <2> QED
        BY <1>7, <2>1
<1>9. /\ task' \in [Interactions -> {"none", "ended", "dropped"}]
      /\ relay' \in [Notices -> {"none", "posting", "ok", "502", "lost", "over"}]
    BY DEF Ends, TypeInv, BotTypeOK
<1>10. /\ task' \in [Interactions -> {"none", "ready", "invoking", "waiting", "posting",
                                      "ended", "dropped"}]
       /\ \A i \in Interactions : task'[i] # "posting"
    BY <1>9
<1> QED
    BY <1>4, <1>6, <1>8, <1>9, <1>10 DEF Ends, TypeInv, BotTypeOK

\* The invariant holds at first.
LEMMA InitTyped == BotInit => TypeInv
BY BotAssumption DEF BotInit, TypeInv, BotTypeOK

\* Every step keeps it.
LEMMA NextTyped == TypeInv /\ [BotNext]_botVars => TypeInv'
<1> SUFFICES ASSUME TypeInv, [BotNext]_botVars PROVE TypeInv'
    OBVIOUS
<1>1. CASE Stop \/ Start
    BY <1>1 DEF Stop, Start, discord, dispatching, notifications, TypeInv, BotTypeOK
<1>2. CASE UNCHANGED botVars
    BY <1>2 DEF botVars, discord, dispatching, notifications, TypeInv, BotTypeOK
<1> QED
    BY <1>1, <1>2, EndTyped, NoticeTyped, InteractionTyped DEF BotNext

\* The variables keep their types, for any bound.
THEOREM BotTypeCorrect == BotSpec => []BotTypeOK
<1>1. TypeInv => BotTypeOK
    BY DEF TypeInv
<1> QED
    BY InitTyped, NextTyped, <1>1, PTL DEF BotSpec

-----------------------------------------------------------------------------
(* What users are told. *)

\* What a task may be about to post: the first text, or the report of a failure after a text
\* that is shown although its post failed.
PostOK(i) ==
    /\ message[i].text # "failed" => Told(i) = {}
    /\ message[i].text = "failed" =>
         /\ ~message[i].guarded
         /\ Told(i) # {} => i \in unclear
         /\ \A t, u \in Told(i) : t = u
    /\ message[i].text = "output" => process[i] = "exit_0"
    /\ message[i].text \in {"not_authorized", "hint"} => process[i] = "none"

\* An interaction's task, process and messages fit together.
AnswerOK(i) ==
    /\ response[i] = Unset => task[i] = "none"
    /\ task[i] \in {"none", "ready", "invoking"} => Told(i) = {} /\ process[i] = "none"
    /\ task[i] = "waiting" => Told(i) = {}
    /\ task[i] = "posting" => PostOK(i)
    /\ process[i] \in {"worked", "exit_0"} => i \in done \/ request[i] = "status"
    /\ "output" \in Told(i) => process[i] = "exit_0"
    /\ Told(i) \cap {"not_authorized", "hint"} # {} => process[i] = "none"
    /\ \A t, u \in Told(i) : t # u => "failed" \in {t, u} /\ i \in unclear

AnswerInv == \A i \in Interactions : AnswerOK(i)

\* What is shown for an interaction when a text is added to all that is shown.
LEMMA TextAdded ==
    ASSUME NEW i \in Interactions, NEW j \in Interactions, NEW t \in Texts,
           shown' = shown \cup {<<i, t>>}
    PROVE  Told(j)' = IF j = i THEN Told(j) \cup {t} ELSE Told(j)
BY DEF Told

\* An interaction of which nothing changes stays well.
LEMMA AnswerStays ==
    ASSUME NEW j \in Interactions, AnswerOK(j), Told(j)' = Told(j),
           request' = request, response'[j] = response[j], task'[j] = task[j], message'[j] = message[j],
           process'[j] = process[j], j \in done => j \in done', j \in unclear => j \in unclear'
    PROVE  AnswerOK(j)'
BY DEF AnswerOK, PostOK

\* A step of the dispatch that shows nothing leaves an interaction well if it leaves its own
\* so and touches no other.
LEMMA OnlyOne ==
    ASSUME AnswerInv, NEW i \in Interactions, AnswerOK(i)', request' = request,
           \A j \in Interactions \ {i} :
             /\ Told(j)' = Told(j) /\ response'[j] = response[j] /\ task'[j] = task[j]
             /\ message'[j] = message[j] /\ process'[j] = process[j]
             /\ j \in done => j \in done'
             /\ j \in unclear => j \in unclear'
    PROVE  AnswerInv'
<1>1. ASSUME NEW j \in Interactions \ {i} PROVE AnswerOK(j)'
    BY <1>1, AnswerStays DEF AnswerInv
<1> QED
    BY <1>1 DEF AnswerInv

\* A task that has shown nothing may say something.
LEMMA Spoken ==
    ASSUME NEW i \in Interactions, TypeInv, AnswerOK(i), Told(i) = {}, response[i] # Unset,
           NEW t \in Texts, NEW g \in BOOLEAN, Say(i, t, g), Told(i)' = Told(i),
           request' = request, response' = response, done' = done, unclear' = unclear,
           process'[i] \in {process[i], "killed"},
           t = "failed" => g = FALSE,
           t = "output" => process'[i] = "exit_0",
           t \in {"not_authorized", "hint"} => process'[i] = "none"
    PROVE  AnswerOK(i)'
<1>1. /\ task'[i] = "posting" /\ message'[i].text = t /\ message'[i].guarded = g
      /\ response'[i] # Unset /\ Told(i)' = {}
    BY DEF TypeInv, BotTypeOK, Say
<1>2. PostOK(i)'
    BY <1>1 DEF PostOK
<1> QED
    BY <1>1, <1>2 DEF AnswerOK

\* A step of one interaction.
LEMMA InteractionAnswers ==
    ASSUME TypeInv, AnswerInv, NEW i \in Interactions,
           HandleInteraction(i) \/ DispatchStep(i) \/ CliTakesEffect(i) \/ CliExits(i)
    PROVE  AnswerInv'
<1> DEFINE Others ==
        \A j \in Interactions \ {i} :
             /\ Told(j)' = Told(j) /\ response'[j] = response[j] /\ task'[j] = task[j]
             /\ message'[j] = message[j] /\ process'[j] = process[j]
             /\ j \in done => j \in done'
             /\ j \in unclear => j \in unclear'
<1>0. /\ AnswerOK(i)
      /\ task[i] = "posting" => message[i] \in Messages
    BY DEF AnswerInv, TypeInv
<1>typed. /\ response \in [Interactions -> Responses \cup {Unset}]
      /\ task \in [Interactions -> {"none", "ready", "invoking", "waiting", "posting",
                                    "ended", "dropped"}]
      /\ message \in [Interactions -> Messages \cup {Unset}]
      /\ process \in [Interactions -> {"none", "working", "worked", "exit_0", "exit_1",
                                       "killed"}]
    BY DEF TypeInv, BotTypeOK, Messages
<1>1. CASE HandleInteraction(i)
    <2>0. \A j \in Interactions : Told(j)' = Told(j)
        BY <1>1 DEF HandleInteraction, discord, Told
    <2>1. Others /\ request' = request
        BY <2>0, <1>1, <1>typed DEF HandleInteraction, discord
    <2>2. AnswerOK(i)'
        <3>1. /\ task[i] = "none" /\ task'[i] \in {"none", "ready"}
              /\ Told(i)' = Told(i) /\ process' = process /\ message' = message
              /\ done' = done /\ request' = request /\ unclear' = unclear
            BY <2>0, <1>1, <1>0, <1>typed DEF HandleInteraction, discord, AnswerOK
        <3>2. response'[i] # Unset
            BY <1>1, <1>typed, BotAssumption DEF HandleInteraction, Interpret, Responses
        <3> QED
            BY <3>1, <3>2, <1>0 DEF AnswerOK
    <2> QED
        BY <2>1, <2>2, OnlyOne
<1>2. CASE Dispatch(i)
    <2>0. \A j \in Interactions : Told(j)' = Told(j)
        BY <1>2 DEF Dispatch, Say, DispatchUnchanged, discord, Told
    <2>1. Others /\ request' = request
        BY <2>0, <1>2, <1>typed DEF Dispatch, Say, DispatchUnchanged, discord
    <2>2. AnswerOK(i)'
        <3>1. /\ Told(i) = {} /\ response[i] # Unset /\ process[i] = "none"
              /\ task[i] = "ready" /\ Told(i)' = {}
            BY <1>2, <1>0, <2>0 DEF Dispatch, AnswerOK
        <3>2. /\ request' = request /\ response' = response /\ process' = process
              /\ done' = done /\ unclear' = unclear
            BY <1>2 DEF Dispatch, DispatchUnchanged, discord
        <3>3. CASE \E t \in {"not_authorized", "hint"}, g \in BOOLEAN : Say(i, t, g)
            BY <3>1, <3>2, <3>3, <1>0, Spoken DEF Texts
        <3>4. CASE task' = [task EXCEPT ![i] = "invoking"] /\ UNCHANGED message
            BY <3>1, <3>2, <3>4, <1>typed DEF AnswerOK
        <3> QED
            BY <3>3, <3>4, <1>2 DEF Dispatch
    <2> QED
        BY <2>1, <2>2, OnlyOne
<1>3. CASE StartCli(i)
    <2>0. \A j \in Interactions : Told(j)' = Told(j)
        BY <1>3 DEF StartCli, Say, DispatchUnchanged, discord, Told
    <2>1. Others /\ request' = request
        BY <2>0, <1>3, <1>typed DEF StartCli, Say, DispatchUnchanged, discord
    <2>2. AnswerOK(i)'
        <3>1. /\ Told(i) = {} /\ response[i] # Unset /\ process[i] = "none"
              /\ task[i] = "invoking" /\ Told(i)' = {}
            BY <1>3, <1>0, <2>0 DEF StartCli, AnswerOK
        <3>2. /\ request' = request /\ response' = response
              /\ done' = done /\ unclear' = unclear
            BY <1>3 DEF StartCli, DispatchUnchanged, discord
        <3>3. CASE Say(i, "failed", FALSE) /\ UNCHANGED process
            BY <3>1, <3>2, <3>3, <1>0, Spoken DEF Texts
        <3>4. CASE /\ process' = [process EXCEPT ![i] = "working"]
                   /\ task' = [task EXCEPT ![i] = "waiting"]
            BY <3>1, <3>2, <3>4, <1>typed DEF AnswerOK
        <3> QED
            BY <3>3, <3>4, <1>3 DEF StartCli
    <2> QED
        BY <2>1, <2>2, OnlyOne
<1>4. CASE CliReturns(i)
    <2>0. \A j \in Interactions : Told(j)' = Told(j)
        BY <1>4 DEF CliReturns, Say, DispatchUnchanged, discord, Told
    <2>1. Others /\ request' = request
        BY <2>0, <1>4, <1>typed DEF CliReturns, Say, DispatchUnchanged, discord
    <2>2. AnswerOK(i)'
        <3>1. Told(i) = {} /\ response[i] # Unset /\ Told(i)' = Told(i)
            BY <1>4, <1>0, <2>0 DEF CliReturns, AnswerOK
        <3>2. /\ request' = request /\ response' = response /\ process' = process
              /\ done' = done /\ unclear' = unclear
            BY <1>4 DEF CliReturns, DispatchUnchanged, discord
        <3>3. /\ Say(i, Output(i), TRUE) /\ Output(i) \in {"output", "exit_code"}
              /\ Output(i) = "output" => process[i] = "exit_0"
            BY <1>4 DEF CliReturns, Output
        <3> QED
            BY <3>1, <3>2, <3>3, <1>0, Spoken DEF Texts
    <2> QED
        BY <2>1, <2>2, OnlyOne
<1>5. CASE CliTimesOut(i)
    <2>0. \A j \in Interactions : Told(j)' = Told(j)
        BY <1>5 DEF CliTimesOut, Say, DispatchUnchanged, discord, Told
    <2>1. Others /\ request' = request
        BY <2>0, <1>5, <1>typed DEF CliTimesOut, Say, DispatchUnchanged, discord
    <2>2. AnswerOK(i)'
        <3>1. Told(i) = {} /\ response[i] # Unset /\ Told(i)' = Told(i)
            BY <1>5, <1>0, <2>0 DEF CliTimesOut, AnswerOK
        <3>2. /\ request' = request /\ response' = response
              /\ done' = done /\ unclear' = unclear
            BY <1>5 DEF CliTimesOut, DispatchUnchanged, discord
        <3>3. /\ Say(i, "failed", FALSE) \/ Say(i, "internal_error", FALSE)
              /\ process'[i] \in {process[i], "killed"}
            BY <1>5, <1>typed DEF CliTimesOut
        <3> QED
            BY <3>1, <3>2, <3>3, <1>0, Spoken DEF Texts
    <2> QED
        BY <2>1, <2>2, OnlyOne
<1>6. CASE PostIsTaken(i)
    <2>0. message[i].text \in Texts
        BY <1>0, <1>6 DEF PostIsTaken, Messages
    <2>1. \A j \in Interactions :
            Told(j)' = IF j = i THEN Told(j) \cup {message[i].text} ELSE Told(j)
        BY <2>0, <1>6, TextAdded DEF PostIsTaken
    <2>2. Others /\ request' = request
        BY <2>1, <1>6, <1>typed DEF PostIsTaken, PostUnchanged
    <2>3. AnswerOK(i)'
        BY <2>1, <1>6, <1>0, <1>typed DEF PostIsTaken, PostUnchanged, AnswerOK, PostOK
    <2> QED
        BY <2>2, <2>3, OnlyOne
<1>7. CASE PostFails(i)
    <2>0. message[i].text \in Texts
        BY <1>0, <1>7 DEF PostFails, Messages
    <2>1. CASE shown' = shown
        <3>1. \A j \in Interactions : Told(j)' = Told(j)
            BY <2>1 DEF Told
        <3>2. Others /\ request' = request
            BY <3>1, <1>7, <1>typed DEF PostFails, PostUnchanged, Recover, Say
        <3>3. AnswerOK(i)'
            <4>1. /\ task[i] = "posting" /\ PostOK(i) /\ response[i] # Unset
                  /\ request' = request /\ response' = response /\ process' = process
                  /\ done' = done /\ (i \in unclear => i \in unclear')
                BY <1>7, <1>0 DEF PostFails, PostUnchanged, AnswerOK
            <4>2. CASE message[i].guarded
                <5>1. /\ Told(i)' = {} /\ task'[i] = "posting"
                      /\ message'[i] = [text |-> "failed", guarded |-> FALSE]
                    BY <4>1, <4>2, <3>1, <1>7, <1>typed DEF PostFails, Recover, Say, PostOK
                <5>2. PostOK(i)'
                    BY <5>1 DEF PostOK
                <5> QED
                    BY <5>1, <5>2, <4>1, <1>0 DEF AnswerOK
            <4>3. CASE ~message[i].guarded
                <5>1. task'[i] = "ended"
                    BY <4>3, <1>7, <1>typed DEF PostFails, Recover
                <5> QED
                    BY <5>1, <4>1, <3>1, <1>0 DEF AnswerOK
            <4> QED
                BY <4>2, <4>3
        <3> QED
            BY <3>2, <3>3, OnlyOne
    <2>2. CASE /\ shown' = shown \cup {<<i, message[i].text>>}
               /\ unclear' = unclear \cup {i}
        <3>1. \A j \in Interactions :
                Told(j)' = IF j = i THEN Told(j) \cup {message[i].text} ELSE Told(j)
            BY <2>0, <2>2, TextAdded
        <3>2. Others /\ request' = request
            BY <3>1, <1>7, <1>typed DEF PostFails, PostUnchanged, Recover, Say
        <3>3. AnswerOK(i)'
            <4>1. /\ task[i] = "posting" /\ PostOK(i) /\ response[i] # Unset
                  /\ request' = request /\ response' = response /\ process' = process
                  /\ done' = done /\ i \in unclear'
                  /\ Told(i)' = Told(i) \cup {message[i].text}
                BY <1>7, <1>0, <2>2, <3>1 DEF PostFails, PostUnchanged, AnswerOK
            <4>2. CASE message[i].guarded
                <5>1. /\ Told(i)' = {message[i].text} /\ task'[i] = "posting"
                      /\ message'[i] = [text |-> "failed", guarded |-> FALSE]
                    BY <4>1, <4>2, <1>7, <1>typed DEF PostFails, Recover, Say, PostOK
                <5>2. \A t, u \in Told(i)' : t = u
                    BY <5>1
                <5>3. message'[i].text = "failed" /\ ~message'[i].guarded
                    BY <5>1
                <5>4. PostOK(i)'
                    BY <5>2, <5>3, <4>1 DEF PostOK
                <5>5. /\ "output" \in Told(i)' => process'[i] = "exit_0"
                      /\ Told(i)' \cap {"not_authorized", "hint"} # {} =>
                            process'[i] = "none"
                    BY <5>1, <4>1 DEF PostOK
                <5>6. process[i] \in {"worked", "exit_0"} => i \in done \/ request[i] = "status"
                    BY <1>0 DEF AnswerOK
                <5> QED
                    <6>1. /\ response'[i] # Unset /\ task'[i] = "posting"
                          /\ process'[i] = process[i] /\ request'[i] = request[i]
                          /\ (i \in done <=> i \in done')
                        BY <4>1, <5>1
                    <6> QED
                        BY <6>1, <5>4, <5>2, <5>5, <5>6 DEF AnswerOK
            <4>3. CASE ~message[i].guarded
                <5>1. task'[i] = "ended"
                    BY <4>3, <1>7, <1>typed DEF PostFails, Recover
                <5> QED
                    BY <5>1, <4>1, <1>0 DEF AnswerOK, PostOK
            <4> QED
                BY <4>2, <4>3
        <3> QED
            BY <3>2, <3>3, OnlyOne
    <2> QED
        BY <2>1, <2>2, <1>7 DEF PostFails
<1>8. CASE CliTakesEffect(i)
    <2>0. \A j \in Interactions : Told(j)' = Told(j)
        BY <1>8 DEF CliTakesEffect, CliMoves, DispatchUnchanged, discord, Told
    <2>1. Others /\ request' = request
        BY <2>0, <1>8, <1>typed DEF CliTakesEffect, CliMoves, DispatchUnchanged, discord
    <2>2. AnswerOK(i)'
        BY <2>0, <1>8, <1>0, <1>typed DEF CliTakesEffect, CliMoves, DispatchUnchanged, discord,
                               AnswerOK, PostOK
    <2> QED
        BY <2>1, <2>2, OnlyOne
<1>9. CASE CliExits(i)
    <2>0. \A j \in Interactions : Told(j)' = Told(j)
        BY <1>9 DEF CliExits, CliMoves, DispatchUnchanged, discord, Told
    <2>1. Others /\ request' = request
        BY <2>0, <1>9, <1>typed DEF CliExits, CliMoves, DispatchUnchanged, discord
    <2>2. AnswerOK(i)'
        BY <2>0, <1>9, <1>0, <1>typed DEF CliExits, CliMoves, DispatchUnchanged, discord,
                               AnswerOK, PostOK
    <2> QED
        BY <2>1, <2>2, OnlyOne
<1> QED
    BY <1>1, <1>2, <1>3, <1>4, <1>5, <1>6, <1>7, <1>8, <1>9 DEF DispatchStep

\* A step that is not one of an interaction nor the end of the bot.
LEMMA OthersAnswer ==
    ASSUME AnswerInv, UNCHANGED <<request, shown, unclear, response, dispatching>>
    PROVE  AnswerInv'
<1>1. ASSUME NEW j \in Interactions PROVE AnswerOK(j)'
    <2>1. Told(j)' = Told(j)
        BY DEF Told
    <2> QED
        BY <2>1, AnswerStays DEF AnswerInv, dispatching
<1> QED
    BY <1>1 DEF AnswerInv

\* The end of the bot: what was being posted may arrive, the processes may go down.
LEMMA EndAnswers ==
    ASSUME TypeInv, AnswerInv, Ends
    PROVE  AnswerInv'
<1>1. PICK late \in SUBSET {i \in Interactions : task[i] = "posting"} :
        shown' = shown \cup {<<i, message[i].text>> : i \in late}
    BY DEF Ends
<1>2. PICK gone \in SUBSET {i \in Interactions : process[i] \in {"working", "worked"}} :
        process' = [i \in Interactions |-> IF i \in gone THEN "killed" ELSE process[i]]
    BY DEF Ends
<1> SUFFICES ASSUME NEW j \in Interactions PROVE AnswerOK(j)'
    BY DEF AnswerInv
<1>3. /\ AnswerOK(j)
      /\ task[j] = "posting" => message[j].text \in Texts
    BY DEF AnswerInv, TypeInv, Messages
<1>4. Told(j)' = IF j \in late THEN Told(j) \cup {message[j].text} ELSE Told(j)
    BY <1>1, <1>3 DEF Told
<1>5. /\ task'[j] = IF task[j] \in {"none", "ended"} THEN task[j] ELSE "dropped"
      /\ request' = request /\ response' = response /\ done' = done /\ unclear' = unclear
    BY DEF Ends
<1>6. /\ process'[j] = IF j \in gone THEN "killed" ELSE process[j]
      /\ process[j] = "exit_0" => j \notin gone
      /\ process[j] = "none" => j \notin gone
    BY <1>2
<1>7. CASE j \in late
    <2>1. PostOK(j) /\ task[j] = "posting"
        BY <1>1, <1>3, <1>7 DEF AnswerOK
    <2>2. /\ "output" \in Told(j)' => process'[j] = "exit_0"
          /\ Told(j)' \cap {"not_authorized", "hint"} # {} => process'[j] = "none"
        BY <2>1, <1>3, <1>4, <1>6, <1>7 DEF AnswerOK, PostOK
    <2>3. \A t, u \in Told(j)' : t # u => "failed" \in {t, u} /\ j \in unclear
        BY <2>1, <1>4, <1>7 DEF PostOK
    <2> QED
        BY <2>1, <2>2, <2>3, <1>3, <1>5, <1>6 DEF AnswerOK
<1>8. CASE j \notin late
    BY <1>3, <1>4, <1>5, <1>6, <1>8 DEF AnswerOK
<1> QED
    BY <1>7, <1>8

\* At first no one is told anything.
LEMMA InitAnswers == BotInit => AnswerInv
BY DEF BotInit, AnswerInv, AnswerOK, Told

\* Every step keeps the invariant.
LEMMA NextAnswers == TypeInv /\ AnswerInv /\ [BotNext]_botVars => AnswerInv'
<1> SUFFICES ASSUME TypeInv, AnswerInv, [BotNext]_botVars PROVE AnswerInv'
    OBVIOUS
<1>1. CASE Stop \/ Start \/ UNCHANGED botVars
    BY <1>1, OthersAnswer DEF Stop, Start, botVars, discord
<1>2. CASE \E n \in Notices : NotifyStep(n) \/ RelayToDiscord(n)
    <2>1. NotifyUnchanged
        BY <1>2 DEF NotifyStep, NotifyBot, NotifierReturns, NotifierGivesUp, NotifyWebhook,
                    NotifySkipped, NotifyTooLong, RelayToDiscord
    <2> QED
        BY <2>1, OthersAnswer DEF NotifyUnchanged
<1> QED
    BY <1>1, <1>2, EndAnswers, InteractionAnswers DEF BotNext

\* What a user reads is so, for any number of interactions and of posts that fail.
THEOREM AnswersCorrect == BotSpec => []AnswersHonest
<1>1. AnswerInv => AnswersHonest
    BY DEF AnswerInv, AnswerOK, AnswersHonest
<1> QED
    BY InitTyped, NextTyped, InitAnswers, NextAnswers, <1>1, PTL DEF BotSpec

-----------------------------------------------------------------------------
(* What deploy_pack is told of a notification. *)

\* How far a notification is, what its sender knows and what Discord shows fit together.
NoticeOK(n) ==
    /\ copies[n] <= 1
    /\ relay[n] = "none" => copies[n] = 0 /\ result[n] = Unset
    /\ relay[n] = "posting" => copies[n] = 0 /\ result[n] \in {Unset, "failed"}
    /\ relay[n] = "ok" => copies[n] = 1 /\ result[n] = Unset
    /\ relay[n] \in {"502", "lost"} => result[n] = Unset
    /\ result[n] = "sent" => copies[n] = 1
    /\ result[n] = "skipped" => copies[n] = 0
    /\ result[n] \in {"sent", "skipped"} => relay[n] = "over"

NoticeInv == \A n \in Notices : NoticeOK(n)

\* A step of one notification.
LEMMA NoticeStays ==
    ASSUME TypeInv, NoticeInv, NEW n \in Notices, NotifyStep(n) \/ RelayToDiscord(n)
    PROVE  NoticeInv'
<1> USE BotAssumption
<1>1. /\ relay \in [Notices -> {"none", "posting", "ok", "502", "lost", "over"}]
      /\ result \in [Notices -> Verdicts \cup {Unset}]
      /\ copies \in [Notices -> Nat]
    BY DEF TypeInv, BotTypeOK
<1>2. NoticeOK(n)
    BY DEF NoticeInv
<1>3. ASSUME NEW m \in Notices \ {n}
      PROVE  relay'[m] = relay[m] /\ result'[m] = result[m] /\ copies'[m] = copies[m]
    BY <1>1 DEF NotifyStep, NotifyBot, NotifierReturns, NotifierGivesUp, NotifyWebhook,
                NotifySkipped, NotifyTooLong, RelayToDiscord, Tell, Delivery
<1>4. ASSUME NoticeOK(n)' PROVE NoticeInv'
    <2>1. ASSUME NEW m \in Notices \ {n} PROVE NoticeOK(m)'
        BY <1>3, <2>1 DEF NoticeInv, NoticeOK
    <2> QED
        BY <1>4, <2>1 DEF NoticeInv
<1>5. CASE NotifyBot(n) \/ NotifySkipped(n) \/ NotifyTooLong(n)
    <2>1. relay[n] = "none" /\ copies'[n] = 0
        BY <1>2, <1>5 DEF NotifyBot, NotifySkipped, NotifyTooLong, NoticeOK
    <2>2. \/ relay'[n] = "posting" /\ result'[n] = Unset
          \/ relay'[n] = "over" /\ result'[n] \in {"failed", "skipped"}
        BY <1>1, <1>2, <1>5 DEF NotifyBot, NotifySkipped, NotifyTooLong, Tell, NoticeOK
    <2> QED
        BY <2>1, <2>2, <1>4 DEF NoticeOK, Verdicts
<1>6. CASE NotifierReturns(n) \/ NotifierGivesUp(n)
    <2>1. copies' = copies
        BY <1>6 DEF NotifierReturns, NotifierGivesUp
    <2>2. \/ relay[n] = "ok" /\ relay'[n] = "over" /\ result'[n] = "sent"
          \/ relay'[n] = "over" /\ result'[n] = "failed"
          \/ relay[n] = "posting" /\ relay'[n] = "posting" /\ result'[n] = "failed"
        BY <1>1, <1>6 DEF NotifierReturns, NotifierGivesUp, Tell
    <2> QED
        BY <2>1, <2>2, <1>2, <1>4 DEF NoticeOK, Verdicts
<1>7. CASE NotifyWebhook(n)
    <2>0. PICK o \in {"ok", "error"} :
            Delivery(n, o) /\ Tell(n, IF o = "ok" THEN "sent" ELSE "failed")
        BY <1>7 DEF NotifyWebhook
    <2>1. copies[n] = 0
        BY <1>2, <1>7 DEF NotifyWebhook, ToWebhook, NoticeOK
    <2>2. /\ relay'[n] = "over"
          /\ \/ result'[n] = "sent" /\ copies'[n] = 1
             \/ result'[n] = "failed" /\ copies'[n] \in {0, 1}
        BY <2>0, <2>1, <1>1 DEF Tell, Delivery
    <2> QED
        BY <2>2, <1>4 DEF NoticeOK, Verdicts
<1>8. CASE RelayToDiscord(n)
    <2>0. PICK o \in {"ok", "error"} :
            /\ Delivery(n, o)
            /\ relay' = [relay EXCEPT ![n] = IF result[n] = Unset THEN Reply(o) ELSE "over"]
        BY <1>8 DEF RelayToDiscord
    <2>1. copies[n] = 0 /\ result[n] \in {Unset, "failed"} /\ result' = result
        BY <1>2, <1>8 DEF RelayToDiscord, NoticeOK
    <2>2. copies'[n] \in {0, 1} /\ (o = "ok" => copies'[n] = 1)
        BY <2>0, <2>1, <1>1 DEF Delivery
    <2>3. relay'[n] = IF result[n] = Unset THEN Reply(o) ELSE "over"
        BY <2>0, <1>1
    <2> QED
        BY <2>1, <2>2, <2>3, <1>4 DEF NoticeOK, Reply, Verdicts
<1> QED
    BY <1>5, <1>6, <1>7, <1>8 DEF NotifyStep

\* At first nothing is sent.
LEMMA InitNotices == BotInit => NoticeInv
BY BotAssumption DEF BotInit, NoticeInv, NoticeOK, Verdicts

\* The end of the bot: what it was posting may arrive.
LEMMA EndNotices ==
    ASSUME TypeInv, NoticeInv, Ends
    PROVE  NoticeInv'
<1> USE BotAssumption
<1>1. PICK late \in SUBSET {n \in Notices : relay[n] = "posting"} :
        copies' = [n \in Notices |-> IF n \in late THEN copies[n] + 1 ELSE copies[n]]
    BY DEF Ends
<1> SUFFICES ASSUME NEW m \in Notices PROVE NoticeOK(m)'
    BY DEF NoticeInv
<1>2. NoticeOK(m)
    BY DEF NoticeInv
<1>3. /\ relay'[m] = IF relay[m] # "posting" THEN relay[m]
                     ELSE IF result[m] = Unset THEN "lost" ELSE "over"
      /\ result' = result
    BY DEF Ends
<1>4. CASE relay[m] = "posting"
    <2>1. copies[m] = 0 /\ result[m] \in {Unset, "failed"}
        BY <1>2, <1>4 DEF NoticeOK
    <2>2. copies'[m] \in {0, 1}
        BY <1>1, <2>1
    <2> QED
        BY <2>1, <2>2, <1>3, <1>4 DEF NoticeOK, Verdicts
<1>5. CASE relay[m] # "posting"
    <2>1. copies'[m] = copies[m]
        BY <1>1, <1>5
    <2> QED
        BY <2>1, <1>2, <1>3, <1>5 DEF NoticeOK
<1> QED
    BY <1>4, <1>5

\* Every step keeps the invariant.
LEMMA NextNotices == TypeInv /\ NoticeInv /\ [BotNext]_botVars => NoticeInv'
<1> SUFFICES ASSUME TypeInv, NoticeInv, [BotNext]_botVars PROVE NoticeInv'
    OBVIOUS
<1>1. CASE UNCHANGED notifications
    BY <1>1 DEF NoticeInv, NoticeOK, notifications
<1>2. CASE Stop \/ Start \/ UNCHANGED botVars
    BY <1>1, <1>2 DEF Stop, Start, botVars
<1>3. CASE \E i \in Interactions :
             HandleInteraction(i) \/ DispatchStep(i) \/ CliTakesEffect(i) \/ CliExits(i)
    <2>1. UNCHANGED notifications
        BY <1>3 DEF HandleInteraction, DispatchStep, CliTakesEffect, CliExits, CliMoves,
                    Dispatch, StartCli, CliReturns, CliTimesOut, PostIsTaken, PostFails,
                    DispatchUnchanged, PostUnchanged
    <2> QED
        BY <1>1, <2>1
<1> QED
    BY <1>2, <1>3, EndNotices, NoticeStays DEF BotNext

\* A notification is shown at most once and its sender is told nothing else, for any number
\* of notifications.
THEOREM NoticesCorrect == BotSpec => []NoticesHonest
<1>1. NoticeInv => NoticesHonest
    BY DEF NoticeInv, NoticeOK, NoticesHonest
<1> QED
    BY InitTyped, NextTyped, InitNotices, NextNotices, <1>1, PTL DEF BotSpec

-----------------------------------------------------------------------------
(* Whom the bot forgets. *)

\* Discord has not shown the posts of an interaction that many times.
Refused(i, n) == tried[i] >= n

\* What a handler could not say is at least reported: by the time that only the report is
\* left to post, Discord has refused once; and a command runs on only while its task waits.
TellOK(i) ==
    /\ process[i] \in {"working", "worked"} => task[i] \in {"waiting", "dropped"}
    /\ request[i] = "usage" => task[i] \notin {"invoking", "waiting"}
    /\ task[i] = "posting" /\ ~message[i].guarded /\ Handled(i) /\ Told(i) = {} =>
         Refused(i, 1)
    /\ task[i] = "ended" /\ Told(i) = {} =>
         Refused(i, 1) /\ (Handled(i) => Refused(i, 2))

TellInv == \A i \in Interactions : TellOK(i)

\* An interaction of which nothing changes, except that more may be shown.
LEMMA TellStays ==
    ASSUME NEW j \in Interactions, TellOK(j), Told(j) \subseteq Told(j)', request' = request,
           task'[j] = task[j], message'[j] = message[j], process'[j] = process[j],
           tried'[j] = tried[j]
    PROVE  TellOK(j)'
BY Zenon DEF TellOK, Handled, Refused

\* A first post: a handler's is in its try, and any other is of an interaction that no
\* handler has answered.
LEMMA FirstPost ==
    ASSUME NEW i \in Interactions, TypeInv, NEW t \in Texts, NEW g \in BOOLEAN, Say(i, t, g),
           request' = request, process'[i] \notin {"working", "worked"},
           g = FALSE => /\ request[i] # "usage"
                        /\ process'[i] \in {"exit_0", "exit_1"} => t = "internal_error"
    PROVE  TellOK(i)'
<1>1. task'[i] = "posting" /\ message'[i].text = t /\ message'[i].guarded = g
    BY Zenon DEF TypeInv, BotTypeOK, Say
<1> QED
    BY <1>1, Zenon DEF TellOK, Handled

\* A step of one interaction, seen from it.
LEMMA InteractionTells ==
    ASSUME TypeInv, AnswerInv, NEW i \in Interactions, TellOK(i),
           HandleInteraction(i) \/ DispatchStep(i) \/ CliTakesEffect(i) \/ CliExits(i)
    PROVE  TellOK(i)'
<1>0. /\ AnswerOK(i)
      /\ task[i] = "posting" => message[i] \in Messages
    BY DEF AnswerInv, TypeInv
<1>typed. /\ task \in [Interactions -> {"none", "ready", "invoking", "waiting", "posting",
                                      "ended", "dropped"}]
          /\ message \in [Interactions -> Messages \cup {Unset}]
          /\ process \in [Interactions -> {"none", "working", "worked", "exit_0", "exit_1",
                                         "killed"}]
          /\ tried \in [Interactions -> 0..MaxFaults]
    BY Zenon DEF TypeInv, BotTypeOK, Messages
<1>tried. tried[i] \in Nat
    BY <1>typed, BotAssumption
<1>1. CASE HandleInteraction(i)
    <2>1. task[i] = "none" /\ task'[i] \in {"none", "ready"}
        BY <1>1, <1>0, <1>typed DEF HandleInteraction, AnswerOK
    <2>2. UNCHANGED <<request, message, process, tried>>
        BY <1>1 DEF HandleInteraction, discord
    <2> QED
        BY <2>1, <2>2, <1>0 DEF TellOK
<1>2. CASE Dispatch(i)
    <2>1. request' = request /\ process' = process /\ process[i] = "none"
        BY <1>2, <1>0 DEF Dispatch, DispatchUnchanged, AnswerOK
    <2>2. CASE request[i] # "usage"
               /\ \E t \in {"not_authorized", "hint"} : Say(i, t, FALSE)
        BY <2>1, <2>2, FirstPost DEF Texts
    <2>3. CASE Say(i, "hint", TRUE)
        BY <2>1, <2>3, FirstPost DEF Texts
    <2>4. CASE request[i] # "usage" /\ task' = [task EXCEPT ![i] = "invoking"]
        BY <2>1, <2>4, <1>typed DEF TellOK
    <2> QED
        BY <2>2, <2>3, <2>4, <1>2 DEF Dispatch, Authorized
<1>3. CASE StartCli(i)
    <2>1. request' = request /\ process[i] = "none" /\ request[i] # "usage"
        BY <1>3, <1>0 DEF StartCli, DispatchUnchanged, AnswerOK, TellOK
    <2>2. CASE Say(i, "failed", FALSE) /\ UNCHANGED process
        BY <2>1, <2>2, FirstPost DEF Texts
    <2>3. CASE /\ process' = [process EXCEPT ![i] = "working"]
               /\ task' = [task EXCEPT ![i] = "waiting"]
        BY <2>1, <2>3, <1>typed DEF TellOK
    <2> QED
        BY <2>2, <2>3, <1>3 DEF StartCli
<1>4. CASE CliReturns(i)
    BY <1>4, FirstPost DEF CliReturns, Output, DispatchUnchanged, Texts
<1>5. CASE CliTimesOut(i)
    <2>1. request' = request /\ request[i] # "usage"
        BY <1>5 DEF CliTimesOut, DispatchUnchanged, TellOK
    <2>2. CASE process[i] \in {"working", "worked"}
        BY <1>5, <1>typed, <2>1, <2>2, FirstPost DEF CliTimesOut, Texts
    <2>3. CASE process[i] \notin {"working", "worked"}
        BY <1>5, <1>typed, <2>1, <2>3, FirstPost DEF CliTimesOut, Texts
    <2> QED
        BY <2>2, <2>3
<1>6. CASE PostIsTaken(i)
    <2>1. Told(i)' # {}
        BY <1>6, <1>0, TextAdded DEF PostIsTaken, Messages
    <2>2. task[i] = "posting" /\ task'[i] = "ended" /\ UNCHANGED <<request, process>>
        BY <1>6, <1>typed DEF PostIsTaken, PostUnchanged
    <2> QED
        BY <2>1, <2>2 DEF TellOK
<1>7. CASE PostFails(i)
    <2>0. /\ task[i] = "posting" /\ message[i] \in Messages
          /\ UNCHANGED <<request, process>>
        BY <1>7, <1>0 DEF PostFails, PostUnchanged
    <2>1. Told(i)' # {} \/ (Told(i)' = Told(i) /\ tried'[i] = tried[i] + 1)
        <3>1. CASE shown' = shown \cup {<<i, message[i].text>>}
            BY <3>1, <2>0, TextAdded DEF Messages
        <3>2. CASE tried' = [tried EXCEPT ![i] = @ + 1] /\ UNCHANGED shown
            BY <3>2, <1>typed DEF Told
        <3> QED
            BY <3>1, <3>2, <1>7 DEF PostFails
    <2>2. CASE message[i].guarded
        <3>1. task'[i] = "posting"
            BY <1>7, <2>2, <1>typed DEF PostFails, Recover, Say
        <3> QED
            BY <2>0, <2>1, <3>1, <1>tried DEF TellOK, Refused
    <2>3. CASE ~message[i].guarded
        <3>1. task'[i] = "ended" /\ message' = message
            BY <1>7, <2>3, <1>typed DEF PostFails, Recover
        <3> QED
            <4>1. Handled(i)' = Handled(i)
                BY <2>0, <3>1 DEF Handled
            <4> QED
                BY <2>0, <2>1, <2>3, <3>1, <4>1, <1>tried DEF TellOK, Refused
    <2> QED
        BY <2>2, <2>3
<1>8. CASE CliTakesEffect(i) \/ CliExits(i)
    <2>1. /\ process[i] \in {"working", "worked"} /\ task' = task
          /\ request' = request
        BY <1>8 DEF CliTakesEffect, CliExits, CliMoves, DispatchUnchanged
    <2> QED
        BY <2>1 DEF TellOK
<1> QED
    BY <1>1, <1>2, <1>3, <1>4, <1>5, <1>6, <1>7, <1>8 DEF DispatchStep

\* A step of one interaction, seen from another.
LEMMA OthersTell ==
    ASSUME TypeInv, NEW i \in Interactions, NEW j \in Interactions \ {i}, TellOK(j),
           HandleInteraction(i) \/ DispatchStep(i) \/ CliTakesEffect(i) \/ CliExits(i)
    PROVE  TellOK(j)'
<1>1. /\ request' = request /\ task'[j] = task[j] /\ message'[j] = message[j]
      /\ process'[j] = process[j] /\ tried'[j] = tried[j] /\ shown \subseteq shown'
    <2>1. /\ DOMAIN task = Interactions /\ DOMAIN message = Interactions
          /\ DOMAIN process = Interactions /\ DOMAIN tried = Interactions
        BY Zenon DEF TypeInv, BotTypeOK
    <2>2. CASE HandleInteraction(i)
        BY <2>1, <2>2 DEF HandleInteraction, discord
    <2>3. CASE Dispatch(i) \/ StartCli(i) \/ CliReturns(i) \/ CliTimesOut(i)
        BY <2>1, <2>3 DEF Dispatch, StartCli, CliReturns, CliTimesOut, Say, DispatchUnchanged,
                          discord
    <2>4. CASE PostIsTaken(i)
        BY <2>1, <2>4 DEF PostIsTaken, PostUnchanged
    <2>5. CASE PostFails(i)
        BY <2>1, <2>5 DEF PostFails, Recover, Say, PostUnchanged
    <2>6. CASE CliTakesEffect(i) \/ CliExits(i)
        BY <2>1, <2>6 DEF CliTakesEffect, CliExits, CliMoves, DispatchUnchanged, discord
    <2> QED
        BY <2>2, <2>3, <2>4, <2>5, <2>6 DEF DispatchStep
<1>2. Told(j) \subseteq Told(j)'
    BY <1>1 DEF Told
<1> QED
    BY <1>1, <1>2, TellStays

LEMMA NextTells == TypeInv /\ AnswerInv /\ TellInv /\ [BotNext]_botVars => TellInv'
<1> SUFFICES ASSUME TypeInv, AnswerInv, TellInv, [BotNext]_botVars, NEW j \in Interactions
             PROVE  TellOK(j)'
    BY DEF TellInv
<1>0. TellOK(j) BY DEF TellInv
<1>1. CASE UNCHANGED <<request, shown, tried, dispatching>>
    BY <1>0, <1>1, TellStays DEF dispatching, Told
<1>2. CASE Stop \/ Start \/ UNCHANGED botVars
    BY <1>1, <1>2 DEF Stop, Start, botVars, discord
<1>3. CASE \E n \in Notices : NotifyStep(n) \/ RelayToDiscord(n)
    BY <1>1, <1>3
       DEF NotifyStep, NotifyBot, NotifierReturns, NotifierGivesUp, NotifyWebhook,
           NotifySkipped, NotifyTooLong, RelayToDiscord, NotifyUnchanged
<1>4. CASE Ends
    <2>1. /\ UNCHANGED <<request, tried, message>> /\ shown \subseteq shown'
          /\ task'[j] = IF task[j] \in {"none", "ended"} THEN task[j] ELSE "dropped"
        BY <1>4 DEF Ends
    <2>2. /\ process'[j] \in {process[j], "killed"}
          /\ process[j] \notin {"working", "worked"} => process'[j] = process[j]
        BY <1>4 DEF Ends
    <2>3. CASE task[j] = "ended"
        <3>1. Told(j) \subseteq Told(j)' BY <2>1 DEF Told
        <3>2. process'[j] = process[j] BY <1>0, <2>2, <2>3 DEF TellOK
        <3> QED
            BY <1>0, <2>1, <2>3, <3>1, <3>2, TellStays
    <2>4. CASE task[j] # "ended"
        BY <1>0, <2>1, <2>2, <2>4 DEF TellOK
    <2> QED
        BY <2>3, <2>4
<1> QED
    BY <1>0, <1>2, <1>3, <1>4, InteractionTells, OthersTell DEF BotNext

\* No task ends in silence unless Discord refused all it had to say, for any number of
\* interactions and refusals (handlers.py:117-130).
THEOREM NobodyIsForgotten == BotSpec => []NobodyForgotten
<1>1. BotInit => TellInv
    <2>1. ASSUME BotInit, NEW i \in Interactions PROVE TellOK(i)
        <3>1. task[i] = "none" /\ process[i] = "none"
            BY <2>1 DEF BotInit
        <3> QED
            BY <3>1 DEF TellOK
    <2> QED
        BY <2>1 DEF TellInv
<1>2. TellInv => NobodyForgotten
    BY DEF TellInv, TellOK, Refused, NobodyForgotten
<1> QED
    BY InitTyped, NextTyped, InitAnswers, NextAnswers, NextTells, <1>1, <1>2, PTL DEF BotSpec


-----------------------------------------------------------------------------
(* Upgrade: the invariant of a release candidate's life. *)

\* What a command of the operator knows, by where it is.
Holding == {"ack", "fetch", "sealed", "boot"}
Promoting == {"reconcile", "reseal", "gate", "copy", "relabel", "stage"}
HeldOp == [run : Runs, state : RunStates]
Grants == [word : Records \cup {None}, at : 0..MaxNow]
PromoteOp == [run : Runs, tag : Tags, state : RunStates, slip : Slips, staged : BOOLEAN,
              granted : Grants]

OpTyped ==
    /\ pc \in {"idle"} \cup Holding \cup Promoting
    /\ pc \in Holding => op \in HeldOp
    /\ pc \in Promoting => op \in PromoteOp

TreesTyped ==
    /\ inputs \in InputsType /\ compose \in ComposeType
    /\ head \in ComposeType /\ index \in ComposeType \cup {None}
    /\ now \in 0..MaxNow /\ edits \in 0..MaxEdits
    /\ inputs.edit <= edits /\ compose.text <= edits

FilesTyped ==
    /\ report \in [Runs -> Statuses \cup {None}]
    /\ state \in [Runs -> RunStates \cup {None}]
    /\ slip \in [Runs -> Slips \cup {None}]
    /\ release \in [Tags -> Slips \cup {None}]
    /\ ack \subseteq Runs

\* A record that a delivery is about to write is of the interaction it delivers.
AtWork == {t \in [pc : {"write", "append"}, iid : Clicks, record : Records] :
               t.iid = t.record.iid}

RecordsTyped ==
    /\ approval \in [Runs -> Records \cup {None}]
    /\ word \in [Runs -> Records \cup {None}]
    /\ audit \in [Clicks -> Nat]
    /\ delivery \in [Deliveries -> AtWork \cup {NoTask}]
    /\ muddled \subseteq Clicks

\* One command runs at a time: what it has read of its run still stands, and what it has
\* been let through for.
Standing ==
    /\ ~Idle => state[op.run] = op.state
    /\ pc \in {"fetch", "sealed"} => op.state.status \in {"resolved", "acknowledged"}
    /\ pc \in {"reconcile", "reseal"} => op.state.mode = "upgrade"
    /\ \A r \in Runs : slip[r] # None => slip[r].run = r /\ state[r] # None

\* The candidate that is promoted is the one whose approval is asked for, but for Compose.
SamePromoted ==
    pc \in {"reconcile", "reseal", "gate", "copy"} =>
        /\ slip[op.run] \in Slips /\ op.slip.run = op.run
        /\ slip[op.run].inputs = op.slip.inputs /\ slip[op.run].stamp = op.slip.stamp
        /\ op.state.mode = "update" => slip[op.run] = op.slip

\* A release that was written stays.
Released == pc = "relabel" => release[op.tag] \in Slips

\* Losses are acknowledged before a run gets past them.
Asked ==
    /\ \A r \in Runs :
         report[r] = "awaiting_acknowledgment" /\ state[r] # None
           /\ state[r].status \in {"acknowledged", "materialized"} => r \in ack
    /\ pc \in {"ack", "fetch", "sealed"} /\ report[op.run] = "awaiting_acknowledgment"
         => op.run \in ack
    /\ LossesAcknowledged

\* An interaction that no replay can miss is in the audit log, or one delivery is at work
\* on it, or neither yet.
Once ==
    \A i \in Clicks \ muddled :
        \/ audit[i] = 0 /\ \A k, l \in Writing(i) : k = l
        \/ audit[i] = 1 /\ Writing(i) = {}

\* Nobody's last word was replaced by a repetition of an earlier one.
LastWord == muddled = {} => approval = word

\* Between the gate and the copy: the word that let the promotion through.
Granted ==
    pc = "copy" /\ muddled = {} =>
        /\ op.granted.word # None /\ op.granted.word.decision = "approved"
        /\ op.granted.word.binding = op.slip
        /\ op.granted.at < op.granted.word.at + Expiry

-----------------------------------------------------------------------------
(* Lemmas about the contents of the files and the steps. *)

\* A changed status is the rest of the state as it was.
LEMMA StateWith ==
    ASSUME NEW s \in RunStates, NEW status \in Statuses
    PROVE  /\ [s EXCEPT !.status = status] \in RunStates
           /\ [s EXCEPT !.status = status].status = status
           /\ [s EXCEPT !.status = status].mode = s.mode
  BY DEF RunStates

\* A slip that is sealed again around another Compose file is the same otherwise.
LEMMA SlipWith ==
    ASSUME NEW s \in Slips, NEW c \in ComposeType
    PROVE  /\ [s EXCEPT !.compose = c] \in Slips
           /\ [s EXCEPT !.compose = c].run = s.run
           /\ [s EXCEPT !.compose = c].inputs = s.inputs
           /\ [s EXCEPT !.compose = c].stamp = s.stamp
           /\ [s EXCEPT !.compose = c].compose = c
  BY DEF Slips

LEMMA SlipNamed ==
    ASSUME NEW s \in Slips, NEW t \in Tags
    PROVE  [s EXCEPT !.id = t] \in Slips
  BY DEF Slips

LEMMA SlipMade ==
    ASSUME NEW r \in Runs, NEW s \in RunStates, TreesTyped
    PROVE  /\ [id |-> r, run |-> r, inputs |-> s.inputs, compose |-> head, stamp |-> now] \in Slips
           /\ [id |-> r, run |-> r, inputs |-> s.inputs, compose |-> head, stamp |-> now].run = r
  BY DEF Slips, RunStates, TreesTyped

LEMMA RecordMade ==
    ASSUME NEW r \in Runs, NEW d \in Decisions, NEW b \in Slips, NEW i \in Clicks \cup {None},
           TreesTyped
    PROVE  /\ [run |-> r, decision |-> d, binding |-> b, iid |-> i, at |-> now] \in Records
           /\ [run |-> r, decision |-> d, binding |-> b, iid |-> i, at |-> now].iid = i
  BY DEF Records, TreesTyped

\* What a command knows is of its run.
LEMMA HeldFields ==
    ASSUME NEW r \in Runs, NEW s \in RunStates
    PROVE  /\ [run |-> r, state |-> s] \in HeldOp
           /\ [run |-> r, state |-> s].run = r /\ [run |-> r, state |-> s].state = s
  BY DEF HeldOp

LEMMA HeldTyped == ASSUME op \in HeldOp PROVE op.run \in Runs /\ op.state \in RunStates
  BY DEF HeldOp

LEMMA PromoteTyped ==
    ASSUME op \in PromoteOp
    PROVE  op.run \in Runs /\ op.tag \in Tags /\ op.state \in RunStates /\ op.slip \in Slips
  BY DEF PromoteOp

\* A promotion that nothing was granted yet.
FreshOp(r, t, s, p) ==
    [run |-> r, tag |-> t, state |-> s, slip |-> p, staged |-> FALSE, granted |-> NoGrant]

LEMMA PromoteFields ==
    ASSUME NEW r \in Runs, NEW t \in Tags, NEW s \in RunStates, NEW p \in Slips
    PROVE  /\ FreshOp(r, t, s, p) \in PromoteOp
           /\ FreshOp(r, t, s, p).run = r /\ FreshOp(r, t, s, p).state = s
           /\ FreshOp(r, t, s, p).slip = p
  <1>1. NoGrant \in Grants
    BY UpgradeAssumption DEF NoGrant, Grants
  <1> QED BY <1>1 DEF FreshOp, PromoteOp

LEMMA PromoteStaged ==
    ASSUME op \in PromoteOp, NEW b \in BOOLEAN
    PROVE  /\ [op EXCEPT !.staged = b] \in PromoteOp
           /\ [op EXCEPT !.staged = b].run = op.run /\ [op EXCEPT !.staged = b].slip = op.slip
           /\ [op EXCEPT !.staged = b].state = op.state
  BY DEF PromoteOp

LEMMA PromoteGranted ==
    ASSUME op \in PromoteOp, NEW g
    PROVE  /\ g \in Grants => [op EXCEPT !.granted = g] \in PromoteOp
           /\ [op EXCEPT !.granted = g].granted = g
           /\ [op EXCEPT !.granted = g].run = op.run /\ [op EXCEPT !.granted = g].tag = op.tag
           /\ [op EXCEPT !.granted = g].state = op.state
           /\ [op EXCEPT !.granted = g].slip = op.slip
  BY DEF PromoteOp

\* The gate adds to what a promotion knows, and takes nothing from it.
LEMMA GateKeeps ==
    ASSUME GatePassed, OpTyped
    PROVE  /\ op \in PromoteOp /\ pc = "gate" /\ pc' = "copy"
           /\ UNCHANGED <<treeVars, diskVars, delivery, histVars>>
           /\ op'.run = op.run /\ op'.tag = op.tag /\ op'.state = op.state
           /\ op'.slip = op.slip
           /\ op'.granted = [word |-> word[op.run], at |-> now]
           /\ RecordsTyped /\ TreesTyped => op' \in PromoteOp
  <1>1. op \in PromoteOp
    BY DEF GatePassed, OpTyped, Promoting
  <1>2. PICK g : g = [word |-> word[op.run], at |-> now]
    OBVIOUS
  <1>3. op' = [op EXCEPT !.granted = g]
    BY <1>2 DEF GatePassed
  <1>4. RecordsTyped /\ TreesTyped => g \in Grants
    BY <1>1, <1>2, PromoteTyped DEF RecordsTyped, TreesTyped, Grants
  <1> QED BY <1>1, <1>2, <1>3, <1>4, PromoteGranted DEF GatePassed

\* The files an edit and a promotion change.
LEMMA InputsSeeded ==
    ASSUME inputs \in InputsType, NEW r \in Runs
    PROVE  /\ [inputs EXCEPT !.seed = r] \in InputsType
           /\ [inputs EXCEPT !.seed = r].edit = inputs.edit
  BY DEF InputsType

LEMMA ComposeWith ==
    ASSUME compose \in ComposeType, NEW n \in 0..MaxEdits, NEW m \in Runtimes
    PROVE  /\ [runtime |-> m, text |-> n] \in ComposeType
           /\ [runtime |-> m, text |-> n].text = n
           /\ [compose EXCEPT !.runtime = m] \in ComposeType
           /\ [compose EXCEPT !.runtime = m].text = compose.text
  BY DEF ComposeType

\* The runtime that a slip was resolved for.
LEMMA SlipTarget == ASSUME NEW s \in Slips PROVE s.inputs.target \in Runtimes
  BY DEF Slips, InputsType

\* The state that an update writes.
LEMMA StateMade ==
    ASSUME NEW mode \in Modes, NEW status \in Statuses, TreesTyped
    PROVE  LET new == [status |-> status, mode |-> mode, inputs |-> inputs,
                       compose |-> IF mode = "update" THEN compose ELSE None]
           IN  new \in RunStates /\ new.status = status /\ new.mode = mode
  BY DEF RunStates, TreesTyped

\* Every step keeps the types of the working tree.
LEMMA TreesStep ==
    ASSUME TreesTyped, OpTyped, [Next]_vars
    PROVE  TreesTyped'
<1> USE DEF treeVars, diskVars, histVars, Goto, Return, SetState, End
<1>1. ASSUME NEW r \in Runs, NEW mode \in Modes,
            NEW status \in {"resolved", "awaiting_acknowledgment", "failed"}, Update(r, mode, status)
     PROVE  TreesTyped'
    BY <1>1, UpgradeAssumption DEF Update, Idle, TreesTyped
<1>2. ASSUME NEW r \in Runs, AckWrite(r) PROVE TreesTyped'
    BY <1>2, UpgradeAssumption DEF AckWrite, Idle, TreesTyped
<1>3. CASE AckSave
    BY <1>3, UpgradeAssumption DEF AckSave, TreesTyped
<1>4. ASSUME NEW r \in Runs, MatCheck(r) PROVE TreesTyped'
    BY <1>4, UpgradeAssumption DEF MatCheck, MayMaterialize, Idle, TreesTyped
<1>5. CASE FetchRefused \/ BootSucceeds \/ CannotTest
    BY <1>5, UpgradeAssumption DEF FetchRefused, BootSucceeds, CannotTest, TreesTyped
<1>6. CASE MatSeal
    BY <1>6, UpgradeAssumption DEF MatSeal, TreesTyped
<1>7. CASE MatSave
    BY <1>7, UpgradeAssumption DEF MatSave, TreesTyped
<1>8. ASSUME NEW r \in Runs, IterateBegin(r) PROVE TreesTyped'
    BY <1>8, UpgradeAssumption DEF IterateBegin, Idle, TreesTyped
<1>9. CASE BootFails
    BY <1>9, UpgradeAssumption DEF BootFails, TreesTyped
<1>10. ASSUME NEW r \in Runs, NEW d \in Decisions, Decide(r, d) PROVE TreesTyped'
    BY <1>10, UpgradeAssumption DEF Decide, Binding, Idle, TreesTyped
<1>11. ASSUME NEW t \in Tags, PromoteLoad(t) PROVE TreesTyped'
    BY <1>11, UpgradeAssumption DEF PromoteLoad, Candidates, Idle, TreesTyped
<1>12. CASE Reconcile
  <2>1. op \in PromoteOp /\ compose' = [compose EXCEPT !.runtime = op.slip.inputs.target]
    BY <1>12 DEF Reconcile, Reconciled, OpTyped, Promoting
  <2>2. compose' \in ComposeType /\ compose'.text = compose.text
    <3>1. op.slip.inputs.target \in Runtimes /\ 0 \in 0..MaxEdits
      BY <2>1, PromoteTyped, SlipTarget, UpgradeAssumption
    <3> QED BY <2>1, <3>1, ComposeWith DEF TreesTyped
  <2>3. UNCHANGED <<inputs, head, index, now, edits>>
    BY <1>12 DEF Reconcile, Reconciled
  <2> QED BY <2>2, <2>3 DEF TreesTyped
<1>13. CASE Reseal
    BY <1>13, UpgradeAssumption DEF Reseal, TreesTyped
<1>14. CASE GatePassed
    BY <1>14, GateKeeps DEF TreesTyped
<1>15. CASE GateRefused
    BY <1>15, UpgradeAssumption DEF GateRefused, TreesTyped
<1>16. CASE Relabel
    BY <1>16, UpgradeAssumption DEF Relabel, TreesTyped
<1>17. CASE Stage \/ StageFails
  <2>1. op.run \in Runs
    BY <1>17, PromoteTyped DEF Stage, StageFails, OpTyped, Promoting
  <2>2. /\ inputs' = [inputs EXCEPT !.seed = op.run] /\ UNCHANGED <<compose, head, now, edits>>
        /\ index' \in {index, compose}
    BY <1>17 DEF Stage, StageFails
  <2>3. inputs' \in InputsType /\ inputs'.edit = inputs.edit
    BY <2>1, <2>2, InputsSeeded DEF TreesTyped
  <2> QED BY <2>2, <2>3 DEF TreesTyped
<1>18. ASSUME NEW k \in Deliveries, NEW i \in Clicks, NEW r \in Runs, NEW d \in Decisions,
            Deliver(k, i, r, d)
     PROVE  TreesTyped'
    BY <1>18, UpgradeAssumption DEF Deliver, Binding, TreesTyped
<1>19. CASE \E i \in Clicks : Replay(i)
    BY <1>19, UpgradeAssumption DEF Replay, vars, TreesTyped
<1>20. ASSUME NEW k \in Deliveries, WriteCurrent(k) PROVE TreesTyped'
    BY <1>20, UpgradeAssumption DEF WriteCurrent, TreesTyped
<1>21. ASSUME NEW k \in Deliveries, AppendAudit(k) PROVE TreesTyped'
    BY <1>21, UpgradeAssumption DEF AppendAudit, TreesTyped
<1>22. ASSUME NEW k \in Deliveries, Killed(k) PROVE TreesTyped'
    BY <1>22, UpgradeAssumption DEF Killed, TreesTyped
<1>23. ASSUME NEW m \in Runtimes, EditInputs(m) \/ EditCompose(m) PROVE TreesTyped'
  <2>1. CASE EditInputs(m)
    <3>1. /\ edits + 1 \in 0..MaxEdits /\ edits' = edits + 1 /\ inputs.edit <= edits
          /\ inputs.edit + 1 \in 0..MaxEdits /\ UNCHANGED <<compose, head, index, now>>
      BY <2>1, UpgradeAssumption DEF EditInputs, TreesTyped, InputsType
    <3> DEFINE n == inputs.edit + 1
    <3>2. inputs' = [inputs EXCEPT !.edit = n, !.target = m]
      BY <2>1 DEF EditInputs
    <3>3. n \in 0..MaxEdits /\ n <= edits'
      BY <3>1 DEF TreesTyped, InputsType
    <3> HIDE DEF n
    <3>4. inputs' \in InputsType /\ inputs'.edit = n
      <4>1. inputs \in InputsType
        BY DEF TreesTyped
      <4> QED BY <3>2, <3>3, <4>1 DEF InputsType
    <3>5. compose.text <= edits + 1
      BY UpgradeAssumption DEF TreesTyped, ComposeType
    <3> QED BY <3>1, <3>3, <3>4, <3>5 DEF TreesTyped
  <2>2. CASE EditCompose(m)
    <3>1. /\ edits + 1 \in 0..MaxEdits /\ edits' = edits + 1 /\ compose.text <= edits
          /\ compose.text + 1 \in 0..MaxEdits /\ UNCHANGED <<inputs, head, index, now>>
      BY <2>2, UpgradeAssumption DEF EditCompose, TreesTyped, ComposeType
    <3> DEFINE n == compose.text + 1
    <3>2. compose' = [runtime |-> m, text |-> n]
      BY <2>2 DEF EditCompose
    <3>3. n \in 0..MaxEdits /\ n <= edits'
      BY <3>1 DEF TreesTyped, ComposeType
    <3> HIDE DEF n
    <3>4. compose' \in ComposeType /\ compose'.text = n
      BY <3>2, <3>3, ComposeWith DEF TreesTyped
    <3>5. inputs.edit <= edits + 1
      BY UpgradeAssumption DEF TreesTyped, InputsType
    <3> QED BY <3>1, <3>3, <3>4, <3>5 DEF TreesTyped
  <2> QED BY <1>23, <2>1, <2>2
<1>24. CASE Commit
    BY <1>24, UpgradeAssumption DEF Commit, Idle, TreesTyped
<1>25. ASSUME NEW r \in Runs, Discard(r) PROVE TreesTyped'
    BY <1>25, UpgradeAssumption DEF Discard, Idle, TreesTyped
<1>26. CASE Tick
    BY <1>26, UpgradeAssumption DEF Tick, TreesTyped
<1>27. CASE Crash
    BY <1>27, UpgradeAssumption DEF Crash, Idle, TreesTyped
<1>28. CASE UNCHANGED vars
    BY <1>28, UpgradeAssumption DEF vars, TreesTyped
<1>29. CASE CopySlip
    BY <1>29 DEF CopySlip, TreesTyped
<1> QED
    BY <1>1, <1>2, <1>3, <1>4, <1>5, <1>6, <1>7, <1>8, <1>9, <1>10, <1>11, <1>12, <1>13,
       <1>14, <1>15, <1>16, <1>17, <1>18, <1>19, <1>20, <1>21, <1>22, <1>23, <1>24, <1>25,
       <1>26, <1>27, <1>28, <1>29
       DEF Next, Commands, Promote, Approvals, Environment

\* Every step keeps what a command knows.
LEMMA OpStep ==
    ASSUME TreesTyped, OpTyped, FilesTyped, RecordsTyped, [Next]_vars
    PROVE  OpTyped'
<1> USE DEF treeVars, diskVars, histVars, Goto, Return, SetState, End
<1>1. ASSUME NEW r \in Runs, NEW mode \in Modes,
            NEW status \in {"resolved", "awaiting_acknowledgment", "failed"}, Update(r, mode, status)
     PROVE  OpTyped'
    BY <1>1 DEF Update, Idle, OpTyped, Holding, Promoting
<1>2. ASSUME NEW r \in Runs, AckWrite(r) PROVE OpTyped'
    BY <1>2, HeldFields DEF AckWrite, Idle, OpTyped, Holding, Promoting, FilesTyped
<1>3. CASE AckSave
    BY <1>3 DEF AckSave, OpTyped, Holding, Promoting
<1>4. ASSUME NEW r \in Runs, MatCheck(r) PROVE OpTyped'
    BY <1>4, HeldFields DEF MatCheck, MayMaterialize, Idle, OpTyped, Holding, Promoting,
       FilesTyped
<1>5. CASE FetchRefused \/ BootSucceeds \/ CannotTest
    BY <1>5 DEF FetchRefused, BootSucceeds, CannotTest, OpTyped, Holding, Promoting
<1>6. CASE MatSeal
    BY <1>6 DEF MatSeal, OpTyped, Holding, Promoting
<1>7. CASE MatSave
    BY <1>7 DEF MatSave, OpTyped, Holding, Promoting
<1>8. ASSUME NEW r \in Runs, IterateBegin(r) PROVE OpTyped'
    BY <1>8, HeldFields DEF IterateBegin, Idle, OpTyped, Holding, Promoting, FilesTyped
<1>9. CASE BootFails
    BY <1>9 DEF BootFails, OpTyped, Holding, Promoting
<1>10. ASSUME NEW r \in Runs, NEW d \in Decisions, Decide(r, d) PROVE OpTyped'
    BY <1>10 DEF Decide, Binding, Idle, OpTyped, Holding, Promoting
<1>11. ASSUME NEW t \in Tags, PromoteLoad(t) PROVE OpTyped'
  <2>1. PICK r \in Runs :
          /\ slip[r] # None /\ state[r] # None /\ pc' \in {"reconcile", "gate"}
          /\ op' = FreshOp(r, t, state[r], slip[r])
    BY <1>11 DEF PromoteLoad, Candidates, FreshOp
  <2>2. state[r] \in RunStates /\ slip[r] \in Slips
    BY <2>1 DEF FilesTyped
  <2>3. op' \in PromoteOp
    BY <2>1, <2>2, PromoteFields
  <2> QED BY <2>1, <2>3 DEF OpTyped, Holding, Promoting
<1>12. CASE Reconcile
  <2>1. op \in PromoteOp /\ pc' = "reseal" /\ op' = [op EXCEPT !.staged = compose' # compose]
    BY <1>12 DEF Reconcile, Reconciled, OpTyped, Promoting
  <2> DEFINE b == compose' # compose
  <2>2. b \in BOOLEAN /\ op' = [op EXCEPT !.staged = b]
    BY <2>1
  <2> HIDE DEF b
  <2>3. op' \in PromoteOp
    BY <2>1, <2>2, PromoteStaged
  <2> QED BY <2>1, <2>3 DEF OpTyped, Holding, Promoting
<1>13. CASE Reseal
    BY <1>13 DEF Reseal, OpTyped, Holding, Promoting
<1>14. CASE GatePassed
    BY <1>14, GateKeeps DEF OpTyped, Holding, Promoting
<1>15. CASE GateRefused
    BY <1>15 DEF GateRefused, OpTyped, Holding, Promoting
<1>16. CASE Relabel
    BY <1>16 DEF Relabel, OpTyped, Holding, Promoting
<1>17. CASE Stage \/ StageFails
    BY <1>17 DEF Stage, StageFails, OpTyped, Holding, Promoting
<1>18. ASSUME NEW k \in Deliveries, NEW i \in Clicks, NEW r \in Runs, NEW d \in Decisions,
            Deliver(k, i, r, d)
     PROVE  OpTyped'
    BY <1>18 DEF Deliver, Binding, OpTyped, Holding, Promoting
<1>19. CASE \E i \in Clicks : Replay(i)
    BY <1>19 DEF Replay, vars, OpTyped, Holding, Promoting
<1>20. ASSUME NEW k \in Deliveries, WriteCurrent(k) PROVE OpTyped'
    BY <1>20 DEF WriteCurrent, OpTyped, Holding, Promoting
<1>21. ASSUME NEW k \in Deliveries, AppendAudit(k) PROVE OpTyped'
    BY <1>21 DEF AppendAudit, OpTyped, Holding, Promoting
<1>22. ASSUME NEW k \in Deliveries, Killed(k) PROVE OpTyped'
    BY <1>22 DEF Killed, OpTyped, Holding, Promoting
<1>23. ASSUME NEW m \in Runtimes, EditInputs(m) \/ EditCompose(m) PROVE OpTyped'
    BY <1>23 DEF EditInputs, EditCompose, Idle, OpTyped, Holding, Promoting
<1>24. CASE Commit
    BY <1>24 DEF Commit, Idle, OpTyped, Holding, Promoting
<1>25. ASSUME NEW r \in Runs, Discard(r) PROVE OpTyped'
    BY <1>25 DEF Discard, Idle, OpTyped, Holding, Promoting
<1>26. CASE Tick
    BY <1>26 DEF Tick, OpTyped, Holding, Promoting
<1>27. CASE Crash
    BY <1>27 DEF Crash, Idle, OpTyped, Holding, Promoting
<1>28. CASE UNCHANGED vars
    BY <1>28 DEF vars, OpTyped, Holding, Promoting
<1>29. CASE CopySlip
    BY <1>29 DEF CopySlip, OpTyped, Holding, Promoting
<1> QED
    BY <1>1, <1>2, <1>3, <1>4, <1>5, <1>6, <1>7, <1>8, <1>9, <1>10, <1>11, <1>12, <1>13,
       <1>14, <1>15, <1>16, <1>17, <1>18, <1>19, <1>20, <1>21, <1>22, <1>23, <1>24, <1>25,
       <1>26, <1>27, <1>28, <1>29
       DEF Next, Commands, Promote, Approvals, Environment

\* What a saved state and a sealed slip are.
LEMMA SavedState ==
    ASSUME FilesTyped, op \in HeldOp, NEW status \in Statuses, SetState(op.run, status)
    PROVE  /\ state' \in [Runs -> RunStates \cup {None}]
           /\ state'[op.run] \in RunStates /\ state'[op.run].status = status
           /\ state'[op.run].mode = op.state.mode
           /\ \A r \in Runs : r # op.run => state'[r] = state[r]
  <1>1. op.run \in Runs /\ op.state \in RunStates
    BY HeldTyped
  <1> DEFINE new == [op.state EXCEPT !.status = status]
  <1>2. new \in RunStates /\ new.status = status /\ new.mode = op.state.mode
    BY <1>1, StateWith
  <1>3. state' = [state EXCEPT ![op.run] = new]
    BY DEF SetState
  <1> HIDE DEF new
  <1> QED BY <1>1, <1>2, <1>3 DEF FilesTyped

LEMMA Resealed ==
    ASSUME FilesTyped, TreesTyped, NEW r \in Runs, slip[r] \in Slips,
           slip' = [slip EXCEPT ![r].compose = compose]
    PROVE  /\ slip' \in [Runs -> Slips \cup {None}] /\ slip'[r] \in Slips
           /\ slip'[r] = [slip[r] EXCEPT !.compose = slip'[r].compose]
           /\ slip'[r].run = slip[r].run /\ slip'[r].inputs = slip[r].inputs
           /\ slip'[r].stamp = slip[r].stamp
           /\ \A q \in Runs : q # r => slip'[q] = slip[q]
  <1> DEFINE new == [slip[r] EXCEPT !.compose = compose]
  <1>1. slip' = [slip EXCEPT ![r] = new]
    OBVIOUS
  <1>2. /\ new \in Slips /\ new.run = slip[r].run /\ new.inputs = slip[r].inputs
        /\ new.stamp = slip[r].stamp /\ new.compose = compose
    BY SlipWith DEF TreesTyped
  <1>3. new = [slip[r] EXCEPT !.compose = new.compose]
    BY <1>2
  <1> HIDE DEF new
  <1>4. slip'[r] = new
    BY <1>1 DEF FilesTyped
  <1> QED BY <1>1, <1>2, <1>3, <1>4 DEF FilesTyped

\* Every step keeps the types of the files.
LEMMA FilesStep ==
    ASSUME TreesTyped, OpTyped, FilesTyped, Standing, SamePromoted, Released, [Next]_vars
    PROVE  FilesTyped'
<1> USE DEF treeVars, diskVars, histVars, Goto, Return, SetState, End
<1>1. ASSUME NEW r \in Runs, NEW mode \in Modes,
            NEW status \in {"resolved", "awaiting_acknowledgment", "failed"}, Update(r, mode, status)
     PROVE  FilesTyped'
  <2> DEFINE new == [status |-> status, mode |-> mode, inputs |-> inputs,
                     compose |-> IF mode = "update" THEN compose ELSE None]
  <2>1. status \in Statuses
    BY DEF Statuses
  <2>2. new \in RunStates
    BY <2>1, StateMade
  <2>3. /\ report' = [report EXCEPT ![r] = status] /\ state' = [state EXCEPT ![r] = new]
        /\ UNCHANGED <<slip, release, ack>>
    BY <1>1 DEF Update
  <2> HIDE DEF new
  <2> QED BY <2>1, <2>2, <2>3 DEF FilesTyped
<1>2. ASSUME NEW r \in Runs, AckWrite(r) PROVE FilesTyped'
    BY <1>2 DEF AckWrite, Idle, FilesTyped
<1>3. CASE AckSave
  <2>1. op \in HeldOp /\ SetState(op.run, "acknowledged") /\ UNCHANGED <<report, slip, release, ack>>
    BY <1>3 DEF AckSave, OpTyped, Holding
  <2>2. state' \in [Runs -> RunStates \cup {None}]
    BY <2>1, SavedState DEF Statuses
  <2> QED BY <2>1, <2>2 DEF FilesTyped
<1>4. ASSUME NEW r \in Runs, MatCheck(r) PROVE FilesTyped'
    BY <1>4 DEF MatCheck, MayMaterialize, Idle, FilesTyped
<1>5. CASE FetchRefused \/ BootSucceeds \/ CannotTest
    BY <1>5 DEF FetchRefused, BootSucceeds, CannotTest, FilesTyped
<1>6. CASE MatSeal
  <2> DEFINE new == [id |-> op.run, run |-> op.run, inputs |-> op.state.inputs,
                     compose |-> head, stamp |-> now]
  <2>1. op.run \in Runs /\ op.state \in RunStates
    BY <1>6, HeldTyped DEF MatSeal, OpTyped, Holding
  <2>2. new \in Slips
    BY <2>1, SlipMade
  <2>3. slip' = [slip EXCEPT ![op.run] = new] /\ UNCHANGED <<report, state, release, ack>>
    BY <1>6 DEF MatSeal
  <2> HIDE DEF new
  <2> QED BY <2>1, <2>2, <2>3 DEF FilesTyped
<1>7. CASE MatSave
  <2>1. op \in HeldOp /\ SetState(op.run, "materialized") /\ UNCHANGED <<report, slip, release, ack>>
    BY <1>7 DEF MatSave, OpTyped, Holding
  <2>2. state' \in [Runs -> RunStates \cup {None}]
    BY <2>1, SavedState DEF Statuses
  <2> QED BY <2>1, <2>2 DEF FilesTyped
<1>8. ASSUME NEW r \in Runs, IterateBegin(r) PROVE FilesTyped'
    BY <1>8 DEF IterateBegin, Idle, FilesTyped
<1>9. CASE BootFails
  <2>1. op \in HeldOp /\ SetState(op.run, "failed") /\ UNCHANGED <<report, slip, release, ack>>
    BY <1>9 DEF BootFails, OpTyped, Holding
  <2>2. state' \in [Runs -> RunStates \cup {None}]
    BY <2>1, SavedState DEF Statuses
  <2> QED BY <2>1, <2>2 DEF FilesTyped
<1>10. ASSUME NEW r \in Runs, NEW d \in Decisions, Decide(r, d) PROVE FilesTyped'
    BY <1>10 DEF Decide, Binding, Idle, FilesTyped
<1>11. ASSUME NEW t \in Tags, PromoteLoad(t) PROVE FilesTyped'
    BY <1>11 DEF PromoteLoad, Candidates, Idle, FilesTyped
<1>12. CASE Reconcile
    BY <1>12 DEF Reconcile, Reconciled, FilesTyped
<1>13. CASE Reseal
  <2>1. op.run \in Runs /\ slip[op.run] \in Slips
    BY <1>13, PromoteTyped DEF Reseal, OpTyped, Promoting, SamePromoted
  <2>2. /\ slip' = [slip EXCEPT ![op.run].compose = compose]
        /\ UNCHANGED <<report, state, release, ack>>
    BY <1>13 DEF Reseal
  <2> QED BY <2>1, <2>2, Resealed DEF FilesTyped
<1>14. CASE GatePassed
    BY <1>14, GateKeeps DEF FilesTyped
<1>15. CASE GateRefused
    BY <1>15 DEF GateRefused, FilesTyped
<1>16. CASE Relabel
  <2>1. op.tag \in Tags /\ release[op.tag] \in Slips
    BY <1>16, PromoteTyped DEF Relabel, OpTyped, Promoting, Released
  <2> DEFINE new == [release[op.tag] EXCEPT !.id = op.tag]
  <2>2. new \in Slips
    BY <2>1, SlipNamed
  <2>3. /\ release' = [release EXCEPT ![op.tag] = new]
        /\ UNCHANGED <<report, state, slip, ack>>
    BY <1>16 DEF Relabel
  <2> HIDE DEF new
  <2> QED BY <2>1, <2>2, <2>3 DEF FilesTyped
<1>17. CASE Stage \/ StageFails
    BY <1>17 DEF Stage, StageFails, FilesTyped
<1>18. ASSUME NEW k \in Deliveries, NEW i \in Clicks, NEW r \in Runs, NEW d \in Decisions,
            Deliver(k, i, r, d)
     PROVE  FilesTyped'
    BY <1>18 DEF Deliver, Binding, FilesTyped
<1>19. CASE \E i \in Clicks : Replay(i)
    BY <1>19 DEF Replay, vars, FilesTyped
<1>20. ASSUME NEW k \in Deliveries, WriteCurrent(k) PROVE FilesTyped'
    BY <1>20 DEF WriteCurrent, FilesTyped
<1>21. ASSUME NEW k \in Deliveries, AppendAudit(k) PROVE FilesTyped'
    BY <1>21 DEF AppendAudit, FilesTyped
<1>22. ASSUME NEW k \in Deliveries, Killed(k) PROVE FilesTyped'
    BY <1>22 DEF Killed, FilesTyped
<1>23. ASSUME NEW m \in Runtimes, EditInputs(m) \/ EditCompose(m) PROVE FilesTyped'
    BY <1>23 DEF EditInputs, EditCompose, Idle, FilesTyped
<1>24. CASE Commit
    BY <1>24 DEF Commit, Idle, FilesTyped
<1>25. ASSUME NEW r \in Runs, Discard(r) PROVE FilesTyped'
    BY <1>25 DEF Discard, Idle, FilesTyped
<1>26. CASE Tick
    BY <1>26 DEF Tick, FilesTyped
<1>27. CASE Crash
    BY <1>27 DEF Crash, Idle, FilesTyped
<1>28. CASE UNCHANGED vars
    BY <1>28 DEF vars, FilesTyped
<1>29. CASE CopySlip
  <2>1. op.run \in Runs /\ slip[op.run] \in Slips
    BY <1>29, PromoteTyped DEF CopySlip, OpTyped, Promoting, SamePromoted
  <2>2. /\ release' = [release EXCEPT ![op.tag] = slip[op.run]]
        /\ UNCHANGED <<report, state, slip, ack>>
    BY <1>29 DEF CopySlip
  <2> QED BY <2>1, <2>2 DEF FilesTyped
<1> QED
    BY <1>1, <1>2, <1>3, <1>4, <1>5, <1>6, <1>7, <1>8, <1>9, <1>10, <1>11, <1>12, <1>13,
       <1>14, <1>15, <1>16, <1>17, <1>18, <1>19, <1>20, <1>21, <1>22, <1>23, <1>24, <1>25,
       <1>26, <1>27, <1>28, <1>29
       DEF Next, Commands, Promote, Approvals, Environment

\* Every step keeps what the command has read.
LEMMA StandingStep ==
    ASSUME TreesTyped, OpTyped, FilesTyped, SamePromoted, Standing, [Next]_vars
    PROVE  Standing'
<1> USE DEF treeVars, diskVars, histVars, Goto, Return, SetState, End
<1>1. ASSUME NEW r \in Runs, NEW mode \in Modes,
            NEW status \in {"resolved", "awaiting_acknowledgment", "failed"}, Update(r, mode, status)
     PROVE  Standing'
  <2> DEFINE new == [status |-> status, mode |-> mode, inputs |-> inputs,
                     compose |-> IF mode = "update" THEN compose ELSE None]
  <2>1. status \in Statuses
    BY DEF Statuses
  <2>2. new \in RunStates
    BY <2>1, StateMade
  <2>3. /\ state' = [state EXCEPT ![r] = new]
        /\ UNCHANGED <<slip, pc, op>> /\ Idle
    BY <1>1 DEF Update
  <2> HIDE DEF new
  <2> QED BY <2>2, <2>3, FilesAssumption DEF FilesTyped, Standing, Idle
<1>2. ASSUME NEW r \in Runs, AckWrite(r) PROVE Standing'
  <2>1. /\ state[r] \in RunStates /\ pc' \in {"ack", "fetch", "boot"} /\ UNCHANGED <<state, slip>>
        /\ op' = [run |-> r, state |-> state[r]]
        /\ pc' = "fetch" => state[r].status \in {"resolved", "acknowledged"}
    BY <1>2 DEF AckWrite, FilesTyped
  <2>2. op'.run = r /\ op'.state = state[r]
    BY <2>1, HeldFields
  <2> QED BY <2>1, <2>2 DEF Standing, Idle
<1>3. CASE AckSave
  <2>1. op \in HeldOp /\ SetState(op.run, "acknowledged") /\ pc' = "idle" /\ UNCHANGED slip
    BY <1>3 DEF AckSave, OpTyped, Holding
  <2>2. state'[op.run] \in RunStates /\ \A q \in Runs : q # op.run => state'[q] = state[q]
    BY <2>1, SavedState DEF Statuses
  <2> QED BY <2>1, <2>2, FilesAssumption DEF Standing, Idle
<1>4. ASSUME NEW r \in Runs, MatCheck(r) PROVE Standing'
  <2>1. /\ state[r] \in RunStates /\ pc' \in {"ack", "fetch", "boot"} /\ UNCHANGED <<state, slip>>
        /\ op' = [run |-> r, state |-> state[r]]
        /\ pc' = "fetch" => state[r].status \in {"resolved", "acknowledged"}
    BY <1>4 DEF MatCheck, MayMaterialize, FilesTyped
  <2>2. op'.run = r /\ op'.state = state[r]
    BY <2>1, HeldFields
  <2> QED BY <2>1, <2>2 DEF Standing, Idle
<1>5. CASE FetchRefused \/ BootSucceeds \/ CannotTest
    BY <1>5 DEF FetchRefused, BootSucceeds, CannotTest, Standing, OpTyped, Holding,
       Promoting, Idle
<1>6. CASE MatSeal
  <2> DEFINE new == [id |-> op.run, run |-> op.run, inputs |-> op.state.inputs,
                     compose |-> head, stamp |-> now]
  <2>1. op.run \in Runs /\ op.state \in RunStates /\ state[op.run] = op.state
    BY <1>6, HeldTyped DEF MatSeal, OpTyped, Holding, Standing, Idle
  <2>2. new.run = op.run
    OBVIOUS
  <2>3. /\ slip' = [slip EXCEPT ![op.run] = new] /\ UNCHANGED <<state, op>>
        /\ pc = "fetch" /\ pc' = "sealed"
    BY <1>6 DEF MatSeal
  <2> HIDE DEF new
  <2> QED BY <2>1, <2>2, <2>3, FilesAssumption DEF FilesTyped, Standing, Idle
<1>7. CASE MatSave
  <2>1. op \in HeldOp /\ SetState(op.run, "materialized") /\ pc' = "idle" /\ UNCHANGED slip
    BY <1>7 DEF MatSave, OpTyped, Holding
  <2>2. state'[op.run] \in RunStates /\ \A q \in Runs : q # op.run => state'[q] = state[q]
    BY <2>1, SavedState DEF Statuses
  <2> QED BY <2>1, <2>2, FilesAssumption DEF Standing, Idle
<1>8. ASSUME NEW r \in Runs, IterateBegin(r) PROVE Standing'
  <2>1. /\ state[r] \in RunStates /\ pc' \in {"ack", "fetch", "boot"} /\ UNCHANGED <<state, slip>>
        /\ op' = [run |-> r, state |-> state[r]]
        /\ pc' = "fetch" => state[r].status \in {"resolved", "acknowledged"}
    BY <1>8 DEF IterateBegin, FilesTyped
  <2>2. op'.run = r /\ op'.state = state[r]
    BY <2>1, HeldFields
  <2> QED BY <2>1, <2>2 DEF Standing, Idle
<1>9. CASE BootFails
  <2>1. op \in HeldOp /\ SetState(op.run, "failed") /\ pc' = "idle" /\ UNCHANGED slip
    BY <1>9 DEF BootFails, OpTyped, Holding
  <2>2. state'[op.run] \in RunStates /\ \A q \in Runs : q # op.run => state'[q] = state[q]
    BY <2>1, SavedState DEF Statuses
  <2> QED BY <2>1, <2>2, FilesAssumption DEF Standing, Idle
<1>10. ASSUME NEW r \in Runs, NEW d \in Decisions, Decide(r, d) PROVE Standing'
    BY <1>10 DEF Decide, Binding, Idle, Standing, OpTyped, Holding, Promoting, Idle
<1>11. ASSUME NEW t \in Tags, PromoteLoad(t) PROVE Standing'
  <2>1. PICK r \in Runs :
          /\ slip[r] # None /\ state[r] # None
          /\ pc' = IF state[r].mode = "upgrade" THEN "reconcile" ELSE "gate"
          /\ op' = FreshOp(r, t, state[r], slip[r])
          /\ UNCHANGED <<state, slip>>
    BY <1>11 DEF PromoteLoad, Candidates, FreshOp
  <2>2. state[r] \in RunStates /\ slip[r] \in Slips
    BY <2>1 DEF FilesTyped
  <2>3. op'.run = r /\ op'.state = state[r]
    BY <2>1, <2>2, PromoteFields
  <2> QED BY <2>1, <2>3 DEF Standing, Idle
<1>12. CASE Reconcile
  <2>1. /\ op \in PromoteOp /\ pc = "reconcile" /\ pc' = "reseal"
        /\ op' = [op EXCEPT !.staged = compose' # compose] /\ UNCHANGED <<state, slip>>
    BY <1>12 DEF Reconcile, Reconciled, OpTyped, Promoting
  <2> DEFINE b == compose' # compose
  <2>2. b \in BOOLEAN /\ op' = [op EXCEPT !.staged = b]
    BY <2>1
  <2> HIDE DEF b
  <2>3. op'.run = op.run /\ op'.state = op.state
    BY <2>1, <2>2, PromoteStaged
  <2> QED BY <2>1, <2>3 DEF Standing, Idle
<1>13. CASE Reseal
  <2>1. op.run \in Runs /\ slip[op.run] \in Slips
    BY <1>13, PromoteTyped DEF Reseal, OpTyped, Promoting, SamePromoted
  <2>2. /\ slip' = [slip EXCEPT ![op.run].compose = compose]
        /\ UNCHANGED <<state, op>> /\ pc = "reseal" /\ pc' = "gate"
    BY <1>13 DEF Reseal
  <2>3. /\ slip'[op.run].run = slip[op.run].run
        /\ \A q \in Runs : q # op.run => slip'[q] = slip[q]
    BY <2>1, <2>2, Resealed
  <2>4. slip[op.run] # None
    BY <2>1, FilesAssumption
  <2> QED BY <2>1, <2>2, <2>3, <2>4 DEF Standing, Idle
<1>14. CASE GatePassed
    BY <1>14, GateKeeps DEF Standing, Idle
<1>15. CASE GateRefused
    BY <1>15 DEF GateRefused, Standing, OpTyped, Holding, Promoting, Idle
<1>16. CASE Relabel
    BY <1>16 DEF Relabel, Standing, OpTyped, Holding, Promoting, Idle
<1>17. CASE Stage \/ StageFails
    BY <1>17 DEF Stage, StageFails, Standing, OpTyped, Holding, Promoting, Idle
<1>18. ASSUME NEW k \in Deliveries, NEW i \in Clicks, NEW r \in Runs, NEW d \in Decisions,
            Deliver(k, i, r, d)
     PROVE  Standing'
    BY <1>18 DEF Deliver, Binding, Standing, OpTyped, Holding, Promoting, Idle
<1>19. CASE \E i \in Clicks : Replay(i)
    BY <1>19 DEF Replay, vars, Standing, OpTyped, Holding, Promoting, Idle
<1>20. ASSUME NEW k \in Deliveries, WriteCurrent(k) PROVE Standing'
    BY <1>20 DEF WriteCurrent, Standing, OpTyped, Holding, Promoting, Idle
<1>21. ASSUME NEW k \in Deliveries, AppendAudit(k) PROVE Standing'
    BY <1>21 DEF AppendAudit, Standing, OpTyped, Holding, Promoting, Idle
<1>22. ASSUME NEW k \in Deliveries, Killed(k) PROVE Standing'
    BY <1>22 DEF Killed, Standing, OpTyped, Holding, Promoting, Idle
<1>23. ASSUME NEW m \in Runtimes, EditInputs(m) \/ EditCompose(m) PROVE Standing'
    BY <1>23 DEF EditInputs, EditCompose, Idle, Standing, OpTyped, Holding, Promoting,
       Idle
<1>24. CASE Commit
    BY <1>24 DEF Commit, Idle, Standing, OpTyped, Holding, Promoting, Idle
<1>25. ASSUME NEW r \in Runs, Discard(r) PROVE Standing'
    BY <1>25 DEF Discard, Idle, Standing, OpTyped, Holding, Promoting, Idle
<1>26. CASE Tick
    BY <1>26 DEF Tick, Standing, OpTyped, Holding, Promoting, Idle
<1>27. CASE Crash
    BY <1>27 DEF Crash, Idle, Standing, OpTyped, Holding, Promoting, Idle
<1>28. CASE UNCHANGED vars
    BY <1>28 DEF vars, Standing, OpTyped, Holding, Promoting, Idle
<1>29. CASE CopySlip
    BY <1>29 DEF CopySlip, Standing, OpTyped, Holding, Promoting, Idle
<1> QED
    BY <1>1, <1>2, <1>3, <1>4, <1>5, <1>6, <1>7, <1>8, <1>9, <1>10, <1>11, <1>12, <1>13,
       <1>14, <1>15, <1>16, <1>17, <1>18, <1>19, <1>20, <1>21, <1>22, <1>23, <1>24, <1>25,
       <1>26, <1>27, <1>28, <1>29
       DEF Next, Commands, Promote, Approvals, Environment

\* Every step keeps the candidate that is promoted.
LEMMA PromotedStep ==
    ASSUME TreesTyped, OpTyped, FilesTyped, Standing, SamePromoted, Released, [Next]_vars
    PROVE  (SamePromoted /\ Released)'
<1> USE DEF treeVars, diskVars, histVars, Goto, Return, SetState, End
<1>1. ASSUME NEW r \in Runs, NEW mode \in Modes,
            NEW status \in {"resolved", "awaiting_acknowledgment", "failed"}, Update(r, mode, status)
     PROVE  (SamePromoted /\ Released)'
    BY <1>1 DEF Update, Idle, SamePromoted, Released, OpTyped, Holding, Promoting
<1>2. ASSUME NEW r \in Runs, AckWrite(r) PROVE (SamePromoted /\ Released)'
    BY <1>2 DEF AckWrite, Idle, SamePromoted, Released, OpTyped, Holding, Promoting
<1>3. CASE AckSave
    BY <1>3 DEF AckSave, SamePromoted, Released, OpTyped, Holding, Promoting
<1>4. ASSUME NEW r \in Runs, MatCheck(r) PROVE (SamePromoted /\ Released)'
    BY <1>4 DEF MatCheck, MayMaterialize, Idle, SamePromoted, Released, OpTyped, Holding,
       Promoting
<1>5. CASE FetchRefused \/ BootSucceeds \/ CannotTest
    BY <1>5 DEF FetchRefused, BootSucceeds, CannotTest, SamePromoted, Released, OpTyped,
       Holding, Promoting
<1>6. CASE MatSeal
    BY <1>6 DEF MatSeal, SamePromoted, Released, OpTyped, Holding, Promoting
<1>7. CASE MatSave
    BY <1>7 DEF MatSave, SamePromoted, Released, OpTyped, Holding, Promoting
<1>8. ASSUME NEW r \in Runs, IterateBegin(r) PROVE (SamePromoted /\ Released)'
    BY <1>8 DEF IterateBegin, Idle, SamePromoted, Released, OpTyped, Holding, Promoting
<1>9. CASE BootFails
    BY <1>9 DEF BootFails, SamePromoted, Released, OpTyped, Holding, Promoting
<1>10. ASSUME NEW r \in Runs, NEW d \in Decisions, Decide(r, d) PROVE (SamePromoted /\ Released)'
    BY <1>10 DEF Decide, Binding, Idle, SamePromoted, Released, OpTyped, Holding,
       Promoting
<1>11. ASSUME NEW t \in Tags, PromoteLoad(t) PROVE (SamePromoted /\ Released)'
  <2>1. PICK r \in Runs :
          /\ slip[r] # None /\ state[r] # None /\ pc' \in {"reconcile", "gate"}
          /\ op' = FreshOp(r, t, state[r], slip[r])
          /\ UNCHANGED <<state, slip, release>>
    BY <1>11 DEF PromoteLoad, Candidates, FreshOp
  <2>2. state[r] \in RunStates /\ slip[r] \in Slips /\ slip[r].run = r
    BY <2>1 DEF FilesTyped, Standing
  <2>3. op'.run = r /\ op'.state = state[r] /\ op'.slip = slip[r]
    BY <2>1, <2>2, PromoteFields
  <2> QED BY <2>1, <2>2, <2>3 DEF SamePromoted, Released
<1>12. CASE Reconcile
  <2>1. /\ op \in PromoteOp /\ pc = "reconcile" /\ pc' = "reseal"
        /\ op' = [op EXCEPT !.staged = compose' # compose] /\ UNCHANGED <<state, slip, release>>
    BY <1>12 DEF Reconcile, Reconciled, OpTyped, Promoting
  <2> DEFINE b == compose' # compose
  <2>2. b \in BOOLEAN /\ op' = [op EXCEPT !.staged = b]
    BY <2>1
  <2> HIDE DEF b
  <2>3. op'.run = op.run /\ op'.state = op.state /\ op'.slip = op.slip
    BY <2>1, <2>2, PromoteStaged
  <2> QED BY <2>1, <2>3 DEF SamePromoted, Released
<1>13. CASE Reseal
  <2>1. op \in PromoteOp /\ op.run \in Runs /\ slip[op.run] \in Slips /\ op.state.mode = "upgrade"
    BY <1>13, PromoteTyped DEF Reseal, OpTyped, Promoting, SamePromoted, Standing
  <2>2. /\ slip' = [slip EXCEPT ![op.run].compose = compose]
        /\ UNCHANGED <<state, op, release>> /\ pc = "reseal" /\ pc' = "gate"
    BY <1>13 DEF Reseal
  <2>3. /\ slip'[op.run] \in Slips /\ slip'[op.run].inputs = slip[op.run].inputs
        /\ slip'[op.run].stamp = slip[op.run].stamp
    BY <2>1, <2>2, Resealed
  <2> QED BY <2>1, <2>2, <2>3 DEF SamePromoted, Released
<1>14. CASE GatePassed
    BY <1>14, GateKeeps DEF SamePromoted, Released
<1>15. CASE GateRefused
    BY <1>15 DEF GateRefused, SamePromoted, Released, OpTyped, Holding, Promoting
<1>16. CASE Relabel
  <2>1. pc' = "stage"
    BY <1>16 DEF Relabel
  <2> QED BY <2>1 DEF SamePromoted, Released
<1>17. CASE Stage \/ StageFails
    BY <1>17 DEF Stage, StageFails, SamePromoted, Released, OpTyped, Holding, Promoting
<1>18. ASSUME NEW k \in Deliveries, NEW i \in Clicks, NEW r \in Runs, NEW d \in Decisions,
            Deliver(k, i, r, d)
     PROVE  (SamePromoted /\ Released)'
    BY <1>18 DEF Deliver, Binding, SamePromoted, Released, OpTyped, Holding, Promoting
<1>19. CASE \E i \in Clicks : Replay(i)
    BY <1>19 DEF Replay, vars, SamePromoted, Released, OpTyped, Holding, Promoting
<1>20. ASSUME NEW k \in Deliveries, WriteCurrent(k) PROVE (SamePromoted /\ Released)'
    BY <1>20 DEF WriteCurrent, SamePromoted, Released, OpTyped, Holding, Promoting
<1>21. ASSUME NEW k \in Deliveries, AppendAudit(k) PROVE (SamePromoted /\ Released)'
    BY <1>21 DEF AppendAudit, SamePromoted, Released, OpTyped, Holding, Promoting
<1>22. ASSUME NEW k \in Deliveries, Killed(k) PROVE (SamePromoted /\ Released)'
    BY <1>22 DEF Killed, SamePromoted, Released, OpTyped, Holding, Promoting
<1>23. ASSUME NEW m \in Runtimes, EditInputs(m) \/ EditCompose(m) PROVE (SamePromoted /\ Released)'
    BY <1>23 DEF EditInputs, EditCompose, Idle, SamePromoted, Released, OpTyped, Holding,
       Promoting
<1>24. CASE Commit
    BY <1>24 DEF Commit, Idle, SamePromoted, Released, OpTyped, Holding, Promoting
<1>25. ASSUME NEW r \in Runs, Discard(r) PROVE (SamePromoted /\ Released)'
    BY <1>25 DEF Discard, Idle, SamePromoted, Released, OpTyped, Holding, Promoting
<1>26. CASE Tick
    BY <1>26 DEF Tick, SamePromoted, Released, OpTyped, Holding, Promoting
<1>27. CASE Crash
    BY <1>27 DEF Crash, Idle, SamePromoted, Released, OpTyped, Holding, Promoting
<1>28. CASE UNCHANGED vars
    BY <1>28 DEF vars, SamePromoted, Released, OpTyped, Holding, Promoting
<1>29. CASE CopySlip
  <2>1. op.run \in Runs /\ op.tag \in Tags /\ slip[op.run] \in Slips
    BY <1>29, PromoteTyped DEF CopySlip, OpTyped, Promoting, SamePromoted
  <2>2. /\ release' = [release EXCEPT ![op.tag] = slip[op.run]]
        /\ UNCHANGED op /\ pc' = "relabel"
    BY <1>29 DEF CopySlip
  <2> QED BY <2>1, <2>2 DEF FilesTyped, SamePromoted, Released
<1> QED
    BY <1>1, <1>2, <1>3, <1>4, <1>5, <1>6, <1>7, <1>8, <1>9, <1>10, <1>11, <1>12, <1>13,
       <1>14, <1>15, <1>16, <1>17, <1>18, <1>19, <1>20, <1>21, <1>22, <1>23, <1>24, <1>25,
       <1>26, <1>27, <1>28, <1>29
       DEF Next, Commands, Promote, Approvals, Environment

\* Every step keeps losses behind their acknowledgment.
LEMMA AskedStep ==
    ASSUME TreesTyped, OpTyped, FilesTyped, Standing, SamePromoted, Asked, [Next]_vars
    PROVE  Asked'
<1> USE DEF treeVars, diskVars, histVars, Goto, Return, SetState, End
<1>1. ASSUME NEW r \in Runs, NEW mode \in Modes,
            NEW status \in {"resolved", "awaiting_acknowledgment", "failed"}, Update(r, mode, status)
     PROVE  Asked'
  <2> DEFINE new == [status |-> status, mode |-> mode, inputs |-> inputs,
                     compose |-> IF mode = "update" THEN compose ELSE None]
  <2>1. status \in Statuses
    BY DEF Statuses
  <2>2. new.status = status
    OBVIOUS
  <2>3. /\ report' = [report EXCEPT ![r] = status] /\ state' = [state EXCEPT ![r] = new]
        /\ UNCHANGED <<slip, ack, pc, op>> /\ Idle /\ slip[r] = None
    BY <1>1 DEF Update, Standing
  <2> HIDE DEF new
  <2> QED BY <2>2, <2>3 DEF FilesTyped, Asked, LossesAcknowledged, Idle
<1>2. ASSUME NEW r \in Runs, AckWrite(r) PROVE Asked'
  <2>1. /\ state[r] \in RunStates /\ pc' \in {"ack", "fetch", "boot"}
        /\ op' = [run |-> r, state |-> state[r]]
        /\ pc' = "fetch" => state[r].status \in {"resolved", "acknowledged"}
        /\ pc' = "fetch" /\ state[r].status = "resolved" => report[r] = "resolved"
        /\ pc' = "ack" => ack' = ack \cup {r}
        /\ ack' \in {ack, ack \cup {r}} /\ UNCHANGED <<report, state, slip>>
    BY <1>2 DEF AckWrite, FilesTyped
  <2>2. op'.run = r
    BY <2>1, HeldFields
  <2>3. pc' = "fetch" /\ report[r] = "awaiting_acknowledgment" => r \in ack
    BY <2>1, FilesAssumption DEF Asked
  <2> QED BY <2>1, <2>2, <2>3 DEF Asked, LossesAcknowledged
<1>3. CASE AckSave
  <2>1. /\ op \in HeldOp /\ SetState(op.run, "acknowledged") /\ pc = "ack" /\ pc' = "idle"
        /\ UNCHANGED <<report, slip, ack>>
    BY <1>3 DEF AckSave, OpTyped, Holding
  <2>2. /\ op.run \in Runs /\ state'[op.run].status = "acknowledged"
        /\ \A q \in Runs : q # op.run => state'[q] = state[q]
    BY <2>1, SavedState, HeldTyped DEF Statuses
  <2> QED BY <2>1, <2>2 DEF Asked, LossesAcknowledged
<1>4. ASSUME NEW r \in Runs, MatCheck(r) PROVE Asked'
  <2>1. /\ state[r] \in RunStates /\ pc' \in {"ack", "fetch", "boot"}
        /\ op' = [run |-> r, state |-> state[r]]
        /\ pc' = "fetch" => state[r].status \in {"resolved", "acknowledged"}
        /\ pc' = "fetch" /\ state[r].status = "resolved" => report[r] = "resolved"
        /\ pc' = "ack" => ack' = ack \cup {r}
        /\ ack' \in {ack, ack \cup {r}} /\ UNCHANGED <<report, state, slip>>
    BY <1>4 DEF MatCheck, MayMaterialize, FilesTyped
  <2>2. op'.run = r
    BY <2>1, HeldFields
  <2>3. pc' = "fetch" /\ report[r] = "awaiting_acknowledgment" => r \in ack
    BY <2>1, FilesAssumption DEF Asked
  <2> QED BY <2>1, <2>2, <2>3 DEF Asked, LossesAcknowledged
<1>5. CASE FetchRefused \/ BootSucceeds \/ CannotTest
    BY <1>5 DEF FetchRefused, BootSucceeds, CannotTest, Asked, LossesAcknowledged,
       OpTyped, Holding, Promoting, Idle
<1>6. CASE MatSeal
  <2>1. op.run \in Runs
    BY <1>6, HeldTyped DEF MatSeal, OpTyped, Holding
  <2>2. /\ \A q \in Runs : q # op.run => slip'[q] = slip[q]
        /\ pc = "fetch" /\ pc' = "sealed" /\ UNCHANGED <<report, state, ack, op>>
    BY <1>6 DEF MatSeal, FilesTyped
  <2> QED BY <2>1, <2>2 DEF Asked, LossesAcknowledged
<1>7. CASE MatSave
  <2>1. /\ op \in HeldOp /\ SetState(op.run, "materialized") /\ pc = "sealed" /\ pc' = "idle"
        /\ UNCHANGED <<report, slip, ack>>
    BY <1>7 DEF MatSave, OpTyped, Holding
  <2>2. /\ op.run \in Runs /\ state'[op.run].status = "materialized"
        /\ \A q \in Runs : q # op.run => state'[q] = state[q]
    BY <2>1, SavedState, HeldTyped DEF Statuses
  <2> QED BY <2>1, <2>2 DEF Asked, LossesAcknowledged
<1>8. ASSUME NEW r \in Runs, IterateBegin(r) PROVE Asked'
  <2>1. /\ state[r] \in RunStates /\ pc' \in {"ack", "fetch", "boot"}
        /\ op' = [run |-> r, state |-> state[r]]
        /\ pc' = "fetch" => state[r].status \in {"resolved", "acknowledged"}
        /\ pc' = "fetch" /\ state[r].status = "resolved" => report[r] = "resolved"
        /\ pc' = "ack" => ack' = ack \cup {r}
        /\ ack' \in {ack, ack \cup {r}} /\ UNCHANGED <<report, state, slip>>
    BY <1>8 DEF IterateBegin, FilesTyped
  <2>2. op'.run = r
    BY <2>1, HeldFields
  <2>3. pc' = "fetch" /\ report[r] = "awaiting_acknowledgment" => r \in ack
    BY <2>1, FilesAssumption DEF Asked
  <2> QED BY <2>1, <2>2, <2>3 DEF Asked, LossesAcknowledged
<1>9. CASE BootFails
  <2>1. /\ op \in HeldOp /\ SetState(op.run, "failed") /\ pc = "boot" /\ pc' = "idle"
        /\ UNCHANGED <<report, slip, ack>>
    BY <1>9 DEF BootFails, OpTyped, Holding
  <2>2. /\ op.run \in Runs /\ state'[op.run].status = "failed"
        /\ \A q \in Runs : q # op.run => state'[q] = state[q]
    BY <2>1, SavedState, HeldTyped DEF Statuses
  <2> QED BY <2>1, <2>2 DEF Asked, LossesAcknowledged
<1>10. ASSUME NEW r \in Runs, NEW d \in Decisions, Decide(r, d) PROVE Asked'
    BY <1>10 DEF Decide, Binding, Idle, Asked, LossesAcknowledged, OpTyped, Holding,
       Promoting, Idle
<1>11. ASSUME NEW t \in Tags, PromoteLoad(t) PROVE Asked'
    BY <1>11 DEF PromoteLoad, Candidates, Idle, Asked, LossesAcknowledged, OpTyped,
       Holding, Promoting, Idle
<1>12. CASE Reconcile
    BY <1>12 DEF Reconcile, Reconciled, Asked, LossesAcknowledged, OpTyped, Holding, Promoting, Idle
<1>13. CASE Reseal
  <2>1. op.run \in Runs /\ slip[op.run] \in Slips
    BY <1>13, PromoteTyped DEF Reseal, OpTyped, Promoting, SamePromoted
  <2>2. /\ slip' = [slip EXCEPT ![op.run].compose = compose]
        /\ UNCHANGED <<report, state, ack, op>> /\ pc = "reseal" /\ pc' = "gate"
    BY <1>13 DEF Reseal
  <2>3. \A q \in Runs : q # op.run => slip'[q] = slip[q]
    BY <2>1, <2>2, Resealed
  <2>4. slip[op.run] # None
    BY <2>1, FilesAssumption
  <2> QED BY <2>1, <2>2, <2>3, <2>4 DEF Asked, LossesAcknowledged
<1>14. CASE GatePassed
    BY <1>14, GateKeeps DEF Asked, LossesAcknowledged
<1>15. CASE GateRefused
    BY <1>15 DEF GateRefused, Asked, LossesAcknowledged, OpTyped, Holding, Promoting, Idle
<1>16. CASE Relabel
    BY <1>16 DEF Relabel, Asked, LossesAcknowledged, OpTyped, Holding, Promoting, Idle
<1>17. CASE Stage \/ StageFails
    BY <1>17 DEF Stage, StageFails, Asked, LossesAcknowledged, OpTyped, Holding,
       Promoting, Idle
<1>18. ASSUME NEW k \in Deliveries, NEW i \in Clicks, NEW r \in Runs, NEW d \in Decisions,
            Deliver(k, i, r, d)
     PROVE  Asked'
    BY <1>18 DEF Deliver, Binding, Asked, LossesAcknowledged, OpTyped, Holding, Promoting,
       Idle
<1>19. CASE \E i \in Clicks : Replay(i)
    BY <1>19 DEF Replay, vars, Asked, LossesAcknowledged, OpTyped, Holding, Promoting,
       Idle
<1>20. ASSUME NEW k \in Deliveries, WriteCurrent(k) PROVE Asked'
    BY <1>20 DEF WriteCurrent, Asked, LossesAcknowledged, OpTyped, Holding, Promoting,
       Idle
<1>21. ASSUME NEW k \in Deliveries, AppendAudit(k) PROVE Asked'
    BY <1>21 DEF AppendAudit, Asked, LossesAcknowledged, OpTyped, Holding, Promoting, Idle
<1>22. ASSUME NEW k \in Deliveries, Killed(k) PROVE Asked'
    BY <1>22 DEF Killed, Asked, LossesAcknowledged, OpTyped, Holding, Promoting, Idle
<1>23. ASSUME NEW m \in Runtimes, EditInputs(m) \/ EditCompose(m) PROVE Asked'
    BY <1>23 DEF EditInputs, EditCompose, Idle, Asked, LossesAcknowledged, OpTyped,
       Holding, Promoting, Idle
<1>24. CASE Commit
    BY <1>24 DEF Commit, Idle, Asked, LossesAcknowledged, OpTyped, Holding, Promoting,
       Idle
<1>25. ASSUME NEW r \in Runs, Discard(r) PROVE Asked'
    BY <1>25 DEF Discard, Idle, Asked, LossesAcknowledged, OpTyped, Holding, Promoting,
       Idle
<1>26. CASE Tick
    BY <1>26 DEF Tick, Asked, LossesAcknowledged, OpTyped, Holding, Promoting, Idle
<1>27. CASE Crash
    BY <1>27 DEF Crash, Idle, Asked, LossesAcknowledged, OpTyped, Holding, Promoting, Idle
<1>28. CASE UNCHANGED vars
    BY <1>28 DEF vars, Asked, LossesAcknowledged, OpTyped, Holding, Promoting, Idle
<1>29. CASE CopySlip
    BY <1>29 DEF CopySlip, Asked, LossesAcknowledged, OpTyped, Holding, Promoting, Idle
<1> QED
    BY <1>1, <1>2, <1>3, <1>4, <1>5, <1>6, <1>7, <1>8, <1>9, <1>10, <1>11, <1>12, <1>13,
       <1>14, <1>15, <1>16, <1>17, <1>18, <1>19, <1>20, <1>21, <1>22, <1>23, <1>24, <1>25,
       <1>26, <1>27, <1>28, <1>29
       DEF Next, Commands, Promote, Approvals, Environment

-----------------------------------------------------------------------------
(* The records of decisions, and the deliveries that write them. *)

\* What a delivery is at work on.
LEMMA AtWorkFields ==
    ASSUME NEW t \in AtWork
    PROVE  /\ t.pc \in {"write", "append"} /\ t.iid \in Clicks /\ t.record \in Records
           /\ t.record.iid = t.iid /\ t.record.run \in Runs
  BY DEF AtWork, Records

LEMMA Working ==
    ASSUME RecordsTyped, NEW k \in Deliveries, delivery[k].pc \in {"write", "append"}
    PROVE  delivery[k] \in AtWork
  BY DEF RecordsTyped, NoTask

LEMMA TaskMade ==
    ASSUME NEW i \in Clicks, NEW rec \in Records, rec.iid = i
    PROVE  /\ [pc |-> "write", iid |-> i, record |-> rec] \in AtWork
           /\ [pc |-> "write", iid |-> i, record |-> rec].pc = "write"
           /\ [pc |-> "write", iid |-> i, record |-> rec].iid = i
  BY DEF AtWork

LEMMA TaskMoved ==
    ASSUME NEW t \in AtWork
    PROVE  /\ [t EXCEPT !.pc = "append"] \in AtWork
           /\ [t EXCEPT !.pc = "append"].pc = "append"
           /\ [t EXCEPT !.pc = "append"].iid = t.iid
  BY DEF AtWork

\* The deliveries at work on an interaction change only when one of them begins or ends.
LEMMA SameWriting == delivery' = delivery => \A i \in Clicks : Writing(i)' = Writing(i)
  BY DEF Writing

LEMMA Begun ==
    ASSUME RecordsTyped, NEW k \in Deliveries, NEW i \in Clicks, NEW t \in AtWork,
           delivery[k] = NoTask, t.iid = i, delivery' = [delivery EXCEPT ![k] = t]
    PROVE  /\ Writing(i)' = Writing(i) \cup {k}
           /\ \A j \in Clicks : j # i => Writing(j)' = Writing(j)
  <1>1. /\ delivery'[k] = t /\ \A l \in Deliveries : l # k => delivery'[l] = delivery[l]
    BY DEF RecordsTyped
  <1>2. delivery'[k].pc \in {"write", "append"} /\ delivery'[k].iid = i
    BY <1>1, AtWorkFields
  <1>3. delivery[k].pc \notin {"write", "append"}
    BY DEF NoTask
  <1> QED BY <1>1, <1>2, <1>3 DEF Writing

LEMMA Ended ==
    ASSUME RecordsTyped, NEW k \in Deliveries, delivery[k].pc \in {"write", "append"}, End(k)
    PROVE  \A j \in Clicks : Writing(j)' = Writing(j) \ {k}
  <1>1. /\ delivery'[k] = NoTask /\ \A l \in Deliveries : l # k => delivery'[l] = delivery[l]
    BY DEF RecordsTyped, End
  <1>2. delivery'[k].pc \notin {"write", "append"}
    BY <1>1 DEF NoTask
  <1> QED BY <1>1, <1>2 DEF Writing

LEMMA Moved ==
    ASSUME RecordsTyped, NEW k \in Deliveries, delivery[k].pc = "write",
           delivery' = [delivery EXCEPT ![k].pc = "append"]
    PROVE  /\ delivery' \in [Deliveries -> AtWork \cup {NoTask}]
           /\ \A j \in Clicks : Writing(j)' = Writing(j)
  <1>1. delivery[k] \in AtWork
    BY Working
  <1> DEFINE new == [delivery[k] EXCEPT !.pc = "append"]
  <1>2. new \in AtWork /\ new.pc = "append" /\ new.iid = delivery[k].iid
    BY <1>1, TaskMoved
  <1>3. delivery' = [delivery EXCEPT ![k] = new]
    OBVIOUS
  <1> HIDE DEF new
  <1>4. delivery'[k] = new /\ \A l \in Deliveries : l # k => delivery'[l] = delivery[l]
    BY <1>3 DEF RecordsTyped
  <1>5. \A j \in Clicks : Writing(j)' = Writing(j)
    BY <1>2, <1>4 DEF Writing
  <1> QED BY <1>2, <1>3, <1>5 DEF RecordsTyped

\* What a delivery begins with.
LEMMA Delivered ==
    ASSUME TreesTyped, FilesTyped, NEW k \in Deliveries, NEW i \in Clicks, NEW r \in Runs,
           NEW d \in Decisions, Deliver(k, i, r, d)
    PROVE  \E t \in AtWork : t.iid = i /\ delivery' = [delivery EXCEPT ![k] = t]
  <1> DEFINE rec == [run |-> r, decision |-> d, binding |-> slip[r], iid |-> i, at |-> now]
  <1> DEFINE t == [pc |-> "write", iid |-> i, record |-> rec]
  <1>1. slip[r] \in Slips
    BY DEF Deliver, FilesTyped
  <1>2. rec \in Records /\ rec.iid = i
    BY <1>1, RecordMade
  <1>3. delivery' = [delivery EXCEPT ![k] = t]
    BY DEF Deliver, Binding
  <1> HIDE DEF rec
  <1>4. t \in AtWork /\ t.iid = i
    BY <1>2, TaskMade
  <1> HIDE DEF t
  <1> QED BY <1>3, <1>4

\* Every step keeps the types of the records.
LEMMA RecordsStep ==
    ASSUME TreesTyped, FilesTyped, RecordsTyped, [Next]_vars
    PROVE  RecordsTyped'
<1> USE DEF treeVars, diskVars, histVars, Goto, Return, SetState, End
<1>1. ASSUME NEW r \in Runs, NEW mode \in Modes,
            NEW status \in {"resolved", "awaiting_acknowledgment", "failed"}, Update(r, mode, status)
     PROVE  RecordsTyped'
    BY <1>1 DEF Update, Idle, RecordsTyped
<1>2. ASSUME NEW r \in Runs, AckWrite(r) PROVE RecordsTyped'
    BY <1>2 DEF AckWrite, Idle, RecordsTyped
<1>3. CASE AckSave
    BY <1>3 DEF AckSave, RecordsTyped
<1>4. ASSUME NEW r \in Runs, MatCheck(r) PROVE RecordsTyped'
    BY <1>4 DEF MatCheck, MayMaterialize, Idle, RecordsTyped
<1>5. CASE FetchRefused \/ BootSucceeds \/ CannotTest
    BY <1>5 DEF FetchRefused, BootSucceeds, CannotTest, RecordsTyped
<1>6. CASE MatSeal
    BY <1>6 DEF MatSeal, RecordsTyped
<1>7. CASE MatSave
    BY <1>7 DEF MatSave, RecordsTyped
<1>8. ASSUME NEW r \in Runs, IterateBegin(r) PROVE RecordsTyped'
    BY <1>8 DEF IterateBegin, Idle, RecordsTyped
<1>9. CASE BootFails
    BY <1>9 DEF BootFails, RecordsTyped
<1>10. ASSUME NEW r \in Runs, NEW d \in Decisions, Decide(r, d) PROVE RecordsTyped'
  <2> DEFINE rec == [run |-> r, decision |-> d, binding |-> slip[r], iid |-> None, at |-> now]
  <2>1. slip[r] \in Slips
    BY <1>10 DEF Decide, FilesTyped
  <2>2. rec \in Records
    BY <2>1, RecordMade
  <2>3. /\ approval' = [approval EXCEPT ![r] = rec] /\ word' = [word EXCEPT ![r] = rec]
        /\ UNCHANGED <<audit, delivery, muddled>>
    BY <1>10 DEF Decide, Binding
  <2> HIDE DEF rec
  <2> QED BY <2>2, <2>3 DEF RecordsTyped
<1>11. ASSUME NEW t \in Tags, PromoteLoad(t) PROVE RecordsTyped'
    BY <1>11 DEF PromoteLoad, Candidates, Idle, RecordsTyped
<1>12. CASE Reconcile
    BY <1>12 DEF Reconcile, Reconciled, RecordsTyped
<1>13. CASE Reseal
    BY <1>13 DEF Reseal, RecordsTyped
<1>14. CASE GatePassed
    BY <1>14 DEF GatePassed, RecordsTyped
<1>15. CASE GateRefused
    BY <1>15 DEF GateRefused, RecordsTyped
<1>16. CASE Relabel
    BY <1>16 DEF Relabel, RecordsTyped
<1>17. CASE Stage \/ StageFails
    BY <1>17 DEF Stage, StageFails, RecordsTyped
<1>18. ASSUME NEW k \in Deliveries, NEW i \in Clicks, NEW r \in Runs, NEW d \in Decisions,
            Deliver(k, i, r, d)
     PROVE  RecordsTyped'
  <2>1. PICK t \in AtWork : delivery' = [delivery EXCEPT ![k] = t]
    BY <1>18, Delivered
  <2>2. muddled' \in {muddled, muddled \cup {i}} /\ UNCHANGED <<approval, word, audit>>
    BY <1>18 DEF Deliver
  <2> QED BY <2>1, <2>2 DEF RecordsTyped
<1>19. CASE \E i \in Clicks : Replay(i)
    BY <1>19 DEF Replay, vars, RecordsTyped
<1>20. ASSUME NEW k \in Deliveries, WriteCurrent(k) PROVE RecordsTyped'
  <2>1. delivery[k].pc = "write" /\ delivery' = [delivery EXCEPT ![k].pc = "append"]
    BY <1>20 DEF WriteCurrent
  <2>2. delivery' \in [Deliveries -> AtWork \cup {NoTask}]
    BY <2>1, Moved
  <2>3. delivery[k].record \in Records /\ delivery[k].record.run \in Runs
    BY <2>1, Working, AtWorkFields
  <2> DEFINE rec == delivery[k].record
  <2>4. /\ approval' = [approval EXCEPT ![rec.run] = rec]
        /\ word' \in {word, [word EXCEPT ![rec.run] = rec]} /\ UNCHANGED <<audit, muddled>>
    BY <1>20 DEF WriteCurrent
  <2> HIDE DEF rec
  <2>5. rec \in Records /\ rec.run \in Runs
    BY <2>3 DEF rec
  <2> QED BY <2>2, <2>4, <2>5 DEF RecordsTyped
<1>21. ASSUME NEW k \in Deliveries, AppendAudit(k) PROVE RecordsTyped'
  <2>1. /\ delivery' = [delivery EXCEPT ![k] = NoTask] /\ UNCHANGED <<approval, word, muddled>>
        /\ audit' = [i \in Clicks |-> IF i = delivery[k].iid THEN audit[i] + 1 ELSE audit[i]]
    BY <1>21 DEF AppendAudit
  <2>2. audit' \in [Clicks -> Nat]
    BY <2>1 DEF RecordsTyped
  <2> QED BY <2>1, <2>2 DEF RecordsTyped
<1>22. ASSUME NEW k \in Deliveries, Killed(k) PROVE RecordsTyped'
  <2>1. delivery[k].iid \in Clicks
    BY <1>22, Working, AtWorkFields DEF Killed
  <2>2. /\ delivery' = [delivery EXCEPT ![k] = NoTask] /\ UNCHANGED <<approval, word, audit>>
        /\ muddled' = muddled \cup {delivery[k].iid}
    BY <1>22 DEF Killed
  <2> QED BY <2>1, <2>2 DEF RecordsTyped
<1>23. ASSUME NEW m \in Runtimes, EditInputs(m) \/ EditCompose(m) PROVE RecordsTyped'
    BY <1>23 DEF EditInputs, EditCompose, Idle, RecordsTyped
<1>24. CASE Commit
    BY <1>24 DEF Commit, Idle, RecordsTyped
<1>25. ASSUME NEW r \in Runs, Discard(r) PROVE RecordsTyped'
    BY <1>25 DEF Discard, Idle, RecordsTyped
<1>26. CASE Tick
    BY <1>26 DEF Tick, RecordsTyped
<1>27. CASE Crash
    BY <1>27 DEF Crash, Idle, RecordsTyped
<1>28. CASE UNCHANGED vars
    BY <1>28 DEF vars, RecordsTyped
<1>29. CASE CopySlip
    BY <1>29 DEF CopySlip, RecordsTyped
<1> QED
    BY <1>1, <1>2, <1>3, <1>4, <1>5, <1>6, <1>7, <1>8, <1>9, <1>10, <1>11, <1>12, <1>13,
       <1>14, <1>15, <1>16, <1>17, <1>18, <1>19, <1>20, <1>21, <1>22, <1>23, <1>24, <1>25,
       <1>26, <1>27, <1>28, <1>29
       DEF Next, Commands, Promote, Approvals, Environment

\* Every step keeps an interaction that no replay can miss recorded once.
LEMMA OnceStep ==
    ASSUME TreesTyped, FilesTyped, RecordsTyped, Once, [Next]_vars
    PROVE  Once'
<1> USE DEF treeVars, diskVars, histVars, Goto, Return, SetState, End
<1>1. ASSUME NEW r \in Runs, NEW mode \in Modes,
            NEW status \in {"resolved", "awaiting_acknowledgment", "failed"}, Update(r, mode, status)
     PROVE  Once'
    BY <1>1, SameWriting DEF Update, Idle, Once
<1>2. ASSUME NEW r \in Runs, AckWrite(r) PROVE Once'
    BY <1>2, SameWriting DEF AckWrite, Idle, Once
<1>3. CASE AckSave
    BY <1>3, SameWriting DEF AckSave, Once
<1>4. ASSUME NEW r \in Runs, MatCheck(r) PROVE Once'
    BY <1>4, SameWriting DEF MatCheck, MayMaterialize, Idle, Once
<1>5. CASE FetchRefused \/ BootSucceeds \/ CannotTest
    BY <1>5, SameWriting DEF FetchRefused, BootSucceeds, CannotTest, Once
<1>6. CASE MatSeal
    BY <1>6, SameWriting DEF MatSeal, Once
<1>7. CASE MatSave
    BY <1>7, SameWriting DEF MatSave, Once
<1>8. ASSUME NEW r \in Runs, IterateBegin(r) PROVE Once'
    BY <1>8, SameWriting DEF IterateBegin, Idle, Once
<1>9. CASE BootFails
    BY <1>9, SameWriting DEF BootFails, Once
<1>10. ASSUME NEW r \in Runs, NEW d \in Decisions, Decide(r, d) PROVE Once'
    BY <1>10, SameWriting DEF Decide, Binding, Idle, Once
<1>11. ASSUME NEW t \in Tags, PromoteLoad(t) PROVE Once'
    BY <1>11, SameWriting DEF PromoteLoad, Candidates, Idle, Once
<1>12. CASE Reconcile
    BY <1>12, SameWriting DEF Reconcile, Reconciled, Once
<1>13. CASE Reseal
    BY <1>13, SameWriting DEF Reseal, Once
<1>14. CASE GatePassed
    BY <1>14, SameWriting DEF GatePassed, Once
<1>15. CASE GateRefused
    BY <1>15, SameWriting DEF GateRefused, Once
<1>16. CASE Relabel
    BY <1>16, SameWriting DEF Relabel, Once
<1>17. CASE Stage \/ StageFails
    BY <1>17, SameWriting DEF Stage, StageFails, Once
<1>18. ASSUME NEW k \in Deliveries, NEW i \in Clicks, NEW r \in Runs, NEW d \in Decisions,
            Deliver(k, i, r, d)
     PROVE  Once'
  <2>1. PICK t \in AtWork : t.iid = i /\ delivery' = [delivery EXCEPT ![k] = t]
    BY <1>18, Delivered
  <2>2. /\ delivery[k] = NoTask /\ ~Recorded(i) /\ UNCHANGED audit
        /\ muddled' = IF Writing(i) # {} THEN muddled \cup {i} ELSE muddled
    BY <1>18 DEF Deliver
  <2>3. /\ Writing(i)' = Writing(i) \cup {k}
        /\ \A j \in Clicks : j # i => Writing(j)' = Writing(j)
    BY <2>1, <2>2, Begun
  <2>4. audit[i] = 0
    BY <2>2, UpgradeAssumption DEF Recorded, RecordsTyped
  <2>5. i \notin muddled' => Writing(i)' = {k}
    BY <2>2, <2>3
  <2> QED BY <2>2, <2>3, <2>4, <2>5 DEF Once
<1>19. CASE \E i \in Clicks : Replay(i)
    BY <1>19, SameWriting DEF Replay, vars, Once
<1>20. ASSUME NEW k \in Deliveries, WriteCurrent(k) PROVE Once'
  <2>1. /\ delivery[k].pc = "write" /\ delivery' = [delivery EXCEPT ![k].pc = "append"]
        /\ UNCHANGED <<audit, muddled>>
    BY <1>20 DEF WriteCurrent
  <2>2. \A j \in Clicks : Writing(j)' = Writing(j)
    BY <2>1, Moved
  <2> QED BY <2>1, <2>2 DEF Once
<1>21. ASSUME NEW k \in Deliveries, AppendAudit(k) PROVE Once'
  <2>1. /\ delivery[k].pc = "append" /\ UNCHANGED muddled
        /\ audit' = [i \in Clicks |-> IF i = delivery[k].iid THEN audit[i] + 1 ELSE audit[i]]
    BY <1>21 DEF AppendAudit
  <2>2. \A j \in Clicks : Writing(j)' = Writing(j) \ {k}
    BY <1>21, <2>1, Ended DEF AppendAudit
  <2> SUFFICES ASSUME NEW i \in Clicks \ muddled'
               PROVE  \/ audit'[i] = 0 /\ \A a, b \in Writing(i)' : a = b
                      \/ audit'[i] = 1 /\ Writing(i)' = {}
    BY DEF Once
  <2>3. i \in Clicks \ muddled
    BY <2>1
  <2>4. CASE i = delivery[k].iid
    <3>1. k \in Writing(i)
      BY <2>1, <2>4 DEF Writing
    <3>2. audit[i] = 0 /\ \A a, b \in Writing(i) : a = b
      BY <2>3, <3>1 DEF Once
    <3>3. audit'[i] = 1
      BY <2>1, <2>3, <2>4, <3>2
    <3> QED BY <2>2, <2>3, <3>1, <3>2, <3>3
  <2>5. CASE i # delivery[k].iid
    <3>1. audit'[i] = audit[i] /\ Writing(i)' \subseteq Writing(i)
      BY <2>1, <2>2, <2>3, <2>5
    <3> QED BY <2>3, <3>1 DEF Once
  <2> QED BY <2>4, <2>5
<1>22. ASSUME NEW k \in Deliveries, Killed(k) PROVE Once'
  <2>1. /\ delivery[k].pc = "append" /\ UNCHANGED audit
        /\ muddled' = muddled \cup {delivery[k].iid}
    BY <1>22 DEF Killed
  <2>2. \A j \in Clicks : Writing(j)' = Writing(j) \ {k}
    BY <1>22, <2>1, Ended DEF Killed
  <2> QED BY <2>1, <2>2 DEF Once
<1>23. ASSUME NEW m \in Runtimes, EditInputs(m) \/ EditCompose(m) PROVE Once'
    BY <1>23, SameWriting DEF EditInputs, EditCompose, Idle, Once
<1>24. CASE Commit
    BY <1>24, SameWriting DEF Commit, Idle, Once
<1>25. ASSUME NEW r \in Runs, Discard(r) PROVE Once'
    BY <1>25, SameWriting DEF Discard, Idle, Once
<1>26. CASE Tick
    BY <1>26, SameWriting DEF Tick, Once
<1>27. CASE Crash
    BY <1>27, SameWriting DEF Crash, Idle, Once
<1>28. CASE UNCHANGED vars
    BY <1>28, SameWriting DEF vars, Once
<1>29. CASE CopySlip
    BY <1>29, SameWriting DEF CopySlip, Once
<1> QED
    BY <1>1, <1>2, <1>3, <1>4, <1>5, <1>6, <1>7, <1>8, <1>9, <1>10, <1>11, <1>12, <1>13,
       <1>14, <1>15, <1>16, <1>17, <1>18, <1>19, <1>20, <1>21, <1>22, <1>23, <1>24, <1>25,
       <1>26, <1>27, <1>28, <1>29
       DEF Next, Commands, Promote, Approvals, Environment

\* Every step keeps the current record a person's last word.
LEMMA WordStep ==
    ASSUME RecordsTyped, Once, LastWord, [Next]_vars
    PROVE  LastWord'
<1> USE DEF treeVars, diskVars, histVars, Goto, Return, SetState, End
<1>1. ASSUME NEW r \in Runs, NEW mode \in Modes,
            NEW status \in {"resolved", "awaiting_acknowledgment", "failed"}, Update(r, mode, status)
     PROVE  LastWord'
    BY <1>1 DEF Update, Idle, LastWord
<1>2. ASSUME NEW r \in Runs, AckWrite(r) PROVE LastWord'
    BY <1>2 DEF AckWrite, Idle, LastWord
<1>3. CASE AckSave
    BY <1>3 DEF AckSave, LastWord
<1>4. ASSUME NEW r \in Runs, MatCheck(r) PROVE LastWord'
    BY <1>4 DEF MatCheck, MayMaterialize, Idle, LastWord
<1>5. CASE FetchRefused \/ BootSucceeds \/ CannotTest
    BY <1>5 DEF FetchRefused, BootSucceeds, CannotTest, LastWord
<1>6. CASE MatSeal
    BY <1>6 DEF MatSeal, LastWord
<1>7. CASE MatSave
    BY <1>7 DEF MatSave, LastWord
<1>8. ASSUME NEW r \in Runs, IterateBegin(r) PROVE LastWord'
    BY <1>8 DEF IterateBegin, Idle, LastWord
<1>9. CASE BootFails
    BY <1>9 DEF BootFails, LastWord
<1>10. ASSUME NEW r \in Runs, NEW d \in Decisions, Decide(r, d) PROVE LastWord'
    BY <1>10 DEF Decide, Binding, Idle, LastWord
<1>11. ASSUME NEW t \in Tags, PromoteLoad(t) PROVE LastWord'
    BY <1>11 DEF PromoteLoad, Candidates, Idle, LastWord
<1>12. CASE Reconcile
    BY <1>12 DEF Reconcile, Reconciled, LastWord
<1>13. CASE Reseal
    BY <1>13 DEF Reseal, LastWord
<1>14. CASE GatePassed
    BY <1>14 DEF GatePassed, LastWord
<1>15. CASE GateRefused
    BY <1>15 DEF GateRefused, LastWord
<1>16. CASE Relabel
    BY <1>16 DEF Relabel, LastWord
<1>17. CASE Stage \/ StageFails
    BY <1>17 DEF Stage, StageFails, LastWord
<1>18. ASSUME NEW k \in Deliveries, NEW i \in Clicks, NEW r \in Runs, NEW d \in Decisions,
            Deliver(k, i, r, d)
     PROVE  LastWord'
  <2>1. UNCHANGED <<approval, word>> /\ (muddled' = {} => muddled = {})
    BY <1>18 DEF Deliver
  <2> QED BY <2>1 DEF LastWord
<1>19. CASE \E i \in Clicks : Replay(i)
    BY <1>19 DEF Replay, vars, LastWord
<1>20. ASSUME NEW k \in Deliveries, WriteCurrent(k) PROVE LastWord'
  <2> DEFINE rec == delivery[k].record
  <2>1. /\ delivery[k].pc = "write" /\ UNCHANGED muddled
        /\ approval' = [approval EXCEPT ![rec.run] = rec]
        /\ word' = IF Recorded(rec.iid) THEN word ELSE [word EXCEPT ![rec.run] = rec]
    BY <1>20 DEF WriteCurrent
  <2>2. delivery[k].iid \in Clicks /\ rec.iid = delivery[k].iid
    BY <2>1, Working, AtWorkFields
  <2>3. k \in Writing(delivery[k].iid)
    BY <2>1 DEF Writing
  <2>4. muddled = {} => ~Recorded(rec.iid)
    BY <2>2, <2>3 DEF Once, Recorded
  <2> HIDE DEF rec
  <2> QED BY <2>1, <2>4 DEF LastWord
<1>21. ASSUME NEW k \in Deliveries, AppendAudit(k) PROVE LastWord'
    BY <1>21 DEF AppendAudit, LastWord
<1>22. ASSUME NEW k \in Deliveries, Killed(k) PROVE LastWord'
    BY <1>22 DEF Killed, LastWord
<1>23. ASSUME NEW m \in Runtimes, EditInputs(m) \/ EditCompose(m) PROVE LastWord'
    BY <1>23 DEF EditInputs, EditCompose, Idle, LastWord
<1>24. CASE Commit
    BY <1>24 DEF Commit, Idle, LastWord
<1>25. ASSUME NEW r \in Runs, Discard(r) PROVE LastWord'
    BY <1>25 DEF Discard, Idle, LastWord
<1>26. CASE Tick
    BY <1>26 DEF Tick, LastWord
<1>27. CASE Crash
    BY <1>27 DEF Crash, Idle, LastWord
<1>28. CASE UNCHANGED vars
    BY <1>28 DEF vars, LastWord
<1>29. CASE CopySlip
    BY <1>29 DEF CopySlip, LastWord
<1> QED
    BY <1>1, <1>2, <1>3, <1>4, <1>5, <1>6, <1>7, <1>8, <1>9, <1>10, <1>11, <1>12, <1>13,
       <1>14, <1>15, <1>16, <1>17, <1>18, <1>19, <1>20, <1>21, <1>22, <1>23, <1>24, <1>25,
       <1>26, <1>27, <1>28, <1>29
       DEF Next, Commands, Promote, Approvals, Environment

\* Nothing but the gate grants, and what it granted stays until the copy.
LEMMA GrantedStays ==
    ASSUME [Next]_vars, pc' = "copy"
    PROVE  \/ GatePassed
           \/ pc = "copy" /\ op' = op /\ (muddled' = {} => muddled = {})
  <1> USE DEF treeVars, diskVars, histVars, Goto, Return, Idle
  <1>1. CASE Commands
    BY <1>1 DEF Commands, Update, AckWrite, AckSave, MatCheck, FetchRefused, MatSeal, MatSave,
       IterateBegin, BootSucceeds, BootFails, CannotTest, Decide
  <1>2. CASE Promote
    BY <1>2 DEF Promote, PromoteLoad, Reconcile, Reseal, GateRefused, CopySlip, Relabel, Stage,
       StageFails
  <1>3. CASE Approvals
    BY <1>3 DEF Approvals, Deliver, Replay, WriteCurrent, AppendAudit, Killed, vars
  <1>4. CASE Environment
    <2>1. ASSUME NEW m \in Runtimes, EditInputs(m) \/ EditCompose(m)
          PROVE  pc = "copy" /\ op' = op /\ UNCHANGED muddled
      BY <2>1, Zenon DEF EditInputs, EditCompose
    <2> QED BY <1>4, <2>1 DEF Environment, Commit, Discard, Tick, Crash
  <1> QED BY <1>1, <1>2, <1>3, <1>4 DEF Next, vars

\* The gate grants for a person's last word, as long as that is the current record.
LEMMA GrantedStep ==
    ASSUME OpTyped, LastWord, Granted, [Next]_vars
    PROVE  Granted'
  <1> SUFFICES ASSUME pc' = "copy", muddled' = {}
               PROVE  /\ op'.granted.word # None /\ op'.granted.word.decision = "approved"
                      /\ op'.granted.word.binding = op'.slip
                      /\ op'.granted.at < op'.granted.word.at + Expiry
    BY DEF Granted
  <1>1. CASE GatePassed
    <2>1. /\ op'.slip = op.slip
          /\ op'.granted = [word |-> word[op.run], at |-> now]
          /\ muddled = {}
      BY <1>1, GateKeeps DEF histVars
    <2>2. Authorizes(approval[op.run], op.slip) /\ approval[op.run] = word[op.run]
      BY <1>1, <2>1 DEF GatePassed, MayPromote, LastWord
    <2> QED BY <2>1, <2>2 DEF Authorizes
  <1>2. CASE pc = "copy" /\ op' = op /\ (muddled' = {} => muddled = {})
    BY <1>2 DEF Granted
  <1> QED BY <1>1, <1>2, GrantedStays

-----------------------------------------------------------------------------
(* What Upgrade keeps. *)

Inv == /\ TreesTyped /\ OpTyped /\ FilesTyped /\ RecordsTyped
       /\ Standing /\ SamePromoted /\ Released /\ Asked /\ Once /\ LastWord /\ Granted

LEMMA InitInv == Init => Inv
  <1> SUFFICES ASSUME Init PROVE Inv
    OBVIOUS
  <1>1. TreesTyped
    BY UpgradeAssumption DEF Init, TreesTyped, InputsType, ComposeType
  <1>2. OpTyped /\ FilesTyped
    BY DEF Init, OpTyped, Holding, Promoting, FilesTyped
  <1>3. RecordsTyped
    BY DEF Init, RecordsTyped
  <1>4. Standing /\ SamePromoted /\ Released
    BY DEF Init, Standing, SamePromoted, Released, Idle
  <1>5. Asked
    BY DEF Init, Asked, LossesAcknowledged
  <1>6. Once /\ LastWord /\ Granted
    BY DEF Init, Once, LastWord, Granted, Writing, NoTask
  <1> QED BY <1>1, <1>2, <1>3, <1>4, <1>5, <1>6 DEF Inv

LEMMA NextInv == Inv /\ [Next]_vars => Inv'
  <1> SUFFICES ASSUME Inv, [Next]_vars PROVE Inv'
    OBVIOUS
  <1> USE DEF Inv
  <1>1. TreesTyped' /\ OpTyped'
    BY TreesStep, OpStep
  <1>2. FilesTyped' /\ Standing'
    BY FilesStep, StandingStep
  <1>3. SamePromoted' /\ Released'
    BY PromotedStep
  <1>4. Asked' /\ RecordsTyped'
    BY AskedStep, RecordsStep
  <1>5. Once' /\ LastWord' /\ Granted'
    BY OnceStep, WordStep, GrantedStep
  <1> QED BY <1>1, <1>2, <1>3, <1>4, <1>5

LEMMA InvHolds == Spec => []Inv
  BY InitInv, NextInv, PTL DEF Spec

\* Every file holds what its reader accepts, for any runs, deliveries and edits.
THEOREM TypeCorrect == Spec => []TypeOK
  <1>1. Inv => TypeOK
    <2> SUFFICES ASSUME Inv PROVE TypeOK
      OBVIOUS
    <2>1. ~Idle => op.run \in Runs /\ op.state \in RunStates
      BY HeldTyped, PromoteTyped DEF Inv, OpTyped, Idle
    <2>2. ASSUME NEW k \in Deliveries PROVE TaskOK(delivery[k])
      <3>1. delivery[k] = NoTask \/ delivery[k] \in AtWork
        BY DEF Inv, RecordsTyped
      <3>2. ASSUME delivery[k] = NoTask PROVE TaskOK(delivery[k])
        BY <3>2 DEF TaskOK, NoTask
      <3>3. ASSUME delivery[k] \in AtWork PROVE TaskOK(delivery[k])
        BY <3>3, AtWorkFields DEF TaskOK
      <3> QED BY <3>1, <3>2, <3>3
    <2> QED BY <2>1, <2>2 DEF Inv, TypeOK, TreesTyped, FilesTyped, RecordsTyped
  <1> QED BY InvHolds, <1>1, PTL

\* No sealed candidate has lost mods that nobody acknowledged, whatever dies between the
\* acknowledgment, the state and the slip (acknowledge.py, materialize.py).
THEOREM LossesAreAcknowledged == Spec => []LossesAcknowledged
  <1>1. Inv => LossesAcknowledged
    BY DEF Inv, Asked
  <1> QED BY InvHolds, <1>1, PTL

LEMMA AtMostOne ==
    ASSUME NEW S, \A a, b \in S : a = b
    PROVE  Cardinality(S) \in {0, 1}
  <1>1. CASE S = {}
    BY <1>1, FS_EmptySet
  <1>2. CASE S # {}
    <2>1. PICK x : S = {x}
      BY <1>2
    <2> QED BY <2>1, FS_Singleton
  <1> QED BY <1>1, <1>2

\* An interaction is recorded once, however many processes deliver it and whatever is
\* decided meanwhile, unless its record is missing from the audit log (approval.py).
THEOREM RecordedOnce == Spec => []ReplayHarmless
  <1>1. Inv => ReplayHarmless
    <2> SUFFICES ASSUME Inv, NEW i \in Clicks \ muddled
                 PROVE  audit[i] + Cardinality(Writing(i)) <= 1
      BY DEF ReplayHarmless
    <2>1. CASE audit[i] = 0 /\ \A a, b \in Writing(i) : a = b
      BY <2>1, AtMostOne
    <2>2. CASE audit[i] = 1 /\ Writing(i) = {}
      BY <2>2, FS_EmptySet
    <2> QED BY <2>1, <2>2 DEF Inv, Once
  <1> QED BY InvHolds, <1>1, PTL

\* Only promotion writes releases, only materialize, promotion and the operator's own hand
\* change a slip.
LEMMA ReleaseWriters ==
    [Next]_vars => CopySlip \/ Relabel \/ UNCHANGED release
  <1> USE DEF treeVars, diskVars, histVars
  <1>1. CASE Commands
    BY <1>1 DEF Commands, Update, AckWrite, MatCheck, IterateBegin, Decide, AckSave,
                FetchRefused, MatSeal, MatSave, BootSucceeds, BootFails, CannotTest
  <1>2. CASE Promote
    BY <1>2 DEF Promote, PromoteLoad, Reconcile, Reconciled, Reseal, GatePassed, GateRefused,
                Stage, StageFails
  <1>3. CASE Approvals
    BY <1>3 DEF Approvals, Deliver, Replay, WriteCurrent, AppendAudit, Killed, vars
  <1>4. CASE Environment
    <2>1. ASSUME NEW m \in Runtimes, EditInputs(m) PROVE UNCHANGED release
      BY <2>1, Zenon DEF EditInputs
    <2> QED BY <1>4, <2>1 DEF Environment, EditCompose, Commit, Discard, Tick, Crash
  <1> QED BY <1>1, <1>2, <1>3, <1>4 DEF Next, vars

LEMMA SlipWriters ==
    [Next]_vars =>
       MatSeal \/ Reseal \/ (\E r \in Runs : Discard(r)) \/ UNCHANGED slip
  <1> USE DEF treeVars, diskVars, histVars
  <1>1. CASE Commands
    BY <1>1 DEF Commands, Update, AckWrite, MatCheck, IterateBegin, Decide, AckSave,
                FetchRefused, MatSave, BootSucceeds, BootFails, CannotTest
  <1>2. CASE Promote
    BY <1>2 DEF Promote, PromoteLoad, Reconcile, Reconciled, GatePassed, GateRefused, CopySlip,
                Relabel, Stage, StageFails
  <1>3. CASE Approvals
    BY <1>3 DEF Approvals, Deliver, Replay, WriteCurrent, AppendAudit, Killed, vars
  <1>4. CASE Environment
    <2>1. ASSUME NEW m \in Runtimes, EditInputs(m) PROVE UNCHANGED slip
      BY <2>1, Zenon DEF EditInputs
    <2> QED BY <1>4, <2>1 DEF Environment, EditCompose, Commit, Tick, Crash
  <1> QED BY <1>1, <1>2, <1>3, <1>4 DEF Next, vars

\* A release that is written was let through by a person's last word on its run, an approval
\* in time and of these very contents, whatever was sealed again, edited, delivered twice or
\* rejected before the gate was asked (promote.py, approval.py).
THEOREM OnlyApproved == Spec => ReleasesWereApproved
  <1>1. Inv /\ [Next]_vars => [ApprovedWhenWritten]_vars
    <2> SUFFICES ASSUME Inv, [Next]_vars, NEW t \in Tags, release'[t] # None,
                        release'[t] # release[t], pc # "relabel", muddled = {}
                 PROVE  LET s == release'[t]  w == op.granted.word IN
                        /\ w # None /\ w.decision = "approved"
                        /\ op.granted.at < w.at + Expiry
                        /\ SameCandidate(s, w.binding)
      BY DEF ApprovedWhenWritten
    <2>1. CopySlip
      BY ReleaseWriters DEF Relabel
    <2>2. /\ op.run \in Runs /\ op.tag \in Tags /\ op.slip \in Slips
      BY <2>1, PromoteTyped DEF CopySlip, Inv, OpTyped, Promoting
    <2>3. /\ slip[op.run] \in Slips /\ op.slip.run = op.run
          /\ slip[op.run].inputs = op.slip.inputs /\ slip[op.run].stamp = op.slip.stamp
          /\ op.state.mode = "update" => slip[op.run] = op.slip
      BY <2>1 DEF CopySlip, Inv, SamePromoted
    <2>4. slip[op.run].run = op.run /\ state[op.run] = op.state
      BY <2>1, <2>2, <2>3, FilesAssumption DEF CopySlip, Inv, Standing, Idle
    <2>5. release'[t] = slip[op.run]
      BY <2>1, <2>2 DEF CopySlip, Inv, FilesTyped
    <2>6. /\ op.granted.word # None /\ op.granted.word.decision = "approved"
          /\ op.granted.word.binding = op.slip
          /\ op.granted.at < op.granted.word.at + Expiry
      BY <2>1 DEF CopySlip, Inv, Granted
    <2> QED BY <2>3, <2>4, <2>5, <2>6 DEF SameCandidate
  <1> QED BY InvHolds, <1>1, PTL DEF Spec, ReleasesWereApproved

\* The slip of a materialized run changes no more, but for the Compose hash of an upgrade:
\* no second materialization, and no promotion, writes another one over what was tested and
\* approved (materialize.py, promote.py).
THEOREM SealsStand == Spec => SealedIsImmutable
  <1>1. Inv /\ [Next]_vars => [SealStands]_vars
    <2> SUFFICES ASSUME Inv, [Next]_vars, NEW r \in Runs, slip[r] # None,
                        state[r].status \in {"materialized", "failed"}
                 PROVE  \/ slip'[r] \in {None, slip[r]}
                        \/ /\ state[r].mode = "upgrade"
                           /\ slip'[r] = [slip[r] EXCEPT !.compose = slip'[r].compose]
      BY DEF SealStands
    <2>1. CASE MatSeal
      <3>1. /\ op.state.status \in {"resolved", "acknowledged"} /\ state[op.run] = op.state
        BY <2>1 DEF MatSeal, Inv, Standing, Idle
      <3>2. op.run # r
        BY <3>1
      <3> QED BY <2>1, <3>2 DEF MatSeal, Inv, FilesTyped
    <2>2. CASE Reseal
      <3>1. /\ op.run \in Runs /\ slip[op.run] \in Slips /\ op.state.mode = "upgrade"
            /\ state[op.run] = op.state
        BY <2>2, PromoteTyped
           DEF Reseal, Inv, OpTyped, Promoting, SamePromoted, Standing, Idle
      <3>2. slip' = [slip EXCEPT ![op.run].compose = compose]
        BY <2>2 DEF Reseal
      <3>3. /\ slip'[op.run] = [slip[op.run] EXCEPT !.compose = slip'[op.run].compose]
            /\ \A q \in Runs : q # op.run => slip'[q] = slip[q]
        BY <3>1, <3>2, Resealed DEF Inv
      <3>4. CASE r = op.run
        BY <3>1, <3>3, <3>4
      <3> QED BY <3>3, <3>4
    <2>3. CASE \E q \in Runs : Discard(q)
      BY <2>3 DEF Discard, Inv, FilesTyped
    <2>4. CASE UNCHANGED slip
      BY <2>4
    <2> QED BY <2>1, <2>2, <2>3, <2>4, SlipWriters
  <1> QED BY InvHolds, <1>1, PTL DEF Spec, SealedIsImmutable
=============================================================================
