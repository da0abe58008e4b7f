--------------------------------- MODULE Bot ---------------------------------
(***************************************************************************)
(* The Discord bot daemon (discord_bot/) between Discord, which delivers   *)
(* signed interactions and shows what the bot posts, and the CLI, which    *)
(* the bot runs as a process for each command; and the notifications that  *)
(* deploy_pack sends through it (deploy_pack/notifications.py).            *)
(*                                                                         *)
(* An interaction is acknowledged at once and dispatched in a task of its  *)
(* own.  Every post to Discord may fail, also after Discord has taken it.  *)
(* A command may hang, and the bot may be stopped or killed at any time.   *)
(***************************************************************************)
EXTENDS Naturals

CONSTANTS
    Interactions,   \* deliveries of interactions
    Notices,        \* notifications of deploy_pack
    MaxFaults,      \* bound on the posts to Discord that fail
    Unset

\* What is delivered: a request that Discord has not signed, its handshake, a payload that
\* cannot be used, a user who is not on a list, no such command, an argument that is
\* missing, a command that only reads, one that changes something.
Requests == {"forged", "ping", "invalid", "stranger", "unknown", "usage", "status", "approve"}

\* Where deploy_pack.toml sends notifications: to the bot, with its token or another one, or
\* to the webhook.
Routes == {"bot", "wrong_token", "webhook"}

Responses == {"401", "400", "pong", "deferred"}
Verdicts == {"sent", "failed", "skipped"}
Texts == {"not_authorized", "hint", "output", "exit_code", "failed", "internal_error"}

ASSUME BotAssumption == MaxFaults \in Nat /\ Unset \notin Responses \cup Verdicts

VARIABLES
    request, route,     \* what is asked, and the configuration: they stay
    bot,                \* up, stopping, or down
    faults,             \* posts that have failed
    response,           \* the answer to the HTTP request of an interaction
    task,               \* its dispatch
    message,            \* what the task posts, and whether the handler's try is around it
    process,            \* its CLI process
    done,               \* the interactions whose command has taken effect
    shown,              \* what Discord shows: pairs of an interaction and a text
    tried,              \* for each interaction the posts that were not shown
    unclear,            \* the interactions with a post that was shown and then failed
    relay,              \* a notification on its way
    result,             \* NotifyResult: Unset, sent, failed or skipped
    copies              \* how often Discord shows a notification

discord == <<faults, shown, tried, unclear>>
notifications == <<relay, result, copies>>
dispatching == <<task, message, process, done>>
botVars == <<request, route, bot, discord, response, dispatching, notifications>>

BotInit ==
    /\ request \in [Interactions -> Requests] /\ route \in Routes
    /\ bot = "up" /\ faults = 0
    /\ response = [i \in Interactions |-> Unset]
    /\ task = [i \in Interactions |-> "none"]
    /\ message = [i \in Interactions |-> Unset]
    /\ process = [i \in Interactions |-> "none"]
    /\ done = {} /\ shown = {} /\ unclear = {}
    /\ tried = [i \in Interactions |-> 0]
    /\ relay = [n \in Notices |-> "none"]
    /\ result = [n \in Notices |-> Unset]
    /\ copies = [n \in Notices |-> 0]

-----------------------------------------------------------------------------
(* POST /interactions. *)

Verified(i) == request[i] # "forged"

Interpret(i) ==
    IF ~Verified(i) THEN "401"
    ELSE IF request[i] = "ping" THEN "pong"
    ELSE IF request[i] = "invalid" THEN "400"
    ELSE "deferred"

HandleInteraction(i) ==
    /\ bot = "up" /\ response[i] = Unset
    /\ response' = [response EXCEPT ![i] = Interpret(i)]
    /\ task' = IF Interpret(i) = "deferred" THEN [task EXCEPT ![i] = "ready"] ELSE task
    /\ UNCHANGED <<request, route, bot, discord, message, process, done, notifications>>

-----------------------------------------------------------------------------
(* dispatch: who asks, what for, the command, and what is posted. *)

Alive == bot # "down"

Say(i, text, guarded) ==
    /\ task' = [task EXCEPT ![i] = "posting"]
    /\ message' = [message EXCEPT ![i] = [text |-> text, guarded |-> guarded]]

Authorized(i) == request[i] # "stranger"

DispatchUnchanged == UNCHANGED <<request, route, bot, discord, response, notifications>>

\* A refusal is posted outside the try, a usage hint of a handler inside it.
Dispatch(i) ==
    /\ Alive /\ task[i] = "ready"
    /\ IF ~Authorized(i) THEN Say(i, "not_authorized", FALSE)
       ELSE IF request[i] = "unknown" THEN Say(i, "hint", FALSE)
       ELSE IF request[i] = "usage" THEN Say(i, "hint", TRUE)
       ELSE task' = [task EXCEPT ![i] = "invoking"] /\ UNCHANGED message
    /\ UNCHANGED <<process, done>>
    /\ DispatchUnchanged

StartCli(i) ==
    /\ Alive /\ task[i] = "invoking"
    /\ \/ /\ process' = [process EXCEPT ![i] = "working"]
          /\ task' = [task EXCEPT ![i] = "waiting"]
          /\ UNCHANGED message
       \/ Say(i, "failed", FALSE) /\ UNCHANGED process
    /\ UNCHANGED done
    /\ DispatchUnchanged

Output(i) == IF process[i] = "exit_0" THEN "output" ELSE "exit_code"

CliReturns(i) ==
    /\ Alive /\ task[i] = "waiting" /\ process[i] \in {"exit_0", "exit_1"}
    /\ Say(i, Output(i), TRUE)
    /\ UNCHANGED <<process, done>>
    /\ DispatchUnchanged

\* Mutation of CliTimesOut: the command is waited for without a limit.
CliNeverTimesOut(i) == FALSE /\ UNCHANGED botVars

\* Whatever it has done by then, a process that runs too long is killed; one that ends
\* this moment makes kill() raise.
CliTimesOut(i) ==
    /\ Alive /\ task[i] = "waiting"
    /\ IF process[i] \in {"working", "worked"}
       THEN process' = [process EXCEPT ![i] = "killed"] /\ Say(i, "failed", FALSE)
       ELSE UNCHANGED process /\ Say(i, "internal_error", FALSE)
    /\ UNCHANGED done
    /\ DispatchUnchanged

PostUnchanged == UNCHANGED <<request, route, bot, response, process, done, notifications>>

\* Mutation of PostIsTaken: a handler goes on after its usage hint.
PostFallsThrough(i) ==
    /\ Alive /\ task[i] = "posting"
    /\ shown' = shown \cup {<<i, message[i].text>>}
    /\ task' = [task EXCEPT ![i] = IF message[i] = [text |-> "hint", guarded |-> TRUE]
                                   THEN "invoking" ELSE "ended"]
    /\ UNCHANGED <<faults, message, tried, unclear>>
    /\ PostUnchanged

PostIsTaken(i) ==
    /\ Alive /\ task[i] = "posting"
    /\ shown' = shown \cup {<<i, message[i].text>>}
    /\ task' = [task EXCEPT ![i] = "ended"]
    /\ UNCHANGED <<faults, message, tried, unclear>>
    /\ PostUnchanged

\* Mutation of Recover: the handler keeps the failure of its post to itself.
RecoverNever(i) == task' = [task EXCEPT ![i] = "ended"] /\ UNCHANGED message

\* The failure of a post in the try is posted in turn, any other ends the task.
Recover(i) ==
    IF message[i].guarded THEN Say(i, "failed", FALSE)
    ELSE task' = [task EXCEPT ![i] = "ended"] /\ UNCHANGED message

\* Discord has refused the post, or has shown it and its answer is lost.
PostFails(i) ==
    /\ Alive /\ task[i] = "posting" /\ faults < MaxFaults
    /\ faults' = faults + 1
    /\ \/ tried' = [tried EXCEPT ![i] = @ + 1] /\ UNCHANGED <<shown, unclear>>
       \/ /\ shown' = shown \cup {<<i, message[i].text>>}
          /\ unclear' = unclear \cup {i}
          /\ UNCHANGED tried
    /\ Recover(i)
    /\ PostUnchanged

-----------------------------------------------------------------------------
(* The CLI, whoever still waits for it. *)

CliMoves(i, from, to) ==
    /\ process[i] = from /\ process' = [process EXCEPT ![i] = to]
    /\ UNCHANGED <<task, message>>
    /\ DispatchUnchanged

CliTakesEffect(i) ==
    /\ CliMoves(i, "working", "worked")
    /\ done' = IF request[i] = "status" THEN done ELSE done \cup {i}

\* It may refuse the command, and it may fail with half of it done.
CliExits(i) ==
    /\ \/ CliMoves(i, "worked", "exit_0")
       \/ CliMoves(i, "worked", "exit_1")
       \/ CliMoves(i, "working", "exit_1")
    /\ UNCHANGED done

-----------------------------------------------------------------------------
(* Notifications: _dispatch of deploy_pack, POST /notify, the webhook. *)

NotifyUnchanged ==
    UNCHANGED <<request, route, bot, shown, tried, unclear, response, dispatching>>

Tell(n, verdict) ==
    /\ result' = [result EXCEPT ![n] = verdict]
    /\ relay' = [relay EXCEPT ![n] = "over"]

NotifyBot(n) ==
    /\ relay[n] = "none" /\ route # "webhook"
    /\ IF bot = "up" /\ route = "bot"
       THEN relay' = [relay EXCEPT ![n] = "posting"] /\ UNCHANGED result
       ELSE Tell(n, "failed")
    /\ UNCHANGED <<faults, copies>>
    /\ NotifyUnchanged

\* What Discord does with a post, and what the one who posts learns of it.  The code takes
\* any status below 400 for a delivery (discord_client.py:116, notifications.py:676); that
\* Discord shows what it answers so, and redirects no post, is an assumption on it.
Delivery(n, outcome) ==
    \/ outcome = "ok" /\ copies' = [copies EXCEPT ![n] = @ + 1] /\ UNCHANGED faults
    \/ /\ outcome = "error"
       /\ faults < MaxFaults /\ faults' = faults + 1
       /\ \/ UNCHANGED copies
          \/ copies' = [copies EXCEPT ![n] = @ + 1]

Reply(outcome) == IF outcome = "ok" THEN "ok" ELSE "502"

\* deploy_pack may have given up waiting.
RelayToDiscord(n) ==
    /\ Alive /\ relay[n] = "posting"
    /\ \E outcome \in {"ok", "error"} :
         /\ Delivery(n, outcome)
         /\ relay' = [relay EXCEPT ![n] = IF result[n] = Unset THEN Reply(outcome) ELSE "over"]
    /\ UNCHANGED result
    /\ NotifyUnchanged

NotifierReturns(n) ==
    /\ result[n] = Unset
    /\ \/ relay[n] = "ok" /\ Tell(n, "sent")
       \/ relay[n] = "502" /\ Tell(n, "failed")
    /\ UNCHANGED <<faults, copies>>
    /\ NotifyUnchanged

\* Its timeout, ten seconds, is shorter than that of the bot's own post; or the bot is gone,
\* or its answer.
NotifierGivesUp(n) ==
    /\ result[n] = Unset /\ relay[n] \in {"posting", "ok", "502", "lost"}
    /\ result' = [result EXCEPT ![n] = "failed"]
    /\ relay' = [relay EXCEPT ![n] = IF @ = "posting" THEN @ ELSE "over"]
    /\ UNCHANGED <<faults, copies>>
    /\ NotifyUnchanged

\* Mutation of ToWebhook: a failure of the bot falls back to the webhook.
ToWebhookToo(n) == relay[n] = "502" \/ (relay[n] = "none" /\ route = "webhook")

ToWebhook(n) == relay[n] = "none" /\ route = "webhook"

NotifyWebhook(n) ==
    /\ ToWebhook(n)
    /\ \E outcome \in {"ok", "error"} :
         /\ Delivery(n, outcome)
         /\ Tell(n, IF outcome = "ok" THEN "sent" ELSE "failed")
    /\ NotifyUnchanged

\* There is no template for it, or no way to send it.
NotifySkipped(n) ==
    /\ relay[n] = "none"
    /\ Tell(n, "skipped")
    /\ UNCHANGED <<faults, copies>>
    /\ NotifyUnchanged

\* Discord would refuse so long a text.
NotifyTooLong(n) ==
    /\ relay[n] = "none"
    /\ Tell(n, "failed")
    /\ UNCHANGED <<faults, copies>>
    /\ NotifyUnchanged

-----------------------------------------------------------------------------
(* The life of the daemon. *)

Stop ==
    /\ bot = "up" /\ bot' = "stopping"
    /\ UNCHANGED <<request, route, discord, response, dispatching, notifications>>

\* The event loop ends with its tasks: after stop() has waited for the requests under way,
\* or because the process was killed.  What was being posted may still arrive, and a CLI
\* process may go on alone or go down with the bot.
Ends ==
    /\ Alive /\ bot' = "down"
    /\ task' = [i \in Interactions |-> IF task[i] \in {"none", "ended"} THEN task[i]
                                                                      ELSE "dropped"]
    /\ \E late \in SUBSET {i \in Interactions : task[i] = "posting"} :
         shown' = shown \cup {<<i, message[i].text>> : i \in late}
    /\ \E gone \in SUBSET {i \in Interactions : process[i] \in {"working", "worked"}} :
         process' = [i \in Interactions |-> IF i \in gone THEN "killed" ELSE process[i]]
    /\ \E late \in SUBSET {n \in Notices : relay[n] = "posting"} :
         copies' = [n \in Notices |-> IF n \in late THEN copies[n] + 1 ELSE copies[n]]
    /\ relay' = [n \in Notices |-> IF relay[n] # "posting" THEN relay[n]
                                   ELSE IF result[n] = Unset THEN "lost" ELSE "over"]
    /\ UNCHANGED <<request, route, faults, tried, unclear, response, message, done, result>>

\* The daemon is started again and knows nothing of what it was doing.
Start ==
    /\ bot = "down" /\ bot' = "up"
    /\ UNCHANGED <<request, route, discord, response, dispatching, notifications>>
-----------------------------------------------------------------------------
DispatchStep(i) ==
    Dispatch(i) \/ StartCli(i) \/ CliReturns(i) \/ CliTimesOut(i) \/ PostIsTaken(i)
        \/ PostFails(i)

NotifyStep(n) ==
    NotifyBot(n) \/ NotifierReturns(n) \/ NotifierGivesUp(n) \/ NotifyWebhook(n)
        \/ NotifySkipped(n)
        \/ NotifyTooLong(n)

BotNext ==
    \/ \E i \in Interactions :
         HandleInteraction(i) \/ DispatchStep(i) \/ CliTakesEffect(i) \/ CliExits(i)
    \/ \E n \in Notices : NotifyStep(n) \/ RelayToDiscord(n)
    \/ Stop \/ Ends \/ Start

\* The event loop runs every task, the waits for a command, for Discord and for the bot are
\* limited.  Nothing is assumed of the CLI, of Discord or of who stops the bot.
Fairness ==
    /\ \A i \in Interactions : WF_botVars(DispatchStep(i))
    /\ \A n \in Notices : WF_botVars(NotifyStep(n))

BotSpec == BotInit /\ [][BotNext]_botVars /\ Fairness

-----------------------------------------------------------------------------
(* Properties *)

\* The state is well formed.
BotTypeOK ==
    /\ request \in [Interactions -> Requests] /\ route \in Routes
    /\ bot \in {"up", "stopping", "down"} /\ faults \in 0..MaxFaults
    /\ response \in [Interactions -> Responses \cup {Unset}]
    /\ task \in [Interactions -> {"none", "ready", "invoking", "waiting", "posting", "ended",
                                  "dropped"}]
    /\ message \in [Interactions -> [text : Texts, guarded : BOOLEAN] \cup {Unset}]
    /\ process \in [Interactions -> {"none", "working", "worked", "exit_0", "exit_1",
                                     "killed"}]
    /\ done \subseteq Interactions /\ unclear \subseteq Interactions
    /\ shown \subseteq Interactions \X Texts
    /\ tried \in [Interactions -> 0..MaxFaults]
    /\ relay \in [Notices -> {"none", "posting", "ok", "502", "lost", "over"}]
    /\ result \in [Notices -> Verdicts \cup {Unset}]
    /\ copies \in [Notices -> Nat]

Told(i) == {t \in Texts : <<i, t>> \in shown}

\* Output is shown of a command only that has taken effect (or has none), a refusal or a hint
\* only when no command was run (handlers.py:97), and a second message only reports the loss
\* of Discord's answer to the first.  Of a message that says "failed" nothing else is
\* claimed: its command may have taken effect before it was killed.
AnswersHonest ==
    \A i \in Interactions :
        /\ "output" \in Told(i) => i \in done \/ request[i] = "status"
        /\ Told(i) \cap {"not_authorized", "hint"} # {} => process[i] = "none"
        /\ \A t, u \in Told(i) : t # u => "failed" \in {t, u} /\ i \in unclear

\* What a handler has posted itself.
Handled(i) ==
    \/ request[i] = "usage"
    \/ process[i] \in {"exit_0", "exit_1"} /\ message[i].text # "internal_error"

\* A task that ends has told the user something, unless Discord refused what it posted: what
\* a handler had to say and then the report of that failure, both (handlers.py:117-130).
NobodyForgotten ==
    \A i \in Interactions : task[i] = "ended" /\ Told(i) = {} =>
        tried[i] >= IF Handled(i) THEN 2 ELSE 1

\* A notification is shown at most once, and is reported sent only if it is shown and
\* skipped only if it is not (notifications.py:30-35, 754-758).
NoticesHonest ==
    \A n \in Notices :
        /\ copies[n] <= 1
        /\ result[n] = "sent" => copies[n] = 1
        /\ result[n] = "skipped" => copies[n] = 0

\* However long the CLI or Discord take, an acknowledged interaction is dealt with to its
\* end, unless the bot ends first, and a notification does not hold up the deployment.
EveryoneTold ==
    <>[](/\ \A i \in Interactions : response[i] = "deferred" => task[i] \in {"ended", "dropped"}
         /\ \A n \in Notices : result[n] # Unset)
=============================================================================
