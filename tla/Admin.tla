-------------------------------- MODULE Admin --------------------------------
(* The HTTP admin plugin of the deploy daemon: daemon/plugins/http.py with its *)
(* idempotency ledger, the verification gate and the deploy callable.          *)
(*                                                                             *)
(* The handlers are coroutines of one event loop: each runs alone up to an     *)
(* await, where the others may go on.  The awaits are the appends to the audit *)
(* log and the writes to the state store.  A deployment holds the loop from    *)
(* its first step to its outcome; Deploy describes what happens within.  A     *)
(* caller may send a request again, under its key, whenever it likes.          *)
(*                                                                             *)
(* What is abstracted.  Requests that fail authentication, a request's form or *)
(* the ledger's conflict check are answered with an error and change nothing.  *)
(* A body is a release or the pointer Stable; the checksums a caller expects   *)
(* are part of the verdict.                                                    *)
EXTENDS Integers, FiniteSets

CONSTANTS Request,      \* places for requests in flight
          Key,          \* idempotency keys
          Release,
          Installed,    \* the release that is deployed and recorded at first
          Stable,       \* the body that names the pointer
          Body,         \* the bodies that callers send: releases, or Stable
          None, Torn,
          MaxExecutions, MaxChanges, MaxCrashes

ASSUME AdminAssumption ==
    /\ Installed \in Release
    /\ None \notin Key \cup Release \cup {Stable}
    /\ Stable \notin Release
    /\ Body \subseteq Release \cup {Stable}
    /\ Torn \notin Release
    /\ None \notin [endpoint : {"verify", "publish"}, body : Body,
                    status : {"ok", "blocked"}, receipt : Nat]
    /\ MaxExecutions \in Nat /\ MaxChanges \in Nat /\ MaxCrashes \in Nat

VARIABLES
    valid,      \* the releases whose slip, chain and bundle verify now
    stable,     \* the release the pointer file names, or None
    ledger,     \* the row of each key, or None
    audited,    \* the receipts in the audit log
    active,     \* the active-release pointer of the state store
    served,     \* the release in the servers' directory, or Torn
    pc, request, result,        \* of each request in flight
    executions, \* of verifications and publications: numbers the receipts
    told,       \* the answers given under each key that is not loose
    loose,      \* keys with overlapping executions, or whose row was pruned
    verified,   \* the releases that have ever passed the gate of a deployment
    latest,     \* the last release a deployment put in place
    astray,     \* a pointer update was lost in a crash, or two were under way
    changes, crashes

deployment == <<active, served, verified, latest, astray>>
environment == <<valid, stable, changes>>
vars == <<environment, ledger, audited, deployment, pc, request, result, executions,
          told, loose, crashes>>

Answer == [endpoint : {"verify", "publish"}, body : Body,
           status : {"ok", "blocked"}, receipt : 0..MaxExecutions]

NoRequest == [endpoint |-> "none", key |-> None, body |-> None]
NoResult == [release |-> None, status |-> "none", receipt |-> 0]

Init == /\ valid = Release
        /\ stable = Installed
        /\ ledger = [k \in Key |-> None]
        /\ audited = {}
        /\ active = Installed
        /\ served = Installed
        /\ pc = [q \in Request |-> "idle"]
        /\ request = [q \in Request |-> NoRequest]
        /\ result = [q \in Request |-> NoResult]
        /\ executions = 0
        /\ told = [k \in Key |-> {}]
        /\ loose = {}
        /\ verified = {}
        /\ latest = Installed
        /\ astray = FALSE
        /\ changes = 0
        /\ crashes = 0

Goto(q, from, to) == pc[q] = from /\ pc' = [pc EXCEPT ![q] = to]

\* The response is sent; nothing of the request is left.
Finish(q) == /\ pc' = [pc EXCEPT ![q] = "idle"]
             /\ request' = [request EXCEPT ![q] = NoRequest]
             /\ result' = [result EXCEPT ![q] = NoResult]

\* verify_release: the release a body resolves to, and the verdict on it.
Resolve(body) == IF body = Stable THEN stable ELSE body
Verdict(body) == IF Resolve(body) \in valid THEN "ok" ELSE "blocked"

-----------------------------------------------------------------------------
(* POST /verify and POST /publish *)

InFlight(k) == {q \in Request : request[q].key = k}

\* SQLiteIdempotency.lookup: whatever its age, the row answers the same request.
Cached(k, e, b) == ledger[k] # None /\ ledger[k].endpoint = e /\ ledger[k].body = b

\* Mutation of Replay: a row answers any request that has its key.
ReplayAny(k, e, b) ==
    /\ ledger[k] # None
    /\ told' = [told EXCEPT ![k] = @ \cup {[ledger[k] EXCEPT !.endpoint = e, !.body = b]}]
    /\ UNCHANGED <<environment, ledger, audited, deployment, pc, request, result,
                   executions, loose, crashes>>

\* _run_idempotent, when the ledger has the answer.
Replay(k, e, b) ==
    /\ Cached(k, e, b)
    /\ told' = IF k \in loose THEN told ELSE [told EXCEPT ![k] = @ \cup {ledger[k]}]
    /\ UNCHANGED <<environment, ledger, audited, deployment, pc, request, result,
                   executions, loose, crashes>>

\* _run_idempotent, when the ledger has no row, and _execute to its first await.
\* A publication that verifies gets a receipt of its own.
Execute(q, k, e, b) ==
    /\ Goto(q, "idle", "audit")
    /\ ledger[k] = None
    /\ request' = [request EXCEPT ![q] = [endpoint |-> e, key |-> k, body |-> b]]
    /\ LET receipted == e = "publish" /\ Verdict(b) = "ok"
       IN  /\ executions < MaxExecutions
           /\ executions' = executions + 1
           /\ result' = [result EXCEPT ![q] =
                  [release |-> None, status |-> Verdict(b),
                   receipt |-> IF receipted THEN executions + 1 ELSE 0]]
    /\ loose' = IF InFlight(k) = {} THEN loose ELSE loose \cup {k}
    /\ told' = [j \in Key |-> IF j \in loose' THEN {} ELSE told[j]]
    /\ UNCHANGED <<environment, ledger, audited, deployment, crashes>>

\* _record_audit of a verification or publication.
AuditExecution(q) ==
    /\ Goto(q, "audit", "state")
    /\ audited' = IF result[q].receipt = 0 THEN audited
                  ELSE audited \cup {result[q].receipt}
    /\ UNCHANGED <<environment, ledger, deployment, request, result, executions, told,
                   loose, crashes>>

\* SQLiteIdempotency.store: rows past their time to live are pruned (any row may be),
\* and the key gets its row.
Rows(k, answer, expired) ==
    [j \in Key |-> IF j = k THEN answer ELSE IF j \in expired THEN None ELSE ledger[j]]

\* last-verification is written (the status page reads it, nothing else does), the
\* answer is stored and sent.
Store(q) ==
    /\ pc[q] = "state"
    /\ LET k == request[q].key
           answer == [endpoint |-> request[q].endpoint, body |-> request[q].body,
                      status |-> result[q].status, receipt |-> result[q].receipt]
       IN  \E expired \in SUBSET {j \in Key \ {k} : ledger[j] # None} :
               /\ ledger' = Rows(k, answer, expired)
               /\ loose' = loose \cup expired
               /\ told' = [j \in Key |-> IF j \in loose' THEN {} ELSE
                                         told[j] \cup IF j = k THEN {answer} ELSE {}]
    /\ Finish(q)
    /\ UNCHANGED <<environment, audited, deployment, executions, crashes>>

-----------------------------------------------------------------------------
(* POST /deploy *)

\* The gate: a chain failure answers 26, any other verdict but ok 20.  The key
\* of the request is not used.
AskToDeploy(q, b) ==
    /\ Goto(q, "idle", "requested")
    /\ Verdict(b) = "ok"
    /\ request' = [request EXCEPT ![q] = [endpoint |-> "deploy", key |-> None, body |-> b]]
    /\ result' = [result EXCEPT ![q] = [release |-> Resolve(b), status |-> "ok",
                                        receipt |-> 0]]
    /\ verified' = verified \cup {Resolve(b)}
    /\ UNCHANGED <<environment, ledger, audited, active, served, latest, astray, executions,
                   told, loose, crashes>>

\* Deployments that have ended well and whose pointer update is still to come.
Unrecorded == {q \in Request : pc[q] \in {"completed", "record"}}

\* Mutation of DeploySucceeds: the body is resolved again after the await.
DeployResolvedAgain(q) ==
    /\ Goto(q, "requested", "completed")
    /\ Resolve(request[q].body) # None
    /\ result' = [result EXCEPT ![q].release = Resolve(request[q].body)]
    /\ served' = Resolve(request[q].body)
    /\ latest' = Resolve(request[q].body)
    /\ astray' = (Unrecorded # {})
    /\ UNCHANGED <<environment, ledger, audited, active, verified, request, executions,
                   told, loose, crashes>>

\* The deploy callable returns success.
DeploySucceeds(q) ==
    /\ Goto(q, "requested", "completed")
    /\ served' = result[q].release
    /\ latest' = result[q].release
    /\ astray' = (Unrecorded # {})
    /\ UNCHANGED <<environment, ledger, audited, active, verified, request, result,
                   executions, told, loose, crashes>>

\* _deploy_one and deploy return a failure: refused or undone before anything was
\* shipped, recovered from the bundle the pointer names (if it is still there), or
\* not recovered.  The error is not stored.
DeployFails(q) ==
    /\ pc[q] = "requested"
    /\ \/ UNCHANGED served
       \/ served' = active
       \/ served' = result[q].release
       \/ served' = Torn
    /\ Finish(q)
    /\ UNCHANGED <<environment, ledger, audited, active, verified, latest, astray,
                   executions, told, loose, crashes>>

AuditDeployment(q) ==
    /\ Goto(q, "completed", "record")
    /\ UNCHANGED <<environment, ledger, audited, deployment, request, result, executions,
                   told, loose, crashes>>

\* Mutation of RecordActive: the body of the request is recorded.
RecordResolvedAgain(q) ==
    /\ pc[q] = "record"
    /\ active' = Resolve(request[q].body)
    /\ Finish(q)
    /\ UNCHANGED <<environment, ledger, audited, served, verified, latest, astray,
                   executions, told, loose, crashes>>

RecordActive(q) ==
    /\ pc[q] = "record"
    /\ active' = result[q].release
    /\ Finish(q)
    /\ UNCHANGED <<environment, ledger, audited, served, verified, latest, astray,
                   executions, told, loose, crashes>>

-----------------------------------------------------------------------------
(* The rest of the world *)

\* A bundle is published, damaged or removed; promotion moves the pointer.
Change ==
    /\ changes < MaxChanges
    /\ changes' = changes + 1
    /\ \/ /\ \E r \in Release : valid' = (valid \ {r}) \cup ({r} \ valid)
          /\ UNCHANGED stable
       \/ /\ stable' \in (Release \cup {None}) \ {stable}
          /\ UNCHANGED valid
    /\ UNCHANGED <<ledger, audited, deployment, pc, request, result, executions, told,
                   loose, crashes>>

\* The daemon dies and is started again: what is in flight is gone, and a deployment
\* under way leaves whatever it had done.
Crash ==
    /\ crashes < MaxCrashes
    /\ crashes' = crashes + 1
    /\ pc' = [q \in Request |-> "idle"]
    /\ request' = [q \in Request |-> NoRequest]
    /\ result' = [q \in Request |-> NoResult]
    /\ \/ UNCHANGED served
       \/ \E q \in Request : pc[q] = "requested" /\ served' \in {result[q].release, Torn}
    /\ astray' = (astray \/ Unrecorded # {})
    /\ UNCHANGED <<environment, ledger, audited, active, verified, latest, executions, told,
                   loose>>

Next == \/ \E q \in Request :
               \/ \E k \in Key, e \in {"verify", "publish"}, b \in Body :
                      Execute(q, k, e, b)
               \/ AuditExecution(q) \/ Store(q)
               \/ \E b \in Body : AskToDeploy(q, b)
               \/ DeploySucceeds(q) \/ DeployFails(q)
               \/ AuditDeployment(q) \/ RecordActive(q)
        \/ \E k \in Key, e \in {"verify", "publish"}, b \in Body : Replay(k, e, b)
        \/ Change
        \/ Crash

Spec == Init /\ [][Next]_vars

-----------------------------------------------------------------------------

\* What a request in flight and its result are at each stage.
RequestOK(q) ==
    /\ pc[q] = "idle" => request[q] = NoRequest /\ result[q] = NoResult
    /\ pc[q] \in {"audit", "state"} =>
          /\ request[q] \in [endpoint : {"verify", "publish"}, key : Key, body : Body]
          /\ result[q] \in [release : {None}, status : {"ok", "blocked"},
                            receipt : 0..executions]
    /\ pc[q] \in {"requested", "completed", "record"} =>
          /\ request[q] \in [endpoint : {"deploy"}, key : {None}, body : Body]
          /\ result[q] \in [release : Release, status : {"ok"}, receipt : {0}]

\* The values each variable may have, and what a stage of a request implies.
TypeOK ==
    /\ valid \subseteq Release
    /\ stable \in Release \cup {None}
    /\ ledger \in [Key -> Answer \cup {None}]
    /\ audited \subseteq 1..executions
    /\ active \in Release
    /\ served \in Release \cup {Torn}
    /\ pc \in [Request -> {"idle", "audit", "state", "requested", "completed", "record"}]
    /\ request \in [Request -> [endpoint : {"none", "verify", "publish", "deploy"},
                                key : Key \cup {None}, body : Body \cup {None}]]
    /\ result \in [Request -> [release : Release \cup {None},
                               status : {"none", "ok", "blocked"}, receipt : Nat]]
    /\ \A q \in Request : RequestOK(q)
    /\ executions \in 0..MaxExecutions
    /\ told \in [Key -> SUBSET Answer]
    /\ loose \subseteq Key
    /\ verified \subseteq Release
    /\ latest \in Release
    /\ astray \in BOOLEAN
    /\ changes \in 0..MaxChanges /\ crashes \in 0..MaxCrashes

\* "Repeats with the same key and body return the cached response" (idempotency.py:6),
\* and a key that is used for another request gets no answer at all: all the callers of
\* a key are told one thing, over changes of the releases and over crashes, unless two
\* executions under it overlapped or its row was pruned (such keys are loose).
OneAnswerPerKey ==
    \A k \in Key \ loose : /\ Cardinality(told[k]) <= 1
                           /\ told[k] # {} => told[k] = {ledger[k]}

\* A receipt that any caller may have seen, or be given later by the ledger, is in the
\* audit log: a crash at any await loses an answer, never the trail of one.
ReceiptsAudited ==
    \A k \in Key : \A answer \in told[k] \cup ({ledger[k]} \ {None}) :
        answer.receipt # 0 => answer.receipt \in audited

\* No release comes to be served that has not passed the gate of a deployment, though
\* the pointer moves and releases change while the request waits for the audit log.
ServedWasVerified == served \in verified \cup {Installed, Torn}

\* Once the pointer updates under way are done, active-release, which the next
\* deployment takes its prior bundle from, names the release that was deployed last:
\* unless a crash lost an update, or two deployments waited for theirs at once.
ActiveIsDeployed == Unrecorded = {} /\ ~astray => active = latest

=============================================================================
