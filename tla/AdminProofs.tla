----------------------------- MODULE AdminProofs -----------------------------
(* Theorems about Admin, for any requests, keys, releases and bounds.          *)
EXTENDS Admin, FiniteSetTheorems, TLAPS

-----------------------------------------------------------------------------
(* Types. *)

\* A set of receipts that gets one more, unless it is no receipt.
LEMMA ReceiptsStay ==
    ASSUME NEW n \in Nat, NEW k \in 0..n, NEW A, NEW B, A \subseteq 1..n,
           B \subseteq A \cup ({k} \ {0})
    PROVE  B \subseteq 1..n
BY Z3

\* The initial values have their types.
LEMMA InitTyped == Init => TypeOK
<1> SUFFICES ASSUME Init PROVE TypeOK
    OBVIOUS
<1>1. /\ NoRequest \in [endpoint : {"none", "verify", "publish", "deploy"},
                        key : Key \cup {None}, body : Body \cup {None}]
      /\ NoResult \in [release : Release \cup {None}, status : {"none", "ok", "blocked"},
                       receipt : Nat]
    BY DEF NoRequest, NoResult
<1>2. \A q \in Request : RequestOK(q)
    BY DEF Init, RequestOK
<1>3. /\ request \in [Request -> [endpoint : {"none", "verify", "publish", "deploy"},
                                 key : Key \cup {None}, body : Body \cup {None}]]
      /\ result \in [Request -> [release : Release \cup {None},
                                status : {"none", "ok", "blocked"}, receipt : Nat]]
    BY <1>1 DEF Init
<1>4. /\ ledger \in [Key -> Answer \cup {None}]
      /\ told \in [Key -> SUBSET Answer]
      /\ pc \in [Request -> {"idle", "audit", "state", "requested", "completed", "record"}]
    BY DEF Init
<1>5. /\ executions \in 0..MaxExecutions
      /\ changes \in 0..MaxChanges /\ crashes \in 0..MaxCrashes
    BY AdminAssumption DEF Init
<1> QED
    BY <1>2, <1>3, <1>4, <1>5, AdminAssumption DEF Init, TypeOK

\* The type invariant is inductive.
LEMMA NextTyped == TypeOK /\ [Next]_vars => TypeOK'
<1> SUFFICES ASSUME TypeOK, [Next]_vars PROVE TypeOK'
    OBVIOUS
<1> USE AdminAssumption
<1>1. ASSUME NEW q \in Request, NEW k \in Key, NEW e \in {"verify", "publish"},
             NEW b \in Body, Execute(q, k, e, b)
      PROVE  TypeOK'
    <2> USE <1>1 DEF Execute, Goto, environment, deployment
    <2>1. /\ request'[q] = [endpoint |-> e, key |-> k, body |-> b]
          /\ result'[q] \in [release : {None}, status : {"ok", "blocked"},
                             receipt : 0..executions']
          /\ executions \in Nat /\ executions' = executions + 1
          /\ executions' \in 0..MaxExecutions
        BY DEF TypeOK, Verdict
    <2>2. /\ request' \in [Request -> [endpoint : {"none", "verify", "publish", "deploy"},
                                      key : Key \cup {None}, body : Body \cup {None}]]
          /\ result' \in [Request -> [release : Release \cup {None},
                                     status : {"none", "ok", "blocked"}, receipt : Nat]]
        BY <2>1 DEF TypeOK
    <2>3. ASSUME NEW r \in Request PROVE RequestOK(r)'
        <3>1. CASE r = q
            BY <2>1, <3>1 DEF TypeOK, RequestOK
        <3>2. CASE r # q
            BY <2>1, <3>2 DEF TypeOK, RequestOK, NoRequest, NoResult
        <3> QED
            BY <3>1, <3>2
    <2>4. told' \in [Key -> SUBSET Answer] /\ loose' \subseteq Key
        BY DEF TypeOK
    <2> QED
        BY <2>1, <2>2, <2>3, <2>4 DEF TypeOK
<1>2. ASSUME NEW q \in Request, AuditExecution(q)
      PROVE  TypeOK'
    <2> USE <1>2 DEF AuditExecution, Goto, environment, deployment
    <2>1. ASSUME NEW r \in Request PROVE RequestOK(r)'
        BY DEF TypeOK, RequestOK
    <2>2. audited' \subseteq 1..executions'
        <3>1. RequestOK(q) /\ pc[q] = "audit"
            BY DEF TypeOK
        <3>2. result[q].receipt \in 0..executions
            BY <3>1 DEF RequestOK
        <3>3. executions \in Nat /\ executions' = executions /\ audited \subseteq 1..executions
            BY DEF TypeOK
        <3>4. audited' \subseteq audited \cup ({result[q].receipt} \ {0})
            OBVIOUS
        <3> HIDE <1>2
        <3>5. audited' \subseteq 1..executions
            BY <3>2, <3>3, <3>4, ReceiptsStay
        <3> QED
            BY <3>3, <3>5
    <2> QED
        BY <2>1, <2>2 DEF TypeOK
<1>3. ASSUME NEW q \in Request, Store(q)
      PROVE  TypeOK'
     BY <1>3 DEF Store, Finish, Rows, environment, deployment, TypeOK, RequestOK,
         Answer, NoRequest, NoResult
<1>4. ASSUME NEW q \in Request, NEW b \in Body, AskToDeploy(q, b)
      PROVE  TypeOK'
     BY <1>4 DEF AskToDeploy, Goto, Verdict, Resolve, environment, TypeOK, RequestOK,
         Answer, NoRequest, NoResult
<1>5. ASSUME NEW q \in Request, DeploySucceeds(q)
      PROVE  TypeOK'
     BY <1>5 DEF DeploySucceeds, Goto, environment, TypeOK, RequestOK, Answer,
         NoRequest, NoResult
<1>6. ASSUME NEW q \in Request, DeployFails(q)
      PROVE  TypeOK'
     BY <1>6 DEF DeployFails, Finish, environment, TypeOK, RequestOK, Answer,
         NoRequest, NoResult
<1>7. ASSUME NEW q \in Request, AuditDeployment(q)
      PROVE  TypeOK'
     BY <1>7 DEF AuditDeployment, Goto, environment, deployment, TypeOK, RequestOK,
         Answer, NoRequest, NoResult
<1>8. ASSUME NEW q \in Request, RecordActive(q)
      PROVE  TypeOK'
     BY <1>8 DEF RecordActive, Finish, environment, TypeOK, RequestOK, Answer,
         NoRequest, NoResult
<1>9. ASSUME NEW k \in Key, NEW e \in {"verify", "publish"}, NEW b \in Body,
             Replay(k, e, b)
      PROVE  TypeOK'
     BY <1>9 DEF Replay, Cached, environment, deployment, TypeOK, RequestOK, Answer,
         NoRequest, NoResult
<1>10. ASSUME Change
      PROVE  TypeOK'
     BY <1>10 DEF Change, deployment, TypeOK, RequestOK, Answer, NoRequest, NoResult
<1>11. ASSUME Crash
      PROVE  TypeOK'
     BY <1>11 DEF Crash, environment, TypeOK, RequestOK, Answer, NoRequest, NoResult
<1>12. CASE UNCHANGED vars
     BY <1>12 DEF vars, environment, deployment, TypeOK, RequestOK, Answer, NoRequest,
         NoResult
<1> QED
    BY <1>1, <1>2, <1>3, <1>4, <1>5, <1>6, <1>7, <1>8, <1>9, <1>10, <1>11, <1>12 DEF Next

\* Admin keeps its variables within their types.
THEOREM TypeCorrect == Spec => []TypeOK
BY InitTyped, NextTyped, PTL DEF Spec

-----------------------------------------------------------------------------
(* Receipts. *)

\* A request past the audit log has its receipt there.
Trail ==
    /\ \A q \in Request :
          pc[q] = "state" /\ result[q].receipt # 0 => result[q].receipt \in audited
    /\ ReceiptsAudited

\* Every step keeps the trail of receipts.
LEMMA NextTrail == TypeOK /\ Trail /\ [Next]_vars => Trail'
<1> SUFFICES ASSUME TypeOK /\ Trail, [Next]_vars PROVE Trail'
    OBVIOUS
<1> USE AdminAssumption
<1>1. ASSUME NEW q \in Request, NEW k \in Key, NEW e \in {"verify", "publish"},
             NEW b \in Body, Execute(q, k, e, b)
      PROVE  Trail'
    BY <1>1 DEF Execute, Goto, environment, deployment,
        TypeOK, RequestOK, Trail, ReceiptsAudited, NoResult
<1>2. ASSUME NEW q \in Request, AuditExecution(q)
      PROVE  Trail'
    BY <1>2 DEF AuditExecution, Goto, environment, deployment,
        TypeOK, RequestOK, Trail, ReceiptsAudited, NoResult
<1>3. ASSUME NEW q \in Request, Store(q)
      PROVE  Trail'
    BY <1>3 DEF Store, Finish, Rows, environment, deployment,
        TypeOK, RequestOK, Trail, ReceiptsAudited, NoResult
<1>4. ASSUME NEW q \in Request, NEW b \in Body, AskToDeploy(q, b)
      PROVE  Trail'
    BY <1>4 DEF AskToDeploy, Goto, environment, deployment,
        TypeOK, RequestOK, Trail, ReceiptsAudited, NoResult
<1>5. ASSUME NEW q \in Request, DeploySucceeds(q)
      PROVE  Trail'
    BY <1>5 DEF DeploySucceeds, Goto, environment, deployment,
        TypeOK, RequestOK, Trail, ReceiptsAudited, NoResult
<1>6. ASSUME NEW q \in Request, DeployFails(q)
      PROVE  Trail'
    BY <1>6 DEF DeployFails, Finish, environment, deployment,
        TypeOK, RequestOK, Trail, ReceiptsAudited, NoResult
<1>7. ASSUME NEW q \in Request, AuditDeployment(q)
      PROVE  Trail'
    BY <1>7 DEF AuditDeployment, Goto, environment, deployment,
        TypeOK, RequestOK, Trail, ReceiptsAudited, NoResult
<1>8. ASSUME NEW q \in Request, RecordActive(q)
      PROVE  Trail'
    BY <1>8 DEF RecordActive, Finish, environment, deployment,
        TypeOK, RequestOK, Trail, ReceiptsAudited, NoResult
<1>9. ASSUME NEW k \in Key, NEW e \in {"verify", "publish"}, NEW b \in Body,
             Replay(k, e, b)
      PROVE  Trail'
    BY <1>9 DEF Replay, Cached, environment, deployment,
        TypeOK, RequestOK, Trail, ReceiptsAudited, NoResult
<1>10. ASSUME Change
      PROVE  Trail'
    BY <1>10 DEF Change, environment, deployment,
        TypeOK, RequestOK, Trail, ReceiptsAudited, NoResult
<1>11. ASSUME Crash
      PROVE  Trail'
    BY <1>11 DEF Crash, environment, deployment,
        TypeOK, RequestOK, Trail, ReceiptsAudited, NoResult
<1>12. CASE UNCHANGED vars
    BY <1>12 DEF vars, environment, deployment, TypeOK, RequestOK, Trail,
         ReceiptsAudited, NoResult
<1> QED
    BY <1>1, <1>2, <1>3, <1>4, <1>5, <1>6, <1>7, <1>8, <1>9, <1>10, <1>11, <1>12 DEF Next

\* No receipt reaches a caller or the ledger before the audit log.
THEOREM ReceiptsAreAudited == Spec => []ReceiptsAudited
<1>1. Init => Trail
    BY DEF Init, Trail, ReceiptsAudited
<1>2. Trail => ReceiptsAudited
    BY DEF Trail
<1> QED
    BY <1>1, <1>2, TypeCorrect, NextTrail, PTL DEF Spec

-----------------------------------------------------------------------------
(* The gate. *)

\* What waits for its deployment, and what the pointer may name, has passed the gate.
Gated ==
    /\ \A q \in Request :
          pc[q] \in {"requested", "completed", "record"} => result[q].release \in verified
    /\ active \in verified \cup {Installed}
    /\ ServedWasVerified

\* Every step keeps what was verified apart from what was not.
LEMMA NextGated == TypeOK /\ Gated /\ [Next]_vars => Gated'
<1> SUFFICES ASSUME TypeOK /\ Gated, [Next]_vars PROVE Gated'
    OBVIOUS
<1> USE AdminAssumption
<1>1. ASSUME NEW q \in Request, NEW k \in Key, NEW e \in {"verify", "publish"},
             NEW b \in Body, Execute(q, k, e, b)
      PROVE  Gated'
    BY <1>1 DEF Execute, Goto, environment, deployment,
        TypeOK, Gated, ServedWasVerified
<1>2. ASSUME NEW q \in Request, AuditExecution(q)
      PROVE  Gated'
    BY <1>2 DEF AuditExecution, Goto, environment, deployment,
        TypeOK, Gated, ServedWasVerified
<1>3. ASSUME NEW q \in Request, Store(q)
      PROVE  Gated'
    BY <1>3 DEF Store, Finish, Rows, environment, deployment,
        TypeOK, Gated, ServedWasVerified
<1>4. ASSUME NEW q \in Request, NEW b \in Body, AskToDeploy(q, b)
      PROVE  Gated'
    BY <1>4 DEF AskToDeploy, Goto, environment, deployment,
        TypeOK, Gated, ServedWasVerified
<1>5. ASSUME NEW q \in Request, DeploySucceeds(q)
      PROVE  Gated'
    BY <1>5 DEF DeploySucceeds, Goto, environment, deployment,
        TypeOK, Gated, ServedWasVerified
<1>6. ASSUME NEW q \in Request, DeployFails(q)
      PROVE  Gated'
    BY <1>6 DEF DeployFails, Finish, environment, deployment,
        TypeOK, Gated, ServedWasVerified
<1>7. ASSUME NEW q \in Request, AuditDeployment(q)
      PROVE  Gated'
    BY <1>7 DEF AuditDeployment, Goto, environment, deployment,
        TypeOK, Gated, ServedWasVerified
<1>8. ASSUME NEW q \in Request, RecordActive(q)
      PROVE  Gated'
    BY <1>8 DEF RecordActive, Finish, environment, deployment,
        TypeOK, Gated, ServedWasVerified
<1>9. ASSUME NEW k \in Key, NEW e \in {"verify", "publish"}, NEW b \in Body,
             Replay(k, e, b)
      PROVE  Gated'
    BY <1>9 DEF Replay, Cached, environment, deployment,
        TypeOK, Gated, ServedWasVerified
<1>10. ASSUME Change
      PROVE  Gated'
    BY <1>10 DEF Change, environment, deployment,
        TypeOK, Gated, ServedWasVerified
<1>11. ASSUME Crash
      PROVE  Gated'
    BY <1>11 DEF Crash, environment, deployment,
        TypeOK, Gated, ServedWasVerified
<1>12. CASE UNCHANGED vars
    BY <1>12 DEF vars, environment, deployment, TypeOK, Gated, ServedWasVerified
<1> QED
    BY <1>1, <1>2, <1>3, <1>4, <1>5, <1>6, <1>7, <1>8, <1>9, <1>10, <1>11, <1>12 DEF Next

\* Only releases that have passed the gate are served.
THEOREM OnlyVerifiedServed == Spec => []ServedWasVerified
<1>1. Init => Gated
    BY DEF Init, Gated, ServedWasVerified
<1>2. Gated => ServedWasVerified
    BY DEF Gated
<1> QED
    BY <1>1, <1>2, TypeCorrect, NextGated, PTL DEF Spec

-----------------------------------------------------------------------------
(* The active-release pointer. *)

\* While nothing went astray, what is to be recorded is what was deployed last.
Pointing ==
    /\ ~astray => \A q \in Unrecorded : result[q].release = latest
    /\ ActiveIsDeployed

\* Every step keeps the pointer on its way.
LEMMA NextPointing == TypeOK /\ Pointing /\ [Next]_vars => Pointing'
<1> SUFFICES ASSUME TypeOK /\ Pointing, [Next]_vars PROVE Pointing'
    OBVIOUS
<1> USE AdminAssumption
<1>1. ASSUME NEW q \in Request, NEW k \in Key, NEW e \in {"verify", "publish"},
             NEW b \in Body, Execute(q, k, e, b)
      PROVE  Pointing'
    BY <1>1 DEF Execute, Goto, environment, deployment,
        TypeOK, Pointing, ActiveIsDeployed, Unrecorded
<1>2. ASSUME NEW q \in Request, AuditExecution(q)
      PROVE  Pointing'
    BY <1>2 DEF AuditExecution, Goto, environment, deployment,
        TypeOK, Pointing, ActiveIsDeployed, Unrecorded
<1>3. ASSUME NEW q \in Request, Store(q)
      PROVE  Pointing'
    BY <1>3 DEF Store, Finish, Rows, environment, deployment,
        TypeOK, Pointing, ActiveIsDeployed, Unrecorded
<1>4. ASSUME NEW q \in Request, NEW b \in Body, AskToDeploy(q, b)
      PROVE  Pointing'
    BY <1>4 DEF AskToDeploy, Goto, environment, deployment,
        TypeOK, Pointing, ActiveIsDeployed, Unrecorded
<1>5. ASSUME NEW q \in Request, DeploySucceeds(q)
      PROVE  Pointing'
    BY <1>5 DEF DeploySucceeds, Goto, environment, deployment,
        TypeOK, Pointing, ActiveIsDeployed, Unrecorded
<1>6. ASSUME NEW q \in Request, DeployFails(q)
      PROVE  Pointing'
    BY <1>6 DEF DeployFails, Finish, environment, deployment,
        TypeOK, Pointing, ActiveIsDeployed, Unrecorded
<1>7. ASSUME NEW q \in Request, AuditDeployment(q)
      PROVE  Pointing'
    BY <1>7 DEF AuditDeployment, Goto, environment, deployment,
        TypeOK, Pointing, ActiveIsDeployed, Unrecorded
<1>8. ASSUME NEW q \in Request, RecordActive(q)
      PROVE  Pointing'
    BY <1>8 DEF RecordActive, Finish, environment, deployment,
        TypeOK, Pointing, ActiveIsDeployed, Unrecorded
<1>9. ASSUME NEW k \in Key, NEW e \in {"verify", "publish"}, NEW b \in Body,
             Replay(k, e, b)
      PROVE  Pointing'
    BY <1>9 DEF Replay, Cached, environment, deployment,
        TypeOK, Pointing, ActiveIsDeployed, Unrecorded
<1>10. ASSUME Change
      PROVE  Pointing'
    BY <1>10 DEF Change, environment, deployment,
        TypeOK, Pointing, ActiveIsDeployed, Unrecorded
<1>11. ASSUME Crash
      PROVE  Pointing'
    BY <1>11 DEF Crash, environment, deployment,
        TypeOK, Pointing, ActiveIsDeployed, Unrecorded
<1>12. CASE UNCHANGED vars
    BY <1>12 DEF vars, environment, deployment, TypeOK, Pointing, ActiveIsDeployed,
         Unrecorded
<1> QED
    BY <1>1, <1>2, <1>3, <1>4, <1>5, <1>6, <1>7, <1>8, <1>9, <1>10, <1>11, <1>12 DEF Next

\* In turn and without a crash, the pointer follows the deployments.
THEOREM PointerFollows == Spec => []ActiveIsDeployed
<1>1. Init => Pointing
    BY DEF Init, Pointing, ActiveIsDeployed, Unrecorded
<1>2. Pointing => ActiveIsDeployed
    BY DEF Pointing
<1> QED
    BY <1>1, <1>2, TypeCorrect, NextPointing, PTL DEF Spec

-----------------------------------------------------------------------------
(* The answers of a key. *)

\* While a key is not loose it has one execution at a time, none once its row is
\* there, and all that was told under it is the row.
Answered ==
    \A k \in Key \ loose :
        /\ \A q, r \in InFlight(k) : q = r
        /\ \A q \in InFlight(k) : ledger[k] = None
        /\ told[k] # {} => ledger[k] # None /\ told[k] = {ledger[k]}

\* Every step keeps the executions and answers of a key apart.
LEMMA NextAnswered == TypeOK /\ Answered /\ [Next]_vars => Answered'
<1> SUFFICES ASSUME TypeOK /\ Answered, [Next]_vars PROVE Answered'
    OBVIOUS
<1> USE AdminAssumption
<1>1. ASSUME NEW q \in Request, NEW k \in Key, NEW e \in {"verify", "publish"},
             NEW b \in Body, Execute(q, k, e, b)
      PROVE  Answered'
    BY <1>1 DEF Execute, Goto, environment, deployment,
        TypeOK, RequestOK, Answered, InFlight, NoRequest
<1>2. ASSUME NEW q \in Request, AuditExecution(q)
      PROVE  Answered'
    BY <1>2 DEF AuditExecution, Goto, environment, deployment,
        TypeOK, RequestOK, Answered, InFlight, NoRequest
<1>3. ASSUME NEW q \in Request, Store(q)
      PROVE  Answered'
    BY <1>3 DEF Store, Finish, Rows, environment, deployment,
        TypeOK, RequestOK, Answered, InFlight, NoRequest
<1>4. ASSUME NEW q \in Request, NEW b \in Body, AskToDeploy(q, b)
      PROVE  Answered'
    BY <1>4 DEF AskToDeploy, Goto, environment, deployment,
        TypeOK, RequestOK, Answered, InFlight, NoRequest
<1>5. ASSUME NEW q \in Request, DeploySucceeds(q)
      PROVE  Answered'
    BY <1>5 DEF DeploySucceeds, Goto, environment, deployment,
        TypeOK, RequestOK, Answered, InFlight, NoRequest
<1>6. ASSUME NEW q \in Request, DeployFails(q)
      PROVE  Answered'
    BY <1>6 DEF DeployFails, Finish, environment, deployment,
        TypeOK, RequestOK, Answered, InFlight, NoRequest
<1>7. ASSUME NEW q \in Request, AuditDeployment(q)
      PROVE  Answered'
    BY <1>7 DEF AuditDeployment, Goto, environment, deployment,
        TypeOK, RequestOK, Answered, InFlight, NoRequest
<1>8. ASSUME NEW q \in Request, RecordActive(q)
      PROVE  Answered'
    BY <1>8 DEF RecordActive, Finish, environment, deployment,
        TypeOK, RequestOK, Answered, InFlight, NoRequest
<1>9. ASSUME NEW k \in Key, NEW e \in {"verify", "publish"}, NEW b \in Body,
             Replay(k, e, b)
      PROVE  Answered'
    BY <1>9 DEF Replay, Cached, environment, deployment,
        TypeOK, RequestOK, Answered, InFlight, NoRequest
<1>10. ASSUME Change
      PROVE  Answered'
    BY <1>10 DEF Change, environment, deployment,
        TypeOK, RequestOK, Answered, InFlight, NoRequest
<1>11. ASSUME Crash
      PROVE  Answered'
    BY <1>11 DEF Crash, environment, deployment,
        TypeOK, RequestOK, Answered, InFlight, NoRequest
<1>12. CASE UNCHANGED vars
    BY <1>12 DEF vars, environment, deployment, TypeOK, RequestOK, Answered, InFlight,
         NoRequest
<1> QED
    BY <1>1, <1>2, <1>3, <1>4, <1>5, <1>6, <1>7, <1>8, <1>9, <1>10, <1>11, <1>12 DEF Next

\* One answer is the same answer for every caller of a key.
LEMMA AnsweredOnce == TypeOK /\ Answered => OneAnswerPerKey
<1> SUFFICES ASSUME Answered, NEW k \in Key \ loose
             PROVE  /\ Cardinality(told[k]) <= 1
                    /\ told[k] # {} => told[k] = {ledger[k]}
    BY DEF OneAnswerPerKey
<1>1. CASE told[k] = {}
    BY <1>1, FS_EmptySet
<1>2. CASE told[k] = {ledger[k]}
    <2>1. Cardinality({ledger[k]}) = 1
        BY FS_Singleton
    <2> QED
        BY <1>2, <2>1
<1> QED
    BY <1>1, <1>2 DEF Answered

\* However requests are repeated, a key has one answer while it is not loose.
THEOREM OneAnswer == Spec => []OneAnswerPerKey
<1>1. Init => Answered
    BY AdminAssumption DEF Init, Answered, InFlight, NoRequest
<1> QED
    BY <1>1, TypeCorrect, NextAnswered, AnsweredOnce, PTL DEF Spec

==============================================================================
