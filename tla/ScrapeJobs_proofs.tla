-------------------------- MODULE ScrapeJobs_proofs --------------------------
(* Theorems about ScrapeJobs, for every value of its constants. *)
EXTENDS ScrapeJobs, TLAPS

\* What a fault may do to the fault counter.
LEMMA LoseType == ASSUME faults \in 0 .. MaxFaults, Lose
                  PROVE  faults' \in 0 .. MaxFaults
BY ScrapeAssumption DEF Lose

\* The answer to any request leaves the workers in legal states.
LEMMA AnswerType ==
  ASSUME WorkerTypeOK, NEW r, NEW accepted \in BOOLEAN, Answer(r, accepted)
  PROVE  WorkerTypeOK'
<1>1. wPc' \in [Workers -> {"idle", "running", "posting", "failing", "reporting"}]
  BY DEF WorkerTypeOK, Answer
<1>2. wJob' \in [Workers -> Jobs \cup {NoJob}]
  BY DEF WorkerTypeOK, Answer
<1>3. wAttempt' \in [Workers -> 0 .. MaxAttempts]
  <2>1. 0 \in 0 .. MaxAttempts
    BY ScrapeAssumption
  <2> QED BY <2>1 DEF WorkerTypeOK, Answer
<1>4. wBatch' \in [Workers -> SUBSET Jobs]
  BY DEF WorkerTypeOK, Answer
<1>5. ASSUME NEW w \in Workers, wPc'[w] # "idle"
      PROVE  wJob'[w] \in Jobs /\ wAttempt'[w] \in Attempts
  <2>1. wPc[w] # "idle"
    BY <1>5 DEF WorkerTypeOK, Answer, Waits
  <2>2. wJob'[w] = wJob[w] /\ wAttempt'[w] = wAttempt[w]
    BY <1>5 DEF WorkerTypeOK, Answer
  <2> QED BY <2>1, <2>2 DEF WorkerTypeOK
<1> QED BY <1>1, <1>2, <1>3, <1>4, <1>5 DEF WorkerTypeOK

\* Finishing a job leaves its row, its run and its target in legal states.
LEMMA FinishType ==
  ASSUME TargetTypeOK, JobTypeOK, NEW j \in Jobs,
         NEW status \in {"succeeded", "failed"}, NEW c,
         status = "succeeded" => c \in Cursors, FinishScrapeJob(j, status, c)
  PROVE  TargetTypeOK' /\ JobTypeOK'
<1>1. tCursor' \in [Targets -> Cursors]
  BY DEF TargetTypeOK, FinishScrapeJob
<1>2. TargetTypeOK'
  BY <1>1 DEF TargetTypeOK, FinishScrapeJob
<1>3. 0 \in -1 .. Lease
  BY ScrapeAssumption
<1>4. JobTypeOK'
  BY <1>3 DEF JobTypeOK, FinishScrapeJob
<1> QED BY <1>2, <1>4

\* A claim leaves the job and its target in legal states.
LEMMA GrantType ==
  ASSUME TargetTypeOK, JobTypeOK, NEW j \in Jobs, GrantLease(j)
  PROVE  TargetTypeOK' /\ JobTypeOK' /\ jAttempts[j] + 1 \in Attempts
<1>1. jAttempts[j] + 1 \in Attempts /\ jAttempts[j] + 1 \in 0 .. MaxAttempts
  <2>1. jAttempts[j] \in 0 .. MaxAttempts /\ jAttempts[j] < MaxAttempts
    BY DEF JobTypeOK, GrantLease, Claimable
  <2> QED BY <2>1, ScrapeAssumption DEF Attempts
<1>2. TargetTypeOK'
  BY DEF TargetTypeOK, GrantLease
<1>3. Lease \in -1 .. Lease
  BY ScrapeAssumption
<1>4. JobTypeOK'
  BY <1>1, <1>3 DEF JobTypeOK, GrantLease
<1> QED BY <1>1, <1>2, <1>4

LEMMA PageType ==
  ASSUME NEW c \in Cursors
  PROVE  /\ Feed!Page(c) \subseteq Feed!Rows
         /\ Feed!Following(c) \subseteq Cursors
<1>1. Cursors = Feed!Cursors
  BY DEF Cursors, Feed!Cursors
<1>2. Feed!Page(c) \subseteq Feed!Rows
  BY <1>1 DEF Feed!Page, Feed!Rows
<1>3. Feed!Following(c) \subseteq Cursors
  BY <1>1 DEF Feed!Following
<1> QED BY <1>2, <1>3

LEMMA TypeInit == Init => TypeOK
<1> SUFFICES ASSUME Init PROVE TypeOK
  OBVIOUS
<1>1. /\ 0 \in Cursors /\ 0 \in 0 .. MaxAttempts /\ 0 \in 0 .. MaxFaults
      /\ 0 \in -1 .. Lease /\ 0 \in Nat
  BY ScrapeAssumption DEF Cursors
<1>2. PolicyTypeOK /\ TargetTypeOK
  BY <1>1 DEF Init, PolicyTypeOK, TargetTypeOK
<1>3. JobTypeOK
  BY <1>1 DEF Init, JobTypeOK
<1>4. ServerTypeOK
  BY <1>1 DEF Init, ServerTypeOK
<1>5. WorkerTypeOK
  BY <1>1 DEF Init, WorkerTypeOK
<1> QED BY <1>2, <1>3, <1>4, <1>5 DEF TypeOK

\* A queued job's row and its target stay in legal states.
LEMMA InsertType ==
  ASSUME TypeOK, NEW t \in Targets, NEW j \in Jobs, NEW c \in Cursors, InsertJob(t, j, c)
  PROVE  TargetTypeOK' /\ JobTypeOK'
<1>1. TargetTypeOK'
  BY DEF TypeOK, TargetTypeOK, InsertJob
<1>2. JobTypeOK'
  BY DEF TypeOK, JobTypeOK, InsertJob
<1> QED BY <1>1, <1>2

LEMMA AdminType == ASSUME TypeOK, Admin PROVE TypeOK'
<1> USE DEF TypeOK, policyVars, targetVars, jobVars, workerVars
<1>1. ASSUME NEW policy \in Policies, SetAutomaticImportPolicy(policy) PROVE TypeOK'
  <2>1. policy[1] \in BOOLEAN /\ policy[2] \in Nat
    BY ScrapeAssumption
  <2> QED BY <1>1, <2>1 DEF SetAutomaticImportPolicy, PolicyTypeOK, TargetTypeOK,
             JobTypeOK, ServerTypeOK, WorkerTypeOK
<1>2. ASSUME NEW c \in Conns, SetConnectionStatus(c) PROVE TypeOK'
  BY <1>2 DEF SetConnectionStatus, PolicyTypeOK, TargetTypeOK, JobTypeOK,
              ServerTypeOK, WorkerTypeOK
<1>3. ASSUME NEW t \in Targets, NEW c \in Conns, CreateTarget(t, c) PROVE TypeOK'
  BY <1>3 DEF CreateTarget, PolicyTypeOK, TargetTypeOK, JobTypeOK, ServerTypeOK,
              WorkerTypeOK
<1>4. ASSUME NEW t \in Targets, DisableTarget(t) PROVE TypeOK'
  BY <1>4 DEF DisableTarget, PolicyTypeOK, TargetTypeOK, JobTypeOK, ServerTypeOK,
              WorkerTypeOK
<1>5. ASSUME NEW t \in Targets, QueueAutomaticImportJob(t) PROVE TypeOK'
  <2>1. tCursor[t] \in Cursors
    BY DEF TargetTypeOK
  <2>2. TargetTypeOK' /\ JobTypeOK'
    BY <1>5, <2>1, InsertType DEF QueueAutomaticImportJob
  <2> QED BY <1>5, <2>2 DEF QueueAutomaticImportJob, InsertJob, PolicyTypeOK,
             ServerTypeOK, WorkerTypeOK
<1>6. ASSUME NEW t \in Targets, QueueScrapeJobRead(t) PROVE TypeOK'
  <2>1. tCursor[t] \in Cursors
    BY DEF TargetTypeOK
  <2> QED BY <1>6, <2>1 DEF QueueScrapeJobRead, PolicyTypeOK, TargetTypeOK,
             JobTypeOK, ServerTypeOK, WorkerTypeOK
<1>7. ASSUME NEW t \in Targets, QueueScrapeJobInsert(t) PROVE TypeOK'
  <2>1. queueRead[t] \in Cursors
    BY <1>7 DEF ServerTypeOK, QueueScrapeJobInsert
  <2>2. TargetTypeOK' /\ JobTypeOK'
    BY <1>7, <2>1, InsertType DEF QueueScrapeJobInsert
  <2> QED BY <1>7, <2>2 DEF QueueScrapeJobInsert, InsertJob, PolicyTypeOK,
             ServerTypeOK, WorkerTypeOK
<1> QED BY <1>1, <1>2, <1>3, <1>4, <1>5, <1>6, <1>7
        DEF Admin, CreateAutomaticImportTarget, CreateScrapeTarget

\* A call that throws only changes its worker's control state.
LEMMA CallThrowsType ==
  ASSUME TypeOK, NEW w \in Workers, CallThrows(w), faults' \in 0 .. MaxFaults
  PROVE  TypeOK'
<1>1. 0 \in 0 .. MaxAttempts
  BY ScrapeAssumption
<1>2. WorkerTypeOK'
  BY <1>1 DEF TypeOK, WorkerTypeOK, CallThrows, Release
<1> QED BY <1>2 DEF TypeOK, CallThrows, PolicyTypeOK, TargetTypeOK, JobTypeOK,
       ServerTypeOK, policyVars, targetVars, jobVars, workerVars

LEMMA WorkerType ==
  ASSUME TypeOK, NEW w \in Workers, Worker(w) \/ WorkerTrouble(w) \/ HeartbeatScrapeJob(w)
  PROVE  TypeOK'
<1> USE DEF TypeOK, policyVars, targetVars, jobVars, workerVars
<1>1. ASSUME QueuedJobs(w) PROVE TypeOK'
  <2>1. WorkerTypeOK'
    BY <1>1 DEF QueuedJobs, Offered, WorkerTypeOK
  <2> QED BY <1>1, <2>1 DEF QueuedJobs, PolicyTypeOK, TargetTypeOK, JobTypeOK,
             ServerTypeOK
<1>2. ASSUME ClaimScrapeJob(w) PROVE TypeOK'
  <2> PICK j \in Jobs : /\ GrantLease(j)
                        /\ wBatch' = [wBatch EXCEPT ![w] = @ \ {j}]
                        /\ wPc' = [wPc EXCEPT ![w] = "running"]
                        /\ wJob' = [wJob EXCEPT ![w] = j]
                        /\ wAttempt' = [wAttempt EXCEPT ![w] = jAttempts[j] + 1]
    BY <1>2 DEF ClaimScrapeJob
  <2>1. TargetTypeOK' /\ JobTypeOK' /\ jAttempts[j] + 1 \in Attempts
    BY GrantType
  <2>2. jAttempts[j] + 1 \in 0 .. MaxAttempts
    BY <2>1, ScrapeAssumption DEF Attempts
  <2>3. WorkerTypeOK'
    BY <2>1, <2>2 DEF WorkerTypeOK
  <2> QED BY <1>2, <2>1, <2>3 DEF ClaimScrapeJob, PolicyTypeOK, ServerTypeOK
<1>3. ASSUME ClaimAnswerLost(w) PROVE TypeOK'
  <2> PICK j \in Jobs : GrantLease(j) /\ wBatch' = [wBatch EXCEPT ![w] = @ \ {j}]
    BY <1>3 DEF ClaimAnswerLost
  <2>1. TargetTypeOK' /\ JobTypeOK'
    BY GrantType
  <2>2. faults' \in 0 .. MaxFaults
    BY <1>3, LoseType DEF ServerTypeOK, ClaimAnswerLost
  <2>3. WorkerTypeOK'
    BY <1>3 DEF WorkerTypeOK, ClaimAnswerLost
  <2> QED BY <1>3, <2>1, <2>2, <2>3 DEF ClaimAnswerLost, PolicyTypeOK, ServerTypeOK
<1>4. ASSUME ClaimRejected(w) PROVE TypeOK'
  <2>1. WorkerTypeOK'
    BY <1>4 DEF ClaimRejected, WorkerTypeOK
  <2> QED BY <1>4, <2>1 DEF ClaimRejected, PolicyTypeOK, TargetTypeOK, JobTypeOK,
             ServerTypeOK
<1>5. ASSUME wPc[w] # "idle"
      PROVE  {Result(wJob[w], wAttempt[w]), Finish(wJob[w], wAttempt[w])} \subseteq Request
  BY <1>5 DEF WorkerTypeOK, Request, Result, Finish
<1>6. ASSUME PostResult(w) PROVE TypeOK'
  <2>1. WorkerTypeOK'
    BY <1>6 DEF PostResult, WorkerTypeOK
  <2>2. net' \in SUBSET Request
    BY <1>5, <1>6 DEF PostResult, ServerTypeOK
  <2> QED BY <1>6, <2>1, <2>2 DEF PostResult, PolicyTypeOK, TargetTypeOK, JobTypeOK,
             ServerTypeOK
<1>7. ASSUME ConnectorFails(w) PROVE TypeOK'
  <2>1. WorkerTypeOK'
    BY <1>7 DEF ConnectorFails, WorkerTypeOK
  <2> QED BY <1>7, <2>1 DEF ConnectorFails, PolicyTypeOK, TargetTypeOK, JobTypeOK,
             ServerTypeOK
<1>8. ASSUME ReportFailure(w) PROVE TypeOK'
  <2>1. WorkerTypeOK'
    BY <1>8 DEF ReportFailure, WorkerTypeOK
  <2>2. net' \in SUBSET Request
    BY <1>5, <1>8 DEF ReportFailure, ServerTypeOK
  <2> QED BY <1>8, <2>1, <2>2 DEF ReportFailure, PolicyTypeOK, TargetTypeOK, JobTypeOK,
             ServerTypeOK
<1>9. ASSUME ConnectionLost(w) PROVE TypeOK'
  BY <1>9, CallThrowsType DEF ConnectionLost, ServerTypeOK
<1>10. ASSUME ClientTimeout(w) PROVE TypeOK'
  BY <1>10, CallThrowsType, LoseType DEF ClientTimeout, ServerTypeOK
<1>11. ASSUME WorkerCrash(w) PROVE TypeOK'
  <2>1. 0 \in 0 .. MaxAttempts
    BY ScrapeAssumption
  <2>2. WorkerTypeOK'
    BY <1>11, <2>1 DEF WorkerCrash, Release, WorkerTypeOK
  <2>3. faults' \in 0 .. MaxFaults
    BY <1>11, LoseType DEF ServerTypeOK, WorkerCrash
  <2> QED BY <1>11, <2>2, <2>3 DEF WorkerCrash, PolicyTypeOK, TargetTypeOK, JobTypeOK,
             ServerTypeOK
<1>12. ASSUME HeartbeatScrapeJob(w) PROVE TypeOK'
  <2>1. Lease \in -1 .. Lease
    BY ScrapeAssumption
  <2>2. JobTypeOK'
    BY <1>12, <2>1 DEF HeartbeatScrapeJob, JobTypeOK
  <2> QED BY <1>12, <2>2 DEF HeartbeatScrapeJob, PolicyTypeOK, TargetTypeOK,
             ServerTypeOK, WorkerTypeOK
<1> QED BY <1>1, <1>2, <1>3, <1>4, <1>6, <1>7, <1>8, <1>9, <1>10, <1>11, <1>12
        DEF Worker, WorkerTrouble

LEMMA ServeType ==
  ASSUME TypeOK, NEW r \in net, Serve(r) \/ LoseRequest(r)
  PROVE  TypeOK'
<1> USE DEF TypeOK, policyVars, targetVars, jobVars, workerVars
<1>1. r \in Request /\ r.job \in Jobs /\ r.attempt \in Attempts
  BY DEF ServerTypeOK, Request
<1>2. net \ {r} \in SUBSET Request
  BY DEF ServerTypeOK
<1>3. ASSUME AnswerSavedRun(r) PROVE TypeOK'
  BY <1>2, <1>3, AnswerType DEF AnswerSavedRun, PolicyTypeOK, TargetTypeOK,
     JobTypeOK, ServerTypeOK
<1>4. ASSUME RefuseRequest(r) PROVE TypeOK'
  BY <1>2, <1>4, AnswerType DEF RefuseRequest, PolicyTypeOK, TargetTypeOK,
     JobTypeOK, ServerTypeOK
<1>5. ASSUME BeginResult(r) PROVE TypeOK'
  <2>1. r.attempt \in 0 .. MaxAttempts
    BY <1>1, ScrapeAssumption DEF Attempts
  <2>2. ServerTypeOK'
    BY <1>1, <1>2, <1>5, <2>1 DEF BeginResult, ServerTypeOK
  <2> QED BY <1>5, <2>2 DEF BeginResult, PolicyTypeOK, TargetTypeOK, JobTypeOK,
             WorkerTypeOK
<1>6. ASSUME FailAttempt(r) PROVE TypeOK'
  <2>1. FinishScrapeJob(r.job, "failed", NoCursor)
    BY <1>6 DEF FailAttempt
  <2>2. TargetTypeOK' /\ JobTypeOK'
    BY <1>1, <2>1, FinishType
  <2>3. WorkerTypeOK'
    BY <1>6, AnswerType DEF FailAttempt
  <2> QED BY <1>2, <1>6, <2>2, <2>3 DEF FailAttempt, PolicyTypeOK, ServerTypeOK
<1>7. ASSUME LoseRequest(r) PROVE TypeOK'
  <2>1. faults' \in 0 .. MaxFaults
    BY <1>7, LoseType DEF ServerTypeOK, LoseRequest
  <2> QED BY <1>2, <1>7, <2>1 DEF LoseRequest, PolicyTypeOK, TargetTypeOK, JobTypeOK,
             ServerTypeOK, WorkerTypeOK
<1> QED BY <1>3, <1>4, <1>5, <1>6, <1>7 DEF Serve

LEMMA ImportType == ASSUME TypeOK, NEW j \in Jobs, Import(j) PROVE TypeOK'
<1> USE DEF TypeOK, policyVars, targetVars, jobVars, workerVars
<1>1. jBefore[j] \in Cursors
  BY DEF JobTypeOK
<1>2. Feed!Page(jBefore[j]) \subseteq Feed!Rows /\ Feed!Following(jBefore[j]) \subseteq Cursors
  BY <1>1, PageType
<1>3. ASSUME EndTx(j) PROVE tx' \in [Jobs -> 0 .. MaxAttempts]
  <2>1. 0 \in 0 .. MaxAttempts
    BY ScrapeAssumption
  <2> QED BY <1>3, <2>1 DEF EndTx, ServerTypeOK
<1>4. ASSUME CommitPartialRows(j) PROVE TypeOK'
  <2>1. stored' \in [Targets -> SUBSET Feed!Rows]
    BY <1>2, <1>4 DEF CommitPartialRows, ServerTypeOK
  <2>2. WorkerTypeOK'
    BY <1>4, AnswerType DEF CommitPartialRows
  <2> QED BY <1>3, <1>4, <2>1, <2>2 DEF CommitPartialRows, PolicyTypeOK, TargetTypeOK,
             JobTypeOK, ServerTypeOK
<1>5. ASSUME CommitResult(j) PROVE TypeOK'
  <2>1. stored' \in [Targets -> SUBSET Feed!Rows]
    BY <1>2, <1>5 DEF CommitResult, ServerTypeOK
  <2>2. PICK next \in Feed!Following(jBefore[j]) : FinishScrapeJob(j, "succeeded", next)
    BY <1>5 DEF CommitResult
  <2>3. TargetTypeOK' /\ JobTypeOK'
    BY <1>2, <2>2, FinishType
  <2>4. WorkerTypeOK'
    BY <1>5, AnswerType DEF CommitResult
  <2> QED BY <1>3, <1>5, <2>1, <2>3, <2>4 DEF CommitResult, PolicyTypeOK, ServerTypeOK
<1>6. ASSUME RollbackResult(j) PROVE TypeOK'
  <2>1. WorkerTypeOK'
    BY <1>6, AnswerType DEF RollbackResult
  <2> QED BY <1>3, <1>6, <2>1 DEF RollbackResult, PolicyTypeOK, TargetTypeOK, JobTypeOK,
             ServerTypeOK
<1> QED BY <1>4, <1>5, <1>6 DEF Import

LEMMA EnvironmentType == ASSUME TypeOK, ServerRestart \/ Tick PROVE TypeOK'
<1> USE DEF TypeOK, policyVars, targetVars, jobVars, workerVars
<1>1. ASSUME ServerRestart PROVE TypeOK'
  <2>1. 0 \in 0 .. MaxAttempts
    BY ScrapeAssumption
  <2>2. faults' \in 0 .. MaxFaults
    BY <1>1, LoseType DEF ServerTypeOK, ServerRestart
  <2> QED BY <1>1, <2>1, <2>2 DEF ServerRestart, PolicyTypeOK, TargetTypeOK, JobTypeOK,
             ServerTypeOK, WorkerTypeOK
<1>2. ASSUME Tick PROVE TypeOK'
  <2>1. \A j \in Jobs : jLeft[j] \in -1 .. Lease
    BY DEF JobTypeOK
  <2>2. \A j \in Jobs : jLeft[j] > -1 => jLeft[j] - 1 \in -1 .. Lease
    BY <2>1, ScrapeAssumption
  <2>3. jLeft' \in [Jobs -> -1 .. Lease]
    BY <1>2, <2>1, <2>2 DEF Tick
  <2> QED BY <1>2, <2>3 DEF Tick, PolicyTypeOK, TargetTypeOK, JobTypeOK, ServerTypeOK,
             WorkerTypeOK
<1> QED BY <1>1, <1>2

LEMMA TypeStep == TypeOK /\ [Next]_vars => TypeOK'
<1> SUFFICES ASSUME TypeOK, [Next]_vars PROVE TypeOK'
  OBVIOUS
<1>1. CASE Admin
  BY <1>1, AdminType
<1>2. CASE \E w \in Workers : Worker(w) \/ WorkerTrouble(w) \/ HeartbeatScrapeJob(w)
  BY <1>2, WorkerType
<1>3. CASE \E r \in net : Serve(r) \/ LoseRequest(r)
  BY <1>3, ServeType
<1>4. CASE \E j \in Jobs : Import(j)
  BY <1>4, ImportType
<1>5. CASE ServerRestart \/ Tick
  BY <1>5, EnvironmentType
<1>6. CASE UNCHANGED vars
  BY <1>6 DEF vars, policyVars, targetVars, jobVars, workerVars, TypeOK, PolicyTypeOK,
     TargetTypeOK, JobTypeOK, ServerTypeOK, WorkerTypeOK
<1> QED BY <1>1, <1>2, <1>3, <1>4, <1>5, <1>6 DEF Next, Step

\* Every reachable state is well typed: in particular a failed job never leaves
\* its missing cursor in the target, and a worker past its claim always holds
\* the job and the attempt number its requests name.
THEOREM TypeCorrect == Spec => []TypeOK
BY TypeInit, TypeStep, PTL DEF Spec
-----------------------------------------------------------------------------
(* What one step does to the jobs, to the row locks and to the kept rows.   *)

jobCore == <<jTarget, jStatus, jAttempts, jBefore, run, tCursor, tStatus>>

InsertStep(t, j) ==
  \/ QueueAutomaticImportJob(t) /\ InsertJob(t, j, tCursor[t])
  \/ QueueScrapeJobInsert(t) /\ InsertJob(t, j, queueRead[t])

\* The jobs' rows, their locks and what their targets show change only when a
\* job is inserted, claimed or finished, or a result is in work.
LEMMA StepEffect ==
  ASSUME [Next]_vars
  PROVE  \/ UNCHANGED <<jobCore, tx>>
         \/ \E t \in Targets, j \in Jobs : InsertStep(t, j)
         \/ \E j \in Jobs : GrantLease(j) /\ UNCHANGED tx
         \/ \E r \in net : BeginResult(r) \/ FailAttempt(r)
         \/ \E j \in Jobs : Import(j)
         \/ ServerRestart
<1> USE DEF jobCore, policyVars, targetVars, jobVars, workerVars
<1>1. ASSUME Admin
      PROVE  UNCHANGED <<jobCore, tx>> \/ \E t \in Targets, j \in Jobs : InsertStep(t, j)
  <2>1. ASSUME NEW policy, SetAutomaticImportPolicy(policy) PROVE UNCHANGED <<jobCore, tx>>
    BY <2>1 DEF SetAutomaticImportPolicy
  <2>2. ASSUME NEW c, SetConnectionStatus(c) PROVE UNCHANGED <<jobCore, tx>>
    BY <2>2 DEF SetConnectionStatus
  <2>3. ASSUME NEW t, NEW c, CreateTarget(t, c) PROVE UNCHANGED <<jobCore, tx>>
    BY <2>3 DEF CreateTarget
  <2>4. ASSUME NEW t, DisableTarget(t) \/ QueueScrapeJobRead(t) PROVE UNCHANGED <<jobCore, tx>>
    BY <2>4 DEF DisableTarget, QueueScrapeJobRead
  <2>5. ASSUME NEW t \in Targets, QueueAutomaticImportJob(t) PROVE \E j \in Jobs : InsertStep(t, j)
    BY <2>5 DEF QueueAutomaticImportJob, InsertStep
  <2>6. ASSUME NEW t \in Targets, QueueScrapeJobInsert(t) PROVE \E j \in Jobs : InsertStep(t, j)
    BY <2>6 DEF QueueScrapeJobInsert, InsertStep
  <2> QED BY <1>1, <2>1, <2>2, <2>3, <2>4, <2>5, <2>6
          DEF Admin, CreateAutomaticImportTarget, CreateScrapeTarget
<1>2. ASSUME NEW w \in Workers, Worker(w) \/ WorkerTrouble(w) \/ HeartbeatScrapeJob(w)
      PROVE  UNCHANGED <<jobCore, tx>> \/ \E j \in Jobs : GrantLease(j) /\ UNCHANGED tx
  <2>1. ASSUME \/ QueuedJobs(w) \/ ClaimRejected(w) \/ PostResult(w) \/ ConnectorFails(w)
               \/ ReportFailure(w) \/ CallThrows(w) \/ WorkerCrash(w) \/ HeartbeatScrapeJob(w)
        PROVE  UNCHANGED <<jobCore, tx>>
    BY <2>1 DEF QueuedJobs, ClaimRejected, PostResult, ConnectorFails, ReportFailure,
                CallThrows, WorkerCrash, HeartbeatScrapeJob
  <2>2. ASSUME ClaimScrapeJob(w) \/ ClaimAnswerLost(w)
        PROVE  \E j \in Jobs : GrantLease(j) /\ UNCHANGED tx
    BY <2>2 DEF ClaimScrapeJob, ClaimAnswerLost
  <2> QED BY <1>2, <2>1, <2>2 DEF Worker, WorkerTrouble, ConnectionLost, ClientTimeout
<1>3. ASSUME NEW r \in net, Serve(r) \/ LoseRequest(r)
      PROVE  UNCHANGED <<jobCore, tx>> \/ BeginResult(r) \/ FailAttempt(r)
  BY <1>3 DEF Serve, AnswerSavedRun, RefuseRequest, LoseRequest
<1>4. ASSUME Tick PROVE UNCHANGED <<jobCore, tx>>
  BY <1>4 DEF Tick
<1>5. ASSUME UNCHANGED vars PROVE UNCHANGED <<jobCore, tx>>
  BY <1>5 DEF vars
<1> QED BY <1>1, <1>2, <1>3, <1>4, <1>5 DEF Next, Step

LEMMA JobStep == IInv /\ [Next]_vars => JobInv'
<1> SUFFICES ASSUME IInv, [Next]_vars PROVE JobInv'
  OBVIOUS
<1> USE DEF IInv, TypeOK, JobTypeOK, policyVars, targetVars, jobVars, workerVars
<1>1. CASE UNCHANGED <<jobCore, tx>>
  BY <1>1 DEF JobInv, jobCore
<1>2. ASSUME NEW t \in Targets, NEW j \in Jobs, InsertStep(t, j) PROVE JobInv'
  <2>1. /\ jTarget[j] = NoTarget
        /\ jTarget' = [jTarget EXCEPT ![j] = t]
        /\ jStatus' = [jStatus EXCEPT ![j] = "queued"]
        /\ UNCHANGED <<run, jAttempts, tx>>
    BY <1>2 DEF InsertStep, InsertJob, NextJob
  <2> QED BY <2>1, ScrapeAssumption DEF JobInv
<1>3. ASSUME NEW j \in Jobs, GrantLease(j), UNCHANGED tx PROVE JobInv'
  BY <1>3 DEF JobInv, GrantLease, Claimable
<1>4. ASSUME NEW r \in net, BeginResult(r) PROVE JobInv'
  <2>1. r.job \in Jobs
    BY DEF ServerTypeOK, Request
  <2> QED BY <1>4, <2>1 DEF BeginResult, LeaseHeld, JobInv, ServerTypeOK
<1>5. ASSUME NEW r \in net, FailAttempt(r) PROVE JobInv'
  <2>1. r.job \in Jobs
    BY DEF ServerTypeOK, Request
  <2> QED BY <1>5, <2>1 DEF FailAttempt, FinishScrapeJob, LeaseHeld, JobInv
<1>6. ASSUME NEW j \in Jobs, Import(j) PROVE JobInv'
  <2>1. CASE CommitPartialRows(j) \/ RollbackResult(j)
    BY <2>1 DEF CommitPartialRows, RollbackResult, EndTx, JobInv, ServerTypeOK
  <2>2. CASE CommitResult(j)
    BY <2>2 DEF CommitResult, FinishScrapeJob, EndTx, JobInv, ServerTypeOK
  <2> QED BY <1>6, <2>1, <2>2 DEF Import
<1>7. CASE ServerRestart
  BY <1>7 DEF ServerRestart, JobInv
<1> QED BY <1>1, <1>2, <1>3, <1>4, <1>5, <1>6, <1>7, StepEffect

\* The rows kept for a target only grow.
LEMMA RowsGrow ==
  ASSUME TypeOK, [Next]_vars, NEW t \in Targets
  PROVE  stored[t] \subseteq stored'[t]
<1> USE DEF policyVars, targetVars, jobVars, workerVars, TypeOK, ServerTypeOK
<1>1. CASE Admin
  BY <1>1 DEF Admin, SetAutomaticImportPolicy, SetConnectionStatus, CreateTarget,
     CreateAutomaticImportTarget, CreateScrapeTarget, DisableTarget, QueueScrapeJobRead,
     QueueAutomaticImportJob, QueueScrapeJobInsert, InsertJob
<1>2. ASSUME NEW w \in Workers, Worker(w) \/ WorkerTrouble(w) \/ HeartbeatScrapeJob(w)
      PROVE  UNCHANGED stored
  BY <1>2 DEF Worker, WorkerTrouble, QueuedJobs, ClaimRejected, PostResult, ConnectorFails,
     ReportFailure, ConnectionLost, ClientTimeout, CallThrows, WorkerCrash,
     HeartbeatScrapeJob, ClaimScrapeJob, ClaimAnswerLost
<1>3. ASSUME NEW r \in net, Serve(r) \/ LoseRequest(r) PROVE UNCHANGED stored
  BY <1>3 DEF Serve, AnswerSavedRun, RefuseRequest, BeginResult, FailAttempt, LoseRequest
<1>4. ASSUME NEW j \in Jobs, Import(j) PROVE stored[t] \subseteq stored'[t]
  BY <1>4 DEF Import, CommitPartialRows, CommitResult, RollbackResult
<1> QED BY <1>1, <1>2, <1>3, <1>4 DEF Next, Step, ServerRestart, Tick, vars

\* At most one active job: the queueing step looks for one under the same lock.
LEMMA OneActiveStep == IInv /\ [Next]_vars => OneActiveJobPerTarget'
<1> SUFFICES ASSUME IInv, [Next]_vars, Strict PROVE OneActiveJobPerTarget'
  BY DEF OneActiveJobPerTarget
<1> USE DEF IInv, TypeOK, JobTypeOK, OneActiveJobPerTarget, Active
<1>1. CASE UNCHANGED <<jobCore, tx>>
  BY <1>1 DEF jobCore
<1>2. ASSUME NEW t \in Targets, NEW j \in Jobs, InsertStep(t, j) PROVE OneActiveJobPerTarget'
  <2>1. ActiveJobs(t) = {}
    BY <1>2 DEF InsertStep, QueueAutomaticImportJob, QueueScrapeJobInsert, HostedInv
  <2>2. /\ jTarget' = [jTarget EXCEPT ![j] = t]
        /\ jStatus' = [jStatus EXCEPT ![j] = "queued"]
    BY <1>2 DEF InsertStep, InsertJob
  <2> QED BY <2>1, <2>2 DEF ActiveJobs
<1>3. ASSUME NEW j \in Jobs, GrantLease(j) PROVE OneActiveJobPerTarget'
  BY <1>3 DEF GrantLease, Claimable
<1>4. ASSUME NEW j \in Jobs, NEW s \in {"succeeded", "failed"}, NEW c, FinishScrapeJob(j, s, c)
      PROVE  OneActiveJobPerTarget'
  BY <1>4 DEF FinishScrapeJob
<1>5. ASSUME NEW r \in net, BeginResult(r) \/ FailAttempt(r) PROVE OneActiveJobPerTarget'
  <2>1. r.job \in Jobs
    BY DEF ServerTypeOK, Request
  <2> QED BY <1>4, <1>5, <2>1 DEF FailAttempt, BeginResult, jobVars
<1>6. ASSUME NEW j \in Jobs, Import(j) PROVE OneActiveJobPerTarget'
  BY <1>4, <1>6 DEF Import, CommitPartialRows, CommitResult, RollbackResult, jobVars
<1>7. CASE ServerRestart
  BY <1>7 DEF ServerRestart, jobVars
<1> QED BY <1>1, <1>2, <1>3, <1>5, <1>6, <1>7, StepEffect

\* A step that gives job j of target t the status s, and shows it on t, keeps every
\* target's status right when t has no other active job.
LEMMA StatusUpdate ==
  ASSUME TargetTypeOK, JobTypeOK, JobInv, TargetStatusTracksJobs, Strict,
         NEW t \in Targets, NEW j \in Jobs, NEW shown,
         NEW s \in {"queued", "leased", "succeeded", "failed"},
         s = "leased" => shown = "running", s # "leased" => shown = s,
         \A k \in Jobs : k # j /\ Active(k) => jTarget[k] # t,
         jTarget[j] \in {t, NoTarget},
         jTarget' = [jTarget EXCEPT ![j] = t],
         jStatus' = [jStatus EXCEPT ![j] = s],
         tStatus' = [tStatus EXCEPT ![t] = shown]
  PROVE  TargetStatusTracksJobs'
<1>1. /\ jTarget'[j] = t /\ jStatus'[j] = s /\ tStatus'[t] = shown
      /\ \A k \in Jobs : k # j => jTarget'[k] = jTarget[k] /\ jStatus'[k] = jStatus[k]
      /\ \A u \in Targets : u # t => tStatus'[u] = tStatus[u]
  BY DEF TargetTypeOK, JobTypeOK
<1>2. \A k \in Jobs : Active(k) => jTarget[k] \in Targets
  BY DEF JobInv, JobTypeOK, Active
<1>3. ASSUME NEW k \in Jobs
      PROVE  /\ jStatus'[k] = "queued" => tStatus'[jTarget'[k]] = "queued"
             /\ jStatus'[k] = "leased" => tStatus'[jTarget'[k]] = "running"
  <2>1. CASE k = j
    BY <1>1, <2>1
  <2>2. CASE k # j
    <3>1. Active(k) => jTarget[k] \in Targets /\ jTarget[k] # t
      BY <1>2, <2>2
    <3> QED BY <1>1, <2>2, <3>1 DEF Active, TargetStatusTracksJobs
  <2> QED BY <2>1, <2>2
<1>4. ASSUME NEW u \in Targets, tStatus'[u] \in {"queued", "running"}
      PROVE  \E k \in Jobs : jTarget'[k] = u /\ jStatus'[k] \in {"queued", "leased"}
  <2>1. CASE u = t
    BY <1>1, <1>4, <2>1
  <2>2. CASE u # t
    <3>1. PICK k \in Jobs : jTarget[k] = u /\ Active(k)
      BY <1>1, <1>4, <2>2 DEF TargetStatusTracksJobs, ActiveJobs
    <3>2. k # j
      BY <2>2, <3>1, ScrapeAssumption
    <3> QED BY <1>1, <3>1, <3>2 DEF Active
  <2> QED BY <2>1, <2>2
<1> QED BY <1>3, <1>4 DEF TargetStatusTracksJobs, ActiveJobs, Active

\* Only an active job of its target can be claimed or finished.
LEMMA OnlyActiveJob ==
  ASSUME JobTypeOK, JobInv, OneActiveJobPerTarget, Strict, NEW j \in Jobs, Active(j)
  PROVE  /\ jTarget[j] \in Targets
         /\ \A k \in Jobs : k # j /\ Active(k) => jTarget[k] # jTarget[j]
<1>1. jTarget[j] \in Targets
  BY DEF JobInv, JobTypeOK, Active
<1> QED BY <1>1 DEF OneActiveJobPerTarget

\* The job whose result is in work, or whose failure is accepted, is active.
LEMMA FinishedWasActive ==
  ASSUME IInv
  PROVE  /\ \A r \in net : FailAttempt(r) => r.job \in Jobs /\ Active(r.job)
         /\ \A j \in Jobs : CommitResult(j) => Active(j)
<1>1. ASSUME NEW r \in net, FailAttempt(r) PROVE r.job \in Jobs /\ Active(r.job)
  BY <1>1 DEF IInv, TypeOK, ServerTypeOK, Request, FailAttempt, LeaseHeld, Active
<1>2. ASSUME NEW j \in Jobs, CommitResult(j) PROVE Active(j)
  BY <1>2 DEF IInv, JobInv, CommitResult, Active
<1> QED BY <1>1, <1>2

\* Finishing an active job is seen as one of these two steps.
LEMMA FinishEffect ==
  ASSUME IInv
  PROVE  /\ \A r \in net : FailAttempt(r) =>
              \E j \in Jobs : Active(j) /\ FinishScrapeJob(j, "failed", NoCursor)
         /\ \A j \in Jobs : CommitResult(j) =>
              Active(j) /\ \E c \in Cursors : FinishScrapeJob(j, "succeeded", c)
<1>1. ASSUME NEW r \in net, FailAttempt(r)
      PROVE  \E j \in Jobs : Active(j) /\ FinishScrapeJob(j, "failed", NoCursor)
  BY <1>1, FinishedWasActive DEF FailAttempt
<1>2. ASSUME NEW j \in Jobs, CommitResult(j)
      PROVE  Active(j) /\ \E c \in Cursors : FinishScrapeJob(j, "succeeded", c)
  <2>1. Feed!Following(jBefore[j]) \subseteq Cursors
    BY PageType DEF IInv, TypeOK, JobTypeOK
  <2>2. \E c \in Feed!Following(jBefore[j]) : FinishScrapeJob(j, "succeeded", c)
    BY <1>2 DEF CommitResult
  <2> QED BY <1>2, <2>1, <2>2, FinishedWasActive
<1> QED BY <1>1, <1>2

\* The status shown for a target follows its one active job.
LEMMA TargetStatusStep == IInv /\ [Next]_vars => TargetStatusTracksJobs'
<1> SUFFICES ASSUME IInv, [Next]_vars, Strict PROVE TargetStatusTracksJobs'
  BY DEF TargetStatusTracksJobs
<1>0. /\ TargetTypeOK /\ JobTypeOK /\ JobInv /\ OneActiveJobPerTarget
      /\ TargetStatusTracksJobs /\ HostedInv
  BY DEF IInv, TypeOK
<1>1. CASE UNCHANGED jobCore
  BY <1>0, <1>1 DEF jobCore, TargetStatusTracksJobs, ActiveJobs, Active
<1>2. ASSUME NEW t \in Targets, NEW j \in Jobs, InsertStep(t, j) PROVE TargetStatusTracksJobs'
  <2>1. ActiveJobs(t) = {}
    BY <1>0, <1>2 DEF InsertStep, QueueAutomaticImportJob, QueueScrapeJobInsert, HostedInv
  <2>2. /\ jTarget[j] = NoTarget
        /\ jTarget' = [jTarget EXCEPT ![j] = t]
        /\ jStatus' = [jStatus EXCEPT ![j] = "queued"]
        /\ tStatus' = [tStatus EXCEPT ![t] = "queued"]
    BY <1>2 DEF InsertStep, InsertJob, NextJob
  <2>3. \A k \in Jobs : k # j /\ Active(k) => jTarget[k] # t
    BY <2>1 DEF ActiveJobs
  <2> QED BY <1>0, <2>2, <2>3, StatusUpdate
<1>3. ASSUME NEW j \in Jobs, NEW s \in {"leased", "succeeded", "failed"}, NEW shown,
             s = "leased" => shown = "running", s # "leased" => shown = s,
             Active(j), jTarget' = jTarget, jStatus' = [jStatus EXCEPT ![j] = s],
             tStatus' = [tStatus EXCEPT ![jTarget[j]] = shown]
      PROVE  TargetStatusTracksJobs'
  <2>1. jTarget' = [jTarget EXCEPT ![j] = jTarget[j]]
    BY <1>0, <1>3 DEF JobTypeOK
  <2>2. jTarget[j] \in Targets /\ \A k \in Jobs : k # j /\ Active(k) => jTarget[k] # jTarget[j]
    BY <1>0, <1>3, OnlyActiveJob
  <2>3. s \in {"queued", "leased", "succeeded", "failed"} /\ jTarget[j] \in {jTarget[j], NoTarget}
    OBVIOUS
  <2>4. PICK t \in Targets : t = jTarget[j]
    BY <2>2
  <2>5. /\ \A k \in Jobs : k # j /\ Active(k) => jTarget[k] # t
        /\ jTarget[j] \in {t, NoTarget}
        /\ jTarget' = [jTarget EXCEPT ![j] = t]
        /\ tStatus' = [tStatus EXCEPT ![t] = shown]
    BY <1>3, <2>1, <2>2, <2>4
  <2> QED BY <1>0, <1>3, <2>3, <2>5, StatusUpdate
<1>4. ASSUME NEW j \in Jobs, GrantLease(j) PROVE TargetStatusTracksJobs'
  <2>1. Active(j) /\ jTarget' = jTarget
    BY <1>4 DEF GrantLease, Claimable, Active
  <2>2. PICK s \in {"leased", "succeeded", "failed"}, shown \in {"running"} : s = "leased"
    OBVIOUS
  <2>3. jStatus' = [jStatus EXCEPT ![j] = s] /\ tStatus' = [tStatus EXCEPT ![jTarget[j]] = shown]
    BY <1>4, <2>2 DEF GrantLease
  <2>4. (s = "leased" => shown = "running") /\ (s # "leased" => shown = s)
    BY <2>2
  <2> QED BY <1>3, <2>1, <2>3, <2>4
<1>8. ASSUME NEW j \in Jobs, NEW s \in {"succeeded", "failed"}, NEW c, Active(j),
             FinishScrapeJob(j, s, c)
      PROVE  TargetStatusTracksJobs'
  <2>1. /\ jTarget' = jTarget
        /\ jStatus' = [jStatus EXCEPT ![j] = s]
        /\ tStatus' = [tStatus EXCEPT ![jTarget[j]] = s]
    BY <1>8 DEF FinishScrapeJob
  <2> QED BY <1>3, <1>8, <2>1
<1>5. ASSUME NEW r \in net, BeginResult(r) \/ FailAttempt(r) PROVE TargetStatusTracksJobs'
  <2>1. CASE BeginResult(r)
    BY <1>1, <2>1 DEF BeginResult, jobVars, targetVars, jobCore
  <2>2. CASE FailAttempt(r)
    BY <1>8, <2>2, FinishEffect
  <2> QED BY <1>5, <2>1, <2>2
<1>6. ASSUME NEW j \in Jobs, Import(j) PROVE TargetStatusTracksJobs'
  <2>1. CASE CommitPartialRows(j) \/ RollbackResult(j)
    BY <1>1, <2>1 DEF CommitPartialRows, RollbackResult, jobVars, targetVars, jobCore
  <2>2. CASE CommitResult(j)
    BY <1>8, <2>2, FinishEffect
  <2> QED BY <1>6, <2>1, <2>2 DEF Import
<1>7. CASE ServerRestart
  BY <1>1, <1>7 DEF ServerRestart, jobVars, targetVars, jobCore
<1> QED BY <1>1, <1>2, <1>4, <1>5, <1>6, <1>7, StepEffect DEF jobCore

\* Only a legacy queue request reads a cursor ahead of its insert.
LEMMA QueueReadEffect ==
  ASSUME [Next]_vars
  PROVE  \/ UNCHANGED queueRead
         \/ \E t \in Targets : QueueScrapeJobRead(t)
         \/ \E t \in Targets : QueueScrapeJobInsert(t)
         \/ queueRead' = [t \in Targets |-> NoCursor]
<1> USE DEF policyVars, targetVars, jobVars, workerVars
<1>1. ASSUME Admin
      PROVE  \/ UNCHANGED queueRead
             \/ \E t \in Targets : QueueScrapeJobRead(t) \/ QueueScrapeJobInsert(t)
  BY <1>1 DEF Admin, SetAutomaticImportPolicy, SetConnectionStatus, CreateTarget,
     CreateAutomaticImportTarget, CreateScrapeTarget, DisableTarget,
     QueueAutomaticImportJob
<1>2. ASSUME NEW w \in Workers, Worker(w) \/ WorkerTrouble(w) \/ HeartbeatScrapeJob(w)
      PROVE  UNCHANGED queueRead
  BY <1>2 DEF Worker, WorkerTrouble, QueuedJobs, ClaimRejected, PostResult, ConnectorFails,
     ReportFailure, ConnectionLost, ClientTimeout, CallThrows, WorkerCrash,
     HeartbeatScrapeJob, ClaimScrapeJob, ClaimAnswerLost
<1>3. ASSUME NEW r \in net, Serve(r) \/ LoseRequest(r) PROVE UNCHANGED queueRead
  BY <1>3 DEF Serve, AnswerSavedRun, RefuseRequest, BeginResult, FailAttempt, LoseRequest
<1>4. ASSUME NEW j \in Jobs, Import(j) PROVE UNCHANGED queueRead
  BY <1>4 DEF Import, CommitPartialRows, CommitResult, RollbackResult
<1> QED BY <1>1, <1>2, <1>3, <1>4 DEF Next, Step, ServerRestart, Tick, vars

AtCursor == \A j \in Jobs : Active(j) => jBefore[j] = tCursor[jTarget[j]]

\* In hosted mode the cursor of a target moves only when its active job ends.
LEMMA HostedStep == IInv /\ [Next]_vars => HostedInv'
<1> SUFFICES ASSUME IInv, [Next]_vars, Strict PROVE HostedInv'
  BY DEF HostedInv
<1>0. /\ \A r \in net : FailAttempt(r) =>
           \E j \in Jobs : Active(j) /\ FinishScrapeJob(j, "failed", NoCursor)
      /\ \A j \in Jobs : CommitResult(j) =>
           Active(j) /\ \E c \in Cursors : FinishScrapeJob(j, "succeeded", c)
  BY FinishEffect
<1>t. TargetTypeOK /\ JobTypeOK /\ ServerTypeOK /\ JobInv /\ OneActiveJobPerTarget /\ HostedInv
  BY DEF IInv, TypeOK
<1>1. \A t \in Targets : queueRead'[t] = NoCursor
  <2>1. \A t \in Targets : ~QueueScrapeJobRead(t) /\ ~QueueScrapeJobInsert(t)
    BY <1>t DEF QueueScrapeJobRead, QueueScrapeJobInsert, HostedInv
  <2> QED BY <1>t, <2>1, QueueReadEffect DEF HostedInv
<1>2. AtCursor
  BY <1>t DEF HostedInv, AtCursor
<1>3. AtCursor'
  <2>1. CASE UNCHANGED jobCore
    BY <1>2, <2>1 DEF jobCore, AtCursor, Active
  <2>2. ASSUME NEW t \in Targets, NEW j \in Jobs, InsertStep(t, j) PROVE AtCursor'
    <3>1. InsertJob(t, j, tCursor[t])
      BY <1>t, <2>2 DEF InsertStep, QueueScrapeJobInsert, HostedInv
    <3> QED BY <1>2, <1>t, <3>1 DEF InsertJob, AtCursor, Active, JobTypeOK, TargetTypeOK
  <2>3. ASSUME NEW j \in Jobs, GrantLease(j) PROVE AtCursor'
    BY <1>2, <1>t, <2>3 DEF GrantLease, Claimable, AtCursor, Active, JobTypeOK
  <2>4. ASSUME NEW j \in Jobs, NEW s \in {"succeeded", "failed"}, NEW c, Active(j),
               FinishScrapeJob(j, s, c)
        PROVE  AtCursor'
    <3>1. \A k \in Jobs : k # j /\ Active(k) => jTarget[k] # jTarget[j] /\ jTarget[k] \in Targets
      BY <1>t, <2>4, OnlyActiveJob
    <3>2. \A k \in Jobs : Active(k)' => k # j /\ Active(k)
      BY <1>t, <2>4 DEF FinishScrapeJob, Active, JobTypeOK, TargetTypeOK
    <3>3. /\ jTarget' = jTarget /\ jBefore' = jBefore
          /\ \A u \in Targets : u # jTarget[j] => tCursor'[u] = tCursor[u]
      BY <1>t, <2>4 DEF FinishScrapeJob, Active, JobTypeOK, TargetTypeOK
    <3> QED BY <1>2, <3>1, <3>2, <3>3 DEF AtCursor
  <2>5. ASSUME NEW r \in net, BeginResult(r) \/ FailAttempt(r) PROVE AtCursor'
    <3>2. CASE BeginResult(r)
      BY <2>1, <3>2 DEF BeginResult, jobVars, targetVars, jobCore
    <3>3. CASE FailAttempt(r)
      BY <1>0, <2>4, <3>3
    <3> QED BY <2>5, <3>2, <3>3
  <2>6. ASSUME NEW j \in Jobs, Import(j) PROVE AtCursor'
    <3>1. CASE CommitPartialRows(j) \/ RollbackResult(j)
      BY <2>1, <3>1 DEF CommitPartialRows, RollbackResult, jobVars, targetVars, jobCore
    <3>2. CASE CommitResult(j)
      BY <1>0, <2>4, <3>2
    <3> QED BY <2>6, <3>1, <3>2 DEF Import
  <2>7. CASE ServerRestart
    BY <2>1, <2>7 DEF ServerRestart, jobVars, targetVars, jobCore
  <2> QED BY <2>1, <2>2, <2>3, <2>5, <2>6, <2>7, StepEffect DEF jobCore
<1> QED BY <1>1, <1>3 DEF HostedInv, AtCursor
-----------------------------------------------------------------------------
(* What one step does to the claims: attempts, workers, requests, row locks. *)

\* Attempt numbers never shrink.
LEMMA AttemptsGrow ==
  ASSUME TypeOK, [Next]_vars, NEW j \in Jobs
  PROVE  jAttempts[j] \in Nat /\ jAttempts'[j] \in Nat /\ jAttempts[j] <= jAttempts'[j]
<1>1. JobTypeOK /\ JobTypeOK'
  BY TypeStep DEF TypeOK
<1>2. jAttempts[j] \in Nat /\ jAttempts'[j] \in Nat
  <2>1. jAttempts[j] \in 0 .. MaxAttempts /\ jAttempts'[j] \in 0 .. MaxAttempts
    BY <1>1 DEF JobTypeOK
  <2> QED BY <2>1, ScrapeAssumption
<1>3. CASE \E k \in Jobs : GrantLease(k)
  <2>1. PICK k \in Jobs : GrantLease(k)
    BY <1>3
  <2>2. jAttempts'[j] = jAttempts[j] \/ jAttempts'[j] = jAttempts[j] + 1
    BY <1>1, <2>1 DEF GrantLease, JobTypeOK
  <2> QED BY <1>2, <2>2
<1>4. CASE ~ \E k \in Jobs : GrantLease(k)
  <2>1. UNCHANGED jAttempts
    BY <1>4, StepEffect DEF jobCore, InsertStep, InsertJob, BeginResult, FailAttempt, Import,
       CommitPartialRows, CommitResult, RollbackResult, ServerRestart, FinishScrapeJob, jobVars
  <2> QED BY <1>2, <2>1
<1> QED BY <1>2, <1>3, <1>4

\* Worker v is idle after the step, or goes on with the claim it had.
KeepsClaim(v) ==
  \/ wPc'[v] = "idle"
  \/ /\ wPc[v] # "idle" /\ wJob'[v] = wJob[v] /\ wAttempt'[v] = wAttempt[v]
     /\ wPc'[v] = "running" => wPc[v] = "running"

\* Answers, calls that throw and crashes give no worker a new claim.
LEMMA AnswerKeeps ==
  ASSUME WorkerTypeOK, NEW r, NEW accepted \in BOOLEAN, Answer(r, accepted), NEW v \in Workers
  PROVE  KeepsClaim(v)
BY DEF WorkerTypeOK, Answer, Waits, KeepsClaim

LEMMA ClaimEffect ==
  ASSUME TypeOK, [Next]_vars
  PROVE  (\A v \in Workers : KeepsClaim(v)) \/ \E w \in Workers : ClaimScrapeJob(w)
<1>0. WorkerTypeOK
  BY DEF TypeOK
<1>1. ASSUME UNCHANGED <<wPc, wJob, wAttempt>> PROVE \A v \in Workers : KeepsClaim(v)
  BY <1>1 DEF KeepsClaim
<1> USE DEF policyVars, targetVars, jobVars, workerVars
<1>2. CASE Admin
  BY <1>1, <1>2 DEF Admin, SetAutomaticImportPolicy, SetConnectionStatus, CreateTarget,
     CreateAutomaticImportTarget, CreateScrapeTarget, DisableTarget, QueueScrapeJobRead,
     QueueAutomaticImportJob, QueueScrapeJobInsert, InsertJob
<1>3. ASSUME NEW w \in Workers, Worker(w) \/ WorkerTrouble(w) \/ HeartbeatScrapeJob(w)
      PROVE  (\A v \in Workers : KeepsClaim(v)) \/ ClaimScrapeJob(w)
  <2>1. CASE QueuedJobs(w) \/ ClaimRejected(w) \/ ClaimAnswerLost(w) \/ HeartbeatScrapeJob(w)
    BY <1>1, <2>1 DEF QueuedJobs, ClaimRejected, ClaimAnswerLost, HeartbeatScrapeJob
  <2>2. CASE PostResult(w) \/ ConnectorFails(w) \/ ReportFailure(w)
    BY <1>0, <2>2 DEF PostResult, ConnectorFails, ReportFailure, KeepsClaim, WorkerTypeOK
  <2>3. CASE CallThrows(w) \/ WorkerCrash(w)
    BY <1>0, <2>3 DEF CallThrows, WorkerCrash, Release, KeepsClaim, WorkerTypeOK
  <2> QED BY <1>3, <2>1, <2>2, <2>3 DEF Worker, WorkerTrouble, ConnectionLost, ClientTimeout
<1>4. ASSUME NEW r \in net, Serve(r) \/ LoseRequest(r) PROVE \A v \in Workers : KeepsClaim(v)
  BY <1>0, <1>1, <1>4, AnswerKeeps
     DEF Serve, AnswerSavedRun, RefuseRequest, BeginResult, FailAttempt, LoseRequest
<1>5. ASSUME NEW j \in Jobs, Import(j) PROVE \A v \in Workers : KeepsClaim(v)
  BY <1>0, <1>5, AnswerKeeps DEF Import, CommitPartialRows, CommitResult, RollbackResult
<1>6. CASE ServerRestart \/ Tick \/ UNCHANGED vars
  BY <1>1, <1>6 DEF ServerRestart, Tick, vars
<1> QED BY <1>2, <1>3, <1>4, <1>5, <1>6 DEF Next, Step

\* Only a worker that posts or reports adds a request.
LEMMA NetEffect ==
  ASSUME [Next]_vars
  PROVE  net' \subseteq net \/ \E w \in Workers : PostResult(w) \/ ReportFailure(w)
<1> USE DEF policyVars, targetVars, jobVars, workerVars
<1>1. CASE Admin
  BY <1>1 DEF Admin, SetAutomaticImportPolicy, SetConnectionStatus, CreateTarget,
     CreateAutomaticImportTarget, CreateScrapeTarget, DisableTarget, QueueScrapeJobRead,
     QueueAutomaticImportJob, QueueScrapeJobInsert, InsertJob
<1>2. ASSUME NEW w \in Workers, Worker(w) \/ WorkerTrouble(w) \/ HeartbeatScrapeJob(w)
      PROVE  UNCHANGED net \/ PostResult(w) \/ ReportFailure(w)
  BY <1>2 DEF Worker, WorkerTrouble, QueuedJobs, ClaimRejected, ConnectorFails,
     ConnectionLost, ClientTimeout, CallThrows, WorkerCrash, HeartbeatScrapeJob,
     ClaimScrapeJob, ClaimAnswerLost
<1>3. ASSUME NEW r \in net, Serve(r) \/ LoseRequest(r) PROVE net' \subseteq net
  BY <1>3 DEF Serve, AnswerSavedRun, RefuseRequest, BeginResult, FailAttempt, LoseRequest
<1>4. ASSUME NEW j \in Jobs, Import(j) PROVE UNCHANGED net
  BY <1>4 DEF Import, CommitPartialRows, CommitResult, RollbackResult
<1>5. CASE ServerRestart \/ Tick \/ UNCHANGED vars
  BY <1>5 DEF ServerRestart, Tick, vars
<1> QED BY <1>1, <1>2, <1>3, <1>4, <1>5 DEF Next, Step

\* A row lock is taken only by a request that was on its way.
LEMMA TxEffect ==
  ASSUME TypeOK, [Next]_vars, NEW j \in Jobs
  PROVE  \/ tx'[j] = tx[j] \/ tx'[j] = 0
         \/ \E r \in net : BeginResult(r) /\ r.job = j /\ tx'[j] = r.attempt
<1>1. tx \in [Jobs -> 0 .. MaxAttempts]
  BY DEF TypeOK, ServerTypeOK
<1>2. ASSUME NEW r \in net, BeginResult(r)
      PROVE  tx'[j] = tx[j] \/ (r.job = j /\ tx'[j] = r.attempt)
  BY <1>1, <1>2 DEF BeginResult
<1>3. ASSUME NEW k \in Jobs, Import(k) PROVE tx'[j] = tx[j] \/ tx'[j] = 0
  BY <1>1, <1>3 DEF Import, CommitPartialRows, CommitResult, RollbackResult, EndTx
<1> QED BY <1>2, <1>3, StepEffect DEF jobCore, InsertStep, InsertJob, FailAttempt, ServerRestart

LEMMA ClaimStep == IInv /\ [Next]_vars => ClaimInv'
<1> SUFFICES ASSUME IInv, [Next]_vars PROVE ClaimInv'
  OBVIOUS
<1>0. TypeOK /\ ServerTypeOK /\ WorkerTypeOK /\ JobTypeOK /\ ClaimInv
  BY DEF IInv, TypeOK
<1>t. ServerTypeOK' /\ WorkerTypeOK'
  BY <1>0, TypeStep DEF TypeOK
<1>1. \A j \in Jobs : jAttempts[j] \in Nat /\ jAttempts'[j] \in Nat /\ jAttempts[j] <= jAttempts'[j]
  BY <1>0, AttemptsGrow
<1>2. ASSUME NEW r \in net' PROVE r.attempt <= jAttempts'[r.job]
  <2>1. r.job \in Jobs /\ r.attempt \in Nat
    BY <1>t DEF ServerTypeOK, Request, Attempts
  <2>2. r.attempt <= jAttempts[r.job]
    <3>1. CASE r \in net
      BY <1>0, <3>1 DEF ClaimInv
    <3>2. ASSUME NEW w \in Workers, PostResult(w) \/ ReportFailure(w), r \notin net
          PROVE  r.attempt <= jAttempts[r.job]
      <4>1. wPc[w] # "idle" /\ r.job = wJob[w] /\ r.attempt = wAttempt[w]
        BY <3>2 DEF PostResult, ReportFailure, Result, Finish
      <4> QED BY <1>0, <4>1 DEF ClaimInv
    <3> QED BY <3>1, <3>2, NetEffect
  <2> QED BY <1>1, <2>1, <2>2
<1>3. ASSUME NEW w \in Workers, wPc'[w] # "idle"
      PROVE  wAttempt'[w] \in Nat /\ wJob'[w] \in Jobs
  BY <1>t, <1>3 DEF WorkerTypeOK, Attempts
<1>4. CASE \A v \in Workers : KeepsClaim(v)
  <2>1. ASSUME NEW w \in Workers, wPc'[w] # "idle" PROVE wAttempt'[w] <= jAttempts'[wJob'[w]]
    <3>1. wPc[w] # "idle" /\ wJob'[w] = wJob[w] /\ wAttempt'[w] = wAttempt[w]
      BY <1>4, <2>1 DEF KeepsClaim
    <3>2. wAttempt[w] <= jAttempts[wJob[w]]
      BY <1>0, <3>1 DEF ClaimInv
    <3> QED BY <1>1, <1>3, <2>1, <3>1, <3>2
  <2>2. ASSUME NEW w \in Workers, NEW v \in Workers, wPc'[w] # "idle", wPc'[v] # "idle",
               wJob'[w] = wJob'[v], wAttempt'[w] = wAttempt'[v]
        PROVE  w = v
    BY <1>0, <1>4, <2>2 DEF KeepsClaim, ClaimInv
  <2> QED BY <1>2, <2>1, <2>2 DEF ClaimInv
<1>5. ASSUME NEW c \in Workers, ClaimScrapeJob(c) PROVE ClaimInv'
  <2> PICK j \in Jobs : /\ GrantLease(j)
                        /\ wPc' = [wPc EXCEPT ![c] = "running"]
                        /\ wJob' = [wJob EXCEPT ![c] = j]
                        /\ wAttempt' = [wAttempt EXCEPT ![c] = jAttempts[j] + 1]
    BY <1>5 DEF ClaimScrapeJob
  <2>1. /\ wJob'[c] = j /\ wAttempt'[c] = jAttempts[j] + 1
        /\ jAttempts'[j] = jAttempts[j] + 1
        /\ \A w \in Workers : w # c => /\ wPc'[w] = wPc[w] /\ wJob'[w] = wJob[w]
                                       /\ wAttempt'[w] = wAttempt[w]
    BY <1>0 DEF GrantLease, WorkerTypeOK, JobTypeOK
  <2>2. ASSUME NEW w \in Workers, w # c, wPc'[w] # "idle"
        PROVE  wAttempt'[w] <= jAttempts[wJob'[w]]
    BY <1>0, <2>1, <2>2 DEF ClaimInv
  <2>3. ASSUME NEW w \in Workers, wPc'[w] # "idle" PROVE wAttempt'[w] <= jAttempts'[wJob'[w]]
    BY <1>1, <1>3, <2>1, <2>2, <2>3
  <2>4. ASSUME NEW w \in Workers, w # c, wPc'[w] # "idle", wJob'[w] = j
        PROVE  wAttempt'[w] # jAttempts[j] + 1
    BY <1>1, <1>3, <2>2, <2>4
  <2>5. ASSUME NEW w \in Workers, NEW v \in Workers, wPc'[w] # "idle", wPc'[v] # "idle",
               wJob'[w] = wJob'[v], wAttempt'[w] = wAttempt'[v]
        PROVE  w = v
    BY <1>0, <2>1, <2>4, <2>5 DEF ClaimInv
  <2> QED BY <1>2, <2>3, <2>5 DEF ClaimInv
<1> QED BY <1>0, <1>4, <1>5, ClaimEffect

LEMMA SilentStep == IInv /\ [Next]_vars => SilentInv'
<1> SUFFICES ASSUME IInv, [Next]_vars, NEW w \in Workers, wPc'[w] = "running"
             PROVE  /\ \A r \in net' : ~(r.job = wJob'[w] /\ r.attempt = wAttempt'[w])
                    /\ tx'[wJob'[w]] # wAttempt'[w]
  BY DEF SilentInv
<1>0. TypeOK /\ ServerTypeOK /\ WorkerTypeOK /\ JobTypeOK /\ ClaimInv /\ SilentInv
  BY DEF IInv, TypeOK
<1>1. wJob'[w] \in Jobs /\ wAttempt'[w] \in Attempts /\ wAttempt'[w] # 0
  BY <1>0, TypeStep DEF TypeOK, WorkerTypeOK, Attempts
<1>2. CASE KeepsClaim(w)
  <2>1. wPc[w] = "running" /\ wJob'[w] = wJob[w] /\ wAttempt'[w] = wAttempt[w]
    BY <1>2 DEF KeepsClaim
  <2>2. /\ \A r \in net : ~(r.job = wJob[w] /\ r.attempt = wAttempt[w])
        /\ tx[wJob[w]] # wAttempt[w]
    BY <1>0, <2>1 DEF SilentInv
  <2>3. ASSUME NEW v \in Workers, PostResult(v) \/ ReportFailure(v), NEW r \in net', r \notin net
        PROVE  ~(r.job = wJob[w] /\ r.attempt = wAttempt[w])
    <3>1. wPc[v] # "idle" /\ wPc'[v] # "running" /\ r.job = wJob[v] /\ r.attempt = wAttempt[v]
      BY <1>0, <2>3 DEF PostResult, ReportFailure, Result, Finish, WorkerTypeOK
    <3>2. v # w
      BY <3>1
    <3> QED BY <1>0, <2>1, <3>1, <3>2 DEF ClaimInv
  <2>4. \A r \in net' : ~(r.job = wJob[w] /\ r.attempt = wAttempt[w])
    BY <2>2, <2>3, NetEffect
  <2>5. tx'[wJob[w]] # wAttempt[w]
    BY <1>0, <1>1, <2>1, <2>2, TxEffect
  <2> QED BY <2>1, <2>4, <2>5
<1>3. ASSUME NEW c \in Workers, ClaimScrapeJob(c), ~KeepsClaim(w)
      PROVE  /\ \A r \in net' : ~(r.job = wJob'[w] /\ r.attempt = wAttempt'[w])
             /\ tx'[wJob'[w]] # wAttempt'[w]
  <2> PICK j \in Jobs : /\ GrantLease(j)
                        /\ wPc' = [wPc EXCEPT ![c] = "running"]
                        /\ wJob' = [wJob EXCEPT ![c] = j]
                        /\ wAttempt' = [wAttempt EXCEPT ![c] = jAttempts[j] + 1]
    BY <1>3 DEF ClaimScrapeJob
  <2>1. c = w
    BY <1>0, <1>3 DEF KeepsClaim, WorkerTypeOK
  <2>2. wJob'[w] = j /\ wAttempt'[w] = jAttempts[j] + 1
    BY <1>0, <2>1 DEF WorkerTypeOK
  <2>3. net' = net /\ tx' = tx /\ tx[j] = 0
    BY <1>3 DEF ClaimScrapeJob, GrantLease
  <2>4. \A r \in net : r.attempt \in Nat /\ r.attempt <= jAttempts[r.job]
    BY <1>0 DEF ClaimInv, ServerTypeOK, Request, Attempts
  <2>5. jAttempts[j] \in Nat
    BY <1>0, AttemptsGrow
  <2>6. \A r \in net : r.job = j => r.attempt # jAttempts[j] + 1
    BY <2>4, <2>5
  <2> QED BY <1>1, <2>2, <2>3, <2>6
<1> QED BY <1>0, <1>2, <1>3, ClaimEffect
-----------------------------------------------------------------------------
(* Pages, cursors and rows.                                                 *)

\* A page once kept stays kept.
LEMMA PagesStay ==
  ASSUME TypeOK, [Next]_vars, NEW t \in Targets, NEW c, PagesKept(t, c)
  PROVE  PagesKept(t, c)'
BY RowsGrow DEF PagesKept

\* The cursor of a target moves only when one of its jobs is completed.
LEMMA CursorEffect ==
  ASSUME TypeOK, [Next]_vars, NEW t \in Targets
  PROVE  \/ tCursor'[t] = tCursor[t]
         \/ \E j \in Jobs : CommitResult(j) /\ jTarget[j] = t
<1>1. TargetTypeOK
  BY DEF TypeOK
<1>2. ASSUME NEW j \in Jobs, CommitResult(j), jTarget[j] # t PROVE tCursor'[t] = tCursor[t]
  BY <1>1, <1>2 DEF CommitResult, FinishScrapeJob, TargetTypeOK
<1>3. ASSUME NEW j \in Jobs, FinishScrapeJob(j, "failed", NoCursor)
      PROVE  tCursor'[t] = tCursor[t]
  BY <1>1, <1>3 DEF FinishScrapeJob, TargetTypeOK
<1>4. ASSUME NEW r \in net, FailAttempt(r) PROVE tCursor'[t] = tCursor[t]
  <2>1. r.job \in Jobs
    BY DEF TypeOK, ServerTypeOK, Request
  <2> QED BY <1>3, <1>4, <2>1 DEF FailAttempt
<1> QED BY <1>2, <1>4, StepEffect DEF jobCore, InsertStep, InsertJob, GrantLease, BeginResult,
        Import, CommitPartialRows, RollbackResult, ServerRestart, targetVars

\* The cursor a job starts from is written once, when the job is inserted.
LEMMA BeforeEffect ==
  ASSUME TypeOK, [Next]_vars, NEW j \in Jobs
  PROVE  \/ jTarget'[j] = jTarget[j] /\ jBefore'[j] = jBefore[j]
         \/ \E t \in Targets : InsertStep(t, j)
<1>1. JobTypeOK
  BY DEF TypeOK
<1>2. ASSUME NEW t \in Targets, NEW k \in Jobs, InsertStep(t, k), k # j
      PROVE  jTarget'[j] = jTarget[j] /\ jBefore'[j] = jBefore[j]
  BY <1>1, <1>2 DEF InsertStep, InsertJob, JobTypeOK
<1>3. ASSUME NEW k \in Jobs, Import(k) PROVE UNCHANGED <<jTarget, jBefore>>
  BY <1>3 DEF Import, CommitPartialRows, CommitResult, RollbackResult, FinishScrapeJob, jobVars
<1> QED BY <1>2, <1>3, StepEffect DEF jobCore, GrantLease, BeginResult, FailAttempt,
        FinishScrapeJob, ServerRestart, jobVars

\* Every cursor that will still be used keeps all its earlier pages.
LEMMA PageStep == IInv /\ [Next]_vars => PageInv'
<1> SUFFICES ASSUME IInv, [Next]_vars PROVE PageInv'
  OBVIOUS
<1>0. TypeOK /\ TargetTypeOK /\ JobTypeOK /\ ServerTypeOK /\ JobInv /\ PageInv
  BY DEF IInv, TypeOK
<1>1. ASSUME NEW t \in Targets PROVE PagesKept(t, tCursor[t]) /\ PagesKept(t, tCursor[t])'
  <2>1. PagesKept(t, tCursor[t])
    BY <1>0 DEF PageInv, NoSkippedRows
  <2>2. CASE tCursor'[t] = tCursor[t]
    BY <1>0, <2>1, <2>2, PagesStay DEF PagesKept
  <2>3. ASSUME NEW j \in Jobs, CommitResult(j), jTarget[j] = t PROVE PagesKept(t, tCursor[t])'
    <3>1. jBefore[j] \in Cursors /\ jTarget[j] # NoTarget
      BY <1>0, <2>3, ScrapeAssumption DEF JobTypeOK
    <3>2. PICK next \in Feed!Following(jBefore[j]) : FinishScrapeJob(j, "succeeded", next)
      BY <2>3 DEF CommitResult
    <3>3. tCursor'[t] = next
      BY <1>0, <2>3, <3>2 DEF FinishScrapeJob, TargetTypeOK
    <3>4. Feed!Page(jBefore[j]) \subseteq stored'[t]
      BY <1>0, <2>3 DEF CommitResult, ServerTypeOK
    <3>5. \A d \in Cursors : d < jBefore[j] => Feed!Page(d) \subseteq stored'[t]
      <4>1. PagesKept(t, jBefore[j])
        BY <1>0, <2>3, <3>1 DEF PageInv
      <4> QED BY <1>0, <4>1, RowsGrow DEF PagesKept
    <3>6. next \in Cursors /\ (next = jBefore[j] \/ next = jBefore[j] + 1)
      BY DEF Feed!Following, Feed!Cursors, Cursors
    <3>7. ASSUME NEW d \in Cursors, d < next PROVE d < jBefore[j] \/ d = jBefore[j]
      BY <3>1, <3>6, <3>7, ScrapeAssumption DEF Cursors
    <3> QED BY <3>3, <3>4, <3>5, <3>7 DEF PagesKept
  <2> QED BY <1>0, <2>1, <2>2, <2>3, CursorEffect
<1>2. ASSUME NEW t \in Targets, queueRead'[t] # NoCursor
      PROVE  \A d \in Cursors : d < queueRead'[t] => Feed!Page(d) \subseteq stored'[t]
  <2>1. queueRead'[t] = queueRead[t] \/ queueRead'[t] = tCursor[t]
    BY <1>0, <1>2, QueueReadEffect DEF QueueScrapeJobRead, QueueScrapeJobInsert, ServerTypeOK
  <2>2. PagesKept(t, queueRead'[t])
    BY <1>0, <1>1, <1>2, <2>1 DEF PageInv
  <2> QED BY <1>0, <2>2, RowsGrow DEF PagesKept
<1>3. ASSUME NEW j \in Jobs, jTarget'[j] # NoTarget
      PROVE  \A d \in Cursors : d < jBefore'[j] => Feed!Page(d) \subseteq stored'[jTarget'[j]]
  <2>1. CASE jTarget'[j] = jTarget[j] /\ jBefore'[j] = jBefore[j]
    <3>1. PagesKept(jTarget[j], jBefore[j]) /\ jTarget[j] \in Targets
      BY <1>0, <1>3, <2>1 DEF PageInv, JobTypeOK
    <3> QED BY <1>0, <2>1, <3>1, RowsGrow DEF PagesKept
  <2>2. ASSUME NEW t \in Targets, InsertStep(t, j)
        PROVE  \A d \in Cursors : d < jBefore'[j] => Feed!Page(d) \subseteq stored'[jTarget'[j]]
    <3>1. jTarget'[j] = t /\ (jBefore'[j] = tCursor[t] \/ jBefore'[j] = queueRead[t])
      BY <1>0, <2>2 DEF InsertStep, InsertJob, JobTypeOK
    <3>2. jBefore'[j] = queueRead[t] => queueRead[t] # NoCursor
      <4>1. jBefore' [j] \in Cursors
        BY <1>0, TypeStep DEF TypeOK, JobTypeOK
      <4> QED BY <4>1 DEF Cursors, NoCursor
    <3>3. PagesKept(t, jBefore'[j])
      BY <1>0, <1>1, <3>1, <3>2 DEF PageInv
    <3> QED BY <1>0, <3>1, <3>3, RowsGrow DEF PagesKept
  <2> QED BY <1>0, <2>1, <2>2, BeforeEffect
<1> QED BY <1>1, <1>2, <1>3 DEF PageInv, NoSkippedRows, PagesKept
-----------------------------------------------------------------------------
(* The theorems.                                                            *)

LEMMA InvInit == Init => IInv
<1> SUFFICES ASSUME Init PROVE IInv
  OBVIOUS
<1>1. TypeOK
  BY TypeInit
<1>2. JobInv
  BY <1>1, ScrapeAssumption DEF Init, JobInv
<1>3. ClaimInv /\ SilentInv
  BY DEF Init, ClaimInv, SilentInv
<1>4. PageInv
  <2>1. \A d \in Cursors : ~(d < 0)
    BY ScrapeAssumption DEF Cursors
  <2> QED BY <2>1 DEF Init, PageInv, NoSkippedRows, PagesKept
<1>5. HostedInv /\ OneActiveJobPerTarget /\ TargetStatusTracksJobs
  BY DEF Init, HostedInv, OneActiveJobPerTarget, TargetStatusTracksJobs, Active
<1> QED BY <1>1, <1>2, <1>3, <1>4, <1>5 DEF IInv

LEMMA InvStep == IInv /\ [Next]_vars => IInv'
BY TypeStep, JobStep, ClaimStep, SilentStep, PageStep, HostedStep, OneActiveStep,
   TargetStatusStep DEF IInv

THEOREM Invariance == Spec => []IInv
BY InvInit, InvStep, PTL DEF Spec

\* QueueAutomaticImportJob never gives a target a second active job: not while a
\* lapsed lease waits to be taken over, and not while a result is in work.
THEOREM OneActive == Spec => []OneActiveJobPerTarget
<1>1. IInv => OneActiveJobPerTarget
  BY DEF IInv
<1> QED BY <1>1, Invariance, PTL

\* "queued" and "running" on a target always stand for a live job of it.
THEOREM StatusTracked == Spec => []TargetStatusTracksJobs
<1>1. IInv => TargetStatusTracksJobs
  BY DEF IInv
<1> QED BY <1>1, Invariance, PTL

\* Neither concurrent legacy jobs nor partial commits, retries and lost answers
\* move a target's cursor past a row that was not kept.
THEOREM NothingSkipped == Spec => []NoSkippedRows
<1>1. IInv => NoSkippedRows
  BY DEF IInv, PageInv
<1> QED BY <1>1, Invariance, PTL

\* What one step does to one job.
LEMMA JobEffect ==
  ASSUME TypeOK, [Next]_vars, NEW j \in Jobs
  PROVE  \/ jStatus'[j] = jStatus[j] /\ jAttempts'[j] = jAttempts[j] /\ run'[j] = run[j]
         \/ jTarget[j] = NoTarget
         \/ GrantLease(j)
         \/ \E r \in net : FailAttempt(r) /\ r.job = j
         \/ CommitResult(j)
<1>1. JobTypeOK
  BY DEF TypeOK
<1>2. ASSUME NEW t \in Targets, NEW k \in Jobs, InsertStep(t, k), k # j
      PROVE  jStatus'[j] = jStatus[j] /\ jAttempts'[j] = jAttempts[j] /\ run'[j] = run[j]
  BY <1>1, <1>2 DEF InsertStep, InsertJob, JobTypeOK
<1>3. ASSUME NEW t \in Targets, InsertStep(t, j) PROVE jTarget[j] = NoTarget
  BY <1>3 DEF InsertStep, InsertJob, NextJob
<1>4. ASSUME NEW k \in Jobs, GrantLease(k), k # j
      PROVE  jStatus'[j] = jStatus[j] /\ jAttempts'[j] = jAttempts[j] /\ run'[j] = run[j]
  BY <1>1, <1>4 DEF GrantLease, JobTypeOK
<1>5. ASSUME NEW k \in Jobs, NEW s, NEW c, FinishScrapeJob(k, s, c), k # j
      PROVE  jStatus'[j] = jStatus[j] /\ jAttempts'[j] = jAttempts[j] /\ run'[j] = run[j]
  BY <1>1, <1>5 DEF FinishScrapeJob, JobTypeOK
<1>6. ASSUME NEW r \in net, FailAttempt(r), r.job # j
      PROVE  jStatus'[j] = jStatus[j] /\ jAttempts'[j] = jAttempts[j] /\ run'[j] = run[j]
  <2>1. r.job \in Jobs
    BY DEF TypeOK, ServerTypeOK, Request
  <2> QED BY <1>5, <1>6, <2>1 DEF FailAttempt
<1>7. ASSUME NEW k \in Jobs, CommitResult(k), k # j
      PROVE  jStatus'[j] = jStatus[j] /\ jAttempts'[j] = jAttempts[j] /\ run'[j] = run[j]
  BY <1>5, <1>7 DEF CommitResult
<1>8. ASSUME NEW k \in Jobs, CommitPartialRows(k) \/ RollbackResult(k)
      PROVE  jStatus'[j] = jStatus[j] /\ jAttempts'[j] = jAttempts[j] /\ run'[j] = run[j]
  BY <1>8 DEF CommitPartialRows, RollbackResult, jobVars
<1> QED BY <1>2, <1>3, <1>4, <1>6, <1>7, <1>8, StepEffect
        DEF Import, jobCore, BeginResult, ServerRestart, jobVars

LEMMA LeaseStep ==
  ASSUME IInv, [Next]_vars, NEW w \in Workers, NEW j \in Jobs,
         wPc[w] = "running", wJob[w] = j, LeaseHeld(j, wAttempt[w])
  PROVE  jStatus'[j] = "leased" /\ jAttempts'[j] = jAttempts[j] /\ tx'[j] = 0
<1>0. TypeOK /\ JobTypeOK /\ WorkerTypeOK /\ JobInv /\ SilentInv
  BY DEF IInv, TypeOK
<1>1. jStatus[j] = "leased" /\ jAttempts[j] = wAttempt[w] /\ jLeft[j] > 0
  BY DEF LeaseHeld
<1>9. ~(jLeft[j] < 0)
  <2>1. jLeft[j] \in -1 .. Lease
    BY <1>0 DEF JobTypeOK
  <2> QED BY <1>1, <2>1, ScrapeAssumption
<1>2. tx[j] = 0
  BY <1>0, <1>1 DEF JobInv, SilentInv
<1>3. \A r \in net : ~(r.job = j /\ r.attempt = wAttempt[w])
  BY <1>0 DEF SilentInv
<1>4. tx'[j] = 0
  <2>1. ASSUME NEW r \in net, BeginResult(r), r.job = j PROVE FALSE
    BY <1>1, <1>3, <2>1 DEF BeginResult, LeaseHeld
  <2> QED BY <1>0, <1>2, <2>1, TxEffect
<1>5. jTarget[j] # NoTarget
  BY <1>0, <1>1 DEF JobInv
<1>6. ~GrantLease(j)
  BY <1>1, <1>9 DEF GrantLease, Claimable
<1>7. ASSUME NEW r \in net, FailAttempt(r), r.job = j PROVE FALSE
  BY <1>1, <1>3, <1>7 DEF FailAttempt, LeaseHeld
<1>8. ~CommitResult(j)
  BY <1>2 DEF CommitResult
<1> QED BY <1>0, <1>1, <1>4, <1>5, <1>6, <1>7, <1>8, JobEffect

\* A lapsed claim of another worker, a late result of an earlier attempt or a
\* second delivery never interferes with the worker whose lease is running.
THEOREM LeaseExclusive == Spec => LeaseIsExclusive
<1>1. IInv /\ [Next]_vars =>
        [\A w \in Workers : \A j \in Jobs :
           wPc[w] = "running" /\ wJob[w] = j /\ LeaseHeld(j, wAttempt[w])
           => jStatus'[j] = "leased" /\ jAttempts'[j] = jAttempts[j] /\ tx'[j] = 0]_vars
  BY LeaseStep
<1> QED BY <1>1, Invariance, PTL DEF Spec, LeaseIsExclusive

LEMMA CompletedStep ==
  ASSUME IInv, [Next]_vars, NEW j \in Jobs, run[j] # ""
  PROVE  run'[j] = run[j] /\ jStatus'[j] = jStatus[j] /\ jAttempts'[j] = jAttempts[j]
<1>0. TypeOK /\ JobInv
  BY DEF IInv
<1>1. jStatus[j] \in {"succeeded", "failed"} /\ jTarget[j] # NoTarget /\ tx[j] = 0
  BY <1>0 DEF JobInv
<1>2. ~GrantLease(j)
  BY <1>1 DEF GrantLease, Claimable
<1>3. ASSUME NEW r \in net, FailAttempt(r), r.job = j PROVE FALSE
  BY <1>1, <1>3 DEF FailAttempt, LeaseHeld
<1>4. ~CommitResult(j)
  BY <1>1 DEF CommitResult
<1> QED BY <1>0, <1>1, <1>2, <1>3, <1>4, JobEffect

\* The outcome of a job is written once: duplicates and late reports change nothing.
THEOREM CompletedFinal == Spec => CompletedJobIsFinal
<1>1. IInv /\ [Next]_vars =>
        [\A j \in Jobs : run[j] # "" =>
           run'[j] = run[j] /\ jStatus'[j] = jStatus[j] /\ jAttempts'[j] = jAttempts[j]]_vars
  BY CompletedStep
<1> QED BY <1>1, Invariance, PTL DEF Spec, CompletedJobIsFinal
-----------------------------------------------------------------------------
(* The refinement: in hosted mode every step is a step of the feed, or none. *)

\* Rows and cursors change only in the transaction of a result.
LEMMA FeedEffect ==
  ASSUME TypeOK, [Next]_vars
  PROVE  \/ UNCHANGED <<tCursor, stored>>
         \/ \E j \in Jobs : CommitPartialRows(j) \/ CommitResult(j)
<1> USE DEF policyVars, targetVars, jobVars, workerVars
<1>1. CASE Admin
  BY <1>1 DEF Admin, SetAutomaticImportPolicy, SetConnectionStatus, CreateTarget,
     CreateAutomaticImportTarget, CreateScrapeTarget, DisableTarget, QueueScrapeJobRead,
     QueueAutomaticImportJob, QueueScrapeJobInsert, InsertJob
<1>2. ASSUME NEW w \in Workers, Worker(w) \/ WorkerTrouble(w) \/ HeartbeatScrapeJob(w)
      PROVE  UNCHANGED <<tCursor, stored>>
  BY <1>2 DEF Worker, WorkerTrouble, QueuedJobs, ClaimRejected, PostResult, ConnectorFails,
     ReportFailure, ConnectionLost, ClientTimeout, CallThrows, WorkerCrash,
     HeartbeatScrapeJob, ClaimScrapeJob, ClaimAnswerLost, GrantLease
<1>3. ASSUME NEW r \in net, FailAttempt(r) PROVE UNCHANGED <<tCursor, stored>>
  <2>1. tCursor' = tCursor
    BY <1>3 DEF FailAttempt, FinishScrapeJob, TypeOK, TargetTypeOK
  <2> QED BY <1>3, <2>1 DEF FailAttempt
<1>4. ASSUME NEW r \in net, Serve(r) \/ LoseRequest(r) PROVE UNCHANGED <<tCursor, stored>>
  BY <1>3, <1>4 DEF Serve, AnswerSavedRun, RefuseRequest, BeginResult, LoseRequest
<1>5. ASSUME NEW j \in Jobs, Import(j), ~CommitPartialRows(j), ~CommitResult(j)
      PROVE  UNCHANGED <<tCursor, stored>>
  BY <1>5 DEF Import, RollbackResult
<1> QED BY <1>1, <1>2, <1>4, <1>5 DEF Next, Step, ServerRestart, Tick, vars

LEMMA FeedStep ==
  ASSUME IInv, [Next]_vars, Strict
  PROVE  [Feed!Next]_<<tCursor, stored>>
<1>0. TypeOK /\ JobInv /\ HostedInv /\ JobTypeOK
  BY DEF IInv, TypeOK
<1>1. ASSUME NEW j \in Jobs, tx[j] # 0
      PROVE  jTarget[j] \in Targets /\ jBefore[j] = tCursor[jTarget[j]]
  BY <1>0, <1>1 DEF JobInv, HostedInv, Active, JobTypeOK
<1>2. ASSUME NEW j \in Jobs, CommitPartialRows(j) PROVE Feed!Next
  <2>1. Feed!AcceptSomeRows(jTarget[j])
    BY <1>1, <1>2 DEF CommitPartialRows, Feed!AcceptSomeRows, targetVars
  <2> QED BY <1>1, <1>2, <2>1 DEF CommitPartialRows, Feed!Next
<1>3. ASSUME NEW j \in Jobs, CommitResult(j) PROVE Feed!Next
  <2>1. jTarget[j] \in Targets /\ jBefore[j] = tCursor[jTarget[j]]
    BY <1>1, <1>3 DEF CommitResult
  <2>2. PICK next \in Feed!Following(jBefore[j]) : FinishScrapeJob(j, "succeeded", next)
    BY <1>3 DEF CommitResult
  <2>3. tCursor' = [tCursor EXCEPT ![jTarget[j]] = next]
    BY <2>2 DEF FinishScrapeJob
  <2>4. stored' = [stored EXCEPT ![jTarget[j]] = @ \cup Feed!Page(jBefore[j])]
    BY <1>3 DEF CommitResult
  <2>5. Feed!AcceptPage(jTarget[j])
    BY <2>1, <2>2, <2>3, <2>4 DEF Feed!AcceptPage
  <2> QED BY <2>1, <2>5 DEF Feed!Next
<1> QED BY <1>0, <1>2, <1>3, FeedEffect

\* In hosted mode the queue with its leases, retries, losses and crashes is
\* indistinguishable from reading each feed page by page at its own cursor.
THEOREM FeedImplemented == ASSUME Strict PROVE Spec => ImplementsFeed
<1>1. Init => Feed!Init
  BY DEF Init, Feed!Init
<1>2. IInv /\ [Next]_vars => [Feed!Next]_(Feed!feedVars)
  BY FeedStep DEF Feed!feedVars
<1> QED BY <1>1, <1>2, Invariance, PTL DEF Spec, ImplementsFeed, Feed!Spec
=============================================================================
