----------------------------- MODULE ScrapeJobs -----------------------------
(***************************************************************************)
(* The external-source import queue of internal/store/external_sources.go, *)
(* the HTTP handlers of internal/server/external_sources.go that drive it, *)
(* and the workers of external-sources (Clojure) that lease its jobs.      *)
(*                                                                         *)
(* A tenant admin creates scrape targets and queues jobs for them; workers *)
(* poll, claim a job under a lease, fetch the page at the job's cursor and *)
(* post the rows.  Requests to finish a claim may be delayed past the      *)
(* lease, lost, or answered after the worker stopped waiting; workers and  *)
(* the server may crash.                                                   *)
(*                                                                         *)
(* One tenant.  A lease is its remaining time: `lease_until > now` is      *)
(* left > 0 and `lease_until < now` is left < 0; a NULL lease_until, for   *)
(* which both comparisons are false, is left = 0.                          *)
(***************************************************************************)
EXTENDS Integers, FiniteSets

CONSTANTS
  Targets,      \* rows of scrape_targets that may come to exist
  Conns,        \* source connections, all of kind worker, method scraper
  Workers,      \* worker processes
  ConnOf,       \* ConnOf[w]: the connection whose token worker w holds
  NoConn,       \* the connection of a target that does not exist
  NoTarget,     \* the target of a job that does not exist
  RowIds,       \* the rows of one page of a feed
  Strict,       \* hosted mode: the legacy admin routes answer 403
  MaxCursor,    \* bound: the last page of a feed
  MaxJobs,      \* bound: jobs ever inserted
  MaxAttempts,  \* bound: claims of one job
  MaxFaults,    \* bound: crashes, timeouts and losses in one behaviour
  Policies,     \* bound: the <<enabled, limit>> pairs an operator sets
  MaxBatch,     \* jobs one poll hands to a worker: max-jobs, at most 20
  Lease         \* length of a lease in ticks: 15 minutes

ASSUME ScrapeAssumption ==
  /\ MaxCursor \in Nat /\ MaxJobs \in Nat /\ MaxAttempts \in Nat
  /\ MaxFaults \in Nat /\ MaxBatch \in Nat \ {0}
  /\ Lease \in Nat \ {0}
  /\ Policies \subseteq BOOLEAN \X Nat
  /\ RowIds # {}
  /\ Strict \in BOOLEAN
  /\ NoConn \notin Conns /\ NoTarget \notin Targets
  /\ ConnOf \in [Workers -> Conns]

VARIABLES
  enabled,     \* tenants.automatic_import_enabled
  limit,       \* tenants.automatic_import_limit
  active,      \* source_connections whose status is "active"
  tConn,       \* scrape_targets.source_connection_id
  tEnabled,    \* scrape_targets.enabled
  tCursor,     \* scrape_targets.last_cursor
  tStatus,     \* scrape_targets.last_status
  queueRead,   \* cursor a legacy queue request has read, not yet inserted
  jTarget,     \* scrape_jobs.target_id
  jStatus,     \* scrape_jobs.status
  jLeft,       \* time left until scrape_jobs.lease_until
  jAttempts,   \* scrape_jobs.attempts
  jBefore,     \* scrape_jobs.cursor_before
  run,         \* import_runs.status of the job, unique by job_id
  stored,      \* rows of the reviews table, by target
  tx,          \* attempt whose result transaction holds the job's row lock
  net,         \* requests of claim holders on their way to the server
  wPc, wJob, wAttempt, wBatch,  \* the workers' control state
  faults       \* faults so far

policyVars == <<enabled, limit, active>>
targetVars == <<tConn, tEnabled, tCursor, tStatus>>
jobVars    == <<jTarget, jStatus, jLeft, jAttempts, jBefore, run>>
workerVars == <<wPc, wJob, wAttempt, wBatch>>
vars == <<policyVars, targetVars, queueRead, jobVars, stored, tx, net,
          workerVars, faults>>

Jobs     == 1 .. MaxJobs
Attempts == 1 .. MaxAttempts
Cursors  == 0 .. MaxCursor
NoCursor == -1
NoJob    == 0

Feed == INSTANCE ImportFeed WITH cursor <- tCursor

\* A request names the claim it completes: the job and the attempt number.
Request == [kind : {"result", "finish"}, job : Jobs, attempt : Attempts]
Result(j, a) == [kind |-> "result", job |-> j, attempt |-> a]
Finish(j, a) == [kind |-> "finish", job |-> j, attempt |-> a]

PolicyTypeOK ==
  /\ enabled \in BOOLEAN
  /\ limit \in Nat
  /\ active \in SUBSET Conns

TargetTypeOK ==
  /\ tConn \in [Targets -> Conns \cup {NoConn}]
  /\ tEnabled \in [Targets -> BOOLEAN]
  /\ tCursor \in [Targets -> Cursors]
  /\ tStatus \in [Targets -> {"", "queued", "running", "succeeded", "failed"}]

JobTypeOK ==
  /\ jTarget \in [Jobs -> Targets \cup {NoTarget}]
  /\ jStatus \in [Jobs -> {"", "queued", "leased", "succeeded", "failed"}]
  /\ jLeft \in [Jobs -> -1 .. Lease]
  /\ jAttempts \in [Jobs -> 0 .. MaxAttempts]
  /\ jBefore \in [Jobs -> Cursors]
  /\ run \in [Jobs -> {"", "succeeded", "failed"}]

ServerTypeOK ==
  /\ queueRead \in [Targets -> Cursors \cup {NoCursor}]
  /\ stored \in [Targets -> SUBSET Feed!Rows]
  /\ tx \in [Jobs -> 0 .. MaxAttempts]
  /\ net \in SUBSET Request
  /\ faults \in 0 .. MaxFaults

\* A worker past its claim holds a job and an attempt number.
WorkerTypeOK ==
  /\ wPc \in [Workers -> {"idle", "running", "posting", "failing", "reporting"}]
  /\ wJob \in [Workers -> Jobs \cup {NoJob}]
  /\ wAttempt \in [Workers -> 0 .. MaxAttempts]
  /\ wBatch \in [Workers -> SUBSET Jobs]
  /\ \A w \in Workers : wPc[w] # "idle" => wJob[w] \in Jobs /\ wAttempt[w] \in Attempts

TypeOK ==
  PolicyTypeOK /\ TargetTypeOK /\ JobTypeOK /\ ServerTypeOK /\ WorkerTypeOK

Init ==
  /\ enabled = FALSE
  /\ limit = 0
  /\ active = Conns
  /\ tConn = [t \in Targets |-> NoConn]
  /\ tEnabled = [t \in Targets |-> FALSE]
  /\ tCursor = [t \in Targets |-> 0]
  /\ tStatus = [t \in Targets |-> ""]
  /\ queueRead = [t \in Targets |-> NoCursor]
  /\ jTarget = [j \in Jobs |-> NoTarget]
  /\ jStatus = [j \in Jobs |-> ""]
  /\ jLeft = [j \in Jobs |-> 0]
  /\ jAttempts = [j \in Jobs |-> 0]
  /\ jBefore = [j \in Jobs |-> 0]
  /\ run = [j \in Jobs |-> ""]
  /\ stored = [t \in Targets |-> {}]
  /\ tx = [j \in Jobs |-> 0]
  /\ net = {}
  /\ wPc = [w \in Workers |-> "idle"]
  /\ wJob = [w \in Workers |-> NoJob]
  /\ wAttempt = [w \in Workers |-> 0]
  /\ wBatch = [w \in Workers |-> {}]
  /\ faults = 0
-----------------------------------------------------------------------------
(* Operator and tenant admin.                                              *)

SetAutomaticImportPolicy(policy) ==
  /\ enabled' = policy[1]
  /\ limit' = policy[2]
  /\ UNCHANGED <<active, targetVars, queueRead, jobVars, stored, tx, net,
                 workerVars, faults>>

\* The operator revokes or restores a connection out of band.
SetConnectionStatus(c) ==
  /\ active' = IF c \in active THEN active \ {c} ELSE active \cup {c}
  /\ UNCHANGED <<enabled, limit, targetVars, queueRead, jobVars, stored, tx,
                 net, workerVars, faults>>

EnabledTargets == {t \in Targets : tEnabled[t]}

CreateTarget(t, c) ==
  /\ tConn[t] = NoConn
  /\ tConn' = [tConn EXCEPT ![t] = c]
  /\ tEnabled' = [tEnabled EXCEPT ![t] = TRUE]
  /\ UNCHANGED <<policyVars, tCursor, tStatus, queueRead, jobVars, stored, tx,
                 net, workerVars, faults>>

\* The tenant row is locked first, so the checks and the insert are one step.
\* Exactly one connection may be eligible.  An existing target is returned as
\* it is, disabled or not: that changes nothing.
CreateAutomaticImportTarget(t) ==
  /\ enabled
  /\ \E c \in Conns : active = {c} /\ CreateTarget(t, c)
  /\ limit > 0 /\ Cardinality(EnabledTargets) < limit

\* Legacy route: any connection of the tenant, no quota.
CreateScrapeTarget(t, c) ==
  /\ ~Strict
  /\ CreateTarget(t, c)

DisableTarget(t) ==
  /\ tConn[t] # NoConn
  /\ tEnabled' = [tEnabled EXCEPT ![t] = FALSE]
  /\ UNCHANGED <<policyVars, tConn, tCursor, tStatus, queueRead, jobVars,
                 stored, tx, net, workerVars, faults>>
-----------------------------------------------------------------------------
(* Queueing.                                                               *)

Active(j) == jStatus[j] \in {"queued", "leased"}
ActiveJobs(t) == {j \in Jobs : jTarget[j] = t /\ Active(j)}

\* Job ids grow: the next row takes the smallest unused one.
NextJob(j) == jTarget[j] = NoTarget /\ \A k \in 1 .. (j - 1) : jTarget[k] # NoTarget

InsertJob(t, j, cursorBefore) ==
  /\ NextJob(j)
  /\ jTarget' = [jTarget EXCEPT ![j] = t]
  /\ jStatus' = [jStatus EXCEPT ![j] = "queued"]
  /\ jBefore' = [jBefore EXCEPT ![j] = cursorBefore]
  /\ tStatus' = [tStatus EXCEPT ![t] = "queued"]
  /\ UNCHANGED <<policyVars, tConn, tEnabled, tCursor, jLeft, jAttempts, run,
                 stored, tx, net, workerVars, faults>>

\* Faulty variant: nothing looks for an active job.
QueueAutomaticImportJob_Unchecked(t) ==
  /\ enabled
  /\ tEnabled[t] /\ tConn[t] \in active
  /\ limit > 0 /\ Cardinality(EnabledTargets) <= limit
  /\ \E j \in Jobs : InsertJob(t, j, tCursor[t])
  /\ UNCHANGED queueRead

\* The tenant row lock makes the active-job check and the insert one step.
QueueAutomaticImportJob(t) ==
  /\ ActiveJobs(t) = {}
  /\ enabled
  /\ tEnabled[t] /\ tConn[t] \in active
  /\ limit > 0 /\ Cardinality(EnabledTargets) <= limit
  /\ \E j \in Jobs : InsertJob(t, j, tCursor[t])
  /\ UNCHANGED queueRead

\* Legacy route, first half: the target is read before the transaction.
QueueScrapeJobRead(t) ==
  /\ ~Strict
  /\ tEnabled[t] /\ queueRead[t] = NoCursor
  /\ queueRead' = [queueRead EXCEPT ![t] = tCursor[t]]
  /\ UNCHANGED <<policyVars, targetVars, jobVars, stored, tx, net, workerVars, faults>>

\* Second half: the insert uses the cursor read before, and checks no other job.
QueueScrapeJobInsert(t) ==
  /\ queueRead[t] # NoCursor
  /\ \E j \in Jobs : InsertJob(t, j, queueRead[t])
  /\ queueRead' = [queueRead EXCEPT ![t] = NoCursor]
-----------------------------------------------------------------------------
(* Workers.                                                                *)

\* Faulty variants: a live lease can be taken over; a lapsed one never is.
Claimable_LiveLease(j) ==
  jStatus[j] \in {"queued", "leased"} /\ jAttempts[j] < MaxAttempts
Claimable_QueuedOnly(j) ==
  jStatus[j] = "queued" /\ jAttempts[j] < MaxAttempts

Claimable(j) ==
  /\ jStatus[j] = "queued" \/ (jStatus[j] = "leased" /\ jLeft[j] < 0)
  /\ jAttempts[j] < MaxAttempts  \* bound

\* The jobs of worker w's connection that a poll returns, in id order.
Offered(w) ==
  LET open == {j \in Jobs : Claimable(j) /\ tConn[jTarget[j]] = ConnOf[w]}
  IN  {j \in open : Cardinality({k \in open : k < j}) < MaxBatch}

QueuedJobs(w) ==
  /\ wPc[w] = "idle" /\ wBatch[w] = {} /\ Offered(w) # {}
  /\ ConnOf[w] \in active
  /\ wBatch' = [wBatch EXCEPT ![w] = Offered(w)]
  /\ UNCHANGED <<policyVars, targetVars, queueRead, jobVars, stored, tx, net,
                 wPc, wJob, wAttempt, faults>>

\* run-once! takes the jobs of the batch in order.
First(w, j) == j \in wBatch[w] /\ \A k \in wBatch[w] : j <= k

Lose == faults < MaxFaults /\ faults' = faults + 1

\* The claim's two updates: the job is leased to the next attempt and its
\* target shows "running".
GrantLease(j) ==
  /\ Claimable(j) /\ tx[j] = 0
  /\ jStatus' = [jStatus EXCEPT ![j] = "leased"]
  /\ jLeft' = [jLeft EXCEPT ![j] = Lease]
  /\ jAttempts' = [jAttempts EXCEPT ![j] = @ + 1]
  /\ tStatus' = [tStatus EXCEPT ![jTarget[j]] = "running"]
  /\ UNCHANGED <<jTarget, jBefore, run, tConn, tEnabled, tCursor>>

ClaimScrapeJob(w) ==
  /\ wPc[w] = "idle" /\ ConnOf[w] \in active
  /\ \E j \in Jobs :
       /\ First(w, j)
       /\ GrantLease(j)
       /\ wBatch' = [wBatch EXCEPT ![w] = @ \ {j}]
       /\ wPc' = [wPc EXCEPT ![w] = "running"]
       /\ wJob' = [wJob EXCEPT ![w] = j]
       /\ wAttempt' = [wAttempt EXCEPT ![w] = jAttempts[j] + 1]
  /\ UNCHANGED <<policyVars, queueRead, stored, tx, net, faults>>

\* The claim commits but its answer is lost: the worker goes on to the next job.
ClaimAnswerLost(w) ==
  /\ wPc[w] = "idle" /\ ConnOf[w] \in active
  /\ \E j \in Jobs :
       /\ First(w, j)
       /\ GrantLease(j)
       /\ wBatch' = [wBatch EXCEPT ![w] = @ \ {j}]
  /\ Lose
  /\ UNCHANGED <<policyVars, queueRead, stored, tx, net, wPc, wJob, wAttempt>>

\* The job was taken, finished or cut off since the poll, and the claim throws.
ClaimRejected(w) ==
  /\ wPc[w] = "idle"
  /\ \E j \in Jobs :
       /\ First(w, j)
       /\ ~Claimable(j) \/ ConnOf[w] \notin active
       /\ wBatch' = [wBatch EXCEPT ![w] = @ \ {j}]
  /\ UNCHANGED <<policyVars, targetVars, queueRead, jobVars, stored, tx, net,
                 wPc, wJob, wAttempt, faults>>

\* The connector returned the page: post it.
PostResult(w) ==
  /\ wPc[w] = "running"
  /\ wPc' = [wPc EXCEPT ![w] = "posting"]
  /\ net' = net \cup {Result(wJob[w], wAttempt[w])}
  /\ UNCHANGED <<policyVars, targetVars, queueRead, jobVars, stored, tx, wJob,
                 wAttempt, wBatch, faults>>

\* The connector threw.
ConnectorFails(w) ==
  /\ wPc[w] = "running"
  /\ wPc' = [wPc EXCEPT ![w] = "failing"]
  /\ UNCHANGED <<policyVars, targetVars, queueRead, jobVars, stored, tx, net,
                 wJob, wAttempt, wBatch, faults>>

\* The catch clause reports the failure, whatever threw: the connector, a
\* refused result, or a result whose answer did not come in time.
ReportFailure(w) ==
  /\ wPc[w] = "failing"
  /\ wPc' = [wPc EXCEPT ![w] = "reporting"]
  /\ net' = net \cup {Finish(wJob[w], wAttempt[w])}
  /\ UNCHANGED <<policyVars, targetVars, queueRead, jobVars, stored, tx, wJob,
                 wAttempt, wBatch, faults>>

Release(w) ==
  /\ wPc' = [wPc EXCEPT ![w] = "idle"]
  /\ wJob' = [wJob EXCEPT ![w] = NoJob]
  /\ wAttempt' = [wAttempt EXCEPT ![w] = 0]

\* The call throws: a result is then reported as a failure, a report that got no
\* answer is only logged.
CallThrows(w) ==
  /\ \/ /\ wPc[w] = "posting"
        /\ wPc' = [wPc EXCEPT ![w] = "failing"]
        /\ UNCHANGED <<wJob, wAttempt>>
     \/ wPc[w] = "reporting" /\ Release(w)
  /\ UNCHANGED <<policyVars, targetVars, queueRead, jobVars, stored, tx, net, wBatch>>

\* request-timeout-ms passes while the request is still on its way or in work.
ClientTimeout(w) == CallThrows(w) /\ Lose

\* The request died: no answer can come any more.
ConnectionLost(w) ==
  /\ {Result(wJob[w], wAttempt[w]), Finish(wJob[w], wAttempt[w])} \cap net = {}
  /\ \A j \in Jobs : j = wJob[w] => tx[j] # wAttempt[w]
  /\ CallThrows(w)
  /\ UNCHANGED faults

WorkerCrash(w) ==
  /\ wPc[w] # "idle" \/ wBatch[w] # {}
  /\ Release(w)
  /\ wBatch' = [wBatch EXCEPT ![w] = {}]
  /\ Lose
  /\ UNCHANGED <<policyVars, targetVars, queueRead, jobVars, stored, tx, net>>

\* Private workers extend the lease they hold; the public worker never does.
HeartbeatScrapeJob(w) ==
  /\ wPc[w] = "running" /\ ConnOf[w] \in active
  /\ \E j \in Jobs :
       /\ j = wJob[w] /\ tx[j] = 0
       /\ jStatus[j] = "leased" /\ jAttempts[j] = wAttempt[w] /\ jLeft[j] > 0
       /\ jLeft' = [jLeft EXCEPT ![j] = Lease]
  /\ UNCHANGED <<policyVars, targetVars, queueRead, jTarget, jStatus, jAttempts,
                 jBefore, run, stored, tx, net, workerVars, faults>>
-----------------------------------------------------------------------------
(* The server's handlers for the requests of a claim holder.               *)

TokenAccepted(j) == tConn[jTarget[j]] \in active

\* Faulty variant: the attempt alone is the credential.
LeaseHeld_AttemptOnly(j, a) == jAttempts[j] = a

\* WithScrapeJobLease's guard.
LeaseHeld(j, a) == jStatus[j] = "leased" /\ jAttempts[j] = a /\ jLeft[j] > 0

\* The worker still waiting for the answer to request r, if any.
Waits(w, r) ==
  /\ wJob[w] = r.job /\ wAttempt[w] = r.attempt
  /\ wPc[w] = IF r.kind = "result" THEN "posting" ELSE "reporting"

\* An accepted request ends the job for its worker; a refused result makes it
\* report a failure, a refused report is only logged.
Answer(r, accepted) ==
  LET waiting == {w \in Workers : Waits(w, r)}
      done    == accepted \/ r.kind = "finish"
  IN  /\ wPc' = [w \in Workers |-> IF w \in waiting
                                     THEN IF done THEN "idle" ELSE "failing"
                                     ELSE wPc[w]]
      /\ wJob' = [w \in Workers |-> IF w \in waiting /\ done THEN NoJob ELSE wJob[w]]
      /\ wAttempt' = [w \in Workers |-> IF w \in waiting /\ done THEN 0 ELSE wAttempt[w]]
      /\ UNCHANGED wBatch

\* handleWorkerResult finds the job's import run: a succeeded one is answered
\* again, without importing anything.
AnswerSavedRun(r) ==
  /\ r \in net /\ r.kind = "result"
  /\ TokenAccepted(r.job) /\ run[r.job] = "succeeded"
  /\ net' = net \ {r}
  /\ Answer(r, TRUE)
  /\ UNCHANGED <<policyVars, targetVars, queueRead, jobVars, stored, tx, faults>>

\* 401, 409: the token is revoked or the lease is not, or no longer, held.
RefuseRequest(r) ==
  /\ r \in net /\ tx[r.job] = 0
  /\ ~TokenAccepted(r.job) \/ ~LeaseHeld(r.job, r.attempt)
  /\ net' = net \ {r}
  /\ Answer(r, FALSE)
  /\ UNCHANGED <<policyVars, targetVars, queueRead, jobVars, stored, tx, faults>>

\* WithScrapeJobLease takes the job's row lock; the import runs under it.
BeginResult(r) ==
  /\ r \in net /\ r.kind = "result" /\ tx[r.job] = 0
  /\ TokenAccepted(r.job) /\ LeaseHeld(r.job, r.attempt)
  /\ run[r.job] = ""
  /\ net' = net \ {r}
  /\ tx' = [tx EXCEPT ![r.job] = r.attempt]
  /\ UNCHANGED <<policyVars, targetVars, queueRead, jobVars, stored, workerVars, faults>>

EndTx(j) == tx' = [tx EXCEPT ![j] = 0]

\* Some row fails: the transaction commits the others and leaves the job leased.
CommitPartialRows(j) ==
  /\ tx[j] # 0
  /\ \E good \in SUBSET Feed!Page(jBefore[j]) :
       /\ good # Feed!Page(jBefore[j])
       /\ stored' = [stored EXCEPT ![jTarget[j]] = @ \cup good]
  /\ EndTx(j)
  /\ Answer(Result(j, tx[j]), FALSE)
  /\ UNCHANGED <<policyVars, targetVars, queueRead, jobVars, net, faults>>

\* Faulty variant: a failure overwrites the target's cursor too.
FinishScrapeJob_AnyCursor(j, status, cursor) ==
  /\ jStatus' = [jStatus EXCEPT ![j] = status]
  /\ jLeft' = [jLeft EXCEPT ![j] = 0]
  /\ run' = [run EXCEPT ![j] = status]
  /\ tStatus' = [tStatus EXCEPT ![jTarget[j]] = status]
  /\ tCursor' = [tCursor EXCEPT ![jTarget[j]] = cursor]
  /\ UNCHANGED <<tConn, tEnabled, jTarget, jAttempts, jBefore>>

\* FinishScrapeJob, in the transaction of its caller.
FinishScrapeJob(j, status, cursor) ==
  /\ jStatus' = [jStatus EXCEPT ![j] = status]
  /\ jLeft' = [jLeft EXCEPT ![j] = 0]
  /\ run' = [run EXCEPT ![j] = status]
  /\ tStatus' = [tStatus EXCEPT ![jTarget[j]] = status]
  /\ tCursor' = [tCursor EXCEPT ![jTarget[j]] =
                   IF status = "succeeded" THEN cursor ELSE @]
  /\ UNCHANGED <<tConn, tEnabled, jTarget, jAttempts, jBefore>>

\* Faulty variant: rows that fail do not stop the job from being finished.
CommitResult_AnyRows(j) ==
  /\ tx[j] # 0 /\ jLeft[j] > 0
  /\ \E good \in SUBSET Feed!Page(jBefore[j]) :
       stored' = [stored EXCEPT ![jTarget[j]] = @ \cup good]
  /\ \E next \in Feed!Following(jBefore[j]) : FinishScrapeJob(j, "succeeded", next)
  /\ EndTx(j)
  /\ Answer(Result(j, tx[j]), TRUE)
  /\ UNCHANGED <<policyVars, queueRead, net, faults>>

\* Faulty variant: the target goes on from where it stands by now, not from
\* where the job began.
CommitResult_TargetCursor(j) ==
  /\ tx[j] # 0 /\ jLeft[j] > 0
  /\ stored' = [stored EXCEPT ![jTarget[j]] = @ \cup Feed!Page(jBefore[j])]
  /\ \E next \in Feed!Following(tCursor[jTarget[j]]) : FinishScrapeJob(j, "succeeded", next)
  /\ EndTx(j)
  /\ Answer(Result(j, tx[j]), TRUE)
  /\ UNCHANGED <<policyVars, queueRead, net, faults>>

\* Every row is imported and the lease still holds: the job is finished in the
\* same transaction.
CommitResult(j) ==
  /\ tx[j] # 0 /\ jLeft[j] > 0
  /\ stored' = [stored EXCEPT ![jTarget[j]] = @ \cup Feed!Page(jBefore[j])]
  /\ \E next \in Feed!Following(jBefore[j]) : FinishScrapeJob(j, "succeeded", next)
  /\ EndTx(j)
  /\ Answer(Result(j, tx[j]), TRUE)
  /\ UNCHANGED <<policyVars, queueRead, net, faults>>

\* The lease ran out during the import: everything is rolled back.
RollbackResult(j) ==
  /\ tx[j] # 0 /\ jLeft[j] <= 0
  /\ EndTx(j)
  /\ Answer(Result(j, tx[j]), FALSE)
  /\ UNCHANGED <<policyVars, targetVars, queueRead, jobVars, stored, net, faults>>

\* handleWorkerFinish: the attempt fails, its lease checked on the same row.
FailAttempt(r) ==
  /\ r \in net /\ r.kind = "finish" /\ tx[r.job] = 0
  /\ TokenAccepted(r.job) /\ LeaseHeld(r.job, r.attempt)
  /\ FinishScrapeJob(r.job, "failed", NoCursor)
  /\ net' = net \ {r}
  /\ Answer(r, TRUE)
  /\ UNCHANGED <<policyVars, queueRead, stored, tx, faults>>
-----------------------------------------------------------------------------
(* The environment.                                                        *)

LoseRequest(r) ==
  /\ r \in net
  /\ net' = net \ {r}
  /\ Lose
  /\ UNCHANGED <<policyVars, targetVars, queueRead, jobVars, stored, tx, workerVars>>

\* Open transactions and undelivered requests die with the server process.
ServerRestart ==
  /\ net # {} \/ \E j \in Jobs : tx[j] # 0
  /\ tx' = [j \in Jobs |-> 0]
  /\ net' = {}
  /\ queueRead' = [t \in Targets |-> NoCursor]
  /\ Lose
  /\ UNCHANGED <<policyVars, targetVars, jobVars, stored, workerVars>>

Tick ==
  /\ \E j \in Jobs : jStatus[j] = "leased" /\ jLeft[j] > -1
  /\ jLeft' = [j \in Jobs |-> IF jStatus[j] = "leased" /\ jLeft[j] > -1
                                THEN jLeft[j] - 1 ELSE jLeft[j]]
  /\ UNCHANGED <<policyVars, targetVars, queueRead, jTarget, jStatus, jAttempts,
                 jBefore, run, stored, tx, net, workerVars, faults>>
-----------------------------------------------------------------------------
Admin ==
  \/ \E policy \in Policies : SetAutomaticImportPolicy(policy)
  \/ \E c \in Conns : SetConnectionStatus(c)
  \/ \E t \in Targets : \/ CreateAutomaticImportTarget(t)
                        \/ \E c \in Conns : CreateScrapeTarget(t, c)
                        \/ DisableTarget(t)
                        \/ QueueAutomaticImportJob(t)
                        \/ QueueScrapeJobRead(t)
                        \/ QueueScrapeJobInsert(t)

Worker(w) ==
  \/ QueuedJobs(w) \/ ClaimScrapeJob(w) \/ ClaimRejected(w)
  \/ PostResult(w) \/ ConnectorFails(w) \/ ReportFailure(w) \/ ConnectionLost(w)

WorkerTrouble(w) == ClaimAnswerLost(w) \/ ClientTimeout(w) \/ WorkerCrash(w)

Serve(r) == AnswerSavedRun(r) \/ RefuseRequest(r) \/ BeginResult(r) \/ FailAttempt(r)

Import(j) == CommitPartialRows(j) \/ CommitResult(j) \/ RollbackResult(j)

Step ==
  \/ Admin
  \/ \E w \in Workers : Worker(w) \/ WorkerTrouble(w) \/ HeartbeatScrapeJob(w)
  \/ \E r \in net : Serve(r) \/ LoseRequest(r)
  \/ \E j \in Jobs : Import(j)
  \/ ServerRestart

Next == Step \/ Tick

Spec == Init /\ [][Next]_vars

(***************************************************************************)
(* A lease lasts 15 minutes, a worker's requests time out after 30 seconds *)
(* each: a worker that runs is done with its claim before the lease ends.  *)
(* Weak fairness: the workers' loop and the server's handlers do not stop  *)
(* for ever, and time passes.  Nothing is assumed of the admin or of       *)
(* faults.                                                                 *)
(***************************************************************************)
Holds(w) == \E j \in Jobs : /\ j = wJob[w] /\ jStatus[j] = "leased"
                            /\ jAttempts[j] = wAttempt[w]

TimelyTick ==
  /\ \A w \in Workers : Holds(w) => jLeft[wJob[w]] > 1
  /\ Tick

FairSpec ==
  /\ Init /\ [][Step \/ TimelyTick]_vars
  /\ \A w \in Workers : WF_vars(Worker(w))
  /\ WF_vars(\E r \in net : Serve(r))
  /\ \A j \in Jobs : WF_vars(Import(j))
  /\ WF_vars(TimelyTick)
-----------------------------------------------------------------------------
(* Properties.                                                             *)

\* In hosted mode a target never has two active jobs, whatever admins, workers
\* and lapsed leases do: QueueAutomaticImportJob counts a leased job as active
\* even after its lease ran out.
OneActiveJobPerTarget ==
  Strict => \A j, k \in Jobs :
              Active(j) /\ Active(k) /\ jTarget[j] = jTarget[k] => j = k

\* In hosted mode the status shown for a target is the state of its active job,
\* or the outcome of an earlier one when it has none: "queued" and "running"
\* are never left behind by a job that ended, nor hidden by an older one.
TargetStatusTracksJobs ==
  Strict =>
    /\ \A j \in Jobs : jStatus[j] = "queued" => tStatus[jTarget[j]] = "queued"
    /\ \A j \in Jobs : jStatus[j] = "leased" => tStatus[jTarget[j]] = "running"
    /\ \A t \in Targets : tStatus[t] \in {"queued", "running"} => ActiveJobs(t) # {}

\* All pages before c have been kept whole for t.
PagesKept(t, c) == \A d \in Cursors : d < c => Feed!Page(d) \subseteq stored[t]

\* The cursor never leaves a page of which a row is missing, although refused
\* rows, lapsed leases and repeated deliveries commit parts of pages.
NoSkippedRows == \A t \in Targets : PagesKept(t, tCursor[t])

\* While a worker is fetching under a live lease of its own attempt, nobody
\* else finishes its job, takes it over or starts to import for it.
LeaseIsExclusive ==
  [][\A w \in Workers : \A j \in Jobs :
       wPc[w] = "running" /\ wJob[w] = j /\ LeaseHeld(j, wAttempt[w])
       => jStatus'[j] = "leased" /\ jAttempts'[j] = jAttempts[j] /\ tx'[j] = 0]_vars

\* A job that got its import run keeps that outcome for ever: a late result, a
\* late failure report or a new claim changes neither the run nor the job.
CompletedJobIsFinal ==
  [][\A j \in Jobs : run[j] # "" =>
       run'[j] = run[j] /\ jStatus'[j] = jStatus[j] /\ jAttempts'[j] = jAttempts[j]]_vars

\* In hosted mode the import is the paged feed of ImportFeed: each page is read
\* at the target's own cursor and the cursor moves only from there.
ImplementsFeed == Feed!Spec

\* A queued job ends, after at most as many new claims as there were crashes and
\* losses, unless its connection is revoked.
QueuedJobEnds ==
  \A j \in Jobs : jStatus[j] = "queued"
     ~> (run[j] # "" \/ (jTarget[j] # NoTarget /\ ~TokenAccepted(j)))

\* external_sources.go: "A rejected or expired lease rolls back every review
\* written by fn."
ExpiredLeaseKeepsNothing ==
  [][\A t \in Targets : stored'[t] # stored[t] =>
       \E j \in Jobs : jTarget[j] = t /\ tx[j] # 0 /\ jLeft[j] > 0]_vars
-----------------------------------------------------------------------------
(* The inductive invariant behind the theorems.                            *)

\* A job exists with its target; it has a run when and only when it ended; only
\* the current attempt of a leased job holds the row lock.
JobInv ==
  \A j \in Jobs :
    /\ jTarget[j] = NoTarget <=> jStatus[j] = ""
    /\ run[j] = IF jStatus[j] \in {"succeeded", "failed"} THEN jStatus[j] ELSE ""
    /\ tx[j] # 0 => jStatus[j] = "leased" /\ tx[j] = jAttempts[j]

\* No request and no worker is ahead of its job, and no two workers hold the
\* same attempt: an attempt number is handed out once.
ClaimInv ==
  /\ \A r \in net : r.attempt <= jAttempts[r.job]
  /\ \A w \in Workers : wPc[w] # "idle" => wAttempt[w] <= jAttempts[wJob[w]]
  /\ \A w, v \in Workers :
       wPc[w] # "idle" /\ wPc[v] # "idle" /\ wJob[w] = wJob[v] /\ wAttempt[w] = wAttempt[v]
       => w = v

\* A worker that is still fetching has sent nothing for its attempt.
SilentInv ==
  \A w \in Workers : wPc[w] = "running" =>
    /\ \A r \in net : ~(r.job = wJob[w] /\ r.attempt = wAttempt[w])
    /\ tx[wJob[w]] # wAttempt[w]

\* Every cursor that is still to be used has all its earlier pages kept.
PageInv ==
  /\ NoSkippedRows
  /\ \A t \in Targets : queueRead[t] # NoCursor => PagesKept(t, queueRead[t])
  /\ \A j \in Jobs : jTarget[j] # NoTarget => PagesKept(jTarget[j], jBefore[j])

\* In hosted mode an active job starts at its target's own cursor.
HostedInv ==
  Strict => /\ \A t \in Targets : queueRead[t] = NoCursor
            /\ \A j \in Jobs : Active(j) => jBefore[j] = tCursor[jTarget[j]]

IInv ==
  /\ TypeOK /\ JobInv /\ ClaimInv /\ SilentInv /\ PageInv /\ HostedInv
  /\ OneActiveJobPerTarget /\ TargetStatusTracksJobs
=============================================================================
