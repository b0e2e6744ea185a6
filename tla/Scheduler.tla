------------------------------ MODULE Scheduler ------------------------------
(***************************************************************************)
(* The PostgreSQL-owned scheduler of background work                       *)
(* (apps/api/app/services/scheduler.py), the worker task that executes one *)
(* lease (worker.py, scheduler_execute_task) with the three runners it     *)
(* calls, and the operator's requests (api/v1/scheduled_work.py,           *)
(* api/v1/projects.py, api/v1/competitors.py).                             *)
(*                                                                         *)
(* A job row and its source row (SiteBuild, ProjectBukvarixKeywordRun or   *)
(* CompetitorCrawlRun) are created together and never separated, so a job  *)
(* j names both: jobState[j], jobLease[j] are columns of the job and       *)
(* src[j] is the status of the source.  A lease is the number of the       *)
(* dispatch that issued it (a fresh uuid4 in the code); the executor       *)
(* that claims lease l is "task l", with its program counter taskPc[l]     *)
(* and the result it will report taskResult[l].                            *)
(*                                                                         *)
(* Steps are transactions: every handler locks the job row first           *)
(* (SELECT ... FOR UPDATE), so its reads and writes up to the commit are   *)
(* one action.  Where the code reads a row without a lock, or keeps a row  *)
(* across a commit, the read and the write are separate actions.           *)
(***************************************************************************)
EXTENDS Integers, FiniteSets

CONSTANTS
    Jobs,       \* the scheduler jobs, each with its source row
    NoJob,      \* not a job: what a lease not yet issued belongs to
    TypeOf,     \* work_type of each job
    Projects,   \* project ids; numbers, because dispatch sorts by id
    ProjectOf,  \* the project of each job
    MaxLease,   \* bound: how many dispatches a behaviour may contain
    Punctual    \* TRUE: ARQ's job_timeout ends a task before its lease lapses

WorkTypes == {"site_build", "bukvarix_keyword", "competitor_crawl"}

ASSUME JobsAssumption ==
    /\ IsFiniteSet(Jobs)
    /\ NoJob \notin Jobs
    /\ TypeOf \in [Jobs -> WorkTypes]
    /\ Projects \subseteq Nat
    /\ ProjectOf \in [Jobs -> Projects]
    /\ MaxLease \in Nat
    /\ Punctual \in BOOLEAN

Leases == 1 .. MaxLease
NoLease == 0

Build(j) == TypeOf[j] = "site_build"
Crawl(j) == TypeOf[j] = "competitor_crawl"

MaxConcurrency == 1                                      \* _MAX_CONCURRENCY

ActiveStates == {"leased", "running", "cancel_requested"}
TerminalStates == {"succeeded", "failed", "cancelled"}
JobStates == {"absent", "queued", "paused"} \cup ActiveStates \cup TerminalStates

Finished == {"ready", "completed", "done", "partial"}    \* sources that succeeded
SrcStates == {"absent", "queued", "running", "failed", "blocked", "cancelled"}
                 \cup Finished

\* What the runner of each work type may write when its work ends.
Outcomes(j) ==
    CASE TypeOf[j] = "site_build"       -> {"ready", "failed"}
      [] TypeOf[j] = "bukvarix_keyword" -> {"completed", "failed"}
      [] TypeOf[j] = "competitor_crawl" -> {"done", "partial", "blocked", "failed"}

\* claimed: claim_execution committed.  working: the source is "running".
\* writing: the source was re-read as "running", without a lock, and the
\* outcome is not committed yet.  completing: the runner has returned.
LivePcs == {"claimed", "working", "writing", "completing"}
TaskPcs == {"none", "ended"} \cup LivePcs

VARIABLES
    jobState, jobLease, src,   \* the job rows and their source rows
    early,                     \* jobs whose not_before lies in the future
    turn,                      \* SchedulerProjectTurn.dispatch_turn, 0 = no row
    issued,                    \* leases issued so far
    leaseJob,                  \* the job a lease was issued for
    lapsed,                    \* leases whose lease_expires_at has passed
    pending,                   \* leases whose SchedulerWakeup is "pending"; one
                               \* "published" or "expired" is never read again
    msgs,                      \* scheduler_execute_task messages in Redis
    taskPc, taskResult,        \* the executor of each lease
    locked,                    \* job rows an operator's request holds locked
    seenActive,                \* crawls a cancel request read while cancellable
    runs,                      \* history: starts since the last (re)queueing
    passed                     \* history: projects dispatched while one waits

rows == <<jobState, jobLease, src>>
leaseVars == <<issued, leaseJob, lapsed, turn>>
taskVars == <<taskPc, taskResult>>
vars == <<rows, early, leaseVars, pending, msgs, taskVars, locked, seenActive,
          runs, passed>>

-----------------------------------------------------------------------------
Active(j) == jobState[j] \in ActiveStates
Live(l) == taskPc[l] \in LivePcs

Due(j) == jobState[j] = "queued" /\ j \notin early
DueProjects == {ProjectOf[j] : j \in {k \in Jobs : Due(k)}}

\* A project that dispatch could pick: SELECT ... FOR UPDATE SKIP LOCKED
\* passes over the rows an operator's request holds.
Selectable(p) == \E j \in Jobs : Due(j) /\ j \notin locked /\ ProjectOf[j] = p

\* Faulty variant: a job asked to cancel no longer counts.
SlotsWithoutCancelling ==
    Cardinality({j \in Jobs : jobState[j] \in {"leased", "running"}})
        + Cardinality({j \in Jobs : src[j] = "running" /\ ~Active(j)})

\* _active_slots: active jobs, and running sources no active job manages.
ActiveSlots ==
    Cardinality({j \in Jobs : Active(j)})
        + Cardinality({j \in Jobs : src[j] = "running" /\ ~Active(j)})

\* Faulty variant: the last turn is forgotten.
PrecedesById(p, q) == p < q

\* ordered_keys: by last turn (no row first), then by project id.
Precedes(p, q) == turn[p] < turn[q] \/ (turn[p] = turn[q] /\ p < q)

\* _expire_pending_wakeups for the jobs in S.
ExpireWakeups(S) == pending' = pending \ {jobLease[j] : j \in S}

\* The job state complete_execution derives from what the runner returned.
FinalState(result) ==
    CASE result = "cancelled" -> "cancelled"
      [] result \in Finished  -> "succeeded"
      [] OTHER                -> "failed"

-----------------------------------------------------------------------------
Init ==
    /\ jobState = [j \in Jobs |-> "absent"]
    /\ jobLease = [j \in Jobs |-> NoLease]
    /\ src = [j \in Jobs |-> "absent"]
    /\ early = {}
    /\ turn = [p \in Projects |-> 0]
    /\ issued = 0
    /\ leaseJob = [l \in Leases |-> NoJob]
    /\ lapsed = {}
    /\ pending = {}
    /\ msgs = {}
    /\ taskPc = [l \in Leases |-> "none"]
    /\ taskResult = [l \in Leases |-> "none"]
    /\ locked = {}
    /\ seenActive = {}
    /\ runs = [j \in Jobs |-> 0]
    /\ passed = [p \in Projects |-> {}]

-----------------------------------------------------------------------------
(* Requests that create work.  Only a candidate build takes a not_before.  *)

Create(j) ==
    /\ jobState[j] = "absent"
    /\ jobState' = [jobState EXCEPT ![j] = "queued"]
    /\ src' = [src EXCEPT ![j] = "queued"]
    /\ \E later \in (IF Build(j) THEN BOOLEAN ELSE {FALSE}) :
          early' = IF later THEN early \cup {j} ELSE early
    /\ UNCHANGED <<jobLease, leaseVars, pending, msgs, taskVars, locked, seenActive, runs>>

\* Time reaches not_before.
NotBeforePasses(j) ==
    /\ j \in early
    /\ early' = early \ {j}
    /\ UNCHANGED <<rows, leaseVars, pending, msgs, taskVars, locked, seenActive, runs>>

-----------------------------------------------------------------------------
(* The sweep (worker.py, candidate_build_sweep_task), once a minute:       *)
(* recover expired leases, dispatch, publish.  Each part commits.          *)

\* dispatch_due_jobs under the advisory lock.  Which of a project's due jobs
\* is first (effective priority, age, id) is left open: any of them may be.
Dispatch(j) ==
    /\ ActiveSlots < MaxConcurrency
    /\ Due(j) /\ j \notin locked
    /\ \A q \in DueProjects \ {ProjectOf[j]} : Selectable(q) => Precedes(ProjectOf[j], q)
    /\ issued < MaxLease
    /\ issued' = issued + 1
    /\ jobState' = [jobState EXCEPT ![j] = "leased"]
    /\ jobLease' = [jobLease EXCEPT ![j] = issued + 1]
    /\ leaseJob' = [leaseJob EXCEPT ![issued + 1] = j]
    /\ pending' = pending \cup {issued + 1}
    /\ \E last \in DueProjects :      \* max(turns of the due projects) + 1
          /\ \A q \in DueProjects : turn[q] <= turn[last]
          /\ turn' = [turn EXCEPT ![ProjectOf[j]] = turn[last] + 1]
    /\ UNCHANGED <<src, early, lapsed, msgs, taskVars, locked, seenActive, runs>>

\* publish_pending_wakeups, one wakeup: discard it unless its lease is the
\* one the job holds; otherwise enqueue, then commit "published".  An
\* enqueue that fails changes nothing but the time of the next try.

\* Faulty variant: any lease of a leased job will do.
AnyLease(j, l) == jobState[j] = "leased" /\ l \notin lapsed

CurrentLease(j, l) == jobState[j] = "leased" /\ jobLease[j] = l /\ l \notin lapsed

Publish(l) ==
    /\ l \in pending
    /\ leaseJob[l] \notin locked
    /\ pending' = pending \ {l}                       \* "expired" or "published"
    /\ msgs' = IF CurrentLease(leaseJob[l], l) THEN msgs \cup {l} ELSE msgs
    /\ UNCHANGED <<rows, early, leaseVars, taskVars, locked, seenActive, runs>>

\* The worker dies between the Redis enqueue and the commit: the message is
\* out, the wakeup is still pending and will be published again.
PublishCrash(l) ==
    /\ l \in pending
    /\ leaseJob[l] \notin locked
    /\ CurrentLease(leaseJob[l], l)
    /\ msgs' = msgs \cup {l}
    /\ UNCHANGED <<rows, early, leaseVars, pending, taskVars, locked, seenActive, runs>>

\* recover_expired_scheduler_leases: what becomes of the job, and of its source.
RecoveredState(j) ==
    CASE jobState[j] = "cancel_requested" \/ src[j] = "cancelled" -> "cancelled"
      [] src[j] \in Finished                                      -> "succeeded"
      [] jobState[j] = "leased" /\ src[j] = "queued"              -> "queued"
      [] OTHER                                                    -> "failed"

\* Faulty variant: the source of interrupted work is left running.
UnstartedSource(j) ==
    IF src[j] # "queued" THEN src[j]
    ELSE CASE RecoveredState(j) = "cancelled" /\ ~Build(j) -> "cancelled"
           [] RecoveredState(j) = "failed"                 -> "failed"
           [] OTHER                                        -> src[j]

RecoveredSource(j) ==
    IF src[j] \notin {"queued", "running"} THEN src[j]
    ELSE CASE RecoveredState(j) = "cancelled" /\ ~Build(j) -> "cancelled"
           [] RecoveredState(j) = "failed"                 -> "failed"
           [] OTHER                                        -> src[j]

\* Faulty variants: interrupted work is queued again; a job asked to cancel is
\* not recovered.
RecoverByReplay ==
    LET S == {j \in Jobs : Active(j) /\ jobLease[j] \in lapsed /\ j \notin locked}
    IN  /\ S # {}
        /\ jobState' = [j \in Jobs |-> IF j \in S THEN "queued" ELSE jobState[j]]
        /\ src' = [j \in Jobs |-> IF j \in S THEN "queued" ELSE src[j]]
        /\ jobLease' = [j \in Jobs |-> IF j \in S THEN NoLease ELSE jobLease[j]]
        /\ ExpireWakeups(S)
        /\ UNCHANGED <<early, leaseVars, msgs, taskVars, locked, seenActive, runs>>

RecoverUnasked ==
    LET S == {j \in Jobs : /\ jobState[j] \in {"leased", "running"}
                           /\ jobLease[j] \in lapsed /\ j \notin locked}
    IN  /\ S # {}
        /\ jobState' = [j \in Jobs |-> IF j \in S THEN RecoveredState(j) ELSE jobState[j]]
        /\ src' = [j \in Jobs |-> IF j \in S THEN RecoveredSource(j) ELSE src[j]]
        /\ jobLease' = [j \in Jobs |-> IF j \in S THEN NoLease ELSE jobLease[j]]
        /\ ExpireWakeups(S)
        /\ UNCHANGED <<early, leaseVars, msgs, taskVars, locked, seenActive, runs>>

Recover ==
    LET S == {j \in Jobs : Active(j) /\ jobLease[j] \in lapsed /\ j \notin locked}
    IN  /\ S # {}
        /\ jobState' = [j \in Jobs |-> IF j \in S THEN RecoveredState(j) ELSE jobState[j]]
        /\ src' = [j \in Jobs |-> IF j \in S THEN RecoveredSource(j) ELSE src[j]]
        /\ jobLease' = [j \in Jobs |-> IF j \in S THEN NoLease ELSE jobLease[j]]
        /\ ExpireWakeups(S)
        /\ UNCHANGED <<early, leaseVars, msgs, taskVars, locked, seenActive, runs>>

\* Time passes lease_expires_at, on the job row or on a task's copy of it.  ARQ
\* cancels a task 600 s after it started, the lease runs 600 s from the claim: a
\* punctual worker has no live task when its lease lapses; a stalled event loop
\* or a clock step can have one.
LeaseLapses(l) ==
    /\ l \notin lapsed
    /\ Live(l) \/ \E j \in Jobs : jobLease[j] = l
    /\ Punctual => ~Live(l)
    /\ lapsed' = lapsed \cup {l}
    /\ UNCHANGED <<rows, early, issued, leaseJob, turn, pending, msgs, taskVars, locked,
                   seenActive, runs>>

-----------------------------------------------------------------------------
(* scheduler_execute_task for lease l.  A message may be delivered any     *)
(* number of times: ARQ retries a job whose worker went away.              *)

\* claim_execution.  A message that fails the first checks does nothing.
Claim(l) ==
    LET j == leaseJob[l]
    IN  /\ l \in msgs
        /\ j \notin locked
        /\ CurrentLease(j, l)
        /\ \/ /\ src[j] = "queued"
              /\ jobState' = [jobState EXCEPT ![j] = "running"]
              /\ taskPc' = [taskPc EXCEPT ![l] = "claimed"]
              /\ UNCHANGED jobLease
           \/ /\ src[j] # "queued"          \* complete_execution(source_not_queued)
              /\ jobState' = [jobState EXCEPT ![j] = FinalState(src[j])]
              /\ jobLease' = [jobLease EXCEPT ![j] = NoLease]
              /\ UNCHANGED taskPc
        /\ UNCHANGED <<src, early, leaseVars, pending, msgs, taskResult, locked,
                       seenActive, runs>>

\* The first transaction of a runner, on the locked source row: "running",
\* or straight to "failed" when the snapshot is unusable (build, Bukvarix).
StartSource(l) ==
    LET j == leaseJob[l]
    IN  /\ taskPc[l] = "claimed"
        /\ \/ /\ src[j] = "queued"
              /\ src' = [src EXCEPT ![j] = "running"]
              /\ runs' = [runs EXCEPT ![j] = @ + 1]
              /\ taskPc' = [taskPc EXCEPT ![l] = "working"]
              /\ UNCHANGED taskResult
           \/ /\ src[j] = "queued" /\ ~Crawl(j)
              /\ src' = [src EXCEPT ![j] = "failed"]
              /\ taskPc' = [taskPc EXCEPT ![l] = "completing"]
              /\ taskResult' = [taskResult EXCEPT ![l] = "failed"]
              /\ UNCHANGED runs
           \/ /\ src[j] # "queued"
              /\ taskPc' = [taskPc EXCEPT ![l] = "completing"]
              /\ taskResult' = [taskResult EXCEPT ![l] = src[j]]
              /\ UNCHANGED <<src, runs>>
        /\ UNCHANGED <<jobState, jobLease, early, leaseVars, pending, msgs, locked, seenActive>>

\* run_queued_candidate_build after the build: _current_candidate_lease holds
\* the job row's lock up to the commit.  The session is opened with
\* expire_on_commit=False and the row is selected without populate_existing,
\* so the lease and the state it compares are the task's own copy from the
\* claim, and always agree; the expiry and the refreshed build are real.
FinishBuild(l) ==
    LET j == leaseJob[l]
    IN  /\ taskPc[l] = "working" /\ Build(j)
        /\ j \notin locked
        /\ \E result \in Outcomes(j) :
              IF l \notin lapsed /\ src[j] = "running"
              THEN /\ src' = [src EXCEPT ![j] = result]
                   /\ taskResult' = [taskResult EXCEPT ![l] = result]
              ELSE /\ taskResult' = [taskResult EXCEPT ![l] = "stale_lease"]
                   /\ UNCHANGED src
        /\ taskPc' = [taskPc EXCEPT ![l] = "completing"]
        /\ UNCHANGED <<jobState, jobLease, early, leaseVars, pending, msgs, locked,
                       seenActive, runs>>

\* The last read of a crawl or Bukvarix runner: db.get(populate_existing=True)
\* without a lock.  Anything but "running" is returned as the result.
ReadSource(l) ==
    LET j == leaseJob[l]
    IN  /\ taskPc[l] = "working" /\ ~Build(j)
        /\ \/ /\ src[j] = "running"
              /\ taskPc' = [taskPc EXCEPT ![l] = "writing"]
              /\ UNCHANGED taskResult
           \/ /\ src[j] # "running"
              /\ taskPc' = [taskPc EXCEPT ![l] = "completing"]
              /\ taskResult' = [taskResult EXCEPT ![l] = src[j]]
        /\ UNCHANGED <<rows, early, leaseVars, pending, msgs, locked, seenActive, runs>>

\* ... and the commit that follows it writes the outcome over whatever the
\* source has become in the meantime.
WriteSource(l) ==
    LET j == leaseJob[l]
    IN  /\ taskPc[l] = "writing"
        /\ \E result \in Outcomes(j) :
              /\ src' = [src EXCEPT ![j] = result]
              /\ taskResult' = [taskResult EXCEPT ![l] = result]
        /\ taskPc' = [taskPc EXCEPT ![l] = "completing"]
        /\ UNCHANGED <<jobState, jobLease, early, leaseVars, pending, msgs, locked,
                       seenActive, runs>>

\* complete_execution.  As in FinishBuild the row it compares with the lease
\* is the session's own copy (state "running", lease l), so the fence never
\* refuses, and the update overwrites the row whatever it holds by now.
Complete(l) ==
    LET j == leaseJob[l]
    IN  /\ taskPc[l] = "completing"
        /\ j \notin locked
        /\ jobState' = [jobState EXCEPT ![j] = FinalState(taskResult[l])]
        /\ jobLease' = [jobLease EXCEPT ![j] = NoLease]
        /\ taskPc' = [taskPc EXCEPT ![l] = "ended"]
        /\ taskResult' = [taskResult EXCEPT ![l] = "none"]
        /\ UNCHANGED <<src, early, leaseVars, pending, msgs, locked, seenActive, runs>>

\* The task ends without completing: job_timeout, an exception, a worker crash.
Kill(l) ==
    /\ Live(l)
    /\ taskPc' = [taskPc EXCEPT ![l] = "ended"]
    /\ taskResult' = [taskResult EXCEPT ![l] = "none"]
    /\ UNCHANGED <<rows, early, leaseVars, pending, msgs, locked, seenActive, runs>>

-----------------------------------------------------------------------------
(* Requests about a job (scheduled_work.py, projects.py).  A request locks *)
(* the job row, and then changes it or is refused with 409.                *)

LockRow(j) ==
    /\ jobState[j] # "absent"
    /\ j \notin locked
    /\ locked' = locked \cup {j}
    /\ UNCHANGED <<rows, early, leaseVars, pending, msgs, taskVars, seenActive, runs>>

Refuse(j) ==
    /\ j \in locked
    /\ locked' = locked \ {j}
    /\ UNCHANGED <<rows, early, leaseVars, pending, msgs, taskVars, seenActive, runs>>

Pause(j) ==
    /\ j \in locked
    /\ jobState[j] = "queued"
    /\ jobState' = [jobState EXCEPT ![j] = "paused"]
    /\ locked' = locked \ {j}
    /\ UNCHANGED <<jobLease, src, early, leaseVars, pending, msgs, taskVars, seenActive, runs>>

Resume(j) ==
    /\ j \in locked
    /\ jobState[j] = "paused"
    /\ jobState' = [jobState EXCEPT ![j] = "queued"]
    /\ locked' = locked \ {j}
    /\ UNCHANGED <<jobLease, src, early, leaseVars, pending, msgs, taskVars, seenActive, runs>>

\* cancel_job: a running crawl is asked to stop, unstarted work is cancelled.
CancelJob(j) ==
    \/ /\ jobState[j] = "running" /\ Crawl(j)
       /\ jobState' = [jobState EXCEPT ![j] = "cancel_requested"]
       /\ src' = [src EXCEPT ![j] = "cancelled"]
       /\ UNCHANGED <<jobLease, pending>>
    \/ /\ jobState[j] \in {"queued", "paused", "leased"}
       /\ jobState' = [jobState EXCEPT ![j] = "cancelled"]
       /\ src' = [src EXCEPT ![j] = IF Build(j) THEN "failed" ELSE "cancelled"]
       /\ jobLease' = [jobLease EXCEPT ![j] = NoLease]
       /\ ExpireWakeups({j})

Cancel(j) ==
    /\ j \in locked
    /\ src[j] \in {"queued", "running"}
    /\ CancelJob(j)
    /\ locked' = locked \ {j}
    /\ UNCHANGED <<early, leaseVars, msgs, taskVars, seenActive, runs>>

\* cancel_domain_crawl reads the crawl first, without a lock ...
ReadCrawl(j) ==
    /\ Crawl(j)
    /\ src[j] \in {"queued", "running"}
    /\ seenActive' = seenActive \cup {j}
    /\ UNCHANGED <<rows, early, leaseVars, pending, msgs, taskVars, locked, runs>>

\* ... then locks the job; the source cancel_job gets is the copy read before.
CancelDomainCrawl(j) ==
    /\ j \in seenActive
    /\ j \notin locked
    /\ \/ CancelJob(j)
       \/ /\ jobState[j] \in {"cancel_requested"} \cup TerminalStates
          /\ UNCHANGED <<rows, pending>>
    /\ seenActive' = seenActive \ {j}
    /\ UNCHANGED <<early, leaseVars, msgs, taskVars, locked, runs>>

\* retry_project_build with requeue_site_build_job.  A queued job is left as it
\* is; an active or succeeded one refuses, and the request is rolled back.
Retry(j) ==
    /\ j \in locked
    /\ Build(j) /\ src[j] = "failed"
    /\ jobState[j] \in {"queued", "failed", "cancelled", "paused"}
    /\ src' = [src EXCEPT ![j] = "queued"]
    /\ jobState' = [jobState EXCEPT ![j] = "queued"]
    /\ jobLease' = [jobLease EXCEPT ![j] = NoLease]
    /\ early' = IF jobState[j] = "queued" THEN early ELSE early \ {j}
    /\ runs' = [runs EXCEPT ![j] = 0]
    /\ locked' = locked \ {j}
    /\ UNCHANGED <<leaseVars, pending, msgs, taskVars, seenActive>>

-----------------------------------------------------------------------------
TaskStep(l) ==
    \/ StartSource(l) \/ FinishBuild(l) \/ ReadSource(l) \/ WriteSource(l)
    \/ Complete(l) \/ Kill(l)

RequestStep(j) ==
    \/ LockRow(j) \/ Refuse(j) \/ Pause(j) \/ Resume(j) \/ Cancel(j) \/ Retry(j)
    \/ ReadCrawl(j) \/ CancelDomainCrawl(j)

System ==
    \/ \E j \in Jobs : Create(j) \/ NotBeforePasses(j) \/ Dispatch(j) \/ RequestStep(j)
    \/ \E l \in Leases : Publish(l) \/ PublishCrash(l) \/ LeaseLapses(l) \/ Claim(l)
                            \/ TaskStep(l)
    \/ Recover

\* passed[q]: the projects dispatched since q has had due work.
Dispatched == {ProjectOf[j] : j \in {k \in Jobs : jobState[k] = "queued"
                                                    /\ jobState'[k] = "leased"}}
Overtake ==
    passed' = [q \in Projects |-> IF q \in DueProjects /\ q \in DueProjects'
                                     /\ q \notin Dispatched
                                  THEN passed[q] \cup Dispatched ELSE {}]

Next == System /\ Overtake

Spec == Init /\ [][Next]_vars

\* The sweep runs every minute, time passes, an operator's request ends, and a
\* task ends by itself or is killed by ARQ's job_timeout.  Nothing is assumed
\* of Redis (a message may never be delivered) nor of the operator.
Fairness ==
    /\ \A l \in Leases : WF_vars(LeaseLapses(l) /\ Overtake)
    /\ \A l \in Leases : WF_vars(TaskStep(l) /\ Overtake)
    /\ \A j \in Jobs : WF_vars(Refuse(j) /\ Overtake)
    /\ SF_vars(Recover /\ Overtake)

FairSpec == Spec /\ Fairness

-----------------------------------------------------------------------------
(* Properties.                                                             *)

StateTypes ==
    /\ jobState \in [Jobs -> JobStates]
    /\ jobLease \in [Jobs -> Leases \cup {NoLease}]
    /\ src \in [Jobs -> SrcStates]
    /\ early \subseteq Jobs
    /\ turn \in [Projects -> Nat]
    /\ issued \in 0 .. MaxLease
    /\ leaseJob \in [Leases -> Jobs \cup {NoJob}]
    /\ lapsed \subseteq Leases
    /\ pending \subseteq Leases
    /\ msgs \subseteq Leases
    /\ taskPc \in [Leases -> TaskPcs]
    /\ taskResult \in [Leases -> SrcStates \cup {"none", "stale_lease"}]
    /\ locked \subseteq Jobs
    /\ seenActive \subseteq Jobs
    /\ runs \in [Jobs -> Nat]

TypeOK == StateTypes /\ passed \in [Projects -> SUBSET Projects]

\* _MAX_CONCURRENCY = 1: whatever the sweep, the workers and the operator do,
\* at most one job holds a lease (scheduler.py, dispatch_due_jobs).
OneActiveJob == \A i, j \in Jobs : Active(i) /\ Active(j) => i = j

\* With a punctual worker the executors respect the capacity too: a live task
\* is the executor of the lease its job holds, so there is at most one
\* (recover_expired_scheduler_leases "Fence timed-out workers").
OneExecutor ==
    Punctual => /\ \A l \in Leases : Live(l) =>
                      /\ jobState[leaseJob[l]] \in {"running", "cancel_requested"}
                      /\ jobLease[leaseJob[l]] = l
                /\ \A k, l \in Leases : Live(k) /\ Live(l) => k = l

\* With a punctual worker a job and its source never disagree on where the
\* work stands: work that waits has not started, a running source is owned by
\* an active job (so it cannot block a slot for ever), and a settled job has a
\* settled source that carries the same verdict, except a crawl that was
\* cancelled by a request holding an old copy of the row.
Agreement ==
    Punctual => \A j \in Jobs :
        /\ jobState[j] \in {"queued", "paused", "leased"} => src[j] = "queued"
        /\ src[j] = "running" => jobState[j] \in {"running", "cancel_requested"}
        /\ jobState[j] = "succeeded" =>
              src[j] \in Finished \/ (Crawl(j) /\ src[j] = "cancelled")
        /\ jobState[j] = "failed" =>
              src[j] \in {"failed", "blocked"} \/ (Crawl(j) /\ src[j] = "cancelled")
        /\ jobState[j] = "cancelled" => src[j] \notin {"queued", "running"}

\* "requeue only work that never started": between two requests of the
\* operator the source of a job is started at most once, however often its
\* lease lapses, its message is repeated or its worker dies.
NoReplay == \A j \in Jobs : runs[j] <= 1

\* A lease is claimed at most once, although its message may be in Redis twice
\* (published, then published again after a crash) and delivered repeatedly.
ClaimedOnce ==
    [][\A l \in Leases : taskPc'[l] = "claimed" => taskPc[l] \in {"none", "claimed"}]_vars

\* Fair rotation: while project q has due work that dispatch may take, a
\* project that already had its turn since q began waiting gets no second one.
NoSecondTurn ==
    [][\A q \in Projects : Selectable(q) => passed[q] \cap (Dispatched \ {q}) = {}]_vars

\* A job never keeps the only slot for ever: it settles or returns to the queue.
SlotIsFreed == \A j \in Jobs : Active(j) ~> ~Active(j)

\* A source never stays "running" for ever (it would count in _active_slots).
RunningEnds == \A j \in Jobs : src[j] = "running" ~> src[j] # "running"
=============================================================================
