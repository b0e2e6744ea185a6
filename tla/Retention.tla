------------------------------ MODULE Retention ------------------------------
(***************************************************************************)
(* Deletion of old rows of a tenant (services/storage_retention.py): the   *)
(* operator's preview and its confirmation, the daily schedule, and the    *)
(* worker that executes one queued run.  The policy is read from the       *)
(* settings of the process, so it changes with a deployment.               *)
(*                                                                         *)
(* A row is its kind and its age in days; open rows (live sessions, unread *)
(* notifications, deliveries under way) are not selected by any source.    *)
(***************************************************************************)
EXTENDS Naturals, Sequences, FiniteSets

CONSTANTS Operators, OldRows, Policies, MaxAge, MaxRetentionRuns

ASSUME RetentionAssumption == Policies \subseteq Nat /\ {MaxAge, MaxRetentionRuns} \subseteq Nat

VARIABLES
  policy,     \* days a closed row is kept, of the running code
  rowsKept,   \* row -> age and whether it is closed, of rows not deleted
  retention,  \* StorageRetentionRun rows
  purging     \* the run a worker executes, 0 for none

retentionVars == <<policy, rowsKept, retention, purging>>

RetentionRow ==
  [by : Operators \cup {"schedule"}, policy : Policies, removed : SUBSET (0..MaxAge),
   status : {"preview", "expired", "queued", "processing", "succeeded", "failed"}]

RetentionTypeOK ==
  /\ policy \in Policies
  /\ rowsKept \in UNION {[R -> [age : 0..MaxAge, closed : BOOLEAN]] : R \in SUBSET OldRows}
  /\ retention \in Seq(RetentionRow) /\ Len(retention) <= MaxRetentionRuns
  /\ purging \in 0..MaxRetentionRuns

RetentionInit ==
  /\ policy \in Policies
  /\ rowsKept = [r \in OldRows |-> [age |-> 0, closed |-> FALSE]]
  /\ retention = <<>> /\ purging = 0

Add(by, status) ==
  /\ Len(retention) < MaxRetentionRuns
  /\ retention' = Append(retention, [by |-> by, policy |-> policy, removed |-> {}, status |-> status])

-----------------------------------------------------------------------------
\* build_preview: counts what would go, with the hash of the policy of now.
BuildPreview(o) == Add(o, "preview") /\ UNCHANGED <<policy, rowsKept, purging>>

ExpirePreview(n) ==
  /\ retention[n].status = "preview"
  /\ retention' = [retention EXCEPT ![n].status = "expired"]
  /\ UNCHANGED <<policy, rowsKept, purging>>

\* queue_preview_run: the same operator, in time, under the same policy.
QueuePreviewRun(o, n) ==
  /\ retention[n].by = o /\ retention[n].status = "preview" /\ retention[n].policy = policy
  /\ retention' = [retention EXCEPT ![n].status = "queued"]
  /\ UNCHANGED <<policy, rowsKept, purging>>

\* queue_scheduled_retention_runs: not while a run waits or is executed.
QueueScheduledRun ==
  /\ \A n \in DOMAIN retention : retention[n].status \notin {"queued", "processing"}
  /\ Add("schedule", "queued")
  /\ UNCHANGED <<policy, rowsKept, purging>>

-----------------------------------------------------------------------------
\* Mutant of SamePolicy: the run is executed whatever was confirmed.
AnyPolicy(n) == TRUE

SamePolicy(n) == retention[n].policy = policy

\* process_queued_retention_runs takes one run at a time.
TakeRetentionRun(n) ==
  /\ retention[n].status = "queued" /\ purging = 0
  /\ IF SamePolicy(n)
     THEN purging' = n /\ retention' = [retention EXCEPT ![n].status = "processing"]
     ELSE UNCHANGED purging /\ retention' = [retention EXCEPT ![n].status = "failed"]
  /\ UNCHANGED <<policy, rowsKept>>

Expired == {r \in DOMAIN rowsKept : rowsKept[r].closed /\ rowsKept[r].age > policy}

\* _execute_run: every source in one transaction under the advisory lock.
Purge ==
  /\ purging # 0
  /\ rowsKept' = [r \in DOMAIN rowsKept \ Expired |-> rowsKept[r]]
  /\ retention' = [retention EXCEPT ![purging].status = "succeeded",
                     ![purging].removed = {rowsKept[r].age : r \in Expired}]
  /\ purging' = 0
  /\ UNCHANGED policy

FailPurge ==
  /\ purging # 0
  /\ retention' = [retention EXCEPT ![purging].status = "failed"]
  /\ purging' = 0
  /\ UNCHANGED <<policy, rowsKept>>

\* A worker that dies leaves the run processing; so does a deployment, which
\* may bring another policy.
Deploy(p) ==
  /\ purging' = 0 /\ policy' = p
  /\ UNCHANGED <<rowsKept, retention>>

\* A day passes, or a row is closed.
NextDay ==
  /\ \E r \in DOMAIN rowsKept : rowsKept[r].age < MaxAge
  /\ rowsKept' = [r \in DOMAIN rowsKept |->
       [rowsKept[r] EXCEPT !.age = IF @ < MaxAge THEN @ + 1 ELSE @]]
  /\ UNCHANGED <<policy, retention, purging>>

CloseRow(r) ==
  /\ ~rowsKept[r].closed
  /\ rowsKept' = [rowsKept EXCEPT ![r].closed = TRUE]
  /\ UNCHANGED <<policy, retention, purging>>

RetentionNext ==
  \/ \E o \in Operators : BuildPreview(o) \/ \E n \in DOMAIN retention : QueuePreviewRun(o, n)
  \/ \E n \in DOMAIN retention : ExpirePreview(n) \/ TakeRetentionRun(n)
  \/ QueueScheduledRun \/ Purge \/ FailPurge \/ NextDay
  \/ \E p \in Policies : Deploy(p)
  \/ \E r \in DOMAIN rowsKept : CloseRow(r)

RetentionSpec == RetentionInit /\ [][RetentionNext]_retentionVars

-----------------------------------------------------------------------------
\* What a run deleted is older than the policy that was shown and confirmed
\* for it, whatever was deployed between the preview and the execution
\* (process_queued_retention_runs).
PurgedAsConfirmed ==
  \A n \in DOMAIN retention : \A age \in retention[n].removed : age > retention[n].policy
=============================================================================
