--------------------------- MODULE SchedulerProofs ---------------------------
(***************************************************************************)
(* Proofs about Scheduler for any number of jobs, projects and leases.     *)
(*                                                                         *)
(* LeaseInv is what makes "at most one active job" inductive: the lease of *)
(* a job row is one that was issued for that job, leases not issued yet    *)
(* have left no trace, and a job that waits for its executor has none.     *)
(* SourceInv is what makes Agreement inductive when the worker is          *)
(* punctual: it ties the program counter of the executor to the status of  *)
(* the source.                                                             *)
(***************************************************************************)
EXTENDS Scheduler, FiniteSetTheorems, TLAPS

HeldByActive == \A j \in Jobs : Active(j) <=> jobLease[j] # NoLease

HeldWasIssued == \A j \in Jobs : jobLease[j] # NoLease =>
                    jobLease[j] <= issued /\ leaseJob[jobLease[j]] = j

UnissuedUnused == \A l \in Leases : l > issued =>
                     /\ taskPc[l] = "none"
                     /\ l \notin msgs /\ l \notin pending /\ l \notin lapsed

IssuedForJob == \A l \in Leases : l <= issued => leaseJob[l] \in Jobs

WaitsUnclaimed == \A j \in Jobs : jobState[j] = "leased" => taskPc[jobLease[j]] = "none"

OnlyCrawlsAsked == \A j \in Jobs : jobState[j] = "cancel_requested" => Crawl(j)

LeaseInv == /\ HeldByActive /\ HeldWasIssued /\ UnissuedUnused /\ IssuedForJob
            /\ WaitsUnclaimed /\ OnlyCrawlsAsked

\* The result an executor will report, against the source it has left.
ResultFits(l) ==
    LET j == leaseJob[l]
    IN  /\ taskResult[l] \in Finished \cup {"failed", "blocked", "cancelled"}
        /\ src[j] = taskResult[l] \/ (Crawl(j) /\ src[j] = "cancelled")

\* What holds of a live executor: its lease is in time and on its job row, and
\* the source is where its program counter says, or was cancelled meanwhile.
ExecutorFits(l) ==
    LET j == leaseJob[l]
    IN  /\ l \notin lapsed
        /\ jobState[j] \in {"running", "cancel_requested"}
        /\ jobLease[j] = l
        /\ taskPc[l] = "claimed" => src[j] \in {"queued", "cancelled"}
        /\ taskPc[l] = "working" => src[j] = "running" \/ (Crawl(j) /\ src[j] = "cancelled")
        /\ taskPc[l] = "writing" => src[j] \in {"running", "cancelled"} /\ ~Build(j)
        /\ taskPc[l] = "completing" => ResultFits(l)
        /\ src[j] = "cancelled" => Crawl(j)

SourceInv == Punctual => \A l \in Leases : Live(l) => ExecutorFits(l)

RunsInv == \A j \in Jobs : runs[j] <= 1 /\ (src[j] \in {"absent", "queued"} => runs[j] = 0)

AbsentInv == /\ \A j \in Jobs : jobState[j] = "absent" <=> src[j] = "absent"
             /\ \A j \in Jobs : jobState[j] = "absent" =>
                   \A l \in Leases : l <= issued => leaseJob[l] # j

\* Whoever was dispatched while q waits sorts behind q.
TurnOrder == \A q \in DueProjects : \A p \in passed[q] : turn[q] < turn[p]

IInv == /\ TypeOK /\ LeaseInv /\ OneActiveJob /\ SourceInv /\ Agreement /\ RunsInv
        /\ AbsentInv /\ TurnOrder

-----------------------------------------------------------------------------
(* Facts about the operators.                                              *)

\* complete_execution maps every result to a terminal job state.
LEMMA FinalStateCases ==
    ASSUME NEW r
    PROVE  /\ r = "cancelled" => FinalState(r) = "cancelled"
           /\ r \in Finished => FinalState(r) = "succeeded"
           /\ r # "cancelled" /\ r \notin Finished => FinalState(r) = "failed"
           /\ FinalState(r) \in TerminalStates
BY DEF FinalState, Finished, TerminalStates

\* A runner ends as a success, as failed or as blocked, never as cancelled.
LEMMA OutcomesCases ==
    ASSUME NEW j \in Jobs
    PROVE  Outcomes(j) \subseteq Finished \cup {"failed", "blocked"}
<1>1. TypeOf[j] \in WorkTypes
    BY JobsAssumption
<1>. QED
    BY <1>1 DEF Outcomes, Finished, WorkTypes

\* Dispatch goes on only when no job is active and no source is running.
LEMMA FreeSlot ==
    ASSUME ActiveSlots < MaxConcurrency
    PROVE  \A j \in Jobs : ~Active(j) /\ src[j] # "running"
<1>. DEFINE A == {j \in Jobs : Active(j)}
            B == {j \in Jobs : src[j] = "running" /\ ~Active(j)}
<1>1. IsFiniteSet(A) /\ IsFiniteSet(B)
    BY JobsAssumption, FS_Subset
<1>2. Cardinality(A) \in Nat /\ Cardinality(B) \in Nat
    BY <1>1, FS_CardinalityType
<1>3. Cardinality(A) + Cardinality(B) < 1
    BY DEF ActiveSlots, MaxConcurrency
<1>4. Cardinality(A) = 0 /\ Cardinality(B) = 0
    BY <1>2, <1>3
<1>5. A = {} /\ B = {}
    BY <1>1, <1>4, FS_EmptySet
<1>. QED
    BY <1>5

\* A lease with an executor or a message was issued, so it has a job.
LEMMA LeaseHasJob ==
    ASSUME StateTypes, LeaseInv, NEW l \in Leases,
           taskPc[l] # "none" \/ l \in msgs \/ l \in pending
    PROVE  leaseJob[l] \in Jobs /\ l <= issued
<1>1. l \in Int /\ issued \in Int
    BY JobsAssumption DEF StateTypes, Leases
<1>2. ~(l > issued)
    BY DEF LeaseInv, UnissuedUnused
<1>. QED
    BY <1>1, <1>2 DEF LeaseInv, IssuedForJob

-----------------------------------------------------------------------------
(* Types.                                                                  *)

\* Every step keeps every variable in its type.
LEMMA StateTypesStep ==
    ASSUME StateTypes, LeaseInv, System
    PROVE  StateTypes'
<1>. USE DEF StateTypes, rows, leaseVars, taskVars
<1>1. ASSUME NEW j \in Jobs, Create(j) PROVE StateTypes'
    BY <1>1 DEF Create, JobStates, ActiveStates, TerminalStates, SrcStates,
       Finished
<1>2. ASSUME NEW j \in Jobs, NotBeforePasses(j) PROVE StateTypes'
    BY <1>2 DEF NotBeforePasses
<1>3. ASSUME NEW j \in Jobs, Dispatch(j) PROVE StateTypes'
    <2>1. turn' \in [Projects -> Nat]
        <3>1. PICK last \in DueProjects : turn' = [turn EXCEPT ![ProjectOf[j]] = turn[last] + 1]
            BY <1>3 DEF Dispatch
        <3>2. last \in Projects
            BY JobsAssumption DEF DueProjects
        <3>3. turn \in [Projects -> Nat]
            OBVIOUS
        <3>4. turn[last] \in Nat
            BY <3>2, <3>3
        <3>5. turn[last] + 1 \in Nat
            BY <3>4
        <3>. QED
            BY <3>1, <3>3, <3>5
    <2>2. issued' \in 0 .. MaxLease /\ issued + 1 \in Leases
        BY <1>3, JobsAssumption DEF Dispatch, Leases
    <2>. QED
        BY <1>3, <2>1, <2>2 DEF Dispatch, JobStates, ActiveStates
<1>4. ASSUME NEW j \in Jobs, LockRow(j) PROVE StateTypes'
    BY <1>4 DEF LockRow
<1>5. ASSUME NEW j \in Jobs, Refuse(j) PROVE StateTypes'
    BY <1>5 DEF Refuse
<1>6. ASSUME NEW j \in Jobs, Pause(j) PROVE StateTypes'
    BY <1>6 DEF Pause, JobStates, ActiveStates, TerminalStates
<1>7. ASSUME NEW j \in Jobs, Resume(j) PROVE StateTypes'
    BY <1>7 DEF Resume, JobStates, ActiveStates, TerminalStates
<1>8. ASSUME NEW j \in Jobs, Cancel(j) PROVE StateTypes'
    BY <1>8 DEF Cancel, CancelJob, ExpireWakeups, JobStates, ActiveStates,
       TerminalStates, SrcStates, Finished
<1>9. ASSUME NEW j \in Jobs, Retry(j) PROVE StateTypes'
    BY <1>9 DEF Retry, JobStates, ActiveStates, TerminalStates, SrcStates,
       Finished
<1>10. ASSUME NEW j \in Jobs, ReadCrawl(j) PROVE StateTypes'
    BY <1>10 DEF ReadCrawl
<1>11. ASSUME NEW j \in Jobs, CancelDomainCrawl(j) PROVE StateTypes'
    BY <1>11 DEF CancelDomainCrawl, CancelJob, ExpireWakeups, JobStates,
       ActiveStates, TerminalStates, SrcStates, Finished
<1>12. ASSUME NEW l \in Leases, Publish(l) PROVE StateTypes'
    BY <1>12 DEF Publish, CurrentLease
<1>13. ASSUME NEW l \in Leases, PublishCrash(l) PROVE StateTypes'
    BY <1>13 DEF PublishCrash, CurrentLease
<1>14. ASSUME NEW l \in Leases, LeaseLapses(l) PROVE StateTypes'
    BY <1>14 DEF LeaseLapses
<1>15. ASSUME NEW l \in Leases, Claim(l) PROVE StateTypes'
    <2>1. leaseJob[l] \in Jobs
        BY <1>15, LeaseHasJob DEF Claim, LivePcs
    <2>2. jobState' \in [Jobs -> JobStates]
        BY <1>15, <2>1, FinalStateCases DEF Claim, JobStates, ActiveStates, TerminalStates
    <2>3. jobLease' \in [Jobs -> Leases \cup {NoLease}]
        BY <1>15, <2>1 DEF Claim
    <2>4. taskPc' \in [Leases -> TaskPcs]
        BY <1>15, <2>1 DEF Claim, TaskPcs, LivePcs
    <2>. QED
        BY <1>15, <2>2, <2>3, <2>4 DEF Claim
<1>16. ASSUME NEW l \in Leases, StartSource(l) PROVE StateTypes'
    <2>1. leaseJob[l] \in Jobs
        BY <1>16, LeaseHasJob DEF StartSource, LivePcs
    <2>2. src' \in [Jobs -> SrcStates]
        BY <1>16, <2>1 DEF StartSource, SrcStates, Finished
    <2>3. runs' \in [Jobs -> Nat]
        BY <1>16, <2>1 DEF StartSource
    <2>4. taskPc' \in [Leases -> TaskPcs]
        BY <1>16, <2>1 DEF StartSource, TaskPcs, LivePcs
    <2>5. taskResult' \in [Leases -> SrcStates \cup {"none", "stale_lease"}]
        BY <1>16, <2>1 DEF StartSource, SrcStates, Finished
    <2>. QED
        BY <1>16, <2>2, <2>3, <2>4, <2>5 DEF StartSource
<1>17. ASSUME NEW l \in Leases, FinishBuild(l) PROVE StateTypes'
    <2>1. leaseJob[l] \in Jobs
        BY <1>17, LeaseHasJob DEF FinishBuild, LivePcs
    <2>2. src' \in [Jobs -> SrcStates]
        BY <1>17, <2>1, OutcomesCases DEF FinishBuild, SrcStates, Finished
    <2>3. taskPc' \in [Leases -> TaskPcs]
        BY <1>17, <2>1 DEF FinishBuild, TaskPcs, LivePcs
    <2>4. taskResult' \in [Leases -> SrcStates \cup {"none", "stale_lease"}]
        BY <1>17, <2>1, OutcomesCases DEF FinishBuild, SrcStates, Finished
    <2>. QED
        BY <1>17, <2>2, <2>3, <2>4 DEF FinishBuild
<1>18. ASSUME NEW l \in Leases, ReadSource(l) PROVE StateTypes'
    <2>1. leaseJob[l] \in Jobs
        BY <1>18, LeaseHasJob DEF ReadSource, LivePcs
    <2>2. taskPc' \in [Leases -> TaskPcs]
        BY <1>18, <2>1 DEF ReadSource, TaskPcs, LivePcs
    <2>3. taskResult' \in [Leases -> SrcStates \cup {"none", "stale_lease"}]
        BY <1>18, <2>1 DEF ReadSource, SrcStates, Finished
    <2>. QED
        BY <1>18, <2>2, <2>3 DEF ReadSource
<1>19. ASSUME NEW l \in Leases, WriteSource(l) PROVE StateTypes'
    <2>1. leaseJob[l] \in Jobs
        BY <1>19, LeaseHasJob DEF WriteSource, LivePcs
    <2>2. src' \in [Jobs -> SrcStates]
        BY <1>19, <2>1, OutcomesCases DEF WriteSource, SrcStates, Finished
    <2>3. taskPc' \in [Leases -> TaskPcs]
        BY <1>19, <2>1 DEF WriteSource, TaskPcs, LivePcs
    <2>4. taskResult' \in [Leases -> SrcStates \cup {"none", "stale_lease"}]
        BY <1>19, <2>1, OutcomesCases DEF WriteSource, SrcStates, Finished
    <2>. QED
        BY <1>19, <2>2, <2>3, <2>4 DEF WriteSource
<1>20. ASSUME NEW l \in Leases, Complete(l) PROVE StateTypes'
    <2>1. leaseJob[l] \in Jobs
        BY <1>20, LeaseHasJob DEF Complete, LivePcs
    <2>2. jobState' \in [Jobs -> JobStates]
        BY <1>20, <2>1, FinalStateCases DEF Complete, JobStates, ActiveStates, TerminalStates
    <2>3. jobLease' \in [Jobs -> Leases \cup {NoLease}]
        BY <1>20, <2>1 DEF Complete
    <2>4. taskPc' \in [Leases -> TaskPcs]
        BY <1>20, <2>1 DEF Complete, TaskPcs, LivePcs
    <2>5. taskResult' \in [Leases -> SrcStates \cup {"none", "stale_lease"}]
        BY <1>20, <2>1, FinalStateCases DEF Complete, SrcStates, Finished
    <2>. QED
        BY <1>20, <2>2, <2>3, <2>4, <2>5 DEF Complete
<1>21. ASSUME NEW l \in Leases, Kill(l) PROVE StateTypes'
    BY <1>21 DEF Kill, TaskPcs, SrcStates, Finished
<1>22. ASSUME Recover PROVE StateTypes'
    BY <1>22 DEF Recover, RecoveredState, RecoveredSource, ExpireWakeups, JobStates,
       ActiveStates, TerminalStates, SrcStates, Finished
<1>. QED
    BY <1>1, <1>2, <1>3, <1>4, <1>5, <1>6, <1>7, <1>8, <1>9, <1>10, <1>11,
       <1>12, <1>13, <1>14, <1>15, <1>16, <1>17, <1>18, <1>19, <1>20,
       <1>21, <1>22
    DEF System, RequestStep, TaskStep

-----------------------------------------------------------------------------
(* Leases.                                                                 *)

\* Every step keeps the leases of the job rows, and what was issued, in order:
\* only Dispatch issues a lease, and whatever ends an active state clears it.
LEMMA LeaseInvStep ==
    ASSUME StateTypes, LeaseInv, System
    PROVE  LeaseInv'
<1>. USE DEF StateTypes, LeaseInv, rows, leaseVars, taskVars
<1>1. ASSUME NEW j \in Jobs, Create(j) PROVE LeaseInv'
    BY <1>1 DEF Create, Active, ActiveStates, NoLease, Leases, HeldByActive,
       HeldWasIssued, UnissuedUnused, IssuedForJob, WaitsUnclaimed,
       OnlyCrawlsAsked
<1>2. ASSUME NEW j \in Jobs, NotBeforePasses(j) PROVE LeaseInv'
    BY <1>2 DEF NotBeforePasses, Active, ActiveStates, NoLease, Leases,
       HeldByActive, HeldWasIssued, UnissuedUnused, IssuedForJob,
       WaitsUnclaimed, OnlyCrawlsAsked
<1>3. ASSUME NEW j \in Jobs, Dispatch(j) PROVE LeaseInv'
    <2>1. issued + 1 \in Leases /\ issued' = issued + 1
        BY <1>3, JobsAssumption DEF Dispatch, Leases
    <2>2. HeldByActive'
        BY <1>3, <2>1 DEF Dispatch, Active, ActiveStates, NoLease, Leases,
           HeldByActive, HeldWasIssued, UnissuedUnused, IssuedForJob,
           WaitsUnclaimed, OnlyCrawlsAsked
    <2>3. HeldWasIssued'
        BY <1>3, <2>1 DEF Dispatch, Active, ActiveStates, NoLease, Leases,
           HeldByActive, HeldWasIssued, UnissuedUnused, IssuedForJob,
           WaitsUnclaimed, OnlyCrawlsAsked
    <2>4. UnissuedUnused'
        BY <1>3, <2>1 DEF Dispatch, Active, ActiveStates, NoLease, Leases,
           HeldByActive, HeldWasIssued, UnissuedUnused, IssuedForJob,
           WaitsUnclaimed, OnlyCrawlsAsked
    <2>5. IssuedForJob'
        BY <1>3, <2>1 DEF Dispatch, Active, ActiveStates, NoLease, Leases,
           HeldByActive, HeldWasIssued, UnissuedUnused, IssuedForJob,
           WaitsUnclaimed, OnlyCrawlsAsked
    <2>6. WaitsUnclaimed'
        BY <1>3, <2>1 DEF Dispatch, Active, ActiveStates, NoLease, Leases,
           HeldByActive, HeldWasIssued, UnissuedUnused, IssuedForJob,
           WaitsUnclaimed, OnlyCrawlsAsked
    <2>7. OnlyCrawlsAsked'
        BY <1>3, <2>1 DEF Dispatch, Active, ActiveStates, NoLease, Leases,
           HeldByActive, HeldWasIssued, UnissuedUnused, IssuedForJob,
           WaitsUnclaimed, OnlyCrawlsAsked
    <2>. QED
        BY <2>2, <2>3, <2>4, <2>5, <2>6, <2>7
<1>4. ASSUME NEW j \in Jobs, LockRow(j) PROVE LeaseInv'
    BY <1>4 DEF LockRow, Active, ActiveStates, NoLease, Leases, HeldByActive,
       HeldWasIssued, UnissuedUnused, IssuedForJob, WaitsUnclaimed,
       OnlyCrawlsAsked
<1>5. ASSUME NEW j \in Jobs, Refuse(j) PROVE LeaseInv'
    BY <1>5 DEF Refuse, Active, ActiveStates, NoLease, Leases, HeldByActive,
       HeldWasIssued, UnissuedUnused, IssuedForJob, WaitsUnclaimed,
       OnlyCrawlsAsked
<1>6. ASSUME NEW j \in Jobs, Pause(j) PROVE LeaseInv'
    BY <1>6 DEF Pause, Active, ActiveStates, NoLease, Leases, HeldByActive,
       HeldWasIssued, UnissuedUnused, IssuedForJob, WaitsUnclaimed,
       OnlyCrawlsAsked
<1>7. ASSUME NEW j \in Jobs, Resume(j) PROVE LeaseInv'
    BY <1>7 DEF Resume, Active, ActiveStates, NoLease, Leases, HeldByActive,
       HeldWasIssued, UnissuedUnused, IssuedForJob, WaitsUnclaimed,
       OnlyCrawlsAsked
<1>8. ASSUME NEW j \in Jobs, Cancel(j) PROVE LeaseInv'
    <2>1. HeldByActive'
        BY <1>8 DEF Cancel, CancelJob, ExpireWakeups, Active, ActiveStates,
           NoLease, Leases, HeldByActive, HeldWasIssued, UnissuedUnused,
           IssuedForJob, WaitsUnclaimed, OnlyCrawlsAsked
    <2>2. HeldWasIssued'
        BY <1>8 DEF Cancel, CancelJob, ExpireWakeups, Active, ActiveStates,
           NoLease, Leases, HeldByActive, HeldWasIssued, UnissuedUnused,
           IssuedForJob, WaitsUnclaimed, OnlyCrawlsAsked
    <2>3. UnissuedUnused'
        BY <1>8 DEF Cancel, CancelJob, ExpireWakeups, Active, ActiveStates,
           NoLease, Leases, HeldByActive, HeldWasIssued, UnissuedUnused,
           IssuedForJob, WaitsUnclaimed, OnlyCrawlsAsked
    <2>4. IssuedForJob'
        BY <1>8 DEF Cancel, CancelJob, ExpireWakeups, Active, ActiveStates,
           NoLease, Leases, HeldByActive, HeldWasIssued, UnissuedUnused,
           IssuedForJob, WaitsUnclaimed, OnlyCrawlsAsked
    <2>5. WaitsUnclaimed'
        BY <1>8 DEF Cancel, CancelJob, ExpireWakeups, Active, ActiveStates,
           NoLease, Leases, HeldByActive, HeldWasIssued, UnissuedUnused,
           IssuedForJob, WaitsUnclaimed, OnlyCrawlsAsked
    <2>6. OnlyCrawlsAsked'
        BY <1>8 DEF Cancel, CancelJob, ExpireWakeups, Active, ActiveStates,
           NoLease, Leases, HeldByActive, HeldWasIssued, UnissuedUnused,
           IssuedForJob, WaitsUnclaimed, OnlyCrawlsAsked
    <2>. QED
        BY <2>1, <2>2, <2>3, <2>4, <2>5, <2>6
<1>9. ASSUME NEW j \in Jobs, Retry(j) PROVE LeaseInv'
    BY <1>9 DEF Retry, Active, ActiveStates, NoLease, Leases, HeldByActive,
       HeldWasIssued, UnissuedUnused, IssuedForJob, WaitsUnclaimed,
       OnlyCrawlsAsked, TerminalStates
<1>10. ASSUME NEW j \in Jobs, ReadCrawl(j) PROVE LeaseInv'
    BY <1>10 DEF ReadCrawl, Active, ActiveStates, NoLease, Leases,
       HeldByActive, HeldWasIssued, UnissuedUnused, IssuedForJob,
       WaitsUnclaimed, OnlyCrawlsAsked
<1>11. ASSUME NEW j \in Jobs, CancelDomainCrawl(j) PROVE LeaseInv'
    <2>1. HeldByActive'
        BY <1>11 DEF CancelDomainCrawl, CancelJob, ExpireWakeups,
           TerminalStates, Active, ActiveStates, NoLease, Leases,
           HeldByActive, HeldWasIssued, UnissuedUnused, IssuedForJob,
           WaitsUnclaimed, OnlyCrawlsAsked
    <2>2. HeldWasIssued'
        BY <1>11 DEF CancelDomainCrawl, CancelJob, ExpireWakeups,
           TerminalStates, Active, ActiveStates, NoLease, Leases,
           HeldByActive, HeldWasIssued, UnissuedUnused, IssuedForJob,
           WaitsUnclaimed, OnlyCrawlsAsked
    <2>3. UnissuedUnused'
        BY <1>11 DEF CancelDomainCrawl, CancelJob, ExpireWakeups,
           TerminalStates, Active, ActiveStates, NoLease, Leases,
           HeldByActive, HeldWasIssued, UnissuedUnused, IssuedForJob,
           WaitsUnclaimed, OnlyCrawlsAsked
    <2>4. IssuedForJob'
        BY <1>11 DEF CancelDomainCrawl, CancelJob, ExpireWakeups,
           TerminalStates, Active, ActiveStates, NoLease, Leases,
           HeldByActive, HeldWasIssued, UnissuedUnused, IssuedForJob,
           WaitsUnclaimed, OnlyCrawlsAsked
    <2>5. WaitsUnclaimed'
        BY <1>11 DEF CancelDomainCrawl, CancelJob, ExpireWakeups,
           TerminalStates, Active, ActiveStates, NoLease, Leases,
           HeldByActive, HeldWasIssued, UnissuedUnused, IssuedForJob,
           WaitsUnclaimed, OnlyCrawlsAsked
    <2>6. OnlyCrawlsAsked'
        BY <1>11 DEF CancelDomainCrawl, CancelJob, ExpireWakeups,
           TerminalStates, Active, ActiveStates, NoLease, Leases,
           HeldByActive, HeldWasIssued, UnissuedUnused, IssuedForJob,
           WaitsUnclaimed, OnlyCrawlsAsked
    <2>. QED
        BY <2>1, <2>2, <2>3, <2>4, <2>5, <2>6
<1>12. ASSUME NEW l \in Leases, Publish(l) PROVE LeaseInv'
    BY <1>12, LeaseHasJob DEF Publish, CurrentLease, Active, ActiveStates,
       NoLease, Leases, HeldByActive, HeldWasIssued, UnissuedUnused,
       IssuedForJob, WaitsUnclaimed, OnlyCrawlsAsked
<1>13. ASSUME NEW l \in Leases, PublishCrash(l) PROVE LeaseInv'
    BY <1>13, LeaseHasJob DEF PublishCrash, CurrentLease, Active,
       ActiveStates, NoLease, Leases, HeldByActive, HeldWasIssued,
       UnissuedUnused, IssuedForJob, WaitsUnclaimed, OnlyCrawlsAsked
<1>14. ASSUME NEW l \in Leases, LeaseLapses(l) PROVE LeaseInv'
    <2>1. l <= issued
        <3>1. CASE Live(l)
            BY <3>1, LeaseHasJob DEF Live, LivePcs
        <3>2. CASE \E j \in Jobs : jobLease[j] = l
            BY <3>2 DEF HeldWasIssued, Leases, NoLease
        <3>. QED
            BY <1>14, <3>1, <3>2 DEF LeaseLapses
    <2>2. HeldByActive'
        BY <1>14, <2>1 DEF LeaseLapses, Active, ActiveStates, NoLease, Leases,
           HeldByActive, HeldWasIssued, UnissuedUnused, IssuedForJob,
           WaitsUnclaimed, OnlyCrawlsAsked
    <2>3. HeldWasIssued'
        BY <1>14, <2>1 DEF LeaseLapses, Active, ActiveStates, NoLease, Leases,
           HeldByActive, HeldWasIssued, UnissuedUnused, IssuedForJob,
           WaitsUnclaimed, OnlyCrawlsAsked
    <2>4. UnissuedUnused'
        BY <1>14, <2>1 DEF LeaseLapses, Active, ActiveStates, NoLease, Leases,
           HeldByActive, HeldWasIssued, UnissuedUnused, IssuedForJob,
           WaitsUnclaimed, OnlyCrawlsAsked
    <2>5. IssuedForJob'
        BY <1>14, <2>1 DEF LeaseLapses, Active, ActiveStates, NoLease, Leases,
           HeldByActive, HeldWasIssued, UnissuedUnused, IssuedForJob,
           WaitsUnclaimed, OnlyCrawlsAsked
    <2>6. WaitsUnclaimed'
        BY <1>14, <2>1 DEF LeaseLapses, Active, ActiveStates, NoLease, Leases,
           HeldByActive, HeldWasIssued, UnissuedUnused, IssuedForJob,
           WaitsUnclaimed, OnlyCrawlsAsked
    <2>7. OnlyCrawlsAsked'
        BY <1>14, <2>1 DEF LeaseLapses, Active, ActiveStates, NoLease, Leases,
           HeldByActive, HeldWasIssued, UnissuedUnused, IssuedForJob,
           WaitsUnclaimed, OnlyCrawlsAsked
    <2>. QED
        BY <2>2, <2>3, <2>4, <2>5, <2>6, <2>7
<1>15. ASSUME NEW l \in Leases, Claim(l) PROVE LeaseInv'
    <2>1. leaseJob[l] \in Jobs /\ l <= issued
        BY <1>15, LeaseHasJob DEF Claim
    <2>2. \A k \in Jobs \ {leaseJob[l]} :
             jobState'[k] = jobState[k] /\ jobLease'[k] = jobLease[k]
        BY <1>15, <2>1 DEF Claim
    <2>3. \A m \in Leases \ {l} : taskPc'[m] = taskPc[m]
        BY <1>15 DEF Claim
    <2>4. \/ jobState'[leaseJob[l]] = "running" /\ jobLease'[leaseJob[l]] = l
          \/ jobState'[leaseJob[l]] \in TerminalStates /\ jobLease'[leaseJob[l]] = NoLease
        BY <1>15, <2>1, FinalStateCases DEF Claim, CurrentLease
    <2>5. \A k \in Jobs \ {leaseJob[l]} : jobState[k] = "leased" =>
             jobLease[k] \in Leases \ {l}
        BY <1>15, <2>1 DEF HeldByActive, HeldWasIssued, Active, ActiveStates, NoLease
    <2>6. HeldByActive'
        BY <2>1, <2>2, <2>4 DEF HeldByActive, Leases, Active, ActiveStates,
           TerminalStates, NoLease
    <2>7. HeldWasIssued'
        BY <1>15, <2>1, <2>2, <2>4 DEF Claim, HeldWasIssued
    <2>8. UnissuedUnused'
        BY <1>15, <2>1, <2>3 DEF Claim, UnissuedUnused, Leases
    <2>9. IssuedForJob'
        BY <1>15 DEF Claim, IssuedForJob
    <2>10. WaitsUnclaimed'
        BY <2>2, <2>3, <2>4, <2>5 DEF WaitsUnclaimed, TerminalStates
    <2>11. OnlyCrawlsAsked'
        BY <2>2, <2>4 DEF OnlyCrawlsAsked, Crawl, TerminalStates
    <2>. QED
        BY <2>6, <2>7, <2>8, <2>9, <2>10, <2>11 DEF LeaseInv
<1>16. ASSUME NEW l \in Leases, StartSource(l) PROVE LeaseInv'
    <2>1. leaseJob[l] \in Jobs /\ l <= issued
        BY <1>16, LeaseHasJob DEF StartSource, LivePcs
    <2>2. \A k \in Jobs : jobState[k] = "leased" => jobLease[k] \in Leases \ {l}
        BY <1>16 DEF StartSource, WaitsUnclaimed, HeldByActive, Active, ActiveStates, LivePcs
    <2>3. \A m \in Leases \ {l} : taskPc'[m] = taskPc[m]
        BY <1>16 DEF StartSource
    <2>4. HeldByActive'
        BY <1>16 DEF StartSource, HeldByActive, Active
    <2>5. HeldWasIssued'
        BY <1>16 DEF StartSource, HeldWasIssued
    <2>6. UnissuedUnused'
        BY <1>16, <2>1, <2>3 DEF StartSource, UnissuedUnused, Leases
    <2>7. IssuedForJob'
        BY <1>16 DEF StartSource, IssuedForJob
    <2>8. WaitsUnclaimed'
        BY <1>16, <2>2, <2>3 DEF StartSource, WaitsUnclaimed
    <2>9. OnlyCrawlsAsked'
        BY <1>16 DEF StartSource, OnlyCrawlsAsked
    <2>. QED
        BY <2>4, <2>5, <2>6, <2>7, <2>8, <2>9 DEF LeaseInv
<1>17. ASSUME NEW l \in Leases, FinishBuild(l) PROVE LeaseInv'
    BY <1>17, LeaseHasJob DEF FinishBuild, Active, ActiveStates, NoLease,
       Leases, HeldByActive, HeldWasIssued, UnissuedUnused, IssuedForJob,
       WaitsUnclaimed, OnlyCrawlsAsked
<1>18. ASSUME NEW l \in Leases, ReadSource(l) PROVE LeaseInv'
    <2>1. leaseJob[l] \in Jobs /\ l <= issued
        BY <1>18, LeaseHasJob DEF ReadSource, LivePcs
    <2>2. \A k \in Jobs : jobState[k] = "leased" => jobLease[k] \in Leases \ {l}
        BY <1>18 DEF ReadSource, WaitsUnclaimed, HeldByActive, Active, ActiveStates, LivePcs
    <2>3. \A m \in Leases \ {l} : taskPc'[m] = taskPc[m]
        BY <1>18 DEF ReadSource
    <2>4. HeldByActive'
        BY <1>18 DEF ReadSource, HeldByActive, Active
    <2>5. HeldWasIssued'
        BY <1>18 DEF ReadSource, HeldWasIssued
    <2>6. UnissuedUnused'
        BY <1>18, <2>1, <2>3 DEF ReadSource, UnissuedUnused, Leases
    <2>7. IssuedForJob'
        BY <1>18 DEF ReadSource, IssuedForJob
    <2>8. WaitsUnclaimed'
        BY <1>18, <2>2, <2>3 DEF ReadSource, WaitsUnclaimed
    <2>9. OnlyCrawlsAsked'
        BY <1>18 DEF ReadSource, OnlyCrawlsAsked
    <2>. QED
        BY <2>4, <2>5, <2>6, <2>7, <2>8, <2>9 DEF LeaseInv
<1>19. ASSUME NEW l \in Leases, WriteSource(l) PROVE LeaseInv'
    BY <1>19, LeaseHasJob DEF WriteSource, Active, ActiveStates, NoLease,
       Leases, HeldByActive, HeldWasIssued, UnissuedUnused, IssuedForJob,
       WaitsUnclaimed, OnlyCrawlsAsked
<1>20. ASSUME NEW l \in Leases, Complete(l) PROVE LeaseInv'
    <2>1. leaseJob[l] \in Jobs /\ l <= issued
        BY <1>20, LeaseHasJob DEF Complete
    <2>2. \A k \in Jobs \ {leaseJob[l]} :
             jobState'[k] = jobState[k] /\ jobLease'[k] = jobLease[k]
        BY <1>20, <2>1 DEF Complete
    <2>3. \A m \in Leases \ {l} : taskPc'[m] = taskPc[m]
        BY <1>20 DEF Complete
    <2>4. jobState'[leaseJob[l]] \in TerminalStates /\ jobLease'[leaseJob[l]] = NoLease
        BY <1>20, <2>1, FinalStateCases DEF Complete
    <2>5. \A k \in Jobs : jobState[k] = "leased" => jobLease[k] \in Leases \ {l}
        BY <1>20 DEF Complete, WaitsUnclaimed, HeldByActive, Active, ActiveStates
    <2>6. HeldByActive'
        BY <2>1, <2>2, <2>4 DEF HeldByActive, Leases, Active, ActiveStates,
           TerminalStates, NoLease
    <2>7. HeldWasIssued'
        BY <1>20, <2>1, <2>2, <2>4 DEF Complete, HeldWasIssued
    <2>8. UnissuedUnused'
        BY <1>20, <2>1, <2>3 DEF Complete, UnissuedUnused, Leases
    <2>9. IssuedForJob'
        BY <1>20 DEF Complete, IssuedForJob
    <2>10. WaitsUnclaimed'
        BY <2>2, <2>3, <2>4, <2>5 DEF WaitsUnclaimed, TerminalStates
    <2>11. OnlyCrawlsAsked'
        BY <2>2, <2>4 DEF OnlyCrawlsAsked, Crawl, TerminalStates
    <2>. QED
        BY <2>6, <2>7, <2>8, <2>9, <2>10, <2>11 DEF LeaseInv
<1>21. ASSUME NEW l \in Leases, Kill(l) PROVE LeaseInv'
    BY <1>21, LeaseHasJob DEF Kill, Active, ActiveStates, NoLease, Leases,
       HeldByActive, HeldWasIssued, UnissuedUnused, IssuedForJob,
       WaitsUnclaimed, OnlyCrawlsAsked, Live, LivePcs
<1>22. ASSUME Recover PROVE LeaseInv'
    BY <1>22 DEF Recover, RecoveredState, RecoveredSource, ExpireWakeups, Active,
       ActiveStates, NoLease, Leases, HeldByActive, HeldWasIssued, UnissuedUnused,
       IssuedForJob, WaitsUnclaimed, OnlyCrawlsAsked
<1>. QED
    BY <1>1, <1>2, <1>3, <1>4, <1>5, <1>6, <1>7, <1>8, <1>9, <1>10, <1>11,
       <1>12, <1>13, <1>14, <1>15, <1>16, <1>17, <1>18, <1>19, <1>20,
       <1>21, <1>22
    DEF System, RequestStep, TaskStep

\* Only Dispatch makes a job active, and it does so when none is.
LEMMA OneActiveJobStep ==
    ASSUME StateTypes, LeaseInv, OneActiveJob, System
    PROVE  OneActiveJob'
<1>. USE DEF StateTypes, OneActiveJob, rows, leaseVars, taskVars
<1>1. ASSUME NEW j \in Jobs, Create(j) PROVE OneActiveJob'
    BY <1>1 DEF Create, Active, ActiveStates
<1>2. ASSUME NEW j \in Jobs, NotBeforePasses(j) PROVE OneActiveJob'
    BY <1>2 DEF NotBeforePasses, Active, ActiveStates
<1>3. ASSUME NEW j \in Jobs, Dispatch(j) PROVE OneActiveJob'
    <2>1. \A k \in Jobs : ~Active(k)
        BY <1>3, FreeSlot DEF Dispatch
    <2>. QED
        BY <1>3, <2>1 DEF Dispatch, Active, ActiveStates, OneActiveJob
<1>4. ASSUME NEW j \in Jobs, LockRow(j) PROVE OneActiveJob'
    BY <1>4 DEF LockRow, Active, ActiveStates
<1>5. ASSUME NEW j \in Jobs, Refuse(j) PROVE OneActiveJob'
    BY <1>5 DEF Refuse, Active, ActiveStates
<1>6. ASSUME NEW j \in Jobs, Pause(j) PROVE OneActiveJob'
    BY <1>6 DEF Pause, Active, ActiveStates
<1>7. ASSUME NEW j \in Jobs, Resume(j) PROVE OneActiveJob'
    BY <1>7 DEF Resume, Active, ActiveStates
<1>8. ASSUME NEW j \in Jobs, Cancel(j) PROVE OneActiveJob'
    BY <1>8 DEF Cancel, CancelJob, ExpireWakeups, Active, ActiveStates
<1>9. ASSUME NEW j \in Jobs, Retry(j) PROVE OneActiveJob'
    BY <1>9 DEF Retry, Active, ActiveStates
<1>10. ASSUME NEW j \in Jobs, ReadCrawl(j) PROVE OneActiveJob'
    BY <1>10 DEF ReadCrawl, Active, ActiveStates
<1>11. ASSUME NEW j \in Jobs, CancelDomainCrawl(j) PROVE OneActiveJob'
    BY <1>11 DEF CancelDomainCrawl, CancelJob, ExpireWakeups, Active,
       ActiveStates, TerminalStates
<1>12. ASSUME NEW l \in Leases, Publish(l) PROVE OneActiveJob'
    BY <1>12 DEF Publish, CurrentLease, Active, ActiveStates
<1>13. ASSUME NEW l \in Leases, PublishCrash(l) PROVE OneActiveJob'
    BY <1>13 DEF PublishCrash, CurrentLease, Active, ActiveStates
<1>14. ASSUME NEW l \in Leases, LeaseLapses(l) PROVE OneActiveJob'
    BY <1>14 DEF LeaseLapses, Active, ActiveStates
<1>15. ASSUME NEW l \in Leases, Claim(l) PROVE OneActiveJob'
    <2>1. leaseJob[l] \in Jobs
        BY <1>15, LeaseHasJob DEF Claim
    <2>2. \A k \in Jobs : Active(k)' => Active(k)
        BY <1>15, <2>1, FinalStateCases
        DEF Claim, CurrentLease, Active, ActiveStates, TerminalStates
    <2>. QED
        BY <2>2 DEF OneActiveJob
<1>16. ASSUME NEW l \in Leases, StartSource(l) PROVE OneActiveJob'
    BY <1>16 DEF StartSource, Active, ActiveStates
<1>17. ASSUME NEW l \in Leases, FinishBuild(l) PROVE OneActiveJob'
    BY <1>17 DEF FinishBuild, Active, ActiveStates
<1>18. ASSUME NEW l \in Leases, ReadSource(l) PROVE OneActiveJob'
    BY <1>18 DEF ReadSource, Active, ActiveStates
<1>19. ASSUME NEW l \in Leases, WriteSource(l) PROVE OneActiveJob'
    BY <1>19 DEF WriteSource, Active, ActiveStates
<1>20. ASSUME NEW l \in Leases, Complete(l) PROVE OneActiveJob'
    <2>1. leaseJob[l] \in Jobs
        BY <1>20, LeaseHasJob DEF Complete
    <2>2. \A k \in Jobs : Active(k)' => Active(k)
        BY <1>20, <2>1, FinalStateCases
        DEF Complete, Active, ActiveStates, TerminalStates
    <2>. QED
        BY <2>2 DEF OneActiveJob
<1>21. ASSUME NEW l \in Leases, Kill(l) PROVE OneActiveJob'
    BY <1>21 DEF Kill, Active, ActiveStates
<1>22. ASSUME Recover PROVE OneActiveJob'
    BY <1>22 DEF Recover, RecoveredState, RecoveredSource, ExpireWakeups, Active, ActiveStates
<1>. QED
    BY <1>1, <1>2, <1>3, <1>4, <1>5, <1>6, <1>7, <1>8, <1>9, <1>10, <1>11,
       <1>12, <1>13, <1>14, <1>15, <1>16, <1>17, <1>18, <1>19, <1>20,
       <1>21, <1>22
    DEF System, RequestStep, TaskStep

-----------------------------------------------------------------------------
(* The punctual worker.                                                    *)

\* Two live executors work for different jobs.
LEMMA OwnJob ==
    ASSUME StateTypes, LeaseInv, SourceInv, Punctual, NEW k \in Leases, Live(k)
    PROVE  /\ leaseJob[k] \in Jobs /\ k <= issued /\ ExecutorFits(k)
           /\ \A m \in Leases : Live(m) /\ leaseJob[m] = leaseJob[k] => m = k
<1>1. leaseJob[k] \in Jobs /\ k <= issued
    BY LeaseHasJob DEF Live, LivePcs
<1>2. \A m \in Leases : Live(m) => ExecutorFits(m)
    BY DEF SourceInv
<1>. QED
    BY <1>1, <1>2 DEF ExecutorFits

\* With a punctual worker no other actor moves the source of a live executor,
\* except a request that cancels the crawl: Recover waits for the lease to lapse,
\* and a lapsed lease has no live executor.
LEMMA SourceInvStep ==
    ASSUME StateTypes, LeaseInv, SourceInv, Agreement, Punctual, System
    PROVE  (\A m \in Leases : Live(m) => ExecutorFits(m))'
<1>. USE DEF StateTypes, rows, leaseVars, taskVars
<1>1. ASSUME NEW j \in Jobs, Create(j) PROVE (\A m \in Leases : Live(m) => ExecutorFits(m))'
    BY <1>1, OwnJob DEF Create, Live, LivePcs, ExecutorFits, ResultFits
<1>2. ASSUME NEW j \in Jobs, NotBeforePasses(j) PROVE (\A m \in Leases : Live(m) => ExecutorFits(m))'
    BY <1>2, OwnJob DEF NotBeforePasses, Live, LivePcs, ExecutorFits,
       ResultFits
<1>3. ASSUME NEW j \in Jobs, Dispatch(j) PROVE (\A m \in Leases : Live(m) => ExecutorFits(m))'
    <2>1. ASSUME NEW m \in Leases, Live(m)' PROVE ExecutorFits(m)'
        <3>1. issued \in Int
            BY DEF StateTypes
        <3>2. Live(m) /\ ExecutorFits(m) /\ leaseJob[m] \in Jobs /\ m # issued + 1
            BY <1>3, <2>1, <3>1, OwnJob DEF Dispatch, Live, Leases
        <3>3. leaseJob'[m] = leaseJob[m] /\ leaseJob[m] # j
            BY <1>3, <3>2 DEF Dispatch, Due, ExecutorFits
        <3>. QED
            BY <1>3, <3>2, <3>3 DEF Dispatch, ExecutorFits, ResultFits
    <2>. QED
        BY <2>1
<1>4. ASSUME NEW j \in Jobs, LockRow(j) PROVE (\A m \in Leases : Live(m) => ExecutorFits(m))'
    BY <1>4, OwnJob DEF LockRow, Live, LivePcs, ExecutorFits, ResultFits
<1>5. ASSUME NEW j \in Jobs, Refuse(j) PROVE (\A m \in Leases : Live(m) => ExecutorFits(m))'
    BY <1>5, OwnJob DEF Refuse, Live, LivePcs, ExecutorFits, ResultFits
<1>6. ASSUME NEW j \in Jobs, Pause(j) PROVE (\A m \in Leases : Live(m) => ExecutorFits(m))'
    BY <1>6, OwnJob DEF Pause, Live, LivePcs, ExecutorFits, ResultFits
<1>7. ASSUME NEW j \in Jobs, Resume(j) PROVE (\A m \in Leases : Live(m) => ExecutorFits(m))'
    BY <1>7, OwnJob DEF Resume, Live, LivePcs, ExecutorFits, ResultFits
<1>8. ASSUME NEW j \in Jobs, Cancel(j) PROVE (\A m \in Leases : Live(m) => ExecutorFits(m))'
    BY <1>8, OwnJob DEF Cancel, CancelJob, ExpireWakeups, Live, LivePcs,
       ExecutorFits, ResultFits
<1>9. ASSUME NEW j \in Jobs, Retry(j) PROVE (\A m \in Leases : Live(m) => ExecutorFits(m))'
    BY <1>9, OwnJob DEF Retry, Live, LivePcs, ExecutorFits, ResultFits
<1>10. ASSUME NEW j \in Jobs, ReadCrawl(j) PROVE (\A m \in Leases : Live(m) => ExecutorFits(m))'
    BY <1>10, OwnJob DEF ReadCrawl, Live, LivePcs, ExecutorFits, ResultFits
<1>11. ASSUME NEW j \in Jobs, CancelDomainCrawl(j) PROVE (\A m \in Leases : Live(m) => ExecutorFits(m))'
    BY <1>11, OwnJob DEF CancelDomainCrawl, CancelJob, ExpireWakeups, Live,
       LivePcs, ExecutorFits, ResultFits
<1>12. ASSUME NEW l \in Leases, Publish(l) PROVE (\A m \in Leases : Live(m) => ExecutorFits(m))'
    BY <1>12, OwnJob DEF Publish, CurrentLease, Live, LivePcs, ExecutorFits,
       ResultFits
<1>13. ASSUME NEW l \in Leases, PublishCrash(l) PROVE (\A m \in Leases : Live(m) => ExecutorFits(m))'
    BY <1>13, OwnJob DEF PublishCrash, CurrentLease, Live, LivePcs,
       ExecutorFits, ResultFits
<1>14. ASSUME NEW l \in Leases, LeaseLapses(l) PROVE (\A m \in Leases : Live(m) => ExecutorFits(m))'
    BY <1>14, OwnJob DEF LeaseLapses, Live, LivePcs, ExecutorFits, ResultFits
<1>15. ASSUME NEW l \in Leases, Claim(l) PROVE (\A m \in Leases : Live(m) => ExecutorFits(m))'
    <2>1. leaseJob[l] \in Jobs
        BY <1>15, LeaseHasJob DEF Claim, LivePcs
    <2>2. ASSUME NEW m \in Leases, m # l, Live(m)' PROVE ExecutorFits(m)'
        <3>1. Live(m) /\ ExecutorFits(m) /\ leaseJob[m] \in Jobs /\ leaseJob[m] # leaseJob[l]
            BY <1>15, <2>2, OwnJob DEF Claim, CurrentLease, Live, LivePcs, ExecutorFits
        <3>. QED
            BY <1>15, <2>1, <3>1 DEF Claim, ExecutorFits, ResultFits
    <2>3. Live(l)' => ExecutorFits(l)'
        BY <1>15, <2>1, OwnJob DEF Claim, CurrentLease, Live, LivePcs, ExecutorFits
    <2>. QED
        BY <2>2, <2>3
<1>16. ASSUME NEW l \in Leases, StartSource(l) PROVE (\A m \in Leases : Live(m) => ExecutorFits(m))'
    BY <1>16, OwnJob DEF StartSource, Live, LivePcs, ExecutorFits, ResultFits
<1>17. ASSUME NEW l \in Leases, FinishBuild(l) PROVE (\A m \in Leases : Live(m) => ExecutorFits(m))'
    <2>1. leaseJob[l] \in Jobs
        BY <1>17, LeaseHasJob DEF FinishBuild, LivePcs
    <2>2. ASSUME NEW m \in Leases, m # l, Live(m)' PROVE ExecutorFits(m)'
        <3>1. Live(m) /\ ExecutorFits(m) /\ leaseJob[m] \in Jobs /\ leaseJob[m] # leaseJob[l]
            BY <1>17, <2>2, OwnJob DEF FinishBuild, Live, LivePcs
        <3>. QED
            BY <1>17, <2>1, <3>1 DEF FinishBuild, ExecutorFits, ResultFits
    <2>3. Live(l)' => ExecutorFits(l)'
        <3>1. ExecutorFits(l) /\ l \notin lapsed /\ src[leaseJob[l]] = "running"
            BY <1>17, OwnJob DEF FinishBuild, Live, LivePcs, ExecutorFits, Build, Crawl
        <3>2. PICK result \in Outcomes(leaseJob[l]) :
                 /\ src' = [src EXCEPT ![leaseJob[l]] = result]
                 /\ taskResult' = [taskResult EXCEPT ![l] = result]
            BY <1>17, <3>1 DEF FinishBuild
        <3>3. result \in Finished \cup {"failed", "blocked"}
            BY <2>1, OutcomesCases
        <3>. QED
            BY <1>17, <2>1, <3>1, <3>2, <3>3
            DEF FinishBuild, ExecutorFits, ResultFits, Finished
    <2>. QED
        BY <2>2, <2>3
<1>18. ASSUME NEW l \in Leases, ReadSource(l) PROVE (\A m \in Leases : Live(m) => ExecutorFits(m))'
    BY <1>18, OwnJob DEF ReadSource, Live, LivePcs, ExecutorFits, ResultFits
<1>19. ASSUME NEW l \in Leases, WriteSource(l) PROVE (\A m \in Leases : Live(m) => ExecutorFits(m))'
    <2>1. leaseJob[l] \in Jobs
        BY <1>19, LeaseHasJob DEF WriteSource, LivePcs
    <2>2. ASSUME NEW m \in Leases, m # l, Live(m)' PROVE ExecutorFits(m)'
        <3>1. Live(m) /\ ExecutorFits(m) /\ leaseJob[m] \in Jobs /\ leaseJob[m] # leaseJob[l]
            BY <1>19, <2>2, OwnJob DEF WriteSource, Live, LivePcs
        <3>. QED
            BY <1>19, <2>1, <3>1 DEF WriteSource, ExecutorFits, ResultFits
    <2>3. Live(l)' => ExecutorFits(l)'
        BY <1>19, <2>1, OwnJob, OutcomesCases DEF WriteSource, Live, LivePcs,
           ExecutorFits, ResultFits, Build, Crawl, Finished
    <2>. QED
        BY <2>2, <2>3
<1>20. ASSUME NEW l \in Leases, Complete(l) PROVE (\A m \in Leases : Live(m) => ExecutorFits(m))'
    BY <1>20, OwnJob DEF Complete, Live, LivePcs, ExecutorFits, ResultFits
<1>21. ASSUME NEW l \in Leases, Kill(l) PROVE (\A m \in Leases : Live(m) => ExecutorFits(m))'
    BY <1>21, OwnJob DEF Kill, Live, LivePcs, ExecutorFits, ResultFits
<1>22. ASSUME Recover PROVE (\A m \in Leases : Live(m) => ExecutorFits(m))'
    <2>1. ASSUME NEW m \in Leases, Live(m)' PROVE ExecutorFits(m)'
        <3>1. Live(m) /\ ExecutorFits(m) /\ leaseJob[m] \in Jobs
            BY <1>22, <2>1, OwnJob DEF Recover, Live
        <3>2. jobLease[leaseJob[m]] \notin lapsed
            BY <3>1 DEF ExecutorFits
        <3>. QED
            BY <1>22, <3>1, <3>2 DEF Recover, ExecutorFits, ResultFits
    <2>. QED
        BY <2>1
<1>. QED
    BY <1>1, <1>2, <1>3, <1>4, <1>5, <1>6, <1>7, <1>8, <1>9, <1>10, <1>11,
       <1>12, <1>13, <1>14, <1>15, <1>16, <1>17, <1>18, <1>19, <1>20,
       <1>21, <1>22
    DEF System, RequestStep, TaskStep

\* With a punctual worker every step that settles a job settles its source
\* with the same verdict, and no source starts or stops behind its job's back.
LEMMA AgreementStep ==
    ASSUME StateTypes, LeaseInv, SourceInv, Agreement, AbsentInv, Punctual, System
    PROVE  Agreement'
<1>. USE DEF StateTypes, Agreement, AbsentInv, rows, leaseVars, taskVars
<1>1. ASSUME NEW j \in Jobs, Create(j) PROVE Agreement'
    BY <1>1 DEF Create, Active, ActiveStates, Finished
<1>2. ASSUME NEW j \in Jobs, NotBeforePasses(j) PROVE Agreement'
    BY <1>2 DEF NotBeforePasses, Active, ActiveStates, Finished
<1>3. ASSUME NEW j \in Jobs, Dispatch(j) PROVE Agreement'
    <2>1. jobState' = [jobState EXCEPT ![j] = "leased"] /\ src' = src /\ jobState[j] = "queued"
        BY <1>3 DEF Dispatch, Due
    <2>. QED
        BY <2>1
<1>4. ASSUME NEW j \in Jobs, LockRow(j) PROVE Agreement'
    BY <1>4 DEF LockRow, Active, ActiveStates, Finished
<1>5. ASSUME NEW j \in Jobs, Refuse(j) PROVE Agreement'
    BY <1>5 DEF Refuse, Active, ActiveStates, Finished
<1>6. ASSUME NEW j \in Jobs, Pause(j) PROVE Agreement'
    BY <1>6 DEF Pause, Active, ActiveStates, Finished
<1>7. ASSUME NEW j \in Jobs, Resume(j) PROVE Agreement'
    BY <1>7 DEF Resume, Active, ActiveStates, Finished
<1>8. ASSUME NEW j \in Jobs, Cancel(j) PROVE Agreement'
    BY <1>8 DEF Cancel, CancelJob, ExpireWakeups, Active, ActiveStates,
       Finished, Crawl, Build
<1>9. ASSUME NEW j \in Jobs, Retry(j) PROVE Agreement'
    BY <1>9 DEF Retry, Active, ActiveStates, Finished, Crawl, Build
<1>10. ASSUME NEW j \in Jobs, ReadCrawl(j) PROVE Agreement'
    BY <1>10 DEF ReadCrawl, Active, ActiveStates, Finished
<1>11. ASSUME NEW j \in Jobs, CancelDomainCrawl(j) PROVE Agreement'
    BY <1>11 DEF CancelDomainCrawl, CancelJob, ExpireWakeups, Active,
       ActiveStates, Finished, TerminalStates, Crawl, Build
<1>12. ASSUME NEW l \in Leases, Publish(l) PROVE Agreement'
    BY <1>12 DEF Publish, CurrentLease, Active, ActiveStates, Finished
<1>13. ASSUME NEW l \in Leases, PublishCrash(l) PROVE Agreement'
    BY <1>13 DEF PublishCrash, CurrentLease, Active, ActiveStates, Finished
<1>14. ASSUME NEW l \in Leases, LeaseLapses(l) PROVE Agreement'
    BY <1>14 DEF LeaseLapses, Active, ActiveStates, Finished
<1>15. ASSUME NEW l \in Leases, Claim(l) PROVE Agreement'
    BY <1>15, LeaseHasJob DEF Claim, CurrentLease, Active, ActiveStates,
       Finished
<1>16. ASSUME NEW l \in Leases, StartSource(l) PROVE Agreement'
    BY <1>16, OwnJob DEF StartSource, Active, ActiveStates, Finished, Live,
       LivePcs, ExecutorFits
<1>17. ASSUME NEW l \in Leases, FinishBuild(l) PROVE Agreement'
    BY <1>17, OwnJob, OutcomesCases DEF FinishBuild, Active, ActiveStates,
       Finished, Live, LivePcs, ExecutorFits
<1>18. ASSUME NEW l \in Leases, ReadSource(l) PROVE Agreement'
    BY <1>18, OwnJob DEF ReadSource, Active, ActiveStates, Finished, Live,
       LivePcs, ExecutorFits
<1>19. ASSUME NEW l \in Leases, WriteSource(l) PROVE Agreement'
    BY <1>19, OwnJob, OutcomesCases DEF WriteSource, Active, ActiveStates,
       Finished, Live, LivePcs, ExecutorFits
<1>20. ASSUME NEW l \in Leases, Complete(l) PROVE Agreement'
    BY <1>20, OwnJob, FinalStateCases DEF Complete, Active, ActiveStates,
       Finished, Live, LivePcs, ExecutorFits, ResultFits, TerminalStates
<1>21. ASSUME NEW l \in Leases, Kill(l) PROVE Agreement'
    BY <1>21, OwnJob DEF Kill, Active, ActiveStates, Finished, Live, LivePcs,
       ExecutorFits
<1>22. ASSUME Recover PROVE Agreement'
    <2>1. PICK S \in SUBSET Jobs :
             /\ S = {k \in Jobs : Active(k) /\ jobLease[k] \in lapsed /\ k \notin locked}
             /\ \A k \in Jobs :
                   /\ jobState'[k] = IF k \in S THEN RecoveredState(k) ELSE jobState[k]
                   /\ src'[k] = IF k \in S THEN RecoveredSource(k) ELSE src[k]
        BY <1>22 DEF Recover
    <2>2. \A k \in S : jobState[k] \in ActiveStates /\ (jobState[k] = "cancel_requested" => Crawl(k))
        BY <2>1 DEF Active, LeaseInv, OnlyCrawlsAsked
    <2>3. \A k \in S : (jobState[k] = "leased" => src[k] = "queued")
                         /\ src[k] \in SrcStates \ {"absent"}
        BY <2>2 DEF ActiveStates, AbsentInv
    <2>. QED
        BY <2>1, <2>2, <2>3
        DEF RecoveredState, RecoveredSource, ActiveStates, SrcStates, Finished, Crawl, Build
<1>. QED
    BY <1>1, <1>2, <1>3, <1>4, <1>5, <1>6, <1>7, <1>8, <1>9, <1>10, <1>11,
       <1>12, <1>13, <1>14, <1>15, <1>16, <1>17, <1>18, <1>19, <1>20,
       <1>21, <1>22
    DEF System, RequestStep, TaskStep

\* Only an operator's request makes a source queued again.
LEMMA RunsInvStep ==
    ASSUME StateTypes, LeaseInv, RunsInv, AbsentInv, System
    PROVE  RunsInv'
<1>. USE DEF StateTypes, RunsInv, AbsentInv, rows, leaseVars, taskVars
<1>1. ASSUME NEW j \in Jobs, Create(j) PROVE RunsInv'
    BY <1>1 DEF Create
<1>2. ASSUME NEW j \in Jobs, NotBeforePasses(j) PROVE RunsInv'
    BY <1>2 DEF NotBeforePasses
<1>3. ASSUME NEW j \in Jobs, Dispatch(j) PROVE RunsInv'
    BY <1>3 DEF Dispatch
<1>4. ASSUME NEW j \in Jobs, LockRow(j) PROVE RunsInv'
    BY <1>4 DEF LockRow
<1>5. ASSUME NEW j \in Jobs, Refuse(j) PROVE RunsInv'
    BY <1>5 DEF Refuse
<1>6. ASSUME NEW j \in Jobs, Pause(j) PROVE RunsInv'
    BY <1>6 DEF Pause
<1>7. ASSUME NEW j \in Jobs, Resume(j) PROVE RunsInv'
    BY <1>7 DEF Resume
<1>8. ASSUME NEW j \in Jobs, Cancel(j) PROVE RunsInv'
    BY <1>8 DEF Cancel, CancelJob, ExpireWakeups
<1>9. ASSUME NEW j \in Jobs, Retry(j) PROVE RunsInv'
    BY <1>9 DEF Retry
<1>10. ASSUME NEW j \in Jobs, ReadCrawl(j) PROVE RunsInv'
    BY <1>10 DEF ReadCrawl
<1>11. ASSUME NEW j \in Jobs, CancelDomainCrawl(j) PROVE RunsInv'
    BY <1>11 DEF CancelDomainCrawl, CancelJob, ExpireWakeups
<1>12. ASSUME NEW l \in Leases, Publish(l) PROVE RunsInv'
    BY <1>12 DEF Publish, CurrentLease
<1>13. ASSUME NEW l \in Leases, PublishCrash(l) PROVE RunsInv'
    BY <1>13 DEF PublishCrash, CurrentLease
<1>14. ASSUME NEW l \in Leases, LeaseLapses(l) PROVE RunsInv'
    BY <1>14 DEF LeaseLapses
<1>15. ASSUME NEW l \in Leases, Claim(l) PROVE RunsInv'
    BY <1>15 DEF Claim, CurrentLease
<1>16. ASSUME NEW l \in Leases, StartSource(l) PROVE RunsInv'
    BY <1>16, LeaseHasJob DEF StartSource
<1>17. ASSUME NEW l \in Leases, FinishBuild(l) PROVE RunsInv'
    BY <1>17, LeaseHasJob, OutcomesCases DEF FinishBuild, Finished
<1>18. ASSUME NEW l \in Leases, ReadSource(l) PROVE RunsInv'
    BY <1>18, LeaseHasJob DEF ReadSource
<1>19. ASSUME NEW l \in Leases, WriteSource(l) PROVE RunsInv'
    BY <1>19, LeaseHasJob, OutcomesCases DEF WriteSource, Finished
<1>20. ASSUME NEW l \in Leases, Complete(l) PROVE RunsInv'
    BY <1>20, LeaseHasJob DEF Complete
<1>21. ASSUME NEW l \in Leases, Kill(l) PROVE RunsInv'
    BY <1>21, LeaseHasJob DEF Kill
<1>22. ASSUME Recover PROVE RunsInv'
    BY <1>22 DEF Recover, RecoveredState, RecoveredSource, ExpireWakeups
<1>. QED
    BY <1>1, <1>2, <1>3, <1>4, <1>5, <1>6, <1>7, <1>8, <1>9, <1>10, <1>11,
       <1>12, <1>13, <1>14, <1>15, <1>16, <1>17, <1>18, <1>19, <1>20,
       <1>21, <1>22
    DEF System, RequestStep, TaskStep

\* A job and its source are created together, and before any lease of theirs.
LEMMA AbsentInvStep ==
    ASSUME StateTypes, LeaseInv, AbsentInv, System
    PROVE  AbsentInv'
<1>. USE DEF StateTypes, AbsentInv, rows, leaseVars, taskVars
<1>1. ASSUME NEW j \in Jobs, Create(j) PROVE AbsentInv'
    BY <1>1 DEF Create, HeldByActive
<1>2. ASSUME NEW j \in Jobs, NotBeforePasses(j) PROVE AbsentInv'
    BY <1>2 DEF NotBeforePasses
<1>3. ASSUME NEW j \in Jobs, Dispatch(j) PROVE AbsentInv'
    <2>1. /\ jobState' = [jobState EXCEPT ![j] = "leased"] /\ src' = src
          /\ jobState[j] = "queued" /\ leaseJob' = [leaseJob EXCEPT ![issued + 1] = j]
          /\ issued' = issued + 1 /\ issued \in Int
        BY <1>3 DEF Dispatch, Due
    <2>. QED
        BY <2>1 DEF Leases
<1>4. ASSUME NEW j \in Jobs, LockRow(j) PROVE AbsentInv'
    BY <1>4 DEF LockRow
<1>5. ASSUME NEW j \in Jobs, Refuse(j) PROVE AbsentInv'
    BY <1>5 DEF Refuse
<1>6. ASSUME NEW j \in Jobs, Pause(j) PROVE AbsentInv'
    BY <1>6 DEF Pause
<1>7. ASSUME NEW j \in Jobs, Resume(j) PROVE AbsentInv'
    BY <1>7 DEF Resume
<1>8. ASSUME NEW j \in Jobs, Cancel(j) PROVE AbsentInv'
    <2>1. \A k \in Jobs : jobState'[k] = "absent" <=> src'[k] = "absent"
        BY <1>8 DEF Cancel, CancelJob
    <2>2. \A k \in Jobs : jobState'[k] = "absent" => jobState[k] = "absent"
        BY <1>8 DEF Cancel, CancelJob
    <2>3. issued' = issued /\ leaseJob' = leaseJob
        BY <1>8 DEF Cancel, CancelJob
    <2>. QED
        BY <2>1, <2>2, <2>3
<1>9. ASSUME NEW j \in Jobs, Retry(j) PROVE AbsentInv'
    BY <1>9 DEF Retry
<1>10. ASSUME NEW j \in Jobs, ReadCrawl(j) PROVE AbsentInv'
    BY <1>10 DEF ReadCrawl
<1>11. ASSUME NEW j \in Jobs, CancelDomainCrawl(j) PROVE AbsentInv'
    <2>1. \A k \in Jobs : jobState'[k] = "absent" <=> src'[k] = "absent"
        BY <1>11 DEF CancelDomainCrawl, CancelJob
    <2>2. \A k \in Jobs : jobState'[k] = "absent" => jobState[k] = "absent"
        BY <1>11 DEF CancelDomainCrawl, CancelJob
    <2>3. issued' = issued /\ leaseJob' = leaseJob
        BY <1>11 DEF CancelDomainCrawl, CancelJob
    <2>. QED
        BY <2>1, <2>2, <2>3
<1>12. ASSUME NEW l \in Leases, Publish(l) PROVE AbsentInv'
    BY <1>12 DEF Publish, CurrentLease
<1>13. ASSUME NEW l \in Leases, PublishCrash(l) PROVE AbsentInv'
    BY <1>13 DEF PublishCrash, CurrentLease
<1>14. ASSUME NEW l \in Leases, LeaseLapses(l) PROVE AbsentInv'
    BY <1>14 DEF LeaseLapses
<1>15. ASSUME NEW l \in Leases, Claim(l) PROVE AbsentInv'
    <2>1. \A k \in Jobs : jobState'[k] = "absent" <=> src'[k] = "absent"
        BY <1>15, LeaseHasJob, FinalStateCases DEF Claim, CurrentLease, TerminalStates
    <2>2. \A k \in Jobs : jobState'[k] = "absent" => jobState[k] = "absent"
        BY <1>15, LeaseHasJob, FinalStateCases DEF Claim, CurrentLease, TerminalStates
    <2>3. issued' = issued /\ leaseJob' = leaseJob
        BY <1>15 DEF Claim, CurrentLease, TerminalStates
    <2>. QED
        BY <2>1, <2>2, <2>3
<1>16. ASSUME NEW l \in Leases, StartSource(l) PROVE AbsentInv'
    BY <1>16, LeaseHasJob DEF StartSource
<1>17. ASSUME NEW l \in Leases, FinishBuild(l) PROVE AbsentInv'
    <2>1. \A k \in Jobs : jobState'[k] = "absent" <=> src'[k] = "absent"
        BY <1>17, LeaseHasJob, OutcomesCases DEF FinishBuild, Finished
    <2>2. \A k \in Jobs : jobState'[k] = "absent" => jobState[k] = "absent"
        BY <1>17, LeaseHasJob, OutcomesCases DEF FinishBuild, Finished
    <2>3. issued' = issued /\ leaseJob' = leaseJob
        BY <1>17 DEF FinishBuild, Finished
    <2>. QED
        BY <2>1, <2>2, <2>3
<1>18. ASSUME NEW l \in Leases, ReadSource(l) PROVE AbsentInv'
    BY <1>18, LeaseHasJob DEF ReadSource
<1>19. ASSUME NEW l \in Leases, WriteSource(l) PROVE AbsentInv'
    <2>1. \A k \in Jobs : jobState'[k] = "absent" <=> src'[k] = "absent"
        BY <1>19, LeaseHasJob, OutcomesCases DEF WriteSource, Finished
    <2>2. \A k \in Jobs : jobState'[k] = "absent" => jobState[k] = "absent"
        BY <1>19, LeaseHasJob, OutcomesCases DEF WriteSource, Finished
    <2>3. issued' = issued /\ leaseJob' = leaseJob
        BY <1>19 DEF WriteSource, Finished
    <2>. QED
        BY <2>1, <2>2, <2>3
<1>20. ASSUME NEW l \in Leases, Complete(l) PROVE AbsentInv'
    BY <1>20, LeaseHasJob, FinalStateCases DEF Complete, TerminalStates
<1>21. ASSUME NEW l \in Leases, Kill(l) PROVE AbsentInv'
    BY <1>21, LeaseHasJob DEF Kill
<1>22. ASSUME Recover PROVE AbsentInv'
    <2>1. \A k \in Jobs : jobState'[k] = "absent" <=> src'[k] = "absent"
        BY <1>22 DEF Recover, RecoveredState, RecoveredSource, Active, ActiveStates
    <2>2. \A k \in Jobs : jobState'[k] = "absent" => jobState[k] = "absent"
        BY <1>22 DEF Recover, RecoveredState, RecoveredSource, Active, ActiveStates
    <2>3. issued' = issued /\ leaseJob' = leaseJob
        BY <1>22 DEF Recover, RecoveredState, RecoveredSource, Active, ActiveStates
    <2>. QED
        BY <2>1, <2>2, <2>3
<1>. QED
    BY <1>1, <1>2, <1>3, <1>4, <1>5, <1>6, <1>7, <1>8, <1>9, <1>10, <1>11,
       <1>12, <1>13, <1>14, <1>15, <1>16, <1>17, <1>18, <1>19, <1>20,
       <1>21, <1>22
    DEF System, RequestStep, TaskStep

-----------------------------------------------------------------------------
(* Rotation between projects, on whole steps (Next), because passed is     *)
(* history kept beside the system's own step.                              *)


\* A step that dispatches nothing leaves every turn alone.
NoDispatch == /\ turn' = turn
              /\ \A k \in Jobs : ~(jobState[k] = "queued" /\ jobState'[k] = "leased")

\* The turns change in a Dispatch step only, and only it leases a queued job.
LEMMA DispatchOrNot ==
    ASSUME StateTypes, LeaseInv, System
    PROVE  (\E k \in Jobs : Dispatch(k)) \/ NoDispatch
<1>. USE DEF StateTypes, rows, leaseVars, taskVars
<1>1. ASSUME NEW j \in Jobs, Create(j) PROVE (\E k \in Jobs : Dispatch(k)) \/ NoDispatch
    BY <1>1 DEF Create, NoDispatch
<1>2. ASSUME NEW j \in Jobs, NotBeforePasses(j) PROVE (\E k \in Jobs : Dispatch(k)) \/ NoDispatch
    BY <1>2 DEF NotBeforePasses, NoDispatch
<1>3. ASSUME NEW j \in Jobs, Dispatch(j) PROVE (\E k \in Jobs : Dispatch(k)) \/ NoDispatch
    BY <1>3 DEF Dispatch
<1>4. ASSUME NEW j \in Jobs, LockRow(j) PROVE (\E k \in Jobs : Dispatch(k)) \/ NoDispatch
    BY <1>4 DEF LockRow, NoDispatch
<1>5. ASSUME NEW j \in Jobs, Refuse(j) PROVE (\E k \in Jobs : Dispatch(k)) \/ NoDispatch
    BY <1>5 DEF Refuse, NoDispatch
<1>6. ASSUME NEW j \in Jobs, Pause(j) PROVE (\E k \in Jobs : Dispatch(k)) \/ NoDispatch
    BY <1>6 DEF Pause, NoDispatch
<1>7. ASSUME NEW j \in Jobs, Resume(j) PROVE (\E k \in Jobs : Dispatch(k)) \/ NoDispatch
    BY <1>7 DEF Resume, NoDispatch
<1>8. ASSUME NEW j \in Jobs, Cancel(j) PROVE (\E k \in Jobs : Dispatch(k)) \/ NoDispatch
    BY <1>8 DEF Cancel, CancelJob, ExpireWakeups, NoDispatch
<1>9. ASSUME NEW j \in Jobs, Retry(j) PROVE (\E k \in Jobs : Dispatch(k)) \/ NoDispatch
    BY <1>9 DEF Retry, NoDispatch
<1>10. ASSUME NEW j \in Jobs, ReadCrawl(j) PROVE (\E k \in Jobs : Dispatch(k)) \/ NoDispatch
    BY <1>10 DEF ReadCrawl, NoDispatch
<1>11. ASSUME NEW j \in Jobs, CancelDomainCrawl(j) PROVE (\E k \in Jobs : Dispatch(k)) \/ NoDispatch
    BY <1>11 DEF CancelDomainCrawl, CancelJob, ExpireWakeups, NoDispatch
<1>12. ASSUME NEW l \in Leases, Publish(l) PROVE (\E k \in Jobs : Dispatch(k)) \/ NoDispatch
    BY <1>12 DEF Publish, CurrentLease, NoDispatch
<1>13. ASSUME NEW l \in Leases, PublishCrash(l) PROVE (\E k \in Jobs : Dispatch(k)) \/ NoDispatch
    BY <1>13 DEF PublishCrash, CurrentLease, NoDispatch
<1>14. ASSUME NEW l \in Leases, LeaseLapses(l) PROVE (\E k \in Jobs : Dispatch(k)) \/ NoDispatch
    BY <1>14 DEF LeaseLapses, NoDispatch
<1>15. ASSUME NEW l \in Leases, Claim(l) PROVE (\E k \in Jobs : Dispatch(k)) \/ NoDispatch
    BY <1>15, LeaseHasJob, FinalStateCases DEF Claim, CurrentLease,
       NoDispatch, TerminalStates
<1>16. ASSUME NEW l \in Leases, StartSource(l) PROVE (\E k \in Jobs : Dispatch(k)) \/ NoDispatch
    BY <1>16 DEF StartSource, NoDispatch
<1>17. ASSUME NEW l \in Leases, FinishBuild(l) PROVE (\E k \in Jobs : Dispatch(k)) \/ NoDispatch
    BY <1>17 DEF FinishBuild, NoDispatch
<1>18. ASSUME NEW l \in Leases, ReadSource(l) PROVE (\E k \in Jobs : Dispatch(k)) \/ NoDispatch
    BY <1>18 DEF ReadSource, NoDispatch
<1>19. ASSUME NEW l \in Leases, WriteSource(l) PROVE (\E k \in Jobs : Dispatch(k)) \/ NoDispatch
    BY <1>19 DEF WriteSource, NoDispatch
<1>20. ASSUME NEW l \in Leases, Complete(l) PROVE (\E k \in Jobs : Dispatch(k)) \/ NoDispatch
    BY <1>20, LeaseHasJob, FinalStateCases DEF Complete, NoDispatch,
       TerminalStates
<1>21. ASSUME NEW l \in Leases, Kill(l) PROVE (\E k \in Jobs : Dispatch(k)) \/ NoDispatch
    BY <1>21 DEF Kill, NoDispatch
<1>22. ASSUME Recover PROVE (\E k \in Jobs : Dispatch(k)) \/ NoDispatch
    BY <1>22 DEF Recover, RecoveredState, RecoveredSource, ExpireWakeups, NoDispatch,
       Active, ActiveStates
<1>. QED
    BY <1>1, <1>2, <1>3, <1>4, <1>5, <1>6, <1>7, <1>8, <1>9, <1>10, <1>11,
       <1>12, <1>13, <1>14, <1>15, <1>16, <1>17, <1>18, <1>19, <1>20,
       <1>21, <1>22
    DEF System, RequestStep, TaskStep

\* Dispatch(j) gives the turn to the project of j, and no other.
LEMMA DispatchTurn ==
    ASSUME TypeOK, NEW j \in Jobs, Dispatch(j)
    PROVE  /\ Dispatched = {ProjectOf[j]} /\ ProjectOf[j] \in Projects
           /\ \A q \in DueProjects : turn[q] < turn'[ProjectOf[j]]
           /\ \A p \in Projects \ {ProjectOf[j]} : turn'[p] = turn[p]
<1>. USE DEF TypeOK, StateTypes
<1>1. DueProjects \subseteq Projects /\ ProjectOf[j] \in Projects
    BY JobsAssumption DEF DueProjects
<1>2. PICK last \in DueProjects : /\ \A q \in DueProjects : turn[q] <= turn[last]
                                  /\ turn' = [turn EXCEPT ![ProjectOf[j]] = turn[last] + 1]
    BY DEF Dispatch
<1>3. \A k \in Jobs : jobState[k] = "queued" /\ jobState'[k] = "leased" <=> k = j
    BY DEF Dispatch, Due
<1>4. \A q \in DueProjects : turn[q] \in Nat
    BY <1>1
<1>. QED
    BY <1>1, <1>2, <1>3, <1>4 DEF Dispatched

\* Without a dispatch nothing is added to passed.
LEMMA PassedGrows ==
    ASSUME TypeOK, Overtake, NEW q \in Projects, NEW p \in passed'[q]
    PROVE  /\ q \in DueProjects /\ q \in DueProjects' /\ q \notin Dispatched
           /\ p \in passed[q] \/ p \in Dispatched
BY DEF Overtake

\* The project dispatched while q waits gets a turn above every due project's.
LEMMA TurnOrderStep ==
    ASSUME TypeOK, LeaseInv, TurnOrder, System, Overtake
    PROVE  TurnOrder'
<1>. SUFFICES ASSUME NEW q \in DueProjects', NEW p \in passed'[q]
              PROVE  turn'[q] < turn'[p]
    BY DEF TurnOrder
<1>1. q \in Projects
    BY JobsAssumption DEF DueProjects
<1>2. /\ q \in DueProjects /\ q \notin Dispatched
      /\ p \in passed[q] \/ p \in Dispatched
    BY <1>1, PassedGrows
<1>3. p \in passed[q] => p \in Projects /\ turn[q] < turn[p]
    BY <1>1, <1>2 DEF TurnOrder, TypeOK
<1>4. CASE NoDispatch
    BY <1>2, <1>3, <1>4 DEF NoDispatch, Dispatched
<1>5. ASSUME NEW j \in Jobs, Dispatch(j) PROVE turn'[q] < turn'[p]
    <2>1. /\ Dispatched = {ProjectOf[j]}
          /\ turn[q] < turn'[ProjectOf[j]]
          /\ \A r \in Projects \ {ProjectOf[j]} : turn'[r] = turn[r]
        BY <1>2, <1>5, DispatchTurn
    <2>2. turn'[q] = turn[q]
        BY <1>1, <1>2, <2>1
    <2>3. CASE p = ProjectOf[j]
        BY <2>1, <2>2, <2>3
    <2>4. CASE p # ProjectOf[j]
        BY <1>2, <1>3, <2>1, <2>2, <2>4
    <2>. QED
        BY <2>3, <2>4
<1>. QED
    BY <1>4, <1>5, DispatchOrNot DEF TypeOK

-----------------------------------------------------------------------------
(* The inductive invariant and the theorems.                               *)

\* The empty database satisfies the invariant.
LEMMA InitIInv == Init => IInv
<1>. SUFFICES ASSUME Init PROVE IInv
    OBVIOUS
<1>. USE JobsAssumption DEF Init
<1>1. TypeOK
    BY DEF TypeOK, StateTypes, JobStates, SrcStates, TaskPcs, NoLease
<1>2. LeaseInv
    BY DEF LeaseInv, HeldByActive, HeldWasIssued, UnissuedUnused, IssuedForJob, WaitsUnclaimed,
           OnlyCrawlsAsked, Active, ActiveStates, NoLease, Leases
<1>3. OneActiveJob /\ Agreement
    BY DEF OneActiveJob, Agreement, Active, ActiveStates
<1>4. SourceInv
    BY DEF SourceInv, Live, LivePcs
<1>5. RunsInv /\ AbsentInv
    BY DEF RunsInv, AbsentInv, Leases
<1>6. TurnOrder
    BY DEF TurnOrder, DueProjects, Due
<1>. QED
    BY <1>1, <1>2, <1>3, <1>4, <1>5, <1>6 DEF IInv

\* Every step preserves the invariant.
LEMMA NextIInv == IInv /\ [Next]_vars => IInv'
<1>. SUFFICES ASSUME IInv, [Next]_vars PROVE IInv'
    OBVIOUS
<1>. USE DEF IInv
<1>1. CASE Next
    <2>. USE <1>1 DEF Next, TypeOK
    <2>1. StateTypes' /\ LeaseInv'
        BY StateTypesStep, LeaseInvStep
    <2>2. passed' \in [Projects -> SUBSET Projects]
        <3>1. Dispatched \subseteq Projects
            BY JobsAssumption DEF Dispatched
        <3>. QED
            BY <3>1 DEF Overtake
    <2>3. OneActiveJob' /\ RunsInv' /\ AbsentInv'
        BY OneActiveJobStep, RunsInvStep, AbsentInvStep
    <2>4. SourceInv'
        <3>1. CASE Punctual
            BY <3>1, SourceInvStep DEF SourceInv
        <3>2. CASE ~Punctual
            BY <3>2 DEF SourceInv
        <3>. QED
            BY <3>1, <3>2
    <2>5. Agreement'
        <3>1. CASE Punctual
            BY <3>1, AgreementStep
        <3>2. CASE ~Punctual
            BY <3>2 DEF Agreement
        <3>. QED
            BY <3>1, <3>2
    <2>6. TurnOrder'
        BY TurnOrderStep
    <2>. QED
        BY <2>1, <2>2, <2>3, <2>4, <2>5, <2>6
<1>2. CASE UNCHANGED vars
    <2>. USE <1>2 DEF vars, rows, leaseVars, taskVars
    <2>1. TypeOK'
        BY DEF TypeOK, StateTypes
    <2>2. LeaseInv' /\ OneActiveJob'
        BY DEF LeaseInv, HeldByActive, HeldWasIssued, UnissuedUnused, IssuedForJob,
               WaitsUnclaimed, OnlyCrawlsAsked, OneActiveJob, Active
    <2>3. SourceInv' /\ Agreement'
        BY DEF SourceInv, ExecutorFits, ResultFits, Live, Agreement
    <2>4. RunsInv' /\ AbsentInv'
        BY DEF RunsInv, AbsentInv
    <2>5. TurnOrder'
        BY DEF TurnOrder, DueProjects, Due
    <2>. QED
        BY <2>1, <2>2, <2>3, <2>4, <2>5
<1>. QED
    BY <1>1, <1>2

\* The inductive invariant holds in every reachable state.
LEMMA Invariance == Spec => []IInv
BY InitIInv, NextIInv, PTL DEF Spec

\* Every reachable state has its type.
THEOREM TypeCorrect == Spec => []TypeOK
<1>1. IInv => TypeOK
    BY DEF IInv
<1>. QED
    BY <1>1, Invariance, PTL

\* At most one job holds a lease, for any number of jobs, executors and
\* operators, punctual or not: dispatch_due_jobs counts before it leases, and
\* nothing else makes a job active.
THEOREM CapacityRespected == Spec => []OneActiveJob
<1>1. IInv => OneActiveJob
    BY DEF IInv
<1>. QED
    BY <1>1, Invariance, PTL

\* With a punctual worker at most one executor is at work, and it is the one
\* whose lease the active job holds.
THEOREM SingleExecutor == Spec => []OneExecutor
<1>1. IInv => OneExecutor
    <2>. SUFFICES ASSUME IInv, Punctual
                  PROVE  /\ \A l \in Leases : Live(l) =>
                               /\ jobState[leaseJob[l]] \in {"running", "cancel_requested"}
                               /\ jobLease[leaseJob[l]] = l
                         /\ \A k, l \in Leases : Live(k) /\ Live(l) => k = l
        BY DEF OneExecutor
    <2>1. ASSUME NEW l \in Leases, Live(l)
          PROVE  /\ leaseJob[l] \in Jobs
                 /\ jobState[leaseJob[l]] \in {"running", "cancel_requested"}
                 /\ jobLease[leaseJob[l]] = l
                 /\ Active(leaseJob[l])
        BY <2>1, OwnJob DEF IInv, TypeOK, ExecutorFits, Active, ActiveStates
    <2>2. ASSUME NEW k \in Leases, NEW l \in Leases, Live(k), Live(l) PROVE k = l
        <3>1. leaseJob[k] = leaseJob[l]
            BY <2>1, <2>2 DEF IInv, OneActiveJob
        <3>. QED
            BY <2>1, <2>2, <3>1
    <2>. QED
        BY <2>1, <2>2
<1>. QED
    BY <1>1, Invariance, PTL

\* With a punctual worker the job and its source always agree; in particular
\* a running source always has an active job, so no slot is lost.
THEOREM JobsAgree == Spec => []Agreement
<1>1. IInv => Agreement
    BY DEF IInv
<1>. QED
    BY <1>1, Invariance, PTL

\* A source is started at most once per request of the operator.
THEOREM NothingReplayed == Spec => []NoReplay
<1>1. IInv => NoReplay
    BY DEF IInv, RunsInv, NoReplay
<1>. QED
    BY <1>1, Invariance, PTL

FreshClaims == \A m \in Leases : taskPc'[m] = "claimed" => taskPc[m] \in {"none", "claimed"}

\* A claimed executor was none before: its job was still "leased".
LEMMA ClaimStep ==
    ASSUME StateTypes, LeaseInv, System
    PROVE  FreshClaims
<1>. USE DEF FreshClaims, StateTypes, rows, leaseVars, taskVars
<1>1. ASSUME NEW j \in Jobs, Create(j) PROVE FreshClaims
    BY <1>1 DEF Create
<1>2. ASSUME NEW j \in Jobs, NotBeforePasses(j) PROVE FreshClaims
    BY <1>2 DEF NotBeforePasses
<1>3. ASSUME NEW j \in Jobs, Dispatch(j) PROVE FreshClaims
    BY <1>3 DEF Dispatch
<1>4. ASSUME NEW j \in Jobs, LockRow(j) PROVE FreshClaims
    BY <1>4 DEF LockRow
<1>5. ASSUME NEW j \in Jobs, Refuse(j) PROVE FreshClaims
    BY <1>5 DEF Refuse
<1>6. ASSUME NEW j \in Jobs, Pause(j) PROVE FreshClaims
    BY <1>6 DEF Pause
<1>7. ASSUME NEW j \in Jobs, Resume(j) PROVE FreshClaims
    BY <1>7 DEF Resume
<1>8. ASSUME NEW j \in Jobs, Cancel(j) PROVE FreshClaims
    BY <1>8 DEF Cancel, CancelJob, ExpireWakeups
<1>9. ASSUME NEW j \in Jobs, Retry(j) PROVE FreshClaims
    BY <1>9 DEF Retry
<1>10. ASSUME NEW j \in Jobs, ReadCrawl(j) PROVE FreshClaims
    BY <1>10 DEF ReadCrawl
<1>11. ASSUME NEW j \in Jobs, CancelDomainCrawl(j) PROVE FreshClaims
    BY <1>11 DEF CancelDomainCrawl, CancelJob, ExpireWakeups
<1>12. ASSUME NEW l \in Leases, Publish(l) PROVE FreshClaims
    BY <1>12 DEF Publish, CurrentLease
<1>13. ASSUME NEW l \in Leases, PublishCrash(l) PROVE FreshClaims
    BY <1>13 DEF PublishCrash, CurrentLease
<1>14. ASSUME NEW l \in Leases, LeaseLapses(l) PROVE FreshClaims
    BY <1>14 DEF LeaseLapses
<1>15. ASSUME NEW l \in Leases, Claim(l) PROVE FreshClaims
    <2>1. leaseJob[l] \in Jobs /\ jobState[leaseJob[l]] = "leased" /\ jobLease[leaseJob[l]] = l
        BY <1>15, LeaseHasJob DEF Claim, CurrentLease
    <2>2. taskPc[l] = "none"
        BY <2>1 DEF LeaseInv, WaitsUnclaimed
    <2>. QED
        BY <1>15, <2>2 DEF Claim
<1>16. ASSUME NEW l \in Leases, StartSource(l) PROVE FreshClaims
    BY <1>16, LeaseHasJob DEF StartSource
<1>17. ASSUME NEW l \in Leases, FinishBuild(l) PROVE FreshClaims
    BY <1>17, LeaseHasJob DEF FinishBuild
<1>18. ASSUME NEW l \in Leases, ReadSource(l) PROVE FreshClaims
    BY <1>18, LeaseHasJob DEF ReadSource
<1>19. ASSUME NEW l \in Leases, WriteSource(l) PROVE FreshClaims
    BY <1>19, LeaseHasJob DEF WriteSource
<1>20. ASSUME NEW l \in Leases, Complete(l) PROVE FreshClaims
    BY <1>20, LeaseHasJob DEF Complete
<1>21. ASSUME NEW l \in Leases, Kill(l) PROVE FreshClaims
    BY <1>21, LeaseHasJob DEF Kill
<1>22. ASSUME Recover PROVE FreshClaims
    BY <1>22 DEF Recover, RecoveredState, RecoveredSource, ExpireWakeups
<1>. QED
    BY <1>1, <1>2, <1>3, <1>4, <1>5, <1>6, <1>7, <1>8, <1>9, <1>10, <1>11,
       <1>12, <1>13, <1>14, <1>15, <1>16, <1>17, <1>18, <1>19, <1>20,
       <1>21, <1>22
    DEF System, RequestStep, TaskStep

\* No lease is claimed twice, however often its message is delivered.
THEOREM LeaseClaimedOnce == Spec => ClaimedOnce
<1>1. IInv /\ [Next]_vars =>
         [\A l \in Leases : taskPc'[l] = "claimed" => taskPc[l] \in {"none", "claimed"}]_vars
    BY ClaimStep DEF FreshClaims, IInv, TypeOK, Next
<1>. QED
    BY <1>1, Invariance, PTL DEF Spec, ClaimedOnce

\* Fair rotation: a project that had its turn while another waits does not get
\* a second one before that other project had its own.
THEOREM FairRotation == Spec => NoSecondTurn
<1>1. ASSUME IInv, Next, NEW q \in Projects, Selectable(q)
      PROVE  passed[q] \cap (Dispatched \ {q}) = {}
    <2>1. q \in DueProjects
        BY <1>1 DEF Selectable, DueProjects
    <2>2. CASE NoDispatch
        BY <2>2 DEF NoDispatch, Dispatched
    <2>3. ASSUME NEW j \in Jobs, Dispatch(j) PROVE passed[q] \cap (Dispatched \ {q}) = {}
        <3>1. Dispatched = {ProjectOf[j]} /\ ProjectOf[j] \in Projects
            BY <1>1, <2>3, DispatchTurn DEF IInv
        <3>2. SUFFICES ASSUME ProjectOf[j] # q, ProjectOf[j] \in passed[q] PROVE FALSE
            BY <3>1
        <3>3. turn[q] < turn[ProjectOf[j]]
            BY <1>1, <2>1, <3>2 DEF IInv, TurnOrder
        <3>4. Precedes(ProjectOf[j], q)
            BY <1>1, <2>1, <2>3, <3>2 DEF Dispatch
        <3>5. turn[q] \in Nat /\ turn[ProjectOf[j]] \in Nat
            BY <1>1, <3>1 DEF IInv, TypeOK, StateTypes
        <3>. QED
            BY <3>3, <3>4, <3>5 DEF Precedes
    <2>. QED
        BY <1>1, <2>2, <2>3, DispatchOrNot DEF IInv, TypeOK, Next
<1>2. IInv /\ [Next]_vars =>
         [\A q \in Projects : Selectable(q) => passed[q] \cap (Dispatched \ {q}) = {}]_vars
    BY <1>1
<1>. QED
    BY <1>2, Invariance, PTL DEF Spec, NoSecondTurn
=============================================================================
