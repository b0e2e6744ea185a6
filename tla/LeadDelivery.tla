----------------------------- MODULE LeadDelivery -----------------------------
(***************************************************************************)
(* Durable delivery of one lead (apps/api/app/services/webhook_delivery.py *)
(* and the worker tasks that run it): the deliveries created with the      *)
(* lead, the executors that claim and send them, the sweep that recovers   *)
(* expired leases, the operator's resend, and the lead's delivery          *)
(* aggregate with its copy in lead.crm_status.                             *)
(*                                                                         *)
(* A session w runs process_delivery for delivery mine[w] in two           *)
(* transactions with the network call between them.  Claiming and the      *)
(* sweep recompute the aggregate without a lock on the lead: they read the *)
(* deliveries of the others as committed, and write what they computed     *)
(* when they commit, so the two are separate steps.  Finishing recomputes  *)
(* it under the lead's lock.  A commit writes the columns that differ from *)
(* what the session has read.  Sessions keep their rows over a commit      *)
(* (expire_on_commit=False), so attempt_count and lead.crm_status are the  *)
(* copies of the claim, tries[w] and crmCopy[w]; the aggregate nobody      *)
(* refers to any longer is read again, aggCopy[w].                         *)
(***************************************************************************)
EXTENDS Integers, FiniteSets

CONSTANTS
    Deliveries,    \* the deliveries of the lead
    Required,      \* those its status depends on
    Sessions,      \* executor sessions; ARQ runs up to max_jobs of them
    NoOne,         \* not a session
    MaxAttempts,   \* MAX_ATTEMPTS
    MaxCrashes,    \* bound: sessions that die in a behaviour
    MaxResends     \* bound: resends an operator asks for

Sweeper == "sweep"    \* the sweep's entry in crmCopy, aggCopy and view

ASSUME DeliveryAssumption ==
    /\ IsFiniteSet(Deliveries) /\ Deliveries # {}
    /\ Required \subseteq Deliveries
    /\ NoOne \notin Sessions \cup Deliveries /\ Sweeper \notin Sessions
    /\ MaxAttempts \in Nat \ {0}
    /\ MaxCrashes \in Nat /\ MaxResends \in Nat

Pending == {"queued", "retrying", "processing"}
Settled == {"delivered", "dead_letter"}
Statuses == {"absent"} \cup Pending \cup Settled

VARIABLES
    status, attempts,     \* columns of the deliveries
    lease,                \* locked_until: "none", "held" or "lapsed"
    waiting,              \* deliveries whose next_attempt_at is in the future
    rowLock, leadLock,    \* the sessions that hold the rows FOR UPDATE
    agg, crm,             \* LeadDeliveryAggregate and lead.crm_status
    pc, mine,             \* each session's step, and its delivery
    tries, crmCopy,       \* its copies of attempt_count and crm_status
    aggCopy, view,        \* the aggregate it has read, the one it has computed
    verdict,              \* the status it is about to commit
    sweep,                \* deliveries the open recovery transaction holds
    manual,               \* deliveries with a manual message in Redis
    crashes, resends,     \* bounded counters
    lost                  \* history: attempts of a delivery that died unfinished

rows == <<status, attempts, lease, waiting>>
leadRow == <<agg, crm>>
copies == <<tries, crmCopy, aggCopy, view, verdict>>
counters == <<crashes, resends, lost>>
vars == <<rows, rowLock, leadLock, leadRow, pc, mine, copies, sweep, manual, counters>>

Readers == Sessions \cup {Sweeper}
Free(d) == rowLock[d] = NoOne /\ d \notin sweep

-----------------------------------------------------------------------------
\* recompute_lead_delivery_aggregate over the deliveries' statuses st.
HowMany(st, S) == Cardinality({d \in Required : st[d] \in S})

Outcome(delivered, attention) ==
    IF attention > 0 THEN "attention"
    ELSE IF Required # {} /\ delivered = Cardinality(Required) THEN "delivered"
    ELSE "pending"

Recomputed(st) ==
    [status    |-> Outcome(HowMany(st, {"delivered"}), HowMany(st, {"dead_letter"})),
     delivered |-> HowMany(st, {"delivered"}),
     attention |-> HowMany(st, {"dead_letter"}),
     pending   |-> HowMany(st, Pending)]

NothingYet == [status |-> "none", delivered |-> 0, attention |-> 0, pending |-> 0]

\* What a commit leaves in the two rows: an attribute that is set to the value
\* the session already has is not written.
AggWritten(a, copy) ==
    [status    |-> IF a.status = copy.status THEN agg.status ELSE a.status,
     delivered |-> IF a.delivered = copy.delivered THEN agg.delivered ELSE a.delivered,
     attention |-> IF a.attention = copy.attention THEN agg.attention ELSE a.attention,
     pending   |-> IF a.pending = copy.pending THEN agg.pending ELSE a.pending]

CrmWritten(a, copy) == IF a.status = copy THEN crm ELSE a.status

\* Writing crm_status needs the lead's row, which a finishing session may hold.
CanWriteLead(a, copy) == a.status = copy \/ leadLock = NoOne

\* The session is over; what it had in memory is gone.
End(w) ==
    /\ pc' = [pc EXCEPT ![w] = "idle"]
    /\ mine' = [mine EXCEPT ![w] = NoOne]
    /\ tries' = [tries EXCEPT ![w] = 0]
    /\ crmCopy' = [crmCopy EXCEPT ![w] = "none"]
    /\ aggCopy' = [aggCopy EXCEPT ![w] = NothingYet]
    /\ view' = [view EXCEPT ![w] = NothingYet]
    /\ verdict' = [verdict EXCEPT ![w] = "none"]

-----------------------------------------------------------------------------
Init ==
    /\ status = [d \in Deliveries |-> "absent"]
    /\ attempts = [d \in Deliveries |-> 0]
    /\ lease = [d \in Deliveries |-> "none"]
    /\ waiting = {}
    /\ rowLock = [d \in Deliveries |-> NoOne]
    /\ leadLock = NoOne
    /\ agg = NothingYet
    /\ crm = "none"
    /\ pc = [w \in Sessions |-> "idle"]
    /\ mine = [w \in Sessions |-> NoOne]
    /\ tries = [w \in Sessions |-> 0]
    /\ crmCopy = [w \in Readers |-> "none"]
    /\ aggCopy = [w \in Readers |-> NothingYet]
    /\ view = [w \in Readers |-> NothingYet]
    /\ verdict = [w \in Sessions |-> "none"]
    /\ sweep = {}
    /\ manual = {}
    /\ crashes = 0 /\ resends = 0
    /\ lost = [d \in Deliveries |-> 0]

\* create_public_lead: every delivery of the lead, queued or, when its target
\* is not configured, dead from the start.
CreateLead ==
    /\ \A d \in Deliveries : status[d] = "absent"
    /\ \E dead \in SUBSET Deliveries :
          status' = [d \in Deliveries |-> IF d \in dead THEN "dead_letter" ELSE "queued"]
    /\ agg' = Recomputed(status')
    /\ crm' = agg'.status
    /\ UNCHANGED <<attempts, lease, waiting, rowLock, leadLock, pc, mine, copies, sweep,
                   manual, counters>>

-----------------------------------------------------------------------------
(* process_delivery in session w.                                          *)

\* Faulty variant: a lease another session holds is not looked at.
ClaimHeld(w, d) ==
    /\ pc[w] = "idle"
    /\ Free(d)
    /\ status[d] \in Pending
    /\ d \notin waiting \/ d \in manual
    /\ rowLock' = [rowLock EXCEPT ![d] = w]
    /\ pc' = [pc EXCEPT ![w] = "claiming"]
    /\ mine' = [mine EXCEPT ![w] = d]
    /\ crmCopy' = [crmCopy EXCEPT ![w] = crm]
    /\ aggCopy' = [aggCopy EXCEPT ![w] = agg]
    /\ view' = [view EXCEPT ![w] = Recomputed([status EXCEPT ![d] = "processing"])]
    /\ UNCHANGED <<rows, leadLock, leadRow, tries, verdict, sweep, manual, counters>>

\* The first transaction up to recompute.  An "automatic" call (a message of
\* the creation, or the sweep) keeps to next_attempt_at, a "manual" one does
\* not.  A row another transaction holds is skipped.
Claim(w, d) ==
    /\ pc[w] = "idle"
    /\ Free(d)
    /\ status[d] \in Pending
    /\ lease[d] # "held"
    /\ d \notin waiting \/ d \in manual
    /\ rowLock' = [rowLock EXCEPT ![d] = w]
    /\ pc' = [pc EXCEPT ![w] = "claiming"]
    /\ mine' = [mine EXCEPT ![w] = d]
    /\ crmCopy' = [crmCopy EXCEPT ![w] = crm]
    /\ aggCopy' = [aggCopy EXCEPT ![w] = agg]
    /\ view' = [view EXCEPT ![w] = Recomputed([status EXCEPT ![d] = "processing"])]
    /\ UNCHANGED <<rows, leadLock, leadRow, tries, verdict, sweep, manual, counters>>

\* ... and its commit.
StartSending(w) ==
    LET d == mine[w]
    IN  /\ pc[w] = "claiming"
        /\ CanWriteLead(view[w], crmCopy[w])
        /\ status' = [status EXCEPT ![d] = "processing"]
        /\ attempts' = [attempts EXCEPT ![d] = @ + 1]
        /\ lease' = [lease EXCEPT ![d] = "held"]
        /\ agg' = AggWritten(view[w], aggCopy[w])
        /\ crm' = CrmWritten(view[w], crmCopy[w])
        /\ rowLock' = [rowLock EXCEPT ![d] = NoOne]
        /\ pc' = [pc EXCEPT ![w] = "sending"]
        /\ tries' = [tries EXCEPT ![w] = attempts[d] + 1]
        /\ crmCopy' = [crmCopy EXCEPT ![w] = view[w].status]
        /\ aggCopy' = [aggCopy EXCEPT ![w] = NothingYet]
        /\ view' = [view EXCEPT ![w] = NothingYet]
        /\ UNCHANGED <<waiting, leadLock, mine, verdict, sweep, manual, counters>>

\* The answer of the target decides: accepted, refused but worth a retry
\* while attempts remain, or refused for good.
Verdicts(w) == Settled \cup (IF tries[w] < MaxAttempts THEN {"retrying"} ELSE {})

\* Faulty variant: the aggregate is recomputed without the lead's lock.
FinishUnlocked(w) ==
    LET d == mine[w]
    IN  /\ pc[w] = "sending"
        /\ Free(d)
        /\ rowLock' = [rowLock EXCEPT ![d] = w]
        /\ \E v \in Verdicts(w) :
              /\ verdict' = [verdict EXCEPT ![w] = v]
              /\ view' = [view EXCEPT ![w] = Recomputed([status EXCEPT ![d] = v])]
        /\ aggCopy' = [aggCopy EXCEPT ![w] = agg]
        /\ pc' = [pc EXCEPT ![w] = "finishing"]
        /\ UNCHANGED <<rows, leadLock, leadRow, mine, tries, crmCopy, sweep, manual, counters>>

\* The second transaction up to recompute, on the locked delivery and lead.
Finish(w) ==
    LET d == mine[w]
    IN  /\ pc[w] = "sending"
        /\ Free(d) /\ leadLock = NoOne
        /\ rowLock' = [rowLock EXCEPT ![d] = w]
        /\ leadLock' = w
        /\ \E v \in Verdicts(w) :
              /\ verdict' = [verdict EXCEPT ![w] = v]
              /\ view' = [view EXCEPT ![w] = Recomputed([status EXCEPT ![d] = v])]
        /\ aggCopy' = [aggCopy EXCEPT ![w] = agg]
        /\ pc' = [pc EXCEPT ![w] = "finishing"]
        /\ UNCHANGED <<rows, leadRow, mine, tries, crmCopy, sweep, manual, counters>>

\* ... and its commit.
Record(w) ==
    LET d == mine[w]
    IN  /\ pc[w] = "finishing"
        /\ status' = [status EXCEPT ![d] = verdict[w]]
        /\ lease' = [lease EXCEPT ![d] = "none"]
        /\ waiting' = IF verdict[w] = "retrying" THEN waiting \cup {d} ELSE waiting \ {d}
        /\ agg' = AggWritten(view[w], aggCopy[w])
        /\ crm' = CrmWritten(view[w], crmCopy[w])
        /\ rowLock' = [rowLock EXCEPT ![d] = NoOne]
        /\ leadLock' = NoOne
        /\ End(w)
        /\ UNCHANGED <<attempts, sweep, manual, counters>>

\* The session ends early: job_timeout, an exception (a contact field that
\* cannot be decrypted raises here), a worker crash.  Its transaction is undone.
Crash(w) ==
    /\ pc[w] # "idle"
    /\ crashes < MaxCrashes
    /\ crashes' = crashes + 1
    /\ lost' = IF pc[w] = "claiming" THEN lost ELSE [lost EXCEPT ![mine[w]] = @ + 1]
    /\ rowLock' = [d \in Deliveries |-> IF rowLock[d] = w THEN NoOne ELSE rowLock[d]]
    /\ leadLock' = IF leadLock = w THEN NoOne ELSE leadLock
    /\ End(w)
    /\ UNCHANGED <<rows, leadRow, sweep, manual, resends>>

-----------------------------------------------------------------------------
(* Time.                                                                   *)

BackoffPasses(d) ==
    /\ d \in waiting
    /\ waiting' = waiting \ {d}
    /\ UNCHANGED <<status, attempts, lease, rowLock, leadLock, leadRow, pc, mine, copies,
                   sweep, manual, counters>>

\* locked_until passes.  A send is bounded by the 10 s timeouts of its client,
\* the lease is 300 s: a session at work is done before its lease lapses.
LeaseLapses(d) ==
    /\ lease[d] = "held"
    /\ \A w \in Sessions : pc[w] \in {"sending", "finishing"} => mine[w] # d
    /\ lease' = [lease EXCEPT ![d] = "lapsed"]
    /\ UNCHANGED <<status, attempts, waiting, rowLock, leadLock, leadRow, pc, mine, copies,
                   sweep, manual, counters>>

-----------------------------------------------------------------------------
(* recover_expired_leases, at the head of every sweep.                     *)

\* Faulty variant: recovery looks for rows that are already waiting again.
ReadRetrying ==
    LET S == {d \in Deliveries : status[d] = "retrying" /\ lease[d] = "lapsed" /\ Free(d)}
    IN  /\ sweep = {} /\ S # {}
        /\ sweep' = S
        /\ crmCopy' = [crmCopy EXCEPT ![Sweeper] = crm]
        /\ aggCopy' = [aggCopy EXCEPT ![Sweeper] = agg]
        /\ view' = [view EXCEPT ![Sweeper] = Recomputed(status)]
        /\ UNCHANGED <<rows, rowLock, leadLock, leadRow, pc, mine, tries, verdict, manual,
                       counters>>

ReadExpired ==
    LET S == {d \in Deliveries : status[d] = "processing" /\ lease[d] = "lapsed" /\ Free(d)}
    IN  /\ sweep = {} /\ S # {}
        /\ sweep' = S
        /\ crmCopy' = [crmCopy EXCEPT ![Sweeper] = crm]
        /\ aggCopy' = [aggCopy EXCEPT ![Sweeper] = agg]
        /\ view' = [view EXCEPT ![Sweeper] =
                       Recomputed([d \in Deliveries |-> IF d \in S THEN "retrying" ELSE status[d]])]
        /\ UNCHANGED <<rows, rowLock, leadLock, leadRow, pc, mine, tries, verdict, manual,
                       counters>>

Recover ==
    /\ sweep # {}
    /\ CanWriteLead(view[Sweeper], crmCopy[Sweeper])
    /\ status' = [d \in Deliveries |-> IF d \in sweep THEN "retrying" ELSE status[d]]
    /\ lease' = [d \in Deliveries |-> IF d \in sweep THEN "none" ELSE lease[d]]
    /\ waiting' = waiting \ sweep
    /\ agg' = AggWritten(view[Sweeper], aggCopy[Sweeper])
    /\ crm' = CrmWritten(view[Sweeper], crmCopy[Sweeper])
    /\ sweep' = {}
    /\ crmCopy' = [crmCopy EXCEPT ![Sweeper] = "none"]
    /\ aggCopy' = [aggCopy EXCEPT ![Sweeper] = NothingYet]
    /\ view' = [view EXCEPT ![Sweeper] = NothingYet]
    /\ UNCHANGED <<attempts, rowLock, leadLock, pc, mine, tries, verdict, manual, counters>>

-----------------------------------------------------------------------------
\* Faulty variant: any settled delivery can be sent again.
ResendSettled(d) ==
    /\ status[d] \in Settled
    /\ Free(d) /\ leadLock = NoOne
    /\ resends < MaxResends
    /\ resends' = resends + 1
    /\ status' = [status EXCEPT ![d] = "queued"]
    /\ attempts' = [attempts EXCEPT ![d] = 0]
    /\ lease' = [lease EXCEPT ![d] = "none"]
    /\ waiting' = waiting \ {d}
    /\ agg' = Recomputed(status')
    /\ crm' = CrmWritten(agg', crm)
    /\ manual' \in {manual, manual \cup {d}}
    /\ lost' = [lost EXCEPT ![d] = 0]
    /\ UNCHANGED <<rowLock, leadLock, pc, mine, copies, sweep, crashes>>

\* resend_lead_delivery: under both locks, a dead delivery starts over.  The
\* manual message may not reach Redis; the sweep finds the row anyway.
Resend(d) ==
    /\ status[d] = "dead_letter"
    /\ Free(d) /\ leadLock = NoOne
    /\ resends < MaxResends
    /\ resends' = resends + 1
    /\ status' = [status EXCEPT ![d] = "queued"]
    /\ attempts' = [attempts EXCEPT ![d] = 0]
    /\ lease' = [lease EXCEPT ![d] = "none"]
    /\ waiting' = waiting \ {d}
    /\ agg' = Recomputed(status')
    /\ crm' = CrmWritten(agg', crm)
    /\ manual' \in {manual, manual \cup {d}}
    /\ lost' = [lost EXCEPT ![d] = 0]
    /\ UNCHANGED <<rowLock, leadLock, pc, mine, copies, sweep, crashes>>

-----------------------------------------------------------------------------
Next ==
    \/ CreateLead
    \/ \E w \in Sessions : \/ \E d \in Deliveries : Claim(w, d)
                           \/ StartSending(w) \/ Finish(w) \/ Record(w) \/ Crash(w)
    \/ \E d \in Deliveries : BackoffPasses(d) \/ LeaseLapses(d) \/ Resend(d)
    \/ ReadExpired \/ Recover

Spec == Init /\ [][Next]_vars

\* What the sweep offers to process_delivery (due_delivery_ids).
ClaimDue(d) ==
    /\ status[d] \in {"queued", "retrying"}
    /\ d \notin waiting
    /\ \E w \in Sessions : Claim(w, d)

\* A session goes on until it ends, time passes, and the sweep (every five
\* minutes) recovers expired leases and then processes every due delivery.
\* A claim needs a row nobody else holds at that moment, and the lead's lock a
\* moment when it is free.
Fairness ==
    /\ \A w \in Sessions : SF_vars(StartSending(w)) /\ SF_vars(Finish(w)) /\ WF_vars(Record(w))
    /\ \A d \in Deliveries : /\ WF_vars(BackoffPasses(d)) /\ WF_vars(LeaseLapses(d))
                             /\ SF_vars(ClaimDue(d))
    /\ WF_vars(ReadExpired) /\ SF_vars(Recover)

FairSpec == Spec /\ Fairness

-----------------------------------------------------------------------------
(* Properties.                                                             *)

CrmValues == {"none", "pending", "attention", "delivered"}
Aggregates == [status : CrmValues, delivered : Nat, attention : Nat, pending : Nat]

TypeOK ==
    /\ status \in [Deliveries -> Statuses]
    /\ attempts \in [Deliveries -> Nat]
    /\ lease \in [Deliveries -> {"none", "held", "lapsed"}]
    /\ waiting \subseteq Deliveries
    /\ rowLock \in [Deliveries -> Sessions \cup {NoOne}]
    /\ leadLock \in Sessions \cup {NoOne}
    /\ agg \in Aggregates
    /\ crm \in CrmValues
    /\ pc \in [Sessions -> {"idle", "claiming", "sending", "finishing"}]
    /\ mine \in [Sessions -> Deliveries \cup {NoOne}]
    /\ tries \in [Sessions -> Nat]
    /\ crmCopy \in [Readers -> CrmValues]
    /\ aggCopy \in [Readers -> Aggregates] /\ view \in [Readers -> Aggregates]
    /\ verdict \in [Sessions -> {"none", "retrying"} \cup Settled]
    /\ sweep \subseteq Deliveries
    /\ manual \subseteq Deliveries
    /\ crashes \in 0 .. MaxCrashes /\ resends \in 0 .. MaxResends
    /\ lost \in [Deliveries -> Nat]

\* A lead is never sent to one target by two sessions at a time, although the
\* sweep, the message of the creation, a manual message and ARQ's repeated
\* messages all call process_delivery on the same row.
OneSender ==
    \A v, w \in Sessions :
        pc[v] # "idle" /\ pc[w] # "idle" /\ mine[v] = mine[w] => v = w

\* What the operator sees is right once nothing is pending: the aggregate of a
\* lead whose deliveries have all settled counts exactly what they are, although
\* claims and the sweep write, column by column, aggregates computed from
\* statuses since changed.
SettledAggregate ==
    (\A d \in Deliveries : status[d] \in Settled) => agg = Recomputed(status)

\* max_attempts bounds the attempts, except that an attempt that died is made up
\* for: recover_expired_leases puts its delivery back whatever its count.
AttemptsBounded == \A d \in Deliveries : attempts[d] <= MaxAttempts + lost[d]

\* A delivered lead is never sent to that target again: no resend, no late
\* message and no recovery takes a delivery out of "delivered".
DeliveredStays ==
    [][\A d \in Deliveries : status[d] = "delivered" => status'[d] = "delivered"]_vars

\* Every delivery settles: it is delivered or dead-lettered, whatever dies on
\* the way (finitely often).
Settles == \A d \in Deliveries : status[d] \in Pending ~> status[d] \in Settled

\* lead.crm_status says the same as the aggregate once nothing is pending
\* (test_delivery_aggregate_marks_required_dead_letter_as_attention).
CrmAgrees ==
    (\A d \in Deliveries : status[d] \in Settled) => crm = agg.status
=============================================================================
