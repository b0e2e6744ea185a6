-------------------------- MODULE LeadDeliveryProofs --------------------------
(***************************************************************************)
(* Proofs about LeadDelivery for any number of deliveries and sessions.    *)
(*                                                                         *)
(* LockInv says who holds which row and what a session's delivery looks    *)
(* like meanwhile; ViewInv is why SettledAggregate survives: whoever holds *)
(* the lead's lock has computed the aggregate its commit makes true,       *)
(* because all that others can change meanwhile is one pending status into *)
(* another; MergeInv says that no other commit slipped in between, once    *)
(* nothing else is pending.  BudgetInv counts the attempts.                *)
(***************************************************************************)
EXTENDS LeadDelivery, FiniteSetTheorems, TLAPS

AtWork(w) == pc[w] \in {"sending", "finishing"}

\* A session that is not idle, against the row of its delivery.
SessionFits(w) ==
    /\ mine[w] \in Deliveries
    /\ pc[w] = "claiming" => /\ status[mine[w]] \in Pending
                             /\ lease[mine[w]] # "held"
                             /\ rowLock[mine[w]] = w
    /\ AtWork(w) => status[mine[w]] = "processing" /\ lease[mine[w]] = "held"
    /\ pc[w] = "finishing" => /\ rowLock[mine[w]] = w /\ leadLock = w
                              /\ verdict[w] \in Settled \cup {"retrying"}

SessionsFit == \A w \in Sessions : pc[w] # "idle" => SessionFits(w)

RowHeld == \A d \in Deliveries : rowLock[d] # NoOne =>
              mine[rowLock[d]] = d /\ pc[rowLock[d]] \in {"claiming", "finishing"}

SweepHolds == \A d \in sweep :
                 rowLock[d] = NoOne /\ status[d] = "processing" /\ lease[d] = "lapsed"

LockInv == SessionsFit /\ RowHeld /\ SweepHolds

ViewInv == \A w \in Sessions : pc[w] = "finishing" =>
              view[w] = Recomputed([status EXCEPT ![mine[w]] = verdict[w]])

MergeInv == \A w \in Sessions :
               /\ pc[w] = "finishing"
               /\ \A d \in Deliveries : d # mine[w] => status[d] \in Settled
               => aggCopy[w] = agg

Counted == \A w \in Sessions : AtWork(w) =>
              /\ attempts[mine[w]] = tries[w]
              /\ tries[w] <= MaxAttempts + lost[mine[w]]
              /\ pc[w] = "finishing" /\ verdict[w] = "retrying" => tries[w] < MaxAttempts

Spare == \A d \in Deliveries :
            /\ status[d] = "absent" => attempts[d] = 0
            /\ status[d] \in Pending /\ (\A w \in Sessions : AtWork(w) => mine[w] # d) =>
                  attempts[d] < MaxAttempts + lost[d]

BudgetInv == Counted /\ Spare

IInv == TypeOK /\ LockInv /\ OneSender /\ ViewInv /\ MergeInv /\ SettledAggregate
            /\ BudgetInv /\ AttemptsBounded

-----------------------------------------------------------------------------
(* Facts about recompute_lead_delivery_aggregate.                          *)

\* What is counted is a natural number.
LEMMA CountType ==
    ASSUME NEW st, NEW S
    PROVE  HowMany(st, S) \in Nat
<1>1. IsFiniteSet({d \in Required : st[d] \in S})
    BY DeliveryAssumption, FS_Subset
<1>. QED
    BY <1>1, FS_CardinalityType DEF HowMany

\* An aggregate that was computed is well-formed.
LEMMA RecomputedType ==
    ASSUME NEW st
    PROVE  Recomputed(st) \in Aggregates
<1>1. \A S : HowMany(st, S) \in Nat
    BY CountType
<1>2. Outcome(HowMany(st, {"delivered"}), HowMany(st, {"dead_letter"})) \in CrmValues
    BY DEF Outcome, CrmValues
<1>. QED
    BY <1>1, <1>2 DEF Recomputed, Aggregates

\* The aggregate does not tell one pending status from another.
LEMMA PendingAlike ==
    ASSUME NEW s1, NEW s2,
           \A d \in Deliveries : s1[d] = s2[d] \/ (s1[d] \in Pending /\ s2[d] \in Pending)
    PROVE  Recomputed(s1) = Recomputed(s2)
<1>1. \A d \in Required : s1[d] = s2[d] \/ (s1[d] \in Pending /\ s2[d] \in Pending)
    BY DeliveryAssumption
<1>2. {d \in Required : s1[d] \in {"delivered"}} = {d \in Required : s2[d] \in {"delivered"}}
    BY <1>1 DEF Pending
<1>3. {d \in Required : s1[d] \in {"dead_letter"}} = {d \in Required : s2[d] \in {"dead_letter"}}
    BY <1>1 DEF Pending
<1>4. {d \in Required : s1[d] \in Pending} = {d \in Required : s2[d] \in Pending}
    BY <1>1 DEF Pending
<1>. QED
    BY <1>2, <1>3, <1>4 DEF Recomputed, HowMany

\* A commit whose session has read the row as it still is leaves what it computed.
LEMMA WrittenWhole ==
    ASSUME NEW a \in Aggregates
    PROVE  AggWritten(a, agg) = a
BY DEF AggWritten, Aggregates

\* Whatever was read, what a commit leaves is well-formed.
LEMMA WrittenType ==
    ASSUME NEW a \in Aggregates, NEW copy, agg \in Aggregates
    PROVE  AggWritten(a, copy) \in Aggregates
BY DEF AggWritten, Aggregates

-----------------------------------------------------------------------------
(* Types.                                                                  *)

\* The initial state is well-typed.
LEMMA TypeInit == Init => TypeOK
<1>. SUFFICES ASSUME Init PROVE TypeOK
    OBVIOUS
<1>1. NothingYet \in Aggregates
    BY DEF NothingYet, Aggregates, CrmValues
<1>. QED
    BY <1>1, DeliveryAssumption DEF Init, TypeOK, Statuses, CrmValues, Settled, Pending

\* A session that ends leaves nothing in memory.
LEMMA EndType ==
    ASSUME TypeOK, NEW w \in Sessions, End(w)
    PROVE  /\ pc' \in [Sessions -> {"idle", "claiming", "sending", "finishing"}]
           /\ mine' \in [Sessions -> Deliveries \cup {NoOne}]
           /\ tries' \in [Sessions -> Nat]
           /\ crmCopy' \in [Readers -> CrmValues]
           /\ aggCopy' \in [Readers -> Aggregates] /\ view' \in [Readers -> Aggregates]
           /\ verdict' \in [Sessions -> {"none", "retrying"} \cup Settled]
<1>1. NothingYet \in Aggregates
    BY DEF NothingYet, Aggregates, CrmValues
<1>2. crmCopy' \in [Readers -> CrmValues]
    BY DEF End, TypeOK, CrmValues
<1>. QED
    BY <1>1, <1>2 DEF End, TypeOK

\* Every step keeps every variable in its type.
LEMMA TypeStep ==
    ASSUME TypeOK, SessionsFit, Next
    PROVE  TypeOK'
<1>. USE DEF TypeOK, rows, leadRow, copies, counters
<1>a. NothingYet \in Aggregates
    BY DEF NothingYet, Aggregates, CrmValues
<1>b. \A a \in Aggregates : a.status \in CrmValues
    BY DEF Aggregates
<1>c. Sweeper \in Readers /\ Sessions \subseteq Readers
    BY DEF Readers
<1>1. CASE CreateLead
    <2>1. status' \in [Deliveries -> Statuses]
        BY <1>1 DEF CreateLead, Statuses, Pending, Settled
    <2>2. agg' \in Aggregates
        BY <1>1, RecomputedType DEF CreateLead
    <2>. QED
        BY <1>1, <1>b, <2>1, <2>2 DEF CreateLead
<1>2. ASSUME NEW w \in Sessions, NEW d \in Deliveries, Claim(w, d) PROVE TypeOK'
    <2>1. Recomputed([status EXCEPT ![d] = "processing"]) \in Aggregates
        BY RecomputedType
    <2>2. view' \in [Readers -> Aggregates] /\ aggCopy' \in [Readers -> Aggregates]
        BY <1>2, <1>c, <2>1 DEF Claim
    <2>3. crmCopy' \in [Readers -> CrmValues]
        BY <1>2 DEF Claim
    <2>. QED
        BY <1>2, <2>2, <2>3 DEF Claim
<1>3. ASSUME NEW w \in Sessions, StartSending(w) PROVE TypeOK'
    <2>1. mine[w] \in Deliveries
        BY <1>3 DEF StartSending, SessionsFit, SessionFits
    <2>2. view[w] \in Aggregates
        BY <1>c
    <2>3. agg' \in Aggregates
        BY <1>3, <2>2, WrittenType DEF StartSending
    <2>4. crm' \in CrmValues /\ crmCopy' \in [Readers -> CrmValues]
        BY <1>3, <1>b, <2>2 DEF StartSending, CrmWritten
    <2>5. status' \in [Deliveries -> Statuses]
        BY <1>3 DEF StartSending, Statuses, Pending
    <2>6. aggCopy' \in [Readers -> Aggregates] /\ view' \in [Readers -> Aggregates]
        BY <1>3, <1>a DEF StartSending
    <2>. QED
        BY <1>3, <2>1, <2>3, <2>4, <2>5, <2>6 DEF StartSending
<1>4. ASSUME NEW w \in Sessions, Finish(w) PROVE TypeOK'
    <2>1. PICK v \in Verdicts(w) :
             /\ verdict' = [verdict EXCEPT ![w] = v]
             /\ view' = [view EXCEPT ![w] = Recomputed([status EXCEPT ![mine[w]] = v])]
        BY <1>4 DEF Finish
    <2>2. verdict' \in [Sessions -> {"none", "retrying"} \cup Settled]
        BY <2>1 DEF Verdicts
    <2>3. Recomputed([status EXCEPT ![mine[w]] = v]) \in Aggregates
        BY RecomputedType
    <2>4. view' \in [Readers -> Aggregates] /\ aggCopy' \in [Readers -> Aggregates]
        BY <1>4, <1>c, <2>1, <2>3 DEF Finish
    <2>. QED
        BY <1>4, <2>2, <2>4 DEF Finish
<1>5. ASSUME NEW w \in Sessions, Record(w) PROVE TypeOK'
    <2>1. view[w] \in Aggregates
        BY <1>c
    <2>2. agg' \in Aggregates
        BY <1>5, <2>1, WrittenType DEF Record
    <2>3. crm' \in CrmValues
        BY <1>5, <1>b, <2>1 DEF Record, CrmWritten
    <2>4. verdict[w] \in Settled \cup {"retrying"}
        BY <1>5 DEF Record, SessionsFit, SessionFits
    <2>5. status' \in [Deliveries -> Statuses]
        BY <1>5, <2>4 DEF Record, Statuses, Pending
    <2>6. mine[w] \in Deliveries
        BY <1>5 DEF Record, SessionsFit, SessionFits
    <2>. QED
        BY <1>5, <2>2, <2>3, <2>5, <2>6, EndType DEF Record
<1>6. ASSUME NEW w \in Sessions, Crash(w) PROVE TypeOK'
    <2>1. crashes' \in 0 .. MaxCrashes
        BY <1>6, DeliveryAssumption DEF Crash
    <2>2. lost' \in [Deliveries -> Nat]
        <3>1. mine[w] \in Deliveries
            BY <1>6 DEF Crash, SessionsFit, SessionFits
        <3>2. lost' = lost \/ lost' = [lost EXCEPT ![mine[w]] = @ + 1]
            BY <1>6 DEF Crash
        <3>. QED
            BY <3>1, <3>2
    <2>3. rowLock' \in [Deliveries -> Sessions \cup {NoOne}]
        BY <1>6 DEF Crash
    <2>. QED
        BY <1>6, <2>1, <2>2, <2>3, EndType DEF Crash
<1>7. ASSUME NEW d \in Deliveries, BackoffPasses(d) PROVE TypeOK'
    BY <1>7 DEF BackoffPasses
<1>8. ASSUME NEW d \in Deliveries, LeaseLapses(d) PROVE TypeOK'
    BY <1>8 DEF LeaseLapses
<1>9. ASSUME NEW d \in Deliveries, Resend(d) PROVE TypeOK'
    <2>1. agg' \in Aggregates
        BY <1>9, RecomputedType DEF Resend
    <2>2. crm' \in CrmValues
        BY <1>9, <1>b, <2>1 DEF Resend, CrmWritten
    <2>3. status' \in [Deliveries -> Statuses]
        BY <1>9 DEF Resend, Statuses, Pending
    <2>4. resends' \in 0 .. MaxResends
        BY <1>9, DeliveryAssumption DEF Resend
    <2>. QED
        BY <1>9, <2>1, <2>2, <2>3, <2>4 DEF Resend
<1>10. CASE ReadExpired
    <2>1. PICK S \in SUBSET Deliveries :
             /\ sweep' = S
             /\ view' = [view EXCEPT ![Sweeper] =
                    Recomputed([d \in Deliveries |-> IF d \in S THEN "retrying" ELSE status[d]])]
        BY <1>10 DEF ReadExpired
    <2>2. view' \in [Readers -> Aggregates]
        BY <2>1, RecomputedType
    <2>3. aggCopy' \in [Readers -> Aggregates] /\ crmCopy' \in [Readers -> CrmValues]
        BY <1>10 DEF ReadExpired
    <2>. QED
        BY <1>10, <2>1, <2>2, <2>3 DEF ReadExpired
<1>11. CASE Recover
    <2>1. view[Sweeper] \in Aggregates
        BY <1>c
    <2>2. agg' \in Aggregates
        BY <1>11, <2>1, WrittenType DEF Recover
    <2>3. crm' \in CrmValues
        BY <1>11, <1>b, <2>1 DEF Recover, CrmWritten
    <2>4. status' \in [Deliveries -> Statuses]
        BY <1>11 DEF Recover, Statuses, Pending
    <2>5. crmCopy' \in [Readers -> CrmValues]
        BY <1>11 DEF Recover, CrmValues
    <2>6. aggCopy' \in [Readers -> Aggregates] /\ view' \in [Readers -> Aggregates]
        BY <1>11, <1>a DEF Recover
    <2>. QED
        BY <1>11, <2>2, <2>3, <2>4, <2>5, <2>6 DEF Recover
<1>. QED
    BY <1>1, <1>2, <1>3, <1>4, <1>5, <1>6, <1>7, <1>8, <1>9, <1>10, <1>11 DEF Next

-----------------------------------------------------------------------------
(* Who holds what.                                                         *)

\* Nothing is held at first.
LEMMA LockInit == Init => LockInv /\ OneSender
BY DEF Init, LockInv, SessionsFit, RowHeld, SweepHolds, OneSender

\* The session that holds a row is the only one at work on it.
LEMMA RowFree ==
    ASSUME LockInv, NEW d \in Deliveries, Free(d), NEW v \in Sessions, pc[v] # "idle",
           mine[v] = d, TypeOK
    PROVE  pc[v] = "sending"
<1>1. v # NoOne
    BY DeliveryAssumption
<1>2. SessionFits(v) /\ rowLock[d] = NoOne
    BY DEF LockInv, SessionsFit, Free
<1>3. pc[v] \in {"idle", "claiming", "sending", "finishing"}
    BY DEF TypeOK
<1>. QED
    BY <1>1, <1>2, <1>3 DEF SessionFits

\* A row a session holds FOR UPDATE is not in the sweep's transaction.
LEMMA HeldNotSwept ==
    ASSUME LockInv, NEW w \in Sessions, pc[w] \in {"claiming", "finishing"}
    PROVE  rowLock[mine[w]] = w /\ rowLock[mine[w]] # NoOne /\ mine[w] \notin sweep
BY DeliveryAssumption DEF LockInv, SessionsFit, SessionFits, SweepHolds

\* A delivery in the sweep's transaction has no session.
LEMMA SweptAlone ==
    ASSUME LockInv, TypeOK, NEW d \in sweep, NEW v \in Sessions, pc[v] # "idle"
    PROVE  mine[v] # d
<1>1. SessionFits(v) /\ rowLock[d] = NoOne /\ lease[d] = "lapsed"
    BY DEF LockInv, SessionsFit, SweepHolds
<1>2. pc[v] \in {"idle", "claiming", "sending", "finishing"} /\ v # NoOne
    BY DeliveryAssumption DEF TypeOK
<1>. QED
    BY <1>1, <1>2 DEF SessionFits, AtWork

\* Every step keeps the locks, and one session per delivery.
LEMMA LockStep ==
    ASSUME TypeOK, LockInv, OneSender, Next
    PROVE  LockInv' /\ OneSender'
<1>. USE DEF rows, leadRow, copies, counters
<1>t. \A v \in Sessions : pc[v] # "idle" => mine[v] \in Deliveries /\ status[mine[v]] \in Pending
    BY DEF TypeOK, LockInv, SessionsFit, SessionFits, AtWork, Pending
<1>1. CASE CreateLead
    <2>1. \A v \in Sessions : pc[v] = "idle"
        BY <1>1, <1>t DEF CreateLead, Pending
    <2>2. sweep = {}
        BY <1>1 DEF CreateLead, LockInv, SweepHolds, TypeOK
    <2>. QED
        BY <1>1, <2>1, <2>2 DEF CreateLead, LockInv, SessionsFit, RowHeld, SweepHolds, OneSender
<1>2. ASSUME NEW w \in Sessions, NEW d \in Deliveries, Claim(w, d) PROVE LockInv' /\ OneSender'
    <2>1. \A v \in Sessions : pc[v] # "idle" => v # w /\ mine[v] # d
        <3>1. SUFFICES ASSUME NEW v \in Sessions, pc[v] # "idle", mine[v] = d PROVE FALSE
            BY <1>2 DEF Claim
        <3>2. pc[v] = "sending"
            BY <1>2, <3>1, RowFree DEF Claim
        <3>. QED
            BY <1>2, <3>1, <3>2 DEF Claim, LockInv, SessionsFit, SessionFits, AtWork
    <2>2. SessionsFit'
        BY <1>2, <2>1 DEF Claim, LockInv, SessionsFit, SessionFits, AtWork, TypeOK
    <2>3. RowHeld'
        BY <1>2, <2>1 DEF Claim, LockInv, RowHeld, Free, TypeOK
    <2>4. SweepHolds'
        BY <1>2 DEF Claim, LockInv, SweepHolds, Free, TypeOK
    <2>5. OneSender'
        BY <1>2, <2>1 DEF Claim, OneSender, TypeOK
    <2>. QED
        BY <2>2, <2>3, <2>4, <2>5 DEF LockInv
<1>3. ASSUME NEW w \in Sessions, StartSending(w) PROVE LockInv' /\ OneSender'
    <2>1. \A v \in Sessions : v # w /\ pc[v] # "idle" => mine[v] # mine[w]
        BY <1>3 DEF StartSending, OneSender
    <2>2. rowLock[mine[w]] = w /\ mine[w] \notin sweep /\ mine[w] \in Deliveries
        BY <1>3, <1>t, HeldNotSwept DEF StartSending
    <2>3. SessionsFit'
        BY <1>3, <2>1, <2>2 DEF StartSending, LockInv, SessionsFit, SessionFits, AtWork, TypeOK
    <2>4. RowHeld'
        BY <1>3, <2>2 DEF StartSending, LockInv, RowHeld, TypeOK
    <2>5. SweepHolds'
        BY <1>3, <2>2 DEF StartSending, LockInv, SweepHolds, TypeOK
    <2>6. OneSender'
        BY <1>3, <2>1 DEF StartSending, OneSender, TypeOK
    <2>. QED
        BY <2>3, <2>4, <2>5, <2>6 DEF LockInv
<1>4. ASSUME NEW w \in Sessions, Finish(w) PROVE LockInv' /\ OneSender'
    <2>1. \A v \in Sessions : v # w /\ pc[v] # "idle" => mine[v] # mine[w]
        BY <1>4 DEF Finish, OneSender
    <2>2. \A v \in Sessions : pc[v] # "finishing"
        BY <1>4, DeliveryAssumption DEF Finish, LockInv, SessionsFit, SessionFits
    <2>3. mine[w] \in Deliveries /\ mine[w] \notin sweep
        BY <1>4, <1>t DEF Finish, Free
    <2>4. \E v \in Verdicts(w) : verdict' = [verdict EXCEPT ![w] = v]
        BY <1>4 DEF Finish
    <2>5. SessionsFit'
        BY <1>4, <2>1, <2>2, <2>3, <2>4
        DEF Finish, Verdicts, LockInv, SessionsFit, SessionFits, AtWork, TypeOK
    <2>6. RowHeld'
        BY <1>4, <2>1, <2>3 DEF Finish, LockInv, RowHeld, Free, TypeOK
    <2>7. SweepHolds'
        BY <1>4, <2>3 DEF Finish, LockInv, SweepHolds, TypeOK
    <2>8. OneSender'
        BY <1>4, <2>1 DEF Finish, OneSender, TypeOK
    <2>. QED
        BY <2>5, <2>6, <2>7, <2>8 DEF LockInv
<1>5. ASSUME NEW w \in Sessions, Record(w) PROVE LockInv' /\ OneSender'
    <2>1. \A v \in Sessions : v # w /\ pc[v] # "idle" => mine[v] # mine[w]
        BY <1>5 DEF Record, OneSender
    <2>2. rowLock[mine[w]] = w /\ mine[w] \notin sweep /\ mine[w] \in Deliveries
        BY <1>5, <1>t, HeldNotSwept DEF Record
    <2>3. \A v \in Sessions : v # w => pc[v] # "finishing"
        BY <1>5 DEF Record, LockInv, SessionsFit, SessionFits
    <2>4. \A v \in Sessions : v # w => pc'[v] = pc[v] /\ mine'[v] = mine[v] /\ verdict'[v] = verdict[v]
        BY <1>5 DEF Record, End, TypeOK
    <2>5. pc'[w] = "idle"
        BY <1>5 DEF Record, End, TypeOK
    <2>6. SessionsFit'
        BY <1>5, <2>1, <2>2, <2>3, <2>4, <2>5
        DEF Record, LockInv, SessionsFit, SessionFits, AtWork, TypeOK
    <2>7. RowHeld'
        BY <1>5, <2>2, <2>4, <2>5 DEF Record, LockInv, RowHeld, TypeOK
    <2>8. SweepHolds'
        BY <1>5, <2>2 DEF Record, LockInv, SweepHolds, TypeOK
    <2>9. OneSender'
        BY <2>4, <2>5 DEF OneSender
    <2>. QED
        BY <2>6, <2>7, <2>8, <2>9 DEF LockInv
<1>6. ASSUME NEW w \in Sessions, Crash(w) PROVE LockInv' /\ OneSender'
    <2>1. \A v \in Sessions : v # w => pc'[v] = pc[v] /\ mine'[v] = mine[v] /\ verdict'[v] = verdict[v]
        BY <1>6 DEF Crash, End, TypeOK
    <2>2. pc'[w] = "idle"
        BY <1>6 DEF Crash, End, TypeOK
    <2>3. \A d \in Deliveries : rowLock'[d] = IF rowLock[d] = w THEN NoOne ELSE rowLock[d]
        BY <1>6 DEF Crash
    <2>4. SessionsFit'
        BY <1>6, <2>1, <2>2, <2>3, DeliveryAssumption
        DEF Crash, LockInv, SessionsFit, SessionFits, AtWork, TypeOK
    <2>5. RowHeld'
        BY <1>6, <2>1, <2>3 DEF Crash, LockInv, RowHeld, TypeOK
    <2>6. SweepHolds'
        BY <1>6, <2>3 DEF Crash, LockInv, SweepHolds, TypeOK
    <2>7. OneSender'
        BY <2>1, <2>2 DEF OneSender
    <2>. QED
        BY <2>4, <2>5, <2>6, <2>7 DEF LockInv
<1>7. ASSUME NEW d \in Deliveries, BackoffPasses(d) PROVE LockInv' /\ OneSender'
    BY <1>7 DEF BackoffPasses, LockInv, SessionsFit, SessionFits, AtWork, RowHeld, SweepHolds,
       OneSender
<1>8. ASSUME NEW d \in Deliveries, LeaseLapses(d) PROVE LockInv' /\ OneSender'
    <2>1. SessionsFit'
        BY <1>8 DEF LeaseLapses, LockInv, SessionsFit, SessionFits, AtWork, TypeOK
    <2>2. RowHeld' /\ OneSender'
        BY <1>8 DEF LeaseLapses, LockInv, RowHeld, OneSender
    <2>3. SweepHolds'
        BY <1>8 DEF LeaseLapses, LockInv, SweepHolds, TypeOK
    <2>. QED
        BY <2>1, <2>2, <2>3 DEF LockInv
<1>9. ASSUME NEW d \in Deliveries, Resend(d) PROVE LockInv' /\ OneSender'
    <2>1. \A v \in Sessions : pc[v] # "idle" => mine[v] # d
        BY <1>9, <1>t DEF Resend, Pending
    <2>2. SessionsFit'
        BY <1>9, <2>1 DEF Resend, LockInv, SessionsFit, SessionFits, AtWork, TypeOK
    <2>3. RowHeld' /\ OneSender'
        BY <1>9 DEF Resend, LockInv, RowHeld, OneSender
    <2>4. SweepHolds'
        BY <1>9 DEF Resend, LockInv, SweepHolds, TypeOK
    <2>. QED
        BY <2>2, <2>3, <2>4 DEF LockInv
<1>10. CASE ReadExpired
    <2>1. SessionsFit' /\ RowHeld' /\ OneSender'
        BY <1>10 DEF ReadExpired, LockInv, SessionsFit, SessionFits, AtWork, RowHeld, OneSender
    <2>2. SweepHolds'
        BY <1>10 DEF ReadExpired, SweepHolds, Free
    <2>. QED
        BY <2>1, <2>2 DEF LockInv
<1>11. CASE Recover
    <2>1. \A v \in Sessions : pc[v] # "idle" => mine[v] \notin sweep
        BY SweptAlone
    <2>2. SessionsFit'
        BY <1>11, <2>1 DEF Recover, LockInv, SessionsFit, SessionFits, AtWork, TypeOK
    <2>3. RowHeld' /\ SweepHolds' /\ OneSender'
        BY <1>11 DEF Recover, LockInv, RowHeld, SweepHolds, OneSender
    <2>. QED
        BY <2>2, <2>3 DEF LockInv
<1>. QED
    BY <1>1, <1>2, <1>3, <1>4, <1>5, <1>6, <1>7, <1>8, <1>9, <1>10, <1>11 DEF Next

-----------------------------------------------------------------------------
(* The aggregate.                                                          *)

\* Nothing is computed at first, and nothing has settled.
LEMMA ViewInit == Init => ViewInv /\ MergeInv /\ SettledAggregate
<1>. SUFFICES ASSUME Init PROVE ViewInv /\ MergeInv /\ SettledAggregate
    OBVIOUS
<1>1. \E d \in Deliveries : status[d] \notin Settled
    BY DeliveryAssumption DEF Init, Settled
<1>. QED
    BY <1>1 DEF Init, ViewInv, MergeInv, SettledAggregate

\* While a session finishes, the others change pending statuses into pending
\* statuses only: what it has computed stays what its commit makes true.
LEMMA ViewStep ==
    ASSUME TypeOK, LockInv, OneSender, ViewInv, Next
    PROVE  ViewInv'
<1>. USE DEF rows, leadRow, copies, counters
<1>t. \A v \in Sessions : pc[v] # "idle" => mine[v] \in Deliveries /\ status[mine[v]] \in Pending
    BY DEF TypeOK, LockInv, SessionsFit, SessionFits, AtWork, Pending
<1>a. \A v \in Sessions : pc[v] = "finishing" => leadLock # NoOne
    BY DeliveryAssumption DEF LockInv, SessionsFit, SessionFits
<1>1. CASE CreateLead
    BY <1>1, <1>t DEF CreateLead, ViewInv, Pending
<1>2. ASSUME NEW w \in Sessions, NEW d \in Deliveries, Claim(w, d) PROVE ViewInv'
    BY <1>2 DEF Claim, ViewInv, TypeOK, Readers
<1>3. ASSUME NEW w \in Sessions, StartSending(w) PROVE ViewInv'
    <2>1. SUFFICES ASSUME NEW v \in Sessions, pc'[v] = "finishing"
                   PROVE  view'[v] = Recomputed([status' EXCEPT ![mine'[v]] = verdict'[v]])
        BY DEF ViewInv
    <2>2. v # w /\ pc[v] = "finishing" /\ view'[v] = view[v] /\ mine' = mine /\ verdict' = verdict
        BY <1>3, <2>1 DEF StartSending, TypeOK
    <2>3. mine[v] # mine[w] /\ mine[v] \in Deliveries /\ mine[w] \in Deliveries
        BY <1>3, <1>t, <2>2 DEF StartSending, OneSender
    <2>4. status[mine[w]] \in Pending
        BY <1>3, <1>t DEF StartSending
    <2>. DEFINE s1 == [status EXCEPT ![mine[v]] = verdict[v]]
                s2 == [status' EXCEPT ![mine[v]] = verdict[v]]
    <2>5. \A d \in Deliveries : s1[d] = s2[d] \/ (s1[d] \in Pending /\ s2[d] \in Pending)
        BY <1>3, <2>3, <2>4 DEF StartSending, TypeOK, Pending
    <2>6. Recomputed(s1) = Recomputed(s2)
        <3>. HIDE DEF s1, s2
        <3>. QED
            BY <2>5, PendingAlike
    <2>. QED
        BY <2>2, <2>6 DEF ViewInv
<1>4. ASSUME NEW w \in Sessions, Finish(w) PROVE ViewInv'
    <2>1. \A v \in Sessions : pc[v] # "finishing"
        BY <1>4, <1>a DEF Finish
    <2>2. PICK u \in Verdicts(w) :
             /\ verdict' = [verdict EXCEPT ![w] = u]
             /\ view' = [view EXCEPT ![w] = Recomputed([status EXCEPT ![mine[w]] = u])]
        BY <1>4 DEF Finish
    <2>3. verdict'[w] = u /\ view'[w] = Recomputed([status EXCEPT ![mine[w]] = u])
        BY <2>2 DEF TypeOK, Readers
    <2>4. \A v \in Sessions : pc'[v] = "finishing" => v = w
        BY <1>4, <2>1 DEF Finish, TypeOK
    <2>5. status' = status /\ mine' = mine
        BY <1>4 DEF Finish
    <2>. QED
        BY <2>3, <2>4, <2>5 DEF ViewInv
<1>5. ASSUME NEW w \in Sessions, Record(w) PROVE ViewInv'
    <2>1. \A v \in Sessions : v # w => pc[v] # "finishing"
        BY <1>5 DEF Record, LockInv, SessionsFit, SessionFits
    <2>2. \A v \in Sessions : pc'[v] # "finishing"
        BY <1>5, <2>1 DEF Record, End, TypeOK
    <2>. QED
        BY <2>2 DEF ViewInv
<1>6. ASSUME NEW w \in Sessions, Crash(w) PROVE ViewInv'
    <2>1. \A v \in Sessions : pc'[v] = "finishing" =>
             /\ pc[v] = "finishing" /\ view'[v] = view[v]
             /\ mine'[v] = mine[v] /\ verdict'[v] = verdict[v]
        BY <1>6 DEF Crash, End, TypeOK
    <2>2. status' = status
        BY <1>6 DEF Crash
    <2>. QED
        BY <2>1, <2>2 DEF ViewInv
<1>7. ASSUME NEW d \in Deliveries, BackoffPasses(d) PROVE ViewInv'
    BY <1>7 DEF BackoffPasses, ViewInv
<1>8. ASSUME NEW d \in Deliveries, LeaseLapses(d) PROVE ViewInv'
    BY <1>8 DEF LeaseLapses, ViewInv
<1>9. ASSUME NEW d \in Deliveries, Resend(d) PROVE ViewInv'
    BY <1>9, <1>a DEF Resend, ViewInv
<1>10. CASE ReadExpired
    <2>1. \A v \in Sessions : view'[v] = view[v]
        BY <1>10, DeliveryAssumption DEF ReadExpired, TypeOK, Readers
    <2>2. pc' = pc /\ mine' = mine /\ verdict' = verdict /\ status' = status
        BY <1>10 DEF ReadExpired
    <2>. QED
        BY <2>1, <2>2 DEF ViewInv
<1>11. CASE Recover
    <2>1. SUFFICES ASSUME NEW v \in Sessions, pc'[v] = "finishing"
                   PROVE  view'[v] = Recomputed([status' EXCEPT ![mine'[v]] = verdict'[v]])
        BY DEF ViewInv
    <2>2. pc[v] = "finishing" /\ view'[v] = view[v] /\ mine' = mine /\ verdict' = verdict
        BY <1>11, <2>1, DeliveryAssumption DEF Recover, TypeOK, Readers
    <2>3. mine[v] \in Deliveries
        BY <1>t, <2>2
    <2>4. \A d \in sweep : status[d] \in Pending
        BY DEF LockInv, SweepHolds, Pending
    <2>. DEFINE s1 == [status EXCEPT ![mine[v]] = verdict[v]]
                s2 == [status' EXCEPT ![mine[v]] = verdict[v]]
    <2>5. \A d \in Deliveries : s1[d] = s2[d] \/ (s1[d] \in Pending /\ s2[d] \in Pending)
        BY <1>11, <2>3, <2>4 DEF Recover, TypeOK, Pending
    <2>6. Recomputed(s1) = Recomputed(s2)
        <3>. HIDE DEF s1, s2
        <3>. QED
            BY <2>5, PendingAlike
    <2>. QED
        BY <2>2, <2>6 DEF ViewInv
<1>. QED
    BY <1>1, <1>2, <1>3, <1>4, <1>5, <1>6, <1>7, <1>8, <1>9, <1>10, <1>11 DEF Next

\* A commit that comes between a finishing session's reading and its own leaves
\* a pending delivery behind, so the premise of MergeInv is gone with it.
LEMMA MergeStep ==
    ASSUME TypeOK, LockInv, OneSender, MergeInv, Next
    PROVE  MergeInv'
<1>. USE DEF rows, leadRow, copies, counters
<1>t. \A v \in Sessions : pc[v] # "idle" =>
         mine[v] \in Deliveries /\ status[mine[v]] \in Pending /\ status[mine[v]] \notin Settled
    BY DEF TypeOK, LockInv, SessionsFit, SessionFits, AtWork, Pending, Settled
<1>a. \A v \in Sessions : pc[v] = "finishing" => leadLock # NoOne
    BY DeliveryAssumption DEF LockInv, SessionsFit, SessionFits
<1>1. CASE CreateLead
    BY <1>1, <1>t DEF CreateLead, MergeInv, Pending
<1>2. ASSUME NEW w \in Sessions, NEW d \in Deliveries, Claim(w, d) PROVE MergeInv'
    BY <1>2 DEF Claim, MergeInv, TypeOK, Readers
<1>3. ASSUME NEW w \in Sessions, StartSending(w) PROVE MergeInv'
    <2>1. \A v \in Sessions : pc'[v] = "finishing" => mine'[v] # mine[w]
        BY <1>3 DEF StartSending, OneSender, TypeOK
    <2>2. mine[w] \in Deliveries
        BY <1>3, <1>t DEF StartSending
    <2>3. status'[mine[w]] = "processing"
        BY <1>3, <2>2 DEF StartSending, TypeOK
    <2>. QED
        BY <2>1, <2>2, <2>3 DEF MergeInv, Settled
<1>4. ASSUME NEW w \in Sessions, Finish(w) PROVE MergeInv'
    <2>1. \A v \in Sessions : pc'[v] = "finishing" => v = w
        BY <1>4, <1>a DEF Finish, TypeOK
    <2>2. aggCopy'[w] = agg /\ agg' = agg
        BY <1>4 DEF Finish, TypeOK, Readers
    <2>. QED
        BY <2>1, <2>2 DEF MergeInv
<1>5. ASSUME NEW w \in Sessions, Record(w) PROVE MergeInv'
    <2>1. \A v \in Sessions : v # w => pc[v] # "finishing"
        BY <1>5 DEF Record, LockInv, SessionsFit, SessionFits
    <2>2. \A v \in Sessions : pc'[v] # "finishing"
        BY <1>5, <2>1 DEF Record, End, TypeOK
    <2>. QED
        BY <2>2 DEF MergeInv
<1>6. ASSUME NEW w \in Sessions, Crash(w) PROVE MergeInv'
    <2>1. \A v \in Sessions : pc'[v] = "finishing" =>
             pc[v] = "finishing" /\ aggCopy'[v] = aggCopy[v] /\ mine'[v] = mine[v]
        BY <1>6 DEF Crash, End, TypeOK
    <2>2. status' = status /\ agg' = agg
        BY <1>6 DEF Crash
    <2>. QED
        BY <2>1, <2>2 DEF MergeInv
<1>7. ASSUME NEW d \in Deliveries, BackoffPasses(d) PROVE MergeInv'
    BY <1>7 DEF BackoffPasses, MergeInv
<1>8. ASSUME NEW d \in Deliveries, LeaseLapses(d) PROVE MergeInv'
    BY <1>8 DEF LeaseLapses, MergeInv
<1>9. ASSUME NEW d \in Deliveries, Resend(d) PROVE MergeInv'
    BY <1>9, <1>a DEF Resend, MergeInv
<1>10. CASE ReadExpired
    <2>1. \A v \in Sessions : aggCopy'[v] = aggCopy[v]
        BY <1>10, DeliveryAssumption DEF ReadExpired, TypeOK, Readers
    <2>2. pc' = pc /\ mine' = mine /\ status' = status /\ agg' = agg
        BY <1>10 DEF ReadExpired
    <2>. QED
        BY <2>1, <2>2 DEF MergeInv
<1>11. CASE Recover
    <2>1. PICK d \in sweep : status'[d] = "retrying" /\ d \in Deliveries
        BY <1>11 DEF Recover, TypeOK
    <2>2. \A v \in Sessions : pc'[v] = "finishing" => mine'[v] # d
        BY <1>11, SweptAlone DEF Recover
    <2>. QED
        BY <2>1, <2>2 DEF MergeInv, Settled
<1>. QED
    BY <1>1, <1>2, <1>3, <1>4, <1>5, <1>6, <1>7, <1>8, <1>9, <1>10, <1>11 DEF Next

\* Only a finishing session and the creation settle the last delivery, and both
\* leave the aggregate of what they have settled.
LEMMA AggregateStep ==
    ASSUME TypeOK, LockInv, OneSender, ViewInv, MergeInv, SettledAggregate, Next
    PROVE  SettledAggregate'
<1>. USE DEF rows, leadRow, copies, counters
<1>1. CASE CreateLead
    BY <1>1 DEF CreateLead, SettledAggregate
<1>2. ASSUME NEW w \in Sessions, NEW d \in Deliveries, Claim(w, d) PROVE SettledAggregate'
    BY <1>2 DEF Claim, SettledAggregate
<1>3. ASSUME NEW w \in Sessions, StartSending(w) PROVE SettledAggregate'
    <2>1. mine[w] \in Deliveries /\ status'[mine[w]] = "processing"
        BY <1>3 DEF StartSending, LockInv, SessionsFit, SessionFits, TypeOK
    <2>. QED
        BY <2>1 DEF SettledAggregate, Settled
<1>4. ASSUME NEW w \in Sessions, Finish(w) PROVE SettledAggregate'
    BY <1>4 DEF Finish, SettledAggregate
<1>5. ASSUME NEW w \in Sessions, Record(w) PROVE SettledAggregate'
    <2>1. SUFFICES ASSUME \A d \in Deliveries : status'[d] \in Settled
                   PROVE  agg' = Recomputed(status')
        BY DEF SettledAggregate
    <2>2. \A d \in Deliveries : d # mine[w] => status[d] \in Settled
        BY <1>5, <2>1 DEF Record, TypeOK
    <2>3. aggCopy[w] = agg
        BY <1>5, <2>2 DEF Record, MergeInv
    <2>4. view[w] \in Aggregates
        BY DEF TypeOK, Readers
    <2>5. agg' = view[w]
        BY <1>5, <2>3, <2>4, WrittenWhole DEF Record
    <2>6. view[w] = Recomputed(status')
        BY <1>5 DEF Record, ViewInv
    <2>. QED
        BY <2>5, <2>6
<1>6. ASSUME NEW w \in Sessions, Crash(w) PROVE SettledAggregate'
    BY <1>6 DEF Crash, SettledAggregate
<1>7. ASSUME NEW d \in Deliveries, BackoffPasses(d) PROVE SettledAggregate'
    BY <1>7 DEF BackoffPasses, SettledAggregate
<1>8. ASSUME NEW d \in Deliveries, LeaseLapses(d) PROVE SettledAggregate'
    BY <1>8 DEF LeaseLapses, SettledAggregate
<1>9. ASSUME NEW d \in Deliveries, Resend(d) PROVE SettledAggregate'
    BY <1>9 DEF Resend, SettledAggregate
<1>10. CASE ReadExpired
    BY <1>10 DEF ReadExpired, SettledAggregate
<1>11. CASE Recover
    <2>1. PICK d \in sweep : status'[d] = "retrying" /\ d \in Deliveries
        BY <1>11 DEF Recover, TypeOK
    <2>. QED
        BY <2>1 DEF SettledAggregate, Settled
<1>. QED
    BY <1>1, <1>2, <1>3, <1>4, <1>5, <1>6, <1>7, <1>8, <1>9, <1>10, <1>11 DEF Next

-----------------------------------------------------------------------------
(* The number of attempts.                                                 *)

\* No attempt has been made at first.
LEMMA BudgetInit == Init => BudgetInv /\ AttemptsBounded
BY DeliveryAssumption DEF Init, BudgetInv, Counted, Spare, AtWork, AttemptsBounded

\* An attempt is begun only when one is left, or when one that died is made up
\* for: a session that ends in "retrying" has attempts left, one that dies is
\* counted in lost.
LEMMA BudgetStep ==
    ASSUME TypeOK, LockInv, OneSender, BudgetInv, AttemptsBounded, Next
    PROVE  BudgetInv' /\ AttemptsBounded'
<1>. USE DEF rows, leadRow, copies, counters
<1>t. \A v \in Sessions : pc[v] # "idle" => mine[v] \in Deliveries /\ status[mine[v]] \in Pending
    BY DEF TypeOK, LockInv, SessionsFit, SessionFits, AtWork, Pending
<1>n. /\ \A d \in Deliveries : attempts[d] \in Nat /\ lost[d] \in Nat
      /\ \A v \in Sessions : tries[v] \in Nat
    BY DEF TypeOK
<1>m. MaxAttempts \in Nat /\ MaxAttempts > 0
    BY DeliveryAssumption
<1>1. CASE CreateLead
    <2>1. \A v \in Sessions : pc[v] = "idle"
        BY <1>1, <1>t DEF CreateLead, Pending
    <2>2. \A d \in Deliveries : attempts[d] = 0
        BY <1>1 DEF CreateLead, BudgetInv, Spare
    <2>3. attempts' = attempts /\ lost' = lost /\ pc' = pc
        BY <1>1 DEF CreateLead
    <2>. QED
        BY <2>1, <2>2, <2>3, <1>n, <1>m DEF BudgetInv, Counted, Spare, AtWork, AttemptsBounded
<1>2. ASSUME NEW w \in Sessions, NEW d \in Deliveries, Claim(w, d)
      PROVE  BudgetInv' /\ AttemptsBounded'
    <2>1. \A v \in Sessions : AtWork(v)' <=> AtWork(v)
        BY <1>2 DEF Claim, AtWork, TypeOK
    <2>2. \A v \in Sessions : AtWork(v) => mine'[v] = mine[v] /\ pc'[v] = pc[v]
        BY <1>2 DEF Claim, AtWork, TypeOK
    <2>. QED
        BY <1>2, <2>1, <2>2 DEF Claim, BudgetInv, Counted, Spare, AttemptsBounded
<1>3. ASSUME NEW w \in Sessions, StartSending(w) PROVE BudgetInv' /\ AttemptsBounded'
    <2>. DEFINE d == mine[w]
    <2>1. d \in Deliveries /\ status[d] \in Pending
        BY <1>3, <1>t DEF StartSending
    <2>2. \A v \in Sessions : AtWork(v) => mine[v] # d
        BY <1>3 DEF StartSending, OneSender, AtWork
    <2>3. attempts[d] < MaxAttempts + lost[d]
        BY <2>1, <2>2 DEF BudgetInv, Spare
    <2>4. attempts'[d] = attempts[d] + 1 /\ tries'[w] = attempts[d] + 1 /\ attempts'[d] <= MaxAttempts + lost[d]
        BY <1>3, <1>n, <1>m, <2>1, <2>3 DEF StartSending, TypeOK
    <2>5. /\ pc'[w] = "sending" /\ mine' = mine /\ lost' = lost /\ verdict' = verdict
          /\ \A v \in Sessions : v # w => pc'[v] = pc[v] /\ tries'[v] = tries[v]
          /\ \A e \in Deliveries : e # d => attempts'[e] = attempts[e] /\ status'[e] = status[e]
          /\ status'[d] = "processing"
        BY <1>3, <2>1 DEF StartSending, TypeOK
    <2>6. Counted'
        BY <1>t, <2>1, <2>2, <2>4, <2>5 DEF BudgetInv, Counted, AtWork
    <2>7. Spare'
        BY <2>4, <2>5 DEF BudgetInv, Spare, AtWork
    <2>8. AttemptsBounded'
        BY <2>4, <2>5 DEF AttemptsBounded
    <2>. QED
        BY <2>6, <2>7, <2>8 DEF BudgetInv
<1>4. ASSUME NEW w \in Sessions, Finish(w) PROVE BudgetInv' /\ AttemptsBounded'
    <2>1. PICK u \in Verdicts(w) : verdict' = [verdict EXCEPT ![w] = u]
        BY <1>4 DEF Finish
    <2>2. u = "retrying" => tries[w] < MaxAttempts
        BY <2>1 DEF Verdicts, Settled
    <2>3. \A v \in Sessions : AtWork(v)' <=> AtWork(v)
        BY <1>4 DEF Finish, AtWork, TypeOK
    <2>4. \A v \in Sessions : v # w => pc'[v] = pc[v] /\ verdict'[v] = verdict[v]
        BY <1>4, <2>1 DEF Finish, TypeOK
    <2>5. verdict'[w] = u
        BY <2>1 DEF TypeOK
    <2>6. mine' = mine /\ tries' = tries /\ attempts' = attempts /\ lost' = lost /\ status' = status
        BY <1>4 DEF Finish
    <2>7. Counted'
        BY <2>2, <2>3, <2>4, <2>5, <2>6 DEF BudgetInv, Counted
    <2>8. Spare' /\ AttemptsBounded'
        BY <2>3, <2>6 DEF BudgetInv, Spare, AttemptsBounded
    <2>. QED
        BY <2>7, <2>8 DEF BudgetInv
<1>5. ASSUME NEW w \in Sessions, Record(w) PROVE BudgetInv' /\ AttemptsBounded'
    <2>. DEFINE d == mine[w]
    <2>1. d \in Deliveries /\ AtWork(w) /\ verdict[w] \in Settled \cup {"retrying"}
        BY <1>5, <1>t DEF Record, AtWork, LockInv, SessionsFit, SessionFits
    <2>2. /\ attempts[d] = tries[w]
          /\ verdict[w] = "retrying" => tries[w] < MaxAttempts
        BY <1>5, <2>1 DEF Record, BudgetInv, Counted
    <2>3. status'[d] \in Pending => attempts[d] < MaxAttempts + lost[d]
        BY <1>5, <1>n, <1>m, <2>1, <2>2 DEF Record, Settled, Pending, TypeOK
    <2>4. \A e \in Deliveries : e # d => status'[e] = status[e]
        BY <1>5 DEF Record, TypeOK
    <2>5. status'[d] # "absent"
        BY <1>5, <2>1 DEF Record, Settled, TypeOK
    <2>6. /\ pc'[w] = "idle" /\ attempts' = attempts /\ lost' = lost
          /\ \A v \in Sessions : v # w => /\ pc'[v] = pc[v] /\ tries'[v] = tries[v]
                                          /\ mine'[v] = mine[v] /\ verdict'[v] = verdict[v]
        BY <1>5 DEF Record, End, TypeOK
    <2>7. Counted'
        BY <2>6 DEF BudgetInv, Counted, AtWork
    <2>8. Spare'
        BY <2>3, <2>4, <2>5, <2>6 DEF BudgetInv, Spare, AtWork
    <2>9. AttemptsBounded'
        BY <2>6 DEF AttemptsBounded
    <2>. QED
        BY <2>7, <2>8, <2>9 DEF BudgetInv
<1>6. ASSUME NEW w \in Sessions, Crash(w) PROVE BudgetInv' /\ AttemptsBounded'
    <2>. DEFINE d == mine[w]
    <2>1. d \in Deliveries
        BY <1>6, <1>t DEF Crash
    <2>2. /\ pc'[w] = "idle" /\ attempts' = attempts /\ status' = status
          /\ \A v \in Sessions : v # w => /\ pc'[v] = pc[v] /\ tries'[v] = tries[v]
                                          /\ mine'[v] = mine[v] /\ verdict'[v] = verdict[v]
        BY <1>6 DEF Crash, End, TypeOK
    <2>3. \A e \in Deliveries : lost[e] <= lost'[e] /\ lost'[e] \in Nat /\ (e # d => lost'[e] = lost[e])
        BY <1>6, <1>n, <2>1 DEF Crash, TypeOK
    <2>4. AtWork(w) => lost'[d] = lost[d] + 1
        BY <1>6, <2>1 DEF Crash, AtWork, TypeOK
    <2>5. AtWork(w) => attempts[d] < MaxAttempts + lost'[d]
        BY <1>n, <1>m, <2>1, <2>4 DEF BudgetInv, Counted
    <2>6. Counted'
        BY <1>n, <1>m, <1>t, <2>2, <2>3 DEF BudgetInv, Counted, AtWork
    <2>7. Spare'
        <3>1. SUFFICES ASSUME NEW e \in Deliveries, status[e] \in Pending,
                              \A v \in Sessions : AtWork(v)' => mine'[v] # e
                       PROVE  attempts[e] < MaxAttempts + lost'[e]
            BY <2>2 DEF BudgetInv, Spare
        <3>2. CASE AtWork(w) /\ e = d
            BY <2>5, <3>2
        <3>3. CASE ~(AtWork(w) /\ e = d)
            <4>1. \A v \in Sessions : AtWork(v) => mine[v] # e
                BY <2>2, <3>1, <3>3 DEF AtWork
            <4>2. attempts[e] < MaxAttempts + lost[e]
                BY <3>1, <4>1 DEF BudgetInv, Spare
            <4>. QED
                BY <1>n, <1>m, <2>3, <4>2
        <3>. QED
            BY <3>2, <3>3
    <2>8. AttemptsBounded'
        BY <1>n, <1>m, <2>2, <2>3 DEF AttemptsBounded
    <2>. QED
        BY <2>6, <2>7, <2>8 DEF BudgetInv
<1>7. ASSUME NEW d \in Deliveries, BackoffPasses(d) PROVE BudgetInv' /\ AttemptsBounded'
    BY <1>7 DEF BackoffPasses, BudgetInv, Counted, Spare, AtWork, AttemptsBounded
<1>8. ASSUME NEW d \in Deliveries, LeaseLapses(d) PROVE BudgetInv' /\ AttemptsBounded'
    BY <1>8 DEF LeaseLapses, BudgetInv, Counted, Spare, AtWork, AttemptsBounded
<1>9. ASSUME NEW d \in Deliveries, Resend(d) PROVE BudgetInv' /\ AttemptsBounded'
    <2>1. \A v \in Sessions : pc[v] # "idle" => mine[v] # d
        BY <1>9, <1>t DEF Resend, Pending
    <2>2. /\ pc' = pc /\ mine' = mine /\ tries' = tries /\ verdict' = verdict
          /\ attempts'[d] = 0 /\ lost'[d] = 0 /\ status'[d] = "queued"
          /\ \A e \in Deliveries : e # d => /\ attempts'[e] = attempts[e] /\ lost'[e] = lost[e]
                                            /\ status'[e] = status[e]
        BY <1>9 DEF Resend, TypeOK
    <2>3. Counted'
        BY <1>t, <2>1, <2>2 DEF BudgetInv, Counted, AtWork
    <2>4. Spare'
        BY <1>m, <2>2 DEF BudgetInv, Spare, AtWork
    <2>5. AttemptsBounded'
        BY <1>m, <2>2 DEF AttemptsBounded
    <2>. QED
        BY <2>3, <2>4, <2>5 DEF BudgetInv
<1>10. CASE ReadExpired
    BY <1>10 DEF ReadExpired, BudgetInv, Counted, Spare, AtWork, AttemptsBounded
<1>11. CASE Recover
    <2>1. \A d \in sweep : status[d] \in Pending /\ d \in Deliveries
        BY DEF LockInv, SweepHolds, Pending, TypeOK
    <2>2. \A d \in Deliveries : \/ status'[d] = status[d]
                                \/ status[d] \in Pending /\ status'[d] = "retrying"
        BY <1>11, <2>1 DEF Recover
    <2>3. /\ attempts' = attempts /\ lost' = lost /\ pc' = pc /\ mine' = mine
          /\ tries' = tries /\ verdict' = verdict
        BY <1>11 DEF Recover
    <2>4. Counted' /\ AttemptsBounded'
        BY <2>3 DEF BudgetInv, Counted, AtWork, AttemptsBounded
    <2>5. Spare'
        BY <2>2, <2>3 DEF BudgetInv, Spare, AtWork
    <2>. QED
        BY <2>4, <2>5 DEF BudgetInv
<1>. QED
    BY <1>1, <1>2, <1>3, <1>4, <1>5, <1>6, <1>7, <1>8, <1>9, <1>10, <1>11 DEF Next

-----------------------------------------------------------------------------
(* The inductive invariant, and what follows from it.                      *)

\* The invariant holds at first.
LEMMA Initially == Init => IInv
BY TypeInit, LockInit, ViewInit, BudgetInit DEF IInv

\* Every step of the system, or of none of its parts, keeps it.
LEMMA Inductive == IInv /\ [Next]_vars => IInv'
<1>1. ASSUME IInv, Next PROVE IInv'
    BY <1>1, TypeStep, LockStep, ViewStep, MergeStep, AggregateStep, BudgetStep
    DEF IInv, LockInv
<1>2. ASSUME IInv, UNCHANGED vars PROVE IInv'
    <2>. USE <1>2 DEF vars, rows, leadRow, copies, counters, IInv
    <2>1. TypeOK' /\ OneSender' /\ SettledAggregate' /\ AttemptsBounded'
        BY DEF TypeOK, OneSender, SettledAggregate, AttemptsBounded
    <2>2. LockInv'
        BY DEF LockInv, SessionsFit, SessionFits, AtWork, RowHeld, SweepHolds
    <2>3. ViewInv' /\ MergeInv'
        BY DEF ViewInv, MergeInv
    <2>4. BudgetInv'
        BY DEF BudgetInv, Counted, Spare, AtWork
    <2>. QED
        BY <2>1, <2>2, <2>3, <2>4
<1>. QED
    BY <1>1, <1>2

\* The invariant holds throughout.
LEMMA Invariance == Spec => []IInv
BY Initially, Inductive, PTL DEF Spec

\* Rows, locks and sessions keep their types (webhook_delivery.py).
THEOREM TypeCorrect == Spec => []TypeOK
<1>1. IInv => TypeOK
    BY DEF IInv
<1>. QED
    BY Invariance, <1>1, PTL

\* process_delivery never sends one delivery from two sessions at a time,
\* however many executors, messages and sweeps call it.
THEOREM SentByOne == Spec => []OneSender
<1>1. IInv => OneSender
    BY DEF IInv
<1>. QED
    BY Invariance, <1>1, PTL

\* recompute_lead_delivery_aggregate leaves the right counts once every
\* delivery of the lead has settled, although most of its callers hold no lock.
THEOREM AggregateRight == Spec => []SettledAggregate
<1>1. IInv => SettledAggregate
    BY DEF IInv
<1>. QED
    BY Invariance, <1>1, PTL

\* max_attempts bounds the attempts of process_delivery that did not die.
THEOREM AttemptsWithinBudget == Spec => []AttemptsBounded
<1>1. IInv => AttemptsBounded
    BY DEF IInv
<1>. QED
    BY Invariance, <1>1, PTL

\* A step of the system leaves what is delivered delivered: whoever writes a
\* status has a row that is pending, dead or not created yet.
LEMMA DeliveredStep ==
    ASSUME IInv, Next
    PROVE  \A d \in Deliveries : status[d] = "delivered" => status'[d] = "delivered"
<1>. USE DEF rows, leadRow, copies, counters
<1>t. \A v \in Sessions : pc[v] # "idle" => mine[v] \in Deliveries /\ status[mine[v]] \in Pending
    BY DEF IInv, TypeOK, LockInv, SessionsFit, SessionFits, AtWork, Pending
<1>s. status \in [Deliveries -> Statuses]
    BY DEF IInv, TypeOK
<1>1. CASE CreateLead
    BY <1>1 DEF CreateLead
<1>2. ASSUME NEW w \in Sessions, StartSending(w) \/ Record(w)
      PROVE  \A d \in Deliveries : status[d] = "delivered" => status'[d] = "delivered"
    <2>1. status[mine[w]] \in Pending
        BY <1>2, <1>t DEF StartSending, Record
    <2>. QED
        BY <1>2, <1>s, <2>1 DEF StartSending, Record, Pending
<1>3. CASE Recover
    <2>1. \A d \in sweep : status[d] = "processing"
        BY DEF IInv, LockInv, SweepHolds
    <2>. QED
        BY <1>3, <2>1 DEF Recover
<1>4. ASSUME NEW d \in Deliveries, Resend(d)
      PROVE  \A e \in Deliveries : status[e] = "delivered" => status'[e] = "delivered"
    BY <1>4, <1>s DEF Resend
<1>5. ASSUME status' = status
      PROVE  \A d \in Deliveries : status[d] = "delivered" => status'[d] = "delivered"
    BY <1>5
<1>6. \/ CreateLead \/ Recover \/ status' = status
      \/ \E w \in Sessions : StartSending(w) \/ Record(w)
      \/ \E d \in Deliveries : Resend(d)
    BY DEF Next, Claim, Finish, Crash, BackoffPasses, LeaseLapses, ReadExpired
<1>. QED
    BY <1>1, <1>2, <1>3, <1>4, <1>5, <1>6

\* No resend, late message or recovery takes a delivery out of "delivered".
THEOREM DeliveredForGood == Spec => DeliveredStays
<1>1. IInv /\ [Next]_vars =>
        [\A d \in Deliveries : status[d] = "delivered" => status'[d] = "delivered"]_vars
    BY DeliveredStep
<1>. QED
    BY Invariance, <1>1, PTL DEF Spec, DeliveredStays
=============================================================================
