------------------------------- MODULE AIRuns -------------------------------
(***************************************************************************)
(* AI runs of a tenant, from the operator's confirmed quote to what is     *)
(* made of the answer: the budget reservation (services/ai_budget.py,      *)
(* api/v1/ai_workspace.py), the call of the provider in the request        *)
(* (api/v1/ai_content.py, api/v1/geo.py) or in the worker (worker.py), the *)
(* approval, and the drafts, places and structures created from it.        *)
(*                                                                         *)
(* The budget window is one period: no row leaves it.  Several requests    *)
(* and worker jobs run at once; each step ends in a commit.                *)
(***************************************************************************)
EXTENDS Integers, FiniteSets, Sequences

CONSTANTS
  Proposals,      \* requests of operators that may be in progress at once
  MaxAIRuns,      \* bound on rows
  MaxInputs,      \* bound on versions of the page plan and its facts
  Estimates,      \* costs of a quote, and limits the operator sets
  Bills,          \* costs a provider may report
  BudgetLimit     \* ai_daily_budget_usd

ASSUME AIAssumption ==
  /\ Estimates \cup Bills \subseteq Nat /\ BudgetLimit \in Nat /\ MaxAIRuns \in Nat /\ MaxInputs \in Nat \ {0}

VARIABLES
  aiRuns,         \* AIRun rows
  proposals,      \* progress of each request
  aiQueue,        \* runs whose job is in Redis
  executing,      \* runs a worker is calling the provider for
  inputs          \* current version of the approved plan with its facts

aiVars == <<aiRuns, proposals, aiQueue, executing, inputs>>

Queued == {"architecture", "intent"}
\* Made for one approved plan and its confirmed facts.
PageKinds == {"brief", "slots", "page_copy", "intent"}
\* page_copy makes its draft at once; the others wait for a decision.
AIKinds == Queued \cup PageKinds \cup {"geo"}

Idle == [phase |-> "idle", kind |-> "geo", est |-> 0, max |-> 0, inputs |-> 0, run |-> 0]
ProposalRow == [phase : {"idle", "prepared", "calling", "queueing", "queue_error"}, kind : AIKinds,
                est : Estimates \cup {0}, max : Estimates \cup {0}, inputs : 0..MaxInputs, run : 0..MaxAIRuns]

\* calls: calls of the provider; made: drafts, imports or applications.
AIRunRow == [kind : AIKinds,
             status : {"reserved", "running", "pending_approval", "completed", "failed",
                       "approved", "rejected"},
             est : Estimates, max : Estimates, cost : Estimates \cup Bills, inputs : 0..MaxInputs,
             calls : Nat, made : Nat, madeFrom : 0..MaxInputs]

AITypeOK ==
  /\ aiRuns \in Seq(AIRunRow) /\ Len(aiRuns) <= MaxAIRuns
  /\ proposals \in [Proposals -> ProposalRow]
  /\ aiQueue \subseteq DOMAIN aiRuns /\ executing \subseteq DOMAIN aiRuns
  /\ inputs \in 1..MaxInputs

AIInit ==
  /\ aiRuns = <<>> /\ proposals = [q \in Proposals |-> Idle]
  /\ aiQueue = {} /\ executing = {} /\ inputs = 1

\* func.sum over the rows of the window.
Total(amounts) ==
  LET upTo[n \in 0..Len(amounts)] == IF n = 0 THEN 0 ELSE upTo[n - 1] + amounts[n]
  IN  upTo[Len(amounts)]

\* enforce_ai_budget
Spent == Total([r \in DOMAIN aiRuns |-> aiRuns[r].cost])
WithinBudget(est) == Spent + est <= BudgetLimit

-----------------------------------------------------------------------------
(* Proposing: prepare the context, check the confirmations, reserve.        *)

\* The connection is enabled, its pricing is current, the estimate is within
\* the operator's limit and the budget, and the quote that was confirmed has
\* the hash of this context.  frozen: the plan and facts the context holds.
Prepare(q, kind, frozen, est, max) ==
  /\ proposals[q].phase = "idle"
  /\ est <= max
  /\ WithinBudget(est)
  /\ proposals' = [proposals EXCEPT ![q] =
       [phase |-> "prepared", kind |-> kind, est |-> est, max |-> max, inputs |-> frozen, run |-> 0]]
  /\ UNCHANGED <<aiRuns, aiQueue, executing, inputs>>

\* Confirmed facts, a selection and evidence; a structure of the whole project.
PrepareArchitecture(q, est, max) == Prepare(q, "architecture", 0, est, max)
PrepareGeo(q, est, max) == Prepare(q, "geo", 0, est, max)
PreparePageCopy(q, est, max) == Prepare(q, "page_copy", inputs, est, max)
PrepareSeoBrief(q, est, max) == Prepare(q, "brief", inputs, est, max)
PrepareBlockSlots(q, est, max) == Prepare(q, "slots", inputs, est, max)
PrepareIntent(q, est, max) == Prepare(q, "intent", inputs, est, max)

\* Mutant of CanReserve: the sum that was checked when the context was prepared.
CanReservePrepared(est) == TRUE

\* reserve_ai_budget: the sum is taken again under the tenant's advisory lock,
\* which is held until the reservation is committed.
CanReserve(est) == WithinBudget(est)

\* _reserve_ai_run
ReserveAIRun(q) ==
  LET p == proposals[q] IN
  /\ p.phase = "prepared"
  /\ IF CanReserve(p.est) /\ Len(aiRuns) < MaxAIRuns
     THEN /\ aiRuns' = Append(aiRuns,
               [kind |-> p.kind, status |-> "reserved", est |-> p.est, max |-> p.max, cost |-> p.est,
                inputs |-> p.inputs, calls |-> IF p.kind \in Queued THEN 0 ELSE 1,
                made |-> 0, madeFrom |-> 0])
          /\ proposals' = [proposals EXCEPT ![q] = [Idle EXCEPT
               !.phase = IF p.kind \in Queued THEN "queueing" ELSE "calling",
               !.kind = p.kind, !.run = Len(aiRuns) + 1]]
     ELSE /\ proposals' = [proposals EXCEPT ![q] = Idle] \* 429 budget exceeded
          /\ UNCHANGED aiRuns
  /\ UNCHANGED <<aiQueue, executing, inputs>>

-----------------------------------------------------------------------------
(* The answer of the provider inside the request.                           *)

Answering(q) == proposals[q].phase = "calling"
Replied(q) == proposals' = [proposals EXCEPT ![q] = Idle]

\* The reservation gives way to the run with the billed cost; a bill over the
\* limit the operator set makes it failed.
FinishProposal(q, kind, cost) ==
  LET r == proposals[q].run IN
  /\ Answering(q) /\ proposals[q].kind = kind
  /\ aiRuns' = [aiRuns EXCEPT ![r].cost = cost,
                  ![r].status = IF cost > aiRuns[r].max THEN "failed" ELSE "pending_approval"]
  /\ Replied(q)
  /\ UNCHANGED <<aiQueue, executing, inputs>>

FinishSeoBrief(q, cost) == FinishProposal(q, "brief", cost)
FinishBlockSlots(q, cost) == FinishProposal(q, "slots", cost)
FinishGeo(q, cost) == FinishProposal(q, "geo", cost)

\* generate_ai_page_draft also makes the draft, a failed one when the bill is
\* over the limit.
FinishAIPageDraft(q, cost) ==
  LET r == proposals[q].run IN
  /\ Answering(q) /\ proposals[q].kind = "page_copy"
  /\ aiRuns' = [aiRuns EXCEPT ![r].cost = cost, ![r].made = @ + 1, ![r].madeFrom = aiRuns[r].inputs,
                  ![r].status = IF cost > aiRuns[r].max THEN "failed" ELSE "completed"]
  /\ Replied(q)
  /\ UNCHANGED <<aiQueue, executing, inputs>>

\* _record_failed_run: an error of the provider or an answer that does not
\* validate keeps the row with what was billed.
FailAIProposal(q, cost) ==
  LET r == proposals[q].run IN
  /\ Answering(q)
  /\ aiRuns' = [aiRuns EXCEPT ![r].cost = cost, ![r].status = "failed"]
  /\ Replied(q)
  /\ UNCHANGED <<aiQueue, executing, inputs>>

\* The API dies or meets an error it does not catch: the reservation stays.
AbandonAIProposal(q) ==
  /\ proposals[q].phase # "idle"
  /\ Replied(q)
  /\ UNCHANGED <<aiRuns, aiQueue, executing, inputs>>

-----------------------------------------------------------------------------
(* The queue and the worker.                                                *)

\* enqueue_ai_run, enqueue_intent_generation_run: Redis may take the job and
\* the request still see an error.
EnqueueAIRun(q, taken, error) ==
  /\ proposals[q].phase = "queueing"
  /\ taken \/ error
  /\ aiQueue' = IF taken THEN aiQueue \cup {proposals[q].run} ELSE aiQueue
  /\ proposals' = [proposals EXCEPT ![q] =
       IF error /\ @.kind = "architecture" THEN [@ EXCEPT !.phase = "queue_error"] ELSE Idle]
  /\ UNCHANGED <<aiRuns, executing, inputs>>

\* propose_architecture writes "failed" whatever became of the run meanwhile;
\* an intent run is left reserved.
MarkQueueUnavailable(q) ==
  /\ proposals[q].phase = "queue_error"
  /\ aiRuns' = [aiRuns EXCEPT ![proposals[q].run].status = "failed"]
  /\ Replied(q)
  /\ UNCHANGED <<aiQueue, executing, inputs>>

\* Mutant of Claimable: a job that is delivered again resumes the run.
ClaimableAgain(r) == aiRuns[r].status \in {"reserved", "running"}

Claimable(r) == aiRuns[r].status = "reserved"

\* architecture_proposal_task, intent_page_proposal_task: a job that finds the
\* run taken reports a duplicate; a connection disabled meanwhile is not called.
ClaimAIRun(r, connected) ==
  /\ r \in aiQueue
  /\ IF Claimable(r)
     THEN /\ aiRuns' = [aiRuns EXCEPT ![r].status = "running",
                          ![r].calls = @ + (IF connected THEN 1 ELSE 0)]
          /\ executing' = executing \cup {r}
          /\ UNCHANGED aiQueue
     ELSE /\ aiQueue' = aiQueue \ {r}
          /\ UNCHANGED <<aiRuns, executing>>
  /\ UNCHANGED <<proposals, inputs>>

\* A queued run is never billed below its reservation.
Billed(r, cost) == IF cost < aiRuns[r].est THEN aiRuns[r].est ELSE cost

FinishQueuedRun(r, cost) ==
  /\ r \in executing /\ aiRuns[r].calls > 0
  /\ aiRuns' = [aiRuns EXCEPT ![r].cost = Billed(r, cost),
                  ![r].status = IF Billed(r, cost) > aiRuns[r].max THEN "failed" ELSE "pending_approval"]
  /\ executing' = executing \ {r} /\ aiQueue' = aiQueue \ {r}
  /\ UNCHANGED <<proposals, inputs>>

FailQueuedRun(r, cost) ==
  /\ r \in executing
  /\ aiRuns' = [aiRuns EXCEPT ![r].cost = Billed(r, cost), ![r].status = "failed"]
  /\ executing' = executing \ {r} /\ aiQueue' = aiQueue \ {r}
  /\ UNCHANGED <<proposals, inputs>>

\* The worker dies: its job stays in the queue and is delivered again, the
\* run stays running.
CrashAIWorker ==
  /\ executing # {}
  /\ executing' = {}
  /\ UNCHANGED <<aiRuns, proposals, aiQueue, inputs>>

-----------------------------------------------------------------------------
(* The decision and its use.                                                *)

\* decide_ai_run, under the run's lock.
DecideAIRun(r, decision) ==
  /\ aiRuns[r].status = "pending_approval"
  /\ aiRuns' = [aiRuns EXCEPT ![r].status = decision]
  /\ UNCHANGED <<proposals, aiQueue, executing, inputs>>

\* Mutant of Usable: whatever was made of the run before.
UsableAgain(r) ==
  /\ aiRuns[r].status = "approved"
  /\ aiRuns[r].kind \in PageKinds => aiRuns[r].inputs = inputs

\* The context is prepared again: what is made of a page's proposal must have
\* the plan and facts it was made for.  The handlers hold the run's lock and
\* leave a mark in its output, or an import row.
Usable(r) ==
  /\ aiRuns[r].status = "approved"
  /\ aiRuns[r].made = 0
  /\ aiRuns[r].kind \in PageKinds => aiRuns[r].inputs = inputs

Use(r, kind) ==
  /\ aiRuns[r].kind = kind /\ Usable(r)
  /\ aiRuns' = [aiRuns EXCEPT ![r].made = @ + 1, ![r].madeFrom = inputs]
  /\ UNCHANGED <<proposals, aiQueue, executing, inputs>>

CreateDraftFromSeoBrief(r) == Use(r, "brief")
CreateDraftFromBlockSlots(r) == Use(r, "slots")
MaterializeIntentDraft(r) == Use(r, "intent")
ImportArchitecture(r) == Use(r, "architecture")
ApplyGeoProposal(r) == Use(r, "geo")

\* A new plan version or fact revision is approved.
ChangeInputs ==
  /\ inputs < MaxInputs
  /\ inputs' = inputs + 1
  /\ UNCHANGED <<aiRuns, proposals, aiQueue, executing>>

AINext ==
  \/ \E q \in Proposals :
       \/ \E est, max \in Estimates :
            \/ PrepareArchitecture(q, est, max) \/ PrepareGeo(q, est, max)
            \/ PreparePageCopy(q, est, max) \/ PrepareSeoBrief(q, est, max)
            \/ PrepareBlockSlots(q, est, max) \/ PrepareIntent(q, est, max)
       \/ ReserveAIRun(q) \/ MarkQueueUnavailable(q) \/ AbandonAIProposal(q)
       \/ \E taken, error \in BOOLEAN : EnqueueAIRun(q, taken, error)
       \/ \E cost \in Bills :
            \/ FinishSeoBrief(q, cost) \/ FinishBlockSlots(q, cost) \/ FinishGeo(q, cost)
            \/ FinishAIPageDraft(q, cost) \/ FailAIProposal(q, cost)
  \/ \E r \in DOMAIN aiRuns :
       \/ CreateDraftFromSeoBrief(r) \/ CreateDraftFromBlockSlots(r) \/ MaterializeIntentDraft(r)
       \/ ImportArchitecture(r) \/ ApplyGeoProposal(r)
       \/ \E connected \in BOOLEAN : ClaimAIRun(r, connected)
       \/ \E cost \in Bills : FinishQueuedRun(r, cost) \/ FailQueuedRun(r, cost)
       \/ \E decision \in {"approved", "rejected"} : DecideAIRun(r, decision)
  \/ CrashAIWorker \/ ChangeInputs

AISpec == AIInit /\ [][AINext]_aiVars

-----------------------------------------------------------------------------
\* Of every run at most its estimate counts as committed: a bill over the
\* estimate is known only afterwards.
Committed ==
  Total([r \in DOMAIN aiRuns |->
           IF aiRuns[r].cost < aiRuns[r].est THEN aiRuns[r].cost ELSE aiRuns[r].est])

Ledger == INSTANCE SpendLedger WITH committed <- Committed, Limit <- BudgetLimit

\* The runs of a tenant implement the ledger: requests that are prepared at
\* the same time cannot both be given the last of the budget
\* (reserve_ai_budget).
WithinLedger == Ledger!LedgerSpec

\* A job that is delivered twice, before or after a crash of the worker, does
\* not call the provider twice (architecture_proposal_task).
CalledOnce == \A r \in DOMAIN aiRuns : aiRuns[r].calls <= 1

\* One approval makes one draft, import or application, and a draft is made of
\* the plan and facts the operator was quoted (create_draft_from_seo_brief).
UsedOnce ==
  \A r \in DOMAIN aiRuns :
    /\ aiRuns[r].made <= 1
    /\ aiRuns[r].made = 1 /\ aiRuns[r].kind \in PageKinds =>
         aiRuns[r].madeFrom = aiRuns[r].inputs
    /\ aiRuns[r].made = 1 => aiRuns[r].calls > 0
=============================================================================
