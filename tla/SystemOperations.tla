-------------------------- MODULE SystemOperations --------------------------
(***************************************************************************)
(* Updates and recoveries of the panel that its operator requests          *)
(* (api/v1/system.py): one row of system_operations per request, a         *)
(* dispatch to GitHub Actions (services/github_control.py), and the status *)
(* brought back by a webhook or by polls.                                  *)
(*                                                                         *)
(* GitHub is external: a workflow is queued, runs and ends.  A dispatch    *)
(* may be accepted although its answer is an error.  Polls and the writes  *)
(* after a dispatch hold no lock; the partial unique index refuses a       *)
(* second active row.                                                      *)
(***************************************************************************)
EXTENDS Naturals, Sequences

CONSTANTS Clients, Pollers, MaxOperations

ASSUME OperationAssumption == MaxOperations \in Nat

VARIABLES
  operations,  \* SystemOperation rows: status, and whether a webhook was recorded for it
  workflows,   \* operation -> its workflow run
  clients,     \* requests for a new operation
  pollers,     \* requests that look at one
  doubted      \* history: an accepted dispatch was answered by an error, or a row given up

operationVars == <<operations, workflows, clients, pollers, doubted>>

Conclusions == {"success", "failure", "cancelled"}
Statuses == {"requested", "queued", "in_progress", "unknown"} \cup Conclusions
NoClient == [step |-> "idle", row |-> 0]
NoPoller == [row |-> 0, seen |-> "queued"]

OperationTypeOK ==
  /\ operations \in Seq([status : Statuses, noted : BOOLEAN]) /\ Len(operations) <= MaxOperations
  /\ workflows \in [DOMAIN operations -> {"none", "queued", "in_progress"} \cup Conclusions]
  /\ clients \in [Clients -> [step : {"idle", "checked", "created", "accepted", "refused"},
                              row : 0..MaxOperations]]
  /\ pollers \in [Pollers -> [row : 0..MaxOperations,
                              seen : {"queued", "in_progress"} \cup Conclusions]]
  /\ doubted \in BOOLEAN

OperationInit ==
  /\ operations = <<>> /\ workflows = <<>> /\ doubted = FALSE
  /\ clients = [c \in Clients |-> NoClient] /\ pollers = [p \in Pollers |-> NoPoller]

\* Mutant of ActiveStatuses: an operation that is not dispatched yet does not count.
ActiveDispatched == {"queued", "in_progress"}

ActiveStatuses == {"requested", "queued", "in_progress"}

ActiveOperations == {n \in DOMAIN operations : operations[n].status \in ActiveStatuses}

\* uq_system_operations_one_active_per_tenant
Admits(n, status) == status \in ActiveStatuses => ActiveOperations \subseteq {n}

\* A write of row n; a refused one is an error of the request and writes nothing.
SetStatus(n, status) ==
  operations' = IF Admits(n, status) THEN [operations EXCEPT ![n].status = status] ELSE operations

-----------------------------------------------------------------------------
\* request_update and request_recovery.
CheckActive(c) ==
  /\ clients[c].step = "idle" /\ ActiveOperations = {} /\ Len(operations) < MaxOperations
  /\ clients' = [clients EXCEPT ![c].step = "checked"]
  /\ UNCHANGED <<operations, workflows, pollers, doubted>>

CreateOperation(c) ==
  LET n == Len(operations) + 1 IN
  /\ clients[c].step = "checked"
  /\ IF Admits(n, "requested") /\ n <= MaxOperations
     THEN /\ operations' = Append(operations, [status |-> "requested", noted |-> FALSE])
          /\ workflows' = Append(workflows, "none")
          /\ clients' = [clients EXCEPT ![c] = [step |-> "created", row |-> n]]
     ELSE clients' = [clients EXCEPT ![c] = NoClient] /\ UNCHANGED <<operations, workflows>>
  /\ UNCHANGED <<pollers, doubted>>

\* The call to GitHub: taken or not, answered 204 or by an error.
DispatchWorkflow(c, taken, error) ==
  LET n == clients[c].row IN
  /\ clients[c].step = "created" /\ (taken \/ error)
  /\ workflows' = IF taken THEN [workflows EXCEPT ![n] = "queued"] ELSE workflows
  /\ doubted' = (doubted \/ (taken /\ error))
  /\ clients' = [clients EXCEPT ![c].step = IF error THEN "refused" ELSE "accepted"]
  /\ UNCHANGED <<operations, pollers>>

\* _mark_queued writes what it knows, whatever a webhook or a poll wrote meanwhile.
MarkQueued(c) ==
  /\ clients[c].step = "accepted"
  /\ SetStatus(clients[c].row, "queued")
  /\ clients' = [clients EXCEPT ![c] = NoClient]
  /\ UNCHANGED <<workflows, pollers, doubted>>

DispatchFailure(c) ==
  /\ clients[c].step = "refused"
  /\ SetStatus(clients[c].row, "failure")
  /\ clients' = [clients EXCEPT ![c] = NoClient]
  /\ UNCHANGED <<workflows, pollers, doubted>>

\* The API process dies; a row it leaves requested is polled as queued for good.
CrashClient(c) ==
  /\ clients[c].step # "idle"
  /\ clients' = [clients EXCEPT ![c] = NoClient]
  /\ UNCHANGED <<operations, workflows, pollers, doubted>>

-----------------------------------------------------------------------------
\* operation_status; a run that is not listed yet counts as queued.
OperationStatus(n) == IF workflows[n] = "none" THEN "queued" ELSE workflows[n]

\* _refresh_operation reads the row and GitHub ...
BeginPoll(p, n) ==
  /\ pollers[p].row = 0 /\ n \in ActiveOperations
  /\ pollers' = [pollers EXCEPT ![p] = [row |-> n, seen |-> OperationStatus(n)]]
  /\ UNCHANGED <<operations, workflows, clients, doubted>>

\* ... and writes the row afterwards.
FinishPoll(p) ==
  /\ pollers[p].row # 0
  /\ SetStatus(pollers[p].row, pollers[p].seen)
  /\ pollers' = [pollers EXCEPT ![p] = NoPoller]
  /\ UNCHANGED <<workflows, clients, doubted>>

\* The credentials are gone: the row is closed as unknown.
GiveUpOperation(p) ==
  /\ pollers[p].row # 0
  /\ SetStatus(pollers[p].row, "unknown")
  /\ doubted' = TRUE
  /\ pollers' = [pollers EXCEPT ![p] = NoPoller]
  /\ UNCHANGED <<workflows, clients>>

\* github_workflow_run_webhook, under the row's lock; each delivery counts once.
ReceiveWebhook(n) ==
  /\ n \in ActiveOperations /\ workflows[n] \in Conclusions /\ ~operations[n].noted
  /\ operations' = [operations EXCEPT ![n] = [status |-> workflows[n], noted |-> TRUE]]
  /\ UNCHANGED <<workflows, clients, pollers, doubted>>

AdvanceWorkflow(n, to) ==
  /\ \/ workflows[n] = "queued" /\ to \in {"in_progress", "cancelled"}
     \/ workflows[n] = "in_progress" /\ to \in Conclusions
  /\ workflows' = [workflows EXCEPT ![n] = to]
  /\ UNCHANGED <<operations, clients, pollers, doubted>>

OperationNext ==
  \/ \E c \in Clients :
       \/ CheckActive(c) \/ CreateOperation(c) \/ MarkQueued(c) \/ DispatchFailure(c)
       \/ CrashClient(c) \/ \E taken, error \in BOOLEAN : DispatchWorkflow(c, taken, error)
  \/ \E p \in Pollers : FinishPoll(p) \/ GiveUpOperation(p) \/ \E n \in ActiveOperations : BeginPoll(p, n)
  \/ \E n \in DOMAIN operations :
       ReceiveWebhook(n) \/ \E to \in Conclusions \cup {"in_progress"} : AdvanceWorkflow(n, to)

OperationSpec == OperationInit /\ [][OperationNext]_operationVars

-----------------------------------------------------------------------------
\* As long as no dispatch was answered wrongly and no row was given up, the
\* panel never has two workflows under way, although polls, webhooks and the
\* write after a dispatch overlap and may set a finished row back to an active
\* one; and a row says success only of a workflow that succeeded.
OneWorkflowAtOnce ==
  /\ ~doubted => \A m, n \in DOMAIN workflows :
       {workflows[m], workflows[n]} \subseteq {"queued", "in_progress"} => m = n
  /\ \A n \in DOMAIN operations : operations[n].status = "success" => workflows[n] = "success"
=============================================================================
