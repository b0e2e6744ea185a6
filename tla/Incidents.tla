------------------------------ MODULE Incidents ------------------------------
(***************************************************************************)
(* Operational incidents (services/operations.py): opened and closed by    *)
(* the QA of drafts (api/v1/projects.py) and by the monitor of published   *)
(* domains (services/site_monitor.py), decided by operators                *)
(* (api/v1/panel.py), and resolved by the worker when no draft is blocked. *)
(* snoozed_until only hides a row in a list and is left out.               *)
(***************************************************************************)
EXTENDS Naturals, Sequences, FiniteSets

CONSTANTS CheckedDrafts, MaxIncidents

ASSUME IncidentAssumption == MaxIncidents \in Nat

VARIABLES
  incidents,    \* AlertIncident rows
  blocked,      \* drafts whose last QA verdict is block
  dismissed,    \* history: an operator resolved the block after the last blocking QA
  resolver,     \* auto_resolve_inactive_incidents: the rows it holds
  domain,       \* the site is published, and its probe fails
  monitor       \* the sweep in progress: what it probed and which incident it saw

incidentVars == <<incidents, blocked, dismissed, resolver, domain, monitor>>

Signals == {"qa-block", "site-unreachable"}
\* announced: an alert was created for the row.
IncidentRow == [signal : Signals, status : {"open", "acknowledged", "resolved"}, announced : BOOLEAN]

IncidentTypeOK ==
  /\ incidents \in Seq(IncidentRow) /\ Len(incidents) <= MaxIncidents
  /\ blocked \subseteq CheckedDrafts /\ dismissed \in BOOLEAN
  /\ resolver \in [busy : BOOLEAN, held : SUBSET (1..MaxIncidents)]
  /\ domain \in [published : BOOLEAN, failing : BOOLEAN]
  /\ monitor \in [step : {"idle", "probed", "looked"}, failing : BOOLEAN, existing : BOOLEAN]

IncidentInit ==
  /\ incidents = <<>> /\ blocked = {} /\ dismissed = FALSE
  /\ resolver = [busy |-> FALSE, held |-> {}]
  /\ domain = [published |-> FALSE, failing |-> FALSE]
  /\ monitor = [step |-> "idle", failing |-> FALSE, existing |-> FALSE]

\* Mutant of Live: an acknowledged row is not in the partial unique index.
LiveOpen(signal) == {i \in DOMAIN incidents : incidents[i].signal = signal /\ incidents[i].status = "open"}

\* Rows of the partial unique index uq_alert_incidents_active.
Live(signal) ==
  {i \in DOMAIN incidents : incidents[i].signal = signal /\ incidents[i].status # "resolved"}

\* Locked rows make the upsert wait; when they come back resolved it inserts.
Free(signal) == Live(signal) \cap resolver.held = {}

\* observe_alert(active = True): ON CONFLICT counts one more occurrence.
Observed(signal, announce) ==
  IF Live(signal) # {} THEN incidents
  ELSE Append(incidents, [signal |-> signal, status |-> "open", announced |-> announce])
CanObserve(signal) == Free(signal) /\ (Live(signal) # {} \/ Len(incidents) < MaxIncidents)

\* observe_alert(active = False)
Settled(signal) ==
  [i \in DOMAIN incidents |-> IF i \in Live(signal) THEN [incidents[i] EXCEPT !.status = "resolved"]
                              ELSE incidents[i]]

-----------------------------------------------------------------------------
\* run_draft_qa: verdict, incident and commit are one transaction.
CheckDraft(d, blocks) ==
  /\ IF blocks
     THEN /\ CanObserve("qa-block")
          /\ incidents' = Observed("qa-block", FALSE)
          /\ blocked' = blocked \cup {d} /\ dismissed' = FALSE
     ELSE blocked' = blocked \ {d} /\ UNCHANGED <<incidents, dismissed>>
  /\ UNCHANGED <<resolver, domain, monitor>>

\* update_incident, under the row's lock.
Decide(i, action) ==
  /\ i \notin resolver.held
  /\ \/ action = "acknowledge" /\ incidents[i].status = "open"
     \/ action = "resolve" /\ incidents[i].status # "resolved"
  /\ incidents' = [incidents EXCEPT ![i].status =
       IF action = "resolve" THEN "resolved" ELSE "acknowledged"]
  /\ dismissed' = (dismissed \/ (action = "resolve" /\ incidents[i].signal = "qa-block"))
  /\ UNCHANGED <<blocked, resolver, domain, monitor>>

\* auto_resolve_inactive_incidents: lock the rows nobody else holds, then count.
LockInactive ==
  /\ ~resolver.busy /\ Live("qa-block") # {}
  /\ resolver' = [busy |-> TRUE, held |-> Live("qa-block")]
  /\ UNCHANGED <<incidents, blocked, dismissed, domain, monitor>>

\* Counted after the rows were locked.
StillBlocked == blocked # {}

ResolveInactive ==
  /\ resolver.busy
  /\ incidents' = [i \in DOMAIN incidents |->
       IF i \in resolver.held /\ ~StillBlocked THEN [incidents[i] EXCEPT !.status = "resolved"]
       ELSE incidents[i]]
  /\ resolver' = [busy |-> FALSE, held |-> {}]
  /\ UNCHANGED <<blocked, dismissed, domain, monitor>>

-----------------------------------------------------------------------------
\* The site is published or withdrawn, or its server changes.
ChangeDomain(field) ==
  /\ domain' = [domain EXCEPT ![field] = ~@]
  /\ UNCHANGED <<incidents, blocked, dismissed, resolver, monitor>>

\* monitor_published_domains: only domains of published sites are probed.
Monitored == domain.published

ProbeDomain ==
  /\ monitor.step = "idle" /\ Monitored
  /\ monitor' = [monitor EXCEPT !.step = "probed", !.failing = domain.failing]
  /\ UNCHANGED <<incidents, blocked, dismissed, resolver, domain>>

\* _observe_domain_signal first reads whether an incident is open ...
LookForIncident ==
  /\ monitor.step = "probed"
  /\ monitor' = [monitor EXCEPT !.step = "looked", !.existing = Live("site-unreachable") # {}]
  /\ UNCHANGED <<incidents, blocked, dismissed, resolver, domain>>

\* ... and then observes; the alert goes by what it read.
ObserveDomain ==
  /\ monitor.step = "looked"
  /\ IF monitor.failing
     THEN /\ CanObserve("site-unreachable")
          /\ incidents' = Observed("site-unreachable", ~monitor.existing)
     ELSE incidents' = Settled("site-unreachable")
  /\ monitor' = [step |-> "idle", failing |-> FALSE, existing |-> FALSE]
  /\ UNCHANGED <<blocked, dismissed, resolver, domain>>

IncidentNext ==
  \/ \E d \in CheckedDrafts, blocks \in BOOLEAN : CheckDraft(d, blocks)
  \/ \E i \in DOMAIN incidents, action \in {"acknowledge", "resolve"} : Decide(i, action)
  \/ LockInactive \/ ResolveInactive
  \/ \E field \in {"published", "failing"} : ChangeDomain(field)
  \/ ProbeDomain \/ LookForIncident \/ ObserveDomain

IncidentSpec == IncidentInit /\ [][IncidentNext]_incidentVars

-----------------------------------------------------------------------------
\* A blocked draft is visible as an incident until an operator dismisses it:
\* the worker's resolution never closes the incident of a draft that is being
\* blocked at the same time (auto_resolve_inactive_incidents); and a subject
\* never has two open incidents, which would make every later observation fail
\* (observe_alert).
IncidentsAgree ==
  /\ blocked # {} => dismissed \/ \E i \in DOMAIN incidents :
       incidents[i].signal = "qa-block" /\ incidents[i].status # "resolved"
  /\ \A i, j \in DOMAIN incidents :
       /\ incidents[i].signal = incidents[j].signal
       /\ incidents[i].status # "resolved" /\ incidents[j].status # "resolved"
       => i = j
=============================================================================
