---------------------------- MODULE MCOperations ----------------------------
(***************************************************************************)
(* Ten components that share no state, checked in one run: part is chosen  *)
(* in the initial state, and only the actions of that component are taken. *)
(* The graph is the disjoint union of the ten graphs.                      *)
(***************************************************************************)
EXTENDS OperatorAlerts, Incidents, Retention, TelemetryConsent, PanelRelease, Sessions,
        SystemOperations, LeadIntake, DesignProfiles, AuthorReviews

CONSTANTS t1, t2, b1

MCBrowserOf == [t \in {t1, t2} |-> b1]
MCRoutes == {[mode |-> "append_global", channels |-> {"webhook"}],
             [mode |-> "replace_global", channels |-> {"email", "webhook"}]}

VARIABLE part

vars == <<part, alertVars, incidentVars, retentionVars, telemetryVars, panelVars, sessionVars,
          operationVars, intakeVars, designVars, authorVars>>

Parts == {"alerts", "incidents", "retention", "telemetry", "panel", "sessions",
          "operations", "intake", "designs", "authors"}

Init ==
  /\ part \in Parts
  /\ AlertInit /\ IncidentInit /\ RetentionInit /\ TelemetryInit /\ PanelInit /\ SessionInit
  /\ OperationInit /\ IntakeInit /\ DesignInit /\ AuthorInit
  /\ part # "retention" => policy = 1

\* The components other than the chosen one rest.
Rests(name, itsVars) == IF part = name THEN TRUE ELSE UNCHANGED itsVars

Others ==
  /\ UNCHANGED part
  /\ Rests("alerts", alertVars) /\ Rests("incidents", incidentVars)
  /\ Rests("retention", retentionVars) /\ Rests("telemetry", telemetryVars)
  /\ Rests("panel", panelVars) /\ Rests("sessions", sessionVars)
  /\ Rests("operations", operationVars) /\ Rests("intake", intakeVars)
  /\ Rests("designs", designVars) /\ Rests("authors", authorVars)

Next ==
  \/ part = "alerts" /\ AlertNext /\ Others
  \/ part = "incidents" /\ IncidentNext /\ Others
  \/ part = "retention" /\ RetentionNext /\ Others
  \/ part = "telemetry" /\ TelemetryNext /\ Others
  \/ part = "panel" /\ PanelNext /\ Others
  \/ part = "sessions" /\ SessionNext /\ Others
  \/ part = "operations" /\ OperationNext /\ Others
  \/ part = "intake" /\ IntakeNext /\ Others
  \/ part = "designs" /\ DesignNext /\ Others
  \/ part = "authors" /\ AuthorNext /\ Others

Spec == Init /\ [][Next]_vars
=============================================================================
