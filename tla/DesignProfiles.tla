--------------------------- MODULE DesignProfiles ---------------------------
(***************************************************************************)
(* Design profiles (api/v1/design_profiles.py, services/design_profiles):  *)
(* revisions are drafted, submitted, approved or rejected, an approval     *)
(* makes its revision the assigned one of its project and scope, and a     *)
(* project uses its own profile or, without one, its family's.             *)
(*                                                                         *)
(* No handler locks the revision it has read.  An approval writes it and   *)
(* deletes the old assignment when the DELETE is executed, and inserts the *)
(* new one when it commits; the rows it wrote stay locked in between.  A   *)
(* DELETE that had to wait for another approval misses the row that one    *)
(* inserted and fails on the unique index: ReviewFails.                    *)
(***************************************************************************)
EXTENDS Naturals, FiniteSets

CONSTANTS
  Designs,      \* design profile revisions
  Master, City, \* the master project of a family, and a project that may join it
  Designers     \* operators with a request in flight

NoDesign == "no design"

ASSUME DesignAssumption == Master # City /\ NoDesign \notin Designs

VARIABLES
  designs,      \* DesignProfileRevision rows
  assignments,  \* DesignProfileAssignment rows
  joined,       \* City is a member of Master's family
  designReviews,      \* operator -> its request
  lastApproved  \* history: the last revision approved per project and scope

designVars == <<designs, assignments, joined, designReviews, lastApproved>>

DesignStates == {"none", "draft", "review", "approved", "rejected"}
Scopes == {"family", "project"}
DesignProjects == {Master, City}
Verbs == {"submit", "approve", "reject"}
NoDesignReview == [step |-> "idle", verb |-> "submit", design |-> NoDesign, deleted |-> {}]
DesignRow == [state : DesignStates, project : DesignProjects, scope : Scopes]
Assignment == [project : DesignProjects, scope : Scopes, design : Designs]

DesignTypeOK ==
  /\ designs \in [Designs -> DesignRow]
  /\ assignments \subseteq Assignment
  /\ joined \in BOOLEAN
  /\ designReviews \in [Designers -> [step : {"idle", "read", "cleared"}, verb : Verbs,
                                design : Designs \cup {NoDesign},
                                deleted : SUBSET Assignment]]
  /\ lastApproved \in [DesignProjects \X Scopes -> Designs \cup {NoDesign}]

DesignInit ==
  /\ designs = [d \in Designs |-> [state |-> "none", project |-> Master, scope |-> "project"]]
  /\ assignments = {} /\ joined = FALSE
  /\ designReviews = [o \in Designers |-> NoDesignReview]
  /\ lastApproved = [x \in DesignProjects \X Scopes |-> NoDesign]

-----------------------------------------------------------------------------
\* _require_family_master: a city child has no family profile of its own.
MayUseScope(project, scope) == scope = "family" => ~(project = City /\ joined)

JoinFamily ==
  /\ ~joined /\ joined' = TRUE
  /\ UNCHANGED <<designs, assignments, designReviews, lastApproved>>

\* Versions are unique per project and scope: of two creations one fails.
CreateDesign(d, project, scope) ==
  /\ designs[d].state = "none" /\ MayUseScope(project, scope)
  /\ designs' = [designs EXCEPT ![d] = [state |-> "draft", project |-> project, scope |-> scope]]
  /\ UNCHANGED <<assignments, joined, designReviews, lastApproved>>

\* A handler reads the revision and checks its state.
BeginReview(o, verb, d) ==
  /\ designReviews[o].step = "idle"
  /\ designs[d].state = IF verb = "submit" THEN "draft" ELSE "review"
  /\ verb = "approve" => MayUseScope(designs[d].project, designs[d].scope)
  /\ designReviews' = [designReviews EXCEPT ![o] = [step |-> "read", verb |-> verb, design |-> d,
                                          deleted |-> {}]]
  /\ UNCHANGED <<designs, assignments, joined, lastApproved>>

Subject(o) == designReviews[o].design
\* Rows an approval has written and not yet committed.
RowLocked(d) == \E o \in Designers : designReviews[o].step = "cleared" /\ designReviews[o].design = d

\* Faulty variant: the profiles of the other scope go too.
ProjectRows(d) == {a \in assignments : a.project = designs[d].project}

AssignedRows(d) ==
  {a \in assignments : a.project = designs[d].project /\ a.scope = designs[d].scope}

\* The approval's UPDATE and DELETE.
ClearAssignment(o) ==
  /\ designReviews[o].step = "read" /\ designReviews[o].verb = "approve"
  /\ ~RowLocked(Subject(o))
  /\ \A p \in Designers : designReviews[p].deleted \cap AssignedRows(Subject(o)) = {}
  /\ designReviews' = [designReviews EXCEPT ![o].step = "cleared", ![o].deleted = AssignedRows(Subject(o))]
  /\ UNCHANGED <<designs, assignments, joined, lastApproved>>

\* The INSERT and the commit; one assignment per project and scope.
CommitApproval(o) ==
  LET d == Subject(o)
      kept == assignments \ designReviews[o].deleted
      place == <<designs[d].project, designs[d].scope>> IN
  /\ designReviews[o].step = "cleared"
  /\ \A a \in kept : <<a.project, a.scope>> # place
  /\ assignments' = kept \cup {[project |-> place[1], scope |-> place[2], design |-> d]}
  /\ designs' = [designs EXCEPT ![d].state = "approved"]
  /\ lastApproved' = [lastApproved EXCEPT ![place] = d]
  /\ designReviews' = [designReviews EXCEPT ![o] = NoDesignReview]
  /\ UNCHANGED joined

\* A submission or a rejection writes the state alone.
CommitState(o, verb, state) ==
  /\ designReviews[o].step = "read" /\ designReviews[o].verb = verb
  /\ ~RowLocked(Subject(o))
  /\ designs' = [designs EXCEPT ![Subject(o)].state = state]
  /\ designReviews' = [designReviews EXCEPT ![o] = NoDesignReview]
  /\ UNCHANGED <<assignments, joined, lastApproved>>

SubmitDesign(o) == CommitState(o, "submit", "review")
RejectDesign(o) == CommitState(o, "reject", "rejected")

\* A unique index refuses the commit, or the process dies.
ReviewFails(o) ==
  /\ designReviews[o].step # "idle"
  /\ designReviews' = [designReviews EXCEPT ![o] = NoDesignReview]
  /\ UNCHANGED <<designs, assignments, joined, lastApproved>>

DesignNext ==
  \/ JoinFamily
  \/ \E d \in Designs, project \in DesignProjects, scope \in Scopes :
        CreateDesign(d, project, scope)
  \/ \E o \in Designers :
       \/ ClearAssignment(o) \/ CommitApproval(o) \/ SubmitDesign(o) \/ RejectDesign(o)
       \/ ReviewFails(o)
       \/ \E verb \in Verbs, d \in Designs : BeginReview(o, verb, d)

DesignSpec == DesignInit /\ [][DesignNext]_designVars

-----------------------------------------------------------------------------
(* resolve_design_profile.                                                 *)

FamilyOf(project) == IF project = City /\ joined THEN Master ELSE project

\* _assignment_revision: the assigned revision, if it is still approved.
AssignmentRevision(project, scope) ==
  {d \in Designs : /\ designs[d].state = "approved"
                   /\ designs[d].project = project /\ designs[d].scope = scope
                   /\ \E a \in assignments : a.project = project /\ a.scope = scope
                                             /\ a.design = d}

EffectiveDesign(project) ==
  LET own == AssignmentRevision(project, "project") IN
  IF own # {} THEN own ELSE AssignmentRevision(FamilyOf(project), "family")

\* The revision of a scope that was approved last, unless a decision that had
\* read it before took the approval back.
Standing(project, scope) ==
  LET d == lastApproved[<<project, scope>>] IN
  IF d # NoDesign /\ designs[d].state = "approved" THEN {d} ELSE {}

\* A project is generated with the profile approved last for it, else with the
\* one approved last for its family, in whatever order approvals of the same
\* and of other scopes, projects and revisions commit or fail
\* (design_profiles.py approve_design_profile, resolve_design_profile).
LastApprovalRules ==
  \A project \in DesignProjects :
    EffectiveDesign(project) =
      IF Standing(project, "project") # {} THEN Standing(project, "project")
      ELSE Standing(FamilyOf(project), "family")

=============================================================================
