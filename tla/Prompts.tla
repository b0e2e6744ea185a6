------------------------------ MODULE Prompts ------------------------------
(***************************************************************************)
(* The operator's revisions of one built-in prompt: draft, review,         *)
(* approval, offline evaluation, activation and return to the packaged     *)
(* text (api/v1/prompts.py), and the prompt a run gets                     *)
(* (services/managed_prompts.py).                                          *)
(*                                                                         *)
(* No handler locks the revision: each reads the row, and a later commit   *)
(* writes only the columns it changed.                                     *)
(***************************************************************************)
EXTENDS Naturals, FiniteSets

CONSTANTS Revisions,   \* versions of revisions, numbers
          Reviewers,   \* requests in progress at once
          MaxBaseline  \* bound on releases of the packaged prompt

ASSUME PromptAssumption == Revisions \subseteq Nat \ {0} /\ MaxBaseline \in Nat \ {0}

VARIABLES revisions,    \* PromptEntry rows
          evaluations,  \* PromptEvaluationRun rows that passed
          baseline,     \* release of the packaged prompt
          reviews       \* requests in progress, with the row they read

promptVars == <<revisions, evaluations, baseline, reviews>>

NoRevision == [state |-> "none", active |-> FALSE, base |-> 0, reviewed |-> FALSE]
RevisionRow ==
  [state : {"none", "draft", "review", "approved", "rejected", "active", "superseded"},
   active : BOOLEAN, base : 0..MaxBaseline, reviewed : BOOLEAN]
Ops == {"submit", "approve", "reject", "evaluate", "activate"}
NoReview == [op |-> "none", rev |-> 0, read |-> NoRevision]

PromptTypeOK ==
  /\ revisions \in [Revisions -> RevisionRow]
  /\ evaluations \subseteq [rev : Revisions, base : 1..MaxBaseline]
  /\ baseline \in 1..MaxBaseline
  /\ reviews \in [Reviewers -> [op : Ops, rev : Revisions, read : RevisionRow] \cup {NoReview}]

PromptInit ==
  /\ revisions = [v \in Revisions |-> NoRevision]
  /\ evaluations = {} /\ baseline = 1 /\ reviews = [u \in Reviewers |-> NoReview]

\* create_prompt_revision: the next version, against the packaged prompt of now.
CreateRevision(v) ==
  /\ revisions[v].state = "none"
  /\ \A w \in Revisions : w < v => revisions[w].state # "none"
  /\ revisions' = [revisions EXCEPT ![v] =
       [state |-> "draft", active |-> FALSE, base |-> baseline, reviewed |-> FALSE]]
  /\ UNCHANGED <<evaluations, baseline, reviews>>

\* A release of the panel brings another packaged prompt.
ReleaseBaseline ==
  /\ baseline < MaxBaseline
  /\ baseline' = baseline + 1
  /\ UNCHANGED <<revisions, evaluations, reviews>>

\* Mutant of Evaluated: a passing evaluation of any revision.
EvaluatedSome(v) == \E e \in evaluations : e.base = baseline

Evaluated(v) == [rev |-> v, base |-> baseline] \in evaluations

\* _revision_or_404 and the checks of each handler.
Admitted(op, v) ==
  CASE op = "submit" -> revisions[v].state = "draft"
    [] op \in {"approve", "reject"} -> revisions[v].state = "review"
    [] op = "evaluate" -> revisions[v].state # "none" /\ revisions[v].base = baseline
    [] op = "activate" -> /\ revisions[v].state = "approved"
                          /\ revisions[v].base = baseline
                          /\ Evaluated(v)

BeginPromptReview(u, op, v) ==
  /\ reviews[u] = NoReview
  /\ Admitted(op, v)
  /\ reviews' = [reviews EXCEPT ![u] = [op |-> op, rev |-> v, read |-> revisions[v]]]
  /\ UNCHANGED <<revisions, evaluations, baseline>>

Done(u) == reviews' = [reviews EXCEPT ![u] = NoReview]

SubmitRevision(u) ==
  /\ reviews[u].op = "submit"
  /\ revisions' = [revisions EXCEPT ![reviews[u].rev].state = "review"]
  /\ Done(u) /\ UNCHANGED <<evaluations, baseline>>

ApproveRevision(u) ==
  /\ reviews[u].op = "approve"
  /\ revisions' = [revisions EXCEPT ![reviews[u].rev].state = "approved",
                                    ![reviews[u].rev].reviewed = TRUE]
  /\ Done(u) /\ UNCHANGED <<evaluations, baseline>>

\* is_active = False is written only when the row that was read was active.
RejectRevision(u) ==
  LET v == reviews[u].rev IN
  /\ reviews[u].op = "reject"
  /\ revisions' = [revisions EXCEPT ![v].state = "rejected", ![v].reviewed = TRUE,
                     ![v].active = @ /\ ~reviews[u].read.active]
  /\ Done(u) /\ UNCHANGED <<evaluations, baseline>>

\* The row keeps the hash of the packaged prompt that was evaluated.
EvaluateRevision(u) ==
  /\ reviews[u].op = "evaluate"
  /\ evaluations' = evaluations \cup {[rev |-> reviews[u].rev, base |-> reviews[u].read.base]}
  /\ Done(u) /\ UNCHANGED <<revisions, baseline>>

Superseded == [v \in Revisions |->
  IF revisions[v].active THEN [revisions[v] EXCEPT !.active = FALSE, !.state = "superseded"]
  ELSE revisions[v]]

ActivateRevision(u) ==
  /\ reviews[u].op = "activate"
  /\ revisions' = [Superseded EXCEPT ![reviews[u].rev].active = TRUE,
                                     ![reviews[u].rev].state = "active"]
  /\ Done(u) /\ UNCHANGED <<evaluations, baseline>>

RollbackBaseline ==
  /\ revisions' = Superseded
  /\ UNCHANGED <<evaluations, baseline, reviews>>

PromptNext ==
  \/ \E v \in Revisions : CreateRevision(v)
  \/ \E u \in Reviewers :
       \/ \E op \in Ops, v \in Revisions : BeginPromptReview(u, op, v)
       \/ SubmitRevision(u) \/ ApproveRevision(u) \/ RejectRevision(u)
       \/ EvaluateRevision(u) \/ ActivateRevision(u)
  \/ ReleaseBaseline \/ RollbackBaseline

PromptSpec == PromptInit /\ [][PromptNext]_promptVars

-----------------------------------------------------------------------------
\* active_prompt: the last active revision, unless the packaged prompt has
\* changed under it; then, and without one, the packaged prompt.
Active == {v \in Revisions : revisions[v].active}
Runtime ==
  LET last == {v \in Active : \A w \in Active : w <= v}
  IN  {v \in last : revisions[v].base = baseline}

\* Instructions that reach a provider were decided on by a reviewer and passed
\* the offline evaluation with the packaged prompt they extend, in any order
\* of overlapping approvals, rejections and releases (activate_prompt_revision).
PromptVetted ==
  \A v \in Runtime : revisions[v].reviewed /\ [rev |-> v, base |-> baseline] \in evaluations
=============================================================================
