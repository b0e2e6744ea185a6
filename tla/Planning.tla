------------------------------ MODULE Planning ------------------------------
(***************************************************************************)
(* What a project decides before any page is written: its business facts,  *)
(* its keywords and places, its semantic collections, its site structures  *)
(* and its page plans (api/v1/projects.py, semantic.py, site_structure.py).*)
(*                                                                         *)
(* No review handler of these files locks the row it decides on.  A call   *)
(* of such a handler is therefore two steps: Begin reads the row and       *)
(* checks its state, Finish checks the rest and commits the columns the    *)
(* handler assigned, computed from the row as it was read.  Handlers that  *)
(* only insert a row, or lock it, are one step.                            *)
(***************************************************************************)
EXTENDS Naturals, Sequences, FiniteSets, SequencesExt

CONSTANTS Slugs,            \* page addresses
          CommercialSlug,   \* the address of the commercial page recipe
          MaxFacts, MaxCollections, MaxStructures, MaxPlans,  \* rows created
          MaxVersion,       \* edits of one plan or collection
          MaxCalls          \* handlers that overlap

ASSUME PlanningAssumption ==
  /\ CommercialSlug \in Slugs /\ IsFiniteSet(Slugs)
  /\ {MaxFacts, MaxCollections, MaxStructures, MaxPlans, MaxVersion, MaxCalls} \subseteq Nat

VARIABLES facts,        \* fact revisions, oldest first
          current,      \* the project's current_fact_revision_id, 0 for none
          keywords,     \* the project has keywords selected
          geo,          \* roles of the places it selected
          collections,  \* semantic collections
          structures,   \* site structure revisions, by version
          plans,        \* page plans, oldest first
          calls         \* handlers that have read and not yet committed

vars == <<facts, current, keywords, geo, collections, structures, plans, calls>>

ReviewStates == {"draft", "review", "approved", "rejected"}
Versions == 0..(MaxVersion + 1)

\* A semantic target names one generation of a collection's member rows.
NoTarget == [collection |-> 0, members |-> 0]
Targets == [collection : 0..MaxCollections, members : Versions]

FactRow == [state : {"draft", "confirmed"}, commercial : BOOLEAN]
CollectionRow == [state : ReviewStates, version : Versions, members : Versions, bound : BOOLEAN]
StructureRow ==
  [state : ReviewStates, collection : 1..MaxCollections, pages : SUBSET Slugs,
   fact : 0..MaxFacts, made : SUBSET (1..MaxPlans)]
PlanRow ==
  [slug : Slugs, version : Versions, state : ReviewStates, fact : 0..MaxFacts,
   wants : Targets, target : Targets, structure : 0..MaxStructures]

CallOps ==
  {"update_collection", "submit_collection", "approve_collection", "reject_collection",
   "submit_structure", "approve_structure", "reject_structure", "materialize_structure",
   "update_plan", "submit_plan", "approve_plan", "reject_plan"}
CallRow == [op : CallOps, id : Nat, version : Versions]

Init ==
  /\ facts = <<>> /\ current = 0
  /\ keywords = FALSE /\ geo = {}
  /\ collections = <<>> /\ structures = <<>> /\ plans = <<>>
  /\ calls = {}

-----------------------------------------------------------------------------
(* Business facts.  Confirming is never undone, so only the order of       *)
(* commits matters and each handler is one step.                           *)

CreateFactRevision ==
  \E commercial \in BOOLEAN :
    /\ Len(facts) < MaxFacts
    /\ facts' = Append(facts, [state |-> "draft", commercial |-> commercial])
    /\ UNCHANGED <<current, keywords, geo, collections, structures, plans, calls>>

ConfirmFactRevision(f) ==
  /\ facts[f].state = "draft"
  /\ facts' = [facts EXCEPT ![f].state = "confirmed"]
  /\ current' = f
  /\ UNCHANGED <<keywords, geo, collections, structures, plans, calls>>

RestoreFactRevision(f) ==
  /\ Len(facts) < MaxFacts
  /\ facts' = Append(facts, [facts[f] EXCEPT !.state = "draft"])
  /\ UNCHANGED <<current, keywords, geo, collections, structures, plans, calls>>

ConfirmedFacts == current # 0 /\ facts[current].state = "confirmed"

\* _selection_snapshots: what blocks a submission.
SelectionReady == keywords /\ "primary" \in geo

-----------------------------------------------------------------------------
(* Keywords and places; the member rows of a collection reference them.    *)

ReplaceProjectKeywords(any) ==
  /\ \A c \in DOMAIN collections : collections[c].members = 0
  /\ keywords' = any
  /\ UNCHANGED <<facts, current, geo, collections, structures, plans, calls>>

ReplaceProjectGeo(roles) ==
  /\ \A c \in DOMAIN collections : ~collections[c].bound
  /\ geo' = roles
  /\ UNCHANGED <<facts, current, keywords, collections, structures, plans, calls>>

-----------------------------------------------------------------------------
(* Semantic collections.                                                   *)

\* _validate_input: members are selected keywords, bound to places of the
\* project that are not there for reference only.
ValidInput(members, bound) ==
  /\ members => keywords
  /\ bound => members /\ geo \ {"reference"} # {}

CreateCollection(members, bound) ==
  /\ Len(collections) < MaxCollections
  /\ ValidInput(members, bound)
  /\ collections' = Append(collections,
       [state |-> "draft", version |-> 1, members |-> IF members THEN 1 ELSE 0, bound |-> bound])
  /\ UNCHANGED <<facts, current, keywords, geo, structures, plans, calls>>

UpdateCollection(c, version, members, bound) ==
  LET next == version + 1 IN
  IF ValidInput(members, bound)
  THEN [collections EXCEPT ![c].version = next,
          ![c].members = IF members THEN next ELSE 0, ![c].bound = bound]
  ELSE collections

SubmitCollection(c, version) ==
  IF collections[c].members # 0
  THEN [collections EXCEPT ![c].state = "review", ![c].version = version + 1]
  ELSE collections

DecideCollection(c, verdict) == [collections EXCEPT ![c].state = verdict]

-----------------------------------------------------------------------------
(* Site structures.                                                        *)

\* _create_draft_revision: an approved collection, no open revision.
CreateStructureRevision(c, pages) ==
  /\ Len(structures) < MaxStructures
  /\ collections[c].state = "approved"
  /\ structures # <<>> => Last(structures).state \notin {"draft", "review"}
  /\ structures' = Append(structures,
       [state |-> "draft", collection |-> c, pages |-> pages, fact |-> 0, made |-> {}])
  /\ UNCHANGED <<facts, current, keywords, geo, collections, plans, calls>>

\* The row is locked and the caller's structure hash is compared.
UpdateStructureRevision(s, c, pages) ==
  /\ structures[s].state = "draft"
  /\ collections[c].state = "approved"
  /\ structures' = [structures EXCEPT ![s].collection = c, ![s].pages = pages]
  /\ UNCHANGED <<facts, current, keywords, geo, collections, plans, calls>>

SubmitStructure(s) ==
  IF ConfirmedFacts /\ SelectionReady /\ collections[structures[s].collection].state = "approved"
  THEN [structures EXCEPT ![s].fact = current, ![s].state = "review"]
  ELSE structures

DecideStructure(s, verdict) == [structures EXCEPT ![s].state = verdict]

\* _approved_structure_for_new_page_plans, 0 when there is none.
ApprovedStructure ==
  LET approved == {s \in DOMAIN structures : structures[s].state = "approved"}
  IN  IF approved = {} THEN 0 ELSE CHOOSE s \in approved : \A t \in approved : t <= s

-----------------------------------------------------------------------------
(* Page plans.                                                             *)

PlansOf(slug) == {p \in DOMAIN plans : plans[p].slug = slug}
\* The plan the handlers call the latest one: the highest version.
LatestVersion(slug) == {p \in PlansOf(slug) : \A q \in PlansOf(slug) : plans[q].version <= plans[p].version}
NextVersion(slug) ==
  LET latest == LatestVersion(slug)
  IN  IF latest = {} THEN 1 ELSE plans[CHOOSE p \in latest : TRUE].version + 1
Open(p) == plans[p].state \in {"draft", "review"}

NewPlan(slug, version, wants, structure) ==
  [slug |-> slug, version |-> version, state |-> "draft", fact |-> 0,
   wants |-> wants, target |-> NoTarget, structure |-> structure]

\* uq_page_plan_project_slug_version, with one plan left out.
VersionFree(slug, version, except) ==
  \A p \in PlansOf(slug) \ {except} : plans[p].version # version

\* Targets a caller can name: the members of a collection it sees.
OfferedTargets ==
  {NoTarget} \cup {[collection |-> c, members |-> collections[c].members] :
                     c \in {d \in DOMAIN collections : collections[d].bound}}

CreatePagePlan(slug, wants) ==
  /\ Len(plans) < MaxPlans
  /\ ~\E p \in LatestVersion(slug) : Open(p)
  /\ ApprovedStructure # 0
  /\ plans' = Append(plans, NewPlan(slug, NextVersion(slug), wants, ApprovedStructure))
  /\ UNCHANGED <<facts, current, keywords, geo, collections, structures, calls>>

\* The recipe is skipped when a plan that is not rejected exists; the new
\* plan always has version 1.
CreateCommercialPagePlans ==
  /\ Len(plans) < MaxPlans
  /\ ConfirmedFacts /\ facts[current].commercial
  /\ \A p \in PlansOf(CommercialSlug) : plans[p].state = "rejected"
  /\ ApprovedStructure # 0
  /\ VersionFree(CommercialSlug, 1, 0)
  /\ plans' = Append(plans, NewPlan(CommercialSlug, 1, NoTarget, ApprovedStructure))
  /\ UNCHANGED <<facts, current, keywords, geo, collections, structures, calls>>

UpdatePlan(p, version, wants) ==
  IF VersionFree(plans[p].slug, version + 1, p)
  THEN [plans EXCEPT ![p].version = version + 1, ![p].wants = wants]
  ELSE plans

\* _semantic_target_snapshot: the members belong to an approved collection.
TargetApproved(t) ==
  \/ t = NoTarget
  \/ /\ collections[t.collection].state = "approved"
     /\ collections[t.collection].members = t.members
     /\ collections[t.collection].bound

\* Mutant of SubmitPlan: the latest revision is pinned, not the confirmed one.
SubmitPlanOnLatest(p, version) ==
  IF /\ ConfirmedFacts /\ SelectionReady
     /\ TargetApproved(plans[p].wants)
     /\ VersionFree(plans[p].slug, version + 1, p)
  THEN [plans EXCEPT ![p].fact = Len(facts), ![p].target = plans[p].wants,
                     ![p].state = "review", ![p].version = version + 1]
  ELSE plans

SubmitPlan(p, version) ==
  IF /\ ConfirmedFacts /\ SelectionReady
     /\ TargetApproved(plans[p].wants)
     /\ VersionFree(plans[p].slug, version + 1, p)
  THEN [plans EXCEPT ![p].fact = current, ![p].target = plans[p].wants,
                     ![p].state = "review", ![p].version = version + 1]
  ELSE plans

DecidePlan(p, verdict) == [plans EXCEPT ![p].state = verdict]

\* The plans of a structure's pages, or none when a page has an open plan.
Materialized(s) ==
  LET pages == SetToSeq(structures[s].pages)
  IN  [i \in DOMAIN pages |-> NewPlan(pages[i], NextVersion(pages[i]), NoTarget, s)]
Materialize(s) ==
  /\ Len(plans) + Cardinality(structures[s].pages) <= MaxPlans
  /\ \A slug \in structures[s].pages : ~\E p \in LatestVersion(slug) : Open(p)

-----------------------------------------------------------------------------
(* The unlocked handlers.                                                  *)

Begin(op, id, version) ==
  /\ Cardinality(calls) < MaxCalls
  /\ calls' = calls \cup {[op |-> op, id |-> id, version |-> version]}
  /\ UNCHANGED <<facts, current, keywords, geo, collections, structures, plans>>

BeginCollectionCall(c) ==
  LET row == collections[c] IN
  /\ row.version < MaxVersion
  /\ \/ /\ row.state = "draft"
        /\ \E op \in {"update_collection", "submit_collection"} : Begin(op, c, row.version)
     \/ /\ row.state = "review"
        /\ \E op \in {"approve_collection", "reject_collection"} : Begin(op, c, row.version)

FinishCollectionCall(call) ==
  /\ calls' = calls \ {call}
  /\ \/ /\ call.op = "update_collection"
        /\ \E members, bound \in BOOLEAN :
             collections' = UpdateCollection(call.id, call.version, members, bound)
     \/ /\ call.op = "submit_collection"
        /\ collections' = SubmitCollection(call.id, call.version)
     \/ /\ call.op = "approve_collection"
        /\ collections' = DecideCollection(call.id, "approved")
     \/ /\ call.op = "reject_collection"
        /\ collections' = DecideCollection(call.id, "rejected")
  /\ UNCHANGED <<facts, current, keywords, geo, structures, plans>>

BeginStructureCall(s) ==
  LET row == structures[s] IN
  \/ row.state = "draft" /\ Begin("submit_structure", s, 0)
  \/ /\ row.state = "review"
     /\ \E op \in {"approve_structure", "reject_structure"} : Begin(op, s, 0)
  \/ row.state = "approved" /\ row.made = {} /\ Begin("materialize_structure", s, 0)

FinishStructureCall(call) ==
  /\ calls' = calls \ {call}
  /\ \/ /\ call.op = "submit_structure"
        /\ structures' = SubmitStructure(call.id) /\ UNCHANGED plans
     \/ /\ call.op = "approve_structure"
        /\ structures' = DecideStructure(call.id, "approved") /\ UNCHANGED plans
     \/ /\ call.op = "reject_structure"
        /\ structures' = DecideStructure(call.id, "rejected") /\ UNCHANGED plans
     \/ /\ call.op = "materialize_structure"
        /\ IF Materialize(call.id)
           THEN /\ plans' = plans \o Materialized(call.id)
                /\ structures' = [structures EXCEPT ![call.id].made =
                                    DOMAIN plans' \ DOMAIN plans]
           ELSE UNCHANGED <<structures, plans>>
  /\ UNCHANGED <<facts, current, keywords, geo, collections>>

BeginPlanCall(p) ==
  LET row == plans[p] IN
  /\ row.version < MaxVersion
  /\ \/ row.state = "draft" /\ \E op \in {"update_plan", "submit_plan"} : Begin(op, p, row.version)
     \/ row.state = "review" /\ \E op \in {"approve_plan", "reject_plan"} : Begin(op, p, row.version)

FinishPlanCall(call) ==
  /\ calls' = calls \ {call}
  /\ \/ /\ call.op = "update_plan"
        /\ \E wants \in OfferedTargets : plans' = UpdatePlan(call.id, call.version, wants)
     \/ call.op = "submit_plan" /\ plans' = SubmitPlan(call.id, call.version)
     \/ call.op = "approve_plan" /\ plans' = DecidePlan(call.id, "approved")
     \/ call.op = "reject_plan" /\ plans' = DecidePlan(call.id, "rejected")
  /\ UNCHANGED <<facts, current, keywords, geo, collections, structures>>

-----------------------------------------------------------------------------
Next ==
  \/ CreateFactRevision
  \/ \E f \in DOMAIN facts : ConfirmFactRevision(f) \/ RestoreFactRevision(f)
  \/ \E any \in BOOLEAN : ReplaceProjectKeywords(any)
  \/ \E roles \in SUBSET {"primary", "reference"} : ReplaceProjectGeo(roles)
  \/ \E members, bound \in BOOLEAN : CreateCollection(members, bound)
  \/ \E c \in DOMAIN collections : BeginCollectionCall(c)
  \/ \E c \in DOMAIN collections, pages \in (SUBSET Slugs) \ {{}} :
       \/ CreateStructureRevision(c, pages)
       \/ \E s \in DOMAIN structures : UpdateStructureRevision(s, c, pages)
  \/ \E s \in DOMAIN structures : BeginStructureCall(s)
  \/ \E slug \in Slugs, wants \in OfferedTargets : CreatePagePlan(slug, wants)
  \/ CreateCommercialPagePlans
  \/ \E p \in DOMAIN plans : BeginPlanCall(p)
  \/ \E call \in calls :
       FinishCollectionCall(call) \/ FinishStructureCall(call) \/ FinishPlanCall(call)

Spec == Init /\ [][Next]_vars

-----------------------------------------------------------------------------
(* Properties.                                                             *)

\* Every row has the columns its table has, and the project never points
\* past its fact revisions.
TypeOK ==
  /\ facts \in Seq(FactRow) /\ current \in 0..Len(facts)
  /\ keywords \in BOOLEAN /\ geo \subseteq {"primary", "reference"}
  /\ collections \in Seq(CollectionRow)
  /\ structures \in Seq(StructureRow)
  /\ plans \in Seq(PlanRow)
  /\ calls \subseteq CallRow

\* A plan or a structure that left the draft state rests on facts somebody
\* confirmed, although the submission reads the facts without any lock and
\* the decisions commit over rows that moved (submit_page_plan_review).
PinnedFactsConfirmed ==
  /\ \A p \in DOMAIN plans : plans[p].state # "draft" =>
       plans[p].fact # 0 /\ facts[plans[p].fact].state = "confirmed"
  /\ \A s \in DOMAIN structures : structures[s].state # "draft" =>
       structures[s].fact # 0 /\ facts[structures[s].fact].state = "confirmed"

=============================================================================
