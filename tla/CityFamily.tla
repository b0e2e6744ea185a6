------------------------------ MODULE CityFamily ------------------------------
(***************************************************************************)
(* City projects of a master project (api/v1/project_families.py) and the  *)
(* page plans that the master's approved structure makes in them           *)
(* (api/v1/site_structure.py).  The children's own work on facts, keywords *)
(* and plans is Planning; here it is reduced to the states that the family *)
(* handlers read.                                                          *)
(***************************************************************************)
EXTENDS Naturals, Sequences, FiniteSets

CONSTANTS Cities,       \* validated city places; a child's slug and place
          PageSlugs,    \* addresses a structure can have
          MaxStructuresOfMaster, MaxPlansOfChild

ASSUME FamilyAssumption ==
  {MaxStructuresOfMaster, MaxPlansOfChild} \subseteq Nat /\ IsFiniteSet(PageSlugs)

VARIABLES masterFacts,  \* the master's current facts are confirmed
          structuresOf, \* the master's approved structures: their pages
          children      \* city projects by slug

familyVars == <<masterFacts, structuresOf, children>>

PlanOfChild == [slug : PageSlugs, state : {"draft", "review", "approved", "rejected"},
                from : 0..MaxStructuresOfMaster]

FamilyInit == masterFacts = FALSE /\ structuresOf = <<>> /\ children = <<>>

ConfirmMasterFacts ==
  /\ ~masterFacts /\ masterFacts' = TRUE
  /\ UNCHANGED <<structuresOf, children>>

ApproveMasterStructure(pages) ==
  /\ Len(structuresOf) < MaxStructuresOfMaster
  /\ structuresOf' = Append(structuresOf, pages)
  /\ UNCHANGED <<masterFacts, children>>

\* The copied facts are a draft whatever the master's are; the slug is unique.
NewChild == [facts |-> "draft", keywords |-> FALSE, site |-> FALSE, plans |-> <<>>]
CreateCityProject(city) ==
  /\ masterFacts
  /\ city \notin DOMAIN children
  /\ children' = [c \in DOMAIN children \cup {city} |-> IF c = city THEN NewChild ELSE children[c]]
  /\ UNCHANGED <<masterFacts, structuresOf>>

-----------------------------------------------------------------------------
(* The child's own work.                                                   *)

ReviewChild(c) ==
  /\ \/ children[c].facts = "draft" /\ children' = [children EXCEPT ![c].facts = "confirmed"]
     \/ ~children[c].keywords /\ children' = [children EXCEPT ![c].keywords = TRUE]
  /\ UNCHANGED <<masterFacts, structuresOf>>

MoveChildPlan(c, p, to) ==
  /\ <<children[c].plans[p].state, to>> \in
       {<<"draft", "review">>, <<"review", "approved">>, <<"review", "rejected">>}
  /\ to = "review" => children[c].facts = "confirmed" /\ children[c].keywords
  /\ children' = [children EXCEPT ![c].plans[p].state = to]
  /\ UNCHANGED <<masterFacts, structuresOf>>

\* A draft of an approved plan is applied, and the child gets its site.
ApplyChildPage(c) ==
  /\ ~children[c].site
  /\ \E p \in DOMAIN children[c].plans : children[c].plans[p].state = "approved"
  /\ children' = [children EXCEPT ![c].site = TRUE]
  /\ UNCHANGED <<masterFacts, structuresOf>>

-----------------------------------------------------------------------------
(* materialize_structure_city_children: the revision, the members and the  *)
(* children are locked; every selected child gets every page, or nothing.  *)

LatestOf(c, slug) ==
  LET of == {p \in DOMAIN children[c].plans : children[c].plans[p].slug = slug}
  IN  IF of = {} THEN "none"
      ELSE children[c].plans[CHOOSE p \in of : \A q \in of : q <= p].state

\* Mutant of CanMaterialize: only open plans of the same pages are looked at.
CanMaterializeAgain(c, s) == \A slug \in structuresOf[s] : LatestOf(c, slug) \notin {"draft", "review"}

CanMaterialize(c, s) ==
  /\ \A p \in DOMAIN children[c].plans : children[c].plans[p].from # s
  /\ \A slug \in structuresOf[s] : LatestOf(c, slug) \notin {"draft", "review"}

MadePlans(s) ==
  {order \in [1..Cardinality(structuresOf[s]) -> structuresOf[s]] :
     \A i, j \in DOMAIN order : order[i] = order[j] => i = j}

MaterializeCityChildren(s, selected) ==
  /\ selected # {}
  /\ \A c \in selected :
       /\ CanMaterialize(c, s)
       /\ Len(children[c].plans) + Cardinality(structuresOf[s]) <= MaxPlansOfChild
  /\ LET order == CHOOSE o \in MadePlans(s) : TRUE
         made == [i \in DOMAIN order |-> [slug |-> order[i], state |-> "draft", from |-> s]]
     IN  children' = [c \in DOMAIN children |->
            IF c \in selected THEN [children[c] EXCEPT !.plans = @ \o made] ELSE children[c]]
  /\ UNCHANGED <<masterFacts, structuresOf>>

FamilyNext ==
  \/ ConfirmMasterFacts
  \/ \E pages \in (SUBSET PageSlugs) \ {{}} : ApproveMasterStructure(pages)
  \/ \E city \in Cities : CreateCityProject(city)
  \/ \E c \in DOMAIN children :
       \/ ReviewChild(c) \/ ApplyChildPage(c)
       \/ \E p \in DOMAIN children[c].plans, to \in {"review", "approved", "rejected"} : MoveChildPlan(c, p, to)
  \/ \E s \in DOMAIN structuresOf, selected \in SUBSET DOMAIN children : MaterializeCityChildren(s, selected)

FamilySpec == FamilyInit /\ [][FamilyNext]_familyVars

-----------------------------------------------------------------------------
\* One structure makes the plans of its pages once in a city project, all of
\* them or none, and never a second open plan of an address, in whatever order
\* children are selected and their plans move (materialize_structure_city_children).
MaterializedOnce ==
  \A c \in DOMAIN children : LET plans == children[c].plans IN
    /\ \A s \in DOMAIN structuresOf :
         LET made == {p \in DOMAIN plans : plans[p].from = s}
         IN  made # {} => /\ {plans[p].slug : p \in made} = structuresOf[s]
                          /\ Cardinality(made) = Cardinality(structuresOf[s])
    /\ \A p, q \in DOMAIN plans :
         {plans[p].state, plans[q].state} \subseteq {"draft", "review"} /\ plans[p].slug = plans[q].slug => p = q
=============================================================================
