---------------------------- MODULE ContentProofs ---------------------------
(***************************************************************************)
(* Theorems about the components that decide what a site says and shows:   *)
(* Planning, IndexSchedule, AuthorReviews and DesignProfiles, which share  *)
(* no state, for any addresses, facts, versions and numbers of rows. What  *)
(* left the draft state rests on confirmed facts; what is open to search   *)
(* engines was checked and comes in the order of the schedule; the log of  *)
(* the author profiles tells their state; the last approved design         *)
(* applies.                                                                *)
(***************************************************************************)
EXTENDS Planning, IndexSchedule, AuthorReviews, DesignProfiles, SequenceTheorems,
        FiniteSetTheorems, WellFoundedInduction, TLAPS

-----------------------------------------------------------------------------
(* Numbers and tables.                                                     *)

\* Of a nonempty set of numbers one is the least.
LEMMA LeastElement ==
  ASSUME NEW S \in SUBSET Nat, S # {}
  PROVE  \E x \in S : \A y \in S : x <= y
<1>1. PICK x \in S : \A y \in S : ~(<<y, x>> \in OpToRel(<, Nat))
    BY NatLessThanWellFounded, WFMin
<1>2. ASSUME NEW y \in S PROVE x <= y
    <2>1. x \in Nat /\ y \in Nat
        OBVIOUS
    <2>2. ~(y < x)
        BY <1>1, <2>1 DEF OpToRel
    <2> QED
        BY <2>1, <2>2
<1> QED
    BY <1>2

\* A table as it is, with a row appended, and with a row overwritten.
LEMMA SeqRows ==
  ASSUME NEW S, NEW q \in Seq(S)
  PROVE  DOMAIN q = 1..Len(q) /\ Len(q) \in Nat /\ \A i \in DOMAIN q : q[i] \in S
BY LenProperties, ElementOfSeq

LEMMA SeqAppended ==
  ASSUME NEW S, NEW q \in Seq(S), NEW x \in S, NEW p, p = Append(q, x)
  PROVE  /\ p \in Seq(S) /\ Len(p) = Len(q) + 1 /\ DOMAIN p = DOMAIN q \cup {Len(p)}
         /\ p[Len(p)] = x /\ \A i \in DOMAIN q : p[i] = q[i] /\ i # Len(p)
BY AppendProperties, SeqRows

LEMMA SeqWritten ==
  ASSUME NEW S, NEW q \in Seq(S), NEW i \in DOMAIN q, NEW x \in S, NEW p, p = [q EXCEPT ![i] = x]
  PROVE  /\ p \in Seq(S) /\ DOMAIN p = DOMAIN q
         /\ \A j \in DOMAIN q : p[j] = IF j = i THEN x ELSE q[j]
BY ExceptSeq, SeqRows

-----------------------------------------------------------------------------
(***************************************************************************)
(* Planning. A handler decides with the row it read earlier, so the        *)
(* invariant has to say of every call under way that its row left the      *)
(* draft state for good.                                                   *)
(***************************************************************************)

-----------------------------------------------------------------------------
(* The inductive invariant of Planning.                                     *)

Confirmed(f) == f # 0 /\ f \in DOMAIN facts /\ facts[f].state = "confirmed"

CollectionOps == {"update_collection", "submit_collection", "approve_collection", "reject_collection"}
StructureDecisions == {"approve_structure", "reject_structure", "materialize_structure"}
PlanDecisions == {"approve_plan", "reject_plan"}

\* Tables stay within their bounds, and a plan of the last version is new.
TableInv ==
  /\ Len(facts) <= MaxFacts /\ Len(collections) <= MaxCollections
  /\ Len(structures) <= MaxStructures /\ Len(plans) <= MaxPlans
  /\ \A p \in DOMAIN plans : plans[p].version > MaxVersion => plans[p].state = "draft"

\* What left the draft state rests on confirmed facts, and so does the project.
PinnedInv ==
  /\ current # 0 => facts[current].state = "confirmed"
  /\ \A p \in DOMAIN plans : plans[p].state # "draft" => Confirmed(plans[p].fact)
  /\ \A s \in DOMAIN structures : structures[s].state # "draft" => Confirmed(structures[s].fact)

\* A handler under way read a row that exists.  A decision read one that had
\* left the draft state, to which nothing takes it back.
PendingInv ==
  \A call \in calls :
    /\ call.op \in CollectionOps => call.id \in DOMAIN collections /\ call.version < MaxVersion
    /\ call.op \in StructureDecisions \cup {"submit_structure"} => call.id \in DOMAIN structures
    /\ call.op \in StructureDecisions => structures[call.id].state # "draft"
    /\ call.op \in PlanDecisions \cup {"update_plan", "submit_plan"} =>
         call.id \in DOMAIN plans /\ call.version < MaxVersion /\ plans[call.id].version <= MaxVersion
    /\ call.op \in PlanDecisions => plans[call.id].state # "draft"

PlanningInv == TypeOK /\ TableInv /\ PinnedInv /\ PendingInv

-----------------------------------------------------------------------------
(* Facts the steps of Planning share.                                       *)

LEMMA PlanningTypes ==
  ASSUME TypeOK
  PROVE  /\ DOMAIN facts = 1..Len(facts) /\ Len(facts) \in Nat
         /\ \A f \in DOMAIN facts : facts[f] \in FactRow
         /\ DOMAIN collections = 1..Len(collections) /\ Len(collections) \in Nat
         /\ \A c \in DOMAIN collections : collections[c] \in CollectionRow
         /\ DOMAIN structures = 1..Len(structures) /\ Len(structures) \in Nat
         /\ \A s \in DOMAIN structures : structures[s] \in StructureRow
         /\ DOMAIN plans = 1..Len(plans) /\ Len(plans) \in Nat
         /\ \A p \in DOMAIN plans : plans[p] \in PlanRow
<1>1. /\ facts \in Seq(FactRow) /\ collections \in Seq(CollectionRow)
      /\ structures \in Seq(StructureRow) /\ plans \in Seq(PlanRow)
    BY DEF TypeOK
<1> QED
    BY <1>1, SeqRows

LEMMA Bounds ==
  /\ MaxFacts \in Nat /\ MaxCollections \in Nat /\ MaxStructures \in Nat
  /\ MaxPlans \in Nat /\ MaxVersion \in Nat /\ MaxCalls \in Nat
  /\ IsFiniteSet(Slugs) /\ CommercialSlug \in Slugs
BY PlanningAssumption

\* Rows stay, what left the draft state never returns to it, and a plan that
\* can still be edited never gets the last version.
RowsKept ==
  /\ \A c \in DOMAIN collections : c \in DOMAIN collections'
  /\ \A s \in DOMAIN structures :
       s \in DOMAIN structures' /\ (structures[s].state # "draft" => structures'[s].state # "draft")
  /\ \A p \in DOMAIN plans :
       /\ p \in DOMAIN plans' /\ (plans[p].state # "draft" => plans'[p].state # "draft")
       /\ plans[p].version <= MaxVersion => plans'[p].version <= MaxVersion

LEMMA PendingStays ==
  ASSUME PlanningInv, RowsKept, calls' \subseteq calls
  PROVE  PendingInv'
BY DEF PlanningInv, RowsKept, PendingInv

\* Facts that are only added or confirmed.
LEMMA PinnedStays ==
  ASSUME PlanningInv, \A f \in DOMAIN facts : f \in DOMAIN facts' /\ (facts[f].state = "confirmed" => facts'[f].state = "confirmed"),
         current' # 0 => facts'[current'].state = "confirmed", UNCHANGED <<plans, structures>>
  PROVE  PinnedInv'
BY DEF PlanningInv, PinnedInv, Confirmed

LEMMA ConfirmedCurrent ==
  ASSUME PlanningInv, ConfirmedFacts
  PROVE  Confirmed(current) /\ current \in 0..MaxFacts
<1>1. current \in 0..Len(facts) /\ Len(facts) <= MaxFacts /\ DOMAIN facts = 1..Len(facts) /\ Len(facts) \in Nat
    BY PlanningTypes DEF PlanningInv, TypeOK, TableInv
<1> QED
    BY <1>1, Bounds DEF ConfirmedFacts, Confirmed

\* One plan is written by a handler that ends.
LEMMA PlanWritten ==
  ASSUME PlanningInv, NEW p \in DOMAIN plans, NEW row \in PlanRow, plans' = [plans EXCEPT ![p] = row],
         row.version <= MaxVersion, row.state # "draft" => Confirmed(row.fact),
         plans[p].state # "draft" => row.state # "draft",
         calls' \subseteq calls, UNCHANGED <<facts, current, keywords, geo, collections, structures>>
  PROVE  PlanningInv'
<1>t. TypeOK /\ TableInv /\ PinnedInv
    BY DEF PlanningInv
<1>1. /\ plans' \in Seq(PlanRow) /\ DOMAIN plans' = DOMAIN plans
      /\ \A q \in DOMAIN plans : plans'[q] = IF q = p THEN row ELSE plans[q]
    BY <1>t, SeqWritten, Zenon DEF TypeOK
<1>2. Len(plans') = Len(plans)
    BY <1>1, <1>t, PlanningTypes, LenProperties
<1>3. TypeOK'
    BY <1>1, <1>t DEF TypeOK
<1>4. TableInv'
    <2>1. ~(row.version > MaxVersion)
        BY Bounds DEF PlanRow, Versions
    <2>2. \A q \in DOMAIN plans' : plans'[q].version > MaxVersion => plans'[q].state = "draft"
        BY <1>1, <1>t, <2>1 DEF TableInv
    <2> QED
        BY <1>2, <1>t, <2>2 DEF TableInv
<1>5. PinnedInv'
    BY <1>1, <1>t DEF PinnedInv, Confirmed
<1>6. RowsKept
    BY <1>1 DEF RowsKept
<1> QED
    BY <1>3, <1>4, <1>5, <1>6, PendingStays DEF PlanningInv

\* Draft plans are added at the end; structures keep their states and facts.
LEMMA PlansAdded ==
  ASSUME PlanningInv, NEW new \in Seq(PlanRow), \A i \in DOMAIN new : new[i].state = "draft",
         Len(plans) + Len(new) <= MaxPlans, plans' = plans \o new,
         structures' \in Seq(StructureRow), Len(structures') = Len(structures),
         DOMAIN structures' = DOMAIN structures,
         \A s \in DOMAIN structures : structures'[s].state = structures[s].state /\ structures'[s].fact = structures[s].fact,
         calls' \subseteq calls, UNCHANGED <<facts, current, keywords, geo, collections>>
  PROVE  PlanningInv'
<1>t. TypeOK /\ TableInv /\ PinnedInv /\ plans \in Seq(PlanRow)
    BY DEF PlanningInv, TypeOK
<1>1. /\ plans' \in Seq(PlanRow) /\ Len(plans') = Len(plans) + Len(new)
      /\ \A i \in 1..Len(plans) + Len(new) :
           plans'[i] = IF i <= Len(plans) THEN plans[i] ELSE new[i - Len(plans)]
    BY <1>t, ConcatProperties
<1>2. /\ DOMAIN plans' = 1..Len(plans) + Len(new) /\ DOMAIN new = 1..Len(new) /\ Len(new) \in Nat
      /\ DOMAIN plans = 1..Len(plans) /\ Len(plans) \in Nat
    BY <1>1, <1>t, LenProperties
<1>3. \A i \in DOMAIN plans : i \in DOMAIN plans' /\ plans'[i] = plans[i]
    BY <1>1, <1>2
<1>4. ASSUME NEW i \in DOMAIN plans', i \notin DOMAIN plans
      PROVE  plans'[i].state = "draft"
    <2>1. /\ i \in 1..Len(plans) + Len(new) /\ ~(i <= Len(plans)) /\ i - Len(plans) \in DOMAIN new
        BY <1>2, <1>4
    <2>2. plans'[i] = new[i - Len(plans)]
        BY <1>1, <2>1
    <2> QED
        BY <2>1, <2>2
<1>5. TypeOK'
    BY <1>1, <1>t DEF TypeOK
<1>6. TableInv'
    <2>1. Len(plans') <= MaxPlans
        BY <1>1
    <2>2. \A i \in DOMAIN plans' : plans'[i].version > MaxVersion => plans'[i].state = "draft"
        BY <1>3, <1>4, <1>t DEF TableInv
    <2> QED
        BY <2>1, <2>2, <1>t DEF TableInv
<1>7. PinnedInv'
    <2>1. \A i \in DOMAIN plans' : plans'[i].state # "draft" => Confirmed(plans'[i].fact)
        BY <1>3, <1>4, <1>t DEF PinnedInv
    <2>2. \A s \in DOMAIN structures' : structures'[s].state # "draft" => Confirmed(structures'[s].fact)
        BY <1>t DEF PinnedInv
    <2>3. facts' = facts /\ current' = current
        OBVIOUS
    <2> QED
        BY <1>t, <2>1, <2>2, <2>3 DEF PinnedInv, Confirmed
<1>8. RowsKept
    BY <1>3 DEF RowsKept
<1> QED
    BY <1>5, <1>6, <1>7, <1>8, PendingStays DEF PlanningInv

\* One structure is written.
LEMMA StructureWritten ==
  ASSUME PlanningInv, NEW s \in DOMAIN structures, NEW row \in StructureRow,
         structures' = [structures EXCEPT ![s] = row],
         row.state # "draft" => Confirmed(row.fact), structures[s].state # "draft" => row.state # "draft",
         calls' \subseteq calls, UNCHANGED <<facts, current, keywords, geo, collections, plans>>
  PROVE  PlanningInv'
<1>t. TypeOK /\ TableInv /\ PinnedInv
    BY DEF PlanningInv
<1>1. /\ structures' \in Seq(StructureRow) /\ DOMAIN structures' = DOMAIN structures
      /\ \A q \in DOMAIN structures : structures'[q] = IF q = s THEN row ELSE structures[q]
    BY <1>t, SeqWritten, Zenon DEF TypeOK
<1>2. Len(structures') = Len(structures)
    BY <1>1, <1>t, PlanningTypes, LenProperties
<1>3. TypeOK'
    BY <1>1, <1>t DEF TypeOK
<1>4. TableInv'
    BY <1>2, <1>t DEF TableInv
<1>5. PinnedInv'
    BY <1>1, <1>t DEF PinnedInv, Confirmed
<1>6. RowsKept
    BY <1>1 DEF RowsKept
<1> QED
    BY <1>3, <1>4, <1>5, <1>6, PendingStays DEF PlanningInv

\* The collections change, and nothing else; none is lost.
LEMMA CollectionsChanged ==
  ASSUME PlanningInv, collections' \in Seq(CollectionRow), Len(collections') <= MaxCollections,
         \A c \in DOMAIN collections : c \in DOMAIN collections',
         calls' \subseteq calls, UNCHANGED <<facts, current, keywords, geo, structures, plans>>
  PROVE  PlanningInv'
<1>t. TypeOK /\ TableInv /\ PinnedInv
    BY DEF PlanningInv
<1>1. TypeOK' /\ TableInv' /\ PinnedInv'
    BY <1>t DEF TypeOK, TableInv, PinnedInv, Confirmed
<1>2. RowsKept
    BY DEF RowsKept
<1> QED
    BY <1>1, <1>2, PendingStays DEF PlanningInv

\* A handler that ends without an effect.
LEMMA NothingWritten ==
  ASSUME PlanningInv, calls' \subseteq calls,
         UNCHANGED <<facts, current, keywords, geo, collections, structures, plans>>
  PROVE  PlanningInv'
<1>1. TypeOK' /\ TableInv' /\ PinnedInv'
    BY DEF PlanningInv, TypeOK, TableInv, PinnedInv, Confirmed
<1>2. RowsKept
    BY DEF RowsKept
<1> QED
    BY <1>1, <1>2, PendingStays DEF PlanningInv

\* A page without an open plan gets a version the tables can hold.
LEMMA NextVersionType ==
  ASSUME PlanningInv, NEW slug \in Slugs, ~\E p \in LatestVersion(slug) : Open(p)
  PROVE  NextVersion(slug) \in Versions
<1>1. CASE LatestVersion(slug) = {}
    BY <1>1, Bounds DEF NextVersion, Versions
<1>2. CASE LatestVersion(slug) # {}
    <2>1. PICK p \in LatestVersion(slug) : p = CHOOSE q \in LatestVersion(slug) : TRUE
        BY <1>2
    <2>2. p \in DOMAIN plans /\ ~Open(p)
        BY <2>1 DEF LatestVersion, PlansOf
    <2>3. plans[p].version \in Versions /\ plans[p].state # "draft"
        BY <2>2, PlanningTypes DEF PlanningInv, PlanRow, Open
    <2>4. ~(plans[p].version > MaxVersion)
        BY <2>2, <2>3 DEF PlanningInv, TableInv
    <2>5. NextVersion(slug) = plans[p].version + 1
        BY <1>2, <2>1 DEF NextVersion
    <2> QED
        BY <2>3, <2>4, <2>5, Bounds DEF Versions
<1> QED
    BY <1>1, <1>2

LEMMA NewPlanRow ==
  ASSUME NEW slug \in Slugs, NEW version \in Versions, NEW wants \in Targets, NEW s \in 0..MaxStructures
  PROVE  NewPlan(slug, version, wants, s) \in PlanRow /\ NewPlan(slug, version, wants, s).state = "draft"
<1>1. NoTarget \in Targets /\ 0 \in 0..MaxFacts
    BY Bounds DEF NoTarget, Targets, Versions
<1> QED
    BY <1>1 DEF NewPlan, PlanRow, ReviewStates

LEMMA OfferedTargetsTyped ==
  ASSUME PlanningInv
  PROVE  OfferedTargets \subseteq Targets
<1>1. NoTarget \in Targets
    BY Bounds DEF NoTarget, Targets, Versions
<1>2. ASSUME NEW c \in DOMAIN collections
      PROVE  [collection |-> c, members |-> collections[c].members] \in Targets
    <2>1. collections[c].members \in Versions
        BY PlanningTypes DEF PlanningInv, CollectionRow
    <2>2. c \in 0..MaxCollections
        BY PlanningTypes, Bounds DEF PlanningInv, TableInv
    <2> QED
        BY <2>1, <2>2 DEF Targets
<1> QED
    BY <1>1, <1>2 DEF OfferedTargets

LEMMA ApprovedStructureType ==
  ASSUME PlanningInv, ApprovedStructure # 0
  PROVE  ApprovedStructure \in 0..MaxStructures
<1> DEFINE A == {s \in DOMAIN structures : structures[s].state = "approved"}
<1>t. /\ DOMAIN structures = 1..Len(structures) /\ Len(structures) \in Nat /\ Len(structures) <= MaxStructures
    BY PlanningTypes DEF PlanningInv, TableInv
<1>1. A # {} /\ A \subseteq 1..Len(structures)
    BY <1>t DEF ApprovedStructure
<1>2. \E s \in A : \A t \in A : t <= s
    <2> DEFINE Room == {n \in Nat : \A t \in A : t <= n}
    <2>1. Len(structures) \in Room /\ Room \in SUBSET Nat
        BY <1>t, <1>1
    <2>2. PICK n \in Room : \A m \in Room : n <= m
        BY <2>1, LeastElement
    <2>3. n \in A
        <3>1. SUFFICES ASSUME n \notin A PROVE FALSE
            OBVIOUS
        <3>2. PICK t \in A : TRUE
            BY <1>1
        <3>3. n \in Nat /\ t \in Nat /\ 1 <= t /\ t <= n
            BY <1>1, <2>2, <1>t
        <3>4. n - 1 \in Nat
            BY <3>3
        <3>5. \A u \in A : u <= n - 1
            BY <1>1, <1>t, <2>2, <3>1
        <3>6. n <= n - 1
            BY <2>2, <3>4, <3>5
        <3> QED
            BY <3>3, <3>6
    <2> QED
        BY <2>2, <2>3
<1>3. ApprovedStructure \in A
    BY <1>1, <1>2, Zenon DEF ApprovedStructure
<1> QED
    BY <1>1, <1>3, <1>t, Bounds

\* A set of pages in some order.
LEMMA Listed ==
  ASSUME NEW S, IsFiniteSet(S)
  PROVE  SetToSeq(S) \in [1..Cardinality(S) -> S] /\ Cardinality(S) \in Nat
<1>1. \E f \in Bijection(1..Cardinality(S), S) : TRUE
    BY FS_CardinalityType DEF ExistsBijection
<1>2. \E f \in [1..Cardinality(S) -> S] : IsInjective(f)
    BY <1>1 DEF Bijection, Injection, IsInjective
<1> QED
    BY <1>2, FS_CardinalityType DEF SetToSeq

-----------------------------------------------------------------------------
(* Every step of Planning keeps its invariant.                              *)

LEMMA CreateFactRevisionKeeps ==
  ASSUME PlanningInv, CreateFactRevision \/ \E f \in DOMAIN facts : RestoreFactRevision(f)
  PROVE  PlanningInv'
<1>t. TypeOK /\ TableInv /\ PinnedInv
    BY DEF PlanningInv
<1>1. PICK row \in FactRow : row.state = "draft" /\ facts' = Append(facts, row)
    <2>1. CASE CreateFactRevision
        <3>1. PICK commercial \in BOOLEAN : facts' = Append(facts, [state |-> "draft", commercial |-> commercial])
            BY <2>1 DEF CreateFactRevision
        <3> QED
            BY <3>1 DEF FactRow
    <2>2. CASE \E f \in DOMAIN facts : RestoreFactRevision(f)
        <3>1. PICK f \in DOMAIN facts : RestoreFactRevision(f)
            BY <2>2
        <3>2. facts[f] \in FactRow
            BY <1>t, PlanningTypes
        <3>3. [facts[f] EXCEPT !.state = "draft"] \in FactRow /\ [facts[f] EXCEPT !.state = "draft"].state = "draft"
            BY <3>2 DEF FactRow
        <3> QED
            BY <3>1, <3>3 DEF RestoreFactRevision
    <2> QED
        BY <2>1, <2>2
<1>2. Len(facts) < MaxFacts /\ UNCHANGED <<current, keywords, geo, collections, structures, plans, calls>>
    BY DEF CreateFactRevision, RestoreFactRevision
<1>3. /\ facts' \in Seq(FactRow) /\ Len(facts') = Len(facts) + 1
      /\ \A f \in DOMAIN facts : f \in DOMAIN facts' /\ facts'[f] = facts[f]
    BY <1>1, <1>t, SeqAppended DEF TypeOK
<1>4. Len(facts) \in Nat /\ DOMAIN facts = 1..Len(facts) /\ current \in 0..Len(facts)
    BY <1>t, PlanningTypes DEF TypeOK
<1>5. current' \in 0..Len(facts') /\ Len(facts') <= MaxFacts
    BY <1>2, <1>3, <1>4, Bounds
<1>6. TypeOK' /\ TableInv'
    BY <1>2, <1>3, <1>5, <1>t DEF TypeOK, TableInv
<1>7. PinnedInv'
    BY <1>2, <1>3, <1>4, <1>t, PinnedStays DEF PinnedInv
<1>8. PendingInv'
    BY <1>2 DEF PlanningInv, PendingInv
<1> QED
    BY <1>6, <1>7, <1>8 DEF PlanningInv

LEMMA ConfirmFactRevisionKeeps ==
  ASSUME PlanningInv, NEW f \in DOMAIN facts, ConfirmFactRevision(f)
  PROVE  PlanningInv'
<1>t. TypeOK /\ TableInv /\ PinnedInv
    BY DEF PlanningInv
<1>1. facts[f] \in FactRow
    BY <1>t, PlanningTypes
<1>2. PICK row : row = [facts[f] EXCEPT !.state = "confirmed"]
    OBVIOUS
<1>3. row \in FactRow /\ row.state = "confirmed"
    BY <1>1, <1>2 DEF FactRow
<1>4. facts' = [facts EXCEPT ![f] = row]
    BY <1>2 DEF ConfirmFactRevision
<1>5. /\ facts' \in Seq(FactRow) /\ DOMAIN facts' = DOMAIN facts
      /\ \A g \in DOMAIN facts : facts'[g] = IF g = f THEN row ELSE facts[g]
    BY <1>3, <1>4, <1>t, SeqWritten, Zenon DEF TypeOK
<1>6. Len(facts') = Len(facts) /\ f \in 0..Len(facts)
    BY <1>5, <1>t, PlanningTypes, LenProperties
<1>7. TypeOK' /\ TableInv'
    BY <1>5, <1>6, <1>t DEF ConfirmFactRevision, TypeOK, TableInv
<1>8. PinnedInv'
    BY <1>3, <1>5, <1>t, PinnedStays DEF ConfirmFactRevision
<1>9. PendingInv'
    BY DEF ConfirmFactRevision, PlanningInv, PendingInv
<1> QED
    BY <1>7, <1>8, <1>9 DEF PlanningInv

LEMMA SelectionKeeps ==
  ASSUME PlanningInv, \/ \E any \in BOOLEAN : ReplaceProjectKeywords(any)
                      \/ \E roles \in SUBSET {"primary", "reference"} : ReplaceProjectGeo(roles)
  PROVE  PlanningInv'
<1>1. TypeOK' /\ TableInv' /\ PinnedInv' /\ PendingInv'
    BY DEF ReplaceProjectKeywords, ReplaceProjectGeo, PlanningInv, TypeOK, TableInv, PinnedInv, Confirmed, PendingInv
<1> QED
    BY <1>1 DEF PlanningInv

LEMMA CreateCollectionKeeps ==
  ASSUME PlanningInv, NEW members \in BOOLEAN, NEW bound \in BOOLEAN, CreateCollection(members, bound)
  PROVE  PlanningInv'
<1>1. [state |-> "draft", version |-> 1, members |-> IF members THEN 1 ELSE 0, bound |-> bound] \in CollectionRow
    BY Bounds DEF CollectionRow, ReviewStates, Versions
<1>2. PICK row \in CollectionRow : collections' = Append(collections, row)
    BY <1>1 DEF CreateCollection
<1>3. /\ collections' \in Seq(CollectionRow) /\ Len(collections') = Len(collections) + 1
      /\ \A c \in DOMAIN collections : c \in DOMAIN collections'
    BY <1>2, SeqAppended DEF PlanningInv, TypeOK
<1>4. Len(collections') <= MaxCollections
    BY <1>3, PlanningTypes, Bounds DEF CreateCollection, PlanningInv
<1> QED
    BY <1>3, <1>4, CollectionsChanged DEF CreateCollection

\* A handler reads a row it will decide on.
LEMMA CallMade ==
  ASSUME PlanningInv, NEW op \in CallOps, NEW id \in Nat, NEW version \in Versions, Begin(op, id, version),
         op \in CollectionOps => id \in DOMAIN collections /\ version < MaxVersion,
         op \in StructureDecisions \cup {"submit_structure"} => id \in DOMAIN structures,
         op \in StructureDecisions => structures[id].state # "draft",
         op \in PlanDecisions \cup {"update_plan", "submit_plan"} =>
           id \in DOMAIN plans /\ version < MaxVersion /\ plans[id].version <= MaxVersion,
         op \in PlanDecisions => plans[id].state # "draft"
  PROVE  PlanningInv'
<1>1. PICK call : call = [op |-> op, id |-> id, version |-> version]
    OBVIOUS
<1>2. call \in CallRow /\ call.op = op /\ call.id = id /\ call.version = version
    BY <1>1 DEF CallRow
<1>3. calls' = calls \cup {call} /\ UNCHANGED <<facts, current, keywords, geo, collections, structures, plans>>
    BY <1>1 DEF Begin
<1>4. TypeOK' /\ TableInv' /\ PinnedInv'
    BY <1>2, <1>3 DEF PlanningInv, TypeOK, TableInv, PinnedInv, Confirmed
<1>5. PendingInv'
    BY <1>2, <1>3 DEF PlanningInv, PendingInv
<1> QED
    BY <1>4, <1>5 DEF PlanningInv

LEMMA BeginCollectionCallKeeps ==
  ASSUME PlanningInv, NEW c \in DOMAIN collections, BeginCollectionCall(c)
  PROVE  PlanningInv'
<1>1. PICK op \in CollectionOps : Begin(op, c, collections[c].version)
    BY DEF BeginCollectionCall, CollectionOps
<1>2. collections[c].version < MaxVersion /\ collections[c].version \in Versions /\ c \in Nat
    BY PlanningTypes DEF BeginCollectionCall, PlanningInv, CollectionRow
<1> QED
    BY <1>1, <1>2, CallMade DEF CallOps, CollectionOps, StructureDecisions, PlanDecisions

LEMMA BeginStructureCallKeeps ==
  ASSUME PlanningInv, NEW s \in DOMAIN structures, BeginStructureCall(s)
  PROVE  PlanningInv'
<1>1. PICK op \in StructureDecisions \cup {"submit_structure"} :
        Begin(op, s, 0) /\ (op \in StructureDecisions => structures[s].state # "draft")
    BY DEF BeginStructureCall, StructureDecisions
<1>2. s \in Nat /\ 0 \in Versions
    BY PlanningTypes, Bounds DEF PlanningInv, Versions
<1> QED
    BY <1>1, <1>2, CallMade DEF CallOps, CollectionOps, StructureDecisions, PlanDecisions

LEMMA BeginPlanCallKeeps ==
  ASSUME PlanningInv, NEW p \in DOMAIN plans, BeginPlanCall(p)
  PROVE  PlanningInv'
<1>1. PICK op \in PlanDecisions \cup {"update_plan", "submit_plan"} :
        Begin(op, p, plans[p].version) /\ (op \in PlanDecisions => plans[p].state # "draft")
    BY DEF BeginPlanCall, PlanDecisions
<1>2. /\ plans[p].version < MaxVersion /\ plans[p].version \in Versions /\ p \in Nat
      /\ plans[p].version <= MaxVersion
    BY PlanningTypes, Bounds DEF BeginPlanCall, PlanningInv, PlanRow, Versions
<1> QED
    BY <1>1, <1>2, CallMade DEF CallOps, CollectionOps, StructureDecisions, PlanDecisions

LEMMA FinishCollectionCallKeeps ==
  ASSUME PlanningInv, NEW call \in calls, FinishCollectionCall(call)
  PROVE  PlanningInv'
<1>t. TypeOK /\ TableInv /\ collections \in Seq(CollectionRow)
    BY DEF PlanningInv, TypeOK
<1>0. call \in CallRow
    BY <1>t DEF TypeOK
<1>1. call.op \in CollectionOps
    BY DEF FinishCollectionCall, CollectionOps
<1>2. PICK c \in DOMAIN collections : c = call.id /\ call.version < MaxVersion
    BY <1>1 DEF PlanningInv, PendingInv
<1>3. collections[c] \in CollectionRow
    BY <1>t, PlanningTypes
<1>4. call.version + 1 \in Versions /\ 0 \in Versions
    BY <1>0, <1>2, Bounds DEF CallRow, Versions
<1>5. PICK row \in CollectionRow : collections' = [collections EXCEPT ![c] = row]
    <2>0. [collections EXCEPT ![c] = collections[c]] = collections
        BY <1>t, SeqRows
    <2>1. CASE \E members, bound \in BOOLEAN :
                 collections' = UpdateCollection(c, call.version, members, bound)
        <3>1. PICK members \in BOOLEAN, bound \in BOOLEAN :
                 collections' = UpdateCollection(c, call.version, members, bound)
            BY <2>1
        <3>2. PICK now : now = IF members THEN call.version + 1 ELSE 0
            OBVIOUS
        <3>3. PICK next : next = [collections[c] EXCEPT !.version = call.version + 1, !.members = now, !.bound = bound]
            OBVIOUS
        <3>4. next \in CollectionRow
            BY <1>3, <1>4, <3>2, <3>3 DEF CollectionRow
        <3>5. collections' = [collections EXCEPT ![c] = next] \/ collections' = collections
            BY <3>1, <3>2, <3>3 DEF UpdateCollection
        <3> QED
            BY <1>3, <2>0, <3>4, <3>5
    <2>2. CASE collections' = SubmitCollection(c, call.version)
        <3>1. PICK next : next = [collections[c] EXCEPT !.state = "review", !.version = call.version + 1]
            OBVIOUS
        <3>2. next \in CollectionRow
            BY <1>3, <1>4, <3>1 DEF CollectionRow, ReviewStates
        <3>3. collections' = [collections EXCEPT ![c] = next] \/ collections' = collections
            BY <2>2, <3>1 DEF SubmitCollection
        <3> QED
            BY <1>3, <2>0, <3>2, <3>3
    <2>3. CASE \E verdict \in {"approved", "rejected"} : collections' = DecideCollection(c, verdict)
        <3>1. PICK verdict \in {"approved", "rejected"} : collections' = DecideCollection(c, verdict)
            BY <2>3
        <3>2. PICK next : next = [collections[c] EXCEPT !.state = verdict]
            OBVIOUS
        <3>3. next \in CollectionRow
            BY <1>3, <3>2 DEF CollectionRow, ReviewStates
        <3>4. collections' = [collections EXCEPT ![c] = next]
            BY <3>1, <3>2 DEF DecideCollection
        <3> QED
            BY <3>3, <3>4
    <2> QED
        BY <1>2, <2>1, <2>2, <2>3 DEF FinishCollectionCall
<1>6. collections' \in Seq(CollectionRow) /\ DOMAIN collections' = DOMAIN collections
    BY <1>5, <1>t, SeqWritten, Zenon
<1>7. Len(collections') <= MaxCollections
    BY <1>6, <1>t, PlanningTypes, LenProperties DEF TableInv
<1> QED
    BY <1>6, <1>7, CollectionsChanged DEF FinishCollectionCall

LEMMA CreateStructureRevisionKeeps ==
  ASSUME PlanningInv, NEW c \in DOMAIN collections, NEW pages \in SUBSET Slugs,
         CreateStructureRevision(c, pages)
  PROVE  PlanningInv'
<1>t. TypeOK /\ TableInv /\ PinnedInv
    BY DEF PlanningInv
<1>0. c \in 1..MaxCollections /\ 0 \in 0..MaxFacts
    BY <1>t, PlanningTypes, Bounds DEF TableInv
<1>1. [state |-> "draft", collection |-> c, pages |-> pages, fact |-> 0, made |-> {}] \in StructureRow
    BY <1>0 DEF StructureRow, ReviewStates
<1>2. PICK row \in StructureRow : row.state = "draft" /\ structures' = Append(structures, row)
    BY <1>1 DEF CreateStructureRevision
<1>3. /\ structures' \in Seq(StructureRow) /\ Len(structures') = Len(structures) + 1
      /\ DOMAIN structures' = DOMAIN structures \cup {Len(structures')} /\ structures'[Len(structures')] = row
      /\ \A s \in DOMAIN structures : structures'[s] = structures[s]
    BY <1>2, <1>t, SeqAppended DEF TypeOK
<1>4. Len(structures') <= MaxStructures
    BY <1>3, <1>t, PlanningTypes, Bounds DEF CreateStructureRevision
<1>5. UNCHANGED <<facts, current, keywords, geo, collections, plans, calls>>
    BY DEF CreateStructureRevision
<1>6. TypeOK' /\ TableInv'
    BY <1>3, <1>4, <1>5, <1>t DEF TypeOK, TableInv
<1>7. PinnedInv'
    BY <1>2, <1>3, <1>5, <1>t DEF PinnedInv, Confirmed
<1>8. RowsKept
    BY <1>3, <1>5 DEF RowsKept
<1> QED
    BY <1>5, <1>6, <1>7, <1>8, PendingStays DEF PlanningInv

LEMMA UpdateStructureRevisionKeeps ==
  ASSUME PlanningInv, NEW s \in DOMAIN structures, NEW c \in DOMAIN collections,
         NEW pages \in SUBSET Slugs, UpdateStructureRevision(s, c, pages)
  PROVE  PlanningInv'
<1>1. structures[s] \in StructureRow /\ c \in 1..MaxCollections
    BY PlanningTypes, Bounds DEF PlanningInv, TableInv
<1>2. PICK row : row = [structures[s] EXCEPT !.collection = c, !.pages = pages]
    OBVIOUS
<1>3. row \in StructureRow /\ row.state = "draft"
    BY <1>1, <1>2 DEF StructureRow, UpdateStructureRevision
<1>4. structures' = [structures EXCEPT ![s] = row]
    BY <1>2 DEF UpdateStructureRevision
<1> QED
    BY <1>3, <1>4, StructureWritten DEF UpdateStructureRevision

\* The plans of a structure's pages are new drafts.
LEMMA MaterializedPlans ==
  ASSUME PlanningInv, NEW s \in DOMAIN structures, Materialize(s)
  PROVE  /\ Materialized(s) \in Seq(PlanRow) /\ Len(plans) + Len(Materialized(s)) <= MaxPlans
         /\ \A i \in DOMAIN Materialized(s) : Materialized(s)[i].state = "draft"
<1> DEFINE S == structures[s].pages
           n == Cardinality(S)
           new == [i \in DOMAIN SetToSeq(S) |-> NewPlan(SetToSeq(S)[i], NextVersion(SetToSeq(S)[i]), NoTarget, s)]
<1>1. S \subseteq Slugs /\ s \in 0..MaxStructures
    BY PlanningTypes, Bounds DEF PlanningInv, StructureRow, TableInv
<1>2. SetToSeq(S) \in [1..n -> S] /\ n \in Nat
    BY <1>1, Bounds, FS_Subset, Listed
<1>3. NoTarget \in Targets
    BY Bounds DEF NoTarget, Targets, Versions
<1>4. ASSUME NEW i \in 1..n
      PROVE  NewPlan(SetToSeq(S)[i], NextVersion(SetToSeq(S)[i]), NoTarget, s) \in PlanRow /\
             NewPlan(SetToSeq(S)[i], NextVersion(SetToSeq(S)[i]), NoTarget, s).state = "draft"
    <2>1. PICK slug \in S : slug = SetToSeq(S)[i]
        BY <1>2
    <2>2. NextVersion(slug) \in Versions
        BY <1>1, <2>1, NextVersionType DEF Materialize
    <2>3. NewPlan(slug, NextVersion(slug), NoTarget, s) \in PlanRow /\ NewPlan(slug, NextVersion(slug), NoTarget, s).state = "draft"
        BY <1>1, <1>3, <2>2, NewPlanRow
    <2> QED
        BY <2>1, <2>3
<1>5. DOMAIN SetToSeq(S) = 1..n
    BY <1>2
<1>6. new \in [1..n -> PlanRow] /\ \A i \in 1..n : new[i].state = "draft"
    BY <1>4, <1>5, Zenon
<1>7. Materialized(s) = new
    BY DEF Materialized
<1> HIDE DEF new
<1>8. new \in Seq(PlanRow) /\ Len(new) = n /\ DOMAIN new = 1..n
    BY <1>2, <1>6, LenProperties
<1> QED
    BY <1>6, <1>7, <1>8 DEF Materialize

LEMMA FinishStructureCallKeeps ==
  ASSUME PlanningInv, NEW call \in calls, FinishStructureCall(call)
  PROVE  PlanningInv'
<1>t. TypeOK /\ TableInv /\ PinnedInv /\ structures \in Seq(StructureRow)
    BY DEF PlanningInv, TypeOK
<1>1. call.op \in StructureDecisions \cup {"submit_structure"}
    BY DEF FinishStructureCall, StructureDecisions
<1>2. PICK s \in DOMAIN structures : s = call.id /\ (call.op \in StructureDecisions => structures[s].state # "draft")
    BY <1>1 DEF PlanningInv, PendingInv
<1>3. structures[s] \in StructureRow
    BY <1>t, PlanningTypes
<1>4. calls' \subseteq calls /\ UNCHANGED <<facts, current, keywords, geo, collections>>
    BY DEF FinishStructureCall
<1>a. CASE structures' = SubmitStructure(s) /\ UNCHANGED plans
    <2>1. CASE ConfirmedFacts /\ structures' = [structures EXCEPT ![s].fact = current, ![s].state = "review"]
        <3>1. PICK row : row = [structures[s] EXCEPT !.fact = current, !.state = "review"]
            OBVIOUS
        <3>2. Confirmed(current) /\ current \in 0..MaxFacts
            BY <2>1, ConfirmedCurrent
        <3>3. row \in StructureRow /\ row.state = "review" /\ row.fact = current
            BY <1>3, <3>1, <3>2 DEF StructureRow, ReviewStates
        <3>4. structures' = [structures EXCEPT ![s] = row]
            BY <2>1, <3>1
        <3> QED
            BY <1>4, <1>a, <3>2, <3>3, <3>4, StructureWritten
    <2>2. CASE structures' = structures
        BY <1>4, <1>a, <2>2, NothingWritten
    <2> QED
        BY <1>a, <2>1, <2>2 DEF SubmitStructure
<1>b. CASE /\ call.op \in {"approve_structure", "reject_structure"} /\ UNCHANGED plans
           /\ \E verdict \in {"approved", "rejected"} : structures' = DecideStructure(s, verdict)
    <2>1. PICK verdict \in {"approved", "rejected"} : structures' = DecideStructure(s, verdict)
        BY <1>b
    <2>2. PICK row : row = [structures[s] EXCEPT !.state = verdict]
        OBVIOUS
    <2>3. row \in StructureRow /\ row.state # "draft" /\ row.fact = structures[s].fact
        BY <1>3, <2>2 DEF StructureRow, ReviewStates
    <2>4. structures' = [structures EXCEPT ![s] = row]
        BY <2>1, <2>2 DEF DecideStructure
    <2>5. Confirmed(row.fact)
        BY <1>2, <1>b, <1>t, <2>3 DEF PinnedInv, StructureDecisions
    <2> QED
        BY <1>4, <1>b, <2>3, <2>4, <2>5, StructureWritten
<1>c. CASE /\ Materialize(s) /\ plans' = plans \o Materialized(s)
           /\ structures' = [structures EXCEPT ![s].made = DOMAIN plans' \ DOMAIN plans]
    <2>1. /\ Materialized(s) \in Seq(PlanRow) /\ Len(plans) + Len(Materialized(s)) <= MaxPlans
          /\ \A i \in DOMAIN Materialized(s) : Materialized(s)[i].state = "draft"
        BY <1>c, MaterializedPlans
    <2>2. PICK new \in Seq(PlanRow) : new = Materialized(s)
        BY <2>1
    <2>3. /\ Len(plans) + Len(new) <= MaxPlans /\ plans' = plans \o new
          /\ \A i \in DOMAIN new : new[i].state = "draft"
        BY <1>c, <2>1, <2>2
    <2>4. DOMAIN plans' \subseteq 1..MaxPlans
        <3>1. plans' \in Seq(PlanRow) /\ Len(plans') = Len(plans) + Len(new)
            BY <1>t, <2>3, ConcatProperties DEF TypeOK
        <3> QED
            BY <2>3, <3>1, Bounds, LenProperties
    <2>5. PICK added \in SUBSET (1..MaxPlans) : added = DOMAIN plans' \ DOMAIN plans
        BY <2>4
    <2>6. PICK row : row = [structures[s] EXCEPT !.made = added]
        OBVIOUS
    <2>7. row \in StructureRow /\ row.state = structures[s].state /\ row.fact = structures[s].fact
        BY <1>3, <2>6 DEF StructureRow
    <2>8. structures' = [structures EXCEPT ![s] = row]
        BY <1>c, <2>5, <2>6
    <2>9. /\ structures' \in Seq(StructureRow) /\ DOMAIN structures' = DOMAIN structures
          /\ \A q \in DOMAIN structures : structures'[q] = IF q = s THEN row ELSE structures[q]
        BY <2>7, <2>8, <1>t, SeqWritten, Zenon
    <2>10. Len(structures') = Len(structures)
        BY <2>9, <1>t, PlanningTypes, LenProperties
    <2>11. \A q \in DOMAIN structures : structures'[q].state = structures[q].state /\ structures'[q].fact = structures[q].fact
        BY <2>7, <2>9
    <2> QED
        BY <1>4, <2>3, <2>9, <2>10, <2>11, PlansAdded
<1>d. CASE UNCHANGED <<structures, plans>>
    BY <1>4, <1>d, NothingWritten
<1> QED
    BY <1>2, <1>a, <1>b, <1>c, <1>d DEF FinishStructureCall

LEMMA PlanAdded ==
  ASSUME PlanningInv, NEW row \in PlanRow, row.state = "draft", Len(plans) < MaxPlans,
         plans' = Append(plans, row),
         UNCHANGED <<facts, current, keywords, geo, collections, structures, calls>>
  PROVE  PlanningInv'
<1>1. plans \in Seq(PlanRow) /\ structures \in Seq(StructureRow)
    BY DEF PlanningInv, TypeOK
<1>2. plans' = plans \o <<row>> /\ <<row>> \in Seq(PlanRow) /\ Len(<<row>>) = 1
    BY <1>1, AppendIsConcat
<1>3. \A i \in DOMAIN <<row>> : <<row>>[i].state = "draft"
    OBVIOUS
<1>4. Len(plans) + 1 <= MaxPlans
    BY PlanningTypes, Bounds DEF PlanningInv
<1> QED
    BY <1>1, <1>2, <1>3, <1>4, PlansAdded

LEMMA CreatePagePlanKeeps ==
  ASSUME PlanningInv, NEW slug \in Slugs, NEW wants \in OfferedTargets, CreatePagePlan(slug, wants)
  PROVE  PlanningInv'
<1>1. /\ NextVersion(slug) \in Versions /\ ApprovedStructure \in 0..MaxStructures /\ wants \in Targets
    BY NextVersionType, ApprovedStructureType, OfferedTargetsTyped DEF CreatePagePlan
<1>2. PICK row \in PlanRow : row = NewPlan(slug, NextVersion(slug), wants, ApprovedStructure) /\ row.state = "draft"
    BY <1>1, NewPlanRow
<1> QED
    BY <1>2, PlanAdded DEF CreatePagePlan

LEMMA CreateCommercialPagePlansKeeps ==
  ASSUME PlanningInv, CreateCommercialPagePlans
  PROVE  PlanningInv'
<1>1. /\ 1 \in Versions /\ ApprovedStructure \in 0..MaxStructures /\ NoTarget \in Targets
      /\ CommercialSlug \in Slugs
    BY Bounds, ApprovedStructureType DEF CreateCommercialPagePlans, Versions, NoTarget, Targets
<1>2. PICK row \in PlanRow : row = NewPlan(CommercialSlug, 1, NoTarget, ApprovedStructure) /\ row.state = "draft"
    BY <1>1, NewPlanRow
<1> QED
    BY <1>2, PlanAdded DEF CreateCommercialPagePlans

LEMMA FinishPlanCallKeeps ==
  ASSUME PlanningInv, NEW call \in calls, FinishPlanCall(call)
  PROVE  PlanningInv'
<1>t. TypeOK /\ TableInv /\ PinnedInv /\ plans \in Seq(PlanRow)
    BY DEF PlanningInv, TypeOK
<1>0. call \in CallRow
    BY <1>t DEF TypeOK
<1>1. call.op \in PlanDecisions \cup {"update_plan", "submit_plan"}
    BY DEF FinishPlanCall, PlanDecisions
<1>2. PICK p \in DOMAIN plans : /\ p = call.id /\ call.version < MaxVersion /\ plans[p].version <= MaxVersion
                                /\ call.op \in PlanDecisions => plans[p].state # "draft"
    BY <1>1 DEF PlanningInv, PendingInv
<1>3. plans[p] \in PlanRow
    BY <1>t, PlanningTypes
<1>4. call.version + 1 \in Versions /\ call.version + 1 <= MaxVersion
    BY <1>0, <1>2, Bounds DEF CallRow, Versions
<1>5. calls' \subseteq calls /\ UNCHANGED <<facts, current, keywords, geo, collections, structures>>
    BY DEF FinishPlanCall
<1>a. CASE \E wants \in OfferedTargets : plans' = UpdatePlan(p, call.version, wants)
    <2>1. PICK wants \in Targets : plans' = UpdatePlan(p, call.version, wants)
        BY <1>a, OfferedTargetsTyped
    <2>2. PICK row : row = [plans[p] EXCEPT !.version = call.version + 1, !.wants = wants]
        OBVIOUS
    <2>3. /\ row \in PlanRow /\ row.version = call.version + 1 /\ row.state = plans[p].state
          /\ row.fact = plans[p].fact
        BY <1>3, <1>4, <2>2 DEF PlanRow
    <2>4. row.state # "draft" => Confirmed(row.fact)
        BY <1>t, <2>3 DEF PinnedInv
    <2>5. CASE plans' = [plans EXCEPT ![p] = row]
        BY <1>4, <1>5, <2>3, <2>4, <2>5, PlanWritten
    <2>6. CASE plans' = plans
        BY <1>5, <2>6, NothingWritten
    <2> QED
        BY <2>1, <2>2, <2>5, <2>6 DEF UpdatePlan
<1>b. CASE plans' = SubmitPlan(p, call.version)
    <2>1. CASE ConfirmedFacts /\ plans' = [plans EXCEPT ![p].fact = current, ![p].target = plans[p].wants,
                                                        ![p].state = "review", ![p].version = call.version + 1]
        <3>1. PICK row : row = [plans[p] EXCEPT !.fact = current, !.target = plans[p].wants,
                                                !.state = "review", !.version = call.version + 1]
            OBVIOUS
        <3>2. Confirmed(current) /\ current \in 0..MaxFacts
            BY <2>1, ConfirmedCurrent
        <3>3. row \in PlanRow /\ row.state = "review" /\ row.fact = current /\ row.version = call.version + 1
            BY <1>3, <1>4, <3>1, <3>2 DEF PlanRow, ReviewStates
        <3>4. plans' = [plans EXCEPT ![p] = row]
            BY <2>1, <3>1
        <3> QED
            BY <1>4, <1>5, <3>2, <3>3, <3>4, PlanWritten
    <2>2. CASE plans' = plans
        BY <1>5, <2>2, NothingWritten
    <2> QED
        BY <1>b, <2>1, <2>2 DEF SubmitPlan
<1>c. CASE call.op \in PlanDecisions /\ \E verdict \in {"approved", "rejected"} : plans' = DecidePlan(p, verdict)
    <2>1. PICK verdict \in {"approved", "rejected"} : plans' = DecidePlan(p, verdict)
        BY <1>c
    <2>2. PICK row : row = [plans[p] EXCEPT !.state = verdict]
        OBVIOUS
    <2>3. /\ row \in PlanRow /\ row.state # "draft" /\ row.fact = plans[p].fact
          /\ row.version = plans[p].version
        BY <1>3, <2>2 DEF PlanRow, ReviewStates
    <2>4. plans' = [plans EXCEPT ![p] = row]
        BY <2>1, <2>2 DEF DecidePlan
    <2>5. Confirmed(row.fact) /\ row.version <= MaxVersion
        BY <1>2, <1>c, <1>t, <2>3 DEF PinnedInv
    <2> QED
        BY <1>5, <2>3, <2>4, <2>5, PlanWritten
<1> QED
    BY <1>2, <1>a, <1>b, <1>c DEF FinishPlanCall, PlanDecisions

LEMMA PlanningInitInv ==
  ASSUME Init
  PROVE  PlanningInv
<1>1. /\ facts = <<>> /\ collections = <<>> /\ structures = <<>> /\ plans = <<>> /\ calls = {} /\ current = 0
      /\ keywords = FALSE /\ geo = {}
    BY DEF Init
<1>2. TypeOK
    <2>1. keywords \in BOOLEAN /\ geo \subseteq {"primary", "reference"} /\ calls \subseteq CallRow
        BY <1>1
    <2>2. /\ facts \in Seq(FactRow) /\ collections \in Seq(CollectionRow)
          /\ structures \in Seq(StructureRow) /\ plans \in Seq(PlanRow)
        BY <1>1
    <2>3. current \in 0..Len(facts)
        BY <1>1
    <2> QED
        BY <2>1, <2>2, <2>3 DEF TypeOK
<1>3. TableInv /\ PinnedInv /\ PendingInv
    BY <1>1, Bounds DEF TableInv, PinnedInv, PendingInv
<1> QED
    BY <1>2, <1>3 DEF PlanningInv

LEMMA PlanningStepInv ==
  ASSUME PlanningInv, [Next]_vars
  PROVE  PlanningInv'
<1>1. CASE UNCHANGED vars
    <2>1. calls' \subseteq calls /\ UNCHANGED <<facts, current, keywords, geo, collections, structures, plans>>
        BY <1>1 DEF vars
    <2> QED
        BY <2>1, NothingWritten
<1>2. CASE CreateFactRevision \/ \E f \in DOMAIN facts : RestoreFactRevision(f)
    BY <1>2, CreateFactRevisionKeeps
<1>3. CASE \E f \in DOMAIN facts : ConfirmFactRevision(f)
    BY <1>3, ConfirmFactRevisionKeeps
<1>4. CASE \/ \E any \in BOOLEAN : ReplaceProjectKeywords(any)
           \/ \E roles \in SUBSET {"primary", "reference"} : ReplaceProjectGeo(roles)
    BY <1>4, SelectionKeeps
<1>5. CASE \E members, bound \in BOOLEAN : CreateCollection(members, bound)
    BY <1>5, CreateCollectionKeeps
<1>6. CASE \E c \in DOMAIN collections : BeginCollectionCall(c)
    BY <1>6, BeginCollectionCallKeeps
<1>7. CASE \E c \in DOMAIN collections, pages \in (SUBSET Slugs) \ {{}} : CreateStructureRevision(c, pages)
    BY <1>7, CreateStructureRevisionKeeps
<1>8. CASE \E c \in DOMAIN collections, pages \in (SUBSET Slugs) \ {{}} :
             \E s \in DOMAIN structures : UpdateStructureRevision(s, c, pages)
    BY <1>8, UpdateStructureRevisionKeeps
<1>9. CASE \E s \in DOMAIN structures : BeginStructureCall(s)
    BY <1>9, BeginStructureCallKeeps
<1>10. CASE \E slug \in Slugs, wants \in OfferedTargets : CreatePagePlan(slug, wants)
    BY <1>10, CreatePagePlanKeeps
<1>11. CASE CreateCommercialPagePlans
    BY <1>11, CreateCommercialPagePlansKeeps
<1>12. CASE \E p \in DOMAIN plans : BeginPlanCall(p)
    BY <1>12, BeginPlanCallKeeps
<1>13. CASE \E call \in calls : FinishCollectionCall(call)
    BY <1>13, FinishCollectionCallKeeps
<1>14. CASE \E call \in calls : FinishStructureCall(call)
    BY <1>14, FinishStructureCallKeeps
<1>15. CASE \E call \in calls : FinishPlanCall(call)
    BY <1>15, FinishPlanCallKeeps
<1> QED
    BY <1>1, <1>2, <1>3, <1>4, <1>5, <1>6, <1>7, <1>8, <1>9, <1>10, <1>11, <1>12, <1>13, <1>14, <1>15 DEF Next

LEMMA PlanningInvariant == Spec => []PlanningInv
BY PlanningInitInv, PlanningStepInv, PTL DEF Spec

-----------------------------------------------------------------------------
(* Theorems about Planning.                                                 *)

\* Rows keep the columns of their tables and the project points at a fact
\* revision that exists.
THEOREM PlanningTypeCorrect == Spec => []TypeOK
<1>1. PlanningInv => TypeOK
    BY DEF PlanningInv
<1> QED
    BY <1>1, PlanningInvariant, PTL

\* Plans and structures that left the draft state rest on confirmed facts,
\* however the submissions and decisions overlap (submit_page_plan_review,
\* submit_site_structure, the approve and reject handlers).
THEOREM DecisionsRestOnFacts == Spec => []PinnedFactsConfirmed
<1>1. PlanningInv => PinnedFactsConfirmed
    BY DEF PlanningInv, PinnedInv, Confirmed, PinnedFactsConfirmed
<1> QED
    BY <1>1, PlanningInvariant, PTL

-----------------------------------------------------------------------------
(***************************************************************************)
(* IndexSchedule. A release promotes what the frozen schedule says, so the *)
(* invariant follows a batch from the schedule to the build and to the     *)
(* index.                                                                  *)
(***************************************************************************)

-----------------------------------------------------------------------------
(* The inductive invariant.                                                *)

PassedIndex(index) == \A s \in Addresses : index[s] # NoPage => [slug |-> s, hash |-> index[s]] \in everPassed

\* Whatever may be indexed passed QA once: what passes now, what is promoted,
\* what is frozen into a build and what the rows show.
PassInv ==
  /\ qaPass \subseteq everPassed /\ promotions \subseteq everPassed
  /\ PassedIndex(rows) /\ \A b \in DOMAIN builds : PassedIndex(builds[b].index)

\* Items become stale only as their schedule is paused, for good; a prepared
\* item has its build.
ItemInv ==
  \A k \in DOMAIN schedules : \A i \in schedules[k].items :
    /\ schedules[k].state \in {"draft", "review", "active"} => i.state # "stale"
    /\ i.state = "prepared" => i.build \in DOMAIN builds

IndexInv == IndexTypeOK /\ PassInv /\ ItemInv /\ BatchesInOrder

-----------------------------------------------------------------------------
(* Facts the steps share.                                                   *)

LEMMA IndexTypes ==
  ASSUME IndexTypeOK
  PROVE  /\ DOMAIN schedules = 1..Len(schedules) /\ Len(schedules) \in Nat
         /\ \A k \in DOMAIN schedules : schedules[k] \in ScheduleRow
         /\ DOMAIN builds = 1..Len(builds) /\ Len(builds) \in Nat
         /\ \A b \in DOMAIN builds : builds[b] \in BuildRow
<1>1. builds \in Seq(BuildRow) /\ schedules \in Seq(ScheduleRow)
    BY DEF IndexTypeOK
<1> QED
    BY <1>1, SeqRows

\* The sweep's schedule, and the batch it opens next.
LEMMA HeadExists ==
  ASSUME IndexTypeOK, \E k \in DOMAIN schedules : schedules[k].state = "active"
  PROVE  HeadSchedule \in DOMAIN schedules /\ schedules[HeadSchedule].state = "active"
<1> DEFINE A == {k \in DOMAIN schedules : schedules[k].state = "active"}
<1>1. DOMAIN schedules = 1..Len(schedules) /\ Len(schedules) \in Nat
    BY SeqRows DEF IndexTypeOK
<1>2. A \in SUBSET Nat /\ A # {}
    BY <1>1
<1>3. PICK k \in A : \A j \in A : k <= j
    BY <1>2, LeastElement
<1>4. /\ k \in DOMAIN schedules /\ schedules[k].state = "active"
      /\ \A j \in DOMAIN schedules : schedules[j].state = "active" => k <= j
    BY <1>3
<1> QED
    BY <1>4, Zenon DEF HeadSchedule

LEMMA NextBatchIsLeast ==
  ASSUME IndexTypeOK, NEW k \in DOMAIN schedules, Planned(k) # {}
  PROVE  NextBatch(k) \in Nat /\ \A i \in Planned(k) : NextBatch(k) <= i.batch
<1> DEFINE B == {i.batch : i \in Planned(k)}
<1>1. schedules[k].items \subseteq ItemRow
    BY IndexTypes DEF ScheduleRow
<1>2. B \in SUBSET Nat /\ B # {}
    BY <1>1 DEF Planned, ItemRow
<1>3. PICK n \in B : \A m \in B : n <= m
    BY <1>2, LeastElement
<1>4. n \in B /\ \A i \in Planned(k) : n <= i.batch
    BY <1>3
<1>5. NextBatch(k) \in B /\ \A i \in Planned(k) : NextBatch(k) <= i.batch
    BY <1>4, Zenon DEF NextBatch
<1> QED
    BY <1>2, <1>5

\* Freezing a candidate takes states that passed QA.
LEMMA FrozenPassed ==
  ASSUME IndexTypeOK, NEW promoted \in SUBSET Pages, promoted \subseteq everPassed, PassedIndex(rows)
  PROVE  /\ Frozen(promoted) \in BuildRow /\ Frozen(promoted).status = "queued"
         /\ PassedIndex(Frozen(promoted).index)
<1>1. IndexStates(promoted) \in Projection
    BY DEF IndexStates, Projection, IndexTypeOK
<1>2. PassedIndex(IndexStates(promoted))
    BY DEF PassedIndex, IndexStates, IndexTypeOK, Projection
<1> QED
    BY <1>1, <1>2 DEF Frozen, BuildRow

\* No step but a publication touches what was published, and none takes it back.
BuildsKept ==
  \A b \in DOMAIN builds : b \in DOMAIN builds' /\ builds'[b].index = builds[b].index
                           /\ (Published(b) => builds'[b].status = "published")

\* Schedules that are left alone keep their order.
LEMMA SchedulesKept ==
  ASSUME IndexInv, BuildsKept, schedules' = schedules
  PROVE  ItemInv' /\ BatchesInOrder'
<1>1. ItemInv'
    BY DEF IndexInv, ItemInv, BuildsKept
<1>2. ASSUME NEW k \in DOMAIN schedules, NEW i \in schedules[k].items, NEW j \in schedules[k].items,
             i.state = "prepared", j.batch < i.batch
      PROVE  j.state = "prepared" /\ builds'[j.build].status = "published"
    <2>1. j.state = "prepared" /\ Published(j.build)
        BY <1>2 DEF IndexInv, BatchesInOrder
    <2>2. j.build \in DOMAIN builds
        BY <2>1 DEF IndexInv, ItemInv
    <2> QED
        BY <2>1, <2>2 DEF BuildsKept
<1>3. BatchesInOrder'
    BY <1>2 DEF BatchesInOrder, Published
<1> QED
    BY <1>1, <1>3

\* One schedule gets other items, or another state.
LEMMA ScheduleWritten ==
  ASSUME IndexInv, BuildsKept, NEW k \in DOMAIN schedules, NEW row \in ScheduleRow,
         schedules' = [schedules EXCEPT ![k] = row],
         \A i \in row.items : /\ row.state \in {"draft", "review", "active"} => i.state # "stale"
                              /\ i.state = "prepared" => i.build \in DOMAIN builds',
         \A i, j \in row.items : i.state = "prepared" /\ j.batch < i.batch =>
                                   j.state = "prepared" /\ builds'[j.build].status = "published"
  PROVE  schedules' \in Seq(ScheduleRow) /\ ItemInv' /\ BatchesInOrder'
<1>1. /\ schedules' \in Seq(ScheduleRow) /\ DOMAIN schedules' = DOMAIN schedules
      /\ \A m \in DOMAIN schedules : schedules'[m] = IF m = k THEN row ELSE schedules[m]
    BY SeqWritten DEF IndexInv, IndexTypeOK
<1>2. ItemInv'
    <2>1. ASSUME NEW m \in DOMAIN schedules', NEW i \in schedules'[m].items
          PROVE  /\ schedules'[m].state \in {"draft", "review", "active"} => i.state # "stale"
                 /\ i.state = "prepared" => i.build \in DOMAIN builds'
        <3>1. CASE m = k
            BY <1>1, <2>1, <3>1
        <3>2. CASE m # k
            BY <1>1, <2>1, <3>2 DEF IndexInv, ItemInv, BuildsKept
        <3> QED
            BY <3>1, <3>2
    <2> QED
        BY <2>1 DEF ItemInv
<1>3. BatchesInOrder'
    <2>1. ASSUME NEW m \in DOMAIN schedules', NEW i \in schedules'[m].items, NEW j \in schedules'[m].items,
                 i.state = "prepared", j.batch < i.batch
          PROVE  j.state = "prepared" /\ builds'[j.build].status = "published"
        <3>1. CASE m = k
            BY <1>1, <2>1, <3>1
        <3>2. CASE m # k
            <4>1. m \in DOMAIN schedules /\ i \in schedules[m].items /\ j \in schedules[m].items
                BY <1>1, <2>1, <3>2
            <4>2. j.state = "prepared" /\ Published(j.build)
                BY <4>1, <2>1 DEF IndexInv, BatchesInOrder
            <4>3. j.build \in DOMAIN builds
                BY <4>1, <4>2 DEF IndexInv, ItemInv
            <4> QED
                BY <4>2, <4>3 DEF BuildsKept
        <3> QED
            BY <3>1, <3>2
    <2> QED
        BY <2>1 DEF BatchesInOrder, Published
<1> QED
    BY <1>1, <1>2, <1>3

LEMMA BuildAppended ==
  ASSUME IndexInv, NEW promoted \in SUBSET Pages, promoted \subseteq everPassed,
         builds' = Append(builds, Frozen(promoted)), UNCHANGED <<everPassed, rows>>
  PROVE  /\ builds' \in Seq(BuildRow) /\ BuildsKept /\ Len(builds') \in DOMAIN builds'
         /\ (\A b \in DOMAIN builds : PassedIndex(builds[b].index))'
<1>1. Frozen(promoted) \in BuildRow /\ PassedIndex(Frozen(promoted).index)
    BY FrozenPassed DEF IndexInv, PassInv
<1> DEFINE new == Frozen(promoted)
<1> HIDE DEF new
<1>2. /\ builds' \in Seq(BuildRow) /\ DOMAIN builds' = DOMAIN builds \cup {Len(builds')}
      /\ builds'[Len(builds')] = new /\ \A b \in DOMAIN builds : builds'[b] = builds[b]
    BY <1>1, SeqAppended DEF new, IndexInv, IndexTypeOK
<1>3. BuildsKept
    BY <1>2 DEF BuildsKept, Published
<1>4. \A b \in DOMAIN builds' : PassedIndex(builds'[b].index)
    BY <1>1, <1>2 DEF new, IndexInv, PassInv
<1>5. (\A b \in DOMAIN builds : PassedIndex(builds[b].index))'
    BY <1>4 DEF PassedIndex
<1> QED
    BY <1>2, <1>3, <1>5

\* A build that moves keeps what was frozen into it.
LEMMA BuildWritten ==
  ASSUME IndexInv, NEW b \in DOMAIN builds, NEW status \in {"candidate", "failed", "published"},
         builds' = [builds EXCEPT ![b].status = status],
         Published(b) => status = "published", UNCHANGED everPassed
  PROVE  builds' \in Seq(BuildRow) /\ BuildsKept /\ (\A c \in DOMAIN builds : PassedIndex(builds[c].index))'
<1> DEFINE row == [builds[b] EXCEPT !.status = status]
<1>1. builds[b] \in BuildRow /\ builds \in Seq(BuildRow)
    BY IndexTypes DEF IndexInv, IndexTypeOK
<1>2. row \in BuildRow /\ row.status = status /\ row.index = builds[b].index
    BY <1>1 DEF BuildRow
<1>3. builds' = [builds EXCEPT ![b] = row]
    OBVIOUS
<1> HIDE DEF row
<1>4. /\ builds' \in Seq(BuildRow) /\ DOMAIN builds' = DOMAIN builds
      /\ \A c \in DOMAIN builds : builds'[c] = IF c = b THEN row ELSE builds[c]
    BY <1>1, <1>2, <1>3, SeqWritten
<1>5. BuildsKept
    BY <1>2, <1>4 DEF BuildsKept, Published
<1>6. \A c \in DOMAIN builds' : PassedIndex(builds'[c].index)
    BY <1>2, <1>4 DEF IndexInv, PassInv
<1> QED
    BY <1>4, <1>5, <1>6 DEF PassedIndex

-----------------------------------------------------------------------------
(* The steps.                                                               *)

LEMMA IndexInitInv == IndexInit => IndexInv
<1> SUFFICES ASSUME IndexInit PROVE IndexInv
    OBVIOUS
<1>1. builds \in Seq(BuildRow) /\ schedules \in Seq(ScheduleRow) /\ DOMAIN builds = {} /\ DOMAIN schedules = {}
    BY EmptySeq, LenProperties DEF IndexInit
<1>2. IndexTypeOK
    BY <1>1 DEF IndexInit, IndexTypeOK, Projection
<1> QED
    BY <1>1, <1>2 DEF IndexInit, IndexInv, PassInv, PassedIndex, ItemInv, BatchesInOrder

LEMMA ContentKeeps ==
  ASSUME IndexInv, NEW page \in Pages, NEW passed \in BOOLEAN,
         ApplyContent(page, passed) \/ LateQa(page) \/ CreateIndexPromotion(page)
  PROVE  IndexInv'
<1>0. page.slug \in Addresses /\ page.hash \in Content
    BY IndexAssumption
<1>1. UNCHANGED <<builds, rows, schedules>> /\ everPassed \subseteq everPassed'
      /\ qaPass' \subseteq everPassed' /\ promotions' \subseteq everPassed'
      /\ everPassed' \subseteq Pages /\ promotions' \subseteq Pages
    BY DEF ApplyContent, LateQa, CreateIndexPromotion, Eligible, IndexInv, PassInv, IndexTypeOK
<1>2. manifest' \in Projection
    BY <1>0 DEF ApplyContent, LateQa, CreateIndexPromotion, IndexInv, IndexTypeOK, Projection
<1>3. IndexTypeOK'
    BY <1>1, <1>2 DEF IndexInv, IndexTypeOK
<1>4. PassInv'
    BY <1>1 DEF IndexInv, PassInv, PassedIndex
<1>5. ItemInv' /\ BatchesInOrder'
    BY <1>1, SchedulesKept DEF BuildsKept, Published
<1> QED
    BY <1>3, <1>4, <1>5 DEF IndexInv

LEMMA QueueKeeps == ASSUME IndexInv, QueueBuild PROVE IndexInv'
<1>1. builds' = Append(builds, Frozen(promotions))
      /\ UNCHANGED <<manifest, qaPass, everPassed, promotions, rows, schedules>>
    BY DEF QueueBuild
<1>2. promotions \in SUBSET Pages /\ promotions \subseteq everPassed
    BY DEF IndexInv, IndexTypeOK, PassInv
<1>3. builds' \in Seq(BuildRow) /\ BuildsKept /\ (\A b \in DOMAIN builds : PassedIndex(builds[b].index))'
    BY <1>1, <1>2, BuildAppended
<1>4. IndexTypeOK'
    BY <1>1, <1>3 DEF IndexInv, IndexTypeOK
<1>5. PassInv'
    BY <1>1, <1>3 DEF IndexInv, PassInv, PassedIndex
<1> QED
    BY <1>1, <1>3, <1>4, <1>5, SchedulesKept DEF IndexInv

LEMMA BuildsMove ==
  ASSUME IndexInv, NEW b \in DOMAIN builds, NEW status \in {"candidate", "failed"},
         BuildEnds(b, status) \/ Publish(b)
  PROVE  IndexInv'
<1>0. builds[b] \in BuildRow /\ builds[b].index \in Projection /\ PassedIndex(builds[b].index)
    BY IndexTypes DEF IndexInv, BuildRow, PassInv
<1>1. PICK end \in {"candidate", "failed", "published"} :
        /\ builds' = [builds EXCEPT ![b].status = end]
        /\ Published(b) => end = "published"
        /\ UNCHANGED <<manifest, qaPass, everPassed, promotions, schedules>>
        /\ rows' = rows \/ rows' = builds[b].index
    BY DEF BuildEnds, Publish, Published
<1>2. builds' \in Seq(BuildRow) /\ BuildsKept /\ (\A c \in DOMAIN builds : PassedIndex(builds[c].index))'
    BY <1>1, BuildWritten
<1>3. IndexTypeOK'
    BY <1>0, <1>1, <1>2 DEF IndexInv, IndexTypeOK
<1>4. PassInv'
    BY <1>0, <1>1, <1>2 DEF IndexInv, PassInv, PassedIndex
<1> QED
    BY <1>1, <1>2, <1>3, <1>4, SchedulesKept DEF IndexInv

\* A new schedule: its pages pass, and none of its batches is open.
LEMMA CreateScheduleKeeps ==
  ASSUME IndexInv, NEW order \in Orders, NEW size \in 1..2, CreateIndexSchedule(order, size)
  PROVE  IndexInv'
<1> DEFINE new == [state |-> "draft", items |-> Items(order, size)]
<1>1. PICK n \in 1..Cardinality(Addresses) : order \in [1..n -> Addresses]
    BY DEF Orders
<1>2. n \in Nat /\ DOMAIN order = 1..n
    BY <1>1, IndexAssumption, FS_CardinalityType
<1>3. ASSUME NEW i \in DOMAIN order
      PROVE  [slug |-> order[i], hash |-> manifest[order[i]], batch |-> ((i - 1) \div size) + 1,
              state |-> "planned", build |-> 0] \in ItemRow
    <2>1. order[i] \in Addresses /\ i \in Nat \ {0}
        BY <1>1, <1>2
    <2>2. [slug |-> order[i], hash |-> manifest[order[i]]] \in Pages
        BY DEF CreateIndexSchedule, Eligible, IndexInv, IndexTypeOK
    <2>3. manifest[order[i]] \in Content
        BY <2>2, IndexAssumption
    <2>4. ((i - 1) \div size) + 1 \in Nat \ {0}
        BY <2>1
    <2> QED
        BY <2>1, <2>3, <2>4 DEF ItemRow
<1>4. \A i \in new.items : i \in ItemRow /\ i.state = "planned"
    BY <1>3 DEF Items
<1>5. new \in ScheduleRow
    BY <1>4 DEF ScheduleRow
<1> HIDE DEF new
<1>6. schedules' = Append(schedules, new) /\ UNCHANGED <<manifest, qaPass, everPassed, promotions, builds, rows>>
    BY DEF CreateIndexSchedule, new
<1>7. /\ schedules' \in Seq(ScheduleRow) /\ DOMAIN schedules' = DOMAIN schedules \cup {Len(schedules')}
      /\ schedules'[Len(schedules')] = new /\ \A k \in DOMAIN schedules : schedules'[k] = schedules[k]
    BY <1>5, <1>6, SeqAppended DEF IndexInv, IndexTypeOK
<1>8. IndexTypeOK' /\ PassInv'
    BY <1>6, <1>7 DEF IndexInv, IndexTypeOK, PassInv, PassedIndex
<1>9. ItemInv'
    BY <1>4, <1>6, <1>7 DEF IndexInv, ItemInv
<1>10. BatchesInOrder'
    BY <1>4, <1>6, <1>7 DEF IndexInv, BatchesInOrder, Published
<1> QED
    BY <1>8, <1>9, <1>10 DEF IndexInv

\* Between two states in which nothing is stale, or out of work.
LEMMA MoveKeeps ==
  ASSUME IndexInv, NEW k \in DOMAIN schedules, NEW from, NEW to, MoveSchedule(k, from, to),
         to \in {"review", "active", "paused", "cancelled"},
         to \in {"review", "active"} => from \subseteq {"draft", "review"}
  PROVE  IndexInv'
<1> DEFINE row == [schedules[k] EXCEPT !.state = to]
<1>1. schedules[k] \in ScheduleRow
    BY IndexTypes DEF IndexInv
<1>2. row \in ScheduleRow /\ row.state = to /\ row.items = schedules[k].items
    BY <1>1 DEF ScheduleRow
<1>3. schedules' = [schedules EXCEPT ![k] = row] /\ schedules[k].state \in from
      /\ UNCHANGED <<manifest, qaPass, everPassed, promotions, builds, rows>>
    BY DEF MoveSchedule
<1> HIDE DEF row
<1>4. BuildsKept
    BY <1>3 DEF BuildsKept, Published
<1>5. \A i \in row.items : /\ row.state \in {"draft", "review", "active"} => i.state # "stale"
                           /\ i.state = "prepared" => i.build \in DOMAIN builds'
    BY <1>2, <1>3 DEF IndexInv, ItemInv
<1>6. \A i, j \in row.items : i.state = "prepared" /\ j.batch < i.batch =>
                                j.state = "prepared" /\ builds'[j.build].status = "published"
    BY <1>2, <1>3 DEF IndexInv, BatchesInOrder, Published
<1>7. schedules' \in Seq(ScheduleRow) /\ ItemInv' /\ BatchesInOrder'
    BY <1>2, <1>3, <1>4, <1>5, <1>6, ScheduleWritten
<1>8. IndexTypeOK' /\ PassInv'
    BY <1>3, <1>7 DEF IndexInv, IndexTypeOK, PassInv, PassedIndex
<1> QED
    BY <1>7, <1>8 DEF IndexInv

LEMMA Irreflexive == \A n \in Nat : ~(n < n)
OBVIOUS

\* A batch is written: its items are renewed, the others stay.
LEMMA BatchWritten ==
  ASSUME IndexTypeOK, NEW k \in DOMAIN schedules, NEW fresh \in SUBSET ItemRow,
         NEW state \in {"paused", "active"}, schedules' = WithItems(k, Batch(k), fresh, state)
  PROVE  \E row \in ScheduleRow :
           /\ row.state = state /\ row.items = (schedules[k].items \ Batch(k)) \cup fresh
           /\ schedules' = [schedules EXCEPT ![k] = row]
<1> DEFINE rest == (schedules[k].items \ Batch(k)) \cup fresh
           row == [schedules[k] EXCEPT !.items = rest, !.state = state]
<1>1. schedules[k] \in ScheduleRow
    BY IndexTypes
<1>2. rest \subseteq ItemRow
    BY <1>1 DEF ScheduleRow
<1>3. schedules' = [schedules EXCEPT ![k].items = rest, ![k].state = state]
    BY Zenon DEF WithItems
<1> HIDE DEF rest
<1>4. row \in ScheduleRow /\ row.state = state /\ row.items = rest
    BY <1>1, <1>2 DEF ScheduleRow
<1>5. schedules' = [schedules EXCEPT ![k] = row]
    BY <1>3
<1> HIDE DEF row
<1> QED
    BY <1>4, <1>5 DEF rest

\* The batch that is next: nothing before it is planned, and in a schedule that
\* is active what is before it is published.
LEMMA BeforeNext ==
  ASSUME IndexInv, NEW k \in DOMAIN schedules, schedules[k].state = "active", Planned(k) # {},
         PriorPublished(k, NextBatch(k)), NEW j \in schedules[k].items, j.batch < NextBatch(k)
  PROVE  j.state = "prepared" /\ Published(j.build) /\ j.build \in DOMAIN builds /\ j \notin Batch(k)
<1>1. j \in ItemRow /\ j.batch \in Nat
    BY IndexTypes DEF IndexInv, ScheduleRow, ItemRow
<1>2. NextBatch(k) \in Nat /\ \A i \in Planned(k) : NextBatch(k) <= i.batch
    BY NextBatchIsLeast DEF IndexInv
<1>3. j \notin Planned(k) /\ j.state # "planned"
    BY <1>1, <1>2 DEF Planned
<1>4. j.state # "stale"
    BY DEF IndexInv, ItemInv
<1>5. j.state = "prepared"
    BY <1>1, <1>3, <1>4 DEF ItemRow
<1>6. j.build \in DOMAIN builds /\ j.build # 0
    BY <1>5, IndexTypes DEF IndexInv, ItemInv
<1> QED
    BY <1>3, <1>5, <1>6 DEF PriorPublished, Batch

LEMMA CompleteKeeps ==
  ASSUME IndexInv, NEW k \in DOMAIN schedules,
         schedules' = [schedules EXCEPT ![k].state = "completed"],
         UNCHANGED <<manifest, qaPass, everPassed, promotions, builds, rows>>
  PROVE  IndexInv'
<1> DEFINE row == [schedules[k] EXCEPT !.state = "completed"]
<1>1. row \in ScheduleRow /\ row.state = "completed" /\ row.items = schedules[k].items
    BY IndexTypes DEF IndexInv, ScheduleRow
<1>2. schedules' = [schedules EXCEPT ![k] = row]
    OBVIOUS
<1> HIDE DEF row
<1>3. BuildsKept
    BY DEF BuildsKept, Published
<1>4. \A i \in row.items : /\ row.state \in {"draft", "review", "active"} => i.state # "stale"
                           /\ i.state = "prepared" => i.build \in DOMAIN builds'
    BY <1>1 DEF IndexInv, ItemInv
<1>5. \A i, j \in row.items : i.state = "prepared" /\ j.batch < i.batch =>
                                j.state = "prepared" /\ builds'[j.build].status = "published"
    BY <1>1 DEF IndexInv, BatchesInOrder, Published
<1>6. schedules' \in Seq(ScheduleRow) /\ ItemInv' /\ BatchesInOrder'
    BY <1>1, <1>2, <1>3, <1>4, <1>5, ScheduleWritten
<1>7. IndexTypeOK' /\ PassInv'
    BY <1>6 DEF IndexInv, IndexTypeOK, PassInv, PassedIndex
<1> QED
    BY <1>6, <1>7 DEF IndexInv

LEMMA PauseKeeps ==
  ASSUME IndexInv, NEW k \in DOMAIN schedules,
         schedules' = WithItems(k, Batch(k), {[i EXCEPT !.state = "stale"] : i \in Batch(k)}, "paused"),
         UNCHANGED <<manifest, qaPass, everPassed, promotions, builds, rows>>
  PROVE  IndexInv'
<1> DEFINE fresh == {[i EXCEPT !.state = "stale"] : i \in Batch(k)}
<1>0. Batch(k) \subseteq schedules[k].items /\ Batch(k) \subseteq ItemRow
      /\ \A i \in Batch(k) : i.state = "planned"
    BY IndexTypes DEF IndexInv, ScheduleRow, Batch, Planned
<1>1. fresh \in SUBSET ItemRow /\ \A j \in fresh : j.state = "stale" /\ \E i \in Batch(k) : i.batch = j.batch
    BY <1>0 DEF ItemRow
<1> HIDE DEF fresh
<1>2. PICK row \in ScheduleRow :
        /\ row.state = "paused" /\ row.items = (schedules[k].items \ Batch(k)) \cup fresh
        /\ schedules' = [schedules EXCEPT ![k] = row]
    BY <1>1, BatchWritten DEF IndexInv, fresh
<1>3. BuildsKept
    BY DEF BuildsKept, Published
<1>4. \A i \in row.items : /\ row.state \in {"draft", "review", "active"} => i.state # "stale"
                           /\ i.state = "prepared" => i.build \in DOMAIN builds'
    BY <1>1, <1>2 DEF IndexInv, ItemInv
<1>5. ASSUME NEW i \in row.items, NEW j \in row.items, i.state = "prepared", j.batch < i.batch
      PROVE  j.state = "prepared" /\ builds'[j.build].status = "published"
    <2>1. i \in schedules[k].items
        BY <1>1, <1>2, <1>5
    <2>2. CASE j \in fresh
        <3>1. PICK b \in Batch(k) : b.batch = j.batch
            BY <1>1, <2>2
        <3>2. b.state = "prepared"
            BY <1>0, <1>5, <2>1, <3>1 DEF IndexInv, BatchesInOrder
        <3> QED
            BY <1>0, <3>2
    <2>3. CASE j \notin fresh
        BY <1>2, <1>5, <2>1, <2>3 DEF IndexInv, BatchesInOrder, Published
    <2> QED
        BY <2>2, <2>3
<1>x. \A i, j \in row.items : i.state = "prepared" /\ j.batch < i.batch =>
                                j.state = "prepared" /\ builds'[j.build].status = "published"
    BY <1>5
<1>6. schedules' \in Seq(ScheduleRow) /\ ItemInv' /\ BatchesInOrder'
    BY <1>2, <1>3, <1>4, <1>x, ScheduleWritten
<1>7. IndexTypeOK' /\ PassInv'
    BY <1>6 DEF IndexInv, IndexTypeOK, PassInv, PassedIndex
<1> QED
    BY <1>6, <1>7 DEF IndexInv

LEMMA PrepareKeeps ==
  ASSUME IndexInv, NEW k \in DOMAIN schedules, schedules[k].state = "active",
         Planned(k) # {}, PriorPublished(k, NextBatch(k)), StillValid(Batch(k)),
         promotions' = promotions \cup {[slug |-> i.slug, hash |-> i.hash] : i \in Batch(k)},
         builds' = Append(builds, Frozen(promotions')),
         schedules' = WithItems(k, Batch(k),
                        {[i EXCEPT !.state = "prepared", !.build = Len(builds')] : i \in Batch(k)}, "active"),
         UNCHANGED <<manifest, qaPass, everPassed, rows>>
  PROVE  IndexInv'
<1> DEFINE fresh == {[i EXCEPT !.state = "prepared", !.build = Len(builds')] : i \in Batch(k)}
<1>0. Batch(k) \subseteq schedules[k].items /\ Batch(k) \subseteq ItemRow
      /\ \A i \in Batch(k) : i.state = "planned" /\ i.batch = NextBatch(k)
    BY IndexTypes DEF IndexInv, ScheduleRow, Batch, Planned
<1>1. promotions' \in SUBSET Pages /\ promotions' \subseteq everPassed
    BY DEF StillValid, Eligible, IndexInv, IndexTypeOK, PassInv
<1>2. /\ builds' \in Seq(BuildRow) /\ BuildsKept /\ Len(builds') \in DOMAIN builds'
      /\ (\A b \in DOMAIN builds : PassedIndex(builds[b].index))'
    BY <1>1, BuildAppended
<1>3. Len(builds') \in Nat
    BY <1>2, LenProperties
<1>4. /\ fresh \in SUBSET ItemRow
      /\ \A j \in fresh : j.state = "prepared" /\ j.build = Len(builds') /\ j.batch = NextBatch(k)
    <2>1. PICK n \in Nat : n = Len(builds')
        BY <1>3
    <2>2. ASSUME NEW i \in Batch(k)
          PROVE  LET new == [i EXCEPT !.state = "prepared", !.build = n]
                 IN  new \in ItemRow /\ new.state = "prepared" /\ new.build = n /\ new.batch = NextBatch(k)
        BY <1>0 DEF ItemRow
    <2> QED
        BY <2>1, <2>2
<1>b. \A j \in fresh : \E b \in Batch(k) : b.batch = j.batch
    BY <1>0 DEF ItemRow
<1> HIDE DEF fresh
<1>5. PICK row \in ScheduleRow :
        /\ row.state = "active" /\ row.items = (schedules[k].items \ Batch(k)) \cup fresh
        /\ schedules' = [schedules EXCEPT ![k] = row]
    BY <1>4, BatchWritten DEF IndexInv, fresh
<1>6. \A i \in row.items : /\ row.state \in {"draft", "review", "active"} => i.state # "stale"
                           /\ i.state = "prepared" => i.build \in DOMAIN builds'
    <2>1. ASSUME NEW i \in schedules[k].items
          PROVE  i.state # "stale" /\ (i.state = "prepared" => i.build \in DOMAIN builds')
        BY <1>2, <2>1 DEF IndexInv, ItemInv, BuildsKept
    <2> QED
        BY <1>2, <1>4, <1>5, <2>1
<1>7. ASSUME NEW i \in row.items, NEW j \in row.items, i.state = "prepared", j.batch < i.batch
      PROVE  j.state = "prepared" /\ builds'[j.build].status = "published"
    <2>0. i.batch \in Nat /\ j.batch \in Nat /\ NextBatch(k) \in Nat
        BY <1>5, NextBatchIsLeast DEF ScheduleRow, ItemRow, IndexInv
    <2>1. CASE i \in fresh
        <3>1. j.batch < NextBatch(k)
            BY <1>4, <1>7, <2>1
        <3>2. j \notin fresh /\ j \in schedules[k].items
            <4>1. PICK next \in Nat : next = NextBatch(k) /\ ~(next < next)
                BY <2>0, Irreflexive, Zenon
            <4>2. j \notin fresh
                <5> SUFFICES ASSUME j \in fresh PROVE FALSE
                    OBVIOUS
                <5>1. j.batch = NextBatch(k)
                    BY <1>4
                <5> QED
                    BY <3>1, <4>1, <5>1
            <4> QED
                BY <1>5, <4>2
        <3>3. j.state = "prepared" /\ Published(j.build) /\ j.build \in DOMAIN builds
            BY <3>1, <3>2, BeforeNext
        <3> QED
            BY <3>3, <1>2 DEF BuildsKept
    <2>2. CASE i \notin fresh /\ j \in fresh
        <3>1. i \in schedules[k].items
            BY <1>5, <2>2
        <3>2. PICK b \in Batch(k) : b.batch = j.batch
            BY <1>b, <2>2
        <3>3. b.state = "prepared"
            BY <1>0, <1>7, <3>1, <3>2 DEF IndexInv, BatchesInOrder
        <3> QED
            BY <1>0, <3>3
    <2>3. CASE i \notin fresh /\ j \notin fresh
        <3>1. i \in schedules[k].items /\ j \in schedules[k].items
            BY <1>5, <2>3
        <3>2. j.state = "prepared" /\ Published(j.build)
            BY <1>7, <3>1 DEF IndexInv, BatchesInOrder
        <3>3. j.build \in DOMAIN builds
            BY <3>1, <3>2 DEF IndexInv, ItemInv
        <3> QED
            BY <3>2, <3>3, <1>2 DEF BuildsKept
    <2> QED
        BY <2>1, <2>2, <2>3
<1>x. \A i, j \in row.items : i.state = "prepared" /\ j.batch < i.batch =>
                                j.state = "prepared" /\ builds'[j.build].status = "published"
    BY <1>7
<1>8. schedules' \in Seq(ScheduleRow) /\ ItemInv' /\ BatchesInOrder'
    BY <1>2, <1>5, <1>6, <1>x, ScheduleWritten
<1>9. IndexTypeOK'
    BY <1>1, <1>2, <1>8 DEF IndexInv, IndexTypeOK
<1>10. PassInv'
    BY <1>1, <1>2 DEF IndexInv, PassInv, PassedIndex
<1> QED
    BY <1>8, <1>9, <1>10 DEF IndexInv

LEMMA SweepKeeps == ASSUME IndexInv, Sweep PROVE IndexInv'
<1>1. PICK k \in DOMAIN schedules : k = HeadSchedule /\ schedules[k].state = "active"
    BY HeadExists DEF IndexInv, Sweep
<1>2. UNCHANGED <<manifest, qaPass, everPassed, rows>>
    BY DEF Sweep
<1>3. CASE /\ schedules' = [schedules EXCEPT ![k].state = "completed"]
           /\ UNCHANGED <<promotions, builds>>
    BY <1>2, <1>3, CompleteKeeps
<1>4. CASE /\ schedules' = WithItems(k, Batch(k), {[i EXCEPT !.state = "stale"] : i \in Batch(k)}, "paused")
           /\ UNCHANGED <<promotions, builds>>
    BY <1>2, <1>4, PauseKeeps
<1>5. CASE /\ Planned(k) # {} /\ PriorPublished(k, NextBatch(k)) /\ StillValid(Batch(k))
           /\ promotions' = promotions \cup {[slug |-> i.slug, hash |-> i.hash] : i \in Batch(k)}
           /\ builds' = Append(builds, Frozen(promotions'))
           /\ schedules' = WithItems(k, Batch(k),
                {[i EXCEPT !.state = "prepared", !.build = Len(builds')] : i \in Batch(k)}, "active")
    BY <1>1, <1>2, <1>5, PrepareKeeps
<1> QED
    BY <1>1, <1>3, <1>4, <1>5, Zenon DEF Sweep

\* Every step keeps the invariant.
LEMMA IndexStepInv == IndexInv /\ [IndexNext]_indexVars => IndexInv'
<1> SUFFICES ASSUME IndexInv, [IndexNext]_indexVars PROVE IndexInv'
    OBVIOUS
<1>1. CASE \E page \in Pages, passed \in BOOLEAN :
             ApplyContent(page, passed) \/ LateQa(page) \/ CreateIndexPromotion(page)
    BY <1>1, ContentKeeps
<1>2. CASE QueueBuild
    BY <1>2, QueueKeeps
<1>3. ASSUME NEW b \in DOMAIN builds, NEW status \in {"candidate", "failed"}, BuildEnds(b, status) \/ Publish(b)
      PROVE  IndexInv'
    BY <1>3, BuildsMove
<1>4. ASSUME NEW order \in Orders, NEW size \in 1..2, CreateIndexSchedule(order, size) PROVE IndexInv'
    BY <1>4, CreateScheduleKeeps
<1>5. ASSUME NEW k \in DOMAIN schedules,
             SubmitIndexSchedule(k) \/ ApproveIndexSchedule(k) \/ ControlIndexSchedule(k)
      PROVE  IndexInv'
    BY <1>5, MoveKeeps DEF SubmitIndexSchedule, ApproveIndexSchedule, ControlIndexSchedule
<1>6. CASE Sweep
    BY <1>6, SweepKeeps
<1>7. CASE UNCHANGED indexVars
    BY <1>7 DEF indexVars, IndexInv, IndexTypeOK, PassInv, PassedIndex, ItemInv, BatchesInOrder, Published
<1> QED
    BY <1>1, <1>2, <1>3, <1>4, <1>5, <1>6, <1>7 DEF IndexNext

-----------------------------------------------------------------------------
\* Every variable keeps its type, for any addresses, contents, builds and
\* schedules.
THEOREM IndexTypeCorrect == IndexSpec => []IndexTypeOK
<1>1. IndexInv => IndexTypeOK
    BY DEF IndexInv
<1> QED
    BY IndexInitInv, IndexStepInv, <1>1, PTL DEF IndexSpec

\* Nothing is opened to search engines that did not pass QA as it stands, by a
\* promotion, by a schedule or by a release it is carried over from
\* (_candidate_index_states).
THEOREM OnlyPassedIndexed == IndexSpec => []IndexedPassedQa
<1>1. IndexInv => IndexedPassedQa
    BY DEF IndexInv, PassInv, PassedIndex, IndexedPassedQa
<1> QED
    BY IndexInitInv, IndexStepInv, <1>1, PTL DEF IndexSpec

\* A batch is prepared only when all earlier batches of its schedule are
\* published, whatever is paused, cancelled or found stale meanwhile
\* (_prior_batches_are_published).
THEOREM SchedulesInOrder == IndexSpec => []BatchesInOrder
<1>1. IndexInv => BatchesInOrder
    BY DEF IndexInv
<1> QED
    BY IndexInitInv, IndexStepInv, <1>1, PTL DEF IndexSpec

-----------------------------------------------------------------------------
(***************************************************************************)
(* AuthorReviews, for any revisions, portraits, operators and number of    *)
(* records: the types, and that the last record about a revision says the  *)
(* state it has. The invariant follows each record from the request that   *)
(* will write it.                                                          *)
(***************************************************************************)

-----------------------------------------------------------------------------
(* The inductive invariant of AuthorReviews.                                *)

LogRecord == [subject : Authors \cup Portraits, verb : AuthorVerbs \cup MediaVerbs, prev : 0..MaxRecords]
OfficerRequest ==
  [step : {"idle", "read", "locked"}, verb : AuthorVerbs \cup MediaVerbs,
   subject : Authors \cup Portraits \cup {NoSubject},
   portrait : Portraits \cup {NoSubject}, prev : 0..MaxRecords]

\* One request holds the log, and read its end.
HoldInv ==
  /\ \A o \in Officers : requestsOf[o].step = "locked" =>
       requestsOf[o].prev = Len(log) /\ Len(log) < MaxRecords
  /\ \A o, p \in Officers : requestsOf[o].step = "locked" /\ requestsOf[p].step = "locked" => o = p

\* A verdict on a portrait is about a portrait, any other about a revision.
SubjectInv ==
  \A o \in Officers : requestsOf[o].step # "idle" =>
    requestsOf[o].subject \in (IF requestsOf[o].verb \in MediaVerbs THEN Portraits ELSE Authors)

\* The last record about a revision says its state; the first has none before it.
Told(a) ==
  \/ About(a) = {} /\ authors[a].state = "none"
  \/ \E i \in About(a) : (\A j \in About(a) : j <= i) /\ authors[a].state = After(log[i].verb)

AuthorInv ==
  /\ AuthorTypeOK /\ HoldInv /\ SubjectInv
  /\ \A i \in DOMAIN log : log[i].prev = i - 1
  /\ \A a \in Authors : Told(a)

-----------------------------------------------------------------------------
(* Every step of AuthorReviews keeps it.                                    *)

LEMMA AuthorTypes ==
  ASSUME AuthorTypeOK
  PROVE  /\ log \in Seq(LogRecord) /\ Len(log) \in Nat /\ DOMAIN log = 1..Len(log)
         /\ \A i \in DOMAIN log : log[i] \in LogRecord
         /\ requestsOf \in [Officers -> OfficerRequest]
         /\ authors \in [Authors -> [state : AuthorStates, portrait : Portraits \cup {NoSubject}]]
         /\ expired \subseteq Portraits /\ MaxRecords \in Nat
<1>1. log \in Seq(LogRecord)
    BY DEF AuthorTypeOK, LogRecord
<1> QED
    BY <1>1, SeqRows, AuthorAssumption DEF AuthorTypeOK, OfficerRequest

LEMMA AuthorInitInv == AuthorInit => AuthorInv
<1> SUFFICES ASSUME AuthorInit PROVE AuthorInv
    OBVIOUS
<1>1. log \in Seq(LogRecord) /\ DOMAIN log = {}
    <2>1. log = <<>> /\ <<>> \in Seq(LogRecord)
        BY EmptySeq DEF AuthorInit
    <2> QED
        BY <2>1, SeqRows, EmptySeq
<1>2. Waiting \in OfficerRequest /\ Waiting.step = "idle"
    BY AuthorAssumption DEF Waiting, OfficerRequest, AuthorVerbs
<1>3. AuthorTypeOK
    BY <1>1, <1>2 DEF AuthorInit, AuthorTypeOK, AuthorStates, LogRecord, OfficerRequest
<1>4. HoldInv /\ SubjectInv
    BY <1>2 DEF AuthorInit, HoldInv, SubjectInv
<1>5. \A a \in Authors : Told(a)
    BY <1>1 DEF AuthorInit, Told, About
<1> QED
    BY <1>1, <1>3, <1>4, <1>5 DEF AuthorInv

\* A step that leaves the log and the revisions alone changes one request.
LEMMA RequestWritten ==
  ASSUME AuthorInv, NEW o \in Officers, NEW row \in OfficerRequest,
         requestsOf' = [requestsOf EXCEPT ![o] = row], UNCHANGED <<authors, expired, log>>,
         row.step # "idle" => row.subject \in (IF row.verb \in MediaVerbs THEN Portraits ELSE Authors),
         row.step = "locked" => /\ row.prev = Len(log) /\ Len(log) < MaxRecords
                                /\ \A p \in Officers : requestsOf[p].step # "locked"
  PROVE  AuthorInv'
<1>1. /\ requestsOf' \in [Officers -> OfficerRequest] /\ requestsOf'[o] = row
      /\ \A p \in Officers : p # o => requestsOf'[p] = requestsOf[p]
    BY AuthorTypes DEF AuthorInv
<1>2. AuthorTypeOK'
    BY <1>1 DEF AuthorInv, AuthorTypeOK, OfficerRequest
<1>3. HoldInv'
    BY <1>1 DEF AuthorInv, HoldInv
<1>4. SubjectInv'
    BY <1>1 DEF AuthorInv, SubjectInv
<1>5. (\A a \in Authors : Told(a))'
    BY DEF AuthorInv, Told, About
<1> QED
    BY <1>2, <1>3, <1>4, <1>5 DEF AuthorInv

LEMMA OpenRequestKeeps ==
  ASSUME AuthorInv, NEW o \in Officers, NEW verb \in AuthorVerbs \cup MediaVerbs,
         NEW subject \in (IF verb \in MediaVerbs THEN Portraits ELSE Authors),
         NEW portrait \in Portraits, OpenRequest(o, verb, subject, portrait)
  PROVE  AuthorInv'
<1>1. [step |-> "read", verb |-> verb, subject |-> subject, portrait |-> portrait, prev |-> 0] \in OfficerRequest
    BY AuthorAssumption DEF OfficerRequest
<1>2. PICK row \in OfficerRequest :
        row = [step |-> "read", verb |-> verb, subject |-> subject, portrait |-> portrait, prev |-> 0]
    BY <1>1
<1>3. requestsOf' = [requestsOf EXCEPT ![o] = row] /\ UNCHANGED <<authors, expired, log>>
    BY <1>2 DEF OpenRequest
<1>4. row.step = "read" /\ row.verb = verb /\ row.subject = subject
    BY <1>2
<1> QED
    BY <1>3, <1>4, RequestWritten

LEMMA LockLogKeeps ==
  ASSUME AuthorInv, NEW o \in Officers, LockLog(o)
  PROVE  AuthorInv'
<1>t. requestsOf[o] \in OfficerRequest /\ Len(log) \in 0..MaxRecords /\ requestsOf \in [Officers -> OfficerRequest]
    BY AuthorTypes DEF AuthorInv, LockLog
<1>1. [requestsOf[o] EXCEPT !.step = "locked", !.prev = Len(log)] \in OfficerRequest
    BY <1>t DEF OfficerRequest
<1>2. PICK row \in OfficerRequest : row = [requestsOf[o] EXCEPT !.step = "locked", !.prev = Len(log)]
    BY <1>1
<1>3. /\ row.step = "locked" /\ row.prev = Len(log) /\ row.verb = requestsOf[o].verb
      /\ row.subject = requestsOf[o].subject
    BY <1>t, <1>2 DEF OfficerRequest
<1>4. requestsOf' = [requestsOf EXCEPT ![o] = row] /\ UNCHANGED <<authors, expired, log>>
    BY <1>t, <1>2 DEF LockLog
<1>5. row.subject \in (IF row.verb \in MediaVerbs THEN Portraits ELSE Authors)
    BY <1>3 DEF AuthorInv, SubjectInv, LockLog
<1>6. Len(log) < MaxRecords /\ \A p \in Officers : requestsOf[p].step # "locked"
    BY DEF LockLog, LogFree
<1> QED
    BY <1>3, <1>4, <1>5, <1>6, RequestWritten

LEMMA AbortKeeps ==
  ASSUME AuthorInv, NEW o \in Officers, Abort(o)
  PROVE  AuthorInv'
<1>1. Waiting \in OfficerRequest /\ Waiting.step = "idle"
    BY AuthorAssumption DEF Waiting, OfficerRequest, AuthorVerbs
<1> QED
    BY <1>1, RequestWritten DEF Abort

LEMMA CommitKeeps ==
  ASSUME AuthorInv, NEW o \in Officers, Commit(o)
  PROVE  AuthorInv'
<1>t. /\ requestsOf[o] \in OfficerRequest /\ requestsOf \in [Officers -> OfficerRequest]
      /\ authors \in [Authors -> [state : AuthorStates, portrait : Portraits \cup {NoSubject}]]
      /\ log \in Seq(LogRecord) /\ Len(log) \in Nat /\ DOMAIN log = 1..Len(log)
    BY AuthorTypes DEF AuthorInv
<1>r. PICK r \in OfficerRequest : r = requestsOf[o]
    BY <1>t
<1>1. /\ r.step = "locked" /\ r.prev = Len(log)
      /\ r.subject \in (IF r.verb \in MediaVerbs THEN Portraits ELSE Authors)
      /\ r.verb \in AuthorVerbs \cup MediaVerbs /\ r.prev \in 0..MaxRecords
      /\ r.portrait \in Portraits \cup {NoSubject}
    BY <1>r DEF AuthorInv, HoldInv, SubjectInv, Commit, OfficerRequest
<1>2. [subject |-> r.subject, verb |-> r.verb, prev |-> r.prev] \in LogRecord
    BY <1>1 DEF LogRecord
<1>3. PICK record \in LogRecord : record = [subject |-> r.subject, verb |-> r.verb, prev |-> r.prev]
    BY <1>2
<1>4. /\ record.subject = r.subject /\ record.verb = r.verb /\ record.prev = Len(log)
    BY <1>1, <1>3
<1>5. log' = Append(log, record)
    BY <1>r, <1>3 DEF Commit
<1>6. /\ log' \in Seq(LogRecord) /\ Len(log') = Len(log) + 1 /\ DOMAIN log' = DOMAIN log \cup {Len(log')}
      /\ log'[Len(log')] = record /\ \A i \in DOMAIN log : log'[i] = log[i] /\ i # Len(log')
    BY <1>t, <1>5, SeqAppended, SMT
<1>7. Waiting \in OfficerRequest /\ Waiting.step = "idle"
    BY AuthorAssumption DEF Waiting, OfficerRequest, AuthorVerbs
<1>8. /\ requestsOf' \in [Officers -> OfficerRequest] /\ requestsOf'[o] = Waiting
      /\ \A p \in Officers : p # o => requestsOf'[p] = requestsOf[p]
    BY <1>t, <1>7 DEF Commit
<1>9. /\ expired' = expired
      /\ authors' \in [Authors -> [state : AuthorStates, portrait : Portraits \cup {NoSubject}]]
      /\ \A a \in Authors : authors'[a].state =
           IF r.subject = a /\ r.verb \notin MediaVerbs THEN After(r.verb) ELSE authors[a].state
    <2>1. CASE r.verb \in MediaVerbs
        BY <1>r, <1>t, <2>1 DEF Commit
    <2>2. CASE r.verb \notin MediaVerbs
        <3>1. After(r.verb) \in AuthorStates
            BY <1>1, <2>2 DEF After, AuthorStates, AuthorVerbs, MediaVerbs
        <3>2. PICK row \in [state : AuthorStates, portrait : Portraits \cup {NoSubject}] :
                row = [state |-> After(r.verb), portrait |-> r.portrait]
            BY <1>1, <3>1
        <3>3. authors' = [authors EXCEPT ![r.subject] = row] /\ row.state = After(r.verb)
            BY <1>r, <2>2, <3>2 DEF Commit
        <3>4. r.subject \in Authors /\ expired' = expired
            BY <1>1, <2>2 DEF Commit
        <3>5. authors' \in [Authors -> [state : AuthorStates, portrait : Portraits \cup {NoSubject}]]
            BY <1>t, <3>2, <3>3, <3>4
        <3>6. \A a \in Authors : authors'[a] = IF r.subject = a THEN row ELSE authors[a]
            BY <1>t, <3>3, <3>4
        <3> QED
            BY <2>2, <3>3, <3>4, <3>5, <3>6
    <2> QED
        BY <2>1, <2>2
<1>10. AuthorTypeOK'
    BY <1>6, <1>8, <1>9 DEF AuthorInv, AuthorTypeOK, OfficerRequest, LogRecord
<1>11. \A p \in Officers : requestsOf'[p].step # "locked"
    BY <1>1, <1>r, <1>7, <1>8 DEF AuthorInv, HoldInv
<1>12. HoldInv' /\ SubjectInv'
    BY <1>7, <1>8, <1>11 DEF AuthorInv, HoldInv, SubjectInv
<1>13. (\A i \in DOMAIN log : log[i].prev = i - 1)'
    <2>1. ASSUME NEW i \in DOMAIN log'
          PROVE  log'[i].prev = i - 1
        <3>1. CASE i \in DOMAIN log
            BY <1>6, <3>1 DEF AuthorInv
        <3>2. CASE i = Len(log')
            BY <1>4, <1>6, <1>t, <3>2
        <3> QED
            BY <1>6, <3>1, <3>2
    <2> QED
        BY <2>1
<1>14. ASSUME NEW a \in Authors
       PROVE  Told(a)'
    <2>1. CASE r.subject = a
        <3>1. Len(log') \in About(a)' /\ \A j \in About(a)' : j <= Len(log')
            <4>1. Len(log') \in DOMAIN log' /\ log'[Len(log')].subject = a
                BY <1>4, <1>6, <2>1
            <4>2. \A j \in DOMAIN log' : j <= Len(log')
                BY <1>6, <1>t
            <4> QED
                BY <4>1, <4>2 DEF About
        <3>2. r.verb \notin MediaVerbs
            BY <1>1, <2>1, AuthorAssumption
        <3>3. authors'[a].state = After(log'[Len(log')].verb)
            BY <1>4, <1>6, <1>9, <2>1, <3>2
        <3> QED
            BY <3>1, <3>3 DEF Told
    <2>2. CASE r.subject # a
        <3>1. About(a)' = About(a)
            BY <1>4, <1>6, <2>2 DEF About
        <3>2. authors'[a].state = authors[a].state
            BY <1>9, <2>2
        <3>3. \A i \in About(a) : log'[i] = log[i]
            BY <1>6 DEF About
        <3> QED
            BY <3>1, <3>2, <3>3 DEF AuthorInv, Told
    <2> QED
        BY <2>1, <2>2
<1> QED
    BY <1>10, <1>12, <1>13, <1>14 DEF AuthorInv

LEMMA AuthorStepInv == AuthorInv /\ [AuthorNext]_authorVars => AuthorInv'
<1> SUFFICES ASSUME AuthorInv, [AuthorNext]_authorVars PROVE AuthorInv'
    OBVIOUS
<1>1. CASE UNCHANGED authorVars
    BY <1>1 DEF authorVars, AuthorInv, AuthorTypeOK, HoldInv, SubjectInv, Told, About
<1>2. ASSUME NEW o \in Officers, LockLog(o) \/ Commit(o) \/ Abort(o)
      PROVE  AuthorInv'
    BY <1>2, LockLogKeeps, CommitKeeps, AbortKeeps
<1>3. ASSUME NEW o \in Officers, NEW verb \in AuthorVerbs, NEW a \in Authors, NEW portrait \in Portraits,
             BeginAuthor(o, verb, a, portrait)
      PROVE  AuthorInv'
    <2>1. verb \notin MediaVerbs
        BY DEF AuthorVerbs, MediaVerbs
    <2> QED
        BY <1>3, <2>1, OpenRequestKeeps DEF BeginAuthor
<1>4. ASSUME NEW o \in Officers, NEW verb \in MediaVerbs, NEW portrait \in Portraits,
             BeginMediaDecision(o, verb, portrait)
      PROVE  AuthorInv'
    BY <1>4, OpenRequestKeeps DEF BeginMediaDecision
<1>5. ASSUME NEW portrait \in Portraits, LicenceExpires(portrait)
      PROVE  AuthorInv'
    BY <1>5 DEF LicenceExpires, AuthorInv, AuthorTypeOK, HoldInv, SubjectInv, Told, About
<1> QED
    BY <1>1, <1>2, <1>3, <1>4, <1>5 DEF AuthorNext

LEMMA AuthorInvariant == AuthorSpec => []AuthorInv
BY AuthorInitInv, AuthorStepInv, PTL DEF AuthorSpec

-----------------------------------------------------------------------------
(* Theorems about AuthorReviews.                                            *)

\* The greatest of a set of numbers.
LEMMA GreatestIs ==
  ASSUME NEW S \in SUBSET Nat, NEW n \in S, \A m \in S : m <= n
  PROVE  Max(S) = n
<1>1. \A m \in S : n >= m
    OBVIOUS
<1>2. ASSUME NEW x \in S, \A m \in S : x >= m
      PROVE  x = n
    BY <1>2
<1> QED
    BY <1>1, <1>2 DEF Max

\* Every variable has its type, for any revisions, portraits and officers.
THEOREM AuthorTypeCorrect == AuthorSpec => []AuthorTypeOK
<1>1. AuthorInv => AuthorTypeOK
    BY DEF AuthorInv
<1> QED
    BY AuthorInvariant, <1>1, PTL

\* LogTellsState: the audit log verifies, and its last record about a revision
\* says the revision's state, whatever handlers overlap or die (append_audit,
\* authors.py).
THEOREM LogIsTrue == AuthorSpec => []LogTellsState
<1>1. ASSUME AuthorInv
      PROVE  LogTellsState
    <2>1. InvalidRecords = {}
        BY <1>1 DEF AuthorInv, InvalidRecords
    <2>2. ASSUME NEW a \in Authors
          PROVE  authors[a].state = IF About(a) = {} THEN "none" ELSE After(log[Max(About(a))].verb)
        <3>1. About(a) \in SUBSET Nat
            BY <1>1, AuthorTypes DEF AuthorInv, About
        <3>2. CASE About(a) = {}
            BY <1>1, <3>2 DEF AuthorInv, Told
        <3>3. CASE About(a) # {}
            <4>1. PICK i \in About(a) : (\A j \in About(a) : j <= i) /\ authors[a].state = After(log[i].verb)
                BY <1>1, <3>3 DEF AuthorInv, Told
            <4>2. Max(About(a)) = i
                BY <3>1, <4>1, GreatestIs
            <4> QED
                BY <3>3, <4>1, <4>2
        <3> QED
            BY <3>2, <3>3
    <2> QED
        BY <2>1, <2>2 DEF LogTellsState
<1> QED
    BY AuthorInvariant, <1>1, PTL

-----------------------------------------------------------------------------
(***************************************************************************)
(* DesignProfiles, for any revisions and operators: the types, and that a  *)
(* project is generated with the revision approved last for it or for its  *)
(* family.                                                                 *)
(***************************************************************************)

-----------------------------------------------------------------------------
(* The inductive invariant of DesignProfiles.                               *)

DesignRequest == [step : {"idle", "read", "cleared"}, verb : Verbs,
                  design : Designs \cup {NoDesign}, deleted : SUBSET Assignment]

\* The assignments are the revisions approved last, and those are of the
\* project and scope they are assigned to.
AssignedInv ==
  /\ \A a \in Assignment : a \in assignments <=> lastApproved[<<a.project, a.scope>>] = a.design
  /\ \A x \in DesignProjects \X Scopes : lastApproved[x] # NoDesign =>
       LET d == lastApproved[x] IN
       designs[d].state # "none" /\ designs[d].project = x[1] /\ designs[d].scope = x[2]

\* A request is about a revision that exists, and an approval deletes the rows
\* of its project and scope only.
ReviewsInv ==
  \A o \in Designers : LET r == designReviews[o] IN
    /\ r.step # "idle" => r.design \in Designs /\ designs[r.design].state # "none"
    /\ r.step = "cleared" => \A a \in r.deleted :
         a.project = designs[r.design].project /\ a.scope = designs[r.design].scope

DesignInv == DesignTypeOK /\ AssignedInv /\ ReviewsInv

-----------------------------------------------------------------------------
(* Every step of DesignProfiles keeps it.                                   *)

LEMMA DesignTypes ==
  ASSUME DesignTypeOK
  PROVE  /\ designs \in [Designs -> DesignRow] /\ assignments \subseteq Assignment /\ joined \in BOOLEAN
         /\ designReviews \in [Designers -> DesignRequest]
         /\ lastApproved \in [DesignProjects \X Scopes -> Designs \cup {NoDesign}]
         /\ \A d \in Designs : /\ designs[d] \in DesignRow /\ designs[d].project \in DesignProjects
                               /\ designs[d].scope \in Scopes /\ designs[d].state \in DesignStates
BY DEF DesignTypeOK, DesignRequest, DesignRow

LEMMA DesignInitInv == DesignInit => DesignInv
<1> SUFFICES ASSUME DesignInit PROVE DesignInv
    OBVIOUS
<1>1. NoDesignReview \in DesignRequest /\ NoDesignReview.step = "idle"
    BY DEF NoDesignReview, DesignRequest, Verbs
<1>2. DesignTypeOK
    <2>1. designs \in [Designs -> DesignRow]
        BY DEF DesignInit, DesignRow, DesignStates, DesignProjects, Scopes
    <2>2. designReviews \in [Designers -> DesignRequest]
        BY <1>1 DEF DesignInit
    <2>3. lastApproved \in [DesignProjects \X Scopes -> Designs \cup {NoDesign}]
        BY DEF DesignInit
    <2> QED
        BY <2>1, <2>2, <2>3 DEF DesignInit, DesignTypeOK, DesignRequest
<1>3. AssignedInv
    <2>1. \A a \in Assignment : <<a.project, a.scope>> \in DesignProjects \X Scopes /\ a.design \in Designs
        BY DEF Assignment
    <2>2. \A x \in DesignProjects \X Scopes : lastApproved[x] = NoDesign
        BY DEF DesignInit
    <2> QED
        BY <2>1, <2>2, DesignAssumption DEF DesignInit, AssignedInv
<1>4. ReviewsInv
    BY <1>1 DEF DesignInit, ReviewsInv
<1> QED
    BY <1>2, <1>3, <1>4 DEF DesignInv

\* A request that changes and leaves the tables alone.
LEMMA ReviewWritten ==
  ASSUME DesignInv, NEW o \in Designers, NEW row \in DesignRequest,
         designReviews' = [designReviews EXCEPT ![o] = row],
         UNCHANGED <<designs, assignments, joined, lastApproved>>,
         row.step # "idle" => row.design \in Designs /\ designs[row.design].state # "none",
         row.step = "cleared" => \A a \in row.deleted :
           a.project = designs[row.design].project /\ a.scope = designs[row.design].scope
  PROVE  DesignInv'
<1>1. /\ designReviews' \in [Designers -> DesignRequest] /\ designReviews'[o] = row
      /\ \A p \in Designers : p # o => designReviews'[p] = designReviews[p]
    BY DesignTypes DEF DesignInv
<1>2. DesignTypeOK'
    BY <1>1 DEF DesignInv, DesignTypeOK, DesignRequest
<1>3. AssignedInv'
    BY DEF DesignInv, AssignedInv
<1>4. ReviewsInv'
    BY <1>1 DEF DesignInv, ReviewsInv
<1> QED
    BY <1>2, <1>3, <1>4 DEF DesignInv

\* A revision that exists keeps its project and its scope.
LEMMA DesignWritten ==
  ASSUME DesignInv, NEW d \in Designs, NEW row \in DesignRow, row.state # "none",
         designs' = [designs EXCEPT ![d] = row],
         \/ designs[d].state = "none"
         \/ row.project = designs[d].project /\ row.scope = designs[d].scope,
         UNCHANGED <<assignments, lastApproved>>, joined' \in BOOLEAN,
         \/ UNCHANGED designReviews
         \/ \E o \in Designers : designReviews' = [designReviews EXCEPT ![o] = NoDesignReview]
  PROVE  DesignInv'
<1>t. designs \in [Designs -> DesignRow] /\ designReviews \in [Designers -> DesignRequest]
    BY DesignTypes DEF DesignInv
<1>1. /\ designs' \in [Designs -> DesignRow] /\ designs'[d] = row
      /\ \A e \in Designs : e # d => designs'[e] = designs[e]
    BY <1>t
<1>2. NoDesignReview \in DesignRequest /\ NoDesignReview.step = "idle"
    BY DEF NoDesignReview, DesignRequest, Verbs
<1>3. /\ designReviews' \in [Designers -> DesignRequest]
      /\ \A p \in Designers : designReviews'[p] = designReviews[p] \/ designReviews'[p].step = "idle"
    BY <1>t, <1>2
<1>4. DesignTypeOK'
    BY <1>1, <1>3 DEF DesignInv, DesignTypeOK, DesignRequest
<1>5. \A e \in Designs : designs[e].state # "none" =>
        designs'[e].state # "none" /\ designs'[e].project = designs[e].project
        /\ designs'[e].scope = designs[e].scope
    BY <1>1
<1>6. AssignedInv'
    <2>1. \A x \in DesignProjects \X Scopes : lastApproved[x] \in Designs \cup {NoDesign}
        BY DesignTypes DEF DesignInv
    <2> QED
        BY <1>5, <2>1 DEF DesignInv, AssignedInv
<1>7. ReviewsInv'
    BY <1>3, <1>5 DEF DesignInv, ReviewsInv
<1> QED
    BY <1>4, <1>6, <1>7 DEF DesignInv

LEMMA BeginReviewKeeps ==
  ASSUME DesignInv, NEW o \in Designers, NEW verb \in Verbs, NEW d \in Designs, BeginReview(o, verb, d)
  PROVE  DesignInv'
<1>1. [step |-> "read", verb |-> verb, design |-> d, deleted |-> {}] \in DesignRequest
    BY DEF DesignRequest
<1>2. PICK row \in DesignRequest : row = [step |-> "read", verb |-> verb, design |-> d, deleted |-> {}]
    BY <1>1
<1>3. row.step = "read" /\ row.design = d
    BY <1>2
<1>4. designReviews' = [designReviews EXCEPT ![o] = row] /\ designs[d].state # "none"
    BY <1>2 DEF BeginReview
<1> QED
    BY <1>3, <1>4, ReviewWritten DEF BeginReview

LEMMA ReviewFailsKeeps ==
  ASSUME DesignInv, NEW o \in Designers, ReviewFails(o)
  PROVE  DesignInv'
<1>1. NoDesignReview \in DesignRequest /\ NoDesignReview.step = "idle"
    BY DEF NoDesignReview, DesignRequest, Verbs
<1> QED
    BY <1>1, ReviewWritten DEF ReviewFails

LEMMA ClearAssignmentKeeps ==
  ASSUME DesignInv, NEW o \in Designers, ClearAssignment(o)
  PROVE  DesignInv'
<1>1. designReviews[o] \in DesignRequest /\ designReviews \in [Designers -> DesignRequest]
      /\ assignments \subseteq Assignment
    BY DesignTypes DEF DesignInv
<1>2. PICK gone \in SUBSET Assignment : gone = AssignedRows(Subject(o))
    BY <1>1 DEF AssignedRows
<1>3. [designReviews[o] EXCEPT !.step = "cleared", !.deleted = gone] \in DesignRequest
    BY <1>1 DEF DesignRequest
<1>4. PICK row \in DesignRequest : row = [designReviews[o] EXCEPT !.step = "cleared", !.deleted = gone]
    BY <1>3
<1>5. row.step = "cleared" /\ row.design = Subject(o) /\ row.deleted = gone
    BY <1>1, <1>4 DEF DesignRequest, Subject
<1>6. designReviews' = [designReviews EXCEPT ![o] = row]
    BY <1>1, <1>2, <1>4 DEF ClearAssignment
<1>7. row.design \in Designs /\ designs[row.design].state # "none"
    BY <1>5 DEF DesignInv, ReviewsInv, ClearAssignment, Subject
<1>8. \A a \in row.deleted : a.project = designs[row.design].project /\ a.scope = designs[row.design].scope
    BY <1>2, <1>5 DEF AssignedRows
<1> QED
    BY <1>5, <1>6, <1>7, <1>8, ReviewWritten DEF ClearAssignment

LEMMA CommitStateKeeps ==
  ASSUME DesignInv, NEW o \in Designers, NEW verb, NEW state \in {"review", "rejected"},
         CommitState(o, verb, state)
  PROVE  DesignInv'
<1>1. Subject(o) \in Designs
    BY DEF DesignInv, ReviewsInv, CommitState, Subject
<1>2. designs[Subject(o)] \in DesignRow
    BY <1>1, DesignTypes DEF DesignInv
<1>3. [designs[Subject(o)] EXCEPT !.state = state] \in DesignRow
    BY <1>2 DEF DesignRow, DesignStates
<1>4. PICK row \in DesignRow : row = [designs[Subject(o)] EXCEPT !.state = state]
    BY <1>3
<1>5. row.state = state /\ row.project = designs[Subject(o)].project /\ row.scope = designs[Subject(o)].scope
    BY <1>2, <1>4 DEF DesignRow
<1>6. designs' = [designs EXCEPT ![Subject(o)] = row]
    BY <1>4 DEF CommitState
<1>7. /\ designReviews' = [designReviews EXCEPT ![o] = NoDesignReview]
      /\ UNCHANGED <<assignments, lastApproved>> /\ joined' \in BOOLEAN
    BY DesignTypes DEF CommitState, DesignInv
<1> QED
    BY <1>1, <1>5, <1>6, <1>7, DesignWritten

LEMMA CreateDesignKeeps ==
  ASSUME DesignInv, NEW d \in Designs, NEW project \in DesignProjects, NEW scope \in Scopes,
         CreateDesign(d, project, scope)
  PROVE  DesignInv'
<1>1. [state |-> "draft", project |-> project, scope |-> scope] \in DesignRow
    BY DEF DesignRow, DesignStates
<1>2. PICK row \in DesignRow : row = [state |-> "draft", project |-> project, scope |-> scope]
    BY <1>1
<1>3. designs' = [designs EXCEPT ![d] = row] /\ row.state # "none" /\ designs[d].state = "none"
    BY <1>2 DEF CreateDesign
<1>4. UNCHANGED <<assignments, lastApproved, designReviews>> /\ joined' \in BOOLEAN
    BY DesignTypes DEF CreateDesign, DesignInv
<1> QED
    BY <1>3, <1>4, DesignWritten

LEMMA CommitApprovalKeeps ==
  ASSUME DesignInv, NEW o \in Designers, CommitApproval(o)
  PROVE  DesignInv'
<1>1. PICK d \in Designs : d = Subject(o) /\ designs[d].state # "none"
    BY DEF DesignInv, ReviewsInv, CommitApproval, Subject
<1>2. designs[d] \in DesignRow /\ designs[d].project \in DesignProjects /\ designs[d].scope \in Scopes
    BY DesignTypes DEF DesignInv
<1>p. PICK place \in DesignProjects \X Scopes :
        place = <<designs[d].project, designs[d].scope>>
    BY <1>2
<1>3. place[1] = designs[d].project /\ place[2] = designs[d].scope
    BY <1>p
<1>4. [designs[d] EXCEPT !.state = "approved"] \in DesignRow
    BY <1>2 DEF DesignRow, DesignStates
<1>5. PICK row \in DesignRow : row = [designs[d] EXCEPT !.state = "approved"]
    BY <1>4
<1>6. row.state = "approved" /\ row.project = place[1] /\ row.scope = place[2]
    BY <1>2, <1>3, <1>5 DEF DesignRow
<1>7. /\ designs' = [designs EXCEPT ![d] = row] /\ lastApproved' = [lastApproved EXCEPT ![place] = d]
      /\ designReviews' = [designReviews EXCEPT ![o] = NoDesignReview] /\ joined' = joined
    BY <1>1, <1>p, <1>5 DEF CommitApproval
<1>8. PICK new \in Assignment : new = [project |-> place[1], scope |-> place[2], design |-> d]
    BY <1>p DEF Assignment
<1>9. new.project = place[1] /\ new.scope = place[2] /\ new.design = d
    BY <1>8
<1>10. assignments' = (assignments \ designReviews[o].deleted) \cup {new}
    BY <1>1, <1>p, <1>8 DEF CommitApproval
<1>11. \A a \in assignments : <<a.project, a.scope>> = place <=> a \in designReviews[o].deleted
    <2>1. \A a \in assignments \ designReviews[o].deleted : <<a.project, a.scope>> # place
        BY <1>1, <1>p DEF CommitApproval
    <2>2. \A a \in designReviews[o].deleted : a.project = place[1] /\ a.scope = place[2]
        BY <1>1, <1>3 DEF DesignInv, ReviewsInv, CommitApproval, Subject
    <2> QED
        BY <1>3, <1>p, <2>1, <2>2
<1>t. /\ designs \in [Designs -> DesignRow] /\ designReviews \in [Designers -> DesignRequest]
      /\ lastApproved \in [DesignProjects \X Scopes -> Designs \cup {NoDesign}]
      /\ assignments \subseteq Assignment /\ joined \in BOOLEAN
    BY DesignTypes DEF DesignInv
<1>12. /\ designs' \in [Designs -> DesignRow] /\ designs'[d] = row
       /\ \A e \in Designs : e # d => designs'[e] = designs[e]
    BY <1>t, <1>7
<1>13. /\ lastApproved' \in [DesignProjects \X Scopes -> Designs \cup {NoDesign}] /\ lastApproved'[place] = d
       /\ \A x \in DesignProjects \X Scopes : x # place => lastApproved'[x] = lastApproved[x]
    BY <1>t, <1>7
<1>14. NoDesignReview \in DesignRequest /\ NoDesignReview.step = "idle"
    BY DEF NoDesignReview, DesignRequest, Verbs
<1>15. /\ designReviews' \in [Designers -> DesignRequest]
       /\ \A p \in Designers : designReviews'[p] = designReviews[p] \/ designReviews'[p].step = "idle"
    BY <1>t, <1>7, <1>14
<1>16. DesignTypeOK'
    BY <1>7, <1>10, <1>12, <1>13, <1>15, <1>t DEF DesignTypeOK, DesignRequest
<1>17. \A e \in Designs : designs[e].state # "none" =>
         designs'[e].state # "none" /\ designs'[e].project = designs[e].project
         /\ designs'[e].scope = designs[e].scope
    BY <1>3, <1>6, <1>12
<1>18. ReviewsInv'
    BY <1>15, <1>17 DEF DesignInv, ReviewsInv
<1>19. ASSUME NEW a \in Assignment
       PROVE  a \in assignments' <=> lastApproved'[<<a.project, a.scope>>] = a.design
    <2>1. <<a.project, a.scope>> \in DesignProjects \X Scopes
        BY DEF Assignment
    <2>2. CASE <<a.project, a.scope>> = place
        <3>1. a.project = place[1] /\ a.scope = place[2]
            BY <2>2
        <3>2. a = new <=> a.design = d
            BY <1>8, <3>1 DEF Assignment
        <3>3. a \in assignments' <=> a = new
            BY <1>10, <1>11, <2>2
        <3> QED
            BY <1>13, <2>2, <3>2, <3>3
    <2>3. CASE <<a.project, a.scope>> # place
        <3>1. a # new
            BY <1>3, <1>9, <1>p, <2>3
        <3>2. a \in assignments' <=> a \in assignments
            BY <1>10, <1>11, <2>3, <3>1
        <3> QED
            BY <1>13, <2>1, <2>3, <3>2 DEF DesignInv, AssignedInv
    <2> QED
        BY <2>2, <2>3
<1>20. ASSUME NEW x \in DesignProjects \X Scopes, lastApproved'[x] # NoDesign
       PROVE  LET e == lastApproved'[x] IN
              designs'[e].state # "none" /\ designs'[e].project = x[1] /\ designs'[e].scope = x[2]
    <2>1. CASE x = place
        BY <1>6, <1>12, <1>13, <2>1
    <2>2. CASE x # place
        <3>1. lastApproved'[x] = lastApproved[x] /\ lastApproved[x] \in Designs
            BY <1>13, <1>20, <1>t, <2>2
        <3> QED
            BY <1>17, <1>20, <3>1 DEF DesignInv, AssignedInv
    <2> QED
        BY <2>1, <2>2
<1>21. AssignedInv'
    BY <1>19, <1>20 DEF AssignedInv
<1> QED
    BY <1>16, <1>18, <1>21 DEF DesignInv

LEMMA DesignStepInv == DesignInv /\ [DesignNext]_designVars => DesignInv'
<1> SUFFICES ASSUME DesignInv, [DesignNext]_designVars PROVE DesignInv'
    OBVIOUS
<1>1. CASE UNCHANGED designVars
    BY <1>1 DEF designVars, DesignInv, DesignTypeOK, AssignedInv, ReviewsInv
<1>2. CASE JoinFamily
    BY <1>2 DEF JoinFamily, DesignInv, DesignTypeOK, AssignedInv, ReviewsInv
<1>3. ASSUME NEW o \in Designers,
             \/ ClearAssignment(o) \/ CommitApproval(o) \/ SubmitDesign(o) \/ RejectDesign(o) \/ ReviewFails(o)
      PROVE  DesignInv'
    BY <1>3, ClearAssignmentKeeps, CommitApprovalKeeps, CommitStateKeeps, ReviewFailsKeeps
    DEF SubmitDesign, RejectDesign
<1> QED
    BY <1>1, <1>2, <1>3, CreateDesignKeeps, BeginReviewKeeps DEF DesignNext

LEMMA DesignInvariant == DesignSpec => []DesignInv
BY DesignInitInv, DesignStepInv, PTL DEF DesignSpec

-----------------------------------------------------------------------------
(* Theorems about DesignProfiles.                                           *)

\* What is assigned and still approved is what was approved last.
LEMMA AssignedIsStanding ==
  ASSUME DesignInv, NEW project \in DesignProjects, NEW scope \in Scopes
  PROVE  AssignmentRevision(project, scope) = Standing(project, scope)
<1>1. PICK x \in DesignProjects \X Scopes : x = <<project, scope>>
    OBVIOUS
<1>2. lastApproved[x] \in Designs \cup {NoDesign}
    BY DesignTypes DEF DesignInv
<1>3. ASSUME NEW d \in AssignmentRevision(project, scope)
      PROVE  d \in Standing(project, scope)
    <2>1. PICK a \in assignments : a.project = project /\ a.scope = scope /\ a.design = d
        BY DEF AssignmentRevision
    <2>2. lastApproved[<<project, scope>>] = d
        BY <2>1, DesignTypes DEF DesignInv, AssignedInv
    <2> QED
        BY <2>2, DesignAssumption DEF AssignmentRevision, Standing
<1>4. ASSUME NEW d \in Standing(project, scope)
      PROVE  d \in AssignmentRevision(project, scope)
    <2>1. d = lastApproved[x] /\ d # NoDesign /\ designs[d].state = "approved"
        BY <1>1, <1>4 DEF Standing
    <2>2. d \in Designs /\ designs[d].project = project /\ designs[d].scope = scope
        BY <1>1, <1>2, <2>1 DEF DesignInv, AssignedInv
    <2>3. PICK a \in Assignment : a = [project |-> project, scope |-> scope, design |-> d]
        BY <2>2 DEF Assignment
    <2>4. a.project = project /\ a.scope = scope /\ a.design = d
        BY <2>3
    <2>5. a \in assignments
        BY <1>1, <2>1, <2>4 DEF DesignInv, AssignedInv
    <2> QED
        BY <2>1, <2>2, <2>4, <2>5 DEF AssignmentRevision
<1> QED
    BY <1>3, <1>4

\* Every variable has its type, for any revisions and designers.
THEOREM DesignTypeCorrect == DesignSpec => []DesignTypeOK
<1>1. DesignInv => DesignTypeOK
    BY DEF DesignInv
<1> QED
    BY DesignInvariant, <1>1, PTL

\* LastApprovalRules: a project is generated with the profile approved last for
\* it, else with its family's, whatever approvals overlap or fail
\* (approve_design_profile, resolve_design_profile).
THEOREM LastApprovalApplies == DesignSpec => []LastApprovalRules
<1>1. ASSUME DesignInv
      PROVE  LastApprovalRules
    <2>1. ASSUME NEW project \in DesignProjects
          PROVE  EffectiveDesign(project) =
                   IF Standing(project, "project") # {} THEN Standing(project, "project")
                   ELSE Standing(FamilyOf(project), "family")
        <3>1. FamilyOf(project) \in DesignProjects
            BY DEF FamilyOf, DesignProjects
        <3>2. "family" \in Scopes /\ "project" \in Scopes
            BY DEF Scopes
        <3> QED
            BY <1>1, <3>1, <3>2, AssignedIsStanding DEF EffectiveDesign
    <2> QED
        BY <2>1 DEF LastApprovalRules
<1> QED
    BY DesignInvariant, <1>1, PTL
=============================================================================
