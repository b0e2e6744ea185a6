---------------------------- MODULE IndexSchedule ----------------------------
(***************************************************************************)
(* Which pages of a site search engines may index: explicit promotions     *)
(* (api/v1/projects.py), schedules that promote pages batch by batch       *)
(* (api/v1/index_schedules.py, services/index_schedule.py), the index      *)
(* states frozen into candidate builds and the SitePage rows a publication *)
(* leaves behind.                                                          *)
(*                                                                         *)
(* How content gets onto the site is PageDrafts; here ApplyContent and     *)
(* QaRuns stand for its steps.                                             *)
(***************************************************************************)
EXTENDS Naturals, Sequences, FiniteSets

CONSTANTS Addresses, Content, NoPage,
          Pages,                \* the pages that can be applied: [slug, hash] records
          MaxBuilds, MaxSchedules

ASSUME IndexAssumption ==
  /\ NoPage \notin Content /\ Pages \subseteq [slug : Addresses, hash : Content]
  /\ IsFiniteSet(Addresses) /\ {MaxBuilds, MaxSchedules} \subseteq Nat

VARIABLES manifest,     \* content per address in site.manifest
          qaPass,       \* applied contents whose current QA run passes
          everPassed,   \* history: contents that ever passed QA
          promotions,   \* PageIndexPromotion rows
          builds,       \* candidate builds, oldest first
          rows,         \* SitePage.index_source_hash of the live release
          schedules     \* index schedules, by starts_at; time is when Sweep is taken

indexVars == <<manifest, qaPass, everPassed, promotions, builds, rows, schedules>>

Projection == [Addresses -> Content \cup {NoPage}]
\* A build row: the index states frozen into it. A published build is a
\* candidate that was live at some time (published_at is never cleared).
BuildRow == [index : Projection, status : {"queued", "candidate", "failed", "published"}]
ItemRow == [slug : Addresses, hash : Content, batch : Nat \ {0},
            state : {"planned", "prepared", "stale"}, build : Nat]
ScheduleRow == [state : {"draft", "review", "active", "paused", "cancelled", "completed"},
                items : SUBSET ItemRow]

IndexInit ==
  /\ manifest = [s \in Addresses |-> NoPage] /\ rows = [s \in Addresses |-> NoPage]
  /\ qaPass = {} /\ everPassed = {} /\ promotions = {}
  /\ builds = <<>> /\ schedules = <<>>

OnSite(page) == manifest[page.slug] = page.hash
\* A page that may be promoted: applied as it is on the site, last QA passed.
Eligible(page) == OnSite(page) /\ page \in qaPass

-----------------------------------------------------------------------------
(* The site's content moves (PageDrafts).                                  *)

\* A draft with checked content is applied, with a pass or over a warning.
ApplyContent(page, passed) ==
  /\ ~OnSite(page)
  /\ manifest' = [manifest EXCEPT ![page.slug] = page.hash]
  /\ qaPass' = IF passed THEN qaPass \cup {page} ELSE qaPass \ {page}
  /\ everPassed' = IF passed THEN everPassed \cup {page} ELSE everPassed
  /\ UNCHANGED <<promotions, builds, rows, schedules>>

\* A QA run that had read the draft before it was applied commits after it.
LateQa(page) ==
  /\ qaPass' = qaPass \ {page}
  /\ page \in qaPass
  /\ UNCHANGED <<manifest, everPassed, promotions, builds, rows, schedules>>

-----------------------------------------------------------------------------
(* Promotions and candidate builds.                                        *)

CreateIndexPromotion(page) ==
  /\ Eligible(page) /\ page \notin promotions
  /\ promotions' = promotions \cup {page}
  /\ UNCHANGED <<manifest, qaPass, everPassed, builds, rows, schedules>>

\* Mutant of IndexStates: an indexed address stays indexed, whatever it holds.
IndexStatesByAddress(promoted) ==
  [s \in Addresses |->
     IF /\ manifest[s] # NoPage
        /\ \/ [slug |-> s, hash |-> manifest[s]] \in promoted
           \/ rows[s] # NoPage
     THEN manifest[s] ELSE NoPage]

\* _candidate_index_states: promoted now, or already indexed as it is.
IndexStates(promoted) ==
  [s \in Addresses |->
     IF /\ manifest[s] # NoPage
        /\ \/ [slug |-> s, hash |-> manifest[s]] \in promoted
           \/ rows[s] = manifest[s]
     THEN manifest[s] ELSE NoPage]

\* _freeze_candidate_build_input, as a queued build.
Frozen(promoted) ==
  [index |-> IndexStates(promoted), status |-> "queued"]
\* An empty manifest refuses the build. The media and author gates look at
\* reviews outside this module and refuse it at any time: a step not taken.
CanFreeze == Len(builds) < MaxBuilds /\ \E s \in Addresses : manifest[s] # NoPage

Published(b) == builds[b].status = "published"
PendingCandidate == \E b \in DOMAIN builds : builds[b].status = "queued"

\* materialize_project_build: the operator's own candidate.
QueueBuild ==
  /\ CanFreeze /\ ~PendingCandidate
  /\ builds' = Append(builds, Frozen(promotions))
  /\ UNCHANGED <<manifest, qaPass, everPassed, promotions, rows, schedules>>

BuildEnds(b, status) ==
  /\ builds[b].status = "queued"
  /\ builds' = [builds EXCEPT ![b].status = status]
  /\ UNCHANGED <<manifest, qaPass, everPassed, promotions, rows, schedules>>

\* A publication or a rollback: _reconcile_site_page_projection copies the
\* frozen index states to the rows, and rows of other addresses close.
Publish(b) ==
  /\ builds[b].status \in {"candidate", "published"}
  /\ builds' = [builds EXCEPT ![b].status = "published"]
  /\ rows' = builds[b].index
  /\ UNCHANGED <<manifest, qaPass, everPassed, promotions, schedules>>

-----------------------------------------------------------------------------
(* Schedules.                                                              *)

\* The pages in the order of the request, size pages to a batch.
Items(order, size) ==
  {[slug |-> order[i], hash |-> manifest[order[i]], batch |-> ((i - 1) \div size) + 1,
    state |-> "planned", build |-> 0] : i \in DOMAIN order}

Orders == {o \in UNION {[1..n -> Addresses] : n \in 1..Cardinality(Addresses)} :
             \A i, j \in DOMAIN o : o[i] = o[j] => i = j}

CreateIndexSchedule(order, size) ==
  /\ Len(schedules) < MaxSchedules
  /\ \A i \in DOMAIN order : manifest[order[i]] # NoPage
       /\ Eligible([slug |-> order[i], hash |-> manifest[order[i]]])
  /\ schedules' = Append(schedules, [state |-> "draft", items |-> Items(order, size)])
  /\ UNCHANGED <<manifest, qaPass, everPassed, promotions, builds, rows>>

\* submit-review, approve, pause and cancel: under the schedule's row lock.
MoveSchedule(k, from, to) ==
  /\ schedules[k].state \in from
  /\ schedules' = [schedules EXCEPT ![k].state = to]
  /\ UNCHANGED <<manifest, qaPass, everPassed, promotions, builds, rows>>
SubmitIndexSchedule(k) == MoveSchedule(k, {"draft"}, "review")
ApproveIndexSchedule(k) == MoveSchedule(k, {"review"}, "active")
ControlIndexSchedule(k) ==
  MoveSchedule(k, {"active", "paused"}, "paused") \/ MoveSchedule(k, {"active", "paused"}, "cancelled")

\* The sweep takes the oldest active schedule only (limit 1).
HeadSchedule == CHOOSE k \in DOMAIN schedules :
          /\ schedules[k].state = "active"
          /\ \A j \in DOMAIN schedules : schedules[j].state = "active" => k <= j
Planned(k) == {i \in schedules[k].items : i.state = "planned"}
NextBatch(k) == CHOOSE n \in {i.batch : i \in Planned(k)} : \A i \in Planned(k) : n <= i.batch
Batch(k) == {i \in Planned(k) : i.batch = NextBatch(k)}

\* Mutant of PriorPublished: a prepared batch counts as done.
PriorPrepared(k, next) == \A i \in schedules[k].items : i.batch < next => i.build # 0

\* _prior_batches_are_published.
PriorPublished(k, next) ==
  \A i \in schedules[k].items : i.batch < next /\ i.build # 0 => Published(i.build)

\* _validate_batch: the page is still on the site and its QA still passes.
StillValid(items) == \A i \in items : Eligible([slug |-> i.slug, hash |-> i.hash])

WithItems(k, old, new, state) ==
  [schedules EXCEPT ![k].items = (@ \ old) \cup new, ![k].state = state]

\* One sweep: close, pause or prepare the head schedule, or leave it alone.
Sweep ==
  /\ \E k \in DOMAIN schedules : schedules[k].state = "active"
  /\ LET k == HeadSchedule IN
     \/ /\ Planned(k) = {}
        /\ \A i \in schedules[k].items : i.state = "prepared" /\ Published(i.build)
        /\ schedules' = [schedules EXCEPT ![k].state = "completed"]
        /\ UNCHANGED <<promotions, builds>>
     \/ /\ Planned(k) # {} /\ PriorPublished(k, NextBatch(k)) /\ ~PendingCandidate
        /\ \/ /\ ~StillValid(Batch(k))
              /\ schedules' = WithItems(k, Batch(k), {[i EXCEPT !.state = "stale"] : i \in Batch(k)},
                                        "paused")
              /\ UNCHANGED <<promotions, builds>>
           \/ /\ StillValid(Batch(k)) /\ CanFreeze
              /\ promotions' = promotions \cup {[slug |-> i.slug, hash |-> i.hash] : i \in Batch(k)}
              /\ builds' = Append(builds, Frozen(promotions'))
              /\ schedules' = WithItems(k, Batch(k),
                   {[i EXCEPT !.state = "prepared", !.build = Len(builds')] : i \in Batch(k)}, "active")
  /\ UNCHANGED <<manifest, qaPass, everPassed, rows>>

-----------------------------------------------------------------------------
IndexNext ==
  \/ \E page \in Pages, passed \in BOOLEAN : ApplyContent(page, passed)
  \/ \E page \in Pages : LateQa(page) \/ CreateIndexPromotion(page)
  \/ QueueBuild
  \/ \E b \in DOMAIN builds :
       \/ \E status \in {"candidate", "failed"} : BuildEnds(b, status)
       \/ Publish(b)
  \/ \E order \in Orders, size \in 1..2 : CreateIndexSchedule(order, size)
  \/ \E k \in DOMAIN schedules :
       SubmitIndexSchedule(k) \/ ApproveIndexSchedule(k) \/ ControlIndexSchedule(k)
  \/ Sweep

IndexSpec == IndexInit /\ [][IndexNext]_indexVars

-----------------------------------------------------------------------------
(* Properties.                                                             *)

\* Rows keep the columns of their tables.
IndexTypeOK ==
  /\ manifest \in Projection /\ rows \in Projection
  /\ qaPass \subseteq Pages /\ everPassed \subseteq Pages
  /\ promotions \subseteq Pages
  /\ builds \in Seq(BuildRow) /\ schedules \in Seq(ScheduleRow)

\* Search engines only ever see content that passed QA as it stands: in every
\* frozen build and in the live rows, whether an operator or a schedule promoted
\* the page or an earlier release carried it over (_candidate_index_states).
IndexedPassedQa ==
  LET Passed(index) == \A s \in Addresses : index[s] # NoPage => [slug |-> s, hash |-> index[s]] \in everPassed
  IN  Passed(rows) /\ \A b \in DOMAIN builds : Passed(builds[b].index)

\* A schedule opens its pages batch by batch: when a batch is prepared, every
\* earlier batch has been published (_prior_batches_are_published).
BatchesInOrder ==
  \A k \in DOMAIN schedules : \A i, j \in schedules[k].items :
    i.state = "prepared" /\ j.batch < i.batch => j.state = "prepared" /\ Published(j.build)
=============================================================================
