# Site Panel: a verification project in TLA+

Site Panel is a single-operator panel that plans, builds, publishes and watches
a handful of small static sites. Its back end (`src/apps/api/app`) is one
FastAPI process (`uvicorn`, one event loop), one ARQ worker process with cron
sweeps and several tasks at a time, PostgreSQL, Redis as the worker's message
queue, and a Caddy server configured over HTTP. Sites are directories of static
files. The panel is itself deployed as releases on a server, by shell scripts
and GitHub workflows.

Every module is a translation of the source; `PROJECT.json` gives for each
definition the lines it stands for, lists the components and, line by line, the
hazards the properties are for. Comments in the modules name the functions.

## 1. Inventory of the system

| part (source) | state it keeps | operations | what is hard |
|---|---|---|---|
| Scheduler (`services/scheduler.py`, `worker.py`, `api/v1/scheduled_work.py`, `services/site_build_queue.py`) | `SchedulerJob`, `SchedulerWakeup`, `SchedulerProjectTurn`, status of the source rows | create, dispatch, publish a wakeup, recover, claim, run, complete; pause, resume, cancel, retry | sweeps, messages delivered twice, workers that die or outlive their lease, requests on rows being worked on |
| Lead intake (`api/v1/leads.py`, `api/v1/lead_routing.py`) | `Lead` with its idempotency key, `LeadRoutingPolicy` | submit a form, qualify; draft, approve, activate, pause a policy | a form sent twice, a policy activated meanwhile |
| Lead delivery (`services/webhook_delivery.py`, `api/v1/leads.py`) | `WebhookDelivery` rows, `LeadDeliveryAggregate`, `Lead.crm_status` | create with the lead, claim, send, record, recover, resend | two transactions around a network call, four callers, aggregates computed from stale rows |
| Publication and rollback (`api/v1/projects.py`, `packages/ssg` `builder.py`) | `SiteBuild`, `Site.build_hash`, directories, links `current` and `previous` | build, legal review, publish, rollback, compensate | database and file system change apart, a network call in between, no lock on the site |
| Release retention (`services/site_release_retention.py`) | directories | delete old unreferenced releases | works from what it read before |
| Integrity sweep (`services/site_integrity.py`) | `Site.integrity_hash`, `AlertIncident` | compare, pin, open and resolve | reads the row first and the tree later |
| Planning (`api/v1/projects.py`, `semantic.py`, `site_structure.py`) | facts, keyword and place selections, semantic collections, structures, page plans | edit, confirm, submit, approve, reject | review handlers that lock nothing |
| Page drafts and QA (`api/v1/projects.py`, `services/qa.py`) | drafts, QA verdicts, `site.manifest` | generate, attach, check, submit, apply, reject | what was checked is not what is applied; one JSON column for all pages |
| Index promotions and schedules (`api/v1/index_schedules.py`, `services/index_schedule.py`) | promotions, schedules and items, index states of builds | promote, prepare a batch, pause, complete | stale content, batches across publications |
| Competitor crawl (`services/competitor_crawl.py`, `api/v1/competitors.py`) | queue, seen set, progress, pages | fetch, enqueue, stop, approve the evidence | cycles, limits, cancellation between pages |
| Keyword sources (`api/v1/keywords.py`, `semantic_sources.py`, `services/bukvarix_queue.py`) | keyword store, project rows, sources, Bukvarix runs | import, select, record, run, commit | a selection replaced while a run that names it waits |
| City families (`api/v1/project_families.py`, `site_structure.py`) | children, their plans | create, materialize | all pages once in every selected child, or nothing |
| AI runs and budget (`services/ai_budget.py`, `api/v1/ai_content.py`, `ai_workspace.py`, `worker.py`) | `AIRun` with its cost | quote, reserve, call, decide, use | concurrent reservations, a worker that dies after the provider has answered |
| Managed prompts (`api/v1/prompts.py`, `services/managed_prompts.py`) | revisions, evaluation runs | draft, review, evaluate, activate | overlapping reviews without a lock |
| Operator alerts (`services/operator_alerts.py`) | transports, recipient, deliveries with leases | alert, claim, send, settle, recover | a lease without a fence, answers that are lost |
| Incidents, site monitor (`services/operations.py`, `site_monitor.py`, `api/v1/panel.py`) | `AlertIncident` | observe, acknowledge, resolve, clear | several observers of one signal |
| Data retention (`services/storage_retention.py`) | retention runs | preview, confirm, schedule, execute | policy and ages change between preview and execution |
| Telemetry consent (`api/v1/telemetry.py`, `services/telemetry_retention.py`) | events, daily counts, withdrawn sessions | collect, withdraw, roll up, expire | a withdrawal that meets a collection or a roll-up |
| Sessions (`api/v1/auth.py`, `api/v1/panel.py`) | `AuthSession` families, the browser's cookie | log in, refresh, log out, dismiss | two tabs refreshing with one cookie |
| System operations (`api/v1/system.py`, `services/github_control.py`) | `SystemOperation` rows | request, dispatch, poll, webhook | answers applied in any order |
| Panel releases (`scripts/release-manager.sh`, `backup-production.sh`, `restore-production.sh`) | directories, links, state file | install, activate, roll back, recover, back up, restore | a kill between any two steps |
| Design profiles (`api/v1/design_profiles.py`) | revisions, assignments | submit, approve, reject, join a family | overlapping approvals |
| Authors, media reviews, audit log (`api/v1/authors.py`, `api/v1/media.py`, `services/audit.py`) | revisions, a portrait's licence, a hash chain | submit, decide, append | one log for handlers that lock nothing else |
| Geo, blocks, taxonomy, uploads, domains, AI provider profiles, analytics, personal data requests | rows | edits in one transaction | little beyond what the database gives |
| Rendering, front end, migrations, installers | none that matters here | | pure functions, clients, one-off scripts |

How they interact: a request creates a source row (a build, a crawl, a keyword
fetch) with its job in one transaction; the minute sweep leases one job and sends
a message through Redis; the worker's task claims the lease, runs the source and
settles both rows. Facts and keywords carry page plans, plans carry drafts,
drafts that passed QA become pages of the manifest, promotions decide which of
them may be indexed, and a build freezes all of it. A build that becomes `ready`
leaves a directory; the operator reviews and publishes it, which moves links,
calls Caddy and writes the site row. Published sites produce leads, whose
deliveries the worker sends. Sweeps watch the published release, prune old ones,
open incidents and alert the operator. Everything shares PostgreSQL; sessions are
opened with `expire_on_commit=False` (`db/session.py:18`), so a row that a task
has loaded stays in its memory as it was, over commits and over later
`SELECT ... FOR UPDATE` without `populate_existing`. Much of what the models show
follows from this one line, and from the review handlers that read a row without
a lock and write only the columns they assign.

What makes each part correct, in words: at most one job is active, a lease is
worked on once, job and source agree, work that started is not repeated and gives
its slot back, projects take turns; a lead is stored once and goes where one
policy in force says; a delivery is sent by one session at a time, is settled in
the end, never reopened when delivered, and its aggregate is right; what visitors
are served is what the site row says, was vetted, and is never pruned; a mismatch
is reported and a report is true; what leaves the draft state rests on confirmed
facts, what is on the site was checked as it stands, what is indexed passed QA; a
crawl ends and a complete one is complete; the budget is never exceeded and a
provider is called once per run; an operator is told once, incidents tell the
state of drafts, deletion keeps to what was confirmed, consent withdrawn stays
withdrawn, a family has one live session, the panel has a way back.

## 2. Modules

### The core: work, leads, releases

* `Scheduler.tla` (with `MCScheduler`, `SchedulerProofs`). `jobState`,
  `jobLease`, `src` are the job and source rows; `pending` and `msgs` are wakeup
  rows and Redis messages (never removed: any message may arrive again); `taskPc`
  is the executor of a lease. Transactions on a locked row are one action; a read
  without a lock and the write that follows are two (`ReadSource`/`WriteSource`,
  `ReadCrawl`/`CancelDomainCrawl`). An operator's request takes the job row's
  lock in an action of its own, so the sweep's `SKIP LOCKED` matters. Priority
  and age within a project are left open: any due job of the project may be next.
* `LeadDelivery.tla` (with `MCLeadDelivery`, `LeadDeliveryProofs`). One lead and
  its deliveries. `process_delivery` is `Claim`, `StartSending` (commit),
  `Finish`, `Record` (commit); `recover_expired_leases` is `ReadExpired`,
  `Recover`. Sessions carry their copies of `attempt_count`, `crm_status` and the
  aggregate, and a commit writes only the columns that differ from the copy
  (`AggWritten`, `CrmWritten`), as SQLAlchemy does.
* `Release.tla` (with `MCRelease`, `ReleaseProofs`). One site: builds and their
  directories, reviews, `Publish`/`Rollback` with `LinkPrevious`, `LinkCurrent`,
  then Caddy, then `Commit` or `CaddyFails` with the restoration; `Crash` and
  `CommitFails`; the pruning as reads of the site, of the rows and of the tree,
  followed by single deletions. Two builds of unchanged input have one hash.
* `SiteIntegrity.tla` (with `MCSiteIntegrity`) extends `Release` with the
  integrity sweep: a composition in which the sweep steps between the steps of
  publications, crashes and prunings.

### Content, from facts to search engines

* `Planning.tla`. Facts (append-only revisions), selections, collections,
  structures and plans. `Begin` reads a row and checks its state, `Finish` checks
  the rest and commits the columns the handler assigned, computed from the row as
  read; handlers that lock or only insert are one step.
* `PageDrafts.tla` (with `MCPageDrafts`, `PageDraftsProofs`). Drafts, their
  contents by hash, QA verdicts, and the manifest, one JSON column that is read
  and written whole.
* `IndexSchedule.tla`. Explicit promotions, the sweep of schedules, the index
  states frozen into builds, and the rows a publication leaves. `ApplyContent` and
  `QaRuns` stand for `PageDrafts`.
* `MCContent` checks `Planning` and `IndexSchedule` in one run. `ContentProofs`
  proves about both, and about `AuthorReviews` and `DesignProfiles`.

### Research, AI and prompts

* `Crawl.tla`: one run of the crawler after its lease was claimed; the sitemap
  queue, the page queue, the progress column that is changed in place and so
  never written, cancellation.
* `KeywordSources.tla`: a replaced selection gets new rows, so a row is a phrase
  and a generation; sources and Bukvarix results name rows.
* `CityFamily.tla`: children of a master and the plans its structures make there.
* `AIRuns.tla` with `SpendLedger.tla`: the steps of a run are commits; the budget
  is reserved under an advisory lock. The abstract ledger knows only the sum
  committed; `Ledger == INSTANCE SpendLedger WITH committed <- ...` maps the rows
  to it.
* `Prompts.tla`: one prompt's revisions, evaluations and
  the one a run gets, with requests that read a row and write later.
* `MCResearch` checks these five in one run; `ResearchProofs` proves about them.

### Operations

* `OperatorAlerts.tla` with `Outbox.tla`: sweeps
  claim, send and settle deliveries; an answer may be lost and a worker may die.
  `Box == INSTANCE Outbox WITH box <- Shown(deliveries)`: each delivery is opened
  once, stays open while it is tried, and ends once.
* `Incidents.tla`, `Retention.tla`, `TelemetryConsent.tla`, `PanelRelease.tla`,
  `Sessions.tla`, `SystemOperations.tla`, `LeadIntake.tla`, `DesignProfiles.tla`,
  `AuthorReviews.tla`: the headers say which handlers each one models and where a
  handler is cut into steps.
* `MCOperations` checks these ten in one run. `OperatorProofs` proves about
  `OperatorAlerts`, `Incidents`, `Retention`, `TelemetryConsent` and `LeadIntake`,
  `AdministrationProofs` about `Sessions`, `SystemOperations` and `PanelRelease`.

`MCContent`, `MCResearch` and `MCOperations` are disjoint sums, not compositions:
the components share no state, so `part` is chosen in the initial state, only
that component's actions are taken, and the graph is the disjoint union of the
components' graphs. A property of one component is checked on all of its states.

Definitions called faulty variants are plausible bugs next to the definition they
would replace; they are used by no specification. Each property has one that
breaks it.

## 3. Runs

| run | instance | shows |
|---|---|---|
| `scheduler_on_time` | a build, a crawl, a Bukvarix run; 2 projects; 2 leases; punctual worker | `OneActiveJob`, `OneExecutor`, `Agreement`, `NoReplay`, `NoSecondTurn` |
| `scheduler_live` | a crawl and a Bukvarix run, fairness | `SlotIsFreed`, `RunningEnds` |
| `scheduler_stuck` | a build and a crawl that may outlive their lease, fairness; violation | `RunningEnds`: a source stays `running` and holds the only slot for ever |
| `lead_delivery` | 2 deliveries, 2 sessions, 1 crash, 1 resend, 2 attempts, fairness | `OneSender`, `SettledAggregate`, `DeliveredStays`, `Settles` |
| `lead_crm` | same, violation | `CrmAgrees`: `lead.crm_status` stays behind the aggregate |
| `release` | 2 builds of different contents, 2 requests (symmetric), 1 failure, newest 1 kept | `ServesDb`, `OnlyVetted`, `ReadyKept` |
| `release_overlap` | same without failures, violation | `AlwaysServesDb`: overlapping publications part row and link |
| `site_integrity` | 2 builds, 1 request, 1 failure, the sweep, fairness | `MismatchReported`, `AlarmClears` |
| `content` | planning: 2 facts, 1 collection, 1 structure, 2 plans of one address, 2 overlapping handlers; index: a page with 2 contents (symmetric), one with 1, 2 builds, a schedule of 2 batches | `PinnedFactsConfirmed`; `IndexedPassedQa`, `BatchesInOrder` |
| `page_drafts` | 2 drafts, 2 addresses, 2 contents, 2 overlapping handlers (symmetric) | `OnSiteChecked`, `ReviewedContentFrozen` |
| `research_ai` | a site of 3 pages and 2 sitemaps that link in circles; 2 phrases, 2 selections, 2 sources, 2 runs; 2 cities, 2 structures; 2 AI runs with a limit of one; 2 prompt revisions, 2 reviewers, 2 packaged releases | `DoneIsComplete`, `CrawlEnds`; `ProvenanceHeld`; `MaterializedOnce`; `CalledOnce`, `UsedOnce`, `WithinLedger`; `PromptVetted` |
| `operations` | see `Operations.cfg`: two of each actor, two of most rows | `TakenOnce`, `WithinOutbox`; `IncidentsAgree`; `PurgedAsConfirmed`; `ConsentKept`; `WayBack`; `OneLiveSession`; `OneWorkflowAtOnce`; `LeadRouted`; `LastApprovalRules`; `LogTellsState` |

Type invariants are not listed in the configurations: each is a theorem, or part
of the inductive invariant of its component (`KeywordSources`, `CityFamily`,
`TelemetryConsent`).

### Where the code disagrees with itself

Three runs end in a violation, each against a line the code or its tests say of
the program; `PROJECT.json` quotes both sides. The following were met as well and
have no run:

* A task whose lease has lapsed still completes: the completion is not fenced and
  overwrites a job that was meanwhile recovered. An accepted cancellation can be
  overwritten by the outcome of the run (`services/scheduler.py`).
* `site_integrity.py:129` pins `integrity_hash` for the first release it sees and
  nothing renews it: every later publication raises an incident for a release that
  is exactly the one the row names. `AlarmClears` therefore asks only for releases
  the pin is about.
* `projects.py:1283`: the commercial plan gets version 1 although a rejected plan
  of the address has a higher version; a second open plan of the address can
  follow. `projects.py:2553`: of two applies that overlap, one page is lost from
  the manifest while its draft says `applied`.
* `competitor_crawl.py:406`: the page limit is compared with a column changed in
  place and reloaded, so it stops no crawl of two pages or more; `MaxSeen` does.

### Bounds, and why they are enough

`MaxLease = 2`: the properties of leases need a first lease, its end, and a
second one of the same or another job; an old executor, its message or its wakeup
then meets the new lease. With three jobs of three types every runner and every
pair of them meets at the capacity of one. `MaxAttempts = 2`, one crash and one
resend give every order of a retry, a last attempt, a lost attempt and a reopened
delivery; two deliveries and two sessions give every pair at the aggregate. Two
builds and two requests give each overlap of a first publication, a replacement
and a rollback; one failure suffices to leave a link behind, after which every
later request is explored. `KeepNewest = 1` in place of 3 only lets the pruning
delete with fewer directories.

The hazards of the other components are between two actors on one row or on two
rows of one kind: two overlapping handlers (`MaxCalls`, `Reviewers`, `Officers`,
`Designers`, `Approvers`, `Clients`, `Senders`, `Tabs`) meet in every order, on
two revisions, so that a second revision or a second version meets what is left
of the first. Histories are cut by a bound on rows (`MaxPlans`, `MaxAIRuns`,
`MaxIncidents`, `MaxSessions`, `MaxRecords`, ...): the smallest that lets the
hazard complete, be repaired, and meet its successor. A batch order needs two
batches and two builds; the crawler's limits need a cycle of pages, a cycle of
sitemaps, and one page beyond each limit; the budget needs two requests that each
fit and do not fit together; the alerts two attempts, a crash and a lost answer;
the panel three releases, since a cleanup keeps two; the consent three days,
since a roll-up looks back one. The theorems below remove the bounds for what
they state.

### Parameters that say what is assumed

`Punctual` (Scheduler): ARQ ends a task after 600 s, the lease runs 600 s from the
claim, so a worker whose clock and event loop behave has no live task when the
lease lapses. `scheduler_stuck` has `Punctual = FALSE`. In `LeadDelivery` a send
(10 s client timeouts) ends before its lease of 300 s. `OnTime` (OperatorAlerts)
says the same of a dispatch and its 300 s lease; without it `WithinOutbox` and
`TakenOnce` fail, because the verdict is written without a look at the lease.
`Apart` (Release): a build does not reuse an old directory while the nightly
pruning goes on. The code does not exclude it; it takes a directory older than 90
days without a ready row, left by a failed build, and a retry at 04:11. With
`Apart = FALSE` `ReadyKept` fails.

### Fairness

Scheduler: the minute sweep recovers expired leases (strong fairness, because an
operator's request can hold the row now and then), time passes, a task ends by
itself or is ended by `job_timeout`, a request ends. Nothing is assumed of Redis
or of the operator, and no message need arrive. Lead delivery: time passes, the
sweep of every five minutes recovers and offers every due row, a started session
goes on until it ends or dies; strong fairness where a lock that others take and
release is needed. Integrity: the sweep is started again and again, and not every
one of them dies. Crawl: the crawler's loop goes on while its worker lives (weak
fairness of its own steps; a worker that dies is the scheduler's business). All
other properties are safety and assume none.

Deadlock is checked in the scheduler, release and integrity runs.
`CHECK_DEADLOCK FALSE` elsewhere: once the deliveries have settled and the
resends are used up, or a bounded history of rows has ended, nothing is left to do.

## 4. Proofs

Checked by TLAPS for every value of the constants (any number of jobs, leases,
deliveries, sessions, builds, requests, revisions, drafts, tabs and so on), from
the named assumptions on the constants only.

* `SchedulerProofs`: `TypeCorrect`, `CapacityRespected`, `SingleExecutor`,
  `JobsAgree`, `NothingReplayed`, `LeaseClaimedOnce`, `FairRotation`. None of the
  invariants is inductive alone. One job is active only because a running source
  without an active job is counted too; one executor per lease because a lease is
  issued once, its message names one job, and a job holds at most the lease it
  was issued; agreement needs what each program counter implies of the rows; the
  rotation compares the projects that have passed with the turns that were given.
  The strengthenings are stated there, with one step per action.
* `LeadDeliveryProofs`: `TypeCorrect`, `SentByOne`, `AggregateRight`,
  `AttemptsWithinBudget`, `DeliveredForGood`. The invariant says what a session
  in each step holds: its row lock or lease, a copy of the attempts that equals
  the column, and, for the aggregate, that the last one to settle a delivery under
  the lead's lock writes every column that differs from the truth although claims
  and the sweep write stale counts in between (`MergeInv`). The budget counts
  attempts that died (`Counted`, `Spare`).
* `ReleaseProofs`: `TypeCorrect`, `PruningKeeps`, `ServedVetted`, `RowAndLink`.
  Retention needs what the pruning holds in each step (`KeepInv`): it started with
  no build running, none starts, and every ready build is in `keep` once the rows
  are read. What is served was vetted because whatever can become current is: the
  candidate of every open request and the copy of the row that a failure restores
  (`VetInv`). Row and link agree because a request that is alone holds the row as
  it is (`AloneInv`), each of its steps leaves both links where the restoration
  recognises them, and the restored directory is still there by the first part
  (`CleanInv`).
* `ContentProofs`, four components. `DecisionsRestOnFacts`: `PinnedInv` says it of
  structures, plans and the project; a handler decides with the row it read, so
  `PendingInv` adds that a decision under way read a row that had left the draft
  state, to which nothing takes it back. `OnlyPassedIndexed`: whatever is promoted,
  frozen into a build or shown by the rows passed once (`PassInv`).
  `SchedulesInOrder`: the order is inductive once items become stale only as their
  schedule is paused for good, and prepared items have their build (`ItemInv`).
  `LogIsTrue`: one request holds the end of the log (`HoldInv`), its subject fits
  its verb (`SubjectInv`), and the last record about a revision says its state
  (`Told`). `LastApprovalApplies`: what is assigned is what was approved last
  (`AssignedInv`), and an approval under way deletes rows of its own project and
  scope only (`ReviewsInv`).
* `PageDraftsProofs`: `DraftTypeCorrect`, `SiteContentChecked`,
  `SubmittedContentFrozen`. Handlers carry whole manifests in memory and write them
  back, so every manifest that a handler still remembers is in order
  (`CallInv`), and the result a draft shows was recorded (`RunInv`).
* `ResearchProofs`, five components. `RunsImplementLedger` is the refinement of
  `SpendLedger`: `AIInv` gives each request the row it reserved alone until the
  answer is there (`AIRequestInv`, `AIQueueInv`), a committed cost then grows under
  the advisory lock only, within the limit, and is given back otherwise. The sum is
  the recursive function `Total`; since induction theorems cannot be instantiated,
  its lemmas (a row appended, a row lowered) go by partial sums and the least
  counterexample. `ProviderCalledOnce` and `ApprovalUsedOnce` read off the same
  invariant (`AIRowsInv`). `OnlyVettedRun`: only vetted revisions are active or
  about to be, and no request takes back a decision or an evaluation
  (`PromptsVetted`, `PromptsKept`). `ProvenanceKept`: results name rows of the
  selection, and what a run committed is a source whose rows it found
  (`ResultsHeld`). `PagesMadeOnce`: an open plan is the latest of its address
  (`OnceInv`), which is why a handler that looks only at the latest plan sees every
  open one. `DoneVisitedAll`: while a crawl is running, what it discovered is
  stored or queued (`DiscoveredInv`; a crawl that was cancelled may drop the head
  of its queue), and the links of a fetched page are discovered or the limit is
  hit (`LinkedInv`). `CrawlTypeCorrect` includes that limit.
* `OperatorProofs`, five components. `AlertsImplementOutbox`, the refinement, and
  `MessagesTakenOnce`, both under `OnTime`: a sweep that has claimed or sent holds
  its row under a running lease (`Leased`) and alone (`Alone`); a message was taken
  once more than there were doubts only where the row has ended or its sweep knows
  it and is about to end it (`Counted`, `CountedApi`); each step then opens
  deliveries, ends one, or is a stutter of the outbox (`BoxStep`).
  `IncidentsTellDrafts` is inductive with the types. `DeletesAsConfirmed`: the run
  being executed has the policy of the running code, since a deployment ends the
  worker (`PurgeInv`). `WithdrawalHeld`: the invariant adds the collection under
  way, and that only complete days are counted (`TelemetryInv`). `LeadsRouted`: a
  form under way has seen every policy that came into force and is routed by one of
  them (`PendingInv`), a key has one lead, stored or on its way (`KeyInv`), and a
  policy that was made never changes its destinations (`RoutedInv`).
* `AdministrationProofs`, three components. `OneSessionPerFamily`: a locked row is
  not revoked and one tab holds it (`Holding`), what waits for a row is a refresh
  (`Asking`), cookies and families name rows that exist (`Located`), and each
  locked row has room for its replacement (`Reserved`). `NeverTwoWorkflows`: a row
  under way is held by one client (`HolderInv`), a poll that saw a conclusion saw
  the last word (`PollInv`), and a closed row has a workflow that ended or never
  will begin (`ClosedInv`). `PanelRecoverable`: what each step of a command has
  done to the links and the state file (`CommandInv`, `RecordInv`).

Each module also proves the type invariants that its components state, that of
`TelemetryConsent` as a part of `TelemetryInv`. All safety properties, action properties and both refinements of the passing runs are
theorems. The assumptions on the constants that the proofs use are those the code
gives: addresses, sites and keys form finite sets (a column has a length), and the
values that stand for "none" are not rows.

Model-checked only: the liveness properties `SlotIsFreed`, `RunningEnds`,
`Settles`, `MismatchReported`, `AlarmClears` and `CrawlEnds` (fairness and
`ENABLED` are out of the prover's reach), and with them all that is stated of
`SiteIntegrity`, whose safety is `Release`'s. No module declares a recursive
operator; `Total` in `AIRuns` is a recursive function.

## 5. Not modelled

* Geo lookups, blocks, taxonomy and uploads: versioned rows of one operator, each
  change one transaction that locks nothing another component waits for.
* Rendering of pages, schema.org, sitemaps, redirects: pure functions of the
  manifest, here a content hash. The rules of QA are a choice of the verdict.
* HTTP, SMTP and Telegram transport, Caddy, AI providers, Bukvarix, GitHub:
  external, their answer (or its loss) is a choice.
* Domains and DNS checks, AI provider profiles, personal data requests,
  hardening, MFA, cryptography: single transactions or pure functions. Analytics
  and metrics: counters nothing else reads. The worker's heartbeat: one row with a
  time.
* The front end keeps no authoritative state. Migrations, installers and CI run
  once.
* Tenancy: the panel has one operator and every query is scoped alike.
* The gates of a build and of a publication that look at media and author reviews:
  in `IndexSchedule` and `Release` a refusal that may come at any time.
* Scheduler: rows from before the scheduler, priority and age within a project
  (left open), `publish_attempts`, the source identity check of a frozen snapshot.

Simplifications of what is modelled are named in the components' notes in
`PROJECT.json`.

## 6. Running it

    tlc -config SchedulerOnTime.cfg MCScheduler
    tlc -config SchedulerLive.cfg MCScheduler
    tlc -config LeadDelivery.cfg MCLeadDelivery
    tlc -config Release.cfg MCRelease
    tlc -config SiteIntegrity.cfg MCSiteIntegrity
    tlc -config Content.cfg MCContent
    tlc -config PageDrafts.cfg MCPageDrafts
    tlc -config Research.cfg MCResearch
    tlc -config Operations.cfg MCOperations
    tlapm SchedulerProofs.tla          (and the other seven *Proofs modules)

`Content.cfg` is the largest instance, 2.7 million distinct states, about two
minutes with two workers; the others take seconds to a minute.
