----------------------------- MODULE PageDrafts -----------------------------
(***************************************************************************)
(* From an approved page plan to a page of the site's manifest             *)
(* (api/v1/projects.py): drafts are generated, get media and an author,    *)
(* are checked, submitted and applied or rejected.                         *)
(*                                                                         *)
(* Generating locks the plan and attaching locks the draft: one step each. *)
(* QA, submission, decision and branding lock nothing: Begin reads, Finish *)
(* commits what the handler assigned.  site.manifest is one JSON column,   *)
(* so a handler that changes one page writes back every page it has read.  *)
(***************************************************************************)
EXTENDS Naturals, Sequences, FiniteSets, Functions

CONSTANTS Slugs,       \* approved plans, one page address each
          Content,     \* contents an address can have, by content hash
          NoPage,      \* no content at an address
          MaxDrafts, MaxCalls,
          MaxChecked   \* pages and verdicts remembered in checked

ASSUME DraftsAssumption == NoPage \notin Content /\ {MaxDrafts, MaxCalls, MaxChecked} \subseteq Nat

VARIABLES drafts,     \* page drafts, oldest first
          manifest,   \* page content per address in site.manifest
          withdrawn,  \* pages whose author or portrait lost its approval
          calls,      \* handlers that have read and not yet committed
          checked,    \* history: every QA result that does not block
          overridden  \* history: pages applied over a warning

draftVars == <<drafts, manifest, withdrawn, calls, checked, overridden>>

Manifests == [Slugs -> Content \cup {NoPage}]
\* A site starts with one page: no page at all means no site yet.
NoSite == [s \in Slugs |-> NoPage]
Verdicts == {"pass", "warn", "block"}

\* The last entry of qa_runs; last_qa_verdict always repeats its verdict.
NoRun == [hash |-> NoPage, verdict |-> "none"]
QaRun == [hash : Content, verdict : Verdicts]
DraftRow == [slug : Slugs, state : {"draft", "review", "applied", "rejected"},
             hash : Content, run : QaRun \cup {NoRun}]
Pages == [slug : Slugs, hash : Content]

\* What a handler remembers between its reads and its commit.
CallRow == [op : {"qa", "submit", "apply", "reject", "branding"}, draft : 0..MaxDrafts,
            hash : Content \cup {NoPage},
            override : BOOLEAN, pages : Manifests]

DraftsInit ==
  /\ drafts = <<>>
  /\ manifest = NoSite
  /\ withdrawn = {} /\ calls = {} /\ checked = {} /\ overridden = {}

PageOf(d) == [slug |-> drafts[d].slug, hash |-> drafts[d].hash]

\* Mutant of CurrentRun: any run counts, whatever content it checked.
AnyRun(draft) == draft.run # NoRun

\* _current_qa_run: the last run checked the content the draft has now.
CurrentRun(draft) == draft.run # NoRun /\ draft.run.hash = draft.hash

-----------------------------------------------------------------------------
(* Generation and attachments: under a row lock.                           *)

\* create_page_draft is deterministic, but its inputs (facts, design, plan)
\* may have changed since the last revision.
NewDraft(slug, hash) == [slug |-> slug, state |-> "draft", hash |-> hash, run |-> NoRun]

GeneratePageDraft(slug, hash) ==
  /\ Len(drafts) < MaxDrafts
  /\ drafts' = Append(drafts, NewDraft(slug, hash))
  /\ UNCHANGED <<manifest, withdrawn, calls, checked, overridden>>

\* The batch handler: every plan's draft or none.
GenerateDraftBatch(s1, s2, hash) ==
  /\ s1 # s2
  /\ Len(drafts) + 2 <= MaxDrafts
  /\ drafts' = drafts \o <<NewDraft(s1, hash), NewDraft(s2, hash)>>
  /\ UNCHANGED <<manifest, withdrawn, calls, checked, overridden>>

\* Media, block media or an author: new content, and the QA results go.
Attached(d, hash) == [drafts EXCEPT ![d].hash = hash, ![d].run = NoRun]

\* Mutant of AttachDraftMedia: the state is not checked under the lock.
AttachToAnyDraft(d, hash) ==
  /\ hash # drafts[d].hash
  /\ drafts' = Attached(d, hash)
  /\ UNCHANGED <<manifest, withdrawn, calls, checked, overridden>>

AttachDraftMedia(d, hash) ==
  /\ drafts[d].state = "draft"
  /\ hash # drafts[d].hash
  /\ drafts' = Attached(d, hash)
  /\ UNCHANGED <<manifest, withdrawn, calls, checked, overridden>>

\* Only an approved author with a verified portrait can be attached.
AttachDraftAuthor(d, hash) ==
  /\ [slug |-> drafts[d].slug, hash |-> hash] \notin withdrawn
  /\ AttachDraftMedia(d, hash)

\* Outside this file: the author's revision or the portrait's licence ends,
\* here for one page.
WithdrawApproval(page) ==
  /\ withdrawn = {}
  /\ withdrawn' = {page}
  /\ UNCHANGED <<drafts, manifest, calls, checked, overridden>>

-----------------------------------------------------------------------------
(* Handlers without a lock: read.                                          *)

Begin(op, d, hash, override, pages) ==
  /\ Cardinality(calls) < MaxCalls
  /\ calls' = calls \cup {[op |-> op, draft |-> d, hash |-> hash,
                           override |-> override, pages |-> pages]}
  /\ UNCHANGED <<drafts, manifest, withdrawn, checked, overridden>>

BeginDraftQa(d) == drafts[d].state \in {"draft", "review"} /\ Begin("qa", d, drafts[d].hash, FALSE, NoSite)

BeginSubmitDraftReview(d) ==
  /\ drafts[d].state = "draft" /\ CurrentRun(drafts[d])
  /\ Begin("submit", d, NoPage, FALSE, NoSite)

BeginApplyPageDraft(d, override) ==
  /\ drafts[d].state = "review" /\ CurrentRun(drafts[d])
  /\ \/ drafts[d].run.verdict = "pass"
     \/ drafts[d].run.verdict = "warn" /\ override
  /\ PageOf(d) \notin withdrawn
  /\ Begin("apply", d, drafts[d].hash, override, manifest)

BeginRejectPageDraft(d) ==
  drafts[d].state \in {"draft", "review"} /\ Begin("reject", d, NoPage, FALSE, NoSite)

\* update_project_branding writes the whole manifest back as well.
BeginBranding == manifest # NoSite /\ Begin("branding", 0, NoPage, FALSE, manifest)

-----------------------------------------------------------------------------
(* ... and commit.                                                         *)

FinishDraftQa(call, verdict) ==
  /\ call.op = "qa"
  /\ calls' = calls \ {call}
  /\ drafts' = [drafts EXCEPT ![call.draft].run = [hash |-> call.hash, verdict |-> verdict]]
  /\ checked' = IF verdict = "block" THEN checked
                ELSE checked \cup {[slug |-> drafts[call.draft].slug, hash |-> call.hash,
                                    verdict |-> verdict]}
  /\ Cardinality(checked') <= MaxChecked
  /\ UNCHANGED <<manifest, withdrawn, overridden>>

SetState(call, state) ==
  /\ calls' = calls \ {call}
  /\ drafts' = [drafts EXCEPT ![call.draft].state = state]

FinishSubmitDraftReview(call) ==
  /\ call.op = "submit"
  /\ SetState(call, "review")
  /\ UNCHANGED <<manifest, withdrawn, checked, overridden>>

\* The first apply creates the site; a second one that also found none fails
\* on the site's unique domain and leaves nothing behind.
FinishApplyPageDraft(call) ==
  /\ call.op = "apply"
  /\ LET page == [slug |-> drafts[call.draft].slug, hash |-> call.hash]
     IN  IF call.pages = NoSite /\ manifest # NoSite
         THEN /\ calls' = calls \ {call}
              /\ UNCHANGED <<drafts, manifest, overridden>>
         ELSE /\ manifest' = [call.pages EXCEPT ![page.slug] = page.hash]
              /\ overridden' = IF call.override THEN overridden \cup {page} ELSE overridden
              /\ SetState(call, "applied")
  /\ UNCHANGED <<withdrawn, checked>>

FinishRejectPageDraft(call) ==
  /\ call.op = "reject"
  /\ SetState(call, "rejected")
  /\ UNCHANGED <<manifest, withdrawn, checked, overridden>>

FinishBranding(call) ==
  /\ call.op = "branding"
  /\ calls' = calls \ {call}
  /\ manifest' = call.pages
  /\ UNCHANGED <<drafts, withdrawn, checked, overridden>>

-----------------------------------------------------------------------------
DraftsNext ==
  \/ \E slug \in Slugs, hash \in Content : GeneratePageDraft(slug, hash)
  \/ \E s1, s2 \in Slugs, hash \in Content : GenerateDraftBatch(s1, s2, hash)
  \/ \E d \in DOMAIN drafts :
       \/ WithdrawApproval(PageOf(d))
       \/ \E hash \in Content : AttachDraftMedia(d, hash) \/ AttachDraftAuthor(d, hash)
       \/ BeginDraftQa(d)
       \/ BeginSubmitDraftReview(d)
       \/ \E override \in BOOLEAN : BeginApplyPageDraft(d, override)
       \/ BeginRejectPageDraft(d)
  \/ BeginBranding
  \/ \E call \in calls :
       \/ \E verdict \in Verdicts : FinishDraftQa(call, verdict)
       \/ FinishSubmitDraftReview(call)
       \/ FinishApplyPageDraft(call)
       \/ FinishRejectPageDraft(call)
       \/ FinishBranding(call)

DraftsSpec == DraftsInit /\ [][DraftsNext]_draftVars

-----------------------------------------------------------------------------
(* Properties.                                                             *)

\* Rows keep the columns of their tables and a manifest names known content.
DraftsTypeOK ==
  /\ drafts \in Seq(DraftRow) /\ Len(drafts) <= MaxDrafts
  /\ manifest \in Manifests
  /\ withdrawn \subseteq Pages /\ overridden \subseteq Pages
  /\ calls \subseteq CallRow
  /\ checked \subseteq [slug : Slugs, hash : Content, verdict : Verdicts]

CheckedAs(page, verdict) ==
  [slug |-> page.slug, hash |-> page.hash, verdict |-> verdict] \in checked

\* Exactly the content on the site was checked: it passed QA, or it was warned
\* about and the operator overrode the warning.  QA, attachments, submission,
\* apply and branding run without a common lock (apply_page_draft).
OnSiteChecked ==
  \A slug \in Slugs : manifest[slug] # NoPage =>
    LET page == [slug |-> slug, hash |-> manifest[slug]]
    IN  CheckedAs(page, "pass") \/ (CheckedAs(page, "warn") /\ page \in overridden)

\* The content of a draft cannot change once it was submitted, although the
\* submission itself takes no lock (attach_draft_media, attach_draft_author).
ReviewedContentFrozen ==
  [][\A d \in DOMAIN drafts : drafts[d].state # "draft" => drafts'[d].hash = drafts[d].hash]_draftVars
=============================================================================
