-------------------------- MODULE PageDraftsProofs --------------------------
(***************************************************************************)
(* Theorems about PageDrafts, for any addresses, contents, drafts and      *)
(* overlapping handlers: the types, that the content on the site was       *)
(* checked as it is, and that a draft is frozen once it left its state.    *)
(*                                                                         *)
(* A handler that commits late writes what it read, so the invariant has   *)
(* to say of every handler under way what the site will need of it: the    *)
(* manifests it holds were in order and the page it applies was let        *)
(* through.  Both stay true because results and overrides are only added   *)
(* and a draft never changes its address.                                  *)
(***************************************************************************)
EXTENDS PageDrafts, SequenceTheorems, TLAPS

-----------------------------------------------------------------------------
(* The inductive invariant.                                                *)

Result(slug, hash, verdict) == [slug |-> slug, hash |-> hash, verdict |-> verdict]

\* The recorded results let a page through, a warning only when it is waived.
LetThrough(slug, hash, results, waived) ==
  \/ Result(slug, hash, "pass") \in results
  \/ Result(slug, hash, "warn") \in results /\ waived

\* Every page of a manifest was checked as it is.
InOrder(pages, results, waivers) ==
  \A slug \in Slugs : pages[slug] # NoPage =>
    LetThrough(slug, pages[slug], results, [slug |-> slug, hash |-> pages[slug]] \in waivers)

\* The result a draft shows is one that was recorded for its address.
RunInv ==
  \A d \in DOMAIN drafts : drafts[d].run # NoRun /\ drafts[d].run.verdict # "block" =>
    Result(drafts[d].slug, drafts[d].run.hash, drafts[d].run.verdict) \in checked

\* What a handler still remembers when it commits: a draft that exists, the
\* result that let its page through, and manifests that were in order.
CallInv ==
  \A call \in calls :
    /\ call.op # "branding" => call.draft \in DOMAIN drafts
    /\ call.op \in {"qa", "apply"} => call.hash \in Content
    /\ call.op \in {"apply", "branding"} => InOrder(call.pages, checked, overridden)
    /\ call.op = "apply" =>
         LetThrough(drafts[call.draft].slug, call.hash, checked, call.override)

DraftsInv == DraftsTypeOK /\ RunInv /\ CallInv /\ InOrder(manifest, checked, overridden)

-----------------------------------------------------------------------------
(* Facts the steps share.                                                   *)

LEMMA DraftTypes ==
  ASSUME DraftsTypeOK
  PROVE  /\ drafts \in Seq(DraftRow) /\ DOMAIN drafts = 1..Len(drafts) /\ Len(drafts) \in Nat
         /\ Len(drafts) <= MaxDrafts /\ \A d \in DOMAIN drafts : drafts[d] \in DraftRow
BY LenProperties, ElementOfSeq DEF DraftsTypeOK

\* A draft's fields.
LEMMA RowFields ==
  ASSUME DraftsTypeOK, NEW d \in DOMAIN drafts
  PROVE  /\ drafts[d].slug \in Slugs /\ drafts[d].hash \in Content
         /\ drafts[d].state \in {"draft", "review", "applied", "rejected"}
         /\ drafts[d].run \in QaRun \cup {NoRun}
<1>1. drafts[d] \in DraftRow
    BY DraftTypes
<1> QED
    BY <1>1 DEF DraftRow

\* Drafts keep their address, and what was checked or overridden stays so.
Grown ==
  /\ \A d \in DOMAIN drafts : d \in DOMAIN drafts' /\ drafts'[d].slug = drafts[d].slug
  /\ checked \subseteq checked' /\ overridden \subseteq overridden'

\* A manifest that was in order stays so.
LEMMA InOrderStays ==
  ASSUME Grown, NEW pages, InOrder(pages, checked, overridden)
  PROVE  InOrder(pages, checked', overridden')
BY DEF Grown, InOrder, LetThrough

\* Handlers that go on remembering what they read.
LEMMA CallsStay ==
  ASSUME DraftsInv, Grown, NEW call \in calls
  PROVE  /\ call.op # "branding" => call.draft \in DOMAIN drafts'
         /\ call.op \in {"qa", "apply"} => call.hash \in Content
         /\ call.op \in {"apply", "branding"} => InOrder(call.pages, checked', overridden')
         /\ call.op = "apply" =>
              LetThrough(drafts'[call.draft].slug, call.hash, checked', call.override)
<1>1. call.op # "branding" => call.draft \in DOMAIN drafts /\ call.draft \in DOMAIN drafts'
    BY DEF DraftsInv, CallInv, Grown
<1>2. call.op \in {"qa", "apply"} => call.hash \in Content
    BY DEF DraftsInv, CallInv
<1>3. call.op \in {"apply", "branding"} => InOrder(call.pages, checked', overridden')
    BY InOrderStays DEF DraftsInv, CallInv
<1>4. ASSUME call.op = "apply"
      PROVE  LetThrough(drafts'[call.draft].slug, call.hash, checked', call.override)
    <2>1. drafts'[call.draft].slug = drafts[call.draft].slug
        BY <1>1, <1>4 DEF Grown
    <2> QED
        BY <1>4, <2>1 DEF DraftsInv, CallInv, LetThrough, Grown
<1> QED
    BY <1>1, <1>2, <1>3, <1>4

\* A step by which handlers end and the manifest is left alone keeps all but
\* the rows' own part of the invariant.
LEMMA QuietStep ==
  ASSUME DraftsInv, Grown, calls' \subseteq calls, UNCHANGED manifest
  PROVE  CallInv' /\ InOrder(manifest, checked, overridden)'
<1>1. CallInv'
    BY CallsStay DEF CallInv
<1>2. InOrder(manifest, checked', overridden')
    BY InOrderStays DEF DraftsInv
<1> QED
    BY <1>1, <1>2

\* One draft is written.
LEMMA DraftWritten ==
  ASSUME DraftsTypeOK, NEW d \in DOMAIN drafts, NEW row \in DraftRow,
         drafts' = [drafts EXCEPT ![d] = row]
  PROVE  /\ drafts' \in Seq(DraftRow) /\ Len(drafts') = Len(drafts) /\ DOMAIN drafts' = DOMAIN drafts
         /\ \A e \in DOMAIN drafts : drafts'[e] = IF e = d THEN row ELSE drafts[e]
<1>1. /\ drafts' \in Seq(DraftRow) /\ Len(drafts') = Len(drafts)
      /\ \A e \in 1..Len(drafts) : drafts'[e] = IF e = d THEN row ELSE drafts[e]
    BY DraftTypes, ExceptSeq
<1> QED
    BY <1>1, DraftTypes, LenProperties

\* A step that rewrites one draft at its address, with a result that was
\* recorded, and may record a result.
LEMMA RowStep ==
  ASSUME DraftsInv, NEW d \in DOMAIN drafts, NEW row \in DraftRow,
         drafts' = [drafts EXCEPT ![d] = row], row.slug = drafts[d].slug,
         row.run # NoRun /\ row.run.verdict # "block" =>
           Result(row.slug, row.run.hash, row.run.verdict) \in checked',
         checked \subseteq checked', checked' \subseteq [slug : Slugs, hash : Content, verdict : Verdicts],
         overridden \subseteq overridden'
  PROVE  /\ Grown /\ RunInv'
         /\ drafts' \in Seq(DraftRow) /\ Len(drafts') <= MaxDrafts
<1>t. DraftsTypeOK
    BY DEF DraftsInv
<1>1. /\ drafts' \in Seq(DraftRow) /\ Len(drafts') = Len(drafts) /\ DOMAIN drafts' = DOMAIN drafts
      /\ \A e \in DOMAIN drafts : drafts'[e] = IF e = d THEN row ELSE drafts[e]
    BY <1>t, DraftWritten
<1>2. Grown
    BY <1>1 DEF Grown
<1>3. RunInv'
    <2>1. ASSUME NEW e \in DOMAIN drafts', drafts'[e].run # NoRun, drafts'[e].run.verdict # "block"
          PROVE  Result(drafts'[e].slug, drafts'[e].run.hash, drafts'[e].run.verdict) \in checked'
        <3>1. CASE e = d
            BY <1>1, <2>1, <3>1
        <3>2. CASE e # d
            BY <1>1, <2>1, <3>2 DEF DraftsInv, RunInv
        <3> QED
            BY <3>1, <3>2
    <2> QED
        BY <2>1 DEF RunInv
<1> QED
    BY <1>1, <1>2, <1>3, <1>t DEF DraftsTypeOK

\* A handler that ends and rewrites one draft.
LEMMA RowFinished ==
  ASSUME DraftsInv, NEW d \in DOMAIN drafts, NEW row \in DraftRow,
         drafts' = [drafts EXCEPT ![d] = row], row.slug = drafts[d].slug,
         row.run # NoRun /\ row.run.verdict # "block" =>
           Result(row.slug, row.run.hash, row.run.verdict) \in checked',
         checked \subseteq checked', checked' \subseteq [slug : Slugs, hash : Content, verdict : Verdicts],
         calls' \subseteq calls, UNCHANGED <<withdrawn, overridden, manifest>>
  PROVE  DraftsInv'
<1>1. /\ Grown /\ RunInv' /\ drafts' \in Seq(DraftRow) /\ Len(drafts') <= MaxDrafts
    BY RowStep
<1>2. CallInv' /\ InOrder(manifest, checked, overridden)'
    BY <1>1, QuietStep
<1>3. DraftsTypeOK'
    BY <1>1 DEF DraftsInv, DraftsTypeOK
<1> QED
    BY <1>1, <1>2, <1>3 DEF DraftsInv

\* A handler reads.
LEMMA BeginStep ==
  ASSUME DraftsInv, NEW call \in CallRow, calls' = calls \cup {call},
         UNCHANGED <<drafts, manifest, withdrawn, checked, overridden>>,
         call.op # "branding" => call.draft \in DOMAIN drafts,
         call.op \in {"qa", "apply"} => call.hash \in Content,
         call.op \in {"apply", "branding"} => InOrder(call.pages, checked, overridden),
         call.op = "apply" =>
           LetThrough(drafts[call.draft].slug, call.hash, checked, call.override)
  PROVE  DraftsInv'
<1>1. DraftsTypeOK'
    BY DEF DraftsInv, DraftsTypeOK
<1>2. RunInv' /\ InOrder(manifest, checked, overridden)'
    BY DEF DraftsInv, RunInv
<1>3. CallInv'
    BY DEF DraftsInv, CallInv
<1> QED
    BY <1>1, <1>2, <1>3 DEF DraftsInv

-----------------------------------------------------------------------------
(* Every step keeps the invariant.                                          *)

LEMMA NoSiteInOrder ==
  NoSite \in Manifests /\ \A results, waivers : InOrder(NoSite, results, waivers)
BY DEF NoSite, Manifests, InOrder

\* Drafts are generated at the end, with no result yet.
LEMMA GeneratedStep ==
  ASSUME DraftsInv, NEW rows \in Seq(DraftRow), \A i \in DOMAIN rows : rows[i].run = NoRun,
         Len(drafts) + Len(rows) <= MaxDrafts, drafts' = drafts \o rows,
         UNCHANGED <<manifest, withdrawn, calls, checked, overridden>>
  PROVE  DraftsInv'
<1>t. DraftsTypeOK
    BY DEF DraftsInv
<1>1. /\ drafts' \in Seq(DraftRow) /\ Len(drafts') = Len(drafts) + Len(rows)
      /\ \A i \in 1..Len(drafts) + Len(rows) :
           drafts'[i] = IF i <= Len(drafts) THEN drafts[i] ELSE rows[i - Len(drafts)]
    BY <1>t, DraftTypes, ConcatProperties
<1>2. DOMAIN drafts' = 1..Len(drafts) + Len(rows) /\ DOMAIN rows = 1..Len(rows) /\ Len(rows) \in Nat
    BY <1>1, LenProperties
<1>3. /\ DOMAIN drafts \subseteq DOMAIN drafts'
      /\ \A i \in DOMAIN drafts : drafts'[i] = drafts[i]
      /\ \A i \in DOMAIN drafts' \ DOMAIN drafts : drafts'[i].run = NoRun
    <2>1. \A i \in DOMAIN drafts : i \in DOMAIN drafts' /\ drafts'[i] = drafts[i]
        BY <1>1, <1>2, <1>t, DraftTypes
    <2>2. ASSUME NEW i \in DOMAIN drafts' \ DOMAIN drafts
          PROVE  drafts'[i].run = NoRun
        <3>1. /\ i \in 1..Len(drafts) + Len(rows) /\ ~(i <= Len(drafts)) /\ i - Len(drafts) \in DOMAIN rows
            BY <1>2, <1>t, DraftTypes
        <3>2. drafts'[i] = rows[i - Len(drafts)]
            BY <1>1, <3>1
        <3> QED
            BY <3>1, <3>2
    <2> QED
        BY <2>1, <2>2
<1>4. Grown
    BY <1>3 DEF Grown
<1>5. RunInv'
    BY <1>3 DEF DraftsInv, RunInv
<1>6. CallInv' /\ InOrder(manifest, checked, overridden)'
    BY <1>4, QuietStep
<1>7. DraftsTypeOK'
    BY <1>1, <1>t DEF DraftsTypeOK
<1> QED
    BY <1>5, <1>6, <1>7 DEF DraftsInv

LEMMA GeneratePageDraftKeeps ==
  ASSUME DraftsInv, NEW slug \in Slugs, NEW hash \in Content, GeneratePageDraft(slug, hash)
  PROVE  DraftsInv'
<1>1. NewDraft(slug, hash) \in DraftRow /\ NewDraft(slug, hash).run = NoRun
    BY DEF NewDraft, DraftRow
<1>2. PICK row \in DraftRow : row = NewDraft(slug, hash)
    BY <1>1
<1>3. /\ <<row>> \in Seq(DraftRow) /\ Len(<<row>>) = 1 /\ \A i \in DOMAIN <<row>> : <<row>>[i].run = NoRun
    BY <1>1, <1>2
<1>4. drafts' = drafts \o <<row>>
    BY <1>2, DraftTypes, AppendIsConcat DEF GeneratePageDraft, DraftsInv
<1>5. Len(drafts) + 1 <= MaxDrafts
    BY DraftTypes, DraftsAssumption DEF GeneratePageDraft, DraftsInv
<1> QED
    BY <1>3, <1>4, <1>5, GeneratedStep DEF GeneratePageDraft

LEMMA GenerateDraftBatchKeeps ==
  ASSUME DraftsInv, NEW s1 \in Slugs, NEW s2 \in Slugs, NEW hash \in Content,
         GenerateDraftBatch(s1, s2, hash)
  PROVE  DraftsInv'
<1>0. /\ NewDraft(s1, hash) \in DraftRow /\ NewDraft(s1, hash).run = NoRun
      /\ NewDraft(s2, hash) \in DraftRow /\ NewDraft(s2, hash).run = NoRun
    BY DEF NewDraft, DraftRow
<1>1. PICK row1 \in DraftRow : row1 = NewDraft(s1, hash) /\ row1.run = NoRun
    BY <1>0
<1>2. PICK row2 \in DraftRow : row2 = NewDraft(s2, hash) /\ row2.run = NoRun
    BY <1>0
<1>3. /\ <<row1, row2>> \in Seq(DraftRow) /\ Len(<<row1, row2>>) = 2
      /\ \A i \in DOMAIN <<row1, row2>> : <<row1, row2>>[i].run = NoRun
    BY <1>1, <1>2
<1>4. drafts' = drafts \o <<row1, row2>>
    BY <1>1, <1>2 DEF GenerateDraftBatch
<1> QED
    BY <1>3, <1>4, GeneratedStep DEF GenerateDraftBatch

\* An attachment writes new content over a draft and drops its result.
LEMMA AttachDraftMediaKeeps ==
  ASSUME DraftsInv, NEW d \in DOMAIN drafts, NEW hash \in Content, AttachDraftMedia(d, hash)
  PROVE  DraftsInv'
<1>t. DraftsTypeOK
    BY DEF DraftsInv
<1>1. drafts[d] \in DraftRow
    BY <1>t, DraftTypes
<1>2. PICK row : row = [drafts[d] EXCEPT !.hash = hash, !.run = NoRun]
    OBVIOUS
<1>3. row \in DraftRow /\ row.slug = drafts[d].slug /\ row.run = NoRun
    BY <1>1, <1>2 DEF DraftRow
<1>4. drafts' = [drafts EXCEPT ![d] = row]
    BY <1>2 DEF AttachDraftMedia, Attached
<1>5. checked' \subseteq [slug : Slugs, hash : Content, verdict : Verdicts]
    BY <1>t DEF AttachDraftMedia, DraftsTypeOK
<1> QED
    BY <1>3, <1>4, <1>5, RowFinished DEF AttachDraftMedia

LEMMA WithdrawApprovalKeeps ==
  ASSUME DraftsInv, NEW d \in DOMAIN drafts, WithdrawApproval(PageOf(d))
  PROVE  DraftsInv'
<1>1. PageOf(d) \in Pages
    BY RowFields DEF DraftsInv, PageOf, Pages
<1>2. DraftsTypeOK'
    BY <1>1 DEF WithdrawApproval, DraftsInv, DraftsTypeOK
<1>3. RunInv' /\ CallInv' /\ InOrder(manifest, checked, overridden)'
    BY DEF WithdrawApproval, DraftsInv, RunInv, CallInv
<1> QED
    BY <1>2, <1>3 DEF DraftsInv

\* The four handlers that only carry a draft's number and content.
LEMMA PlainBegin ==
  ASSUME DraftsInv, NEW d \in DOMAIN drafts, NEW op \in {"qa", "submit", "reject"},
         NEW hash \in Content \cup {NoPage}, op = "qa" => hash \in Content,
         Begin(op, d, hash, FALSE, NoSite)
  PROVE  DraftsInv'
<1>1. d \in 0..MaxDrafts
    BY DraftTypes, DraftsAssumption DEF DraftsInv
<1>2. PICK call : call = [op |-> op, draft |-> d, hash |-> hash, override |-> FALSE, pages |-> NoSite]
    OBVIOUS
<1>3. call \in CallRow
    BY <1>1, <1>2, NoSiteInOrder DEF CallRow
<1>4. /\ call.op = op /\ call.draft = d /\ call.hash = hash /\ op \notin {"apply", "branding"}
    BY <1>2
<1>5. calls' = calls \cup {call} /\ UNCHANGED <<drafts, manifest, withdrawn, checked, overridden>>
    BY <1>2 DEF Begin
<1> QED
    BY <1>3, <1>4, <1>5, BeginStep

LEMMA BeginDraftQaKeeps ==
  ASSUME DraftsInv, NEW d \in DOMAIN drafts, BeginDraftQa(d)
  PROVE  DraftsInv'
BY PlainBegin, RowFields DEF BeginDraftQa, DraftsInv

LEMMA BeginSubmitDraftReviewKeeps ==
  ASSUME DraftsInv, NEW d \in DOMAIN drafts, BeginSubmitDraftReview(d)
  PROVE  DraftsInv'
BY PlainBegin DEF BeginSubmitDraftReview

LEMMA BeginRejectPageDraftKeeps ==
  ASSUME DraftsInv, NEW d \in DOMAIN drafts, BeginRejectPageDraft(d)
  PROVE  DraftsInv'
BY PlainBegin DEF BeginRejectPageDraft

LEMMA BeginApplyPageDraftKeeps ==
  ASSUME DraftsInv, NEW d \in DOMAIN drafts, NEW override \in BOOLEAN, BeginApplyPageDraft(d, override)
  PROVE  DraftsInv'
<1>t. DraftsTypeOK
    BY DEF DraftsInv
<1>1. /\ d \in 0..MaxDrafts /\ drafts[d].hash \in Content /\ manifest \in Manifests
    BY <1>t, DraftTypes, RowFields, DraftsAssumption DEF DraftsTypeOK
<1>2. PICK call : call = [op |-> "apply", draft |-> d, hash |-> drafts[d].hash,
                          override |-> override, pages |-> manifest]
    OBVIOUS
<1>3. call \in CallRow
    BY <1>1, <1>2 DEF CallRow
<1>4. /\ call.op = "apply" /\ call.draft = d /\ call.hash = drafts[d].hash
      /\ call.override = override /\ call.pages = manifest
    BY <1>2
<1>5. LetThrough(drafts[d].slug, drafts[d].hash, checked, override)
    BY DEF BeginApplyPageDraft, CurrentRun, DraftsInv, RunInv, LetThrough
<1>6. calls' = calls \cup {call} /\ UNCHANGED <<drafts, manifest, withdrawn, checked, overridden>>
    BY <1>2 DEF BeginApplyPageDraft, Begin
<1>7. InOrder(call.pages, checked, overridden) /\ LetThrough(drafts[call.draft].slug, call.hash, checked, call.override)
    BY <1>4, <1>5 DEF DraftsInv
<1> QED
    BY <1>1, <1>3, <1>4, <1>6, <1>7, BeginStep

LEMMA BeginBrandingKeeps ==
  ASSUME DraftsInv, BeginBranding
  PROVE  DraftsInv'
<1>1. manifest \in Manifests /\ 0 \in 0..MaxDrafts
    BY DraftsAssumption DEF DraftsInv, DraftsTypeOK
<1>2. PICK call : call = [op |-> "branding", draft |-> 0, hash |-> NoPage,
                          override |-> FALSE, pages |-> manifest]
    OBVIOUS
<1>3. call \in CallRow /\ call.op = "branding" /\ call.pages = manifest
    BY <1>1, <1>2 DEF CallRow
<1>4. calls' = calls \cup {call} /\ UNCHANGED <<drafts, manifest, withdrawn, checked, overridden>>
    BY <1>2 DEF BeginBranding, Begin
<1>5. InOrder(call.pages, checked, overridden)
    BY <1>3 DEF DraftsInv
<1> QED
    BY <1>3, <1>4, <1>5, BeginStep

LEMMA FinishDraftQaKeeps ==
  ASSUME DraftsInv, NEW call \in calls, NEW verdict \in Verdicts, FinishDraftQa(call, verdict)
  PROVE  DraftsInv'
<1>t. DraftsTypeOK
    BY DEF DraftsInv
<1>1. call.draft \in DOMAIN drafts /\ call.hash \in Content
    BY DEF DraftsInv, CallInv, FinishDraftQa
<1>2. PICK d \in DOMAIN drafts : d = call.draft
    BY <1>1
<1>3. drafts[d] \in DraftRow /\ drafts[d].slug \in Slugs
    BY <1>t, DraftTypes, RowFields
<1>4. PICK run : run = [hash |-> call.hash, verdict |-> verdict]
    OBVIOUS
<1>5. run \in QaRun /\ run.hash = call.hash /\ run.verdict = verdict
    BY <1>1, <1>4 DEF QaRun
<1>6. PICK row : row = [drafts[d] EXCEPT !.run = run]
    OBVIOUS
<1>7. row \in DraftRow /\ row.slug = drafts[d].slug /\ row.run = run
    BY <1>3, <1>5, <1>6 DEF DraftRow
<1>8. drafts' = [drafts EXCEPT ![d] = row]
    BY <1>2, <1>4, <1>6 DEF FinishDraftQa
<1>9. /\ checked \subseteq checked' /\ checked' \subseteq [slug : Slugs, hash : Content, verdict : Verdicts]
      /\ verdict # "block" => Result(row.slug, run.hash, run.verdict) \in checked'
    <2>1. Result(drafts[d].slug, call.hash, verdict) \in [slug : Slugs, hash : Content, verdict : Verdicts]
        BY <1>1, <1>3 DEF Result
    <2>2. checked' = IF verdict = "block" THEN checked
                     ELSE checked \cup {Result(drafts[d].slug, call.hash, verdict)}
        BY <1>2 DEF FinishDraftQa, Result
    <2> QED
        BY <1>5, <1>7, <1>t, <2>1, <2>2 DEF DraftsTypeOK
<1> QED
    BY <1>5, <1>7, <1>8, <1>9, RowFinished DEF FinishDraftQa

\* Submission and rejection only move the draft's state.
LEMMA StateStep ==
  ASSUME DraftsInv, NEW call \in calls, call.op # "branding",
         NEW state \in {"draft", "review", "applied", "rejected"}, SetState(call, state),
         UNCHANGED checked
  PROVE  \E d \in DOMAIN drafts, row \in DraftRow :
           /\ d = call.draft /\ drafts' = [drafts EXCEPT ![d] = row] /\ row.slug = drafts[d].slug
           /\ row.run # NoRun /\ row.run.verdict # "block" =>
                Result(row.slug, row.run.hash, row.run.verdict) \in checked'
<1>1. PICK d \in DOMAIN drafts : d = call.draft
    BY DEF DraftsInv, CallInv
<1>2. drafts[d] \in DraftRow
    BY DraftTypes DEF DraftsInv
<1>3. PICK row : row = [drafts[d] EXCEPT !.state = state]
    OBVIOUS
<1>4. row \in DraftRow /\ row.slug = drafts[d].slug /\ row.run = drafts[d].run
    BY <1>2, <1>3 DEF DraftRow
<1>5. drafts' = [drafts EXCEPT ![d] = row]
    BY <1>1, <1>3 DEF SetState
<1>6. row.run # NoRun /\ row.run.verdict # "block" =>
        Result(row.slug, row.run.hash, row.run.verdict) \in checked'
    BY <1>4 DEF DraftsInv, RunInv
<1> QED
    BY <1>1, <1>4, <1>5, <1>6

LEMMA FinishReviewKeeps ==
  ASSUME DraftsInv, NEW call \in calls, FinishSubmitDraftReview(call) \/ FinishRejectPageDraft(call)
  PROVE  DraftsInv'
<1>1. PICK state \in {"draft", "review", "applied", "rejected"} : SetState(call, state)
    BY DEF FinishSubmitDraftReview, FinishRejectPageDraft
<1>2. /\ call.op # "branding" /\ UNCHANGED <<manifest, withdrawn, checked, overridden>>
    BY DEF FinishSubmitDraftReview, FinishRejectPageDraft
<1>3. PICK d \in DOMAIN drafts, row \in DraftRow :
        /\ d = call.draft /\ drafts' = [drafts EXCEPT ![d] = row] /\ row.slug = drafts[d].slug
        /\ row.run # NoRun /\ row.run.verdict # "block" =>
             Result(row.slug, row.run.hash, row.run.verdict) \in checked'
    BY <1>1, <1>2, StateStep
<1>4. /\ checked \subseteq checked' /\ checked' \subseteq [slug : Slugs, hash : Content, verdict : Verdicts]
      /\ calls' \subseteq calls
    BY <1>1, <1>2 DEF SetState, DraftsInv, DraftsTypeOK
<1> QED
    BY <1>2, <1>3, <1>4, RowFinished

\* An applied page is put into the manifest the handler read.
LEMMA FinishApplyPageDraftKeeps ==
  ASSUME DraftsInv, NEW call \in calls, FinishApplyPageDraft(call)
  PROVE  DraftsInv'
<1>t. DraftsTypeOK
    BY DEF DraftsInv
<1>0. call \in CallRow
    BY <1>t DEF DraftsTypeOK
<1>1. /\ call.draft \in DOMAIN drafts /\ call.hash \in Content /\ call.op = "apply" /\ call.op # "branding"
      /\ InOrder(call.pages, checked, overridden)
      /\ LetThrough(drafts[call.draft].slug, call.hash, checked, call.override)
    BY DEF DraftsInv, CallInv, FinishApplyPageDraft
<1>2. PICK slug \in Slugs : slug = drafts[call.draft].slug
    BY <1>t, <1>1, RowFields
<1>3. PICK page : page = [slug |-> slug, hash |-> call.hash]
    OBVIOUS
<1>4. page \in Pages /\ page.slug = slug /\ page.hash = call.hash
    BY <1>1, <1>3 DEF Pages
<1>5. UNCHANGED <<withdrawn, checked>>
    BY DEF FinishApplyPageDraft
<1>a. CASE call.pages = NoSite /\ manifest # NoSite
    <2>1. calls' = calls \ {call} /\ UNCHANGED <<drafts, manifest, overridden>>
        BY <1>a DEF FinishApplyPageDraft
    <2>2. Grown
        BY <1>5, <2>1 DEF Grown
    <2>3. DraftsTypeOK' /\ RunInv'
        BY <1>5, <2>1 DEF DraftsInv, DraftsTypeOK, RunInv
    <2> QED
        BY <2>1, <2>2, <2>3, QuietStep DEF DraftsInv
<1>b. CASE ~(call.pages = NoSite /\ manifest # NoSite)
    <2>1. /\ manifest' = [call.pages EXCEPT ![slug] = call.hash]
          /\ overridden' = IF call.override THEN overridden \cup {page} ELSE overridden
          /\ SetState(call, "applied")
        BY <1>b, <1>2, <1>3, <1>4 DEF FinishApplyPageDraft
    <2>2. PICK d \in DOMAIN drafts, row \in DraftRow :
            /\ d = call.draft /\ drafts' = [drafts EXCEPT ![d] = row] /\ row.slug = drafts[d].slug
            /\ row.run # NoRun /\ row.run.verdict # "block" =>
                 Result(row.slug, row.run.hash, row.run.verdict) \in checked'
        BY <1>1, <1>5, <2>1, StateStep
    <2>3. /\ overridden \subseteq overridden' /\ overridden' \subseteq Pages /\ calls' \subseteq calls
          /\ call.override => page \in overridden'
        BY <1>t, <1>4, <2>1 DEF DraftsTypeOK, SetState
    <2>4. /\ checked \subseteq checked' /\ checked' \subseteq [slug : Slugs, hash : Content, verdict : Verdicts]
        BY <1>t, <1>5 DEF DraftsTypeOK
    <2>5. /\ Grown /\ RunInv' /\ drafts' \in Seq(DraftRow) /\ Len(drafts') <= MaxDrafts
        BY <2>2, <2>3, <2>4, RowStep
    <2>6. call.pages \in [Slugs -> Content \cup {NoPage}]
        BY <1>0 DEF CallRow, Manifests
    <2>7. /\ manifest' \in [Slugs -> Content \cup {NoPage}]
          /\ \A s \in Slugs : manifest'[s] = IF s = slug THEN call.hash ELSE call.pages[s]
        BY <1>1, <2>1, <2>6
    <2>8. DraftsTypeOK'
        BY <1>t, <1>5, <2>3, <2>5, <2>7 DEF DraftsTypeOK, Manifests
    <2>9. CallInv'
        BY <2>3, <2>5, CallsStay DEF CallInv
    <2>10. InOrder(call.pages, checked', overridden')
        BY <1>1, <2>5, InOrderStays
    <2>11. LetThrough(slug, call.hash, checked', page \in overridden')
        BY <1>1, <1>2, <1>5, <2>3 DEF LetThrough
    <2>12. ASSUME NEW s \in Slugs, manifest'[s] # NoPage
           PROVE  LetThrough(s, manifest'[s], checked', [slug |-> s, hash |-> manifest'[s]] \in overridden')
        <3>1. CASE s = slug
            BY <1>3, <2>7, <2>11, <3>1
        <3>2. CASE s # slug
            BY <2>7, <2>10, <2>12, <3>2 DEF InOrder
        <3> QED
            BY <3>1, <3>2
    <2> QED
        BY <2>5, <2>8, <2>9, <2>12 DEF DraftsInv, InOrder
<1> QED
    BY <1>a, <1>b

LEMMA FinishBrandingKeeps ==
  ASSUME DraftsInv, NEW call \in calls, FinishBranding(call)
  PROVE  DraftsInv'
<1>1. call \in CallRow /\ InOrder(call.pages, checked, overridden)
    BY DEF DraftsInv, DraftsTypeOK, CallInv, FinishBranding
<1>2. DraftsTypeOK'
    BY <1>1 DEF DraftsInv, DraftsTypeOK, FinishBranding, CallRow
<1>3. RunInv' /\ CallInv' /\ InOrder(manifest, checked, overridden)'
    BY <1>1 DEF DraftsInv, RunInv, CallInv, FinishBranding
<1> QED
    BY <1>2, <1>3 DEF DraftsInv

LEMMA DraftsInitInv ==
  ASSUME DraftsInit
  PROVE  DraftsInv
<1>1. drafts \in Seq(DraftRow) /\ Len(drafts) = 0 /\ DOMAIN drafts = {}
    BY DEF DraftsInit
<1>2. DraftsTypeOK
    BY <1>1, NoSiteInOrder, DraftsAssumption DEF DraftsInit, DraftsTypeOK
<1>3. RunInv /\ CallInv /\ InOrder(manifest, checked, overridden)
    BY <1>1, NoSiteInOrder DEF DraftsInit, RunInv, CallInv
<1> QED
    BY <1>2, <1>3 DEF DraftsInv

LEMMA DraftsStepInv ==
  ASSUME DraftsInv, [DraftsNext]_draftVars
  PROVE  DraftsInv'
<1>1. CASE UNCHANGED draftVars
    BY <1>1 DEF draftVars, DraftsInv, DraftsTypeOK, RunInv, CallInv
<1>2. CASE \E slug \in Slugs, hash \in Content : GeneratePageDraft(slug, hash)
    BY <1>2, GeneratePageDraftKeeps
<1>3. CASE \E s1, s2 \in Slugs, hash \in Content : GenerateDraftBatch(s1, s2, hash)
    BY <1>3, GenerateDraftBatchKeeps
<1>4. CASE \E d \in DOMAIN drafts : WithdrawApproval(PageOf(d))
    BY <1>4, WithdrawApprovalKeeps
<1>5. CASE \E d \in DOMAIN drafts, hash \in Content : AttachDraftMedia(d, hash) \/ AttachDraftAuthor(d, hash)
    BY <1>5, AttachDraftMediaKeeps DEF AttachDraftAuthor
<1>6. CASE \E d \in DOMAIN drafts : BeginDraftQa(d) \/ BeginSubmitDraftReview(d) \/ BeginRejectPageDraft(d)
    BY <1>6, BeginDraftQaKeeps, BeginSubmitDraftReviewKeeps, BeginRejectPageDraftKeeps
<1>7. CASE \E d \in DOMAIN drafts, override \in BOOLEAN : BeginApplyPageDraft(d, override)
    BY <1>7, BeginApplyPageDraftKeeps
<1>8. CASE BeginBranding
    BY <1>8, BeginBrandingKeeps
<1>9. CASE \E call \in calls, verdict \in Verdicts : FinishDraftQa(call, verdict)
    BY <1>9, FinishDraftQaKeeps
<1>10. CASE \E call \in calls : FinishSubmitDraftReview(call) \/ FinishRejectPageDraft(call)
    BY <1>10, FinishReviewKeeps
<1>11. CASE \E call \in calls : FinishApplyPageDraft(call)
    BY <1>11, FinishApplyPageDraftKeeps
<1>12. CASE \E call \in calls : FinishBranding(call)
    BY <1>12, FinishBrandingKeeps
<1> QED
    BY <1>1, <1>2, <1>3, <1>4, <1>5, <1>6, <1>7, <1>8, <1>9, <1>10, <1>11, <1>12 DEF DraftsNext

LEMMA DraftsInvariant == DraftsSpec => []DraftsInv
BY DraftsInitInv, DraftsStepInv, PTL DEF DraftsSpec

-----------------------------------------------------------------------------
(* Theorems.                                                                *)

\* Rows keep the columns of their tables and a manifest names known content.
THEOREM DraftTypeCorrect == DraftsSpec => []DraftsTypeOK
<1>1. DraftsInv => DraftsTypeOK
    BY DEF DraftsInv
<1> QED
    BY <1>1, DraftsInvariant, PTL

\* The content on the site was checked as it is, or an operator overrode the
\* warning, whatever handlers overlap (apply_page_draft, branding, QA).
THEOREM SiteContentChecked == DraftsSpec => []OnSiteChecked
<1>1. DraftsInv => OnSiteChecked
    BY DEF DraftsInv, InOrder, LetThrough, Result, OnSiteChecked, CheckedAs
<1> QED
    BY <1>1, DraftsInvariant, PTL

\* No step changes the content of a draft that was submitted, applied or
\* rejected (attach_draft_media, attach_draft_author).
THEOREM SubmittedContentFrozen == DraftsSpec => ReviewedContentFrozen
<1>1. ASSUME DraftsInv, [DraftsNext]_draftVars, NEW d \in DOMAIN drafts, drafts[d].state # "draft"
      PROVE  drafts'[d].hash = drafts[d].hash
    <2>t. /\ DraftsTypeOK /\ drafts \in Seq(DraftRow) /\ DOMAIN drafts = 1..Len(drafts)
          /\ Len(drafts) \in Nat /\ drafts[d] \in DraftRow
        BY <1>1, DraftTypes DEF DraftsInv
    <2>1. CASE UNCHANGED drafts
        BY <2>1
    <2>2. CASE \E slug \in Slugs, hash \in Content : GeneratePageDraft(slug, hash)
        <3>1. PICK slug \in Slugs, hash \in Content : GeneratePageDraft(slug, hash)
            BY <2>2
        <3>2. NewDraft(slug, hash) \in DraftRow
            BY DEF NewDraft, DraftRow
        <3> QED
            BY <2>t, <3>1, <3>2, AppendProperties DEF GeneratePageDraft
    <2>3. CASE \E s1, s2 \in Slugs, hash \in Content : GenerateDraftBatch(s1, s2, hash)
        <3>1. PICK s1 \in Slugs, s2 \in Slugs, hash \in Content : GenerateDraftBatch(s1, s2, hash)
            BY <2>3
        <3>2. PICK rows : rows = <<NewDraft(s1, hash), NewDraft(s2, hash)>>
            OBVIOUS
        <3>3. rows \in Seq(DraftRow) /\ Len(rows) = 2
            BY <3>2 DEF NewDraft, DraftRow
        <3> QED
            BY <2>t, <3>1, <3>2, <3>3, ConcatProperties DEF GenerateDraftBatch
    <2>4. CASE \E e \in DOMAIN drafts, hash \in Content : AttachDraftMedia(e, hash) \/ AttachDraftAuthor(e, hash)
        <3>1. PICK e \in DOMAIN drafts, hash \in Content : AttachDraftMedia(e, hash)
            BY <2>4 DEF AttachDraftAuthor
        <3>2. e # d
            BY <1>1, <3>1 DEF AttachDraftMedia
        <3> QED
            BY <3>1, <3>2 DEF AttachDraftMedia, Attached
    <2>5. CASE \E call \in calls, verdict \in Verdicts : FinishDraftQa(call, verdict)
        BY <2>t, <2>5 DEF FinishDraftQa, DraftRow
    <2>6. CASE \E call \in calls : \E state \in {"review", "applied", "rejected"} : SetState(call, state)
        BY <2>t, <2>6 DEF SetState, DraftRow
    <2> QED
        BY <1>1, <2>1, <2>2, <2>3, <2>4, <2>5, <2>6
        DEF DraftsNext, draftVars, WithdrawApproval, BeginDraftQa, BeginSubmitDraftReview,
            BeginApplyPageDraft, BeginRejectPageDraft, BeginBranding, Begin,
            FinishSubmitDraftReview, FinishApplyPageDraft, FinishRejectPageDraft, FinishBranding
<1>2. DraftsInv /\ [DraftsNext]_draftVars =>
        [\A d \in DOMAIN drafts : drafts[d].state # "draft" => drafts'[d].hash = drafts[d].hash]_draftVars
    BY <1>1
<1> QED
    BY <1>2, DraftsInvariant, PTL DEF DraftsSpec, ReviewedContentFrozen
=============================================================================
