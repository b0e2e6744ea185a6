---------------------------- MODULE SiteIntegrity ----------------------------
(***************************************************************************)
(* The integrity sweep over a published site                               *)
(* (apps/api/app/services/site_integrity.py), composed with Release: every *)
(* few minutes the worker compares the release the web server is led to    *)
(* with the site row and with the contents it pinned, and opens or         *)
(* resolves an incident.  All sites are read at the start of a sweep, so   *)
(* it checks the tree of now against a row of before.                      *)
(***************************************************************************)
EXTENDS Release

VARIABLES
    pin,               \* Site.integrity_hash
    sweeping, seen,    \* the sweep's step, and its copy of build_hash
    incident           \* a site-integrity-failure is open or acknowledged

integrity == <<pin, sweeping, seen, incident>>
allVars == <<vars, integrity>>

-----------------------------------------------------------------------------
InitIntegrity ==
    /\ Init
    /\ pin = NoHash
    /\ sweeping = FALSE /\ seen = NoHash
    /\ incident = FALSE

\* Sites whose publish_state says published; a publication sets it.
SweepReads ==
    /\ ~sweeping /\ siteHash # NoHash
    /\ sweeping' = TRUE /\ seen' = siteHash
    /\ UNCHANGED <<vars, pin, incident>>

\* _active_release: the link leads to the release the row named.
ActiveRelease == current = seen /\ seen \in dirs

\* Faulty variants: a link that leads nowhere is passed over; an incident is
\* opened and never resolved.
ObserveContentsOnly == pin \notin {NoHash, seen}
ObserveForGood == incident \/ ~ActiveRelease \/ pin \notin {NoHash, seen}

\* What _observe_integrity is told.  The contents of a directory are its hash.
Observe == ~ActiveRelease \/ pin \notin {NoHash, seen}

\* One site: the contents are pinned the first time, and compared ever after.
SweepChecks ==
    /\ sweeping
    /\ pin' = IF ActiveRelease /\ pin = NoHash THEN seen ELSE pin
    /\ incident' = Observe
    /\ sweeping' = FALSE /\ seen' = NoHash
    /\ UNCHANGED vars

\* The task dies before its commit.
SweepDies ==
    /\ sweeping
    /\ sweeping' = FALSE /\ seen' = NoHash
    /\ UNCHANGED <<vars, pin, incident>>

\* The operator resolves the incident by hand.
Resolve ==
    /\ incident
    /\ incident' = FALSE
    /\ UNCHANGED <<vars, pin, sweeping, seen>>

NextIntegrity ==
    \/ Next /\ UNCHANGED integrity
    \/ SweepReads \/ SweepChecks \/ SweepDies \/ Resolve

SpecIntegrity == InitIntegrity /\ [][NextIntegrity]_allVars

\* The sweep is started every few minutes and now and then gets through.
FairIntegrity ==
    SpecIntegrity /\ WF_allVars(SweepReads) /\ SF_allVars(SweepChecks)

-----------------------------------------------------------------------------
(* Properties.                                                             *)

Mismatch == siteHash # NoHash /\ (current # siteHash \/ siteHash \notin dirs)

\* A site that goes on serving another release than the one its row names is
\* reported, again and again when the operator resolves the incident.
MismatchReported == <>[]Mismatch => []<>incident

\* The report ends by itself: while the site serves the release that was
\* pinned, an incident does not stay open.
AlarmClears == <>[](siteHash # NoHash /\ ~Mismatch /\ pin = siteHash) => <>[]~incident
=============================================================================
