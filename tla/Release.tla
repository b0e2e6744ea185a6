------------------------------- MODULE Release -------------------------------
(***************************************************************************)
(* The releases of one site: candidate builds that leave an immutable      *)
(* directory (packages/ssg builder.py), the legal review, publication and  *)
(* rollback (api/v1/projects.py) with the two symbolic links the web       *)
(* server follows, and the nightly pruning of old directories              *)
(* (services/site_release_retention.py).                                   *)
(*                                                                         *)
(* The database and the directory tree change in separate steps.  A        *)
(* publication reads the site row without a lock, moves the links, waits   *)
(* for Caddy and commits; old[r] and oldPrev[r] are its copy of the row,   *)
(* and the commit writes the columns that differ from it.  Moving links    *)
(* does not yield: all requests run in one event loop, so nothing of       *)
(* another request happens between two links (Busy), but the worker and    *)
(* the pruning are other processes.                                        *)
(*                                                                         *)
(* A directory is named by the hash of what it contains, and two builds of *)
(* unchanged input have one hash.                                          *)
(***************************************************************************)
EXTENDS Integers, FiniteSets

CONSTANTS
    Builds,        \* SiteBuild rows
    Hashes,        \* contents of a release
    NoBuild,       \* not a build: the target of no request
    HashOf,        \* the hash a build ends with
    NoHash,        \* no hash, no link
    Requests,      \* publish and rollback requests the operator has open
    KeepNewest,    \* _KEEP_NEWEST
    Apart,         \* TRUE: no build runs while releases are pruned
    MaxFailures    \* bound: deaths of the API process and failed commits

ASSUME ReleaseAssumption ==
    /\ IsFiniteSet(Hashes) /\ NoHash \notin Hashes /\ NoBuild \notin Builds
    /\ HashOf \in [Builds -> Hashes]
    /\ KeepNewest \in Nat /\ MaxFailures \in Nat
    /\ Apart \in BOOLEAN

VARIABLES
    row,               \* SiteBuild.status
    approved,          \* builds whose legal review says approved
    published,         \* builds with a first_published_at
    siteHash, sitePrev,   \* Site.build_hash and previous_build_hash
    dirs, aged,        \* release directories; those older than _RETENTION_DAYS
    current, previous, \* what the links name
    pc, target, old, oldPrev,   \* the requests
    pruning, keep,     \* the pruning task: its step, the hashes it protects
    failures,          \* bounded counter
    vetted,            \* history: hashes that were approved at some time
    alone, clean       \* history: see ServesDb

builds == <<row, approved, published, vetted>>
site == <<siteHash, sitePrev>>
tree == <<dirs, aged>>
links == <<current, previous>>
requests == <<pc, target, old, oldPrev, alone>>
prune == <<pruning, keep>>
vars == <<builds, site, tree, links, requests, prune, failures, clean>>

HashOrNone == Hashes \cup {NoHash}
Busy == \E r \in Requests : pc[r] \in {"linking", "restoring"}
Candidate(r) == HashOf[target[r]]

\* The requests of R are over; what they had read is gone.
End(R) ==
    /\ pc' = [r \in Requests |-> IF r \in R THEN "idle" ELSE pc[r]]
    /\ target' = [r \in Requests |-> IF r \in R THEN NoBuild ELSE target[r]]
    /\ old' = [r \in Requests |-> IF r \in R THEN NoHash ELSE old[r]]
    /\ oldPrev' = [r \in Requests |-> IF r \in R THEN NoHash ELSE oldPrev[r]]
    /\ alone' = alone \ R

-----------------------------------------------------------------------------
Init ==
    /\ row = [b \in Builds |-> "absent"]
    /\ approved = {} /\ published = {} /\ vetted = {}
    /\ siteHash = NoHash /\ sitePrev = NoHash
    /\ dirs = {} /\ aged = {}
    /\ current = NoHash /\ previous = NoHash
    /\ pc = [r \in Requests |-> "idle"]
    /\ target = [r \in Requests |-> NoBuild]
    /\ old = [r \in Requests |-> NoHash]
    /\ oldPrev = [r \in Requests |-> NoHash]
    /\ pruning = "no" /\ keep = {}
    /\ failures = 0
    /\ alone = {} /\ clean = TRUE

-----------------------------------------------------------------------------
(* Candidate builds.  How a build is scheduled and fenced is Scheduler's.  *)

\* materialize_project_build, and retry_project_build of a failed one.
Queue(b) ==
    /\ row[b] \in {"absent", "failed"}
    /\ row' = [row EXCEPT ![b] = "queued"]
    /\ UNCHANGED <<approved, published, vetted, site, tree, links, requests, prune,
                   failures, clean>>

\* SiteBuilder.build(activate=False) ends: the staging directory becomes the
\* release, unless a release of that hash is there, which then stays as it is,
\* its age included.
Materialise(b) ==
    /\ row[b] = "queued"
    /\ Apart => pruning = "no"
    /\ row' = [row EXCEPT ![b] = "running"]
    /\ dirs' = dirs \cup {HashOf[b]}
    /\ UNCHANGED <<aged, approved, published, vetted, site, links, requests, prune,
                   failures, clean>>

\* ... and the commit of its hash.
FinishBuild(b) ==
    /\ row[b] = "running"
    /\ row' = [row EXCEPT ![b] = "ready"]
    /\ UNCHANGED <<approved, published, vetted, site, tree, links, requests, prune,
                   failures, clean>>

\* An exception, a lost lease, a cancelled job.  The directory stays.
FailBuild(b) ==
    /\ row[b] \in {"queued", "running"}
    /\ row' = [row EXCEPT ![b] = "failed"]
    /\ UNCHANGED <<approved, published, vetted, site, tree, links, requests, prune,
                   failures, clean>>

\* review_project_build_legal; a review can be given again.
Review(b) ==
    /\ row[b] = "ready"
    /\ \/ approved' = approved \cup {b} /\ vetted' = vetted \cup {HashOf[b]}
       \/ approved' = approved \ {b} /\ UNCHANGED vetted
    /\ UNCHANGED <<row, published, site, tree, links, requests, prune,
                   failures, clean>>

-----------------------------------------------------------------------------
(* publish_project_build and rollback_project_build.                       *)

\* Faulty variant: the gates look at the build and not at its review.
PublishableUnreviewed(b) == row[b] = "ready"

Publishable(b) == row[b] = "ready" /\ b \in approved

\* A rollback names a hash other than the site's; exactly one build that was
\* published must have it (scalar_one_or_none raises on two).
RollbackTarget(b) ==
    /\ Publishable(b) /\ b \in published
    /\ HashOf[b] # siteHash
    /\ \A c \in published : HashOf[c] = HashOf[b] => c = b

\* The reads of a request for build b, up to its last gate.
Open(r, b) ==
    /\ pc[r] = "idle" /\ ~Busy
    /\ pc' = [pc EXCEPT ![r] = "checked"]
    /\ target' = [target EXCEPT ![r] = b]
    /\ old' = [old EXCEPT ![r] = siteHash]
    /\ oldPrev' = [oldPrev EXCEPT ![r] = sitePrev]
    /\ alone' = IF \A q \in Requests : pc[q] = "idle" THEN {r} ELSE {}
    /\ clean' = (clean /\ \A q \in Requests : pc[q] = "idle")
    /\ UNCHANGED <<builds, site, tree, links, prune, failures>>

\* From here on a rollback does what a publication does.
Publish(r) == \E b \in Builds : Publishable(b) /\ Open(r, b)
Rollback(r) == \E b \in Builds : RollbackTarget(b) /\ Open(r, b)

\* Another gate refuses, or the release directory is gone: 409.
Refuse(r) ==
    /\ pc[r] = "checked" /\ ~Busy
    /\ End({r})
    /\ UNCHANGED <<builds, site, tree, links, prune, failures, clean>>

\* Faulty variant: nothing remembers what was served.
LinkNoPrevious(r) ==
    /\ pc[r] = "checked" /\ ~Busy
    /\ Candidate(r) \in dirs
    /\ pc' = [pc EXCEPT ![r] = "linking"]
    /\ UNCHANGED <<builds, site, tree, links, target, old, oldPrev, alone,
                   prune, failures, clean>>

\* activate: the link "previous" takes what "current" names, if anything ...
LinkPrevious(r) ==
    /\ pc[r] = "checked" /\ ~Busy
    /\ Candidate(r) \in dirs
    /\ previous' = IF current = NoHash THEN previous ELSE current
    /\ pc' = [pc EXCEPT ![r] = "linking"]
    /\ UNCHANGED <<builds, site, tree, current, target, old, oldPrev, alone, prune,
                   failures, clean>>

\* ... and "current" the candidate, which must still be there: 409 otherwise.
LinkCurrent(r) ==
    /\ pc[r] = "linking"
    /\ current' = Candidate(r)
    /\ \/ /\ Candidate(r) \in dirs
          /\ pc' = [pc EXCEPT ![r] = "caddy"]
          /\ UNCHANGED <<target, old, oldPrev, alone>>
       \/ Candidate(r) \notin dirs /\ End({r})
    /\ UNCHANGED <<builds, site, tree, previous, prune, failures, clean>>

\* Caddy has answered: the session writes what it takes for changed, commits.
Commit(r) ==
    /\ pc[r] = "caddy" /\ ~Busy
    /\ siteHash' = IF Candidate(r) = old[r] THEN siteHash ELSE Candidate(r)
    /\ sitePrev' = IF old[r] = oldPrev[r] THEN sitePrev ELSE old[r]
    /\ published' = published \cup {target[r]}
    /\ End({r})
    /\ clean' = (clean \/ r \in alone)
    /\ UNCHANGED <<row, approved, vetted, tree, links, prune, failures>>

\* restore_activation undoes only what it recognises: the candidate is served,
\* and "previous" names what the site row named.
Recognised(r) ==
    /\ current = Candidate(r) /\ Candidate(r) \in dirs
    /\ IF old[r] = NoHash THEN previous = NoHash ELSE previous = old[r] /\ old[r] \in dirs

\* Caddy refuses or cannot be reached: 503, after _compensate_release_activation.
CaddyFails(r) ==
    /\ pc[r] = "caddy" /\ ~Busy
    /\ current' = IF Recognised(r) THEN old[r] ELSE current
    /\ \/ /\ Recognised(r) /\ old[r] # NoHash
          /\ pc' = [pc EXCEPT ![r] = "restoring"]
          /\ UNCHANGED <<target, old, oldPrev, alone>>
       \/ ~(Recognised(r) /\ old[r] # NoHash) /\ End({r})
    /\ UNCHANGED <<builds, site, tree, previous, prune, failures, clean>>

RestorePrevious(r) ==
    /\ pc[r] = "restoring"
    /\ previous' = Candidate(r)
    /\ End({r})
    /\ UNCHANGED <<builds, site, tree, current, prune, failures, clean>>

\* The commit (or a statement before it) raises: 500, the links stay.
CommitFails(r) ==
    /\ pc[r] = "caddy" /\ ~Busy
    /\ failures < MaxFailures
    /\ failures' = failures + 1
    /\ End({r})
    /\ clean' = FALSE
    /\ UNCHANGED <<builds, site, tree, links, prune>>

\* The API process dies with its requests, between two links perhaps.
Crash ==
    /\ \E r \in Requests : pc[r] # "idle"
    /\ failures < MaxFailures
    /\ failures' = failures + 1
    /\ End(Requests)
    /\ clean' = FALSE
    /\ UNCHANGED <<builds, site, tree, links, prune>>

-----------------------------------------------------------------------------
(* prune_stale_site_releases.                                              *)

\* A directory passes the age of _RETENTION_DAYS.
Age(h) ==
    /\ h \in dirs \ aged /\ pruning = "no"
    /\ aged' = aged \cup {h}
    /\ UNCHANGED <<builds, site, dirs, links, requests, prune, failures, clean>>

SiteHashes == {siteHash, sitePrev} \ {NoHash}

PruneReadSite ==
    /\ pruning = "no"
    /\ Apart => \A b \in Builds : row[b] # "running"
    /\ pruning' = "rows"
    /\ keep' = SiteHashes
    /\ UNCHANGED <<builds, site, tree, links, requests, failures, clean>>

\* Faulty variant: only what was published is protected.
PublishedRows == published

\* Rows whose build_hash is protected; it is set when a build is ready.
ProtectedRows == {b \in Builds : row[b] = "ready" \/ b \in published}

PruneReadRows ==
    /\ pruning = "rows"
    /\ pruning' = "links"
    /\ keep' = keep \cup {HashOf[b] : b \in ProtectedRows}
    /\ UNCHANGED <<builds, site, tree, links, requests, failures, clean>>

\* The links that resolve, and the newest directories: which of two aged
\* directories is newer is left open.
PruneReadTree ==
    /\ pruning = "links"
    /\ pruning' = "delete"
    /\ \E newest \in SUBSET dirs :
          /\ Cardinality(newest) = (IF Cardinality(dirs) < KeepNewest
                                    THEN Cardinality(dirs) ELSE KeepNewest)
          /\ \A g \in newest, h \in dirs \ newest : g \in aged => h \in aged
          /\ keep' = keep \cup ({current, previous} \cap dirs) \cup newest \cup (dirs \ aged)
    /\ UNCHANGED <<builds, site, tree, links, requests, failures, clean>>

PruneOne(h) ==
    /\ pruning = "delete"
    /\ h \in aged \ keep
    /\ dirs' = dirs \ {h}
    /\ aged' = aged \ {h}
    /\ UNCHANGED <<builds, site, links, requests, prune, failures, clean>>

\* The pruning is done, or its task has died.
PruneEnds ==
    /\ pruning # "no"
    /\ pruning' = "no" /\ keep' = {}
    /\ UNCHANGED <<builds, site, tree, links, requests, failures, clean>>

-----------------------------------------------------------------------------
Next ==
    \/ \E b \in Builds : Queue(b) \/ Materialise(b) \/ FinishBuild(b) \/ FailBuild(b) \/ Review(b)
    \/ \E r \in Requests : \/ Publish(r) \/ Rollback(r) \/ Refuse(r)
                           \/ LinkPrevious(r) \/ LinkCurrent(r) \/ Commit(r)
                           \/ CaddyFails(r) \/ RestorePrevious(r) \/ CommitFails(r)
    \/ Crash
    \/ \E h \in Hashes : Age(h) \/ PruneOne(h)
    \/ PruneReadSite \/ PruneReadRows \/ PruneReadTree \/ PruneEnds

Spec == Init /\ [][Next]_vars

-----------------------------------------------------------------------------
(* Properties.                                                             *)

TypeOK ==
    /\ row \in [Builds -> {"absent", "queued", "running", "failed", "ready"}]
    /\ approved \subseteq Builds /\ published \subseteq Builds
    /\ siteHash \in HashOrNone /\ sitePrev \in HashOrNone
    /\ dirs \subseteq Hashes /\ aged \subseteq dirs
    /\ current \in HashOrNone /\ previous \in HashOrNone
    /\ pc \in [Requests -> {"idle", "checked", "linking", "caddy", "restoring"}]
    /\ target \in [Requests -> Builds \cup {NoBuild}]
    /\ old \in [Requests -> HashOrNone] /\ oldPrev \in [Requests -> HashOrNone]
    /\ pruning \in {"no", "rows", "links", "delete"} /\ keep \subseteq Hashes
    /\ clean \in BOOLEAN
    /\ failures \in 0 .. MaxFailures
    /\ vetted \subseteq Hashes /\ alone \subseteq Requests

AllIdle == \A r \in Requests : pc[r] = "idle"

\* What visitors are served is what the site row says is published.  It is so
\* as long as requests do not overlap and none dies, whatever Caddy answers
\* (_compensate_release_activation), and a request that had the site to itself
\* and committed makes it so again.
ServesDb == Apart /\ AllIdle /\ clean => current = siteHash

\* Nothing is ever served that was not approved by a legal review and finished
\* (publish_project_build, legal_review_status): not by a restored link, nor by
\* a request or a process that died half way.
OnlyVetted ==
    current # NoHash =>
        /\ current \in vetted
        /\ \E b \in Builds : row[b] = "ready" /\ HashOf[b] = current

\* "Delete only verified, unreferenced stale immutable release directories":
\* the release of every build that can be published, rolled back to or is
\* linked stays, although the pruning works from what it read before.
ReadyKept == Apart => \A b \in Builds : row[b] = "ready" => HashOf[b] \in dirs

\* "Publication is derived from Site.build_hash": whatever requests overlap, the
\* site row and the link agree once they are over.
AlwaysServesDb == AllIdle /\ failures = 0 => current = siteHash
=============================================================================
