---------------------------- MODULE ReleaseProofs ----------------------------
(***************************************************************************)
(* Theorems about Release, for any builds, hashes and requests, and        *)
(* whatever the bounds: what is served was vetted, the pruning keeps what  *)
(* is ready, and row and link agree when requests do not meet.             *)
(***************************************************************************)
EXTENDS Release, TLAPS

-----------------------------------------------------------------------------
(* The inductive invariant.                                                *)

\* Retention: a build that is running or ready has its directory, no build
\* runs during a pruning, and once the rows are read what is ready is kept.
KeepInv ==
    Apart => /\ \A b \in Builds : row[b] \in {"running", "ready"} => HashOf[b] \in dirs
             /\ pruning # "no" => \A b \in Builds : row[b] # "running"
             /\ pruning \in {"links", "delete"} =>
                    \A b \in Builds : row[b] = "ready" => HashOf[b] \in keep

\* A hash that may be served: vetted, and of a ready build.
Served(h) ==
    \/ h = NoHash
    \/ h \in vetted /\ \E b \in Builds : row[b] = "ready" /\ HashOf[b] = h

ReadyTarget(b) == b \in Builds /\ row[b] = "ready" /\ HashOf[b] \in vetted

\* Whatever can become current may be served: the copies of open requests,
\* which a failure restores, and their candidates.
VetInv ==
    /\ \A b \in approved : HashOf[b] \in vetted
    /\ Served(siteHash) /\ Served(current)
    /\ \A r \in Requests : Served(old[r])
    /\ \A r \in Requests : pc[r] # "idle" => ReadyTarget(target[r])

\* A request that has the site to itself holds the row as it is.
AloneInv ==
    \A r \in alone :
        /\ pc[r] # "idle"
        /\ \A q \in Requests : q # r => pc[q] = "idle"
        /\ old[r] = siteHash
        /\ pc[r] = "caddy" => current = Candidate(r)

\* Where the links stand in each step of such a request, if nothing went wrong
\* before it.
CleanInv ==
    Apart /\ clean =>
        /\ AllIdle => current = siteHash
        /\ siteHash = NoHash => previous = NoHash
        /\ \A r \in Requests :
              /\ pc[r] # "idle" => r \in alone
              /\ pc[r] \in {"checked", "linking", "restoring"} => current = siteHash
              /\ pc[r] \in {"linking", "caddy"} => previous = siteHash
              /\ pc[r] = "restoring" => siteHash # NoHash

IInv == TypeOK /\ KeepInv /\ VetInv /\ AloneInv /\ CleanInv

-----------------------------------------------------------------------------
\* The actions of the builds, of the requests and of the pruning.
BuildStep == \E b \in Builds : Queue(b) \/ Materialise(b) \/ FinishBuild(b) \/ FailBuild(b)
                                  \/ Review(b)
PruneStep == \/ \E h \in Hashes : Age(h) \/ PruneOne(h)
             \/ PruneReadSite \/ PruneReadRows \/ PruneReadTree \/ PruneEnds

\* The initial state satisfies the invariant.
LEMMA InitInv == Init => IInv
  BY ReleaseAssumption
  DEF Init, IInv, TypeOK, KeepInv, VetInv, AloneInv, CleanInv, Served, AllIdle, HashOrNone

\* An open request has a candidate, whose hash is one.
LEMMA CandidateHash ==
  ASSUME TypeOK, VetInv, NEW r \in Requests, pc[r] # "idle"
  PROVE  target[r] \in Builds /\ Candidate(r) \in Hashes /\ Candidate(r) # NoHash
<1>1. target[r] \in Builds
  BY DEF VetInv, ReadyTarget
<1> QED
  BY <1>1, ReleaseAssumption DEF Candidate

\* Ending requests keeps their types.
LEMMA EndTypes ==
  ASSUME TypeOK, NEW R \in SUBSET Requests, End(R)
  PROVE  /\ pc' \in [Requests -> {"idle", "checked", "linking", "caddy", "restoring"}]
         /\ target' \in [Requests -> Builds \cup {NoBuild}]
         /\ old' \in [Requests -> HashOrNone]
         /\ oldPrev' \in [Requests -> HashOrNone]
         /\ alone' \subseteq Requests
  BY DEF TypeOK, End, HashOrNone

\* Types.
LEMMA TypeStep == TypeOK /\ VetInv /\ [Next]_vars => TypeOK'
<1> SUFFICES ASSUME TypeOK, VetInv, [Next]_vars PROVE TypeOK'
  OBVIOUS
<1> USE ReleaseAssumption
<1>1. ASSUME NEW b \in Builds, Queue(b) PROVE TypeOK'
  BY <1>1 DEF TypeOK, Queue, site, tree, links, requests, prune, HashOrNone
<1>2. ASSUME NEW b \in Builds, Materialise(b) PROVE TypeOK'
  BY <1>2 DEF TypeOK, Materialise, site, links, requests, prune, HashOrNone
<1>3. ASSUME NEW b \in Builds, FinishBuild(b) PROVE TypeOK'
  BY <1>3 DEF TypeOK, FinishBuild, site, tree, links, requests, prune, HashOrNone
<1>4. ASSUME NEW b \in Builds, FailBuild(b) PROVE TypeOK'
  BY <1>4 DEF TypeOK, FailBuild, site, tree, links, requests, prune, HashOrNone
<1>5. ASSUME NEW b \in Builds, Review(b) PROVE TypeOK'
  BY <1>5 DEF TypeOK, Review, site, tree, links, requests, prune, HashOrNone
<1>6. ASSUME NEW r \in Requests, NEW b \in Builds, Open(r, b) PROVE TypeOK'
  BY <1>6 DEF TypeOK, Open, builds, site, tree, links, prune, HashOrNone
<1>7. ASSUME NEW r \in Requests, Refuse(r) PROVE TypeOK'
  BY <1>7, EndTypes DEF TypeOK, Refuse, builds, site, tree, links, prune, HashOrNone
<1>8. ASSUME NEW r \in Requests, LinkPrevious(r) PROVE TypeOK'
  BY <1>8 DEF TypeOK, LinkPrevious, builds, site, tree, prune, HashOrNone
<1>9. ASSUME NEW r \in Requests, LinkCurrent(r) PROVE TypeOK'
  <2>1. Candidate(r) \in Hashes
    BY <1>9, CandidateHash DEF LinkCurrent
  <2>2. CASE Candidate(r) \in dirs
    BY <1>9, <2>1, <2>2 DEF TypeOK, LinkCurrent, builds, site, tree, prune, HashOrNone
  <2>3. CASE Candidate(r) \notin dirs
    BY <1>9, <2>1, <2>3, EndTypes
    DEF TypeOK, LinkCurrent, builds, site, tree, prune, HashOrNone
  <2> QED
    BY <2>2, <2>3
<1>10. ASSUME NEW r \in Requests, Commit(r) PROVE TypeOK'
  <2>1. target[r] \in Builds /\ Candidate(r) \in Hashes
    BY <1>10, CandidateHash DEF Commit
  <2>2. siteHash' \in HashOrNone /\ sitePrev' \in HashOrNone /\ published' \subseteq Builds
    BY <1>10, <2>1 DEF TypeOK, Commit, HashOrNone
  <2>3. clean' \in BOOLEAN
    BY <1>10 DEF TypeOK, Commit
  <2> QED
    BY <1>10, <2>2, <2>3, EndTypes DEF TypeOK, Commit, tree, links, prune, HashOrNone
<1>11. ASSUME NEW r \in Requests, CaddyFails(r) PROVE TypeOK'
  <2>1. current' \in HashOrNone
    BY <1>11 DEF TypeOK, CaddyFails
  <2>2. CASE End({r})
    BY <1>11, <2>1, <2>2, EndTypes
    DEF TypeOK, CaddyFails, builds, site, tree, prune, HashOrNone
  <2>3. CASE pc' = [pc EXCEPT ![r] = "restoring"] /\ UNCHANGED <<target, old, oldPrev, alone>>
    BY <1>11, <2>1, <2>3 DEF TypeOK, CaddyFails, builds, site, tree, prune, HashOrNone
  <2> QED
    BY <1>11, <2>2, <2>3 DEF CaddyFails
<1>12. ASSUME NEW r \in Requests, RestorePrevious(r) PROVE TypeOK'
  <2>1. Candidate(r) \in Hashes
    BY <1>12, CandidateHash DEF RestorePrevious
  <2> QED
    BY <1>12, <2>1, EndTypes
    DEF TypeOK, RestorePrevious, builds, site, tree, prune, HashOrNone
<1>13. ASSUME NEW r \in Requests, CommitFails(r) PROVE TypeOK'
  <2>1. failures \in Nat /\ failures < MaxFailures /\ MaxFailures \in Nat
    BY <1>13 DEF TypeOK, CommitFails
  <2>2. failures' = failures + 1 /\ clean' = FALSE
    BY <1>13 DEF CommitFails
  <2>3. failures' \in 0 .. MaxFailures
    BY <2>1, <2>2
  <2> QED
    BY <1>13, <2>2, <2>3, EndTypes
    DEF TypeOK, CommitFails, builds, site, tree, links, prune, HashOrNone
<1>14. ASSUME Crash PROVE TypeOK'
  <2>1. failures \in Nat /\ failures < MaxFailures /\ MaxFailures \in Nat
    BY <1>14 DEF TypeOK, Crash
  <2>2. failures' = failures + 1 /\ clean' = FALSE
    BY <1>14 DEF Crash
  <2>3. failures' \in 0 .. MaxFailures
    BY <2>1, <2>2
  <2> QED
    BY <1>14, <2>2, <2>3, EndTypes DEF TypeOK, Crash, builds, site, tree, links, prune, HashOrNone
<1>15. ASSUME PruneStep PROVE TypeOK'
  <2>1. /\ dirs' \subseteq Hashes /\ aged' \subseteq dirs' /\ keep' \subseteq Hashes
        /\ pruning' \in {"no", "rows", "links", "delete"}
    <3>1. ASSUME NEW h \in Hashes, Age(h) \/ PruneOne(h) PROVE <2>1!:
      BY <3>1 DEF TypeOK, Age, PruneOne, prune
    <3>2. ASSUME PruneReadSite \/ PruneEnds PROVE <2>1!:
      BY <3>2 DEF TypeOK, PruneReadSite, PruneEnds, SiteHashes, tree, HashOrNone
    <3>3. ASSUME PruneReadRows PROVE <2>1!:
      BY <3>3 DEF TypeOK, PruneReadRows, ProtectedRows, tree
    <3>4. ASSUME PruneReadTree PROVE <2>1!:
      <4>1. PICK newest \in SUBSET dirs :
                keep' = keep \cup ({current, previous} \cap dirs) \cup newest \cup (dirs \ aged)
        BY <3>4 DEF PruneReadTree
      <4> QED
        BY <3>4, <4>1 DEF TypeOK, PruneReadTree, tree
    <3> QED
      BY <1>15, <3>1, <3>2, <3>3, <3>4 DEF PruneStep
  <2>2. UNCHANGED <<builds, site, links, requests, failures, clean>>
    BY <1>15 DEF PruneStep, Age, PruneOne, PruneReadSite, PruneReadRows, PruneReadTree,
       PruneEnds, tree
  <2> QED
    BY <2>1, <2>2 DEF TypeOK, builds, site, links, requests, HashOrNone
<1>16. ASSUME UNCHANGED vars PROVE TypeOK'
  BY <1>16 DEF TypeOK, vars, builds, site, tree, links, requests, prune, HashOrNone
<1> QED
  BY <1>1, <1>2, <1>3, <1>4, <1>5, <1>6, <1>7, <1>8, <1>9, <1>10, <1>11, <1>12, <1>13,
     <1>14, <1>15, <1>16 DEF Next, Publish, Rollback, PruneStep

\* Retention.  The pruning deletes nothing of a ready build: it started with no
\* build running, none has started since, and the ready ones are in keep.
LEMMA KeepStep == TypeOK /\ KeepInv /\ [Next]_vars => KeepInv'
<1> SUFFICES ASSUME TypeOK, KeepInv, [Next]_vars, Apart PROVE KeepInv'
  BY DEF KeepInv
<1> USE ReleaseAssumption
<1>1. ASSUME NEW b \in Builds, Queue(b) PROVE KeepInv'
  BY <1>1 DEF TypeOK, KeepInv, Queue, tree, prune
<1>2. ASSUME NEW b \in Builds, Materialise(b) PROVE KeepInv'
  BY <1>2 DEF TypeOK, KeepInv, Materialise, prune
<1>3. ASSUME NEW b \in Builds, FinishBuild(b) PROVE KeepInv'
  BY <1>3 DEF TypeOK, KeepInv, FinishBuild, tree, prune
<1>4. ASSUME NEW b \in Builds, FailBuild(b) PROVE KeepInv'
  BY <1>4 DEF TypeOK, KeepInv, FailBuild, tree, prune
<1>5. ASSUME NEW h \in Hashes, Age(h) PROVE KeepInv'
  BY <1>5 DEF KeepInv, Age, builds, prune
<1>6. ASSUME NEW h \in Hashes, PruneOne(h) PROVE KeepInv'
  BY <1>6 DEF KeepInv, PruneOne, builds, prune
<1>7. ASSUME PruneReadSite PROVE KeepInv'
  BY <1>7 DEF KeepInv, PruneReadSite, builds, tree
<1>8. ASSUME PruneReadRows PROVE KeepInv'
  BY <1>8 DEF KeepInv, PruneReadRows, ProtectedRows, builds, tree
<1>9. ASSUME PruneReadTree PROVE KeepInv'
  <2>1. keep \subseteq keep' /\ pruning = "links" /\ UNCHANGED <<row, dirs>>
    BY <1>9 DEF PruneReadTree, builds, tree
  <2> QED
    BY <2>1 DEF KeepInv
<1>10. ASSUME PruneEnds PROVE KeepInv'
  BY <1>10 DEF KeepInv, PruneEnds, builds, tree
<1>11. ASSUME UNCHANGED <<row, dirs, pruning, keep>> PROVE KeepInv'
  BY <1>11 DEF KeepInv
<1>12. ASSUME NEW r \in Requests, NEW b \in Builds, Open(r, b) \/ Review(b)
       PROVE  UNCHANGED <<row, dirs, pruning, keep>>
  BY <1>12 DEF Open, Review, builds, tree, prune
<1>13. ASSUME NEW b \in Builds, Review(b)
       PROVE  UNCHANGED <<row, dirs, pruning, keep>>
  BY <1>13 DEF Review, tree, prune
<1>14. ASSUME NEW r \in Requests,
              \/ Refuse(r) \/ LinkPrevious(r) \/ LinkCurrent(r) \/ Commit(r)
              \/ CaddyFails(r) \/ RestorePrevious(r) \/ CommitFails(r)
       PROVE  UNCHANGED <<row, dirs, pruning, keep>>
  BY <1>14 DEF Refuse, LinkPrevious, LinkCurrent, Commit, CaddyFails, RestorePrevious,
     CommitFails, builds, tree, prune
<1>15. ASSUME Crash \/ UNCHANGED vars PROVE UNCHANGED <<row, dirs, pruning, keep>>
  BY <1>15 DEF Crash, vars, builds, tree, prune
<1> QED
  BY <1>1, <1>2, <1>3, <1>4, <1>5, <1>6, <1>7, <1>8, <1>9, <1>10, <1>11, <1>12, <1>13,
     <1>14, <1>15 DEF Next, Publish, Rollback

\* What may be served stays so: no build leaves "ready", nothing leaves vetted.
LEMMA ServedStays ==
  ASSUME /\ vetted \subseteq vetted'
         /\ \A b \in Builds : row[b] = "ready" => row'[b] = "ready",
         NEW CONSTANT h, Served(h)
  PROVE  Served(h)'
  BY DEF Served

\* A ready target stays one.
LEMMA TargetStays ==
  ASSUME /\ vetted \subseteq vetted'
         /\ \A b \in Builds : row[b] = "ready" => row'[b] = "ready",
         NEW CONSTANT b, ReadyTarget(b)
  PROVE  ReadyTarget(b)'
  BY DEF ReadyTarget

\* A build that may be published is a ready target.
LEMMA OpenTarget ==
  ASSUME VetInv, NEW b \in Builds, Publishable(b)
  PROVE  ReadyTarget(b)
  BY DEF VetInv, ReadyTarget, Publishable

\* What a step of a request may do to what can be served: it keeps the builds
\* and the history, and the row, the link and the copies take what is servable.
Sound ==
    /\ UNCHANGED <<row, vetted, approved>>
    /\ Served(siteHash') /\ Served(current')
    /\ \A r \in Requests : Served(old'[r])
    /\ \A r \in Requests : pc'[r] # "idle" => ReadyTarget(target'[r])

LEMMA SoundVet == VetInv /\ Sound => VetInv'
  BY DEF VetInv, Sound, Served, ReadyTarget

\* A candidate may be served.
LEMMA CandidateServed ==
  ASSUME VetInv, NEW r \in Requests, pc[r] # "idle"
  PROVE  Served(Candidate(r)) /\ Served(old[r]) /\ ReadyTarget(target[r])
  BY DEF VetInv, ReadyTarget, Served, Candidate

\* Ending requests leaves the open ones with servable candidates and copies.
LEMMA EndSound ==
  ASSUME TypeOK, VetInv, NEW R \in SUBSET Requests, End(R)
  PROVE  /\ \A r \in Requests : Served(old'[r])
         /\ \A r \in Requests : pc'[r] # "idle" => ReadyTarget(target'[r])
  BY DEF TypeOK, VetInv, End, Served

\* Whatever a step does, what can be served was vetted.
LEMMA VetStep == TypeOK /\ VetInv /\ [Next]_vars => VetInv'
<1> SUFFICES ASSUME TypeOK, VetInv, [Next]_vars PROVE VetInv'
  OBVIOUS
<1>1. ASSUME NEW b \in Builds,
             Queue(b) \/ Materialise(b) \/ FinishBuild(b) \/ FailBuild(b) \/ Review(b)
      PROVE  VetInv'
  <2>1. UNCHANGED <<siteHash, current, pc, target, old>>
    BY <1>1 DEF Queue, Materialise, FinishBuild, FailBuild, Review, site, links, requests
  <2>2. \A c \in Builds : row[c] = "ready" => row'[c] = "ready"
    BY <1>1 DEF TypeOK, Queue, Materialise, FinishBuild, FailBuild, Review
  <2>3. vetted \subseteq vetted'
    BY <1>1 DEF Queue, Materialise, FinishBuild, FailBuild, Review
  <2>4. \A c \in approved' : HashOf[c] \in vetted'
    BY <1>1 DEF VetInv, Queue, Materialise, FinishBuild, FailBuild, Review
  <2>5. Served(siteHash)' /\ Served(current)'
    BY <2>1, <2>2, <2>3 DEF VetInv, Served
  <2>6. \A r \in Requests : Served(old[r])'
    BY <2>1, <2>2, <2>3 DEF VetInv, Served
  <2>7. \A r \in Requests : pc'[r] # "idle" => ReadyTarget(target[r])'
    BY <2>1, <2>2, <2>3 DEF VetInv, ReadyTarget
  <2> QED
    BY <2>4, <2>5, <2>6, <2>7 DEF VetInv
<1>2. ASSUME NEW r \in Requests, NEW b \in Builds, Publishable(b), Open(r, b) PROVE VetInv'
  <2>1. ReadyTarget(b)
    BY <1>2, OpenTarget
  <2>2. UNCHANGED <<row, vetted, approved, siteHash, current>>
    BY <1>2 DEF Open, builds, site, links
  <2>3. \A q \in Requests : Served(old'[q])
    BY <1>2 DEF TypeOK, VetInv, Open
  <2>4. \A q \in Requests : pc'[q] # "idle" => ReadyTarget(target'[q])
    BY <1>2, <2>1 DEF TypeOK, VetInv, Open
  <2>5. Served(siteHash') /\ Served(current')
    BY <2>2 DEF VetInv
  <2> QED
    BY <2>2, <2>3, <2>4, <2>5, SoundVet DEF Sound
<1>3. ASSUME NEW r \in Requests, Refuse(r) \/ CommitFails(r) PROVE VetInv'
  <2>1. End({r}) /\ UNCHANGED <<row, vetted, approved, siteHash, current>>
    BY <1>3 DEF Refuse, CommitFails, builds, site, links
  <2> QED
    BY <2>1, EndSound, SoundVet DEF Sound, VetInv
<1>4. ASSUME NEW r \in Requests, LinkPrevious(r) PROVE VetInv'
  <2>1. UNCHANGED <<row, vetted, approved, siteHash, current, old, target>>
    BY <1>4 DEF LinkPrevious, builds, site
  <2>2. \A q \in Requests : pc'[q] # "idle" => pc[q] # "idle"
    BY <1>4 DEF TypeOK, LinkPrevious
  <2> QED
    BY <2>1, <2>2, SoundVet DEF Sound, VetInv
<1>5. ASSUME NEW r \in Requests, LinkCurrent(r) PROVE VetInv'
  <2>1. Served(current') /\ UNCHANGED <<row, vetted, approved, siteHash>>
    BY <1>5, CandidateServed DEF LinkCurrent, builds, site
  <2>2. CASE End({r})
    BY <2>1, <2>2, EndSound, SoundVet DEF Sound, VetInv
  <2>3. CASE pc' = [pc EXCEPT ![r] = "caddy"] /\ UNCHANGED <<target, old, oldPrev, alone>>
    <3>1. \A q \in Requests : pc'[q] # "idle" => pc[q] # "idle"
      BY <1>5, <2>3 DEF TypeOK, LinkCurrent
    <3> QED
      BY <2>1, <2>3, <3>1, SoundVet DEF Sound, VetInv
  <2> QED
    BY <1>5, <2>2, <2>3 DEF LinkCurrent
<1>6. ASSUME NEW r \in Requests, Commit(r) PROVE VetInv'
  <2>1. Served(siteHash')
    BY <1>6, CandidateServed DEF Commit, VetInv
  <2>2. End({r}) /\ UNCHANGED <<row, vetted, approved, current>>
    BY <1>6 DEF Commit, links
  <2> QED
    BY <2>1, <2>2, EndSound, SoundVet DEF Sound, VetInv
<1>7. ASSUME NEW r \in Requests, CaddyFails(r) PROVE VetInv'
  <2>1. Served(current') /\ UNCHANGED <<row, vetted, approved, siteHash>>
    BY <1>7, CandidateServed DEF CaddyFails, VetInv, builds, site
  <2>2. CASE End({r})
    BY <2>1, <2>2, EndSound, SoundVet DEF Sound, VetInv
  <2>3. CASE pc' = [pc EXCEPT ![r] = "restoring"] /\ UNCHANGED <<target, old, oldPrev, alone>>
    <3>1. \A q \in Requests : pc'[q] # "idle" => pc[q] # "idle"
      BY <1>7, <2>3 DEF TypeOK, CaddyFails
    <3> QED
      BY <2>1, <2>3, <3>1, SoundVet DEF Sound, VetInv
  <2> QED
    BY <1>7, <2>2, <2>3 DEF CaddyFails
<1>8. ASSUME NEW r \in Requests, RestorePrevious(r) PROVE VetInv'
  <2>1. End({r}) /\ UNCHANGED <<row, vetted, approved, siteHash, current>>
    BY <1>8 DEF RestorePrevious, builds, site
  <2> QED
    BY <2>1, EndSound, SoundVet DEF Sound, VetInv
<1>9. ASSUME Crash PROVE VetInv'
  <2>1. End(Requests) /\ UNCHANGED <<row, vetted, approved, siteHash, current>>
    BY <1>9 DEF Crash, builds, site, links
  <2> QED
    BY <2>1, EndSound, SoundVet DEF Sound, VetInv
<1>10. ASSUME PruneStep \/ UNCHANGED vars PROVE VetInv'
  <2>1. UNCHANGED <<row, vetted, approved, siteHash, current, old, target, pc>>
    BY <1>10 DEF PruneStep, Age, PruneOne, PruneReadSite, PruneReadRows, PruneReadTree,
       PruneEnds, vars, builds, site, links, requests
  <2> QED
    BY <2>1, SoundVet DEF Sound, VetInv
<1> QED
  BY <1>1, <1>2, <1>3, <1>4, <1>5, <1>6, <1>7, <1>8, <1>9, <1>10
  DEF Next, Publish, Rollback, RollbackTarget, PruneStep

\* What ends leaves the rest as it was.
LEMMA EndEffect ==
  ASSUME TypeOK, NEW R \in SUBSET Requests, End(R)
  PROVE  /\ \A q \in R : pc'[q] = "idle"
         /\ \A q \in Requests \ R : pc'[q] = pc[q]
         /\ alone' = alone \ R
  BY DEF TypeOK, End

\* When a request that may be the one alone is over, no request is alone.
LEMMA EndAlone ==
  ASSUME TypeOK, AloneInv, NEW r \in Requests, pc[r] # "idle", End({r})
  PROVE  AloneInv'
<1>1. alone' = {}
  BY EndEffect DEF AloneInv, TypeOK
<1> QED
  BY <1>1 DEF AloneInv

LEMMA AloneStep == TypeOK /\ AloneInv /\ [Next]_vars => AloneInv'
<1> SUFFICES ASSUME TypeOK, AloneInv, [Next]_vars PROVE AloneInv'
  OBVIOUS
<1>1. ASSUME BuildStep \/ PruneStep \/ UNCHANGED vars PROVE AloneInv'
  <2>1. UNCHANGED <<siteHash, current, pc, target, old, alone>>
    <3>1. CASE BuildStep
      BY <3>1 DEF BuildStep, Queue, Materialise, FinishBuild, FailBuild, Review,
         site, links, requests
    <3>2. CASE PruneStep
      BY <3>2 DEF PruneStep, Age, PruneOne, PruneReadSite, PruneReadRows, PruneReadTree,
         PruneEnds, site, links, requests
    <3>3. CASE UNCHANGED vars
      BY <3>3 DEF vars, site, links, requests
    <3> QED
      BY <1>1, <3>1, <3>2, <3>3
  <2> QED
    BY <2>1 DEF AloneInv, Candidate
<1>2. ASSUME NEW r \in Requests, NEW b \in Builds, Open(r, b) PROVE AloneInv'
  <2>1. CASE \A q \in Requests : pc[q] = "idle"
    <3>1. /\ alone' = {r}
          /\ pc'[r] = "checked"
          /\ \A q \in Requests : q # r => pc'[q] = "idle"
          /\ old'[r] = siteHash'
      BY <1>2, <2>1 DEF TypeOK, Open, site
    <3> QED
      BY <3>1 DEF AloneInv
  <2>2. CASE ~ \A q \in Requests : pc[q] = "idle"
    <3>1. alone' = {}
      BY <1>2, <2>2 DEF Open
    <3> QED
      BY <3>1 DEF AloneInv
  <2> QED
    BY <2>1, <2>2
<1>3. ASSUME NEW r \in Requests,
             Refuse(r) \/ Commit(r) \/ RestorePrevious(r) \/ CommitFails(r)
      PROVE  AloneInv'
  <2>1. pc[r] # "idle" /\ End({r})
    BY <1>3 DEF Refuse, Commit, RestorePrevious, CommitFails
  <2> QED
    BY <2>1, EndAlone
<1>4. ASSUME NEW r \in Requests, LinkPrevious(r) PROVE AloneInv'
  <2>1. /\ pc'[r] = "linking" /\ \A q \in Requests : q # r => pc'[q] = pc[q]
        /\ pc[r] # "idle"
    BY <1>4 DEF TypeOK, LinkPrevious
  <2>2. UNCHANGED <<siteHash, current, target, old, alone>>
    BY <1>4 DEF LinkPrevious, site
  <2> QED
    BY <2>1, <2>2 DEF AloneInv, Candidate
<1>5. ASSUME NEW r \in Requests, LinkCurrent(r) PROVE AloneInv'
  <2>1. pc[r] # "idle" /\ alone \subseteq {r}
    BY <1>5 DEF TypeOK, AloneInv, LinkCurrent
  <2>2. CASE End({r})
    BY <2>1, <2>2, EndAlone
  <2>3. CASE pc' = [pc EXCEPT ![r] = "caddy"] /\ UNCHANGED <<target, old, oldPrev, alone>>
    <3>1. /\ pc'[r] = "caddy" /\ \A q \in Requests : q # r => pc'[q] = pc[q]
      BY <2>3 DEF TypeOK
    <3>2. current' = Candidate(r)' /\ UNCHANGED siteHash
      BY <1>5, <2>3 DEF LinkCurrent, Candidate, site
    <3> QED
      BY <2>1, <2>3, <3>1, <3>2 DEF AloneInv
  <2> QED
    BY <1>5, <2>2, <2>3 DEF LinkCurrent
<1>6. ASSUME NEW r \in Requests, CaddyFails(r) PROVE AloneInv'
  <2>1. pc[r] # "idle" /\ alone \subseteq {r}
    BY <1>6 DEF TypeOK, AloneInv, CaddyFails
  <2>2. CASE End({r})
    BY <2>1, <2>2, EndAlone
  <2>3. CASE pc' = [pc EXCEPT ![r] = "restoring"] /\ UNCHANGED <<target, old, oldPrev, alone>>
    <3>1. /\ pc'[r] = "restoring" /\ \A q \in Requests : q # r => pc'[q] = pc[q]
      BY <2>3 DEF TypeOK
    <3>2. UNCHANGED siteHash
      BY <1>6 DEF CaddyFails, site
    <3> QED
      BY <2>1, <2>3, <3>1, <3>2 DEF AloneInv
  <2> QED
    BY <1>6, <2>2, <2>3 DEF CaddyFails
<1>7. ASSUME Crash PROVE AloneInv'
  <2>1. alone' = {}
    BY <1>7, EndEffect DEF Crash, TypeOK
  <2> QED
    BY <2>1 DEF AloneInv
<1> QED
  BY <1>1, <1>2, <1>3, <1>4, <1>5, <1>6, <1>7 DEF Next, Publish, Rollback, BuildStep, PruneStep

\* A hash that can be served is NoHash or has its directory.
LEMMA ServedDir ==
  ASSUME KeepInv, Apart, NEW h, Served(h), h # NoHash
  PROVE  h \in dirs
  BY DEF KeepInv, Served

\* The links, in a site that has one request at a time and lost none.
LEMMA CleanStep ==
  TypeOK /\ KeepInv /\ VetInv /\ AloneInv /\ CleanInv /\ [Next]_vars => CleanInv'
<1> SUFFICES ASSUME TypeOK, KeepInv, VetInv, AloneInv, CleanInv, [Next]_vars, Apart, clean'
             PROVE  CleanInv'
  BY DEF CleanInv
<1>1. ASSUME BuildStep \/ PruneStep \/ UNCHANGED vars PROVE CleanInv'
  <2>1. UNCHANGED <<siteHash, current, previous, pc, alone, clean>>
    <3>1. CASE BuildStep
      BY <3>1 DEF BuildStep, Queue, Materialise, FinishBuild, FailBuild, Review,
         site, links, requests
    <3>2. CASE PruneStep
      BY <3>2 DEF PruneStep, Age, PruneOne, PruneReadSite, PruneReadRows, PruneReadTree,
         PruneEnds, site, links, requests
    <3>3. CASE UNCHANGED vars
      BY <3>3 DEF vars, site, links, requests
    <3> QED
      BY <1>1, <3>1, <3>2, <3>3
  <2> QED
    BY <2>1 DEF CleanInv, AllIdle
<1>2. ASSUME NEW r \in Requests, NEW b \in Builds, Open(r, b) PROVE CleanInv'
  <2>1. clean /\ \A q \in Requests : pc[q] = "idle"
    BY <1>2 DEF Open
  <2>2. /\ pc'[r] = "checked" /\ \A q \in Requests : q # r => pc'[q] = "idle"
        /\ r \in alone'
    BY <1>2, <2>1 DEF TypeOK, Open
  <2>3. UNCHANGED <<siteHash, current, previous>>
    BY <1>2 DEF Open, site, links
  <2> QED
    BY <2>1, <2>2, <2>3 DEF CleanInv, AllIdle
\* In every other step of a request it is the one that is alone.
<1>3. ASSUME NEW r \in Requests, pc[r] # "idle", clean
      PROVE  /\ r \in alone /\ old[r] = siteHash
             /\ \A q \in Requests : q # r => pc[q] = "idle"
             /\ Candidate(r) \in dirs /\ Candidate(r) # NoHash
             /\ siteHash # NoHash => siteHash \in dirs
  <2>1. r \in alone
    BY <1>3 DEF CleanInv
  <2>2. Candidate(r) \in dirs
    BY <1>3 DEF VetInv, ReadyTarget, KeepInv, Candidate
  <2>3. Candidate(r) # NoHash
    BY <1>3, CandidateHash
  <2>4. siteHash # NoHash => siteHash \in dirs
    BY ServedDir DEF VetInv
  <2> QED
    BY <2>1, <2>2, <2>3, <2>4 DEF AloneInv
<1>4. ASSUME NEW r \in Requests, Refuse(r) PROVE CleanInv'
  <2>1. pc[r] = "checked" /\ clean /\ End({r}) /\ UNCHANGED <<siteHash, current, previous>>
    BY <1>4 DEF Refuse, site, links
  <2>2. \A q \in Requests : pc'[q] = "idle"
    BY <2>1, <1>3, EndEffect
  <2> QED
    BY <2>1, <2>2 DEF CleanInv, AllIdle
<1>5. ASSUME NEW r \in Requests, LinkPrevious(r) PROVE CleanInv'
  <2>1. /\ pc[r] = "checked" /\ clean /\ UNCHANGED <<siteHash, current, alone>>
        /\ previous' = IF current = NoHash THEN previous ELSE current
    BY <1>5 DEF LinkPrevious, site
  <2>2. pc'[r] = "linking" /\ \A q \in Requests : q # r => pc'[q] = "idle"
    BY <2>1, <1>3, <1>5 DEF LinkPrevious, TypeOK
  <2>3. r \in alone /\ current = siteHash /\ previous' = siteHash
    BY <2>1, <1>3 DEF CleanInv
  <2> QED
    BY <2>1, <2>2, <2>3 DEF CleanInv, AllIdle
<1>6. ASSUME NEW r \in Requests, LinkCurrent(r) PROVE CleanInv'
  <2>1. pc[r] = "linking" /\ clean /\ UNCHANGED <<siteHash, previous>>
    BY <1>6 DEF LinkCurrent, site
  <2>2. r \in alone /\ Candidate(r) \in dirs /\ \A q \in Requests : q # r => pc[q] = "idle"
    BY <2>1, <1>3
  <2>3. pc' = [pc EXCEPT ![r] = "caddy"] /\ UNCHANGED alone
    BY <1>6, <2>2 DEF LinkCurrent
  <2>4. pc'[r] = "caddy" /\ \A q \in Requests : q # r => pc'[q] = "idle"
    BY <2>2, <2>3 DEF TypeOK
  <2>5. previous = siteHash
    BY <2>1 DEF CleanInv
  <2> QED
    BY <2>1, <2>2, <2>3, <2>4, <2>5 DEF CleanInv, AllIdle
<1>7. ASSUME NEW r \in Requests, Commit(r) PROVE CleanInv'
  <2>1. pc[r] = "caddy" /\ End({r}) /\ UNCHANGED <<current, previous>> /\ r \in alone
    BY <1>3, <1>7 DEF Commit, links
  <2>2. old[r] = siteHash /\ current = Candidate(r)
    BY <2>1 DEF AloneInv
  <2>3. siteHash' = Candidate(r) /\ Candidate(r) # NoHash
    BY <2>1, <2>2, <1>7, CandidateHash DEF Commit
  <2>4. \A q \in Requests : pc'[q] = "idle"
    BY <2>1, EndEffect DEF AloneInv
  <2> QED
    BY <2>1, <2>2, <2>3, <2>4 DEF CleanInv, AllIdle
<1>8. ASSUME NEW r \in Requests, CaddyFails(r) PROVE CleanInv'
  <2>1. pc[r] = "caddy" /\ clean /\ UNCHANGED <<siteHash, previous>>
    BY <1>8 DEF CaddyFails, site
  <2>2. /\ r \in alone /\ old[r] = siteHash /\ current = Candidate(r) /\ previous = siteHash
        /\ \A q \in Requests : q # r => pc[q] = "idle"
    BY <2>1, <1>3 DEF AloneInv, CleanInv
  <2>3. Recognised(r)
    <3>1. Candidate(r) \in dirs /\ (siteHash # NoHash => siteHash \in dirs)
      BY <2>1, <1>3
    <3> QED
      BY <2>2, <3>1 DEF Recognised
  <2>4. current' = siteHash
    BY <1>8, <2>2, <2>3 DEF CaddyFails
  <2>5. CASE siteHash = NoHash
    <3>1. End({r})
      BY <1>8, <2>2, <2>5 DEF CaddyFails
    <3>2. \A q \in Requests : pc'[q] = "idle"
      BY <2>2, <3>1, EndEffect
    <3> QED
      BY <2>1, <2>2, <2>4, <2>5, <3>2 DEF CleanInv, AllIdle
  <2>6. CASE siteHash # NoHash
    <3>1. pc' = [pc EXCEPT ![r] = "restoring"] /\ UNCHANGED alone
      BY <1>8, <2>2, <2>3, <2>6 DEF CaddyFails
    <3>2. pc'[r] = "restoring" /\ \A q \in Requests : q # r => pc'[q] = "idle"
      BY <2>2, <3>1 DEF TypeOK
    <3> QED
      BY <2>1, <2>2, <2>4, <2>6, <3>1, <3>2 DEF CleanInv, AllIdle
  <2> QED
    BY <2>5, <2>6
<1>9. ASSUME NEW r \in Requests, RestorePrevious(r) PROVE CleanInv'
  <2>1. pc[r] = "restoring" /\ clean /\ End({r}) /\ UNCHANGED <<siteHash, current>>
    BY <1>9 DEF RestorePrevious, site
  <2>2. current = siteHash /\ siteHash # NoHash
    BY <2>1 DEF CleanInv
  <2>3. \A q \in Requests : pc'[q] = "idle"
    BY <2>1, <1>3, EndEffect
  <2> QED
    BY <2>1, <2>2, <2>3 DEF CleanInv, AllIdle
<1>10. ASSUME (\E r \in Requests : CommitFails(r)) \/ Crash PROVE FALSE
  BY <1>10 DEF CommitFails, Crash
<1> QED
  BY <1>1, <1>2, <1>4, <1>5, <1>6, <1>7, <1>8, <1>9, <1>10
  DEF Next, Publish, Rollback, BuildStep, PruneStep

-----------------------------------------------------------------------------
(* The theorems.                                                           *)

\* The invariant is inductive.
LEMMA Invariant == Spec => []IInv
<1>1. IInv /\ [Next]_vars => IInv'
  BY TypeStep, KeepStep, VetStep, AloneStep, CleanStep DEF IInv
<1> QED
  BY InitInv, <1>1, PTL DEF Spec

\* Types: a request that is open has a build, so no link ever takes a value
\* that is not a release.
THEOREM TypeCorrect == Spec => []TypeOK
<1>1. IInv => TypeOK
  BY DEF IInv
<1> QED
  BY Invariant, <1>1, PTL

\* prune_stale_site_releases deletes no release of a ready build, although it
\* decides from what it read before, as long as no build runs meanwhile.
THEOREM PruningKeeps == Spec => []ReadyKept
<1>1. IInv => ReadyKept
  BY DEF IInv, KeepInv, ReadyKept
<1> QED
  BY Invariant, <1>1, PTL

\* publish_project_build, rollback_project_build, restore_activation, a crash
\* between two links: what is served was reviewed and finished.
THEOREM ServedVetted == Spec => []OnlyVetted
<1>1. IInv => OnlyVetted
  BY DEF IInv, VetInv, Served, OnlyVetted
<1> QED
  BY Invariant, <1>1, PTL

\* _compensate_release_activation: the site row and the link agree when requests
\* do not overlap and none is lost.
THEOREM RowAndLink == Spec => []ServesDb
<1>1. IInv => ServesDb
  BY DEF IInv, CleanInv, ServesDb
<1> QED
  BY Invariant, <1>1, PTL
=============================================================================
