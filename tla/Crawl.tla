-------------------------------- MODULE Crawl --------------------------------
(***************************************************************************)
(* One run of the competitor crawler (services/competitor_crawl.py): the   *)
(* robots file, the sitemap queue, the breadth-first page queue, and the   *)
(* cancellation that the loop reads before each page.  How the run is      *)
(* queued, leased and recovered is Scheduler.                              *)
(*                                                                         *)
(* run.progress is a plain JSON column changed in place, so its counts are *)
(* never written, and the loop's reload of the row resets them: fetched    *)
(* is the count the loop's limit sees.                                     *)
(***************************************************************************)
EXTENDS Naturals, Sequences, FiniteSets, SequencesExt

CONSTANTS Urls, Seed,         \* addresses of one origin, and the root address
          Links,              \* address -> addresses its page links to
          Maps, RootMap,      \* the addresses ending in .xml, and /sitemap.xml
          Listed,             \* sitemap -> addresses it lists
          MaxPages, MaxDepth, MaxSeen, MaxMaps

ASSUME CrawlAssumption ==
  /\ IsFiniteSet(Urls) /\ Seed \in Urls /\ RootMap \in Maps /\ Maps \subseteq Urls
  /\ Links \in [Urls -> SUBSET Urls] /\ Listed \in [Maps -> SUBSET Urls]
  /\ MaxDepth \in Nat /\ {MaxPages, MaxSeen, MaxMaps} \subseteq Nat \ {0}

VARIABLES status,      \* status of the run
          step,        \* where the crawler is
          disallowed,  \* addresses the robots file excludes
          mapQueue, mapsSeen,
          queue,       \* discovered pages, oldest first
          seen,        \* addresses ever put in the queue
          depthOf,     \* depth at which an address was discovered
          fetched,     \* the count the page limit is compared with
          pages,       \* stored page rows: address -> outcome
          evidence     \* KnowledgeDoc rows made from this run

crawlVars == <<status, step, disallowed, mapQueue, mapsSeen, queue, seen, depthOf,
               fetched, pages, evidence>>

CrawlFinal == {"partial", "done", "blocked", "failed", "cancelled"}
Outcomes == {"fetched", "skipped", "failed"}
PageRows == UNION {[P -> Outcomes] : P \in SUBSET Urls}

CrawlInit ==
  /\ status = "queued" /\ step = "idle"
  /\ disallowed = {} /\ mapQueue = <<>> /\ mapsSeen = {}
  /\ queue = <<>> /\ seen = {} /\ depthOf = [u \in Urls |-> 0]
  /\ fetched = 0 /\ pages = <<>> /\ evidence = 0

-----------------------------------------------------------------------------
\* run_competitor_crawl takes a queued run under the row lock.
StartCrawl ==
  /\ status = "queued"
  /\ status' = "running" /\ step' = "robots"
  /\ UNCHANGED <<disallowed, mapQueue, mapsSeen, queue, seen, depthOf, fetched, pages, evidence>>

\* robots.txt: rules, none (404, 410), or an answer that ends the crawl.
ReadRobots ==
  /\ step = "robots"
  /\ \/ \E rules \in SUBSET Urls, maps \in SUBSET Maps :
          /\ disallowed' = rules
          /\ mapQueue' = Append(SetToSeq(maps), RootMap)
          /\ step' = "maps"
     \/ step' = "unavailable" /\ UNCHANGED <<disallowed, mapQueue>>
     \/ step' = "ssrf" /\ UNCHANGED <<disallowed, mapQueue>>
  /\ UNCHANGED <<status, mapsSeen, queue, seen, depthOf, fetched, pages, evidence>>

\* Mutant of Enqueueable: the depth limit is one too small.
EnqueueableShallow(url, depth) == url \notin seen /\ depth < MaxDepth /\ url \notin disallowed

\* enqueue: new, allowed, not too deep, and room in the seen set.
Enqueueable(url, depth) == url \notin seen /\ depth <= MaxDepth /\ url \notin disallowed

\* The addresses added to the queue, in page order, cut at the limit.
Added(found, depth) ==
  LET new == SetToSeq({u \in found : Enqueueable(u, depth)})
      room == IF MaxSeen > Cardinality(seen) THEN MaxSeen - Cardinality(seen) ELSE 0
  IN  IF Len(new) <= room THEN new ELSE SubSeq(new, 1, room)

Enqueue(found, depth, rest) ==
  LET added == Added(found, depth) IN
  /\ queue' = rest \o added
  /\ seen' = seen \cup ToSet(added)
  /\ depthOf' = [u \in Urls |-> IF u \in ToSet(added) THEN depth ELSE depthOf[u]]

\* One sitemap: read before, unreadable, or its entries.  What is listed is a
\* sitemap while the sitemap queue has room, and a page otherwise.
ReadSitemap(readable) ==
  /\ step = "maps" /\ mapQueue # <<>> /\ Cardinality(mapsSeen) < MaxMaps
  /\ LET map == Head(mapQueue)
         rest == Tail(mapQueue)
         found == SetToSeq(Listed[map] \cap Maps)
         room == IF MaxMaps > Len(rest) THEN MaxMaps - Len(rest) ELSE 0
         more == IF Len(found) <= room THEN found ELSE SubSeq(found, 1, room)
     IN  IF map \in mapsSeen \/ ~readable
         THEN mapQueue' = rest /\ UNCHANGED <<queue, seen, depthOf>>
         ELSE mapQueue' = rest \o more /\ Enqueue(Listed[map] \ ToSet(more), 0, queue)
  /\ mapsSeen' = mapsSeen \cup {Head(mapQueue)}
  /\ UNCHANGED <<status, step, disallowed, fetched, pages, evidence>>

\* A sitemap address that resolves to a private network ends the crawl.
SitemapBlocked ==
  /\ step = "maps" /\ mapQueue # <<>> /\ Cardinality(mapsSeen) < MaxMaps
  /\ Head(mapQueue) \notin mapsSeen
  /\ step' = "ssrf"
  /\ UNCHANGED <<status, disallowed, mapQueue, mapsSeen, queue, seen, depthOf, fetched,
                 pages, evidence>>

SeedPages ==
  /\ step = "maps" /\ (mapQueue = <<>> \/ Cardinality(mapsSeen) = MaxMaps)
  /\ Enqueue({Seed}, 0, queue)
  /\ step' = "pages"
  /\ UNCHANGED <<status, disallowed, mapQueue, mapsSeen, fetched, pages, evidence>>

\* The top of the loop: take the oldest, reload the row, stop when it is no
\* longer running.  The reload puts the stored count back.
TakePage ==
  /\ step = "pages" /\ queue # <<>> /\ fetched < MaxPages
  /\ fetched' = 0
  /\ IF status = "running"
     THEN step' = "fetching" /\ UNCHANGED queue
     ELSE step' = "end" /\ queue' = Tail(queue)
  /\ UNCHANGED <<status, disallowed, mapQueue, mapsSeen, seen, depthOf, pages, evidence>>

StorePage(outcome) ==
  /\ step = "fetching"
  /\ LET url == Head(queue) IN
     /\ pages' = [u \in DOMAIN pages \cup {url} |-> IF u = url THEN outcome ELSE pages[u]]
     /\ IF outcome = "fetched"
        THEN fetched' = fetched + 1 /\ Enqueue(Links[url], depthOf[url] + 1, Tail(queue))
        ELSE queue' = Tail(queue) /\ UNCHANGED <<fetched, seen, depthOf>>
  /\ step' = "pages"
  /\ UNCHANGED <<status, disallowed, mapQueue, mapsSeen, evidence>>

LeaveLoop ==
  /\ step = "pages" /\ (queue = <<>> \/ fetched >= MaxPages)
  /\ step' = "end"
  /\ UNCHANGED <<status, disallowed, mapQueue, mapsSeen, queue, seen, depthOf, fetched,
                 pages, evidence>>

\* The last reload and commit, of the normal end and of both error paths.
EndStatus == CASE step = "ssrf" -> "blocked"
               [] step = "unavailable" -> "failed"
               [] OTHER -> IF queue = <<>> THEN "done" ELSE "partial"
\* Mutant of EndCrawl: a blocked address is not caught.
EndCrawlUncaught ==
  /\ step \in {"end", "unavailable"}
  /\ status' = IF status = "running" THEN EndStatus ELSE status
  /\ step' = "idle"
  /\ UNCHANGED <<disallowed, mapQueue, mapsSeen, queue, seen, depthOf, fetched, pages, evidence>>

EndCrawl ==
  /\ step \in {"end", "ssrf", "unavailable"}
  /\ status' = IF status = "running" THEN EndStatus ELSE status
  /\ step' = "idle"
  /\ UNCHANGED <<disallowed, mapQueue, mapsSeen, queue, seen, depthOf, fetched, pages, evidence>>

\* cancel_domain_crawl of a run without a managed job, and the sweep's
\* worker_timeout of such a run.
CancelCrawl ==
  /\ status \in {"queued", "running"}
  /\ status' = "cancelled"
  /\ UNCHANGED <<step, disallowed, mapQueue, mapsSeen, queue, seen, depthOf, fetched, pages, evidence>>

RecoverLegacyCrawl ==
  /\ status = "running"
  /\ status' = "failed"
  /\ UNCHANGED <<step, disallowed, mapQueue, mapsSeen, queue, seen, depthOf, fetched, pages, evidence>>

\* approve_domain_crawl_evidence, one request at a time.
ApproveCrawlEvidence ==
  /\ status \in {"done", "partial"} /\ evidence = 0
  /\ evidence' = 1
  /\ UNCHANGED <<status, step, disallowed, mapQueue, mapsSeen, queue, seen, depthOf, fetched,
                 pages>>

-----------------------------------------------------------------------------
Crawler ==
  \/ StartCrawl \/ ReadRobots \/ SitemapBlocked \/ SeedPages
  \/ \E readable \in BOOLEAN : ReadSitemap(readable)
  \/ TakePage \/ LeaveLoop \/ EndCrawl
  \/ \E outcome \in Outcomes : StorePage(outcome)

CrawlNext == Crawler \/ CancelCrawl \/ RecoverLegacyCrawl \/ ApproveCrawlEvidence

CrawlSpec == CrawlInit /\ [][CrawlNext]_crawlVars /\ WF_crawlVars(Crawler)

-----------------------------------------------------------------------------
CrawlTypeOK ==
  /\ status \in {"queued", "running"} \cup CrawlFinal
  /\ queue \in Seq(Urls) /\ seen \subseteq Urls /\ Cardinality(seen) <= MaxSeen
  /\ mapQueue \in Seq(Maps) /\ mapsSeen \subseteq Maps
  /\ pages \in PageRows /\ evidence \in 0..1

\* "bounded_complete" (coverage of a run that is done) means what it says: every
\* allowed page that a stored page links to within the depth limit was visited,
\* unless the limit of remembered addresses was hit.
DoneIsComplete ==
  status = "done" /\ Cardinality(seen) < MaxSeen =>
    \A u \in DOMAIN pages : pages[u] = "fetched" /\ depthOf[u] < MaxDepth =>
      Links[u] \ disallowed \subseteq DOMAIN pages

\* The crawl of a site whose pages and sitemaps link in circles ends, and no
\* run is left running while its crawler lives.
CrawlEnds == (status # "queued" \/ step # "idle") ~> (status \in CrawlFinal /\ step = "idle")
=============================================================================
