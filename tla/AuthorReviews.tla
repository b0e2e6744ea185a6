---------------------------- MODULE AuthorReviews ----------------------------
(***************************************************************************)
(* Author profiles (api/v1/authors.py), the review of their portraits      *)
(* (api/v1/media.py) and the audit log both write to (services/audit.py).  *)
(*                                                                         *)
(* No handler locks the revision it has read; append_audit takes one       *)
(* advisory lock for the whole log, reads the last record, flushes what    *)
(* the handler assigned and holds the lock to the commit.  A record's hash *)
(* covers its predecessor's: here a record is known by its position and    *)
(* prev is the position it was computed over.  The verdict on a portrait   *)
(* is kept nowhere but in the log.                                         *)
(***************************************************************************)
EXTENDS Naturals, Sequences, FiniteSets, FiniteSetsExt

CONSTANTS
  Authors,     \* author profile revisions
  Portraits,   \* uploaded media assets
  Officers,    \* operators with a request in flight
  MaxRecords   \* bound: records of the log

ASSUME AuthorAssumption == MaxRecords \in Nat /\ Authors \cap Portraits = {}

VARIABLES
  authors,   \* AuthorProfileRevision rows
  expired,   \* portraits whose licence has run out
  log,       \* AuditLog
  requestsOf \* officer -> its request

authorVars == <<authors, expired, log, requestsOf>>

AuthorStates == {"none", "draft", "review", "approved", "rejected"}
AuthorVerbs == {"create", "submit", "approve", "reject"}
MediaVerbs == {"media approved", "media rejected"}
NoSubject == "no subject"
Waiting == [step |-> "idle", verb |-> "create", subject |-> NoSubject,
            portrait |-> NoSubject, prev |-> 0]

AuthorTypeOK ==
  /\ authors \in [Authors -> [state : AuthorStates, portrait : Portraits \cup {NoSubject}]]
  /\ expired \subseteq Portraits
  /\ log \in Seq([subject : Authors \cup Portraits, verb : AuthorVerbs \cup MediaVerbs,
                  prev : 0..MaxRecords])
  /\ requestsOf \in [Officers ->
       [step : {"idle", "read", "locked"}, verb : AuthorVerbs \cup MediaVerbs,
        subject : Authors \cup Portraits \cup {NoSubject},
        portrait : Portraits \cup {NoSubject}, prev : 0..MaxRecords]]

AuthorInit ==
  /\ authors = [a \in Authors |-> [state |-> "none", portrait |-> NoSubject]]
  /\ expired = {} /\ log = <<>>
  /\ requestsOf = [o \in Officers |-> Waiting]

-----------------------------------------------------------------------------
\* The records about x, by position.
About(x) == {i \in DOMAIN log : log[i].subject = x}

\* ensure_media_review_allows_use: only the last verdict counts.
Barred(portrait) ==
  About(portrait) # {} /\ log[Max(About(portrait))].verb = "media rejected"

\* _approved_portrait_or_409; the rights of an upload are confirmed.
PortraitUsable(portrait) == portrait \notin expired /\ ~Barred(portrait)

Before(verb) == CASE verb = "create" -> "none" [] verb = "submit" -> "draft"
                  [] OTHER -> "review"
After(verb) == CASE verb = "create" -> "draft" [] verb = "submit" -> "review"
                 [] verb = "approve" -> "approved" [] OTHER -> "rejected"

OpenRequest(o, verb, subject, portrait) ==
  /\ requestsOf[o].step = "idle"
  /\ requestsOf' = [requestsOf EXCEPT ![o] =
       [step |-> "read", verb |-> verb, subject |-> subject, portrait |-> portrait, prev |-> 0]]
  /\ UNCHANGED <<authors, expired, log>>

\* A handler reads the revision, and the portrait unless it rejects.
BeginAuthor(o, verb, a, portrait) ==
  /\ authors[a].state = Before(verb)
  /\ verb # "create" => portrait = authors[a].portrait
  /\ verb # "reject" => PortraitUsable(portrait)
  /\ OpenRequest(o, verb, a, portrait)

\* create_media_review_decision: any asset, at any time, again and again.
BeginMediaDecision(o, verb, portrait) == OpenRequest(o, verb, portrait, portrait)

\* Faulty variant: the last record is read without the advisory lock.
LogUnlocked(o) == TRUE

LogFree(o) == \A p \in Officers : requestsOf[p].step # "locked"

LockLog(o) ==
  /\ requestsOf[o].step = "read" /\ LogFree(o) /\ Len(log) < MaxRecords
  /\ requestsOf' = [requestsOf EXCEPT ![o].step = "locked", ![o].prev = Len(log)]
  /\ UNCHANGED <<authors, expired, log>>

\* Flush and commit: the record and what the handler assigned.  Versions of
\* an author are unique: of two creations that overlap one fails.
Commit(o) ==
  LET r == requestsOf[o] IN
  /\ r.step = "locked"
  /\ r.verb = "create" => authors[r.subject].state = "none"
  /\ log' = Append(log, [subject |-> r.subject, verb |-> r.verb, prev |-> r.prev])
  /\ authors' = IF r.verb \in MediaVerbs THEN authors
                ELSE [authors EXCEPT ![r.subject] =
                        [state |-> After(r.verb), portrait |-> r.portrait]]
  /\ requestsOf' = [requestsOf EXCEPT ![o] = Waiting]
  /\ UNCHANGED expired

\* The process dies: neither the state nor the record is written.
Abort(o) ==
  /\ requestsOf[o].step # "idle"
  /\ requestsOf' = [requestsOf EXCEPT ![o] = Waiting]
  /\ UNCHANGED <<authors, expired, log>>

LicenceExpires(portrait) ==
  /\ portrait \notin expired /\ expired' = expired \cup {portrait}
  /\ UNCHANGED <<authors, log, requestsOf>>

AuthorNext ==
  \/ \E o \in Officers :
       \/ LockLog(o) \/ Commit(o) \/ Abort(o)
       \/ \E verb \in AuthorVerbs, a \in Authors, portrait \in Portraits :
            BeginAuthor(o, verb, a, portrait)
       \/ \E verb \in MediaVerbs, portrait \in Portraits : BeginMediaDecision(o, verb, portrait)
  \/ \E portrait \in Portraits : LicenceExpires(portrait)

AuthorSpec == AuthorInit /\ [][AuthorNext]_authorVars

-----------------------------------------------------------------------------
\* verify_audit_chain: the records that do not follow their predecessor.
InvalidRecords == {i \in DOMAIN log : log[i].prev # i - 1}

\* The log verifies, and the last record about a revision says the state the
\* revision has, also when handlers that read the same state decide it twice
\* and when requests die half way (audit.py append_audit, authors.py).
LogTellsState ==
  /\ InvalidRecords = {}
  /\ \A a \in Authors : authors[a].state =
       IF About(a) = {} THEN "none" ELSE After(log[Max(About(a))].verb)

=============================================================================
