-------------------------- MODULE TelemetryConsent --------------------------
(***************************************************************************)
(* Visits of one site: collection with consent (api/v1/telemetry.py), the  *)
(* daily rollup, retention and the withdrawal of a browser session         *)
(* (services/telemetry_retention.py).                                      *)
(*                                                                         *)
(* The database keeps counts; here an aggregate is the set of sessions it  *)
(* counts.  A collection and a withdrawal of one session exclude each      *)
(* other by an advisory lock, withdrawals and rollups by another.          *)
(***************************************************************************)
EXTENDS Naturals, FiniteSets

CONSTANTS Visitors, LastDay, RawDays, AggregateDays

ASSUME TelemetryAssumption == {LastDay, RawDays, AggregateDays} \subseteq Nat

VARIABLES
  day,        \* today
  visits,     \* AnalyticsEvent rows: who and when
  daily,      \* AnalyticsDailyAggregate rows: whom each day's row counts
  revoked,    \* AnalyticsRevokedSession rows: who, and the day the marker expires
  collecting, \* a request that found no marker: who, and the day it began
  withdrawing,\* a request that waits for the locks: who, and the day it read
  late        \* history: since the last rollup a withdrawal ended on a later day than it began

telemetryVars == <<day, visits, daily, revoked, collecting, withdrawing, late>>

Days == 0..LastDay
Visit == [who : Visitors, day : Days]
Requests == {S \in SUBSET Visit : Cardinality(S) <= 1}

TelemetryTypeOK ==
  /\ day \in Days /\ visits \subseteq Visit /\ daily \in [Days -> SUBSET Visitors]
  /\ revoked \subseteq [who : Visitors, until : 0..LastDay + 1]
  /\ collecting \in Requests /\ withdrawing \in Requests /\ late \in BOOLEAN

TelemetryInit ==
  /\ day = 0 /\ visits = {} /\ daily = [d \in Days |-> {}] /\ revoked = {}
  /\ collecting = {} /\ withdrawing = {} /\ late = FALSE

\* A marker lives for 24 hours: on its last day it may be over or not.
MarkedFor(who) == \E m \in revoked : m.who = who /\ day < m.until
MayBeFree(who) == ~MarkedFor(who)

-----------------------------------------------------------------------------
\* collect_telemetry takes the session's lock, then looks for a marker.
BeginCollect(who) ==
  /\ collecting = {} /\ MayBeFree(who)
  /\ collecting' = {[who |-> who, day |-> day]}
  /\ UNCHANGED <<day, visits, daily, revoked, withdrawing, late>>

FinishCollect ==
  /\ collecting # {}
  /\ visits' = visits \cup collecting
  /\ collecting' = {}
  /\ UNCHANGED <<day, daily, revoked, withdrawing, late>>

\* revoke_session reads the clock before it waits for its locks.
BeginWithdraw(who) ==
  /\ withdrawing = {}
  /\ withdrawing' = {[who |-> who, day |-> day]}
  /\ UNCHANGED <<day, visits, daily, revoked, collecting, late>>

\* Mutant of SessionFree: collection and withdrawal do not exclude each other.
SessionAnyway(who) == TRUE

SessionFree(who) == \A c \in collecting : c.who # who

\* Raw rows go, the complete days they were on are counted again, and the
\* marker keeps later visits of the session out.
FinishWithdraw ==
  \E w \in withdrawing :
    LET left == {v \in visits : v.who # w.who}
        affected == {v.day : v \in visits \ left} \cap 0..(w.day - 1)
    IN  /\ SessionFree(w.who)
        /\ visits' = left
        /\ daily' = [d \in Days |-> IF d \in affected THEN {v.who : v \in {x \in left : x.day = d}}
                                    ELSE daily[d]]
        /\ revoked' = {m \in revoked : m.who # w.who} \cup {[who |-> w.who, until |-> w.day + 1]}
        /\ withdrawing' = {} /\ late' = (late \/ w.day < day)
        /\ UNCHANGED <<day, collecting>>

Cutoff == IF day > RawDays THEN day - RawDays ELSE 0
AggregateCutoff == IF day > AggregateDays THEN day - AggregateDays ELSE 0

\* rollup_and_purge: complete days that still have raw rows are counted again,
\* then old rows, old counts and expired markers go.
Rollup ==
  /\ daily' = [d \in Days |->
       IF d < AggregateCutoff THEN {}
       ELSE IF d >= Cutoff /\ d < day THEN {v.who : v \in {x \in visits : x.day = d}} ELSE daily[d]]
  /\ visits' = {v \in visits : v.day >= Cutoff}
  /\ revoked' = {m \in revoked : day < m.until}
  /\ late' = FALSE
  /\ UNCHANGED <<day, collecting, withdrawing>>

Midnight ==
  /\ day < LastDay
  /\ day' = day + 1
  /\ UNCHANGED <<visits, daily, revoked, collecting, withdrawing, late>>

TelemetryNext ==
  \/ \E who \in Visitors : BeginCollect(who) \/ BeginWithdraw(who)
  \/ FinishCollect \/ FinishWithdraw \/ Rollup \/ Midnight

TelemetrySpec == TelemetryInit /\ [][TelemetryNext]_telemetryVars

-----------------------------------------------------------------------------
\* A withdrawn session has no raw row while its marker lasts, and no complete
\* day that raw rows back counts a session without one, except between a
\* withdrawal that crossed midnight and the next rollup (revoke_session).
ConsentKept ==
  /\ \A v \in visits : ~MarkedFor(v.who)
  /\ ~late => \A d \in Days : Cutoff <= d /\ d < day =>
       \A who \in daily[d] : \E v \in visits : v.who = who /\ v.day = d
=============================================================================
