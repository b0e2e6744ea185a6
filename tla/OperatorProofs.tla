--------------------------- MODULE OperatorProofs ---------------------------
(***************************************************************************)
(* Theorems about the components that inform the operator and keep what    *)
(* visitors left: OperatorAlerts, Incidents, Retention, TelemetryConsent   *)
(* and LeadIntake, which share no state.                                   *)
(***************************************************************************)
EXTENDS OperatorAlerts, Incidents, Retention, TelemetryConsent, LeadIntake, SequenceTheorems,
        FiniteSetTheorems, WellFoundedInduction, TLAPS

-----------------------------------------------------------------------------
(* Numbers and tables.                                                     *)

\* Of a nonempty set of numbers one is the least.
LEMMA LeastElement ==
  ASSUME NEW S \in SUBSET Nat, S # {}
  PROVE  \E x \in S : \A y \in S : x <= y
<1>1. PICK x \in S : \A y \in S : ~(<<y, x>> \in OpToRel(<, Nat))
    BY NatLessThanWellFounded, WFMin
<1>2. ASSUME NEW y \in S PROVE x <= y
    <2>1. x \in Nat /\ y \in Nat
        OBVIOUS
    <2>2. ~(y < x)
        BY <1>1, <2>1 DEF OpToRel
    <2> QED
        BY <2>1, <2>2
<1> QED
    BY <1>2

-----------------------------------------------------------------------------
(***************************************************************************)
(* OperatorAlerts, for any number of sweeps, deliveries, attempts and      *)
(* crashes, while no dispatch outlives its lease: the rows implement the   *)
(* outbox, and a message is taken twice only when an answer was lost or    *)
(* the worker died.                                                        *)
(***************************************************************************)

Sender == [step : {"idle", "sweeping", "claimed", "sent"}, todo : SUBSET (1..MaxDeliveries),
           delivery : 0..MaxDeliveries, attempt : Nat, verdict : Verdicts]
ShownStatuses == {"open", "delivered", "given_up"}
Busy(w) == senders[w].step \in {"claimed", "sent"}
\* The sweep knows that its message was taken, or that it may have been.
Sure(w, d) == senders[w].step = "sent" /\ senders[w].delivery = d /\ senders[w].verdict = "ok"
Unsure(w, d) == senders[w].step = "sent" /\ senders[w].delivery = d
                /\ senders[w].verdict \in {"ok", "unknown"}

\* A sweep lists rows that exist, and holds its row under a running lease ...
Leased ==
  \A w \in Senders :
    /\ senders[w].todo \subseteq DOMAIN deliveries
    /\ Busy(w) => /\ senders[w].delivery \in DOMAIN deliveries
                  /\ deliveries[senders[w].delivery].status = "processing"
                  /\ deliveries[senders[w].delivery].lease = TRUE
\* ... alone.
Alone ==
  \A v, w \in Senders : Busy(v) /\ Busy(w) /\ senders[v].delivery = senders[w].delivery => v = w

\* A message was taken once more than there were doubts only where the row has
\* ended or its sweep is about to end it; the API's likewise without a crash.
Counted ==
  \A d \in DOMAIN deliveries :
    /\ deliveries[d].accepted <= 1 + deliveries[d].doubts
    /\ deliveries[d].accepted <= deliveries[d].doubts \/ deliveries[d].status \in Ended
       \/ \E w \in Senders : Sure(w, d)
CountedApi ==
  crashes = 0 => \A d \in DOMAIN deliveries : deliveries[d].channel = "api" =>
    /\ deliveries[d].accepted <= 1
    /\ deliveries[d].accepted = 0 \/ deliveries[d].status \in Ended
       \/ \E w \in Senders : Unsure(w, d)

\* The inductive invariant.
AlertInv == AlertTypeOK /\ Leased /\ Alone /\ Counted /\ CountedApi

-----------------------------------------------------------------------------
(* Facts the steps share.                                                   *)

LEMMA AlertRows ==
  ASSUME NEW rows \in Seq(DeliveryRow)
  PROVE  /\ DOMAIN rows = 1..Len(rows) /\ Len(rows) \in Nat
         /\ \A d \in DOMAIN rows : rows[d] \in DeliveryRow
<1>1. DOMAIN rows = 1..Len(rows) /\ Len(rows) \in Nat
    BY LenProperties
<1> QED
    BY <1>1, ElementOfSeq

LEMMA AlertTypes ==
  ASSUME AlertTypeOK
  PROVE  /\ deliveries \in Seq(DeliveryRow) /\ Len(deliveries) <= MaxDeliveries
         /\ DOMAIN deliveries = 1..Len(deliveries) /\ Len(deliveries) \in Nat
         /\ \A d \in DOMAIN deliveries : deliveries[d] \in DeliveryRow
         /\ senders \in [Senders -> Sender]
         /\ crashes \in 0..MaxCrashes
<1>1. /\ deliveries \in Seq(DeliveryRow) /\ Len(deliveries) <= MaxDeliveries
      /\ senders \in [Senders -> Sender] /\ crashes \in 0..MaxCrashes
    BY DEF AlertTypeOK, Sender
<1> QED
    BY <1>1, AlertRows

\* The type invariant after a step that leaves the settings alone.
LEMMA AlertTypesKept ==
  ASSUME AlertTypeOK, UNCHANGED <<transport, recipient>>,
         deliveries' \in Seq(DeliveryRow), Len(deliveries') <= MaxDeliveries,
         senders' \in [Senders -> Sender], crashes' \in 0..MaxCrashes
  PROVE  AlertTypeOK'
    BY DEF AlertTypeOK, Sender

\* A claim of a row, and of a sweep.
LEMMA Claim ==
  ASSUME NEW old \in DeliveryRow, NEW s \in Sender, NEW rest \in SUBSET (1..MaxDeliveries),
         NEW d \in 0..MaxDeliveries, NEW n \in Nat
  PROVE  /\ [old EXCEPT !.status = "processing", !.attempts = n, !.lease = TRUE] \in DeliveryRow
         /\ [s EXCEPT !.step = "claimed", !.todo = rest, !.delivery = d, !.attempt = n] \in Sender
<1>1. [old EXCEPT !.status = "processing", !.attempts = n, !.lease = TRUE] \in DeliveryRow
    BY DEF DeliveryRow
<1>2. [s EXCEPT !.step = "claimed", !.todo = rest, !.delivery = d, !.attempt = n] \in Sender
    BY DEF Sender
<1> QED
    BY <1>1, <1>2

\* One row is written.
LEMMA AlertWritten ==
  ASSUME AlertTypeOK, NEW d \in DOMAIN deliveries, NEW row \in DeliveryRow,
         deliveries' = [deliveries EXCEPT ![d] = row]
  PROVE  /\ deliveries' \in Seq(DeliveryRow) /\ Len(deliveries') = Len(deliveries)
         /\ DOMAIN deliveries' = DOMAIN deliveries
         /\ deliveries'[d] = row
         /\ \A e \in DOMAIN deliveries : e # d => deliveries'[e] = deliveries[e]
<1>t. deliveries \in Seq(DeliveryRow) /\ DOMAIN deliveries = 1..Len(deliveries)
    BY AlertTypes
<1>1. /\ deliveries' \in Seq(DeliveryRow) /\ Len(deliveries') = Len(deliveries)
      /\ \A e \in 1..Len(deliveries) : deliveries'[e] = IF e = d THEN row ELSE deliveries[e]
    BY <1>t, ExceptSeq
<1> QED
    BY <1>1, <1>t, AlertRows

LEMMA SenderWritten ==
  ASSUME AlertTypeOK, NEW w \in Senders, NEW s \in Sender, senders' = [senders EXCEPT ![w] = s]
  PROVE  /\ senders' \in [Senders -> Sender] /\ senders'[w] = s
         /\ \A v \in Senders : v # w => senders'[v] = senders[v]
    BY AlertTypes

LEMMA RestingSender == Resting \in Sender /\ Resting.step = "idle" /\ Resting.todo = {}
    BY AlertAssumption DEF Resting, Sender, Verdicts

LEMMA ShownSeq ==
  ASSUME NEW rows \in Seq(DeliveryRow)
  PROVE  Shown(rows) \in Seq(ShownStatuses) /\ Len(Shown(rows)) = Len(rows)
         /\ DOMAIN Shown(rows) = DOMAIN rows
<1>1. DOMAIN rows = 1..Len(rows) /\ Len(rows) \in Nat
    BY AlertRows
<1>2. \A d : ShownStatus(d) \in ShownStatuses
    BY DEF ShownStatus, ShownStatuses
<1>3. Shown(rows) \in [1..Len(rows) -> ShownStatuses]
    BY <1>1, <1>2 DEF Shown
<1> QED
    BY <1>1, <1>3

LEMMA AlertInitInv == AlertInit => AlertInv /\ Box!OutboxInit
<1> SUFFICES ASSUME AlertInit PROVE AlertInv /\ Box!OutboxInit
    OBVIOUS
<1>1. deliveries \in Seq(DeliveryRow) /\ Len(deliveries) = 0 /\ DOMAIN deliveries = {}
    BY EmptySeq DEF AlertInit
<1>2. senders \in [Senders -> Sender] /\ \A w \in Senders : senders[w] = Resting
    BY RestingSender DEF AlertInit
<1>a. 0 \in 0..MaxRevisions /\ 0 \in 0..MaxCrashes /\ FALSE \in BOOLEAN
    BY AlertAssumption
<1>b. transport \in [kind : {"none", "smtp", "api"}, revision : 0..MaxRevisions,
                     smtp : BOOLEAN, api : BOOLEAN]
    BY <1>a DEF AlertInit
<1>3. recipient \in BOOLEAN /\ crashes \in 0..MaxCrashes
    BY <1>a DEF AlertInit
<1>4. Len(deliveries) <= MaxDeliveries
    BY <1>1, AlertAssumption
<1>5. AlertTypeOK
    BY <1>1, <1>2, <1>b, <1>3, <1>4 DEF AlertTypeOK, Sender
<1>6. Leased /\ Alone
    BY <1>2, RestingSender DEF Leased, Alone, Busy
<1>7. Counted /\ CountedApi
    BY <1>1 DEF Counted, CountedApi
<1>8. Box!OutboxInit
    <2>1. Shown(deliveries) = <<>>
        BY <1>1, ShownSeq, EmptySeq
    <2> QED
        BY <2>1 DEF Box!OutboxInit
<1> QED
    BY <1>5, <1>6, <1>7, <1>8 DEF AlertInv

-----------------------------------------------------------------------------
(* Kinds of steps.                                                          *)

BoxStep == [Box!OutboxNext]_(Shown(deliveries))

\* A row is written that the outbox shows as before.
LEMMA ShownKept ==
  ASSUME AlertTypeOK, NEW d \in DOMAIN deliveries, NEW row \in DeliveryRow,
         deliveries' = [deliveries EXCEPT ![d] = row],
         ShownStatus(row.status) = ShownStatus(deliveries[d].status)
  PROVE  BoxStep
<1>1. /\ DOMAIN deliveries' = DOMAIN deliveries
      /\ \A e \in DOMAIN deliveries :
           ShownStatus(deliveries'[e].status) = ShownStatus(deliveries[e].status)
    BY AlertWritten
<1>2. Shown(deliveries') = Shown(deliveries)
    BY <1>1 DEF Shown
<1> QED
    BY <1>2 DEF BoxStep

\* A row that was open ends.
LEMMA ShownEnd ==
  ASSUME AlertTypeOK, NEW d \in DOMAIN deliveries, NEW row \in DeliveryRow,
         deliveries' = [deliveries EXCEPT ![d] = row],
         deliveries[d].status \notin Ended, row.status \in Ended
  PROVE  BoxStep
<1> DEFINE how == ShownStatus(row.status)
<1>1. how \in {"delivered", "given_up"} /\ ShownStatus(deliveries[d].status) = "open"
    BY DEF ShownStatus, Ended
<1>2. /\ DOMAIN deliveries' = DOMAIN deliveries /\ deliveries'[d] = row
      /\ \A e \in DOMAIN deliveries : e # d => deliveries'[e] = deliveries[e]
    BY AlertWritten
<1>3. Shown(deliveries)[d] = "open" /\ d \in DOMAIN Shown(deliveries)
    BY <1>1 DEF Shown
<1>4. Shown(deliveries') = [Shown(deliveries) EXCEPT ![d] = how]
    BY <1>2 DEF Shown
<1> HIDE DEF how
<1>5. Box!End(d, how)
    BY <1>3, <1>4 DEF Box!End
<1>6. Box!OutboxNext
    BY <1>1, <1>3, <1>5 DEF Box!OutboxNext
<1> QED
    BY <1>6 DEF BoxStep

\* Nothing the invariant or the outbox reads changes but the settings.
LEMMA SettingsInv ==
  ASSUME AlertInv, AlertTypeOK', UNCHANGED <<deliveries, senders, crashes>>
  PROVE  AlertInv' /\ BoxStep
<1>1. Leased' /\ Alone'
    BY DEF AlertInv, Leased, Alone, Busy
<1>2. Counted' /\ CountedApi'
    BY DEF AlertInv, Counted, CountedApi, Sure, Unsure
<1>3. BoxStep
    BY DEF BoxStep
<1> QED
    BY <1>1, <1>2, <1>3 DEF AlertInv

\* A sweep that holds no row turns to another list.
LEMMA SweepInv ==
  ASSUME AlertInv, NEW w \in Senders, NEW s \in Sender, senders' = [senders EXCEPT ![w] = s],
         senders[w].step \in {"idle", "sweeping"}, s.step \in {"idle", "sweeping"},
         s.todo \subseteq DOMAIN deliveries,
         UNCHANGED <<transport, recipient, deliveries, crashes>>
  PROVE  AlertInv' /\ BoxStep
<1>t. AlertTypeOK /\ deliveries \in Seq(DeliveryRow) /\ Len(deliveries) <= MaxDeliveries
      /\ crashes \in 0..MaxCrashes
    BY AlertTypes DEF AlertInv
<1>1. /\ senders' \in [Senders -> Sender] /\ senders'[w] = s
      /\ \A v \in Senders : v # w => senders'[v] = senders[v]
    BY <1>t, SenderWritten
<1>2. AlertTypeOK'
    BY <1>t, <1>1, AlertTypesKept
<1>3. Leased' /\ Alone'
    BY <1>1 DEF AlertInv, Leased, Alone, Busy
<1>4. \A v \in Senders, d \in DOMAIN deliveries :
         /\ Sure(v, d)' <=> Sure(v, d)
         /\ Unsure(v, d)' <=> Unsure(v, d)
    BY <1>1 DEF Sure, Unsure
<1>5. Counted' /\ CountedApi'
    BY <1>4 DEF AlertInv, Counted, CountedApi
<1>6. BoxStep
    BY DEF BoxStep
<1> QED
    BY <1>2, <1>3, <1>5, <1>6 DEF AlertInv

\* A row is written and its counters are left alone: what has ended stays so,
\* and a sweep that is sure of its message ends the row or stays sure.
LEMMA CountsKept ==
  ASSUME AlertInv, NEW d \in DOMAIN deliveries, NEW row \in DeliveryRow,
         deliveries' = [deliveries EXCEPT ![d] = row],
         row.accepted = deliveries[d].accepted, row.doubts = deliveries[d].doubts,
         row.channel = deliveries[d].channel,
         deliveries[d].status \in Ended => row.status \in Ended,
         \A w \in Senders, e \in DOMAIN deliveries :
            /\ Sure(w, e) => Sure(w, e)' \/ (e = d /\ row.status \in Ended)
            /\ Unsure(w, e) => Unsure(w, e)' \/ (e = d /\ row.status \in Ended),
         UNCHANGED crashes
  PROVE  Counted' /\ CountedApi'
<1>1. /\ DOMAIN deliveries' = DOMAIN deliveries /\ deliveries'[d] = row
      /\ \A e \in DOMAIN deliveries : e # d => deliveries'[e] = deliveries[e]
    BY AlertWritten DEF AlertInv
<1>2. \A e \in DOMAIN deliveries : /\ deliveries'[e].accepted = deliveries[e].accepted
                                   /\ deliveries'[e].doubts = deliveries[e].doubts
                                   /\ deliveries'[e].channel = deliveries[e].channel
                                   /\ deliveries[e].status \in Ended => deliveries'[e].status \in Ended
    BY <1>1
<1>3. Counted'
    BY <1>1, <1>2 DEF AlertInv, Counted
<1>4. CountedApi'
    BY <1>1, <1>2 DEF AlertInv, CountedApi
<1> QED
    BY <1>3, <1>4

\* A row no sweep holds is written by the recovery or the clock.
LEMMA UnheldInv ==
  ASSUME AlertInv, NEW d \in DOMAIN deliveries, NEW row \in DeliveryRow,
         deliveries' = [deliveries EXCEPT ![d] = row],
         \A w \in Senders : Busy(w) => senders[w].delivery # d,
         row.accepted = deliveries[d].accepted, row.doubts = deliveries[d].doubts,
         row.channel = deliveries[d].channel,
         ShownStatus(row.status) = ShownStatus(deliveries[d].status),
         deliveries[d].status \in Ended => row.status \in Ended,
         UNCHANGED <<transport, recipient, senders, crashes>>
  PROVE  AlertInv' /\ BoxStep
<1>t. /\ AlertTypeOK /\ Len(deliveries) <= MaxDeliveries
      /\ senders \in [Senders -> Sender] /\ crashes \in 0..MaxCrashes
    BY AlertTypes DEF AlertInv
<1>1. /\ deliveries' \in Seq(DeliveryRow) /\ Len(deliveries') = Len(deliveries)
      /\ DOMAIN deliveries' = DOMAIN deliveries
      /\ \A e \in DOMAIN deliveries : e # d => deliveries'[e] = deliveries[e]
    BY <1>t, AlertWritten
<1>2. AlertTypeOK'
    BY <1>t, <1>1, AlertTypesKept
<1>3. Leased' /\ Alone'
    BY <1>1 DEF AlertInv, Leased, Alone, Busy
<1>4. Counted' /\ CountedApi'
    BY CountsKept DEF Sure, Unsure
<1>5. BoxStep
    BY <1>t, ShownKept
<1> QED
    BY <1>2, <1>3, <1>4, <1>5 DEF AlertInv

-----------------------------------------------------------------------------
(* The steps of a sweep.                                                    *)

LEMMA RecoverInv == ASSUME AlertInv, NEW d \in DOMAIN deliveries, RecoverLease(d) PROVE AlertInv' /\ BoxStep
<1>0. /\ deliveries[d].status = "processing" /\ ~deliveries[d].lease
      /\ deliveries' = [deliveries EXCEPT ![d].status = "retrying"]
      /\ UNCHANGED <<transport, recipient, senders, crashes>>
    BY DEF RecoverLease, Lapsed
<1>t. deliveries[d] \in DeliveryRow
    BY AlertTypes DEF AlertInv
<1>1. PICK row \in DeliveryRow : row = [deliveries[d] EXCEPT !.status = "retrying"]
    BY <1>t DEF DeliveryRow
<1>2. /\ row.accepted = deliveries[d].accepted /\ row.doubts = deliveries[d].doubts
      /\ row.channel = deliveries[d].channel /\ row.status = "retrying"
    BY <1>1, <1>t DEF DeliveryRow
<1>3. deliveries' = [deliveries EXCEPT ![d] = row]
    BY <1>0, <1>1
<1>4. \A w \in Senders : Busy(w) => senders[w].delivery # d
    BY <1>0 DEF AlertInv, Leased
<1>5. ShownStatus(row.status) = ShownStatus(deliveries[d].status) /\ deliveries[d].status \notin Ended
    BY <1>0, <1>2 DEF ShownStatus, Ended
<1> QED
    BY <1>0, <1>2, <1>3, <1>4, <1>5, UnheldInv

LEMMA LapseInv ==
  ASSUME OnTime, AlertInv, NEW d \in DOMAIN deliveries, LapseLease(d) PROVE AlertInv' /\ BoxStep
<1>0. /\ deliveries' = [deliveries EXCEPT ![d].lease = FALSE]
      /\ \A w \in Senders : Busy(w) => senders[w].delivery # d
      /\ UNCHANGED <<transport, recipient, senders, crashes>>
    BY DEF LapseLease, Busy
<1>t. deliveries[d] \in DeliveryRow
    BY AlertTypes DEF AlertInv
<1>1. PICK row \in DeliveryRow : row = [deliveries[d] EXCEPT !.lease = FALSE]
    BY <1>t DEF DeliveryRow
<1>2. /\ row.accepted = deliveries[d].accepted /\ row.doubts = deliveries[d].doubts
      /\ row.channel = deliveries[d].channel /\ row.status = deliveries[d].status
    BY <1>1, <1>t DEF DeliveryRow
<1>3. deliveries' = [deliveries EXCEPT ![d] = row]
    BY <1>0, <1>1
<1> QED
    BY <1>0, <1>2, <1>3, UnheldInv

LEMMA ListInv == ASSUME AlertInv, NEW w \in Senders, ListDue(w) PROVE AlertInv' /\ BoxStep
<1> DEFINE due == {d \in DOMAIN deliveries : deliveries[d].status \in {"queued", "retrying"}}
<1>0. /\ senders[w].step = "idle"
      /\ senders' = [senders EXCEPT ![w] = [Resting EXCEPT !.step = "sweeping", !.todo = due]]
      /\ UNCHANGED <<transport, recipient, deliveries, crashes>>
    BY DEF ListDue
<1>1. due \subseteq DOMAIN deliveries /\ due \subseteq 1..MaxDeliveries
    BY AlertTypes, AlertAssumption DEF AlertInv
<1> HIDE DEF due
<1>2. PICK s \in Sender : s = [Resting EXCEPT !.step = "sweeping", !.todo = due]
    BY <1>1, RestingSender DEF Sender, Resting
<1>3. s.step = "sweeping" /\ s.todo = due
    BY <1>2 DEF Resting
<1>4. senders' = [senders EXCEPT ![w] = s]
    BY <1>0, <1>2
<1> QED
    BY <1>0, <1>1, <1>3, <1>4, SweepInv

LEMMA TakeInv == ASSUME AlertInv, NEW w \in Senders, TakeNext(w) PROVE AlertInv' /\ BoxStep
<1>t. /\ AlertTypeOK /\ senders \in [Senders -> Sender] /\ senders[w] \in Sender
      /\ DOMAIN deliveries = 1..Len(deliveries) /\ Len(deliveries) \in Nat
      /\ Len(deliveries) <= MaxDeliveries /\ MaxDeliveries \in Nat /\ crashes \in 0..MaxCrashes
      /\ senders[w].todo \subseteq DOMAIN deliveries
    BY AlertTypes, AlertAssumption DEF AlertInv, Leased
<1>s. senders[w].step = "sweeping" /\ UNCHANGED <<transport, recipient, crashes>>
    BY DEF TakeNext
<1>1. CASE senders[w].todo = {}
    <2>1. senders' = [senders EXCEPT ![w] = Resting] /\ UNCHANGED deliveries
        BY <1>1 DEF TakeNext
    <2> QED
        BY <2>1, <1>s, RestingSender, SweepInv
<1>2. CASE senders[w].todo # {}
    <2> DEFINE d == CHOOSE x \in senders[w].todo : \A y \in senders[w].todo : x <= y
               rest == senders[w].todo \ {d}
    <2>d. d \in senders[w].todo
        <3>1. \E x \in senders[w].todo : \A y \in senders[w].todo : x <= y
            <4>1. senders[w].todo \in SUBSET Nat
                BY <1>t
            <4>2. PICK x0 \in senders[w].todo : TRUE
                BY <1>2
            <4> QED
                BY <4>1, <4>2, LeastElement
        <3> QED
            BY <3>1
    <2>0. IF DeliveryClaimable(d)
          THEN /\ deliveries' = [deliveries EXCEPT ![d].status = "processing",
                                   ![d].attempts = @ + 1, ![d].lease = TRUE]
               /\ senders' = [senders EXCEPT ![w] =
                    [@ EXCEPT !.step = "claimed", !.todo = rest, !.delivery = d,
                              !.attempt = deliveries[d].attempts + 1]]
          ELSE senders' = [senders EXCEPT ![w].todo = rest] /\ UNCHANGED deliveries
        BY <1>2 DEF TakeNext
    <2>r. rest \subseteq DOMAIN deliveries /\ rest \subseteq 1..MaxDeliveries
          /\ d \in DOMAIN deliveries /\ d \in 0..MaxDeliveries
        BY <1>t, <2>d
    <2> HIDE DEF d, rest
    <2>1. CASE ~DeliveryClaimable(d)
        <3>1. PICK s \in Sender : s = [senders[w] EXCEPT !.todo = rest]
            BY <1>t, <2>r DEF Sender
        <3>2. s.step = "sweeping" /\ s.todo = rest
            BY <3>1, <1>s, <1>t DEF Sender
        <3>3. senders' = [senders EXCEPT ![w] = s] /\ UNCHANGED deliveries
            BY <2>0, <2>1, <3>1
        <3> QED
            BY <3>2, <3>3, <1>s, <2>r, SweepInv
    <2>2. CASE DeliveryClaimable(d)
        <3>t. deliveries[d] \in DeliveryRow /\ deliveries[d].attempts \in Nat
            BY <1>t, <2>r, AlertTypes DEF DeliveryRow
        <3>n. deliveries[d].attempts + 1 \in Nat
            BY <3>t
        <3>0. deliveries[d].status \notin Ended /\ ~deliveries[d].lease
            BY <2>2 DEF DeliveryClaimable
        <3>1. PICK row \in DeliveryRow :
                row = [deliveries[d] EXCEPT !.status = "processing", !.attempts = @ + 1, !.lease = TRUE]
            BY <1>t, <2>r, <3>t, <3>n, Claim
        <3>2. /\ row.accepted = deliveries[d].accepted /\ row.doubts = deliveries[d].doubts
              /\ row.channel = deliveries[d].channel /\ row.status = "processing" /\ row.lease = TRUE
            BY <3>1, <3>t DEF DeliveryRow
        <3>3. deliveries' = [deliveries EXCEPT ![d] = row]
            BY <2>0, <2>2, <3>1
        <3>4. PICK s \in Sender :
                s = [senders[w] EXCEPT !.step = "claimed", !.todo = rest, !.delivery = d,
                                       !.attempt = deliveries[d].attempts + 1]
            BY <1>t, <2>r, <3>t, <3>n, Claim
        <3>5. s.step = "claimed" /\ s.todo = rest /\ s.delivery = d
            BY <3>4, <1>t DEF Sender
        <3>6. senders' = [senders EXCEPT ![w] = s]
            BY <2>0, <2>2, <3>4
        <3>7. /\ deliveries' \in Seq(DeliveryRow) /\ Len(deliveries') = Len(deliveries)
              /\ DOMAIN deliveries' = DOMAIN deliveries /\ deliveries'[d] = row
              /\ \A e \in DOMAIN deliveries : e # d => deliveries'[e] = deliveries[e]
            BY <1>t, <2>r, <3>3, AlertWritten
        <3>8. /\ senders' \in [Senders -> Sender] /\ senders'[w] = s
              /\ \A v \in Senders : v # w => senders'[v] = senders[v]
            BY <1>t, <3>6, SenderWritten
        <3>9. \A v \in Senders : Busy(v) => senders[v].delivery # d
            BY <3>0 DEF AlertInv, Leased
        <3>10. AlertTypeOK'
            BY <1>t, <1>s, <3>7, <3>8, AlertTypesKept
        <3>11. Leased'
            BY <1>s, <2>r, <3>2, <3>5, <3>7, <3>8, <3>9 DEF AlertInv, Leased, Busy
        <3>12. Alone'
            BY <1>s, <3>5, <3>8, <3>9 DEF AlertInv, Alone, Busy
        <3>13. \A v \in Senders, e \in DOMAIN deliveries : /\ Sure(v, e) => Sure(v, e)'
                                                           /\ Unsure(v, e) => Unsure(v, e)'
            BY <1>s, <3>8 DEF Sure, Unsure
        <3>14. Counted' /\ CountedApi'
            BY <1>s, <2>r, <3>0, <3>2, <3>3, <3>13, CountsKept
        <3>15. BoxStep
            <4>1. ShownStatus(row.status) = ShownStatus(deliveries[d].status)
                BY <3>0, <3>2 DEF ShownStatus, Ended
            <4> QED
                BY <4>1, <1>t, <2>r, <3>3, ShownKept
        <3> QED
            BY <3>10, <3>11, <3>12, <3>14, <3>15 DEF AlertInv
    <2> QED
        BY <2>1, <2>2
<1> QED
    BY <1>1, <1>2

LEMMA DispatchInv ==
  ASSUME AlertInv, NEW w \in Senders, NEW verdict \in Verdicts, NEW taken \in BOOLEAN,
         Dispatch(w, verdict, taken)
  PROVE  AlertInv' /\ BoxStep
<1> DEFINE d == senders[w].delivery
           lost == verdict \in {"timeout", "unknown"}
           a == IF taken THEN deliveries[d].accepted + 1 ELSE deliveries[d].accepted
           b == IF lost THEN deliveries[d].doubts + 1 ELSE deliveries[d].doubts
<1>0. /\ senders[w].step = "claimed"
      /\ verdict \in Answers(deliveries[d].channel) \cup {"refused"}
      /\ taken => (verdict = "ok" \/ lost)
      /\ verdict = "ok" => taken
      /\ senders' = [senders EXCEPT ![w].step = "sent", ![w].verdict = verdict]
      /\ deliveries' = [deliveries EXCEPT ![d].accepted = a, ![d].doubts = b]
      /\ UNCHANGED <<transport, recipient, crashes>>
    BY DEF Dispatch
<1>t. /\ AlertTypeOK /\ senders \in [Senders -> Sender] /\ senders[w] \in Sender
      /\ Len(deliveries) <= MaxDeliveries /\ crashes \in 0..MaxCrashes
      /\ \A e \in DOMAIN deliveries : deliveries[e] \in DeliveryRow
    BY AlertTypes DEF AlertInv
<1>d. d \in DOMAIN deliveries /\ deliveries[d].status = "processing" /\ deliveries[d] \in DeliveryRow
      /\ deliveries[d].accepted \in Nat /\ deliveries[d].doubts \in Nat
    BY <1>0, <1>t DEF AlertInv, Leased, Busy, DeliveryRow
<1>1. a \in Nat /\ b \in Nat
    BY <1>d
<1>f. /\ deliveries[d].accepted <= deliveries[d].doubts
      /\ crashes = 0 /\ deliveries[d].channel = "api" => deliveries[d].accepted = 0
    <2>1. \A v \in Senders : ~Sure(v, d) /\ ~Unsure(v, d)
        BY <1>0 DEF AlertInv, Alone, Busy, Sure, Unsure
    <2> QED
        BY <2>1, <1>d DEF AlertInv, Counted, CountedApi, Ended
<1>n. \A e \in DOMAIN deliveries : e # d =>
         \A v \in Senders : (Sure(v, e) => Sure(v, e)') /\ (Unsure(v, e) => Unsure(v, e)')
    BY <1>0, <1>t DEF Sure, Unsure
<1>g. /\ a <= 1 + b
      /\ a <= b \/ verdict = "ok"
      /\ crashes = 0 /\ deliveries[d].channel = "api" =>
           a <= 1 /\ (a = 0 \/ verdict \in {"ok", "unknown"})
    <2>1. taken /\ deliveries[d].channel = "api" => verdict \in {"ok", "unknown"}
        BY <1>0 DEF Answers
    <2> QED
        BY <2>1, <1>0, <1>d, <1>f
<1> HIDE DEF a, b
<1>2. PICK row \in DeliveryRow : row = [deliveries[d] EXCEPT !.accepted = a, !.doubts = b]
    <2>1. [deliveries[d] EXCEPT !.accepted = a, !.doubts = b] \in DeliveryRow
        BY <1>1, <1>d DEF DeliveryRow
    <2> QED
        BY <2>1
<1>3. /\ row.accepted = a /\ row.doubts = b /\ row.status = "processing"
      /\ row.channel = deliveries[d].channel /\ row.lease = deliveries[d].lease
    BY <1>2, <1>d DEF DeliveryRow
<1>4. deliveries' = [deliveries EXCEPT ![d] = row]
    BY <1>0, <1>2
<1>5. PICK s \in Sender : s = [senders[w] EXCEPT !.step = "sent", !.verdict = verdict]
    <2>1. [senders[w] EXCEPT !.step = "sent", !.verdict = verdict] \in Sender
        BY <1>t DEF Sender
    <2> QED
        BY <2>1
<1>6. s.step = "sent" /\ s.verdict = verdict /\ s.delivery = d /\ s.todo = senders[w].todo
    BY <1>5, <1>t DEF Sender
<1>7. senders' = [senders EXCEPT ![w] = s]
    BY <1>0, <1>5
<1>8. /\ deliveries' \in Seq(DeliveryRow) /\ Len(deliveries') = Len(deliveries)
      /\ DOMAIN deliveries' = DOMAIN deliveries /\ deliveries'[d] = row
      /\ \A e \in DOMAIN deliveries : e # d => deliveries'[e] = deliveries[e]
    BY <1>t, <1>d, <1>4, AlertWritten
<1>9. /\ senders' \in [Senders -> Sender] /\ senders'[w] = s
      /\ \A v \in Senders : v # w => senders'[v] = senders[v]
    BY <1>t, <1>7, SenderWritten
<1>10. AlertTypeOK'
    BY <1>0, <1>t, <1>8, <1>9, AlertTypesKept
<1>11. \A v \in Senders : senders'[v].delivery = senders[v].delivery /\ (Busy(v)' <=> Busy(v))
                          /\ senders'[v].todo = senders[v].todo
    BY <1>0, <1>6, <1>9 DEF Busy
<1>12. Leased'
    BY <1>3, <1>8, <1>11 DEF AlertInv, Leased
<1>13. Alone'
    BY <1>11 DEF AlertInv, Alone
<1>14. \A e : e = d /\ verdict = "ok" => Sure(w, e)'
    BY <1>6, <1>9 DEF Sure
<1>15. \A e : e = d /\ verdict \in {"ok", "unknown"} => Unsure(w, e)'
    BY <1>6, <1>9 DEF Unsure
<1> HIDE DEF d, lost
<1>16. Counted'
    <2> SUFFICES ASSUME NEW e \in DOMAIN deliveries
                 PROVE  /\ deliveries'[e].accepted <= 1 + deliveries'[e].doubts
                        /\ deliveries'[e].accepted <= deliveries'[e].doubts
                           \/ deliveries'[e].status \in Ended \/ \E v \in Senders : Sure(v, e)'
        BY <1>8 DEF Counted
    <2>1. CASE e = d
        BY <2>1, <1>3, <1>8, <1>g, <1>14
    <2>2. CASE e # d
        BY <2>2, <1>8, <1>n DEF AlertInv, Counted
    <2> QED
        BY <2>1, <2>2
<1>17. CountedApi'
    <2> SUFFICES ASSUME crashes = 0, NEW e \in DOMAIN deliveries, deliveries'[e].channel = "api"
                 PROVE  /\ deliveries'[e].accepted <= 1
                        /\ deliveries'[e].accepted = 0
                           \/ deliveries'[e].status \in Ended \/ \E v \in Senders : Unsure(v, e)'
        BY <1>0, <1>8 DEF CountedApi
    <2>1. CASE e = d
        BY <2>1, <1>3, <1>8, <1>g, <1>15
    <2>2. CASE e # d
        BY <2>2, <1>8, <1>n DEF AlertInv, CountedApi
    <2> QED
        BY <2>1, <2>2
<1>18. BoxStep
    BY <1>t, <1>d, <1>3, <1>4, ShownKept
<1> QED
    BY <1>10, <1>12, <1>13, <1>16, <1>17, <1>18 DEF AlertInv

LEMMA VerdictInv == ASSUME AlertInv, NEW w \in Senders, WriteVerdict(w) PROVE AlertInv' /\ BoxStep
<1> DEFINE d == senders[w].delivery
           status == CASE senders[w].verdict = "ok" -> "delivered"
                       [] Retryable(senders[w].verdict) /\ senders[w].attempt < MaxAttempts -> "retrying"
                       [] OTHER -> "dead_letter"
<1>0. /\ senders[w].step = "sent"
      /\ deliveries' = [deliveries EXCEPT ![d].status = status, ![d].lease = FALSE]
      /\ senders' = [senders EXCEPT ![w] =
           [Resting EXCEPT !.step = "sweeping", !.todo = senders[w].todo]]
      /\ UNCHANGED <<transport, recipient, crashes>>
    BY DEF WriteVerdict
<1>t. /\ AlertTypeOK /\ senders \in [Senders -> Sender] /\ senders[w] \in Sender
      /\ Len(deliveries) <= MaxDeliveries /\ crashes \in 0..MaxCrashes
      /\ \A e \in DOMAIN deliveries : deliveries[e] \in DeliveryRow
    BY AlertTypes DEF AlertInv
<1>d. d \in DOMAIN deliveries /\ deliveries[d].status = "processing" /\ deliveries[d] \in DeliveryRow
    BY <1>0, <1>t DEF AlertInv, Leased, Busy
<1>1. /\ status \in {"retrying", "delivered", "dead_letter"}
      /\ senders[w].verdict \in {"ok", "unknown"} => status \in Ended
    BY DEF Retryable, Ended
<1> HIDE DEF status
<1>2. PICK row \in DeliveryRow : row = [deliveries[d] EXCEPT !.status = status, !.lease = FALSE]
    <2>1. status \in {"queued", "processing", "retrying"} \cup Ended
        BY <1>1 DEF Ended
    <2>2. [deliveries[d] EXCEPT !.status = status, !.lease = FALSE] \in DeliveryRow
        BY <2>1, <1>d DEF DeliveryRow
    <2> QED
        BY <2>2
<1>3. /\ row.accepted = deliveries[d].accepted /\ row.doubts = deliveries[d].doubts
      /\ row.channel = deliveries[d].channel /\ row.status = status
    BY <1>2, <1>d DEF DeliveryRow
<1>4. deliveries' = [deliveries EXCEPT ![d] = row]
    BY <1>0, <1>2
<1>5. PICK s \in Sender : s = [Resting EXCEPT !.step = "sweeping", !.todo = senders[w].todo]
    BY <1>t, RestingSender DEF Sender, Resting
<1>6. s.step = "sweeping" /\ s.todo = senders[w].todo
    BY <1>5 DEF Resting
<1>7. senders' = [senders EXCEPT ![w] = s]
    BY <1>0, <1>5
<1>8. /\ deliveries' \in Seq(DeliveryRow) /\ Len(deliveries') = Len(deliveries)
      /\ DOMAIN deliveries' = DOMAIN deliveries /\ deliveries'[d] = row
      /\ \A e \in DOMAIN deliveries : e # d => deliveries'[e] = deliveries[e]
    BY <1>t, <1>d, <1>4, AlertWritten
<1>9. /\ senders' \in [Senders -> Sender] /\ senders'[w] = s
      /\ \A v \in Senders : v # w => senders'[v] = senders[v]
    BY <1>t, <1>7, SenderWritten
<1>10. AlertTypeOK'
    BY <1>0, <1>t, <1>8, <1>9, AlertTypesKept
<1>11. \A v \in Senders : v # w /\ Busy(v) => senders[v].delivery # d
    BY <1>0 DEF AlertInv, Alone, Busy
<1>12. Leased'
    BY <1>6, <1>8, <1>9, <1>11 DEF AlertInv, Leased, Busy
<1>13. Alone'
    BY <1>6, <1>9 DEF AlertInv, Alone, Busy
<1>14. \A v \in Senders, e \in DOMAIN deliveries :
          /\ Sure(v, e) => Sure(v, e)' \/ (e = d /\ row.status \in Ended)
          /\ Unsure(v, e) => Unsure(v, e)' \/ (e = d /\ row.status \in Ended)
    BY <1>1, <1>3, <1>9 DEF Sure, Unsure
<1>15. Counted' /\ CountedApi'
    <2>1. deliveries[d].status \notin Ended
        BY <1>d DEF Ended
    <2> HIDE DEF d
    <2> QED
        BY <2>1, <1>0, <1>3, <1>4, <1>d, <1>14, CountsKept
<1>16. BoxStep
    <2>1. CASE status = "retrying"
        <3>1. ShownStatus(row.status) = ShownStatus(deliveries[d].status)
            BY <2>1, <1>3, <1>d DEF ShownStatus
        <3> QED
            BY <3>1, <1>t, <1>d, <1>4, ShownKept
    <2>2. CASE status # "retrying"
        <3>1. deliveries[d].status \notin Ended /\ row.status \in Ended
            BY <2>2, <1>1, <1>3, <1>d DEF Ended
        <3> QED
            BY <3>1, <1>t, <1>d, <1>4, ShownEnd
    <2> QED
        BY <2>1, <2>2
<1> QED
    BY <1>10, <1>12, <1>13, <1>15, <1>16 DEF AlertInv

LEMMA CrashInv == ASSUME AlertInv, NEW w \in Senders, CrashSender(w) PROVE AlertInv' /\ BoxStep
<1>t. /\ AlertTypeOK /\ senders \in [Senders -> Sender]
      /\ deliveries \in Seq(DeliveryRow) /\ Len(deliveries) <= MaxDeliveries
      /\ crashes \in 0..MaxCrashes /\ MaxCrashes \in Nat
      /\ \A e \in DOMAIN deliveries : deliveries[e] \in DeliveryRow
    BY AlertTypes, AlertAssumption DEF AlertInv
<1>0. /\ crashes < MaxCrashes /\ crashes' = crashes + 1
      /\ senders' = [senders EXCEPT ![w] = Resting]
      /\ UNCHANGED <<transport, recipient>>
    BY DEF CrashSender
<1>1. crashes' \in 0..MaxCrashes /\ crashes' # 0
    BY <1>0, <1>t
<1>2. /\ senders' \in [Senders -> Sender] /\ senders'[w] = Resting
      /\ \A v \in Senders : v # w => senders'[v] = senders[v]
    BY <1>t, <1>0, RestingSender, SenderWritten
<1>3. Alone'
    BY <1>2, RestingSender DEF AlertInv, Alone, Busy
<1>4. CountedApi'
    BY <1>1 DEF CountedApi
<1>5. CASE ~Busy(w)
    <2>1. deliveries' = deliveries
        BY <1>5 DEF CrashSender, Busy
    <2>2. AlertTypeOK'
        BY <2>1, <1>0, <1>1, <1>2, <1>t, AlertTypesKept
    <2>3. Leased'
        BY <2>1, <1>2, RestingSender DEF AlertInv, Leased, Busy
    <2>4. \A v \in Senders, e \in DOMAIN deliveries : Sure(v, e) => Sure(v, e)'
        BY <1>2, <1>5 DEF Sure, Busy
    <2>5. Counted'
        BY <2>1, <2>4 DEF AlertInv, Counted
    <2>6. BoxStep
        BY <2>1 DEF BoxStep
    <2> QED
        BY <2>2, <2>3, <2>5, <2>6, <1>3, <1>4 DEF AlertInv
<1>6. CASE Busy(w)
    <2>1. PICK d \in DOMAIN deliveries : d = senders[w].delivery
        BY <1>6 DEF AlertInv, Leased
    <2>2. deliveries' = [deliveries EXCEPT ![d].doubts = @ + 1]
        BY <1>6, <2>1 DEF CrashSender, Busy
    <2>3. deliveries[d] \in DeliveryRow /\ deliveries[d].doubts \in Nat /\ deliveries[d].accepted \in Nat
        BY <1>t DEF DeliveryRow
    <2>4. PICK n \in Nat : n = deliveries[d].doubts + 1
        BY <2>3
    <2>5. PICK row \in DeliveryRow : row = [deliveries[d] EXCEPT !.doubts = n]
        BY <2>3 DEF DeliveryRow
    <2>6. /\ row.accepted = deliveries[d].accepted /\ row.doubts = n
          /\ row.status = deliveries[d].status /\ row.lease = deliveries[d].lease
        BY <2>3, <2>5 DEF DeliveryRow
    <2>7. deliveries' = [deliveries EXCEPT ![d] = row]
        BY <2>2, <2>4, <2>5
    <2>8. /\ deliveries' \in Seq(DeliveryRow) /\ Len(deliveries') = Len(deliveries)
          /\ DOMAIN deliveries' = DOMAIN deliveries /\ deliveries'[d] = row
          /\ \A e \in DOMAIN deliveries : e # d => deliveries'[e] = deliveries[e]
        BY <1>t, <2>7, AlertWritten
    <2>9. AlertTypeOK'
        BY <1>0, <1>1, <1>2, <1>t, <2>8, AlertTypesKept
    <2>10. Leased'
        BY <1>2, <2>6, <2>8, RestingSender DEF AlertInv, Leased, Busy
    <2>11. Counted'
        <3> SUFFICES ASSUME NEW e \in DOMAIN deliveries
                     PROVE  /\ deliveries'[e].accepted <= 1 + deliveries'[e].doubts
                            /\ deliveries'[e].accepted <= deliveries'[e].doubts
                               \/ deliveries'[e].status \in Ended \/ \E v \in Senders : Sure(v, e)'
            BY <2>8 DEF Counted
        <3>1. CASE e = d
            BY <3>1, <2>3, <2>4, <2>6, <2>8 DEF AlertInv, Counted
        <3>2. CASE e # d
            <4>1. \A v \in Senders : Sure(v, e) => Sure(v, e)'
                BY <3>2, <2>1, <1>2 DEF Sure
            <4> QED
                BY <3>2, <4>1, <2>8 DEF AlertInv, Counted
        <3> QED
            BY <3>1, <3>2
    <2>12. BoxStep
        BY <1>t, <2>6, <2>7, ShownKept
    <2> QED
        BY <2>9, <2>10, <2>11, <2>12, <1>3, <1>4 DEF AlertInv
<1> QED
    BY <1>5, <1>6

-----------------------------------------------------------------------------
(* An alert opens its deliveries.                                           *)

LEMMA OpenedRows ==
  ASSUME NEW channel \in Channels, NEW revision \in 0..MaxRevisions
  PROVE  /\ Opened(channel, revision) \in DeliveryRow
         /\ Opened(channel, revision).status = "queued"
         /\ Opened(channel, revision).accepted = 0 /\ Opened(channel, revision).doubts = 0
    BY DEF Opened, DeliveryRow, Ended

LEMMA OpenInv ==
  ASSUME AlertInv, NEW new \in Seq(DeliveryRow), Len(new) \in {1, 2},
         \A i \in 1..Len(new) : new[i].status = "queued" /\ new[i].accepted = 0 /\ new[i].doubts = 0,
         Len(deliveries) + Len(new) <= MaxDeliveries,
         deliveries' = deliveries \o new,
         UNCHANGED <<transport, recipient, senders, crashes>>
  PROVE  AlertInv' /\ BoxStep
<1>t. /\ AlertTypeOK /\ senders \in [Senders -> Sender] /\ crashes \in 0..MaxCrashes
      /\ deliveries \in Seq(DeliveryRow)
      /\ DOMAIN deliveries = 1..Len(deliveries) /\ Len(deliveries) \in Nat
    BY AlertTypes DEF AlertInv
<1>1. /\ deliveries' \in Seq(DeliveryRow) /\ Len(deliveries') = Len(deliveries) + Len(new)
      /\ \A i \in 1..Len(deliveries) + Len(new) :
           deliveries'[i] = IF i <= Len(deliveries) THEN deliveries[i] ELSE new[i - Len(deliveries)]
    BY <1>t, ConcatProperties
<1>2. DOMAIN deliveries' = 1..Len(deliveries) + Len(new)
    BY <1>1, AlertRows
<1>3. \A e \in DOMAIN deliveries : e \in DOMAIN deliveries' /\ deliveries'[e] = deliveries[e]
    BY <1>1, <1>2, <1>t
<1>4. \A e \in DOMAIN deliveries' \ DOMAIN deliveries :
         deliveries'[e].status = "queued" /\ deliveries'[e].accepted = 0 /\ deliveries'[e].doubts = 0
    <2> SUFFICES ASSUME NEW e \in DOMAIN deliveries' \ DOMAIN deliveries
                 PROVE  deliveries'[e].status = "queued" /\ deliveries'[e].accepted = 0
                        /\ deliveries'[e].doubts = 0
        OBVIOUS
    <2>1. e \in 1..Len(deliveries) + Len(new) /\ ~(e <= Len(deliveries))
          /\ e - Len(deliveries) \in 1..Len(new)
        BY <1>2, <1>t
    <2>2. deliveries'[e] = new[e - Len(deliveries)]
        BY <2>1, <1>1
    <2> QED
        BY <2>1, <2>2
<1>5. AlertTypeOK'
    BY <1>t, <1>1, AlertTypesKept
<1>6. Leased' /\ Alone'
    BY <1>3 DEF AlertInv, Leased, Alone, Busy
<1>7. Counted'
    <2>1. \A v \in Senders, e \in DOMAIN deliveries : Sure(v, e)' <=> Sure(v, e)
        BY DEF Sure
    <2> SUFFICES ASSUME NEW e \in DOMAIN deliveries'
                 PROVE  /\ deliveries'[e].accepted <= 1 + deliveries'[e].doubts
                        /\ deliveries'[e].accepted <= deliveries'[e].doubts
                           \/ deliveries'[e].status \in Ended \/ \E v \in Senders : Sure(v, e)'
        BY DEF Counted
    <2>2. CASE e \in DOMAIN deliveries
        BY <2>1, <2>2, <1>3 DEF AlertInv, Counted
    <2>3. CASE e \notin DOMAIN deliveries
        BY <2>3, <1>4
    <2> QED
        BY <2>2, <2>3
<1>8. CountedApi'
    <2>1. \A v \in Senders, e \in DOMAIN deliveries : Unsure(v, e)' <=> Unsure(v, e)
        BY DEF Unsure
    <2> QED
        BY <2>1, <1>3, <1>4 DEF AlertInv, CountedApi
<1>9. BoxStep
    <2> DEFINE n == Len(new)
               opened == [i \in 1..n |-> "open"]
    <2>1. opened \in Seq(ShownStatuses) /\ Len(opened) = n
        <3>1. opened \in [1..n -> ShownStatuses]
            BY DEF ShownStatuses
        <3> QED
            BY <3>1
    <2>o. \A i \in 1..n : opened[i] = "open"
        OBVIOUS
    <2> HIDE DEF opened
    <2>2. /\ Shown(deliveries) \in Seq(ShownStatuses) /\ Len(Shown(deliveries)) = Len(deliveries)
          /\ Shown(deliveries') \in Seq(ShownStatuses)
          /\ Len(Shown(deliveries')) = Len(deliveries) + n
        BY <1>t, <1>1, ShownSeq
    <2>3. /\ Shown(deliveries) \o opened \in Seq(ShownStatuses)
          /\ Len(Shown(deliveries) \o opened) = Len(deliveries) + n
          /\ \A i \in 1..Len(deliveries) + n : (Shown(deliveries) \o opened)[i] =
               IF i <= Len(deliveries) THEN Shown(deliveries)[i] ELSE opened[i - Len(deliveries)]
        <3>1. PICK shown \in Seq(ShownStatuses) : shown = Shown(deliveries)
            BY <2>2
        <3>p. PICK more \in Seq(ShownStatuses) : more = opened
            BY <2>1
        <3>q. /\ shown \o more \in Seq(ShownStatuses)
              /\ Len(shown \o more) = Len(shown) + Len(more)
              /\ \A i \in 1..Len(shown) + Len(more) :
                   (shown \o more)[i] = IF i <= Len(shown) THEN shown[i] ELSE more[i - Len(shown)]
            BY ConcatProperties
        <3>2. /\ shown \o opened \in Seq(ShownStatuses)
              /\ Len(shown \o opened) = Len(shown) + Len(opened)
              /\ \A i \in 1..Len(shown) + Len(opened) :
                   (shown \o opened)[i] = IF i <= Len(shown) THEN shown[i] ELSE opened[i - Len(shown)]
            BY <3>p, <3>q
        <3>3. Len(shown) = Len(deliveries)
            BY <3>1, <2>2
        <3> QED
            BY <3>1, <3>2, <3>3, <2>1
    <2>4. \A i \in 1..Len(deliveries) + n : Shown(deliveries')[i] = (Shown(deliveries) \o opened)[i]
        <3> SUFFICES ASSUME NEW i \in 1..Len(deliveries) + n
                     PROVE  Shown(deliveries')[i] = (Shown(deliveries) \o opened)[i]
            OBVIOUS
        <3>1. Shown(deliveries')[i] = ShownStatus(deliveries'[i].status)
            BY <1>2 DEF Shown
        <3>2. CASE i <= Len(deliveries)
            <4>1. i \in DOMAIN deliveries
                BY <3>2, <1>t
            <4>2. Shown(deliveries)[i] = ShownStatus(deliveries[i].status)
                BY <4>1 DEF Shown
            <4> QED
                BY <4>1, <4>2, <3>1, <3>2, <2>3, <1>3
        <3>3. CASE ~(i <= Len(deliveries))
            <4>1. i \in DOMAIN deliveries' \ DOMAIN deliveries /\ i - Len(deliveries) \in 1..n
                BY <3>3, <1>2, <1>t
            <4>2. Shown(deliveries')[i] = "open"
                BY <4>1, <3>1, <1>4 DEF ShownStatus
            <4> QED
                BY <4>1, <4>2, <3>3, <2>3, <2>o
        <3> QED
            BY <3>2, <3>3
    <2>5. Shown(deliveries') = Shown(deliveries) \o opened
        BY <2>2, <2>3, <2>4, SeqEqual
    <2>6. n \in {1, 2} /\ Shown(deliveries') = Shown(deliveries) \o [i \in 1..n |-> "open"]
        BY <2>5 DEF opened
    <2> HIDE DEF n
    <2>7. Box!Open
        BY <2>6 DEF Box!Open
    <2> QED
        BY <2>7 DEF BoxStep, Box!OutboxNext
<1> QED
    BY <1>5, <1>6, <1>7, <1>8, <1>9 DEF AlertInv

LEMMA CreateInv == ASSUME AlertInv, NEW telegram \in BOOLEAN, CreateAlert(telegram) PROVE AlertInv' /\ BoxStep
<1> DEFINE mail == IF recipient /\ Ready(transport)
                   THEN <<Opened(transport.kind, transport.revision)>> ELSE <<>>
           chat == IF telegram THEN <<Opened("telegram", 0)>> ELSE <<>>
           new == mail \o chat
<1>0. /\ new # <<>> /\ Len(deliveries) + Len(new) <= MaxDeliveries
      /\ deliveries' = deliveries \o new
      /\ UNCHANGED <<transport, recipient, senders, crashes>>
    BY DEF CreateAlert
<1> DEFINE Fresh(rows) == /\ rows \in Seq(DeliveryRow) /\ Len(rows) \in {0, 1}
                          /\ \A i \in 1..Len(rows) : rows[i].status = "queued"
                               /\ rows[i].accepted = 0 /\ rows[i].doubts = 0
<1>1. \A channel \in Channels, revision \in 0..MaxRevisions : Fresh(<<Opened(channel, revision)>>)
    BY OpenedRows
<1>2. Fresh(<<>>)
    BY EmptySeq
<1>3. Fresh(mail)
    <2>1. CASE recipient /\ Ready(transport)
        <3>1. transport.kind \in Channels /\ transport.revision \in 0..MaxRevisions
            BY <2>1 DEF AlertInv, AlertTypeOK, Ready, Channels
        <3> QED
            BY <2>1, <3>1, <1>1
    <2>2. CASE ~(recipient /\ Ready(transport))
        BY <2>2, <1>2
    <2> QED
        BY <2>1, <2>2
<1>4. Fresh(chat)
    <2>1. "telegram" \in Channels /\ 0 \in 0..MaxRevisions
        BY AlertAssumption DEF Channels
    <2> QED
        BY <2>1, <1>1, <1>2
<1> HIDE DEF mail, chat
<1>5. /\ new \in Seq(DeliveryRow) /\ Len(new) = Len(mail) + Len(chat)
      /\ \A i \in 1..Len(mail) + Len(chat) :
           new[i] = IF i <= Len(mail) THEN mail[i] ELSE chat[i - Len(mail)]
    BY <1>3, <1>4, ConcatProperties
<1>6. \A i \in 1..Len(new) : new[i].status = "queued" /\ new[i].accepted = 0 /\ new[i].doubts = 0
    <2> SUFFICES ASSUME NEW i \in 1..Len(new)
                 PROVE  new[i].status = "queued" /\ new[i].accepted = 0 /\ new[i].doubts = 0
        OBVIOUS
    <2>1. CASE i <= Len(mail)
        <3>1. i \in 1..Len(mail) /\ new[i] = mail[i]
            BY <2>1, <1>3, <1>4, <1>5
        <3> QED
            BY <3>1, <1>3
    <2>2. CASE ~(i <= Len(mail))
        <3>1. i - Len(mail) \in 1..Len(chat) /\ new[i] = chat[i - Len(mail)]
            BY <2>2, <1>3, <1>4, <1>5
        <3> QED
            BY <3>1, <1>4
    <2> QED
        BY <2>1, <2>2
<1>7. Len(new) \in {1, 2}
    <2>1. Len(new) # 0
        BY <1>0, <1>5, EmptySeq
    <2> QED
        BY <2>1, <1>3, <1>4, <1>5
<1> HIDE DEF new
<1> QED
    BY <1>0, <1>5, <1>6, <1>7, OpenInv

-----------------------------------------------------------------------------
(* The invariant and the theorems.                                          *)

LEMMA AlertStepInv == OnTime /\ AlertInv /\ [AlertNext]_alertVars => AlertInv' /\ BoxStep
<1> SUFFICES ASSUME OnTime, AlertInv, [AlertNext]_alertVars PROVE AlertInv' /\ BoxStep
    OBVIOUS
<1>t. /\ transport \in [kind : {"none", "smtp", "api"}, revision : 0..MaxRevisions,
                        smtp : BOOLEAN, api : BOOLEAN]
      /\ recipient \in BOOLEAN /\ MaxRevisions \in Nat
    BY AlertAssumption DEF AlertInv, AlertTypeOK
<1>k. ASSUME UNCHANGED <<deliveries, senders, crashes>>, recipient' \in BOOLEAN,
             transport' \in [kind : {"none", "smtp", "api"}, revision : 0..MaxRevisions,
                             smtp : BOOLEAN, api : BOOLEAN]
      PROVE  AlertInv' /\ BoxStep
    <2>1. AlertTypeOK'
        BY <1>k DEF AlertInv, AlertTypeOK
    <2> QED
        BY <1>k, <2>1, SettingsInv
<1>1. ASSUME NEW d \in DOMAIN deliveries, RecoverLease(d) PROVE AlertInv' /\ BoxStep
    BY <1>1, RecoverInv
<1>2. ASSUME NEW d \in DOMAIN deliveries, LapseLease(d) PROVE AlertInv' /\ BoxStep
    BY <1>2, LapseInv
<1>3. ASSUME NEW w \in Senders, ListDue(w) PROVE AlertInv' /\ BoxStep
    BY <1>3, ListInv
<1>4. ASSUME NEW w \in Senders, TakeNext(w) PROVE AlertInv' /\ BoxStep
    BY <1>4, TakeInv
<1>5. ASSUME NEW w \in Senders, WriteVerdict(w) PROVE AlertInv' /\ BoxStep
    BY <1>5, VerdictInv
<1>6. ASSUME NEW w \in Senders, NEW verdict \in Verdicts, NEW taken \in BOOLEAN,
             Dispatch(w, verdict, taken)
      PROVE  AlertInv' /\ BoxStep
    BY <1>6, DispatchInv
<1>7. ASSUME NEW on \in BOOLEAN, ConfigureSmtp(on) PROVE AlertInv' /\ BoxStep
    <2>1. transport.revision + 1 \in 0..MaxRevisions
        BY <1>7, <1>t DEF ConfigureSmtp
    <2>2. transport' = [transport EXCEPT !.smtp = TRUE, !.revision = transport.revision + 1,
                          !.kind = IF on THEN "smtp" ELSE transport.kind]
        BY <1>7 DEF ConfigureSmtp
    <2>3. transport' \in [kind : {"none", "smtp", "api"}, revision : 0..MaxRevisions,
                          smtp : BOOLEAN, api : BOOLEAN]
        BY <2>1, <2>2, <1>t
    <2> QED
        BY <2>3, <1>7, <1>t, <1>k DEF ConfigureSmtp
<1>8. ASSUME NEW on \in BOOLEAN, ConfigureApi(on) PROVE AlertInv' /\ BoxStep
    <2>1. transport.revision + 1 \in 0..MaxRevisions
        BY <1>8, <1>t DEF ConfigureApi
    <2>2. transport' = [transport EXCEPT !.api = TRUE, !.revision = transport.revision + 1,
                          !.kind = IF on THEN "api" ELSE transport.kind]
        BY <1>8 DEF ConfigureApi
    <2>3. transport' \in [kind : {"none", "smtp", "api"}, revision : 0..MaxRevisions,
                          smtp : BOOLEAN, api : BOOLEAN]
        BY <2>1, <2>2, <1>t
    <2> QED
        BY <2>3, <1>8, <1>t, <1>k DEF ConfigureApi
<1>9. ASSUME NEW on \in BOOLEAN, SetRecipient(on) PROVE AlertInv' /\ BoxStep
    BY <1>9, <1>t, <1>k DEF SetRecipient
<1>10. ASSUME NEW on \in BOOLEAN, CreateAlert(on) PROVE AlertInv' /\ BoxStep
    BY <1>10, CreateInv
<1>11. ASSUME NEW kind \in {"none", "smtp", "api"}, SelectTransport(kind) PROVE AlertInv' /\ BoxStep
    <2>1. transport.revision + 1 \in 0..MaxRevisions
        BY <1>11, <1>t DEF SelectTransport
    <2>2. transport' = [transport EXCEPT !.kind = kind, !.revision = transport.revision + 1]
        BY <1>11 DEF SelectTransport
    <2>3. transport' \in [kind : {"none", "smtp", "api"}, revision : 0..MaxRevisions,
                          smtp : BOOLEAN, api : BOOLEAN]
        BY <2>1, <2>2, <1>t
    <2> QED
        BY <2>3, <1>11, <1>t, <1>k DEF SelectTransport
<1>12. ASSUME NEW w \in Senders, CrashSender(w) PROVE AlertInv' /\ BoxStep
    BY <1>12, CrashInv
<1>13. CASE UNCHANGED alertVars
    BY <1>13, <1>t, <1>k DEF alertVars
<1> QED
    BY <1>1, <1>2, <1>3, <1>4, <1>5, <1>6, <1>7, <1>8, <1>9, <1>10, <1>11, <1>12, <1>13
       DEF AlertNext, Sweeping

\* While no dispatch outlives its lease, the alert deliveries implement the
\* outbox: each is opened once and ends once, whichever sweeps overlap, die or
\* come late (process_alert_delivery).
THEOREM AlertsImplementOutbox == ASSUME OnTime PROVE AlertSpec => WithinOutbox
<1>1. AlertInit => AlertInv /\ Box!OutboxInit
    BY AlertInitInv
<1>2. AlertInv /\ [AlertNext]_alertVars => AlertInv' /\ BoxStep
    BY AlertStepInv
<1> QED
    BY <1>1, <1>2, PTL DEF AlertSpec, WithinOutbox, Box!OutboxSpec, BoxStep

\* While no dispatch outlives its lease, a message reaches the operator twice
\* only after an answer that was lost or a crash (_dispatch_smtp_bz_api).
THEOREM MessagesTakenOnce == ASSUME OnTime PROVE AlertSpec => []TakenOnce
<1>1. AlertInit => AlertInv
    BY AlertInitInv
<1>2. AlertInv /\ [AlertNext]_alertVars => AlertInv'
    BY AlertStepInv
<1>3. AlertInv => TakenOnce
    BY DEF AlertInv, Counted, CountedApi, TakenOnce
<1> QED
    BY <1>1, <1>2, <1>3, PTL DEF AlertSpec

-----------------------------------------------------------------------------
(***************************************************************************)
(* Incidents, for any drafts and any number of incidents: the types, that  *)
(* a blocked draft stays visible, and that a subject never has two live    *)
(* incidents.                                                              *)
(***************************************************************************)

\* The agreement of drafts and incidents is inductive with the types.
IncidentInv == IncidentTypeOK /\ IncidentsAgree

\* Its parts: a blocked draft has a live incident unless an operator dismissed
\* it, and a signal has at most one.
Visible == blocked # {} => dismissed \/ Live("qa-block") # {}
OneLive == \A signal \in Signals : \A i, j \in Live(signal) : i = j

LEMMA IncidentTypes ==
  ASSUME NEW rows \in Seq(IncidentRow)
  PROVE  \A i \in DOMAIN rows : rows[i].signal \in Signals
<1> SUFFICES ASSUME NEW i \in DOMAIN rows PROVE rows[i].signal \in Signals
    OBVIOUS
<1>1. DOMAIN rows = 1..Len(rows)
    BY LenProperties
<1>2. rows[i] \in IncidentRow
    BY <1>1, ElementOfSeq
<1> QED
    BY <1>2 DEF IncidentRow

LEMMA IncidentParts ==
  ASSUME IncidentTypeOK
  PROVE  IncidentsAgree <=> Visible /\ OneLive
<1>1. \A i \in DOMAIN incidents : incidents[i].signal \in Signals
    BY IncidentTypes DEF IncidentTypeOK
<1> QED
    BY <1>1 DEF IncidentsAgree, Visible, OneLive, Live, Signals

LEMMA IncidentInitInv == IncidentInit => IncidentInv
<1> SUFFICES ASSUME IncidentInit PROVE IncidentInv
    OBVIOUS
<1>1. incidents \in Seq(IncidentRow) /\ Len(incidents) = 0 /\ DOMAIN incidents = {}
    BY EmptySeq DEF IncidentInit
<1>2. /\ resolver \in [busy : BOOLEAN, held : SUBSET (1..MaxIncidents)]
      /\ domain \in [published : BOOLEAN, failing : BOOLEAN]
      /\ monitor \in [step : {"idle", "probed", "looked"}, failing : BOOLEAN, existing : BOOLEAN]
    BY DEF IncidentInit
<1>3. Len(incidents) <= MaxIncidents
    BY <1>1, IncidentAssumption
<1>4. blocked \subseteq CheckedDrafts /\ dismissed \in BOOLEAN /\ blocked = {}
    BY DEF IncidentInit
<1>5. IncidentTypeOK
    BY <1>1, <1>2, <1>3, <1>4 DEF IncidentTypeOK
<1> QED
    BY <1>1, <1>4, <1>5 DEF IncidentInv, IncidentsAgree

-----------------------------------------------------------------------------
(* What the steps do to the rows.                                          *)

\* An observation leaves one live incident of its signal and all others.
LEMMA ObservedRows ==
  ASSUME IncidentInv, NEW signal \in Signals, NEW announce \in BOOLEAN, CanObserve(signal),
         incidents' = Observed(signal, announce)
  PROVE  /\ incidents' \in Seq(IncidentRow) /\ Len(incidents') <= MaxIncidents
         /\ OneLive'
         /\ Live(signal)' # {}
         /\ \A s \in Signals : Live(s) \subseteq Live(s)'
<1>t. incidents \in Seq(IncidentRow) /\ Len(incidents) <= MaxIncidents /\ OneLive
    BY IncidentParts DEF IncidentInv, IncidentTypeOK
<1>1. CASE Live(signal) # {}
    BY <1>1, <1>t DEF Observed, OneLive, Live
<1>2. CASE Live(signal) = {}
    <2> DEFINE new == [signal |-> signal, status |-> "open", announced |-> announce]
    <2>1. incidents' = Append(incidents, new) /\ Len(incidents) < MaxIncidents /\ new \in IncidentRow
        BY <1>2 DEF Observed, CanObserve, IncidentRow
    <2>2. /\ incidents' \in Seq(IncidentRow) /\ Len(incidents') = Len(incidents) + 1
          /\ \A i \in 1..Len(incidents) : incidents'[i] = incidents[i]
          /\ incidents'[Len(incidents) + 1] = new
        BY <2>1, <1>t, AppendProperties
    <2>3. /\ DOMAIN incidents = 1..Len(incidents) /\ Len(incidents) \in Nat
          /\ DOMAIN incidents' = 1..(Len(incidents) + 1)
        BY <2>2, <1>t, LenProperties
    <2>4. Len(incidents') <= MaxIncidents
        BY <2>1, <2>2, <2>3, IncidentAssumption
    <2>5. \A s \in Signals : Live(s)' = IF s = signal THEN {Len(incidents) + 1} ELSE Live(s)
        <3> HIDE DEF new
        <3>1. new.signal = signal /\ new.status = "open"
            BY DEF new
        <3>2. Live(signal)' = {Len(incidents) + 1}
            BY <1>2, <2>2, <2>3, <3>1 DEF Live
        <3>3. \A s \in Signals \ {signal} : Live(s)' = Live(s)
            BY <2>2, <2>3, <3>1 DEF Live
        <3> QED
            BY <3>2, <3>3
    <2>6. OneLive'
        BY <2>5, <1>t DEF OneLive
    <2> QED
        BY <2>2, <2>4, <2>5, <2>6, <1>2
<1> QED
    BY <1>1, <1>2

\* Rows that are resolved, and only they, leave the live ones.
LEMMA ResolvedRows ==
  ASSUME IncidentInv, NEW gone,
         incidents' = [i \in DOMAIN incidents |->
            IF i \in gone THEN [incidents[i] EXCEPT !.status = "resolved"] ELSE incidents[i]]
  PROVE  /\ incidents' \in Seq(IncidentRow) /\ Len(incidents') <= MaxIncidents
         /\ OneLive'
         /\ \A s \in Signals : Live(s)' = Live(s) \ gone
<1>t. incidents \in Seq(IncidentRow) /\ Len(incidents) <= MaxIncidents /\ OneLive
    BY IncidentParts DEF IncidentInv, IncidentTypeOK
<1>1. DOMAIN incidents = 1..Len(incidents) /\ Len(incidents) \in Nat
    BY <1>t, LenProperties
<1>2. \A i \in DOMAIN incidents : incidents[i] \in IncidentRow
    BY <1>t, <1>1, ElementOfSeq
<1>3. \A i \in DOMAIN incidents : /\ incidents'[i] \in IncidentRow
                                  /\ incidents'[i].signal = incidents[i].signal
                                  /\ incidents'[i].status = IF i \in gone THEN "resolved" ELSE incidents[i].status
    BY <1>2 DEF IncidentRow
<1>4. incidents' \in [1..Len(incidents) -> IncidentRow]
    BY <1>1, <1>3
<1>5. incidents' \in Seq(IncidentRow) /\ Len(incidents') = Len(incidents) /\ DOMAIN incidents' = DOMAIN incidents
    BY <1>1, <1>4, LenProperties
<1>6. \A s \in Signals : Live(s)' = Live(s) \ gone
    BY <1>3, <1>5 DEF Live
<1>7. OneLive'
    BY <1>6, <1>t DEF OneLive
<1> QED
    BY <1>t, <1>5, <1>6, <1>7

\* Rows that stay as they are.
LEMMA IncidentRowsKept ==
  ASSUME IncidentInv, UNCHANGED incidents
  PROVE  /\ incidents' \in Seq(IncidentRow) /\ Len(incidents') <= MaxIncidents
         /\ OneLive'
         /\ \A s \in Signals : Live(s)' = Live(s)
BY IncidentParts DEF IncidentInv, IncidentTypeOK, OneLive, Live

-----------------------------------------------------------------------------
\* Every step keeps the invariant.
LEMMA IncidentStepInv == IncidentInv /\ [IncidentNext]_incidentVars => IncidentInv'
<1> SUFFICES ASSUME IncidentInv, [IncidentNext]_incidentVars PROVE IncidentInv'
    OBVIOUS
<1>t. /\ blocked \subseteq CheckedDrafts /\ dismissed \in BOOLEAN
      /\ resolver \in [busy : BOOLEAN, held : SUBSET (1..MaxIncidents)]
      /\ domain \in [published : BOOLEAN, failing : BOOLEAN]
      /\ monitor \in [step : {"idle", "probed", "looked"}, failing : BOOLEAN, existing : BOOLEAN]
    BY DEF IncidentInv, IncidentTypeOK
<1>d. incidents \in Seq(IncidentRow) /\ DOMAIN incidents = 1..Len(incidents)
      /\ Len(incidents) \in Nat /\ Len(incidents) <= MaxIncidents
    BY LenProperties DEF IncidentInv, IncidentTypeOK
<1>v. Visible /\ OneLive
    BY IncidentParts DEF IncidentInv
<1>s. "qa-block" \in Signals /\ "site-unreachable" \in Signals
    BY DEF Signals
<1>q. ASSUME IncidentTypeOK', Visible', OneLive' PROVE IncidentInv'
    <2>1. \A i \in DOMAIN incidents' : incidents'[i].signal \in Signals
        BY <1>q, IncidentTypes DEF IncidentTypeOK
    <2> QED
        BY <1>q, <2>1 DEF IncidentInv, IncidentsAgree, Visible, OneLive, Live, Signals
<1>1. ASSUME NEW d \in CheckedDrafts, NEW blocks \in BOOLEAN, CheckDraft(d, blocks) PROVE IncidentInv'
    <2>1. CASE blocks
        <3>1. CanObserve("qa-block") /\ incidents' = Observed("qa-block", FALSE)
              /\ blocked' = blocked \cup {d} /\ dismissed' = FALSE /\ UNCHANGED <<resolver, domain, monitor>>
            BY <1>1, <2>1 DEF CheckDraft
        <3>2. /\ incidents' \in Seq(IncidentRow) /\ Len(incidents') <= MaxIncidents
              /\ OneLive' /\ Live("qa-block")' # {}
            BY <3>1, <1>s, ObservedRows
        <3>3. IncidentTypeOK'
            BY <3>1, <3>2, <1>t DEF IncidentTypeOK
        <3> QED
            BY <3>2, <3>3, <1>q DEF Visible
    <2>2. CASE ~blocks
        <3>1. blocked' = blocked \ {d} /\ UNCHANGED <<incidents, dismissed, resolver, domain, monitor>>
            BY <1>1, <2>2 DEF CheckDraft
        <3>2. IncidentTypeOK'
            BY <3>1, <1>t, <1>d DEF IncidentTypeOK
        <3>3. Visible'
            BY <3>1, <1>v, <1>s, IncidentRowsKept DEF Visible
        <3> QED
            BY <3>1, <3>2, <3>3, IncidentRowsKept, <1>q
    <2> QED
        BY <2>1, <2>2
<1>2. ASSUME NEW i \in DOMAIN incidents, NEW action \in {"acknowledge", "resolve"}, Decide(i, action)
      PROVE  IncidentInv'
    <2>0. /\ incidents' = [incidents EXCEPT ![i].status = IF action = "resolve" THEN "resolved" ELSE "acknowledged"]
          /\ dismissed' = (dismissed \/ (action = "resolve" /\ incidents[i].signal = "qa-block"))
          /\ UNCHANGED <<blocked, resolver, domain, monitor>>
        BY <1>2 DEF Decide
    <2>b. dismissed' \in BOOLEAN
        BY <2>0, <1>t
    <2>1. CASE action = "resolve"
        <3>1. incidents' = [j \in DOMAIN incidents |->
                 IF j \in {i} THEN [incidents[j] EXCEPT !.status = "resolved"] ELSE incidents[j]]
            BY <2>0, <2>1
        <3>2. /\ incidents' \in Seq(IncidentRow) /\ Len(incidents') <= MaxIncidents /\ OneLive'
              /\ Live("qa-block")' = Live("qa-block") \ {i}
            BY <3>1, <1>s, ResolvedRows
        <3>3. IncidentTypeOK'
            BY <2>0, <2>b, <3>2, <1>t DEF IncidentTypeOK
        <3>4. Visible'
            <4>1. CASE incidents[i].signal = "qa-block"
                BY <4>1, <2>0, <2>1 DEF Visible
            <4>2. CASE incidents[i].signal # "qa-block"
                <5>1. i \notin Live("qa-block")
                    BY <4>2 DEF Live
                <5> QED
                    BY <4>2, <5>1, <2>0, <3>2, <1>v DEF Visible
            <4> QED
                BY <4>1, <4>2
        <3> QED
            BY <3>2, <3>3, <3>4, <1>q
    <2>2. CASE action = "acknowledge"
        <3> DEFINE row == [incidents[i] EXCEPT !.status = "acknowledged"]
        <3>1. incidents[i] \in IncidentRow /\ incidents[i].status = "open"
            BY <1>2, <2>2, <1>d, ElementOfSeq DEF Decide
        <3>2. row \in IncidentRow /\ row.signal = incidents[i].signal /\ row.status = "acknowledged"
            BY <3>1 DEF IncidentRow
        <3>3. incidents' = [incidents EXCEPT ![i] = row]
            BY <2>0, <2>2
        <3> HIDE DEF row
        <3>4. /\ incidents' \in Seq(IncidentRow) /\ Len(incidents') = Len(incidents)
              /\ \A j \in 1..Len(incidents) : incidents'[j] = IF j = i THEN row ELSE incidents[j]
            BY <3>2, <3>3, <1>d, ExceptSeq
        <3>5. DOMAIN incidents' = DOMAIN incidents
            BY <3>4, <1>d, LenProperties
        <3>6. \A s \in Signals : Live(s)' = Live(s)
            BY <3>1, <3>2, <3>4, <3>5, <1>d DEF Live
        <3>7. OneLive'
            BY <3>6, <1>v DEF OneLive
        <3>8. IncidentTypeOK'
            BY <2>0, <2>b, <3>4, <1>t, <1>d DEF IncidentTypeOK
        <3>9. Visible'
            BY <2>0, <2>2, <3>6, <1>v, <1>s DEF Visible
        <3> QED
            BY <3>7, <3>8, <3>9, <1>q
    <2> QED
        BY <2>1, <2>2
<1>3. CASE LockInactive
    <2>1. Live("qa-block") \subseteq 1..MaxIncidents
        BY <1>d, IncidentAssumption DEF Live
    <2>2. resolver' = [busy |-> TRUE, held |-> Live("qa-block")]
          /\ UNCHANGED <<incidents, blocked, dismissed, domain, monitor>>
        BY <1>3 DEF LockInactive
    <2>3. IncidentTypeOK'
        BY <2>1, <2>2, <1>t, <1>d DEF IncidentTypeOK
    <2>4. Visible'
        BY <2>2, <1>v, <1>s, IncidentRowsKept DEF Visible
    <2> QED
        BY <2>2, <2>3, <2>4, IncidentRowsKept, <1>q
<1>4. CASE ResolveInactive
    <2> DEFINE gone == IF StillBlocked THEN {} ELSE resolver.held
    <2>1. /\ incidents' = [i \in DOMAIN incidents |->
               IF i \in gone THEN [incidents[i] EXCEPT !.status = "resolved"] ELSE incidents[i]]
          /\ resolver' = [busy |-> FALSE, held |-> {}]
          /\ UNCHANGED <<blocked, dismissed, domain, monitor>>
        BY <1>4 DEF ResolveInactive
    <2>2. blocked # {} => gone = {}
        BY DEF StillBlocked
    <2> HIDE DEF gone
    <2>3. /\ incidents' \in Seq(IncidentRow) /\ Len(incidents') <= MaxIncidents /\ OneLive'
          /\ Live("qa-block")' = Live("qa-block") \ gone
        BY <2>1, <1>s, ResolvedRows
    <2>4. IncidentTypeOK'
        BY <2>1, <2>3, <1>t DEF IncidentTypeOK
    <2>5. Visible'
        BY <2>1, <2>2, <2>3, <1>v DEF Visible
    <2> QED
        BY <2>3, <2>4, <2>5, <1>q
<1>5. ASSUME UNCHANGED <<incidents, blocked, dismissed, resolver>>,
             domain' \in [published : BOOLEAN, failing : BOOLEAN],
             monitor' \in [step : {"idle", "probed", "looked"}, failing : BOOLEAN, existing : BOOLEAN]
      PROVE  IncidentInv'
    <2>1. IncidentTypeOK'
        BY <1>5, <1>t, <1>d DEF IncidentTypeOK
    <2>2. Visible'
        BY <1>5, <1>v, <1>s, IncidentRowsKept DEF Visible
    <2> QED
        BY <2>1, <2>2, <1>5, IncidentRowsKept, <1>q
<1>6. ASSUME NEW field \in {"published", "failing"}, ChangeDomain(field) PROVE IncidentInv'
    <2>1. domain' \in [published : BOOLEAN, failing : BOOLEAN]
        BY <1>6, <1>t DEF ChangeDomain
    <2> QED
        BY <2>1, <1>5, <1>6, <1>t DEF ChangeDomain
<1>7. CASE ProbeDomain
    <2>1. monitor' \in [step : {"idle", "probed", "looked"}, failing : BOOLEAN, existing : BOOLEAN]
        BY <1>7, <1>t DEF ProbeDomain
    <2> QED
        BY <2>1, <1>5, <1>7, <1>t DEF ProbeDomain
<1>8. CASE LookForIncident
    <2> DEFINE found == Live("site-unreachable") # {}
    <2>1. monitor' = [monitor EXCEPT !.step = "looked", !.existing = found] /\ found \in BOOLEAN
        BY <1>8 DEF LookForIncident
    <2> HIDE DEF found
    <2>2. monitor' \in [step : {"idle", "probed", "looked"}, failing : BOOLEAN, existing : BOOLEAN]
        BY <2>1, <1>t
    <2> QED
        BY <2>2, <1>5, <1>8, <1>t DEF LookForIncident
<1>9. CASE ObserveDomain
    <2>0. monitor' = [step |-> "idle", failing |-> FALSE, existing |-> FALSE]
          /\ UNCHANGED <<blocked, dismissed, resolver, domain>>
        BY <1>9 DEF ObserveDomain
    <2>1. CASE monitor.failing
        <3> DEFINE announce == ~monitor.existing
        <3>1. CanObserve("site-unreachable") /\ incidents' = Observed("site-unreachable", announce)
              /\ announce \in BOOLEAN
            BY <1>9, <2>1 DEF ObserveDomain
        <3> HIDE DEF announce
        <3>2. /\ incidents' \in Seq(IncidentRow) /\ Len(incidents') <= MaxIncidents
              /\ OneLive' /\ Live("qa-block") \subseteq Live("qa-block")'
            BY <3>1, <1>s, ObservedRows
        <3>3. IncidentTypeOK'
            BY <2>0, <3>2, <1>t DEF IncidentTypeOK
        <3>4. Visible'
            BY <2>0, <3>2, <1>v DEF Visible
        <3> QED
            BY <3>2, <3>3, <3>4, <1>q
    <2>2. CASE ~monitor.failing
        <3> DEFINE gone == Live("site-unreachable")
        <3>1. incidents' = [i \in DOMAIN incidents |->
                 IF i \in gone THEN [incidents[i] EXCEPT !.status = "resolved"] ELSE incidents[i]]
            BY <1>9, <2>2 DEF ObserveDomain, Settled
        <3>2. Live("qa-block") \cap gone = {}
            BY DEF Live
        <3> HIDE DEF gone
        <3>3. /\ incidents' \in Seq(IncidentRow) /\ Len(incidents') <= MaxIncidents /\ OneLive'
              /\ Live("qa-block")' = Live("qa-block") \ gone
            BY <3>1, <1>s, ResolvedRows
        <3>4. IncidentTypeOK'
            BY <2>0, <3>3, <1>t DEF IncidentTypeOK
        <3>5. Visible'
            BY <2>0, <3>2, <3>3, <1>v DEF Visible
        <3> QED
            BY <3>3, <3>4, <3>5, <1>q
    <2> QED
        BY <2>1, <2>2
<1>10. CASE UNCHANGED incidentVars
    BY <1>10, <1>5, <1>t DEF incidentVars
<1> QED
    BY <1>1, <1>2, <1>3, <1>4, <1>6, <1>7, <1>8, <1>9, <1>10 DEF IncidentNext

-----------------------------------------------------------------------------
\* Every variable keeps its type, for any drafts and any number of incidents.
THEOREM IncidentTypeCorrect == IncidentSpec => []IncidentTypeOK
<1>1. IncidentInv => IncidentTypeOK
    BY DEF IncidentInv
<1> QED
    BY IncidentInitInv, IncidentStepInv, <1>1, PTL DEF IncidentSpec

\* A blocked draft is visible as an incident until an operator dismisses it,
\* and a signal never has two live incidents, whatever the monitor, the QA
\* runs, the operator and the worker's resolution do at once
\* (observe_alert, auto_resolve_inactive_incidents).
THEOREM IncidentsTellDrafts == IncidentSpec => []IncidentsAgree
<1>1. IncidentInv => IncidentsAgree
    BY DEF IncidentInv
<1> QED
    BY IncidentInitInv, IncidentStepInv, <1>1, PTL DEF IncidentSpec

-----------------------------------------------------------------------------
(***************************************************************************)
(* Retention, for any operators, rows, policies and bounds: the types, and *)
(* that a run deletes nothing younger than the policy that was confirmed   *)
(* for it.                                                                 *)
(***************************************************************************)

-----------------------------------------------------------------------------
(* The inductive invariant.                                                *)

\* The run under execution has the policy of the running code: a deployment
\* that brings another policy ends the worker.
PurgeInv == purging # 0 => purging \in DOMAIN retention /\ retention[purging].policy = policy

RetentionInv == RetentionTypeOK /\ PurgeInv /\ PurgedAsConfirmed

LEMMA RetentionInitInv == RetentionInit => RetentionInv
<1> SUFFICES ASSUME RetentionInit PROVE RetentionInv
    OBVIOUS
<1>1. rowsKept \in [OldRows -> [age : 0..MaxAge, closed : BOOLEAN]]
    BY RetentionAssumption DEF RetentionInit
<1>2. retention \in Seq(RetentionRow) /\ Len(retention) = 0 /\ DOMAIN retention = {}
    BY EmptySeq DEF RetentionInit
<1>3. RetentionTypeOK
    BY <1>1, <1>2, RetentionAssumption DEF RetentionInit, RetentionTypeOK
<1> QED
    BY <1>2, <1>3 DEF RetentionInit, RetentionInv, PurgeInv, PurgedAsConfirmed

-----------------------------------------------------------------------------
(* What the steps do to the runs.                                          *)

\* A new run has deleted nothing.
LEMMA AddedRun ==
  ASSUME RetentionInv, NEW by \in Operators \cup {"schedule"}, NEW status \in {"preview", "queued"},
         Add(by, status), UNCHANGED <<policy, rowsKept, purging>>
  PROVE  RetentionInv'
<1> DEFINE new == [by |-> by, policy |-> policy, removed |-> {}, status |-> status]
<1>1. new \in RetentionRow
    BY DEF RetentionInv, RetentionTypeOK, RetentionRow
<1>2. retention \in Seq(RetentionRow) /\ Len(retention) < MaxRetentionRuns /\ retention' = Append(retention, new)
    BY DEF RetentionInv, RetentionTypeOK, Add
<1>3. /\ retention' \in Seq(RetentionRow) /\ Len(retention') = Len(retention) + 1
      /\ \A n \in 1..Len(retention) : retention'[n] = retention[n]
      /\ retention'[Len(retention) + 1] = new
    BY <1>1, <1>2, AppendProperties
<1>4. DOMAIN retention = 1..Len(retention) /\ Len(retention) \in Nat
      /\ DOMAIN retention' = 1..Len(retention')
    BY <1>2, <1>3, LenProperties
<1>5. Len(retention') <= MaxRetentionRuns
    BY <1>2, <1>3, <1>4, RetentionAssumption
<1>6. RetentionTypeOK'
    BY <1>3, <1>5 DEF RetentionInv, RetentionTypeOK
<1>7. PurgeInv'
    BY <1>3, <1>4 DEF RetentionInv, PurgeInv
<1>8. PurgedAsConfirmed'
    <2> SUFFICES ASSUME NEW n \in DOMAIN retention', NEW age \in retention'[n].removed
                 PROVE  age > retention'[n].policy
        BY DEF PurgedAsConfirmed
    <2>1. CASE n \in DOMAIN retention
        BY <2>1, <1>3, <1>4 DEF RetentionInv, PurgedAsConfirmed
    <2>2. CASE n = Len(retention) + 1
        BY <2>2, <1>3
    <2> QED
        BY <2>1, <2>2, <1>3, <1>4
<1> QED
    BY <1>6, <1>7, <1>8 DEF RetentionInv

\* A run that moves on and keeps its policy; what it deleted is as confirmed.
LEMMA MovedRun ==
  ASSUME RetentionInv, NEW n \in DOMAIN retention, NEW row \in RetentionRow,
         retention' = [retention EXCEPT ![n] = row], row.policy = retention[n].policy,
         \A age \in row.removed : age > row.policy,
         rowsKept' \in UNION {[R -> [age : 0..MaxAge, closed : BOOLEAN]] : R \in SUBSET OldRows},
         UNCHANGED policy,
         purging' \in {0, purging} \/ (purging' = n /\ row.policy = policy)
  PROVE  RetentionInv'
<1>1. retention \in Seq(RetentionRow) /\ Len(retention) <= MaxRetentionRuns /\ purging \in 0..MaxRetentionRuns
    BY DEF RetentionInv, RetentionTypeOK
<1>2. DOMAIN retention = 1..Len(retention) /\ Len(retention) \in Nat
    BY <1>1, LenProperties
<1>3. /\ retention' \in Seq(RetentionRow) /\ Len(retention') = Len(retention)
      /\ \A i \in 1..Len(retention) : retention'[i] = IF i = n THEN row ELSE retention[i]
    BY <1>1, <1>2, ExceptSeq
<1>4. DOMAIN retention' = DOMAIN retention
    BY <1>2, <1>3, LenProperties
<1>5. purging' \in 0..MaxRetentionRuns
    BY <1>1, <1>2, RetentionAssumption
<1>6. RetentionTypeOK'
    BY <1>1, <1>3, <1>5 DEF RetentionInv, RetentionTypeOK
<1>7. PurgeInv'
    BY <1>2, <1>3, <1>4 DEF RetentionInv, PurgeInv
<1>8. PurgedAsConfirmed'
    BY <1>2, <1>3, <1>4 DEF RetentionInv, PurgedAsConfirmed
<1> QED
    BY <1>6, <1>7, <1>8 DEF RetentionInv

\* A run whose status alone is written.
LEMMA StatusWritten ==
  ASSUME RetentionInv, NEW n \in DOMAIN retention,
         NEW status \in {"expired", "queued", "processing", "succeeded", "failed"},
         retention' = [retention EXCEPT ![n].status = status], UNCHANGED <<policy, rowsKept>>,
         purging' \in {0, purging} \/ (purging' = n /\ retention[n].policy = policy)
  PROVE  RetentionInv'
<1> DEFINE row == [retention[n] EXCEPT !.status = status]
<1>1. retention[n] \in RetentionRow
    BY ElementOfSeq, LenProperties DEF RetentionInv, RetentionTypeOK
<1>2. row \in RetentionRow /\ row.policy = retention[n].policy /\ row.removed = retention[n].removed
    BY <1>1 DEF RetentionRow
<1>3. \A age \in row.removed : age > row.policy
    BY <1>2 DEF RetentionInv, PurgedAsConfirmed
<1>4. retention' = [retention EXCEPT ![n] = row]
    OBVIOUS
<1>5. rowsKept' \in UNION {[R -> [age : 0..MaxAge, closed : BOOLEAN]] : R \in SUBSET OldRows}
    BY DEF RetentionInv, RetentionTypeOK
<1> HIDE DEF row
<1> QED
    BY <1>2, <1>3, <1>4, <1>5, MovedRun

-----------------------------------------------------------------------------
\* Every step keeps the invariant.
LEMMA RetentionStepInv == RetentionInv /\ [RetentionNext]_retentionVars => RetentionInv'
<1> SUFFICES ASSUME RetentionInv, [RetentionNext]_retentionVars PROVE RetentionInv'
    OBVIOUS
<1>t. PICK R \in SUBSET OldRows : rowsKept \in [R -> [age : 0..MaxAge, closed : BOOLEAN]]
    BY DEF RetentionInv, RetentionTypeOK
<1>n. MaxAge \in Nat /\ policy \in Nat
    BY RetentionAssumption DEF RetentionInv, RetentionTypeOK
<1>1. ASSUME NEW o \in Operators, BuildPreview(o) PROVE RetentionInv'
    BY <1>1, AddedRun DEF BuildPreview
<1>2. CASE QueueScheduledRun
    BY <1>2, AddedRun DEF QueueScheduledRun
<1>3. ASSUME NEW o \in Operators, NEW n \in DOMAIN retention, QueuePreviewRun(o, n) PROVE RetentionInv'
    BY <1>3, StatusWritten DEF QueuePreviewRun
<1>4. ASSUME NEW n \in DOMAIN retention, ExpirePreview(n) PROVE RetentionInv'
    BY <1>4, StatusWritten DEF ExpirePreview
<1>5. ASSUME NEW n \in DOMAIN retention, TakeRetentionRun(n) PROVE RetentionInv'
    BY <1>5, StatusWritten DEF TakeRetentionRun, SamePolicy
<1>6. CASE FailPurge
    <2>1. purging \in DOMAIN retention
        BY <1>6 DEF FailPurge, RetentionInv, PurgeInv
    <2> QED
        BY <1>6, <2>1, StatusWritten DEF FailPurge
<1>7. CASE Purge
    <2> DEFINE gone == {rowsKept[r].age : r \in Expired}
               row == [retention[purging] EXCEPT !.status = "succeeded", !.removed = gone]
    <2>1. purging \in DOMAIN retention /\ retention[purging].policy = policy
        BY <1>7 DEF Purge, RetentionInv, PurgeInv
    <2>2. retention[purging] \in RetentionRow
        BY <2>1, ElementOfSeq, LenProperties DEF RetentionInv, RetentionTypeOK
    <2>3. \A r \in Expired : rowsKept[r].age \in 0..MaxAge /\ rowsKept[r].age > policy
        BY <1>t DEF Expired
    <2>4. gone \in SUBSET (0..MaxAge) /\ \A age \in gone : age > policy
        BY <2>3
    <2>5. row \in RetentionRow /\ row.policy = policy /\ row.removed = gone
        <3> HIDE DEF gone
        <3> QED
            BY <2>1, <2>2, <2>4 DEF RetentionRow
    <2>6. retention' = [retention EXCEPT ![purging] = row]
        BY <1>7 DEF Purge
    <2>7. rowsKept' \in [R \ Expired -> [age : 0..MaxAge, closed : BOOLEAN]]
        BY <1>7, <1>t DEF Purge
    <2>8. rowsKept' \in UNION {[Q -> [age : 0..MaxAge, closed : BOOLEAN]] : Q \in SUBSET OldRows}
        BY <2>7
    <2>9. purging' = 0 /\ UNCHANGED policy
        BY <1>7 DEF Purge
    <2> HIDE DEF row, gone
    <2> QED
        BY <2>1, <2>4, <2>5, <2>6, <2>8, <2>9, MovedRun
<1>8. ASSUME NEW p \in Policies, Deploy(p) PROVE RetentionInv'
    BY <1>8, RetentionAssumption DEF Deploy, RetentionInv, RetentionTypeOK, PurgeInv, PurgedAsConfirmed
<1>9. ASSUME rowsKept' \in [R -> [age : 0..MaxAge, closed : BOOLEAN]], UNCHANGED <<policy, retention, purging>>
      PROVE  RetentionInv'
    <2>1. RetentionTypeOK'
        BY <1>9 DEF RetentionInv, RetentionTypeOK
    <2> QED
        BY <2>1, <1>9 DEF RetentionInv, PurgeInv, PurgedAsConfirmed
<1>10. CASE NextDay
    <2> DEFINE older(r) == IF rowsKept[r].age < MaxAge THEN rowsKept[r].age + 1 ELSE rowsKept[r].age
    <2>1. \A r \in R : rowsKept[r] \in [age : 0..MaxAge, closed : BOOLEAN] /\ older(r) \in 0..MaxAge
        BY <1>t, <1>n
    <2>2. rowsKept' = [r \in R |-> [rowsKept[r] EXCEPT !.age = older(r)]]
        BY <1>10, <1>t DEF NextDay
    <2> HIDE DEF older
    <2>3. rowsKept' \in [R -> [age : 0..MaxAge, closed : BOOLEAN]]
        BY <2>1, <2>2
    <2> QED
        BY <2>3, <1>9, <1>10 DEF NextDay
<1>11. ASSUME NEW r \in DOMAIN rowsKept, CloseRow(r) PROVE RetentionInv'
    <2>1. rowsKept' \in [R -> [age : 0..MaxAge, closed : BOOLEAN]]
        BY <1>11, <1>t DEF CloseRow
    <2> QED
        BY <2>1, <1>9, <1>11 DEF CloseRow
<1>12. CASE UNCHANGED retentionVars
    BY <1>12 DEF retentionVars, RetentionInv, RetentionTypeOK, PurgeInv, PurgedAsConfirmed
<1> QED
    BY <1>1, <1>2, <1>3, <1>4, <1>5, <1>6, <1>7, <1>8, <1>10, <1>11, <1>12 DEF RetentionNext

-----------------------------------------------------------------------------
\* Every variable keeps its type, for any rows, policies and operators.
THEOREM RetentionTypeCorrect == RetentionSpec => []RetentionTypeOK
<1>1. RetentionInv => RetentionTypeOK
    BY DEF RetentionInv
<1> QED
    BY RetentionInitInv, RetentionStepInv, <1>1, PTL DEF RetentionSpec

\* A run deletes nothing younger than the policy that was shown and confirmed
\* for it, whatever is deployed between the preview and the execution
\* (process_queued_retention_runs).
THEOREM DeletesAsConfirmed == RetentionSpec => []PurgedAsConfirmed
<1>1. RetentionInv => PurgedAsConfirmed
    BY DEF RetentionInv
<1> QED
    BY RetentionInitInv, RetentionStepInv, <1>1, PTL DEF RetentionSpec

-----------------------------------------------------------------------------
(***************************************************************************)
(* TelemetryConsent, for any visitors and periods: no raw row of a         *)
(* withdrawn session and no count of one on a day that raw rows back. The  *)
(* invariant adds the collection under way, and that only complete days    *)
(* are counted.                                                            *)
(***************************************************************************)

-----------------------------------------------------------------------------
(* The inductive invariant of TelemetryConsent.                             *)

\* The days raw rows back, for the counts of complete days that are not too old.
Backed == \A d \in Days : Cutoff <= d /\ d < day => \A who \in daily[d] : \E v \in visits : v.who = who /\ v.day = d

\* No stored visit and no request under way is of a marked session; a
\* withdrawal began today or earlier; only complete days are counted.
TelemetryInv ==
  /\ TelemetryTypeOK
  /\ \A v \in visits \cup collecting : ~MarkedFor(v.who)
  /\ \A w \in withdrawing : w.day <= day
  /\ \A d \in Days : d >= day => daily[d] = {}
  /\ ~late => Backed

-----------------------------------------------------------------------------
(* Every step of TelemetryConsent keeps it.                                 *)

LEMMA TelemetryBounds ==
  ASSUME TelemetryInv
  PROVE  /\ LastDay \in Nat /\ RawDays \in Nat /\ AggregateDays \in Nat
         /\ day \in Nat /\ day <= LastDay /\ day \in Days
         /\ \A d \in Days : d \in Nat
         /\ Cutoff \in Nat /\ AggregateCutoff \in Nat
BY TelemetryAssumption DEF TelemetryInv, TelemetryTypeOK, Days, Cutoff, AggregateCutoff

LEMMA OneRequest ==
  ASSUME TelemetryInv, NEW who \in Visitors
  PROVE  {[who |-> who, day |-> day]} \in Requests /\ {} \in Requests
<1>1. [who |-> who, day |-> day] \in Visit
    BY TelemetryBounds DEF Visit
<1>2. Cardinality({[who |-> who, day |-> day]}) = 1 /\ Cardinality({}) = 0
    BY FS_Singleton, FS_EmptySet
<1> QED
    BY <1>1, <1>2 DEF Requests

LEMMA BeginCollectKeeps ==
  ASSUME TelemetryInv, NEW who \in Visitors, BeginCollect(who)
  PROVE  TelemetryInv'
<1>1. collecting' \in Requests
    BY OneRequest DEF BeginCollect
<1>2. TelemetryTypeOK'
    BY <1>1 DEF TelemetryInv, TelemetryTypeOK, BeginCollect
<1>3. (\A v \in visits \cup collecting : ~MarkedFor(v.who))'
    BY DEF TelemetryInv, BeginCollect, MayBeFree, MarkedFor
<1>4. /\ (\A w \in withdrawing : w.day <= day)'
      /\ (\A d \in Days : d >= day => daily[d] = {})'
    BY DEF TelemetryInv, BeginCollect
<1>5. (~late => Backed)'
    BY DEF TelemetryInv, BeginCollect, Backed, Cutoff
<1> QED
    BY <1>2, <1>3, <1>4, <1>5 DEF TelemetryInv

LEMMA FinishCollectKeeps ==
  ASSUME TelemetryInv, FinishCollect
  PROVE  TelemetryInv'
<1>1. collecting' \in Requests
    BY FS_EmptySet DEF FinishCollect, Requests
<1>2. TelemetryTypeOK'
    BY <1>1 DEF TelemetryInv, TelemetryTypeOK, FinishCollect, Requests
<1>3. (\A v \in visits \cup collecting : ~MarkedFor(v.who))'
    BY DEF TelemetryInv, FinishCollect, MarkedFor
<1>4. /\ (\A w \in withdrawing : w.day <= day)'
      /\ (\A d \in Days : d >= day => daily[d] = {})'
    BY DEF TelemetryInv, FinishCollect
<1>5. (~late => Backed)'
    BY DEF TelemetryInv, FinishCollect, Backed, Cutoff
<1> QED
    BY <1>2, <1>3, <1>4, <1>5 DEF TelemetryInv

LEMMA BeginWithdrawKeeps ==
  ASSUME TelemetryInv, NEW who \in Visitors, BeginWithdraw(who)
  PROVE  TelemetryInv'
<1>1. withdrawing' \in Requests
    BY OneRequest DEF BeginWithdraw
<1>2. TelemetryTypeOK'
    BY <1>1 DEF TelemetryInv, TelemetryTypeOK, BeginWithdraw
<1>3. (\A v \in visits \cup collecting : ~MarkedFor(v.who))'
    BY DEF TelemetryInv, BeginWithdraw, MarkedFor
<1>4. /\ (\A w \in withdrawing : w.day <= day)'
      /\ (\A d \in Days : d >= day => daily[d] = {})'
    BY TelemetryBounds DEF TelemetryInv, BeginWithdraw
<1>5. (~late => Backed)'
    BY DEF TelemetryInv, BeginWithdraw, Backed, Cutoff
<1> QED
    BY <1>2, <1>3, <1>4, <1>5 DEF TelemetryInv

LEMMA FinishWithdrawKeeps ==
  ASSUME TelemetryInv, FinishWithdraw
  PROVE  TelemetryInv'
<1>t. /\ visits \subseteq Visit /\ daily \in [Days -> SUBSET Visitors]
      /\ revoked \subseteq [who : Visitors, until : 0..LastDay + 1]
      /\ withdrawing \subseteq Visit /\ day \in Days /\ late \in BOOLEAN
      /\ collecting \in Requests
    BY DEF TelemetryInv, TelemetryTypeOK, Requests
<1>1. PICK w \in withdrawing :
        LET left == {v \in visits : v.who # w.who}
            affected == {v.day : v \in visits \ left} \cap 0..(w.day - 1)
        IN  /\ SessionFree(w.who)
            /\ visits' = left
            /\ daily' = [d \in Days |-> IF d \in affected THEN {v.who : v \in {x \in left : x.day = d}}
                                        ELSE daily[d]]
            /\ revoked' = {m \in revoked : m.who # w.who} \cup {[who |-> w.who, until |-> w.day + 1]}
            /\ withdrawing' = {} /\ late' = (late \/ w.day < day)
            /\ UNCHANGED <<day, collecting>>
    BY DEF FinishWithdraw
<1> DEFINE left == {v \in visits : v.who # w.who}
           affected == {v.day : v \in visits \ left} \cap 0..(w.day - 1)
<1>2. /\ w.who \in Visitors /\ w.day \in Nat /\ w.day <= day /\ w.day \in Days
    BY <1>t DEF TelemetryInv, Visit, Days
<1>3. /\ visits' = left /\ left \subseteq Visit /\ withdrawing' = {} /\ UNCHANGED <<day, collecting>>
      /\ late' = (late \/ w.day < day)
    BY <1>1, <1>t
<1>4. \A d \in Days : daily'[d] = IF d \in affected THEN {v.who : v \in {x \in left : x.day = d}} ELSE daily[d]
    BY <1>1
<1>5. daily' \in [Days -> SUBSET Visitors]
    <2>1. \A d \in Days : {v.who : v \in {x \in left : x.day = d}} \subseteq Visitors
        BY <1>3 DEF Visit
    <2> QED
        BY <1>1, <1>t, <2>1
<1>6. revoked' = {m \in revoked : m.who # w.who} \cup {[who |-> w.who, until |-> w.day + 1]}
    BY <1>1
<1>7. revoked' \subseteq [who : Visitors, until : 0..LastDay + 1]
    <2>1. w.day + 1 \in 0..LastDay + 1
        BY <1>2, TelemetryBounds DEF Days
    <2>2. [who |-> w.who, until |-> w.day + 1] \in [who : Visitors, until : 0..LastDay + 1]
        BY <1>2, <2>1
    <2> QED
        BY <1>6, <1>t, <2>2
<1>8. TelemetryTypeOK'
    BY <1>3, <1>5, <1>7, <1>t, FS_EmptySet DEF TelemetryTypeOK, Requests
<1>9. \A v \in left \cup collecting : v.who # w.who /\ ~MarkedFor(v.who)
    BY <1>1 DEF TelemetryInv, SessionFree
<1>10. (\A v \in visits \cup collecting : ~MarkedFor(v.who))'
    BY <1>3, <1>6, <1>9 DEF MarkedFor
<1>11. (\A d \in Days : d >= day => daily[d] = {})'
    <2>1. \A d \in Days : d >= day => d \notin affected
        BY <1>2, TelemetryBounds
    <2> QED
        BY <1>3, <1>4, <2>1 DEF TelemetryInv
<1>12. (~late => Backed)'
    <2>1. SUFFICES ASSUME ~late, ~(w.day < day), NEW d \in Days, Cutoff <= d, d < day, NEW who \in daily'[d]
                   PROVE  \E v \in left : v.who = who /\ v.day = d
        BY <1>3 DEF Backed, Cutoff
    <2>2. CASE d \in affected
        <3>1. who \in {v.who : v \in {x \in left : x.day = d}}
            BY <1>4, <2>1, <2>2
        <3> QED
            BY <3>1
    <2>3. CASE d \notin affected
        <3>1. who \in daily[d]
            BY <1>4, <2>1, <2>3
        <3>2. PICK v \in visits : v.who = who /\ v.day = d
            BY <2>1, <3>1 DEF TelemetryInv, Backed
        <3>3. d \in 0..(w.day - 1)
            BY <1>2, <2>1, TelemetryBounds
        <3>4. v \in left
            BY <2>3, <3>2, <3>3
        <3> QED
            BY <3>2, <3>4
    <2> QED
        BY <2>2, <2>3
<1> QED
    BY <1>3, <1>8, <1>10, <1>11, <1>12 DEF TelemetryInv

LEMMA RollupKeeps ==
  ASSUME TelemetryInv, Rollup
  PROVE  TelemetryInv'
<1>t. /\ visits \subseteq Visit /\ daily \in [Days -> SUBSET Visitors] /\ day \in Days
      /\ revoked \subseteq [who : Visitors, until : 0..LastDay + 1]
      /\ collecting \in Requests /\ withdrawing \in Requests
    BY DEF TelemetryInv, TelemetryTypeOK
<1>1. \A d \in Days : daily'[d] =
        IF d < AggregateCutoff THEN {}
        ELSE IF d >= Cutoff /\ d < day THEN {v.who : v \in {x \in visits : x.day = d}} ELSE daily[d]
    BY DEF Rollup
<1>2. \A d \in Days : {v.who : v \in {x \in visits : x.day = d}} \subseteq Visitors
    BY <1>t DEF Visit
<1>3. daily' \in [Days -> SUBSET Visitors]
    BY <1>t, <1>2 DEF Rollup
<1>4. /\ visits' = {v \in visits : v.day >= Cutoff} /\ revoked' = {m \in revoked : day < m.until}
      /\ late' = FALSE /\ UNCHANGED <<day, collecting, withdrawing>>
    BY DEF Rollup
<1>5. TelemetryTypeOK'
    BY <1>3, <1>4, <1>t DEF TelemetryTypeOK
<1>6. (\A v \in visits \cup collecting : ~MarkedFor(v.who))'
    BY <1>4 DEF TelemetryInv, MarkedFor
<1>7. (\A w \in withdrawing : w.day <= day)'
    BY <1>4 DEF TelemetryInv
<1>8. (\A d \in Days : d >= day => daily[d] = {})'
    <2>1. ASSUME NEW d \in Days, d >= day
          PROVE  daily'[d] = {}
        <3>1. ~(d < day) /\ daily[d] = {}
            BY <2>1, TelemetryBounds DEF TelemetryInv
        <3> QED
            BY <1>1, <2>1, <3>1, Zenon
    <2> QED
        BY <1>4, <2>1
<1>9. (~late => Backed)'
    <2>1. SUFFICES ASSUME NEW d \in Days, Cutoff <= d, d < day, NEW who \in daily'[d]
                   PROVE  \E v \in visits' : v.who = who /\ v.day = d
        BY <1>4 DEF Backed, Cutoff
    <2>2. d >= Cutoff
        BY <2>1, TelemetryBounds
    <2>3. who \in {v.who : v \in {x \in visits : x.day = d}}
        BY <1>1, <2>1, <2>2
    <2> QED
        BY <1>4, <2>2, <2>3
<1> QED
    BY <1>5, <1>6, <1>7, <1>8, <1>9 DEF TelemetryInv

LEMMA MidnightKeeps ==
  ASSUME TelemetryInv, Midnight
  PROVE  TelemetryInv'
<1>1. /\ day' = day + 1 /\ day' \in Days
      /\ UNCHANGED <<visits, daily, revoked, collecting, withdrawing, late>>
    BY TelemetryBounds DEF Midnight, Days
<1>t. /\ revoked \subseteq [who : Visitors, until : 0..LastDay + 1] /\ withdrawing \subseteq Visit
    BY DEF TelemetryInv, TelemetryTypeOK, Requests
<1>2. TelemetryTypeOK'
    BY <1>1 DEF TelemetryInv, TelemetryTypeOK
<1>3. (\A v \in visits \cup collecting : ~MarkedFor(v.who))'
    <2>1. \A m \in revoked : m.until \in Nat
        BY <1>t, TelemetryBounds
    <2>2. \A m \in revoked : day' < m.until => day < m.until
        BY <1>1, <2>1, TelemetryBounds
    <2> QED
        BY <1>1, <2>2 DEF TelemetryInv, MarkedFor
<1>4. (\A w \in withdrawing : w.day <= day)'
    <2>1. \A w \in withdrawing : w.day \in Nat
        BY <1>t, TelemetryBounds DEF Visit
    <2> QED
        BY <1>1, <2>1, TelemetryBounds DEF TelemetryInv
<1>5. (\A d \in Days : d >= day => daily[d] = {})'
    <2>1. \A d \in Days : d >= day + 1 => d >= day
        BY TelemetryBounds
    <2> QED
        BY <1>1, <2>1 DEF TelemetryInv
<1>6. (~late => Backed)'
    <2>1. SUFFICES ASSUME ~late, NEW d \in Days, Cutoff' <= d, d < day + 1, NEW who \in daily[d]
                   PROVE  \E v \in visits : v.who = who /\ v.day = d
        BY <1>1 DEF Backed
    <2>2. d # day
        BY <2>1, TelemetryBounds DEF TelemetryInv
    <2>3. Cutoff <= d /\ d < day
        BY <1>1, <2>1, <2>2, TelemetryBounds DEF Cutoff
    <2> QED
        BY <2>1, <2>3 DEF TelemetryInv, Backed
<1> QED
    BY <1>2, <1>3, <1>4, <1>5, <1>6 DEF TelemetryInv

LEMMA TelemetryInitInv ==
  ASSUME TelemetryInit
  PROVE  TelemetryInv
<1>1. {} \in Requests /\ 0 \in Days
    BY FS_EmptySet, TelemetryAssumption DEF Requests, Days
<1>2. TelemetryTypeOK
    BY <1>1 DEF TelemetryInit, TelemetryTypeOK
<1> QED
    BY <1>2 DEF TelemetryInit, TelemetryInv, Backed

LEMMA TelemetryStepInv ==
  ASSUME TelemetryInv, [TelemetryNext]_telemetryVars
  PROVE  TelemetryInv'
<1>1. CASE UNCHANGED telemetryVars
    BY <1>1 DEF telemetryVars, TelemetryInv, TelemetryTypeOK, MarkedFor, Backed, Cutoff
<1> QED
    BY <1>1, BeginCollectKeeps, BeginWithdrawKeeps, FinishCollectKeeps, FinishWithdrawKeeps, RollupKeeps,
       MidnightKeeps DEF TelemetryNext

LEMMA TelemetryInvariant == TelemetrySpec => []TelemetryInv
BY TelemetryInitInv, TelemetryStepInv, PTL DEF TelemetrySpec

-----------------------------------------------------------------------------
(* Theorems about TelemetryConsent.                                         *)

\* A withdrawn session leaves no raw row while its marker lasts, and the counts
\* of complete days are backed by raw rows, except between a withdrawal that
\* crossed midnight and the next rollup (collect_telemetry, revoke_session,
\* rollup_and_purge).
THEOREM WithdrawalHeld == TelemetrySpec => []ConsentKept
<1>1. TelemetryInv => ConsentKept
    BY DEF TelemetryInv, Backed, ConsentKept
<1> QED
    BY <1>1, TelemetryInvariant, PTL

-----------------------------------------------------------------------------
(***************************************************************************)
(* LeadIntake, for any policies, approvers, submissions and keys: the      *)
(* types, and that a visitor who was told so has one lead, routed by one   *)
(* policy. The invariant speaks of the forms under way, which may have     *)
(* seen several policies come into force.                                  *)
(***************************************************************************)

-----------------------------------------------------------------------------
(* The inductive invariant of LeadIntake.                                   *)

PolicyRow == [state : PolicyStates, mode : Modes, channels : SUBSET LeadChannels]
ActivationRow == [step : {"idle", "checked", "looked"}, policy : PolicyIds \cup {NoPolicy},
                  current : PolicyIds \cup {NoPolicy}]
FormRow == [step : {"idle", "sent", "inserted", "routed", "answered"},
            key : FormKeys \cup {"none"}, kind : Kinds, policy : PolicyIds \cup {NoPolicy},
            seen : SUBSET (PolicyIds \cup {NoPolicy}),
            answer : Submissions \cup {"none", "refused", "suppressed"}]
LeadRow == [key : FormKeys \cup {"none"}, status : Kinds \cup {"none"}, kind : Kinds,
            seen : SUBSET (PolicyIds \cup {NoPolicy}), deliveries : SUBSET Delivery]

Pending(s) == forms[s].step \in {"sent", "inserted", "routed"}
Flying(s) == forms[s].step \in {"inserted", "routed"}
Made(p) == p = NoPolicy \/ (p \in PolicyIds /\ policies[p].state # "none")

\* The deliveries are the default's, or those of a policy.
ToDefault(made) ==
  {<<d.target, d.policy>> : d \in made} = {<<"global_smtp_default", NoPolicy>>}
ToPolicy(made, p, mode, channels) ==
  {<<d.target, d.policy>> : d \in made}
    = {<<c, p>> : c \in channels}
      \cup {<<t, NoPolicy>> : t \in IF mode = "append_global" THEN {"global_smtp_default"} ELSE {}}
Goes(made, p) ==
  IF p = NoPolicy THEN ToDefault(made)
  ELSE ToPolicy(made, p, policies[p].mode, policies[p].channels)

\* A form under way has seen the policy in force, whenever one comes into
\* force, and is routed by one it has seen.
PendingInv ==
  /\ \A a \in Approvers : activations[a].step # "idle" => activations[a].policy \in PolicyIds
  /\ \A s \in Submissions :
       /\ Pending(s) => /\ forms[s].key \in FormKeys /\ InForce \subseteq forms[s].seen
                        /\ \A p \in forms[s].seen : Made(p)
       /\ forms[s].step = "routed" /\ forms[s].kind # "spam" => forms[s].policy \in forms[s].seen

\* Under one key one lead is stored or on its way, and an answer names it.
KeyInv ==
  /\ \A s, t \in Submissions : \A k \in FormKeys :
       s \in Stored(k) \cup InFlight(k) /\ t \in Stored(k) \cup InFlight(k) => s = t
  /\ \A s \in Submissions :
       /\ leads[s].status # "none" => forms[s].step = "answered"
       /\ forms[s].step # "answered" => forms[s].answer = "none"
       /\ forms[s].answer \in Submissions =>
            forms[s].key \in FormKeys /\ Stored(forms[s].key) = {forms[s].answer}

\* A stored lead went where one policy says that it has seen, and no policy
\* changes its destinations once it is made.
RoutedInv ==
  \A s \in Submissions : leads[s].status # "none" =>
    /\ leads[s].key \in FormKeys /\ \A p \in leads[s].seen : Made(p)
    /\ leads[s].kind # "spam" => \E p \in leads[s].seen : Goes(leads[s].deliveries, p)

IntakeInv == IntakeTypeOK /\ PendingInv /\ KeyInv /\ RoutedInv

-----------------------------------------------------------------------------
(* Facts the steps of LeadIntake share.                                     *)

LEMMA IntakeTypes ==
  IntakeTypeOK <=>
    /\ policies \in [PolicyIds -> PolicyRow] /\ smtp \in BOOLEAN
    /\ activations \in [Approvers -> ActivationRow]
    /\ forms \in [Submissions -> FormRow] /\ leads \in [Submissions -> LeadRow]
BY DEF IntakeTypeOK, PolicyRow, ActivationRow, FormRow, LeadRow

LEMMA EmptyRows ==
  /\ NoRow \in PolicyRow /\ NoRow.state = "none"
  /\ NotActivating \in ActivationRow /\ NotActivating.step = "idle"
  /\ NoForm \in FormRow /\ NoForm.step = "idle" /\ NoForm.answer = "none"
  /\ NoLead \in LeadRow /\ NoLead.status = "none"
BY DEF NoRow, PolicyRow, PolicyStates, Modes, NotActivating, ActivationRow, NoForm, FormRow, Kinds,
       NoLead, LeadRow

LEMMA IntakeInitInv == IntakeInit => IntakeInv
<1> SUFFICES ASSUME IntakeInit PROVE IntakeInv
    OBVIOUS
<1>1. IntakeTypeOK
    BY IntakeTypes, EmptyRows DEF IntakeInit
<1>2. PendingInv
    BY EmptyRows DEF IntakeInit, PendingInv, Pending
<1>3. KeyInv
    BY EmptyRows, IntakeAssumption DEF IntakeInit, KeyInv, Stored, InFlight
<1>4. RoutedInv
    BY EmptyRows DEF IntakeInit, RoutedInv
<1> QED
    BY <1>1, <1>2, <1>3, <1>4 DEF IntakeInv

\* A made policy is the same for ever but for its state.
Same == \A p \in PolicyIds : policies[p].state # "none" =>
  /\ policies'[p].state # "none" /\ policies'[p].mode = policies[p].mode
  /\ policies'[p].channels = policies[p].channels

LEMMA MadeStays ==
  ASSUME Same, NEW p, Made(p), NEW made
  PROVE  Made(p)' /\ (Goes(made, p) <=> IF p = NoPolicy THEN ToDefault(made)
                       ELSE ToPolicy(made, p, policies'[p].mode, policies'[p].channels))
BY DEF Same, Made, Goes

LEMMA RoutedStays ==
  ASSUME IntakeInv, Same, leads' \in [Submissions -> LeadRow],
         \A s \in Submissions :
           /\ leads'[s].status # "none" <=> leads[s].status # "none"
           /\ leads'[s].key = leads[s].key /\ leads'[s].kind = leads[s].kind
           /\ leads'[s].seen = leads[s].seen /\ leads'[s].deliveries = leads[s].deliveries
  PROVE  RoutedInv'
<1>1. ASSUME NEW s \in Submissions, leads'[s].status # "none"
      PROVE  /\ leads'[s].key \in FormKeys /\ \A p \in leads'[s].seen : Made(p)'
             /\ (leads[s].kind # "spam" => \E p \in leads[s].seen : Goes(leads[s].deliveries, p))'
    <2>1. leads[s].status # "none" /\ leads[s].key \in FormKeys /\ \A p \in leads[s].seen : Made(p)
        BY <1>1 DEF IntakeInv, RoutedInv
    <2>2. \A p \in leads'[s].seen : Made(p)'
        BY <2>1 DEF Same, Made
    <2>3. ASSUME leads'[s].kind # "spam"
          PROVE  (\E p \in leads[s].seen : Goes(leads[s].deliveries, p))'
        <3>1. PICK p \in leads[s].seen : Goes(leads[s].deliveries, p)
            BY <2>1, <2>3 DEF IntakeInv, RoutedInv
        <3>2. Made(p)
            BY <2>1
        <3>3. leads'[s].deliveries = leads[s].deliveries /\ p \in leads'[s].seen
            OBVIOUS
        <3>4. (Goes(leads[s].deliveries, p))'
            BY <3>1, <3>2, <3>3 DEF Goes, Same, Made
        <3> QED
            BY <3>3, <3>4
    <2> QED
        BY <2>1, <2>2, <2>3
<1> QED
    BY <1>1 DEF RoutedInv

-----------------------------------------------------------------------------
(* The transport and the policies.                                          *)

\* Policies change and none comes into force.
LEMMA PoliciesMove ==
  ASSUME IntakeInv, NEW p \in PolicyIds, NEW row \in PolicyRow, policies' = [policies EXCEPT ![p] = row],
         row.state \notin {"none", "active"}, policies[p].state # "active",
         \/ policies[p].state = "none"
         \/ row.mode = policies[p].mode /\ row.channels = policies[p].channels,
         UNCHANGED <<smtp, activations, forms, leads>>
  PROVE  IntakeInv'
<1>t. policies \in [PolicyIds -> PolicyRow]
    BY IntakeTypes DEF IntakeInv
<1>1. /\ policies' \in [PolicyIds -> PolicyRow] /\ policies'[p] = row
      /\ \A q \in PolicyIds : q # p => policies'[q] = policies[q]
    BY <1>t
<1>2. IntakeTypeOK'
    BY <1>1 DEF IntakeInv, IntakeTypeOK, PolicyRow
<1>3. Same
    BY <1>1 DEF Same
<1>4. ActivePolicies' = ActivePolicies
    BY <1>1 DEF ActivePolicies
<1>5. InForce' = InForce
    BY <1>4 DEF InForce
<1>6. \A q : Made(q) => Made(q)'
    BY <1>3 DEF Made, Same
<1>7. PendingInv'
    BY <1>5, <1>6 DEF IntakeInv, PendingInv, Pending
<1>8. KeyInv'
    BY DEF IntakeInv, KeyInv, Stored, InFlight
<1>9. RoutedInv'
    BY <1>3, RoutedStays, IntakeTypes DEF IntakeInv
<1> QED
    BY <1>2, <1>7, <1>8, <1>9 DEF IntakeInv

LEMMA PoliciesKeep ==
  ASSUME IntakeInv, NEW p \in PolicyIds, CreatePolicy(p) \/ SubmitPolicy(p) \/ RejectPolicy(p)
  PROVE  IntakeInv'
<1>t. policies \in [PolicyIds -> PolicyRow] /\ policies[p] \in PolicyRow
    BY IntakeTypes DEF IntakeInv
<1>1. CASE CreatePolicy(p)
    <2>1. PICK route \in Routes :
            policies' = [policies EXCEPT ![p] = [state |-> "draft", mode |-> route.mode, channels |-> route.channels]]
        BY <1>1 DEF CreatePolicy
    <2>2. route.mode \in Modes /\ route.channels \in SUBSET LeadChannels
        BY IntakeAssumption
    <2>3. PICK row \in PolicyRow : row = [state |-> "draft", mode |-> route.mode, channels |-> route.channels]
        BY <2>2 DEF PolicyRow, PolicyStates
    <2>4. row.state = "draft"
        BY <2>3
    <2> QED
        BY <1>1, <2>1, <2>3, <2>4, PoliciesMove DEF CreatePolicy
<1>2. ASSUME NEW from \in {"draft", "review"}, NEW to \in {"review", "rejected"}, DecidePolicy(p, from, to)
      PROVE  IntakeInv'
    <2>1. PICK row \in PolicyRow : row = [policies[p] EXCEPT !.state = to]
        BY <1>t DEF PolicyRow, PolicyStates
    <2>2. row.state = to /\ row.mode = policies[p].mode /\ row.channels = policies[p].channels
        BY <1>t, <2>1 DEF PolicyRow
    <2>3. policies' = [policies EXCEPT ![p] = row] /\ policies[p].state = from
        BY <1>2, <2>1 DEF DecidePolicy
    <2> QED
        BY <1>2, <2>2, <2>3, PoliciesMove DEF DecidePolicy
<1> QED
    BY <1>1, <1>2 DEF SubmitPolicy, RejectPolicy

\* An activation that checks, looks or fails.
LEMMA ActivationWritten ==
  ASSUME IntakeInv, NEW a \in Approvers, NEW row \in ActivationRow,
         activations' = [activations EXCEPT ![a] = row], row.step # "idle" => row.policy \in PolicyIds,
         UNCHANGED <<policies, smtp, forms, leads>>
  PROVE  IntakeInv'
<1>t. activations \in [Approvers -> ActivationRow]
    BY IntakeTypes DEF IntakeInv
<1>1. /\ activations' \in [Approvers -> ActivationRow] /\ activations'[a] = row
      /\ \A b \in Approvers : b # a => activations'[b] = activations[b]
    BY <1>t
<1>2. IntakeTypeOK'
    BY <1>1 DEF IntakeInv, IntakeTypeOK, ActivationRow
<1>3. PendingInv'
    BY <1>1 DEF IntakeInv, PendingInv, Pending, InForce, ActivePolicies, Made
<1>4. KeyInv' /\ RoutedInv'
    BY DEF IntakeInv, KeyInv, Stored, InFlight, RoutedInv, Made, Goes
<1> QED
    BY <1>2, <1>3, <1>4 DEF IntakeInv

LEMMA ActivationsKeep ==
  ASSUME IntakeInv, NEW a \in Approvers,
         \/ LookForActive(a) \/ ActivationFails(a)
         \/ \E p \in PolicyIds : CheckPolicy(a, p)
  PROVE  IntakeInv'
<1>t. activations \in [Approvers -> ActivationRow] /\ activations[a] \in ActivationRow
    BY IntakeTypes DEF IntakeInv
<1>1. CASE LookForActive(a)
    <2>1. PICK p \in InForce : activations' = [activations EXCEPT ![a].step = "looked", ![a].current = p]
        BY <1>1 DEF LookForActive
    <2>2. p \in PolicyIds \cup {NoPolicy}
        BY DEF InForce, ActivePolicies
    <2>3. PICK row \in ActivationRow : row = [activations[a] EXCEPT !.step = "looked", !.current = p]
        BY <1>t, <2>2 DEF ActivationRow
    <2>4. row.policy = activations[a].policy
        BY <1>t, <2>3 DEF ActivationRow
    <2>5. activations' = [activations EXCEPT ![a] = row]
        BY <1>t, <2>1, <2>3
    <2>6. activations[a].policy \in PolicyIds
        BY <1>1 DEF LookForActive, IntakeInv, PendingInv
    <2> QED
        BY <1>1, <2>4, <2>5, <2>6, ActivationWritten DEF LookForActive
<1>2. CASE ActivationFails(a)
    BY <1>2, EmptyRows, ActivationWritten DEF ActivationFails
<1>3. ASSUME NEW p \in PolicyIds, CheckPolicy(a, p)
      PROVE  IntakeInv'
    <2>1. PICK row \in ActivationRow : row = [step |-> "checked", policy |-> p, current |-> NoPolicy]
        BY DEF ActivationRow
    <2>2. row.policy = p /\ activations' = [activations EXCEPT ![a] = row]
        BY <1>3, <2>1 DEF CheckPolicy
    <2> QED
        BY <1>3, <2>2, ActivationWritten DEF CheckPolicy
<1> QED
    BY <1>1, <1>2, <1>3

\* After an activation its policy alone is in force, and every form under way
\* has seen it.
LEMMA ActivatePolicyKeeps ==
  ASSUME IntakeInv, NEW a \in Approvers, ActivatePolicy(a)
  PROVE  IntakeInv'
<1>t. /\ policies \in [PolicyIds -> PolicyRow] /\ activations \in [Approvers -> ActivationRow]
      /\ forms \in [Submissions -> FormRow] /\ \A s \in Submissions : forms[s] \in FormRow
    BY IntakeTypes DEF IntakeInv
<1>1. PICK p \in PolicyIds : p = activations[a].policy
    BY DEF IntakeInv, PendingInv, ActivatePolicy
<1>2. /\ ActivePolicies \subseteq SupersededPolicy(a)
      /\ policies' = [q \in PolicyIds |->
           IF q = p THEN [policies[q] EXCEPT !.state = "active"]
           ELSE IF q \in SupersededPolicy(a) THEN [policies[q] EXCEPT !.state = "superseded"]
           ELSE policies[q]]
      /\ activations' = [activations EXCEPT ![a] = NotActivating]
      /\ forms' = [s \in Submissions |->
           IF Pending(s) THEN [forms[s] EXCEPT !.seen = @ \cup {p}] ELSE forms[s]]
      /\ UNCHANGED <<smtp, leads>>
    BY <1>1 DEF ActivatePolicy, IndexAllows, Pending
<1>3. \A q \in PolicyIds :
        /\ policies'[q] \in PolicyRow /\ policies'[q].mode = policies[q].mode
        /\ policies'[q].channels = policies[q].channels
        /\ policies'[q].state = IF q = p THEN "active"
                                ELSE IF q \in SupersededPolicy(a) THEN "superseded" ELSE policies[q].state
    <2>1. ASSUME NEW q \in PolicyIds
          PROVE  /\ policies[q] \in PolicyRow
                 /\ [policies[q] EXCEPT !.state = "active"] \in PolicyRow
                 /\ [policies[q] EXCEPT !.state = "active"].state = "active"
                 /\ [policies[q] EXCEPT !.state = "active"].mode = policies[q].mode
                 /\ [policies[q] EXCEPT !.state = "active"].channels = policies[q].channels
                 /\ [policies[q] EXCEPT !.state = "superseded"] \in PolicyRow
                 /\ [policies[q] EXCEPT !.state = "superseded"].state = "superseded"
                 /\ [policies[q] EXCEPT !.state = "superseded"].mode = policies[q].mode
                 /\ [policies[q] EXCEPT !.state = "superseded"].channels = policies[q].channels
        BY <1>t DEF PolicyRow, PolicyStates
    <2> QED
        BY <1>2, <2>1
<1>4. policies' \in [PolicyIds -> PolicyRow]
    BY <1>2, <1>3
<1>5. ActivePolicies' = {p}
    BY <1>2, <1>3 DEF ActivePolicies
<1>6. InForce' = {p}
    BY <1>5 DEF InForce
<1>7. Same
    BY <1>3 DEF Same
<1>8. activations' \in [Approvers -> ActivationRow] /\ \A b \in Approvers :
        activations'[b].step # "idle" => activations'[b].policy \in PolicyIds
    BY <1>2, <1>t, EmptyRows DEF IntakeInv, PendingInv
<1>9. \A s \in Submissions :
        /\ forms'[s] \in FormRow /\ forms'[s].step = forms[s].step /\ forms'[s].key = forms[s].key
        /\ forms'[s].kind = forms[s].kind /\ forms'[s].policy = forms[s].policy
        /\ forms'[s].answer = forms[s].answer
        /\ forms'[s].seen = IF Pending(s) THEN forms[s].seen \cup {p} ELSE forms[s].seen
    <2>1. ASSUME NEW s \in Submissions
          PROVE  LET row == [forms[s] EXCEPT !.seen = forms[s].seen \cup {p}] IN
                 /\ row \in FormRow /\ row.step = forms[s].step /\ row.key = forms[s].key
                 /\ row.kind = forms[s].kind /\ row.policy = forms[s].policy
                 /\ row.answer = forms[s].answer /\ row.seen = forms[s].seen \cup {p}
        BY <1>t DEF FormRow
    <2>2. \A s \in Submissions : forms'[s] =
            IF Pending(s) THEN [forms[s] EXCEPT !.seen = forms[s].seen \cup {p}] ELSE forms[s]
        BY <1>2
    <2> QED
        BY <1>t, <2>1, <2>2
<1>10. forms' \in [Submissions -> FormRow]
    BY <1>2, <1>9
<1>11. IntakeTypeOK'
    BY <1>2, <1>4, <1>8, <1>10 DEF IntakeInv, IntakeTypeOK, PolicyRow, ActivationRow, FormRow
<1>12. \A q : Made(q) => Made(q)'
    BY <1>7 DEF Made, Same
<1>13. Made(p)'
    BY <1>3 DEF Made
<1>14. PendingInv'
    <2>1. ASSUME NEW s \in Submissions
          PROVE  /\ Pending(s)' => /\ forms'[s].key \in FormKeys /\ InForce' \subseteq forms'[s].seen
                                   /\ \A q \in forms'[s].seen : Made(q)'
                 /\ forms'[s].step = "routed" /\ forms'[s].kind # "spam" => forms'[s].policy \in forms'[s].seen
        <3>1. Pending(s)' <=> Pending(s)
            BY <1>9 DEF Pending
        <3>2. Pending(s) => \A q \in forms'[s].seen : Made(q)'
            BY <1>9, <1>12, <1>13 DEF IntakeInv, PendingInv
        <3> QED
            BY <1>6, <1>9, <3>1, <3>2 DEF IntakeInv, PendingInv
    <2> QED
        BY <1>8, <2>1 DEF PendingInv
<1>15. KeyInv'
    <2>1. ASSUME NEW k PROVE Stored(k)' = Stored(k)
        BY <1>2 DEF Stored
    <2>2. ASSUME NEW k PROVE InFlight(k)' = InFlight(k)
        BY <1>9 DEF InFlight
    <2>3. \A s, t \in Submissions : \A k \in FormKeys :
            s \in Stored(k)' \cup InFlight(k)' /\ t \in Stored(k)' \cup InFlight(k)' => s = t
        BY <2>1, <2>2 DEF IntakeInv, KeyInv
    <2>4. \A s \in Submissions :
            /\ leads'[s].status # "none" => forms'[s].step = "answered"
            /\ forms'[s].step # "answered" => forms'[s].answer = "none"
        BY <1>2, <1>9 DEF IntakeInv, KeyInv
    <2>5. ASSUME NEW s \in Submissions, forms'[s].answer \in Submissions
          PROVE  forms'[s].key \in FormKeys /\ (Stored(forms[s].key) = {forms[s].answer})'
        <3>1. forms'[s].key = forms[s].key /\ forms'[s].answer = forms[s].answer
            BY <1>9
        <3>2. forms[s].key \in FormKeys /\ Stored(forms[s].key) = {forms[s].answer}
            BY <2>5, <3>1 DEF IntakeInv, KeyInv
        <3>3. {t \in Submissions : leads'[t].key = forms'[s].key /\ leads'[t].status # "none"}
                = {t \in Submissions : leads[t].key = forms[s].key /\ leads[t].status # "none"}
            BY <1>2, <3>1
        <3> QED
            BY <3>1, <3>2, <3>3 DEF Stored
    <2> QED
        BY <2>3, <2>4, <2>5 DEF KeyInv
<1>16. RoutedInv'
    BY <1>2, <1>7, RoutedStays, IntakeTypes DEF IntakeInv
<1> QED
    BY <1>11, <1>14, <1>15, <1>16 DEF IntakeInv

LEMMA TransportKeeps ==
  ASSUME IntakeInv, ConfigureTransport \/ DisableTransport
  PROVE  IntakeInv'
<1>1. smtp' \in BOOLEAN /\ UNCHANGED <<policies, activations, forms, leads>>
    BY DEF ConfigureTransport, DisableTransport
<1>2. IntakeTypeOK'
    BY <1>1 DEF IntakeInv, IntakeTypeOK
<1>3. PendingInv'
    BY <1>1 DEF IntakeInv, PendingInv, Pending, InForce, ActivePolicies, Made
<1>4. KeyInv'
    BY <1>1 DEF IntakeInv, KeyInv, Stored, InFlight
<1>5. RoutedInv'
    BY <1>1 DEF IntakeInv, RoutedInv, Made, Goes
<1> QED
    BY <1>2, <1>3, <1>4, <1>5 DEF IntakeInv

-----------------------------------------------------------------------------
(* The forms and the leads.                                                 *)

\* A form that was not answered moves on; the leads stay.
LEMMA FormWritten ==
  ASSUME IntakeInv, NEW s \in Submissions, NEW row \in FormRow, SetForm(s, row),
         UNCHANGED <<policies, smtp, activations, leads>>, forms[s].step # "answered",
         row.step \in {"sent", "inserted", "routed"} =>
           /\ row.key \in FormKeys /\ InForce \subseteq row.seen /\ \A p \in row.seen : Made(p),
         row.step = "routed" /\ row.kind # "spam" => row.policy \in row.seen,
         row.step \in {"inserted", "routed"} => (Flying(s) /\ row.key = forms[s].key) \/ Untaken(row.key),
         row.step # "answered" => row.answer = "none",
         row.answer \in Submissions => row.key \in FormKeys /\ Stored(row.key) = {row.answer}
  PROVE  IntakeInv'
<1>t. forms \in [Submissions -> FormRow]
    BY IntakeTypes DEF IntakeInv
<1>1. /\ forms' \in [Submissions -> FormRow] /\ forms'[s] = row
      /\ \A t \in Submissions : t # s => forms'[t] = forms[t]
    BY <1>t DEF SetForm
<1>2. IntakeTypeOK'
    BY <1>1 DEF IntakeInv, IntakeTypeOK, FormRow
<1>3. PendingInv'
    BY <1>1 DEF IntakeInv, PendingInv, Pending, InForce, ActivePolicies, Made
<1>4. \A k : /\ Stored(k)' = Stored(k)
             /\ InFlight(k)' \subseteq InFlight(k) \cup {s}
             /\ s \in InFlight(k)' => row.key = k /\ row.step \in {"inserted", "routed"}
    BY <1>1 DEF Stored, InFlight
<1>5. \A t, u \in Submissions : \A k \in FormKeys :
        t \in (Stored(k) \cup InFlight(k))' /\ u \in (Stored(k) \cup InFlight(k))' => t = u
    <2>1. ASSUME NEW k \in FormKeys, s \in InFlight(k)'
          PROVE  s \in InFlight(k) \/ (Stored(k) = {} /\ InFlight(k) = {})
        BY <1>4, <2>1 DEF Flying, InFlight, Untaken
    <2> QED
        BY <1>4, <2>1 DEF IntakeInv, KeyInv
<1>6. \A t \in Submissions :
        /\ leads'[t].status # "none" => forms'[t].step = "answered"
        /\ forms'[t].step # "answered" => forms'[t].answer = "none"
        /\ forms'[t].answer \in Submissions =>
             forms'[t].key \in FormKeys /\ Stored(forms'[t].key) = {forms'[t].answer}
    BY <1>1 DEF IntakeInv, KeyInv
<1>7. KeyInv'
    BY <1>4, <1>5, <1>6 DEF KeyInv
<1>8. RoutedInv'
    BY DEF IntakeInv, RoutedInv, Made, Goes
<1> QED
    BY <1>2, <1>3, <1>7, <1>8 DEF IntakeInv

LEMMA ReceiveKeeps ==
  ASSUME IntakeInv, NEW s \in Submissions, NEW k \in FormKeys, Receive(s, k)
  PROVE  IntakeInv'
<1>1. PICK kind \in Kinds :
        SetForm(s, [NoForm EXCEPT !.step = "sent", !.key = k, !.kind = kind, !.seen = InForce])
    BY DEF Receive
<1>2. InForce \subseteq PolicyIds \cup {NoPolicy} /\ \A p \in InForce : Made(p)
    BY DEF InForce, ActivePolicies, Made
<1>3. PICK row \in FormRow :
        row = [NoForm EXCEPT !.step = "sent", !.key = k, !.kind = kind, !.seen = InForce]
    BY <1>2 DEF NoForm, FormRow, Kinds
<1>4. row.step = "sent" /\ row.key = k /\ row.seen = InForce /\ row.answer = "none"
    BY <1>3 DEF NoForm
<1>5. row.answer \notin Submissions
    BY <1>4, IntakeAssumption
<1> QED
    BY <1>1, <1>2, <1>3, <1>4, <1>5, FormWritten DEF Receive

LEMMA RefuseKeeps ==
  ASSUME IntakeInv, NEW s \in Submissions, Refuse(s)
  PROVE  IntakeInv'
<1>1. PICK answer \in {"refused", "suppressed"} :
        SetForm(s, [NoForm EXCEPT !.step = "answered", !.answer = answer])
    BY DEF Refuse
<1>2. PICK row \in FormRow : row = [NoForm EXCEPT !.step = "answered", !.answer = answer]
    BY DEF NoForm, FormRow, Kinds
<1>3. row.step = "answered" /\ row.answer \notin Submissions
    BY <1>2, IntakeAssumption DEF NoForm
<1> QED
    BY <1>1, <1>2, <1>3, FormWritten DEF Refuse

LEMMA InsertKeeps ==
  ASSUME IntakeInv, NEW s \in Submissions, Insert(s) \/ ChooseRoute(s) \/ FormLost(s)
  PROVE  IntakeInv'
<1>t. forms[s] \in FormRow
    BY IntakeTypes DEF IntakeInv
<1>a. "none" \notin Submissions
    BY IntakeAssumption
<1>0. /\ Pending(s) /\ forms[s].key \in FormKeys /\ InForce \subseteq forms[s].seen
      /\ (\A p \in forms[s].seen : Made(p)) /\ forms[s].answer = "none"
    BY DEF Insert, ChooseRoute, FormLost, IntakeInv, PendingInv, KeyInv, Pending
<1>1. CASE Insert(s)
    <2>1. PICK row \in FormRow : row = [forms[s] EXCEPT !.step = "inserted"]
        BY <1>t DEF FormRow
    <2>2. /\ row.step = "inserted" /\ row.key = forms[s].key /\ row.seen = forms[s].seen
          /\ row.answer = forms[s].answer
        BY <1>t, <2>1 DEF FormRow
    <2>3. SetForm(s, row) /\ Untaken(row.key) /\ forms[s].step = "sent"
          /\ UNCHANGED <<policies, smtp, activations, leads>>
        BY <1>1, <2>1, <2>2 DEF Insert
    <2> QED
        BY <1>0, <1>a, <2>2, <2>3, FormWritten
<1>2. ASSUME ChooseRoute(s), NEW p \in PolicyIds \cup {NoPolicy},
             SetForm(s, [forms[s] EXCEPT !.step = "routed", !.policy = p]),
             forms[s].kind # "spam" => p \in InForce
      PROVE  IntakeInv'
    <2>1. PICK row \in FormRow : row = [forms[s] EXCEPT !.step = "routed", !.policy = p]
        BY <1>t DEF FormRow
    <2>2. /\ row.step = "routed" /\ row.key = forms[s].key /\ row.seen = forms[s].seen
          /\ row.answer = forms[s].answer /\ row.policy = p /\ row.kind = forms[s].kind
        BY <1>t, <2>1 DEF FormRow
    <2>3. SetForm(s, row) /\ forms[s].step = "inserted" /\ UNCHANGED <<policies, smtp, activations, leads>>
        BY <1>2, <2>1 DEF ChooseRoute
    <2> QED
        BY <1>0, <1>2, <1>a, <2>2, <2>3, FormWritten DEF Flying
<1>3. CASE ChooseRoute(s)
    <2>1. CASE forms[s].kind = "spam"
        <3>1. [forms[s] EXCEPT !.step = "routed"] = [forms[s] EXCEPT !.step = "routed", !.policy = forms[s].policy]
            BY <1>t DEF FormRow
        <3>2. forms[s].policy \in PolicyIds \cup {NoPolicy}
            BY <1>t DEF FormRow
        <3>3. SetForm(s, [forms[s] EXCEPT !.step = "routed"])
            BY <1>3, <2>1 DEF ChooseRoute
        <3>4. SetForm(s, [forms[s] EXCEPT !.step = "routed", !.policy = forms[s].policy])
            BY <3>1, <3>3
        <3> QED
            BY <1>2, <1>3, <2>1, <3>2, <3>4
    <2>2. CASE forms[s].kind # "spam"
        <3>1. PICK p \in InForce : SetForm(s, [forms[s] EXCEPT !.step = "routed", !.policy = p])
            BY <1>3, <2>2 DEF ChooseRoute, RoutePolicy
        <3>2. p \in PolicyIds \cup {NoPolicy}
            BY DEF InForce, ActivePolicies
        <3> QED
            BY <1>2, <1>3, <3>1, <3>2
    <2> QED
        BY <2>1, <2>2
<1>4. CASE FormLost(s)
    BY <1>0, <1>4, <1>a, EmptyRows, FormWritten DEF FormLost, Pending
<1> QED
    BY <1>1, <1>3, <1>4

LEMMA DeduplicateKeeps ==
  ASSUME IntakeInv, NEW s \in Submissions, Deduplicate(s)
  PROVE  IntakeInv'
<1>0. forms[s].key \in FormKeys /\ forms[s].step = "sent"
    BY DEF Deduplicate, IntakeInv, PendingInv, Pending
<1>1. PICK hit \in Stored(forms[s].key) :
        SetForm(s, [NoForm EXCEPT !.step = "answered", !.key = forms[s].key, !.answer = hit])
    BY DEF Deduplicate
<1>2. hit \in Submissions
    BY DEF Stored
<1>3. PICK row \in FormRow :
        row = [NoForm EXCEPT !.step = "answered", !.key = forms[s].key, !.answer = hit]
    BY <1>0, <1>2 DEF NoForm, FormRow, Kinds
<1>4. row.step = "answered" /\ row.key = forms[s].key /\ row.answer = hit
    BY <1>3 DEF NoForm
<1>5. Stored(forms[s].key) = {hit}
    <2>1. Stored(forms[s].key) \subseteq Submissions
        BY DEF Stored
    <2>2. \A t \in Stored(forms[s].key) : t = hit
        BY <1>0, <1>2, <2>1 DEF IntakeInv, KeyInv
    <2> QED
        BY <2>2
<1> QED
    BY <1>0, <1>1, <1>3, <1>4, <1>5, FormWritten DEF Deduplicate

\* The deliveries of a route are to the destinations of its policy.
LEMMA RouteGoes ==
  ASSUME IntakeInv, NEW p \in PolicyIds \cup {NoPolicy}
  PROVE  RouteOf(p) \subseteq Delivery /\ Goes(RouteOf(p), p)
<1>1. /\ \A t, q : Created(t, q).target = t /\ Created(t, q).policy = q
      /\ \A t \in LeadChannels \cup {"global_smtp_default"} : \A q \in PolicyIds \cup {NoPolicy} :
           Created(t, q) \in Delivery
    BY DEF Created, Delivery
<1>2. CASE p = NoPolicy
    <2>1. RouteOf(p) = {Created("global_smtp_default", NoPolicy)}
        BY <1>2 DEF RouteOf
    <2>2. ToDefault(RouteOf(p))
        BY <1>1, <2>1 DEF ToDefault
    <2> QED
        BY <1>1, <1>2, <2>1, <2>2 DEF Goes
<1>3. CASE p # NoPolicy
    <2>1. policies[p] \in PolicyRow
        BY <1>3, IntakeTypes DEF IntakeInv
    <2>2. policies[p].channels \subseteq LeadChannels
        BY <2>1 DEF PolicyRow
    <2> DEFINE byDefault == IF policies[p].mode = "append_global"
                            THEN {Created("global_smtp_default", NoPolicy)} ELSE {}
               byPolicy == {Created(c, p) : c \in policies[p].channels}
    <2>3. RouteOf(p) = byDefault \cup byPolicy
        BY <1>3 DEF RouteOf
    <2>4. RouteOf(p) \subseteq Delivery
        BY <1>1, <2>2, <2>3
    <2>5. {<<d.target, d.policy>> : d \in byPolicy} = {<<c, p>> : c \in policies[p].channels}
        <3>1. \A c \in policies[p].channels : <<Created(c, p).target, Created(c, p).policy>> = <<c, p>>
            BY <1>1
        <3>2. {<<d.target, d.policy>> : d \in byPolicy}
                = {<<Created(c, p).target, Created(c, p).policy>> : c \in policies[p].channels}
            OBVIOUS
        <3> HIDE DEF byPolicy
        <3> QED
            BY <3>1, <3>2
    <2>6. {<<d.target, d.policy>> : d \in byDefault}
            = {<<t, NoPolicy>> : t \in IF policies[p].mode = "append_global" THEN {"global_smtp_default"} ELSE {}}
        BY <1>1
    <2>7. {<<d.target, d.policy>> : d \in RouteOf(p)}
            = {<<d.target, d.policy>> : d \in byPolicy} \cup {<<d.target, d.policy>> : d \in byDefault}
        BY <2>3
    <2>8. ToPolicy(RouteOf(p), p, policies[p].mode, policies[p].channels)
        BY <2>5, <2>6, <2>7, Zenon DEF ToPolicy
    <2> QED
        BY <1>3, <2>4, <2>8 DEF Goes
<1> QED
    BY <1>2, <1>3

LEMMA StoreLeadKeeps ==
  ASSUME IntakeInv, NEW s \in Submissions, StoreLead(s)
  PROVE  IntakeInv'
<1>t. /\ forms[s] \in FormRow /\ forms \in [Submissions -> FormRow] /\ leads \in [Submissions -> LeadRow]
    BY IntakeTypes DEF IntakeInv
<1>0. /\ forms[s].step = "routed" /\ forms[s].key \in FormKeys /\ \A p \in forms[s].seen : Made(p)
      /\ forms[s].kind # "spam" => forms[s].policy \in forms[s].seen
      /\ leads[s].status = "none"
    BY DEF StoreLead, IntakeInv, PendingInv, KeyInv, Pending
<1>k. forms[s].policy \in PolicyIds \cup {NoPolicy} /\ forms[s].kind \in Kinds
      /\ forms[s].seen \subseteq PolicyIds \cup {NoPolicy}
    BY <1>t DEF FormRow
<1>d. PICK sent \in SUBSET Delivery : sent = IF forms[s].kind = "spam" THEN {} ELSE RouteOf(forms[s].policy)
    BY <1>k, RouteGoes
<1>1. PICK lead \in LeadRow :
        lead = [key |-> forms[s].key, status |-> forms[s].kind, kind |-> forms[s].kind,
                seen |-> forms[s].seen, deliveries |-> sent]
    BY <1>0, <1>k, <1>d DEF LeadRow
<1>2. /\ lead.key = forms[s].key /\ lead.status # "none" /\ lead.kind = forms[s].kind
      /\ lead.seen = forms[s].seen /\ lead.deliveries = sent
    BY <1>1, <1>k DEF Kinds
<1>3. /\ leads' = [leads EXCEPT ![s] = lead]
      /\ SetForm(s, [NoForm EXCEPT !.step = "answered", !.key = forms[s].key, !.answer = s])
      /\ UNCHANGED <<policies, smtp, activations>>
    BY <1>d, <1>1 DEF StoreLead
<1>4. PICK row \in FormRow : row = [NoForm EXCEPT !.step = "answered", !.key = forms[s].key, !.answer = s]
    BY <1>0 DEF NoForm, FormRow, Kinds
<1>5. row.step = "answered" /\ row.key = forms[s].key /\ row.answer = s
    BY <1>4 DEF NoForm
<1>6. /\ forms' \in [Submissions -> FormRow] /\ forms'[s] = row
      /\ \A t \in Submissions : t # s => forms'[t] = forms[t]
    BY <1>3, <1>4, <1>t DEF SetForm
<1>7. /\ leads' \in [Submissions -> LeadRow] /\ leads'[s] = lead
      /\ \A t \in Submissions : t # s => leads'[t] = leads[t]
    BY <1>3, <1>t
<1>8. IntakeTypeOK'
    BY <1>3, <1>6, <1>7 DEF IntakeInv, IntakeTypeOK, FormRow, LeadRow
<1>9. PendingInv'
    BY <1>3, <1>5, <1>6 DEF IntakeInv, PendingInv, Pending, InForce, ActivePolicies, Made
<1>10. \A k : (Stored(k) \cup InFlight(k))' = Stored(k) \cup InFlight(k)
    BY <1>0, <1>2, <1>5, <1>6, <1>7 DEF Stored, InFlight
<1>11. \A k : Stored(k)' = IF k = forms[s].key THEN Stored(k) \cup {s} ELSE Stored(k)
    BY <1>0, <1>2, <1>7 DEF Stored
<1>12. Stored(forms[s].key) = {}
    <2>1. s \in InFlight(forms[s].key)
        BY <1>0 DEF InFlight
    <2>2. \A t \in Stored(forms[s].key) : t \in Submissions /\ t = s
        BY <1>0, <2>1 DEF IntakeInv, KeyInv, Stored
    <2> QED
        BY <1>0, <2>2 DEF Stored
<1>13. KeyInv'
    <2>1. ASSUME NEW t \in Submissions
          PROVE  /\ leads'[t].status # "none" => forms'[t].step = "answered"
                 /\ forms'[t].step # "answered" => forms'[t].answer = "none"
                 /\ forms'[t].answer \in Submissions =>
                      forms'[t].key \in FormKeys /\ (Stored(forms[t].key) = {forms[t].answer})'
        <3>1. CASE t = s
            BY <1>0, <1>5, <1>6, <1>11, <1>12, <3>1
        <3>2. CASE t # s
            <4>1. forms'[t] = forms[t] /\ leads'[t] = leads[t]
                BY <1>6, <1>7, <3>2
            <4>2. forms[t].answer \in Submissions => forms[t].key # forms[s].key
                BY <1>12 DEF IntakeInv, KeyInv
            <4> QED
                BY <1>11, <4>1, <4>2 DEF IntakeInv, KeyInv
        <3> QED
            BY <3>1, <3>2
    <2> QED
        BY <1>10, <2>1 DEF IntakeInv, KeyInv
<1>14. RoutedInv'
    <2>1. \A p : Made(p)' <=> Made(p)
        BY <1>3 DEF Made
    <2>2. ASSUME NEW t \in Submissions, leads'[t].status # "none"
          PROVE  /\ leads'[t].key \in FormKeys /\ \A p \in leads'[t].seen : Made(p)'
                 /\ (leads[t].kind # "spam" => \E p \in leads[t].seen : Goes(leads[t].deliveries, p))'
        <3>1. CASE t = s
            <4>1. forms[s].kind # "spam" => Goes(sent, forms[s].policy)
                BY <1>d, <1>k, RouteGoes
            <4>2. PICK p \in PolicyIds \cup {NoPolicy} : p = forms[s].policy
                BY <1>k
            <4>3. forms[s].kind # "spam" => (Goes(leads[t].deliveries, p))'
                BY <1>2, <1>3, <1>7, <3>1, <4>1, <4>2 DEF Goes
            <4> QED
                BY <1>0, <1>2, <1>7, <2>1, <3>1, <4>2, <4>3
        <3>2. CASE t # s
            BY <1>3, <1>7, <2>1, <2>2, <3>2 DEF IntakeInv, RoutedInv, Goes
        <3> QED
            BY <3>1, <3>2
    <2> QED
        BY <2>2 DEF RoutedInv
<1> QED
    BY <1>8, <1>9, <1>13, <1>14 DEF IntakeInv

LEMMA UpdateLeadKeeps ==
  ASSUME IntakeInv, NEW s \in Submissions, NEW status \in Kinds, UpdateLead(s, status)
  PROVE  IntakeInv'
<1>t. leads \in [Submissions -> LeadRow] /\ leads[s] \in LeadRow
    BY IntakeTypes DEF IntakeInv
<1>1. PICK lead \in LeadRow : lead = [leads[s] EXCEPT !.status = status]
    BY <1>t DEF LeadRow
<1>2. /\ lead.status = status /\ status # "none" /\ leads[s].status # "none" /\ lead.key = leads[s].key
      /\ lead.kind = leads[s].kind /\ lead.seen = leads[s].seen /\ lead.deliveries = leads[s].deliveries
    BY <1>t, <1>1 DEF LeadRow, Kinds, UpdateLead
<1>3. leads' = [leads EXCEPT ![s] = lead] /\ UNCHANGED <<policies, smtp, activations, forms>>
    BY <1>1 DEF UpdateLead
<1>4. /\ leads' \in [Submissions -> LeadRow]
      /\ \A t \in Submissions :
           /\ leads'[t].status # "none" <=> leads[t].status # "none"
           /\ leads'[t].key = leads[t].key /\ leads'[t].kind = leads[t].kind
           /\ leads'[t].seen = leads[t].seen /\ leads'[t].deliveries = leads[t].deliveries
    BY <1>2, <1>3, <1>t
<1>5. IntakeTypeOK'
    BY <1>3, <1>4 DEF IntakeInv, IntakeTypeOK, LeadRow
<1>6. PendingInv'
    BY <1>3 DEF IntakeInv, PendingInv, Pending, InForce, ActivePolicies, Made
<1>7. KeyInv'
    <2>1. \A k : Stored(k)' = Stored(k) /\ InFlight(k)' = InFlight(k)
        BY <1>3, <1>4 DEF Stored, InFlight
    <2> QED
        BY <1>3, <1>4, <2>1 DEF IntakeInv, KeyInv
<1>8. Same
    BY <1>3 DEF Same
<1>9. RoutedInv'
    BY <1>4, <1>8, RoutedStays
<1> QED
    BY <1>5, <1>6, <1>7, <1>9 DEF IntakeInv

LEMMA IntakeStepInv == IntakeInv /\ [IntakeNext]_intakeVars => IntakeInv'
<1> SUFFICES ASSUME IntakeInv, [IntakeNext]_intakeVars PROVE IntakeInv'
    OBVIOUS
<1>1. CASE UNCHANGED intakeVars
    BY <1>1 DEF intakeVars, IntakeInv, IntakeTypeOK, PendingInv, Pending, InForce, ActivePolicies, Made,
                KeyInv, Stored, InFlight, RoutedInv, Goes
<1>2. CASE IntakeNext
    BY <1>2, TransportKeeps, PoliciesKeep, ActivationsKeep, ActivatePolicyKeeps, ReceiveKeeps, RefuseKeeps,
       InsertKeeps, DeduplicateKeeps, StoreLeadKeeps, UpdateLeadKeeps
    DEF IntakeNext
<1> QED
    BY <1>1, <1>2

LEMMA IntakeInvariant == IntakeSpec => []IntakeInv
BY IntakeInitInv, IntakeStepInv, PTL DEF IntakeSpec

-----------------------------------------------------------------------------
(* Theorems about LeadIntake.                                               *)

\* Every variable has its type, for any policies, approvers and submissions.
THEOREM IntakeTypeCorrect == IntakeSpec => []IntakeTypeOK
<1>1. IntakeInv => IntakeTypeOK
    BY DEF IntakeInv
<1> QED
    BY IntakeInvariant, <1>1, PTL

\* LeadRouted: a visitor who was told that the lead arrived has one lead under
\* the key of the form, and it went where one policy says that was in force
\* while it was received (create_public_lead, activate_lead_routing_policy).
THEOREM LeadsRouted == IntakeSpec => []LeadRouted
<1>1. ASSUME IntakeInv
      PROVE  LeadRouted
    <2>1. ASSUME NEW s \in Submissions, forms[s].answer \in Submissions
          PROVE  LET lead == leads[forms[s].answer] IN
                 /\ Stored(forms[s].key) = {forms[s].answer}
                 /\ lead.kind # "spam" => \E p \in lead.seen : Whole(lead, p)
        <3>1. Stored(forms[s].key) = {forms[s].answer}
            BY <1>1, <2>1 DEF IntakeInv, KeyInv
        <3>2. leads[forms[s].answer].status # "none"
            BY <3>1 DEF Stored
        <3>3. \A p : Goes(leads[forms[s].answer].deliveries, p) => Whole(leads[forms[s].answer], p)
            BY DEF Goes, ToDefault, ToPolicy, Whole
        <3> QED
            BY <1>1, <2>1, <3>1, <3>2, <3>3 DEF IntakeInv, RoutedInv
    <2> QED
        BY <2>1 DEF LeadRouted
<1> QED
    BY IntakeInvariant, <1>1, PTL
=============================================================================
