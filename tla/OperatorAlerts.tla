--------------------------- MODULE OperatorAlerts ---------------------------
(***************************************************************************)
(* Alerts to the operator of a tenant (services/operator_alerts.py): the   *)
(* mail transport and the recipient, the deliveries an alert opens, and    *)
(* the sweeps that lease, send and settle them.  Sweeps overlap, the       *)
(* worker may die between its commits, and an answer may be lost after the *)
(* provider has accepted the message.                                      *)
(***************************************************************************)
EXTENDS Naturals, Sequences, FiniteSets

CONSTANTS
  Senders,         \* sweeps that may run at once
  MaxDeliveries, MaxAttempts, MaxRevisions, MaxCrashes,
  OnTime           \* no dispatch outlives its lease

ASSUME AlertAssumption ==
  {MaxDeliveries, MaxAttempts, MaxRevisions, MaxCrashes} \subseteq Nat /\ OnTime \in BOOLEAN

VARIABLES
  transport,   \* the tenant's OperatorAlertTransport row
  recipient,   \* an OperatorAlertRecipient row exists
  deliveries,  \* AlertDelivery rows
  senders,     \* progress of each sweep
  crashes      \* bound on deaths of the worker

alertVars == <<transport, recipient, deliveries, senders, crashes>>

Channels == {"smtp", "api", "telegram"}
Ended == {"delivered", "dead_letter"}
Verdicts == {"ok", "refused", "unavailable", "timeout", "unknown"}

\* accepted: times the provider took the message; doubts: attempts whose
\* outcome the panel could not know.  Both are history.
DeliveryRow ==
  [channel : Channels, status : {"queued", "processing", "retrying"} \cup Ended,
   attempts : Nat, lease : BOOLEAN, revision : 0..MaxRevisions, accepted : Nat, doubts : Nat]
Resting == [step |-> "idle", todo |-> {}, delivery |-> 0, attempt |-> 0, verdict |-> "ok"]

AlertTypeOK ==
  /\ transport \in [kind : {"none", "smtp", "api"}, revision : 0..MaxRevisions,
                    smtp : BOOLEAN, api : BOOLEAN]
  /\ recipient \in BOOLEAN
  /\ deliveries \in Seq(DeliveryRow) /\ Len(deliveries) <= MaxDeliveries
  /\ senders \in [Senders ->
       [step : {"idle", "sweeping", "claimed", "sent"}, todo : SUBSET (1..MaxDeliveries),
        delivery : 0..MaxDeliveries, attempt : Nat, verdict : Verdicts]]
  /\ crashes \in 0..MaxCrashes

AlertInit ==
  /\ transport = [kind |-> "none", revision |-> 0, smtp |-> FALSE, api |-> FALSE]
  /\ recipient = FALSE /\ deliveries = <<>>
  /\ senders = [w \in Senders |-> Resting] /\ crashes = 0

-----------------------------------------------------------------------------
(* The operator's settings, each under the row's lock.                      *)

Ready(t) == (t.kind = "smtp" /\ t.smtp) \/ (t.kind = "api" /\ t.api)

\* Saved credentials are a new revision; activation is optional.
ConfigureSmtp(activate) ==
  /\ transport.revision < MaxRevisions
  /\ transport' = [transport EXCEPT !.smtp = TRUE, !.revision = @ + 1,
                     !.kind = IF activate THEN "smtp" ELSE @]
  /\ UNCHANGED <<recipient, deliveries, senders, crashes>>

ConfigureApi(activate) ==
  /\ transport.revision < MaxRevisions
  /\ transport' = [transport EXCEPT !.api = TRUE, !.revision = @ + 1,
                     !.kind = IF activate THEN "api" ELSE @]
  /\ UNCHANGED <<recipient, deliveries, senders, crashes>>

SelectTransport(kind) ==
  /\ 0 < transport.revision /\ transport.revision < MaxRevisions
  /\ kind # transport.kind
  /\ kind # "none" => Ready([transport EXCEPT !.kind = kind])
  /\ transport' = [transport EXCEPT !.kind = kind, !.revision = @ + 1]
  /\ UNCHANGED <<recipient, deliveries, senders, crashes>>

SetRecipient(configured) ==
  /\ recipient' = configured /\ configured # recipient
  /\ UNCHANGED <<transport, deliveries, senders, crashes>>

-----------------------------------------------------------------------------
\* create_operator_alert, in the transaction of what it reports: a mail
\* delivery for the transport of now, and one for Telegram where configured.
Opened(channel, revision) ==
  [channel |-> channel, status |-> "queued", attempts |-> 0, lease |-> FALSE,
   revision |-> revision, accepted |-> 0, doubts |-> 0]

CreateAlert(telegram) ==
  LET mail == IF recipient /\ Ready(transport)
              THEN <<Opened(transport.kind, transport.revision)>> ELSE <<>>
      chat == IF telegram THEN <<Opened("telegram", 0)>> ELSE <<>>
      new == mail \o chat
  IN  /\ new # <<>> /\ Len(deliveries) + Len(new) <= MaxDeliveries
      /\ deliveries' = deliveries \o new
      /\ UNCHANGED <<transport, recipient, senders, crashes>>

-----------------------------------------------------------------------------
(* A sweep: recover what lapsed, list what is due, take one after another.  *)

Lapsed(d) == deliveries[d].status = "processing" /\ ~deliveries[d].lease

RecoverLease(d) ==
  /\ Lapsed(d)
  /\ deliveries' = [deliveries EXCEPT ![d].status = "retrying"]
  /\ UNCHANGED <<transport, recipient, senders, crashes>>

ListDue(w) ==
  LET due == {d \in DOMAIN deliveries : deliveries[d].status \in {"queued", "retrying"}} IN
  /\ senders[w].step = "idle" /\ due # {}
  /\ senders' = [senders EXCEPT ![w] = [Resting EXCEPT !.step = "sweeping", !.todo = due]]
  /\ UNCHANGED <<transport, recipient, deliveries, crashes>>

\* Mutant of Claimable: whoever holds the lease.
ClaimableLeased(d) == deliveries[d].status \notin Ended

\* Read again under the row lock: not ended, and no lease that runs.
DeliveryClaimable(d) == deliveries[d].status \notin Ended /\ ~deliveries[d].lease

TakeNext(w) ==
  /\ senders[w].step = "sweeping"
  /\ IF senders[w].todo = {}
     THEN senders' = [senders EXCEPT ![w] = Resting] /\ UNCHANGED deliveries
     ELSE LET d == CHOOSE x \in senders[w].todo : \A y \in senders[w].todo : x <= y
              rest == senders[w].todo \ {d}
          IN  IF DeliveryClaimable(d)
              THEN /\ deliveries' = [deliveries EXCEPT ![d].status = "processing",
                                       ![d].attempts = @ + 1, ![d].lease = TRUE]
                   /\ senders' = [senders EXCEPT ![w] =
                        [@ EXCEPT !.step = "claimed", !.todo = rest, !.delivery = d,
                                  !.attempt = deliveries[d].attempts + 1]]
              ELSE /\ senders' = [senders EXCEPT ![w].todo = rest]
                   /\ UNCHANGED deliveries
  /\ UNCHANGED <<transport, recipient, crashes>>

\* What each channel may answer.  A lost answer is "timeout" for SMTP and
\* Telegram and "unknown" for the API; only a clear refusal says that the
\* message was not taken.
Answers(channel) ==
  {"ok", "refused", "unavailable"} \cup
  CASE channel = "smtp" -> {"timeout", "unknown"}
    [] channel = "api" -> {"unknown"}
    [] channel = "telegram" -> {"timeout"}

\* _dispatch: a mail goes out by the transport it was opened for or not at all.
Current(d) == \/ deliveries[d].channel = "telegram"
              \/ /\ transport.kind = deliveries[d].channel
                 /\ transport.revision = deliveries[d].revision
                 /\ recipient /\ Ready(transport)

Dispatch(w, verdict, taken) ==
  LET d == senders[w].delivery
      lost == verdict \in {"timeout", "unknown"} IN
  /\ senders[w].step = "claimed"
  /\ verdict \in IF Current(d) THEN Answers(deliveries[d].channel) ELSE {"refused"}
  /\ taken => (verdict = "ok" \/ lost)
  /\ verdict = "ok" => taken
  /\ senders' = [senders EXCEPT ![w].step = "sent", ![w].verdict = verdict]
  /\ deliveries' = [deliveries EXCEPT ![d].accepted = IF taken THEN @ + 1 ELSE @,
                                      ![d].doubts = IF lost THEN @ + 1 ELSE @]
  /\ UNCHANGED <<transport, recipient, crashes>>

\* Mutant of Retryable: an outcome nobody knows is tried again.
RetryableUnknown(verdict) == verdict \in {"unavailable", "timeout", "unknown"}

Retryable(verdict) == verdict \in {"unavailable", "timeout"}

\* The verdict is written over the row whoever holds it now; the attempt
\* number is the one this sweep claimed with, which its session still shows.
WriteVerdict(w) ==
  LET s == senders[w]
      status == CASE s.verdict = "ok" -> "delivered"
                  [] Retryable(s.verdict) /\ s.attempt < MaxAttempts -> "retrying"
                  [] OTHER -> "dead_letter"
  IN  /\ s.step = "sent"
      /\ deliveries' = [deliveries EXCEPT ![s.delivery].status = status, ![s.delivery].lease = FALSE]
      /\ senders' = [senders EXCEPT ![w] = [Resting EXCEPT !.step = "sweeping", !.todo = s.todo]]
      /\ UNCHANGED <<transport, recipient, crashes>>

\* The worker dies in a sweep; what it sent it sent.
CrashSender(w) ==
  /\ senders[w].step # "idle" /\ crashes < MaxCrashes
  /\ crashes' = crashes + 1
  /\ senders' = [senders EXCEPT ![w] = Resting]
  /\ deliveries' = IF senders[w].step \in {"claimed", "sent"}
                   THEN [deliveries EXCEPT ![senders[w].delivery].doubts = @ + 1] ELSE deliveries
  /\ UNCHANGED <<transport, recipient>>

\* 300 seconds pass.
LapseLease(d) ==
  /\ deliveries[d].lease
  /\ OnTime => \A w \in Senders : senders[w].step \in {"claimed", "sent"} => senders[w].delivery # d
  /\ deliveries' = [deliveries EXCEPT ![d].lease = FALSE]
  /\ UNCHANGED <<transport, recipient, senders, crashes>>

Sweeping ==
  \/ \E d \in DOMAIN deliveries : RecoverLease(d) \/ LapseLease(d)
  \/ \E w \in Senders :
       \/ ListDue(w) \/ TakeNext(w) \/ WriteVerdict(w)
       \/ \E verdict \in Verdicts, taken \in BOOLEAN : Dispatch(w, verdict, taken)

AlertNext ==
  \/ Sweeping
  \/ \E on \in BOOLEAN : ConfigureSmtp(on) \/ ConfigureApi(on) \/ SetRecipient(on) \/ CreateAlert(on)
  \/ \E kind \in {"none", "smtp", "api"} : SelectTransport(kind)
  \/ \E w \in Senders : CrashSender(w)

AlertSpec == AlertInit /\ [][AlertNext]_alertVars

-----------------------------------------------------------------------------
\* What the outbox shows of the rows.
ShownStatus(status) == CASE status = "delivered" -> "delivered"
                         [] status = "dead_letter" -> "given_up"
                         [] OTHER -> "open"
Shown(rows) == [d \in DOMAIN rows |-> ShownStatus(rows[d].status)]

\* While dispatches end within their leases, the deliveries implement the
\* outbox: no late verdict, recovery or second sweep reopens what has ended
\* (process_alert_delivery, recover_expired_alert_leases).
Box == INSTANCE Outbox WITH box <- Shown(deliveries)
WithinOutbox == Box!OutboxSpec

\* The operator gets a message twice only when an answer was lost or the
\* worker died, never because two sweeps ran at once or an outcome that may be
\* a success was tried again (_dispatch_smtp_bz_api).
TakenOnce == \A d \in DOMAIN deliveries :
  /\ deliveries[d].accepted <= 1 + deliveries[d].doubts
  /\ deliveries[d].channel = "api" /\ crashes = 0 => deliveries[d].accepted <= 1
=============================================================================
