----------------------------- MODULE LeadIntake -----------------------------
(***************************************************************************)
(* Reception of public leads (api/v1/leads.py) and the routing policies    *)
(* that decide where a lead goes (api/v1/lead_routing.py).                 *)
(*                                                                         *)
(* A submission is one transaction: it inserts the lead unless its         *)
(* idempotency key is taken, reads the active policy, creates the          *)
(* deliveries and commits; a browser sends a lost submission again with    *)
(* the same key.  An activation locks its policy, looks for the active one *)
(* and waits for its row.  A policy is known by its id, a random UUID: a   *)
(* flush writes rows in the order of their ids, and the partial unique     *)
(* index on the active policies of a site is checked row by row.           *)
(*                                                                         *)
(* What becomes of a delivery once it is created is LeadDelivery.          *)
(***************************************************************************)
EXTENDS Naturals, FiniteSets

CONSTANTS
  PolicyIds,    \* ids of LeadRoutingPolicy rows, as numbers in their order
  Approvers,    \* operators with an activation in flight
  Submissions,  \* public requests; a lead has the name of its submission
  FormKeys,     \* idempotency keys: one form of one page view each
  Routes        \* delivery modes and destinations that operators draft

NoPolicy == 0
LeadChannels == {"email", "webhook"}
Modes == {"append_global", "replace_global"}

\* LeadRoutingPolicyCreate asks for a destination; an answer that names no lead
\* is none, and a missing key is no key.
ASSUME IntakeAssumption ==
  /\ PolicyIds \subseteq Nat \ {0}
  /\ Submissions \cap {"none", "refused", "suppressed"} = {} /\ "none" \notin FormKeys
  /\ Routes \subseteq [mode : Modes, channels : (SUBSET LeadChannels) \ {{}}]

VARIABLES
  policies,     \* LeadRoutingPolicy rows with their destinations
  smtp,         \* the central SMTP transport is configured and enabled
  activations,  \* approver -> its activation
  forms,        \* submission -> its request
  leads         \* Lead rows with their deliveries

intakeVars == <<policies, smtp, activations, forms, leads>>

PolicyStates == {"none", "draft", "review", "active", "superseded", "rejected"}
\* Of a lead's statuses those that are not "spam" are one.
Kinds == {"new", "spam"}
NoRow == [state |-> "none", mode |-> "append_global", channels |-> {}]
NotActivating == [step |-> "idle", policy |-> NoPolicy, current |-> NoPolicy]
NoForm == [step |-> "idle", key |-> "none", kind |-> "new", policy |-> NoPolicy,
           seen |-> {}, answer |-> "none"]
NoLead == [key |-> "none", status |-> "none", kind |-> "new", seen |-> {},
           deliveries |-> {}]

Delivery == [target : LeadChannels \cup {"global_smtp_default"},
             policy : PolicyIds \cup {NoPolicy}, status : {"queued", "dead_letter"}]

IntakeTypeOK ==
  /\ policies \in [PolicyIds -> [state : PolicyStates, mode : Modes,
                                 channels : SUBSET LeadChannels]]
  /\ smtp \in BOOLEAN
  /\ activations \in [Approvers -> [step : {"idle", "checked", "looked"},
                                    policy : PolicyIds \cup {NoPolicy},
                                    current : PolicyIds \cup {NoPolicy}]]
  /\ forms \in [Submissions ->
       [step : {"idle", "sent", "inserted", "routed", "answered"},
        key : FormKeys \cup {"none"}, kind : Kinds, policy : PolicyIds \cup {NoPolicy},
        seen : SUBSET (PolicyIds \cup {NoPolicy}),
        answer : Submissions \cup {"none", "refused", "suppressed"}]]
  /\ leads \in [Submissions ->
       [key : FormKeys \cup {"none"}, status : Kinds \cup {"none"}, kind : Kinds,
        seen : SUBSET (PolicyIds \cup {NoPolicy}), deliveries : SUBSET Delivery]]

IntakeInit ==
  /\ policies = [p \in PolicyIds |-> NoRow] /\ smtp = FALSE
  /\ activations = [a \in Approvers |-> NotActivating]
  /\ forms = [s \in Submissions |-> NoForm]
  /\ leads = [s \in Submissions |-> NoLead]

ActivePolicies == {p \in PolicyIds : policies[p].state = "active"}
\* The policy in force, read by a statement of its own.
InForce == IF ActivePolicies = {} THEN {NoPolicy} ELSE ActivePolicies
Locked(p) == \E a \in Approvers : activations[a].policy = p

-----------------------------------------------------------------------------
(* The central transport.                                                  *)

ConfigureTransport ==
  ~smtp /\ smtp' = TRUE /\ UNCHANGED <<policies, activations, forms, leads>>

DisableTransport ==
  smtp /\ smtp' = FALSE /\ UNCHANGED <<policies, activations, forms, leads>>

(* The life of a policy.                                                   *)

\* Versions of a project are unique: of two creations that overlap one fails.
CreatePolicy(p) ==
  /\ policies[p].state = "none"
  /\ \E route \in Routes :
        policies' = [policies EXCEPT ![p] =
          [state |-> "draft", mode |-> route.mode, channels |-> route.channels]]
  /\ UNCHANGED <<smtp, activations, forms, leads>>

DecidePolicy(p, from, to) ==
  /\ policies[p].state = from /\ ~Locked(p)
  /\ policies' = [policies EXCEPT ![p].state = to]
  /\ UNCHANGED <<smtp, activations, forms, leads>>

SubmitPolicy(p) == DecidePolicy(p, "draft", "review")
RejectPolicy(p) == DecidePolicy(p, "review", "rejected")

\* activate_lead_routing_policy locks its row and asks for the transport.
NeedsTransport(p) ==
  policies[p].mode = "append_global" \/ "email" \in policies[p].channels

CheckPolicy(a, p) ==
  /\ activations[a].step = "idle" /\ ~Locked(p)
  /\ policies[p].state = "review" /\ policies[p].channels # {}
  /\ NeedsTransport(p) => smtp
  /\ activations' = [activations EXCEPT ![a] =
       [step |-> "checked", policy |-> p, current |-> NoPolicy]]
  /\ UNCHANGED <<policies, smtp, forms, leads>>

\* The active policy as the SELECT ... FOR UPDATE finds it.
LookForActive(a) ==
  /\ activations[a].step = "checked"
  /\ \E p \in InForce :
        activations' = [activations EXCEPT ![a].step = "looked", ![a].current = p]
  /\ UNCHANGED <<policies, smtp, forms, leads>>

\* The row it waited for is left out if it is no longer active.
SupersededPolicy(a) == {activations[a].current} \cap ActivePolicies

\* uq_lead_routing_policy_active_site at the flush of both rows.
IndexAllows(a, p) ==
  /\ ActivePolicies \subseteq SupersededPolicy(a)
  /\ \A q \in SupersededPolicy(a) : q < p

ActivatePolicy(a) ==
  LET p == activations[a].policy IN
  /\ activations[a].step = "looked" /\ IndexAllows(a, p)
  /\ policies' = [q \in PolicyIds |->
       IF q = p THEN [policies[q] EXCEPT !.state = "active"]
       ELSE IF q \in SupersededPolicy(a) THEN [policies[q] EXCEPT !.state = "superseded"]
       ELSE policies[q]]
  /\ activations' = [activations EXCEPT ![a] = NotActivating]
  /\ forms' = [s \in Submissions |->
       IF forms[s].step \in {"sent", "inserted", "routed"}
       THEN [forms[s] EXCEPT !.seen = @ \cup {p}] ELSE forms[s]]
  /\ UNCHANGED <<smtp, leads>>

\* The index refuses the flush, or the process dies; nothing is written.
ActivationFails(a) ==
  /\ activations[a].step # "idle"
  /\ activations' = [activations EXCEPT ![a] = NotActivating]
  /\ UNCHANGED <<policies, smtp, forms, leads>>

-----------------------------------------------------------------------------
(* create_public_lead.                                                     *)

SetForm(s, row) == forms' = [forms EXCEPT ![s] = row]

\* Rate limit, time lock, consent, site token and captcha let it pass.
Receive(s, k) ==
  /\ forms[s].step = "idle"
  /\ \E kind \in Kinds :
        SetForm(s, [NoForm EXCEPT !.step = "sent", !.key = k, !.kind = kind,
                                  !.seen = InForce])
  /\ UNCHANGED <<policies, smtp, activations, leads>>

\* One of them does not; the filled honeypot is answered like a success.
Refuse(s) ==
  /\ forms[s].step = "idle"
  /\ \E answer \in {"refused", "suppressed"} :
        SetForm(s, [NoForm EXCEPT !.step = "answered", !.answer = answer])
  /\ UNCHANGED <<policies, smtp, activations, leads>>

Stored(k) == {s \in Submissions : leads[s].key = k /\ leads[s].status # "none"}
InFlight(k) == {s \in Submissions : forms[s].key = k
                                    /\ forms[s].step \in {"inserted", "routed"}}

\* INSERT ... ON CONFLICT DO NOTHING waits for another insert of the key.
Untaken(k) == Stored(k) = {} /\ InFlight(k) = {}

Insert(s) ==
  /\ forms[s].step = "sent" /\ Untaken(forms[s].key)
  /\ SetForm(s, [forms[s] EXCEPT !.step = "inserted"])
  /\ UNCHANGED <<policies, smtp, activations, leads>>

Deduplicate(s) ==
  /\ forms[s].step = "sent"
  /\ \E hit \in Stored(forms[s].key) :
        SetForm(s, [NoForm EXCEPT !.step = "answered", !.key = forms[s].key,
                                  !.answer = hit])
  /\ UNCHANGED <<policies, smtp, activations, leads>>

\* Faulty variant: the newest policy an operator has submitted is taken.
RouteNewest ==
  LET submitted == {p \in PolicyIds : policies[p].state \in {"review", "active"}} IN
  IF submitted = {} THEN {NoPolicy}
  ELSE {p \in submitted : \A q \in submitted : q <= p}

\* active_routing_policy; two active policies would be an error.
RoutePolicy == {p \in InForce : Cardinality(ActivePolicies) <= 1}

\* A lead taken for spam is not routed.
ChooseRoute(s) ==
  /\ forms[s].step = "inserted"
  /\ IF forms[s].kind = "spam"
     THEN SetForm(s, [forms[s] EXCEPT !.step = "routed"])
     ELSE \E p \in RoutePolicy :
            SetForm(s, [forms[s] EXCEPT !.step = "routed", !.policy = p])
  /\ UNCHANGED <<policies, smtp, activations, leads>>

\* create_lead_deliveries: what the transport cannot take is dead at once.
Created(target, p) ==
  [target |-> target, policy |-> p,
   status |-> IF target = "webhook" \/ smtp THEN "queued" ELSE "dead_letter"]

RouteOf(p) ==
  (IF p = NoPolicy \/ (p # NoPolicy /\ policies[p].mode = "append_global")
   THEN {Created("global_smtp_default", NoPolicy)} ELSE {})
  \cup (IF p = NoPolicy THEN {} ELSE {Created(c, p) : c \in policies[p].channels})

StoreLead(s) ==
  /\ forms[s].step = "routed"
  /\ leads' = [leads EXCEPT ![s] =
       [key |-> forms[s].key, status |-> forms[s].kind, kind |-> forms[s].kind,
        seen |-> forms[s].seen,
        deliveries |-> IF forms[s].kind = "spam" THEN {} ELSE RouteOf(forms[s].policy)]]
  /\ SetForm(s, [NoForm EXCEPT !.step = "answered", !.key = forms[s].key, !.answer = s])
  /\ UNCHANGED <<policies, smtp, activations>>

\* The process dies or the statement fails: the lead was never stored.
FormLost(s) ==
  /\ forms[s].step \in {"sent", "inserted", "routed"}
  /\ SetForm(s, NoForm)
  /\ UNCHANGED <<policies, smtp, activations, leads>>

\* update_lead moves a lead to any status; its deliveries stay what they are.
UpdateLead(s, status) ==
  /\ leads[s].status \notin {"none", status}
  /\ leads' = [leads EXCEPT ![s].status = status]
  /\ UNCHANGED <<policies, smtp, activations, forms>>

IntakeNext ==
  \/ ConfigureTransport \/ DisableTransport
  \/ \E p \in PolicyIds : CreatePolicy(p) \/ SubmitPolicy(p) \/ RejectPolicy(p)
  \/ \E a \in Approvers :
       \/ LookForActive(a) \/ ActivatePolicy(a) \/ ActivationFails(a)
       \/ \E p \in PolicyIds : CheckPolicy(a, p)
  \/ \E s \in Submissions :
       \/ Refuse(s) \/ Insert(s) \/ Deduplicate(s) \/ ChooseRoute(s) \/ StoreLead(s)
       \/ FormLost(s)
       \/ \E k \in FormKeys : Receive(s, k)
       \/ \E status \in Kinds : UpdateLead(s, status)

IntakeSpec == IntakeInit /\ [][IntakeNext]_intakeVars

-----------------------------------------------------------------------------
\* The deliveries of a lead are those of policy p, all of them.
Whole(lead, p) ==
  LET targets == {<<d.target, d.policy>> : d \in lead.deliveries}
      append == policies[p].mode = "append_global" IN
  IF p = NoPolicy THEN targets = {<<"global_smtp_default", NoPolicy>>}
  ELSE targets = {<<c, p>> : c \in policies[p].channels}
                 \cup {<<t, NoPolicy>> : t \in IF append THEN {"global_smtp_default"} ELSE {}}

\* A visitor who was told that the lead arrived has one lead under the key of
\* the form, however often the form was sent and whatever was lost; unless it
\* was taken for spam it goes to every destination of one policy, and of no
\* other, that was in force at some moment while it was received
\* (leads.py create_public_lead, lead_routing.py activate).
LeadRouted ==
  \A s \in Submissions : forms[s].answer \in Submissions =>
    LET lead == leads[forms[s].answer] IN
    /\ Stored(forms[s].key) = {forms[s].answer}
    /\ lead.kind # "spam" => \E p \in lead.seen : Whole(lead, p)

=============================================================================
