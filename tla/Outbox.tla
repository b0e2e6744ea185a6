------------------------------- MODULE Outbox -------------------------------
(***************************************************************************)
(* What the alert deliveries promise: a delivery is opened once, stays     *)
(* open while it is tried, and ends once, delivered or given up            *)
(* (services/operator_alerts.py).                                          *)
(***************************************************************************)
EXTENDS Naturals, Sequences

VARIABLE box   \* the deliveries in the order they were opened

OutboxInit == box = <<>>

Open == \E new \in {1, 2} : box' = box \o [i \in 1..new |-> "open"]
End(d, how) == box[d] = "open" /\ box' = [box EXCEPT ![d] = how]

OutboxNext == Open \/ \E d \in DOMAIN box, how \in {"delivered", "given_up"} : End(d, how)

OutboxSpec == OutboxInit /\ [][OutboxNext]_box
=============================================================================
