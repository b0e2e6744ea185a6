---------------------------- MODULE SpendLedger ----------------------------
(***************************************************************************)
(* What the budget of a tenant promises: the estimates committed in the    *)
(* window never exceed the limit.  An estimate is committed once, before   *)
(* the provider is called, and may be given back in part when the bill     *)
(* turns out lower (services/ai_budget.py).                                *)
(***************************************************************************)
EXTENDS Integers

CONSTANT Limit

VARIABLE committed

LedgerInit == committed = 0

Commit == committed' > committed /\ committed' <= Limit
GiveBack == committed' \in Nat /\ committed' < committed

LedgerNext == Commit \/ GiveBack

LedgerSpec == LedgerInit /\ [][LedgerNext]_committed
=============================================================================
