---------------------------- MODULE MCLeadDelivery ----------------------------
(***************************************************************************)
(* Small instances of LeadDelivery for TLC: two targets of one lead and    *)
(* two executor sessions.                                                  *)
(***************************************************************************)
EXTENDS LeadDelivery
=============================================================================
