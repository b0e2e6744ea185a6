--------------------------- MODULE MCSiteIntegrity ---------------------------
(***************************************************************************)
(* Small instances of SiteIntegrity for TLC: two builds of different       *)
(* contents.                                                               *)
(***************************************************************************)
EXTENDS SiteIntegrity

MCHashes == {"a", "b"}
MCHashOf == [b \in Builds |-> IF b = 2 THEN "b" ELSE "a"]
=============================================================================
