------------------------------ MODULE MCRelease ------------------------------
(***************************************************************************)
(* Small instances of Release for TLC: builds are numbers, 1 and 3 are of  *)
(* unchanged input and have one hash.                                      *)
(***************************************************************************)
EXTENDS Release, TLC

MCHashes == {"a", "b"}
MCHashOf == [b \in Builds |-> IF b = 2 THEN "b" ELSE "a"]
MCSymmetry == Permutations(Requests)
=============================================================================
