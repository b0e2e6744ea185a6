---------------------------- MODULE MCPageDrafts ----------------------------
(* A small instance of PageDrafts: addresses and contents are model values. *)
EXTENDS PageDrafts, TLC

Symmetry == Permutations(Slugs) \cup Permutations(Content)
=============================================================================
