----------------------------- MODULE MCContent ------------------------------
(***************************************************************************)
(* What a page may say and when it may be indexed, in one run: the         *)
(* planning of pages and the index schedules share no state, so part is    *)
(* chosen in the initial state and only the actions of that component are  *)
(* taken. The graph is the disjoint union of the two graphs. One page with *)
(* two contents and one with one content can be indexed.                   *)
(***************************************************************************)
EXTENDS Planning, IndexSchedule, TLC

CONSTANTS home, repair, c1, c2, c3

MCPages == {[slug |-> home, hash |-> c1], [slug |-> home, hash |-> c2], [slug |-> repair, hash |-> c3]}
\* The two contents of one page are interchangeable.
Symmetry == Permutations({c1, c2})

VARIABLE part

ContentInit == part \in {"planning", "index"} /\ Init /\ IndexInit
ContentNext == \/ part = "planning" /\ Next /\ UNCHANGED <<part, indexVars>>
               \/ part = "index" /\ IndexNext /\ UNCHANGED <<part, vars>>
ContentSpec == ContentInit /\ [][ContentNext]_<<part, vars, indexVars>>
=============================================================================
