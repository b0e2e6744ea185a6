----------------------------- MODULE MCScheduler -----------------------------
(***************************************************************************)
(* Small instances of Scheduler for TLC.  Jobs are numbers: 1 is a         *)
(* candidate build, 2 a crawl, 3 a Bukvarix run; 2 has a project of its    *)
(* own, the others share one.                                              *)
(***************************************************************************)
EXTENDS Scheduler

MCTypes == <<"site_build", "competitor_crawl", "bukvarix_keyword">>
MCTypeOf == [j \in Jobs |-> MCTypes[j]]
MCTwoProjects == [j \in Jobs |-> IF j = 2 THEN 2 ELSE 1]
=============================================================================
