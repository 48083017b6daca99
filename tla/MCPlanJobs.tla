----------------------------- MODULE MCPlanJobs -----------------------------
(* Small plans with the jobs of their steps, for TLC.                      *)
EXTENDS PlanJobs

(* A title and slides, composed by the last step (the mock's slideshow).   *)
Fan == [i \in 1..3 |-> IF i = 3 THEN {1, 2} ELSE {}]

(* The slides go into the list params.asset_ids.                           *)
SlidesInList == {<<3, 2>>}
=============================================================================
