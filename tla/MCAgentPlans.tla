---------------------------- MODULE MCAgentPlans ----------------------------
(* Small plans for TLC.                                                    *)
EXTENDS AgentPlans, TLC

One == [i \in 1..1 |-> {}]

(* Two steps, the second uses the first's output.                          *)
Chain == [i \in 1..2 |-> IF i = 2 THEN {1} ELSE {}]

None == {}

(* Approvals are interchangeable; used where no liveness is checked.       *)
SymApprovals == Permutations(Approval)
=============================================================================
