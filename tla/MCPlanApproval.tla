--------------------------- MODULE MCPlanApproval ---------------------------
(* Instances of PlanApproval for TLC: one call of each kind. *)
EXTENDS PlanApproval

CONSTANTS c, w, a, i, s

Nobody == {}
Composer == {c}
Worker == {w}
Approver == {a}
Invalidator == {i}
Stopper == {s}
=============================================================================
