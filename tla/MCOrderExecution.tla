-------------------------- MODULE MCOrderExecution --------------------------
(* Instances of OrderExecution for TLC. *)
EXTENDS OrderExecution, TLC

CONSTANTS a, b

Both == {a, b}
OnlyA == {a}
OnlyB == {b}
None == {}
=============================================================================
