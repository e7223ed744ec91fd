-------------------------- MODULE MCOrderAmendment --------------------------
(* Instances of OrderAmendment for TLC. *)
EXTENDS OrderAmendment, TLC

CONSTANTS a, b, r1, r2

Both == {a, b}
OnlyA == {a}
TwoRequests == {r1, r2}
OneRequest == {r1}

\* The amenders play the same role.
Twins == Permutations(Both)
=============================================================================
