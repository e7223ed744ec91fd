---------------------------- MODULE MCLiveBudget ----------------------------
(* Instances of LiveBudget for TLC. *)
EXTENDS LiveBudget, TLC

CONSTANTS a, b, old, p, q

\* The fill from before the reservations has a's instrument; all three together
\* are over every limit, and b fits with one of the others only under the larger.
AllOrders == {a, b, old}
OldOrders == {old}
TwoExecutors == {p, q}
Amounts == a :> 1 @@ b :> 2 @@ old :> 1
Instruments == a :> "x" @@ b :> "y" @@ old :> "x"
\* Under the smaller limit b is out of the question once anything else is in; a
\* limit of 0, a stop, would refuse every order alike.
Limits == {2, 3}
Symmetry == Permutations(TwoExecutors)
=============================================================================
