---------------------------- MODULE MCRunControl ----------------------------
(* Instances of RunControl for TLC. *)
EXTENDS RunControl, TLC

CONSTANTS m, n, g, coin

TwoMembers == {m, n}
OneMember == {m}
OneGuard == {g}
NoGuard == {}
OnlyCoin == {coin}

\* The member's calls play the same roles.
Symmetry == Permutations(TwoMembers)
=============================================================================
