--------------------------- MODULE MCPaperGateway ---------------------------
(* Instances of PaperGateway for TLC. *)
EXTENDS PaperGateway, TLC

CONSTANTS a, b, p, q

\* Two entries of 60 won: of the first capital, one fits; after a cancel that left
\* the other half filled, both do.
AllKeys == {a, b}
EntryKeys == {a, b}
TwoCalls == {p, q}
Prices == [k \in AllKeys |-> 30]
\* A loss, and a profit that crosses two milestones; the first capital is the limit.
SomeEquities == {80, 121}
Symmetry == Permutations(TwoCalls) \cup Permutations(EntryKeys)
=============================================================================
