--------------------------- MODULE BudgetedOrder ---------------------------
(***************************************************************************)
(* An automatic live entry as the budget sees it: as much of its row as a  *)
(* reservation looks at, and what the broker has of it.  The orders of     *)
(* LiveBudget are such orders, and so is the order of the pipeline         *)
(* (AtomicOrder, hence OrderExecution): what LiveBudget lets happen to an  *)
(* order after its intent is what the pipeline may make of it.             *)
(***************************************************************************)
VARIABLES
  row,    \* state, claimed, intent, filled and closed, as in LiveBudget
  truth   \* what the broker has of the order

Terminal == {"FILLED", "CANCELED", "REJECTED"}

Init ==
  /\ row = [state |-> "SUBMITTED", claimed |-> FALSE, intent |-> FALSE, filled |-> FALSE, closed |-> FALSE]
  /\ truth = "none"

-----------------------------------------------------------------------------
(* Up to the intent: execute.                                              *)

Unsent == row.state = "SUBMITTED" /\ ~row.intent

Claim        == Unsent /\ row' = [row EXCEPT !.claimed = TRUE] /\ UNCHANGED truth
RecordIntent == Unsent /\ row.claimed /\ row' = [row EXCEPT !.intent = TRUE] /\ UNCHANGED truth
Refuse       == Unsent /\ row' = [row EXCEPT !.state = "REJECTED"] /\ UNCHANGED truth
Post         == row.intent /\ truth = "none" /\ truth' = "working" /\ UNCHANGED row

-----------------------------------------------------------------------------
(* The rest of the pipeline, and the broker.                               *)

\* What may be recorded of an open order.  At any time: its recovery, with the
\* intent whose write was lost, and its cancel.
AtAnyTime ==
  {[row EXCEPT !.state = "RECOVERY_REQUIRED", !.intent = i] : i \in {row.intent, row.claimed}}
    \cup {[row EXCEPT !.state = "CANCEL_REQUESTED"]}

\* What a picture of the order makes of the row, which may be an older one.
PartWith(c) == {[row EXCEPT !.state = s, !.filled = TRUE, !.closed = c] :
                  s \in {"PARTIALLY_FILLED", "RECOVERY_REQUIRED"}}
Part    == PartWith(row.closed) \cup PartWith(FALSE)
Whole   == {[row EXCEPT !.state = "FILLED", !.filled = TRUE, !.closed = FALSE]}
Stub    == {[row EXCEPT !.state = "CANCELED", !.filled = TRUE]}
Nothing == {[row EXCEPT !.state = s] : s \in {"CANCELED", "REJECTED"}}

Reported ==
  (IF truth \in {"partial", "filled", "stub"} THEN Part ELSE {})
    \cup (IF truth = "filled" THEN Whole ELSE {})
    \cup (IF truth = "stub" THEN Stub ELSE {})
    \cup (IF truth = "over" THEN Nothing ELSE {})

\* The acknowledgement may be recorded until a fill is.
Recorded ==
  AtAnyTime \cup Reported
    \cup (IF truth # "none" /\ ~row.filled THEN {[row EXCEPT !.state = "ACCEPTED"]} ELSE {})

Record == row.state \notin Terminal /\ row' \in Recorded /\ UNCHANGED truth

\* A position that is sold is recorded so; a whole one is over with it.
Owned == row.state \in {"PARTIALLY_FILLED", "FILLED"} /\ ~row.closed
Sold  == IF row.state = "FILLED" THEN "over" ELSE truth

RecordExit == Owned /\ row' = [row EXCEPT !.closed = TRUE] /\ truth' = Sold

\* What the broker may make of the order.
Moves ==
  CASE truth = "working" -> {"partial", "filled", "over"}
    [] truth = "partial" -> {"filled", "stub"}
    [] OTHER             -> {}

Broker == truth' \in Moves /\ UNCHANGED row

Next == Claim \/ RecordIntent \/ Refuse \/ Post \/ Record \/ RecordExit \/ Broker

Spec == Init /\ [][Next]_<<row, truth>>
=============================================================================
