---------------------------- MODULE AtomicOrder ----------------------------
(***************************************************************************)
(* The live order of OrderExecution as it would be if every call read the  *)
(* row, decided and wrote it back in one step: no copies, no versions, no  *)
(* lost writes and no leases, only the row and the broker.                 *)
(*                                                                         *)
(* OrderExecution implements it: transition_trade_order_atomic makes each  *)
(* write that applies a step from the row it replaces.  What the other     *)
(* components take for granted of an order is a property of this one.      *)
(***************************************************************************)
EXTENDS Naturals, TradeOrderStateMachine

CONSTANTS
  Qty,        \* the quantity ordered, in fill units
  LateFills   \* may the broker book a fill after it reported a cancel?

VARIABLES
  row,    \* the order's row, its ids reduced to whether they are set
  posts,  \* orders sent to the broker
  wire,   \* is the order on its way to the broker?
  prov    \* the order as the broker knows it

vars == <<row, posts, wire, prov>>

RetryLimit == 3

Rows == [ state     : OrderStates,
          claimed   : BOOLEAN,
          intent    : BOOLEAN,
          oid       : BOOLEAN,
          filled    : 0..Qty,
          retry     : 0..RetryLimit,
          manual    : BOOLEAN,
          canceling : BOOLEAN ]    \* a cancel claim is on record

Init ==
  /\ row = [ state |-> "SUBMITTED", claimed |-> FALSE, intent |-> FALSE, oid |-> FALSE,
             filled |-> 0, retry |-> 0, manual |-> FALSE, canceling |-> FALSE ]
  /\ posts = 0 /\ wire = FALSE
  /\ prov = [st |-> "absent", filled |-> 0]

\* Open and outside recovery.
Working == {"SUBMITTED", "ACCEPTED", "PARTIALLY_FILLED", "CANCEL_REQUESTED"}

-----------------------------------------------------------------------------
(* What a call may make of a row r; whoever cancels may note so with it.   *)

Noted(r) == {r, [r EXCEPT !.canceling = TRUE]}
Bump(n)  == IF n < RetryLimit THEN n + 1 ELSE n

\* One more failed attempt; a human takes over at the third, or at review.
Pending(r, review) ==
  [r EXCEPT !.state = "RECOVERY_REQUIRED", !.retry = Bump(@), !.manual = review \/ Bump(r.retry) >= RetryLimit]

\* A picture of the order that the broker may have given since the row was written.
Pictures ==
  {s \in [st : {"open", "filled", "canceled", "rejected"}, filled : row.filled .. prov.filled] :
     /\ prov.st # "absent"
     /\ s.st = "open" => s.filled < Qty /\ prov.st # "rejected"
     /\ s.st \in {"filled", "rejected"} => s = prov
     /\ s.st = "canceled" => s = prov \/ (LateFills /\ prov.st = "filled" /\ s.filled < Qty)}

PictureState(s) ==
  CASE s.st = "open" /\ s.filled = 0 -> "ACCEPTED"
    [] s.st = "open" /\ s.filled > 0 -> "PARTIALLY_FILLED"
    [] s.st = "filled"               -> "FILLED"
    [] s.st = "canceled"             -> "CANCELED"
    [] s.st = "rejected"             -> "REJECTED"

\* The row with the fields of a picture.
Informed(r, s) == [r EXCEPT !.oid = TRUE, !.filled = s.filled, !.retry = 0, !.manual = FALSE]

-----------------------------------------------------------------------------
(* Writes of the row.                                                      *)

\* execute: up to the intent the order may be refused.
Refuse ==
  /\ row.state = "SUBMITTED" /\ ~row.intent
  /\ row' = [row EXCEPT !.state = "REJECTED"]

Claim ==
  /\ row.state = "SUBMITTED" /\ ~row.intent
  /\ row' = [row EXCEPT !.claimed = TRUE]

RecordIntent ==
  /\ row.state = "SUBMITTED" /\ ~row.intent /\ row.claimed
  /\ row' = [row EXCEPT !.intent = TRUE]

Acknowledge ==
  /\ row.state = "SUBMITTED" /\ row.intent
  /\ prov.st \notin {"absent", "rejected"}
  /\ \E known \in BOOLEAN : row' = [row EXCEPT !.state = "ACCEPTED", !.oid = known]

\* The submission of a claimed order failed: its outcome is not known.
SubmissionFails ==
  /\ row.state \in Working \cup {"RECOVERY_REQUIRED"} /\ row.claimed
  /\ row' = [row EXCEPT !.state = "RECOVERY_REQUIRED", !.intent = TRUE]

\* An order that works is taken to recovery, with or without counting an attempt.
Escalate ==
  /\ row.state \in Working
  /\ \E r \in {[row EXCEPT !.state = "RECOVERY_REQUIRED"], Pending(row, FALSE)} : row' \in Noted(r)

Reconcilable == row.state = "RECOVERY_REQUIRED" /\ ~row.manual

\* No picture: one more failed attempt.  The broker's list of open orders may
\* have given the order's id before.
ReconcileFails ==
  /\ Reconcilable
  /\ \E review \in BOOLEAN,
        known \in {row.oid} \cup (IF prov.st \in {"absent", "rejected"} THEN {} ELSE {TRUE}) :
       row' \in Noted(Pending([row EXCEPT !.oid = known], review))

\* A picture, written as it is or with the order handed to a human.
Reconcile ==
  /\ Reconcilable
  /\ \E s \in Pictures :
       \E r \in {[Informed(row, s) EXCEPT !.state = PictureState(s)], Pending(Informed(row, s), TRUE)} :
          row' \in Noted(r)

\* The broker filled a cancelled order after all.
CorrectFill ==
  /\ row.state = "CANCELED" /\ row.filled < Qty /\ prov.st = "filled"
  /\ row' \in Noted([Informed(row, prov) EXCEPT !.state = "FILLED"])

\* A cancel is claimed, or noted for an order in recovery; an invalidation
\* moves an accepted order without a claim.
CancelClaim ==
  /\ row.state \in Working \cup {"RECOVERY_REQUIRED"}
  /\ row' = [row EXCEPT !.canceling = TRUE,
                        !.state = IF @ = "RECOVERY_REQUIRED" THEN @ ELSE "CANCEL_REQUESTED"]

Invalidate ==
  /\ row.state \in {"ACCEPTED", "PARTIALLY_FILLED"}
  /\ row' = [row EXCEPT !.state = "CANCEL_REQUESTED"]

Write ==
  /\ \/ Refuse \/ Claim \/ RecordIntent \/ Acknowledge \/ SubmissionFails
     \/ Escalate \/ ReconcileFails \/ Reconcile \/ CorrectFill \/ CancelClaim \/ Invalidate
  /\ UNCHANGED <<posts, wire, prov>>

-----------------------------------------------------------------------------
(* The broker.                                                             *)

\* The order is sent once its intent is on record, whatever became of the row since.
Post ==
  /\ row.intent /\ posts = 0
  /\ posts' = 1 /\ wire' = TRUE
  /\ UNCHANGED <<row, prov>>

\* It arrives, or is lost.
PostArrives ==
  /\ wire /\ wire' = FALSE
  /\ prov' \in {prov} \cup {[prov EXCEPT !.st = st] : st \in {"open", "rejected"}}
  /\ UNCHANGED <<row, posts>>

ProviderFills ==
  /\ prov.st = "open"
  /\ prov' = [st |-> IF prov.filled + 1 = Qty THEN "filled" ELSE "open", filled |-> prov.filled + 1]
  /\ UNCHANGED <<row, posts, wire>>

\* By itself or on request; a fill in flight may still be booked.
ProviderCloses ==
  /\ \/ prov.st = "open" /\ prov' = [prov EXCEPT !.st = "canceled"]
     \/ LateFills /\ prov.st = "canceled" /\ prov' = [st |-> "filled", filled |-> Qty]
  /\ UNCHANGED <<row, posts, wire>>

Next == Write \/ Post \/ PostArrives \/ ProviderFills \/ ProviderCloses

Spec == Init /\ [][Next]_vars

-----------------------------------------------------------------------------
(* Refinement: the order as the entry budget counts it.                    *)

\* What the broker has of the order, by what it may come to.
Truth ==
  IF posts = 0 THEN "none"
  ELSE IF wire \/ (prov.st = "open" /\ prov.filled = 0) THEN "working"
  ELSE IF prov.filled = 0 THEN "over"
  ELSE IF prov.st = "open" THEN "partial"
  ELSE IF prov.st = "filled" THEN "filled" ELSE "stub"

\* As much of the row as a reservation looks at; the exit is not this order's.
Entry(r) ==
  [ state |-> r.state, claimed |-> r.claimed, intent |-> r.intent, filled |-> r.filled > 0,
    closed |-> FALSE ]

Budgeted == INSTANCE BudgetedOrder WITH row <- Entry(row), truth <- Truth

\* What LiveBudget supposes of an entry holds of the pipeline's order, as long
\* as the broker books no fill after it reported a cancel.
ServesBudget == Budgeted!Spec

-----------------------------------------------------------------------------
(* Refinement: the order as amend finds it.                                *)

\* An order on its way is taken for one the broker has accepted.
Accepted(r) ==
  [ state |-> IF r.state = "SUBMITTED" THEN "ACCEPTED" ELSE r.state, manual |-> r.manual,
    cancelClaim |-> r.canceling, oid |-> 0, filled |-> r.filled, amendments |-> [q \in {} |-> "none"] ]

Placed == [ st |-> IF prov.st = "absent" THEN "open" ELSE prov.st, id |-> 0, filled |-> prov.filled ]

NoCall == [p \in {} |-> "idle"]

Amended == INSTANCE OrderAmendment
             WITH Amenders <- {}, Requests <- {}, NoRequest <- 0, Others <- "always",
                  MaxSends <- 0, MaxFaults <- 0,
                  row <- Accepted(row), prov <- Placed, mail <- <<>>, pc <- NoCall, req <- NoCall,
                  copy <- NoCall, asked <- NoCall, fresh <- {}, faults <- 0

NeverRefused == row.state # "REJECTED" /\ prov.st # "rejected"

\* What OrderAmendment lets the other activities write while an amend runs is what
\* they write of an order the broker does not refuse, as long as it books no
\* fill after it reported a cancel.
ServesAmendment == []NeverRefused => Amended!Spec

-----------------------------------------------------------------------------

\* Whoever writes, and whatever it last read, an order moves only as the table of
\* transitions says, but for a fill the broker booked on a cancelled order: what
\* transition would throw at never reaches the row.
TableStep ==
  row'.state # row.state
    => \/ canTransitionOrder(row.state, row'.state)
       \/ row.state = "CANCELED" /\ row'.state = "FILLED" /\ row'.filled > row.filled

StatesFollowTable == [][TableStep]_row
=============================================================================
