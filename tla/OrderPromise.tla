---------------------------- MODULE OrderPromise ----------------------------
(***************************************************************************)
(* What the order pipeline promises the owner of an approved plan, with    *)
(* the row, the copies, the leases and the retries abstracted away: the    *)
(* order is committed before it is sent, sent at most once, its booked     *)
(* fills only grow, and its end is final but for a fill the broker adds to *)
(* a cancelled order.  OrderExecution implements it.                       *)
(***************************************************************************)
EXTENDS Naturals

CONSTANT Total   \* the quantity ordered

VARIABLES
  phase,   \* "pending", "committed" or how the order ended
  sent,    \* orders sent to the broker
  booked   \* quantity recorded as filled

promise == <<phase, sent, booked>>

Init == phase = "pending" /\ sent = 0 /\ booked = 0

\* The intent to submit is on record.
Commit ==
  /\ phase = "pending"
  /\ phase' = "committed"
  /\ UNCHANGED <<sent, booked>>

\* Only a committed order is sent, and only the first time.
Send ==
  /\ phase = "committed" /\ sent = 0
  /\ sent' = 1
  /\ UNCHANGED <<phase, booked>>

\* What the broker reports about an order that was sent.
Report ==
  /\ phase = "committed" /\ sent = 1
  /\ booked' \in booked..Total
  /\ \/ phase' = "committed"
     \/ phase' = "filled" /\ booked' = Total
     \/ phase' = "canceled"
     \/ phase' = "rejected" /\ booked' = 0
  /\ UNCHANGED sent

\* An order that was never sent may be rejected on our own authority.
Refuse ==
  /\ phase = "pending"
  /\ phase' = "rejected"
  /\ UNCHANGED <<sent, booked>>

\* The broker booked the rest of an order it had reported cancelled.
Correct ==
  /\ phase = "canceled" /\ booked < Total
  /\ phase' = "filled" /\ booked' = Total
  /\ UNCHANGED sent

Next == Commit \/ Send \/ Report \/ Refuse \/ Correct

Spec == Init /\ [][Next]_promise
=============================================================================
