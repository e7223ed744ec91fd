--------------------------- MODULE SignalPromise ---------------------------
(***************************************************************************)
(* What a member is promised of one signal, with the rows, the copies, the *)
(* checks and the calls abstracted away: there is one plan, it is decided  *)
(* once, by whoever its mode says, it may still expire until its order is  *)
(* submitted, the order is submitted once, on the approval as it stands,   *)
(* and not while an answered emergency stop stands.  PlanApproval          *)
(* implements it.                                                          *)
(***************************************************************************)
CONSTANTS
  Users,   \* who may approve a manual plan
  Runs,    \* who may approve an automatic one
  NoOne    \* nobody has approved yet

VARIABLES
  decision,   \* the plan's state, "none" before it exists
  automatic,  \* its mode
  by,         \* who approved it
  sent,       \* the order's intent is on record
  halted      \* an emergency stop was answered, and stands

signal == <<decision, automatic, by, sent, halted>>

Init ==
  /\ decision = "none" /\ automatic = FALSE /\ by = NoOne
  /\ sent = FALSE /\ halted = FALSE

\* The first to submit the signal makes its plan.
Propose ==
  /\ decision = "none"
  /\ decision' = "APPROVAL_PENDING" /\ automatic' \in BOOLEAN
  /\ UNCHANGED <<by, sent, halted>>

\* A user approves a manual plan, the member's run an automatic one.
Approve ==
  /\ decision = "APPROVAL_PENDING"
  /\ decision' = "SUBMITTED" /\ by' \in IF automatic THEN Runs ELSE Users
  /\ UNCHANGED <<automatic, sent, halted>>

\* A plan expires, approved or not, unless its order was submitted.
Expire ==
  /\ decision \in {"APPROVAL_PENDING", "SUBMITTED"} /\ ~sent
  /\ decision' = "EXPIRED"
  /\ UNCHANGED <<automatic, by, sent, halted>>

\* The order is submitted, on an approval that stands.
Send ==
  /\ decision = "SUBMITTED" /\ ~sent /\ ~halted
  /\ sent' = TRUE
  /\ UNCHANGED <<decision, automatic, by, halted>>

\* A stop is answered, or lifted.
Halt ==
  /\ halted' = ~halted
  /\ UNCHANGED <<decision, automatic, by, sent>>

Next == Propose \/ Approve \/ Expire \/ Send \/ Halt

Spec == Init /\ [][Next]_signal
=============================================================================
