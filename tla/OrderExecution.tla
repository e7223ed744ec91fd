--------------------------- MODULE OrderExecution ---------------------------
(***************************************************************************)
(* The life of ONE live broker order: the row of trade_orders, the         *)
(* concurrent activities that drive it and the broker that trades it.      *)
(*                                                                         *)
(* An activity (a member of Proc) is one asynchronous call chain of the    *)
(* server: TradeExecutionService.execute, TradeCancelReconciliationService *)
(* .cancel, the invalidate route, the restart scan, or one worker tick of  *)
(* TradeRecoveryWorker.  Every activity works on a private copy of the row *)
(* and writes it back with a compare-and-set on (state, version); between  *)
(* two of its database or broker calls anything else may happen.           *)
(*                                                                         *)
(* Abstractions.                                                           *)
(*  - The version column is abstracted exactly: `fresh' is the set of      *)
(*    activities whose copy carries the row's current version.  A write    *)
(*    that applies leaves only its writer fresh, a read or a lost write    *)
(*    (which returns the current row) makes its caller fresh.              *)
(*  - A random id (claim, submission attempt, cancel claim) is the         *)
(*    activity that drew it.                                               *)
(*  - Prices, fees, timestamps and the back-off delay of nextRetryAt are   *)
(*    left out: an early retry returns without a change.                   *)
(*  - An exception that leaves the call chain is a crash of the activity.  *)
(***************************************************************************)
EXTENDS Naturals, TradeOrderStateMachine

CONSTANTS
  Executors,     \* activities that may run execute
  Cancelers,     \* ... cancel
  Invalidators,  \* ... POST /plans/:id/invalidate
  Workers,       \* ... a tick of the recovery worker
  Scanners,      \* ... POST /recovery/scan
  NoOne,         \* the null of an id column
  Qty,           \* the quantity ordered, in fill units
  Venue,         \* how the broker lets an order be looked up
  StaleReads,    \* may a look-up answer with an older picture of the order?
  LateFills,     \* may the broker book a fill after it reported a cancel?
  MaxFaults      \* crashes and early lease expiries in one behaviour

Proc == Executors \cup Cancelers \cup Invalidators \cup Workers \cup Scanners

\* Bitget and Upbit answer by our client order id; Toss lists its open orders
\* with our id and is then asked by its own; Kiwoom only knows its own id.
Venues == {"clientId", "openOrders", "exchangeId"}

ASSUME ProcAssumption  == NoOne \notin Proc
ASSUME QtyAssumption   == Qty \in Nat \ {0}
ASSUME VenueAssumption == Venue \in Venues
ASSUME FlagAssumption  == StaleReads \in BOOLEAN /\ LateFills \in BOOLEAN
ASSUME FaultAssumption == MaxFaults \in Nat

\* The third failed reconciliation in a row hands the order to a human.
RetryLimit == 3

VARIABLES
  row,        \* the order's row in trade_orders
  leaseLive,  \* execution_claimed_at is younger than the 30 s lease
  recLease,   \* the owner of an unexpired recovery lease, or NoOne
  op,         \* op[p]: the call p runs
  pc,         \* pc[p]: the next database or broker call of p
  copy,       \* copy[p]: p's private copy of the row
  fresh,      \* the activities whose copy has the row's version
  seen,       \* seen[p]: the state in the snapshot p is about to apply
  prov,       \* the order as the broker knows it
  wire,       \* order POSTs in flight, by sender
  cwire,      \* cancel requests in flight, by sender
  posts,      \* order POSTs sent so far (history, capped at 2)
  cancels,    \* cancel requests sent so far (history, capped at 2)
  faults      \* crashes and early lease expiries so far

db       == <<row, leaseLive, recLease>>
activity == <<op, pc, copy, fresh, seen>>
broker   == <<prov, wire, cwire>>
history  == <<posts, cancels, faults>>
vars     == <<db, activity, broker, history>>

-----------------------------------------------------------------------------
(* State.                                                                  *)

Rows == [ state       : OrderStates,
          claim       : Proc \cup {NoOne},   \* executionClaimId
          intent      : Proc \cup {NoOne},   \* submissionStartedAt, submissionAttemptId
          oid         : BOOLEAN,             \* exchangeOrderId known
          filled      : 0..Qty,              \* filledQuantity
          retry       : 0..RetryLimit,       \* retryCount
          manual      : BOOLEAN,             \* manualReviewRequired
          cancelClaim : Proc \cup {NoOne} ]  \* cancelRequestClaimId

\* The row createOrder inserts.
NewOrder ==
  [ state |-> "SUBMITTED", claim |-> NoOne, intent |-> NoOne, oid |-> FALSE,
    filled |-> 0, retry |-> 0, manual |-> FALSE, cancelClaim |-> NoOne ]

Ops == {"none", "execute", "cancel", "worker", "scan"}

Pcs == { "idle", "escalate", "reconcile", "found", "apply", "correct",
         "unclaimed", "claimed", "toPost", "posting", "acked", "failed",
         "cancelRead", "cancelIntent", "cancelClaim", "cancelSend",
         "canceling", "stillPending", "invalidate" }

ProviderOrders == [ st     : {"absent", "open", "filled", "canceled", "rejected"},
                    filled : 0..Qty ]

TypeOK ==
  /\ row \in Rows
  /\ leaseLive \in BOOLEAN
  /\ recLease \in Proc \cup {NoOne}
  /\ op \in [Proc -> Ops]
  /\ pc \in [Proc -> Pcs]
  /\ copy \in [Proc -> Rows]
  /\ fresh \subseteq Proc
  /\ seen \in [Proc -> OrderStates]
  /\ prov \in ProviderOrders
  /\ wire \subseteq Proc
  /\ cwire \subseteq Proc
  /\ posts \in 0..2
  /\ cancels \in 0..2
  /\ faults \in 0..MaxFaults

Init ==
  /\ row = NewOrder
  /\ leaseLive = FALSE
  /\ recLease = NoOne
  /\ op = [p \in Proc |-> "none"]
  /\ pc = [p \in Proc |-> "idle"]
  /\ copy = [p \in Proc |-> NewOrder]
  /\ fresh = {}
  /\ seen = [p \in Proc |-> "SUBMITTED"]
  /\ prov = [st |-> "absent", filled |-> 0]
  /\ wire = {}
  /\ cwire = {}
  /\ posts = 0
  /\ cancels = 0
  /\ faults = 0

-----------------------------------------------------------------------------
(* Reading and writing the row.                                            *)

\* The call is over: nothing of it is left in memory.
End(p) ==
  /\ op' = [op EXCEPT ![p] = "none"]
  /\ pc' = [pc EXCEPT ![p] = "idle"]
  /\ copy' = [copy EXCEPT ![p] = NewOrder]
  /\ fresh' = fresh \ {p}
  /\ seen' = [seen EXCEPT ![p] = "SUBMITTED"]

\* p starts the call o with the row as it is now, changed in memory to c.
Begin(p, o, c, next) ==
  /\ op' = [op EXCEPT ![p] = o]
  /\ pc' = [pc EXCEPT ![p] = next]
  /\ copy' = [copy EXCEPT ![p] = c]
  /\ fresh' = fresh \cup {p}
  /\ UNCHANGED seen

\* Mutant of Applies: the version not compared.
AppliesWithoutVersion(p) == op[p] = "worker" => recLease = p

\* The compare-and-set: state and version are those p read, and a recovery
\* worker must still own the recovery lease.
Applies(p) == p \in fresh /\ (op[p] = "worker" => recLease = p)

\* Object.assign(order, currentRow) after a lost write: the columns the row
\* does not have keep the value p set in memory.
Merge(c, r) ==
  [r EXCEPT !.intent = IF @ = NoOne THEN c.intent ELSE @,
            !.cancelClaim = IF @ = NoOne THEN c.cancelClaim ELSE @]

\* What p holds after it tried to write new.
Outcome(p, new) == IF Applies(p) THEN new ELSE Merge(new, row)

\* An applied transition clears the recovery lease; the worker keeps its own
\* while it prepares the order for the reconciliation that follows.
LeaseAfter(p, next) ==
  IF Applies(p) /\ ~(op[p] = "worker" /\ next = "reconcile") THEN NoOne ELSE recLease

\* TradeAutomationService.transition: p tries to write new and goes on at next.
Save(p, new, next) ==
  /\ row' = IF Applies(p) THEN new ELSE row
  /\ recLease' = LeaseAfter(p, next)
  /\ op' = [op EXCEPT ![p] = IF next = "idle" THEN "none" ELSE @]
  /\ pc' = [pc EXCEPT ![p] = next]
  /\ copy' = [copy EXCEPT ![p] = IF next = "idle" THEN NewOrder ELSE Outcome(p, new)]
  /\ fresh' = LET others == IF Applies(p) THEN {} ELSE fresh \ {p}
              IN  IF next = "idle" THEN others ELSE others \cup {p}
  /\ seen' = [seen EXCEPT ![p] = "SUBMITTED"]
  /\ UNCHANGED leaseLive

\* The same write when the database answers with an error: it may or may not
\* have been applied, and p keeps the copy c it had in memory.
SaveFails(p, new, c) ==
  /\ \/ UNCHANGED <<row, recLease, fresh>>
     \/ /\ Applies(p)
        /\ row' = new
        /\ recLease' = NoOne
        /\ fresh' = {}
  /\ pc' = [pc EXCEPT ![p] = "failed"]
  /\ copy' = [copy EXCEPT ![p] = c]
  /\ UNCHANGED <<op, seen, leaseLive>>

Move(c, state) == [c EXCEPT !.state = state]

Open(c) == ~isTerminalOrderState(c.state)

-----------------------------------------------------------------------------
(* TradeExecutionService.execute.                                          *)

\* A fresh read decides: an order in recovery is reconciled, one whose
\* submission intent is recorded is escalated first, any other submitted one
\* goes on to the preliminary checks.
ExecuteRead(p) ==
  /\ p \in Executors /\ pc[p] = "idle"
  /\ row.state \in {"SUBMITTED", "RECOVERY_REQUIRED"}
  /\ Begin(p, "execute", row,
           IF row.state = "RECOVERY_REQUIRED" THEN "reconcile"
           ELSE IF row.intent # NoOne THEN "escalate" ELSE "unclaimed")
  /\ UNCHANGED <<db, broker, history>>

\* A preliminary check (connection, account mode, verification, policy,
\* capability, budget) refuses the order.
Refuse(p) ==
  /\ pc[p] = "unclaimed"
  /\ Save(p, Move(copy[p], "REJECTED"), "idle")
  /\ UNCHANGED <<broker, history>>

\* claim_trade_order_execution's WHERE clause.
Claimable(p) ==
  /\ p \in fresh
  /\ row.state = "SUBMITTED"
  /\ row.intent = NoOne
  /\ ~leaseLive

ClaimOrderExecution(p) ==
  /\ pc[p] = "unclaimed"
  /\ IF Claimable(p)
       THEN /\ row' = [row EXCEPT !.claim = p]
            /\ leaseLive' = TRUE
            /\ pc' = [pc EXCEPT ![p] = "claimed"]
            /\ copy' = [copy EXCEPT ![p] = row']
            /\ fresh' = {p}
            /\ UNCHANGED <<recLease, op, seen>>
       ELSE End(p) /\ UNCHANGED db
  /\ UNCHANGED <<broker, history>>

\* Mutants of Proceeds: the claim, or both ids, not compared.
ProceedsWithoutClaim(p, c) == c.state = "SUBMITTED" /\ c.intent = p
ProceedsOnState(p, c)      == c.state = "SUBMITTED"

\* beginSubmissionIntent's last test: the intent that stands is p's own.
Proceeds(p, c) == c.state = "SUBMITTED" /\ c.intent = p /\ c.claim = p

\* beginSubmissionIntent: the intent is written before the POST.  The worker
\* generation may be found stopped right after the write, whatever it did.
BeginSubmissionIntent(p) ==
  LET new == [copy[p] EXCEPT !.intent = p]
  IN  /\ pc[p] = "claimed"
      /\ \/ Save(p, new, IF Proceeds(p, Outcome(p, new)) THEN "toPost" ELSE "idle")
         \/ Save(p, new, "failed")
         \/ SaveFails(p, new, new)
      /\ UNCHANGED <<broker, history>>

PostOrder(p) ==
  /\ pc[p] = "toPost"
  /\ wire' = wire \cup {p}
  /\ posts' = IF posts < 2 THEN posts + 1 ELSE posts
  /\ pc' = [pc EXCEPT ![p] = "posting"]
  /\ UNCHANGED <<db, op, copy, fresh, seen, prov, cwire, cancels, faults>>

PostAnswered(p) ==
  /\ pc[p] = "posting"
  /\ p \notin wire /\ prov.st \notin {"absent", "rejected"}
  /\ pc' = [pc EXCEPT ![p] = "acked"]
  /\ UNCHANGED <<db, op, copy, fresh, seen, broker, history>>

\* The acknowledged order becomes ACCEPTED; a failed query after the POST
\* (reconciliationRequired) sends it on to recovery.  Bitget may acknowledge
\* by our id alone, its own is then still unknown.
RecordAccepted(p) ==
  /\ pc[p] = "acked"
  /\ \E next \in {"idle", "failed"}, known \in BOOLEAN :
       LET new == [Move(copy[p], "ACCEPTED") EXCEPT !.oid = known]
       IN  /\ ~known => Venue = "clientId" /\ next = "failed"
           /\ Save(p, new, next) \/ SaveFails(p, new, copy[p])
  /\ UNCHANGED <<broker, history>>

\* Mutant of FailureState: the intent not looked at.
AlwaysRejects(c) == "REJECTED"

\* The catch block of execute: an order whose intent was never set is rejected,
\* any other has an unknown outcome and needs recovery.
FailureState(c) == IF c.intent = NoOne THEN "REJECTED" ELSE "RECOVERY_REQUIRED"

ExecuteFails(p) ==
  /\ pc[p] \in {"claimed", "toPost", "posting", "acked", "failed"}
  /\ IF canTransitionOrder(copy[p].state, FailureState(copy[p]))
       THEN Save(p, Move(copy[p], FailureState(copy[p])), "idle")
       ELSE End(p) /\ UNCHANGED db
  /\ UNCHANGED <<broker, history>>

Execute(p) ==
  \/ ExecuteRead(p)
  \/ Refuse(p)
  \/ ClaimOrderExecution(p)
  \/ BeginSubmissionIntent(p)
  \/ PostOrder(p)
  \/ PostAnswered(p)
  \/ RecordAccepted(p)
  \/ ExecuteFails(p)

-----------------------------------------------------------------------------
(* TradeOrderRecoveryService.reconcile, as every caller runs it.           *)

\* reconcileCancellation goes on after reconcile when the order still works.
AfterReconcile(p, c) ==
  IF op[p] = "cancel" /\ c.state \in {"ACCEPTED", "PARTIALLY_FILLED", "CANCEL_REQUESTED"}
    THEN "stillPending" ELSE "idle"

\* Mutant of Reconcilable: the review flag ignored.
AlwaysReconcilable(c) == TRUE

\* An order under manual review is returned as it is.
Reconcilable(c) == ~c.manual

SkipReconcile(p) ==
  /\ pc[p] = "reconcile" /\ ~Reconcilable(copy[p])
  /\ End(p)
  /\ UNCHANGED <<db, broker, history>>

\* Mutant of Bump: the attempt is not counted.
NeverBumps(retry) == retry

Bump(retry) == IF retry < RetryLimit THEN retry + 1 ELSE retry

\* Mutant of Pending: the limit on attempts forgotten.
PendingForever(c, review) ==
  [Move(c, "RECOVERY_REQUIRED") EXCEPT !.retry = @ + 1, !.manual = review]

\* pending: one more failed attempt; review hands the order to a human.
Pending(c, review) ==
  [Move(c, "RECOVERY_REQUIRED") EXCEPT !.retry = Bump(@),
                                       !.manual = review \/ Bump(c.retry) >= RetryLimit]

\* No snapshot: the connection, mode or capability check fails, the broker
\* does not answer, answers 404, or answers something validateSnapshot
\* refuses.  A Kiwoom order without its id is always a human's.
ReconcileFails(p) ==
  /\ pc[p] \in {"reconcile", "found"} /\ Reconcilable(copy[p])
  /\ \E review \in BOOLEAN :
       LET new == Pending(copy[p], review) IN
       /\ Venue = "exchangeId" /\ ~copy[p].oid => review
       /\ Save(p, new, AfterReconcile(p, Outcome(p, new)))
  /\ UNCHANGED <<broker, history>>

\* Toss is asked for its open orders first; one of them has our client order id.
FindOrder(p) ==
  /\ pc[p] = "reconcile" /\ Reconcilable(copy[p])
  /\ Venue = "openOrders" /\ ~copy[p].oid /\ prov.st = "open"
  /\ copy' = [copy EXCEPT ![p] = [@ EXCEPT !.oid = TRUE]]
  /\ pc' = [pc EXCEPT ![p] = "found"]
  /\ UNCHANGED <<db, op, fresh, seen, broker, history>>

\* Can the broker be asked about the order p holds?
Addressable(c) == c.oid \/ Venue = "clientId"

\* The pictures of the order a look-up may return.
Snapshots ==
  IF prov.st = "absent" THEN {}
  ELSE {prov} \cup
       (IF StaleReads /\ prov.st # "rejected"
          THEN {[st |-> "open", filled |-> k] : k \in 0..prov.filled} \ {[st |-> "open", filled |-> Qty]}
          ELSE {})

\* Mutant of SnapshotState: any order that no longer works but traded counts
\* as filled.
SnapshotStateByFill(s) ==
  CASE s.st = "open" -> IF s.filled = 0 THEN "ACCEPTED" ELSE "PARTIALLY_FILLED"
    [] s.st # "open" /\ s.filled > 0 -> "FILLED"
    [] s.st = "canceled" /\ s.filled = 0 -> "CANCELED"
    [] s.st = "rejected" /\ s.filled = 0 -> "REJECTED"

\* stateFromBitget, stateFromUpbit, stateFromToss.
SnapshotState(s) ==
  CASE s.st = "open" /\ s.filled = 0 -> "ACCEPTED"
    [] s.st = "open" /\ s.filled > 0 -> "PARTIALLY_FILLED"
    [] s.st = "filled"               -> "FILLED"
    [] s.st = "canceled"             -> "CANCELED"
    [] s.st = "rejected"             -> "REJECTED"

\* Mutant of ValidSnapshot: the fill regression accepted.
AnySnapshot(c, s) == TRUE

\* validateSnapshot, on what a well-formed answer can still get wrong.
ValidSnapshot(c, s) == s.filled >= c.filled

\* The answer of the broker, merged into p's copy but not yet written.
Lookup(p) ==
  /\ pc[p] \in {"reconcile", "found"} /\ Reconcilable(copy[p])
  /\ Addressable(copy[p])
  /\ \E s \in Snapshots :
       /\ ValidSnapshot(copy[p], s)
       /\ copy' = [copy EXCEPT ![p] = [@ EXCEPT !.oid = TRUE, !.filled = s.filled,
                                               !.retry = 0, !.manual = FALSE]]
       /\ seen' = [seen EXCEPT ![p] = SnapshotState(s)]
  /\ pc' = [pc EXCEPT ![p] = "apply"]
  /\ UNCHANGED <<db, op, fresh, broker, history>>

\* authoritativeFillCorrection: the write was lost to a CANCELED order that
\* the snapshot shows filled further.
FillCorrects(p) ==
  /\ ~Applies(p)
  /\ seen[p] = "FILLED" /\ row.state = "CANCELED"
  /\ copy[p].filled > row.filled

ApplySnapshot(p) ==
  LET new == Move(copy[p], seen[p])
  IN  /\ pc[p] = "apply"
      /\ ~FillCorrects(p)
      /\ Save(p, new, AfterReconcile(p, Outcome(p, new)))
      /\ UNCHANGED <<broker, history>>

\* { ...currentRow, ...next }: p goes on with its own fill over the row.
BeginCorrection(p) ==
  /\ pc[p] = "apply"
  /\ FillCorrects(p)
  /\ pc' = [pc EXCEPT ![p] = "correct"]
  /\ copy' = [copy EXCEPT ![p] = Move(Merge(row, copy[p]), "CANCELED")]
  /\ fresh' = fresh \cup {p}
  /\ UNCHANGED <<db, op, seen, broker, history>>

CorrectFill(p) ==
  /\ pc[p] = "correct"
  /\ Save(p, Move(copy[p], "FILLED"), "idle")
  /\ UNCHANGED <<broker, history>>

\* A FILLED snapshot without a fill price, or a database error, sends the
\* order back to recovery with the snapshot's fields already in memory.
ApplyFails(p) ==
  /\ pc[p] = "apply"
  /\ LET new == Pending(copy[p], TRUE)
     IN  Save(p, new, AfterReconcile(p, Outcome(p, new)))
  /\ UNCHANGED <<broker, history>>

\* Any call that meets an open order outside recovery first writes
\* RECOVERY_REQUIRED, and reconciles if that is what the row then says.
Escalate(p) ==
  LET new == Move(copy[p], "RECOVERY_REQUIRED")
  IN  /\ pc[p] = "escalate"
      /\ Save(p, new, IF /\ Outcome(p, new).state = "RECOVERY_REQUIRED"
                         /\ op[p] = "worker" => Applies(p)
                        THEN "reconcile" ELSE "idle")
      /\ UNCHANGED <<broker, history>>

Reconcile(p) ==
  \/ Escalate(p)
  \/ SkipReconcile(p)
  \/ ReconcileFails(p)
  \/ FindOrder(p)
  \/ Lookup(p)
  \/ ApplySnapshot(p)
  \/ BeginCorrection(p)
  \/ CorrectFill(p)
  \/ ApplyFails(p)

-----------------------------------------------------------------------------
(* TradeRecoveryWorker and POST /recovery/scan.                            *)

\* Mutant of Recoverable: only orders already in recovery are picked up.
RecoverableInRecovery == row.state = "RECOVERY_REQUIRED" /\ ~row.manual

\* The rows claim_trade_recovery_orders selects.
Recoverable == Open(row) /\ ~row.manual

\* claim_trade_recovery_orders: takes the lease, leaves the version alone.
WorkerClaim(p) ==
  /\ p \in Workers /\ pc[p] = "idle"
  /\ Recoverable
  /\ recLease = NoOne
  /\ recLease' = p
  /\ Begin(p, "worker", row,
           IF row.state = "RECOVERY_REQUIRED" THEN "reconcile" ELSE "escalate")
  /\ UNCHANGED <<row, leaseLive, broker, history>>

\* recordFailure after a database error in prepareRecoveryOrder, or before the broker
\* is asked (the plan's and the connection's rows).
RecordFailure(p) ==
  /\ op[p] = "worker" /\ pc[p] \in {"escalate", "reconcile"} /\ Reconcilable(copy[p])
  /\ Save(p, Pending(copy[p], FALSE), "idle")
  /\ UNCHANGED <<broker, history>>

ScanRead(p) ==
  /\ p \in Scanners /\ pc[p] = "idle"
  /\ Open(row)
  /\ Begin(p, "scan", row,
           IF row.state = "RECOVERY_REQUIRED" THEN "reconcile" ELSE "escalate")
  /\ UNCHANGED <<db, broker, history>>

Recover(p) == WorkerClaim(p) \/ RecordFailure(p) \/ ScanRead(p)

-----------------------------------------------------------------------------
(* TradeCancelReconciliationService.cancel and the invalidate route.       *)

\* The first call after cancel's read of the row: an order already claimed for
\* cancelling is queried (or, while the claimer works, left alone), any other
\* is claimed in memory and then in the row.  An invalidated order may show the answer
\* to an earlier cancel (cancelAcknowledgedAt, lastErrorCode).
CancelEntry(answered) ==
  IF row.cancelClaim # NoOne
    THEN IF row.state = "CANCEL_REQUESTED" /\ ~answered THEN "idle"
         ELSE IF row.state = "RECOVERY_REQUIRED" THEN "reconcile" ELSE "escalate"
    ELSE IF row.state = "RECOVERY_REQUIRED" THEN "cancelIntent" ELSE "cancelClaim"

CancelRead(p) ==
  /\ \E answered \in BOOLEAN :
       LET entry == CancelEntry(answered) IN
       /\ \/ p \in Cancelers /\ pc[p] = "idle" /\ Open(row) /\ entry # "idle"
          \/ pc[p] = "cancelRead"
       /\ IF Open(row) /\ entry # "idle"
            THEN Begin(p, "cancel",
                       [row EXCEPT !.cancelClaim = IF @ = NoOne THEN p ELSE @], entry)
            ELSE End(p)
  /\ UNCHANGED <<db, broker, history>>

\* toRecovery and reconcileCancellation: query before anything else.
QueryFirst(c) ==
  IF ~Open(c) THEN "idle"
  ELSE IF c.state = "RECOVERY_REQUIRED" THEN "reconcile" ELSE "escalate"

\* The cancel of an order in recovery is only noted.
CancelIntent(p) ==
  LET c == Outcome(p, copy[p])
  IN  /\ pc[p] = "cancelIntent"
      /\ Save(p, copy[p], IF c.cancelClaim # p THEN "idle" ELSE QueryFirst(c))
      /\ UNCHANGED <<broker, history>>

\* Mutants of OwnsCancel: the state, or the claim, not compared.
OwnsClaim(p, c)     == c.cancelClaim = p
OwnsCanceling(p, c) == c.state = "CANCEL_REQUESTED"

\* The test after the cancel claim's write.
OwnsCancel(p, c) == c.cancelClaim = p /\ c.state = "CANCEL_REQUESTED"

CancelClaim(p) ==
  LET new == Move(copy[p], "CANCEL_REQUESTED")
  IN  /\ pc[p] = "cancelClaim"
      /\ Save(p, new, IF OwnsCancel(p, Outcome(p, new)) THEN "cancelSend" ELSE "idle")
      /\ UNCHANGED <<broker, history>>

\* Bitget and Upbit cancel by our client order id, Toss and Kiwoom by theirs.
SendCancel(p) ==
  /\ pc[p] = "cancelSend"
  /\ Venue = "clientId" \/ copy[p].oid
  /\ cwire' = cwire \cup {p}
  /\ cancels' = IF cancels < 2 THEN cancels + 1 ELSE cancels
  /\ pc' = [pc EXCEPT ![p] = "canceling"]
  /\ UNCHANGED <<db, op, copy, fresh, seen, prov, wire, posts, faults>>

\* No connection, no capability, no order id, an acknowledgement, an error or
\* a timeout: the order goes to recovery and the broker is asked.
CancelToRecovery(p) ==
  LET new == Move(copy[p], "RECOVERY_REQUIRED")
  IN  /\ pc[p] \in {"cancelSend", "canceling"}
      /\ Save(p, new, QueryFirst(Outcome(p, new)))
      /\ UNCHANGED <<broker, history>>

\* reconcileCancellation: the order still works, so it stays in recovery.
StillPending(p) ==
  /\ pc[p] = "stillPending"
  /\ Save(p, Pending(copy[p], FALSE), "idle")
  /\ UNCHANGED <<broker, history>>

\* POST /plans/:id/invalidate: invalidatePlan moves a working order to
\* CANCEL_REQUESTED without a cancel claim, then the route cancels it.
InvalidateRead(p) ==
  /\ p \in Invalidators /\ pc[p] = "idle"
  /\ Open(row)
  /\ Begin(p, "cancel", row,
           IF row.state \in {"ACCEPTED", "PARTIALLY_FILLED"} THEN "invalidate" ELSE "cancelRead")
  /\ UNCHANGED <<db, broker, history>>

InvalidateOrder(p) ==
  LET new == Move(copy[p], "CANCEL_REQUESTED")
  IN  /\ pc[p] = "invalidate"
      /\ Save(p, new, IF Open(Outcome(p, new)) THEN "cancelRead" ELSE "idle")
      /\ UNCHANGED <<broker, history>>

Cancel(p) ==
  \/ CancelRead(p)
  \/ CancelIntent(p)
  \/ CancelClaim(p)
  \/ SendCancel(p)
  \/ CancelToRecovery(p)
  \/ StillPending(p)
  \/ InvalidateRead(p)
  \/ InvalidateOrder(p)

-----------------------------------------------------------------------------
(* The broker, the clock and crashes.                                      *)

\* A POST arrives: the order opens or is refused, or the message is lost.
\* The broker takes one order per client order id.
PostArrives(p) ==
  /\ p \in wire
  /\ wire' = wire \ {p}
  /\ prov' \in {prov} \cup (IF prov.st = "absent"
                              THEN {[prov EXCEPT !.st = st] : st \in {"open", "rejected"}}
                              ELSE {})
  /\ UNCHANGED <<db, activity, cwire, history>>

CancelArrives(p) ==
  /\ p \in cwire
  /\ cwire' = cwire \ {p}
  /\ prov' \in {prov} \cup (IF prov.st = "open" THEN {[prov EXCEPT !.st = "canceled"]} ELSE {})
  /\ UNCHANGED <<db, activity, wire, history>>

ProviderFills ==
  /\ prov.st = "open"
  /\ prov' = [st |-> IF prov.filled + 1 = Qty THEN "filled" ELSE "open",
              filled |-> prov.filled + 1]
  /\ UNCHANGED <<db, activity, wire, cwire, history>>

\* The broker closes the order by itself, or books a fill it had in flight
\* when it reported the cancel.
ProviderCloses ==
  /\ \/ prov.st = "open" /\ prov' = [prov EXCEPT !.st = "canceled"]
     \/ LateFills /\ prov.st = "canceled" /\ prov' = [st |-> "filled", filled |-> Qty]
  /\ UNCHANGED <<db, activity, wire, cwire, history>>

ExecutionLeaseExpires ==
  /\ leaseLive
  /\ leaseLive' = FALSE
  /\ UNCHANGED <<row, recLease, activity, broker, history>>

\* The recovery lease of a dead or finished tick runs out; that of a tick
\* still at work only as a fault.
RecoveryLeaseExpires ==
  /\ recLease # NoOne
  /\ recLease' = NoOne
  /\ IF recLease \in Proc /\ op[recLease] = "worker"
       THEN faults < MaxFaults /\ faults' = faults + 1
       ELSE UNCHANGED faults
  /\ UNCHANGED <<row, leaseLive, activity, broker, posts, cancels>>

\* The process dies, or an exception ends the call; messages stay in flight.
Crash(p) ==
  /\ pc[p] # "idle"
  /\ faults < MaxFaults
  /\ faults' = faults + 1
  /\ End(p)
  /\ UNCHANGED <<db, broker, posts, cancels>>

Broker == \/ \E p \in Proc : PostArrives(p) \/ CancelArrives(p)
          \/ ProviderFills
          \/ ProviderCloses

Environment == ExecutionLeaseExpires \/ RecoveryLeaseExpires \/ \E p \in Proc : Crash(p)

Next == \/ \E p \in Proc : Execute(p) \/ Reconcile(p) \/ Recover(p) \/ Cancel(p)
        \/ Broker
        \/ Environment

Spec == Init /\ [][Next]_vars

-----------------------------------------------------------------------------
(* Safety.                                                                 *)

\* However many executions, recoveries, cancels and crashes interleave, one
\* order is POSTed to the broker at most once.
AtMostOnePost == posts <= 1

\* Nothing reaches the broker that the row does not already announce: after a
\* crash at any point, the row of an order the broker may hold says so.
PostBehindIntent ==
  wire # {} \/ prov.st # "absent" => row.intent # NoOne

\* An order the broker holds, or may still receive, is never recorded as
\* rejected: the user is not told that nothing was bought.
NoFalseRejection ==
  wire # {} \/ prov.st \in {"open", "filled", "canceled"}
    => row.state \notin {"REJECTED", "EXPIRED"}

\* The row never claims an execution or an end the broker did not report.
FillsBacked ==
  /\ row.filled <= prov.filled
  /\ row.state = "FILLED" => prov.st = "filled"
  /\ row.state = "CANCELED" => prov.st \in {"canceled", "filled"}

\* A cancel request leaves only for an order whose row records who claimed it,
\* so a later cancel queries the broker and does not send again.
CancelBehindClaim == cwire # {} => row.cancelClaim # NoOne

\* One order is sent at most one cancel request.
CancelAtMostOnce == cancels <= 1

-----------------------------------------------------------------------------
(* What a step may never do.                                               *)

\* No write, however old the copy it was made from, takes back what the row
\* already knows: fills, the broker's order id, the submission, a cancel claim.
EvidenceNeverLost ==
  [][ /\ row'.filled >= row.filled
      /\ row.oid => row'.oid
      /\ row.intent # NoOne => row'.intent = row.intent
      /\ row.cancelClaim # NoOne => row'.cancelClaim # NoOne ]_vars

\* A final state is final; only a cancelled order the broker filled further
\* may still be corrected.
TerminalIsFinal ==
  [][ isTerminalOrderState(row.state) /\ row' # row
        => /\ row.state = "CANCELED" /\ row'.state = "FILLED"
           /\ row'.filled > row.filled ]_vars

\* An order handed to a human stays with the human: no late worker, cancel or
\* execution takes it back.
ManualReviewStands ==
  [][row.manual => row'.manual /\ row'.state = row.state]_vars

-----------------------------------------------------------------------------
(* Liveness.                                                               *)

\* A call that has begun takes its next step: the event loop runs it, every
\* database call returns and every broker call has a timeout.
Step(p) ==
  /\ pc[p] # "idle"
  /\ Execute(p) \/ Reconcile(p) \/ Recover(p) \/ Cancel(p)

\* The worker's interval timer fires, and a lease whose owner is gone runs out.
\* Nothing is assumed of users, of the broker or of messages in flight.
Fairness ==
  /\ \A p \in Proc : WF_vars(Step(p))
  /\ \A p \in Workers : WF_vars(WorkerClaim(p))
  /\ WF_vars(RecoveryLeaseExpires /\ UNCHANGED faults)

LiveSpec == Spec /\ Fairness

\* Whatever the broker made of the order, and whoever crashed meanwhile, the
\* row eventually says so or a human is asked.
OutcomeLearned ==
  prov.st \in {"filled", "canceled", "rejected"}
    ~> isTerminalOrderState(row.state) \/ row.manual

\* A submission once begun does not stay in doubt: the order gets the broker's
\* id, ends, or is handed to a human.
SubmissionSettled ==
  row.intent # NoOne
    ~> row.oid \/ row.manual \/ isTerminalOrderState(row.state)

-----------------------------------------------------------------------------
(* Refinement: the order pipeline keeps the promise of OrderPromise.       *)

Phase ==
  CASE row.state = "FILLED"                  -> "filled"
    [] row.state = "CANCELED"                -> "canceled"
    [] row.state \in {"REJECTED", "EXPIRED"} -> "rejected"
    [] Open(row) /\ row.intent = NoOne       -> "pending"
    [] Open(row) /\ row.intent # NoOne       -> "committed"

Promise == INSTANCE OrderPromise
             WITH Total <- Qty, phase <- Phase, sent <- posts, booked <- row.filled

\* Every behaviour of the pipeline is one the abstract order allows.
KeepsPromise == Promise!Spec

-----------------------------------------------------------------------------
(* Refinement: between its reads and its writes a call is not there.       *)

\* The row, its ids reduced to whether they are set.
Plain(r) ==
  [ state |-> r.state, claimed |-> r.claim # NoOne, intent |-> r.intent # NoOne, oid |-> r.oid,
    filled |-> r.filled, retry |-> r.retry, manual |-> r.manual, canceling |-> r.cancelClaim # NoOne ]

Atomic == INSTANCE AtomicOrder WITH row <- Plain(row), wire <- wire # {}

\* However the reads, broker calls, lost writes and crashes of the activities
\* interleave, what becomes of the order is what would if each of them read the
\* row, decided and wrote it back in one step.
WritesAreAtomic == Atomic!Spec

\* An order moves only as the table of transitions says, but for a fill the
\* broker booked on a cancelled order: a transition that was legal for the row
\* as a call read it is legal for the row it replaces.
TableStep ==
  row'.state # row.state
    => \/ canTransitionOrder(row.state, row'.state)
       \/ row.state = "CANCELED" /\ row'.state = "FILLED" /\ row'.filled > row.filled

StatesFollowTable == [][TableStep]_vars
=============================================================================
