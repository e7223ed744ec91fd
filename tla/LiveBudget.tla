----------------------------- MODULE LiveBudget -----------------------------
(***************************************************************************)
(* The capital a member's automatic live entries share                     *)
(* (automatic-live-budget.service.ts, the reserve_automatic_live_entry_    *)
(* budget migration, and the calls of TradeExecutionService.execute).      *)
(*                                                                         *)
(* An executor claims an order and reserves its amount in one serializable *)
(* transaction, computed from a snapshot it read before; it repeats the    *)
(* computation, without a write, right before it records its submission    *)
(* intent and sends the order.                                             *)
(*                                                                         *)
(* Abstractions.                                                           *)
(*  - `cap' is the policy: the limit on the sum (every limit has its form) *)
(*    and, at 0, a stop.  An amount is the one planned: the repricing of   *)
(*    fills, which only raises it, is left out.                            *)
(*  - What the pipeline makes of the order is BudgetedOrder's, which       *)
(*    OrderExecution implements: the row follows the broker, and may fall  *)
(*    behind it.  A fill the broker books after it reported a cancel is    *)
(*    left out.  The plan stays as approved (PlanApproval).                *)
(*  - A snapshot is kept as what the caller computes from it, and `stale'. *)
(*  - Whether a third attempt is left is a choice, and so is any failure.  *)
(***************************************************************************)
EXTENDS Naturals, FiniteSets

CONSTANTS
  Orders,      \* the member's automatic live entries
  Legacy,      \* those filled before there were reservations
  Executors,   \* calls of execute
  Amount,      \* amountKrw of each order
  Instrument,  \* and its instrument
  Caps,        \* what the policy may allow
  NoOrder      \* of an idle executor

ASSUME OrdersAssumption == IsFiniteSet(Orders) /\ Legacy \subseteq Orders /\ NoOrder \notin Orders
ASSUME AmountAssumption == Amount \in [Orders -> Nat \ {0}]
ASSUME CapsAssumption == Caps \subseteq Nat
ASSUME LegacyDistinct == \A x, y \in Legacy : Instrument[x] = Instrument[y] => x = y

VARIABLES
  rows,        \* trade_orders
  leased,      \* orders claimed less than 30 s ago
  holds,       \* trade_live_budget_reservations
  cap,
  truth,       \* what the broker has of each order
  pc, job,     \* where an executor is, and its order
  verifyOnly,  \* executors past their reservation
  fresh,       \* executors whose copy has the row's version
  stale,       \* executors whose transaction will be refused
  fits, frees, \* what the snapshot of an executor said
  roof         \* history: the largest cap since an executor's snapshot
db == <<rows, leased, holds, cap>>
calls == <<pc, job, verifyOnly, fresh, stale, fits, frees, roof>>
vars == <<db, truth, calls>>

States == {"SUBMITTED", "ACCEPTED", "PARTIALLY_FILLED", "FILLED", "CANCEL_REQUESTED",
           "RECOVERY_REQUIRED", "CANCELED", "REJECTED"}
Terminal == {"FILLED", "CANCELED", "REJECTED"}
Rows == [ state   : States,
          claimed : BOOLEAN,    \* executionClaimId
          intent  : BOOLEAN,    \* submissionStartedAt
          filled  : BOOLEAN,    \* filledQuantity > 0
          closed  : BOOLEAN ]   \* canonical exits cover what it filled
\* "stub": cancelled after a partial fill.  "over": nothing works or is owned.
Truths == {"none", "working", "partial", "filled", "stub", "over"}
PCs == {"idle", "snapshot", "begin", "commit", "intent", "toPost"}

TypeOK ==
  /\ rows \in [Orders -> Rows] /\ leased \subseteq Orders
  /\ holds \in [Orders -> {"none", "HELD", "RELEASED"}]
  /\ cap \in Caps /\ truth \in [Orders -> Truths]
  /\ pc \in [Executors -> PCs] /\ job \in [Executors -> Orders \cup {NoOrder}]
  /\ verifyOnly \subseteq Executors /\ fresh \subseteq Executors /\ stale \subseteq Executors
  /\ fits \in [Executors -> BOOLEAN] /\ frees \in [Executors -> SUBSET Orders]
  /\ roof \in [Executors -> Caps \cup {0}]
  \* A copy of the row's version is a copy of the row.
  /\ \A e \in fresh : job[e] # NoOrder /\ rows[job[e]].state = "SUBMITTED"

NewOrder == [state |-> "SUBMITTED", claimed |-> FALSE, intent |-> FALSE, filled |-> FALSE, closed |-> FALSE]
OldFill  == [state |-> "FILLED", claimed |-> TRUE, intent |-> TRUE, filled |-> TRUE, closed |-> FALSE]

Init ==
  /\ rows = [o \in Orders |-> IF o \in Legacy THEN OldFill ELSE NewOrder]
  /\ leased = {} /\ holds = [o \in Orders |-> "none"] /\ cap \in Caps
  /\ truth = [o \in Orders |-> IF o \in Legacy THEN "filled" ELSE "none"]
  /\ pc = [e \in Executors |-> "idle"] /\ job = [e \in Executors |-> NoOrder]
  /\ verifyOnly = {} /\ fresh = {} /\ stale = {}
  /\ fits = [e \in Executors |-> FALSE] /\ frees = [e \in Executors |-> {}]
  /\ roof = [e \in Executors |-> 0]

-----------------------------------------------------------------------------
(* The projection of a snapshot.                                           *)

\* canonicalAutomaticLivePositions owns what is filled and not sold, and refuses
\* a ledger in which an order that is not filled has a fill.
Filled(r) == r.state \in {"PARTIALLY_FILLED", "FILLED"}
Owned(r) == Filled(r) /\ ~r.closed
Reconciled == \A o \in Orders : rows[o].filled => Filled(rows[o])

\* Mutants of Releasable: a reservation that lapses with the claim's lease, and one
\* given back when what is filled so far is sold.
ReleasableInTime(o) == rows[o].state = "SUBMITTED" /\ o \notin leased
ReleasableWhenSold(o) == Filled(rows[o]) /\ rows[o].closed
\* releases: a live order that is CANCELED has lastReconciledAt, which applySnapshot
\* sets when it writes the state.
Releasable(o) ==
  \/ rows[o].state = "REJECTED" /\ ~rows[o].filled /\ ~rows[o].intent
  \/ rows[o].state = "CANCELED" /\ ~rows[o].filled
  \/ rows[o].state = "FILLED" /\ rows[o].closed
Releases == {o \in Orders : holds[o] = "HELD" /\ Releasable(o)}

\* Mutant of Charges: only what is reserved.
ChargesNothing(r) == FALSE
\* baseCharges: what the ledger alone says may trade.
Charges(r) ==
  \/ Owned(r)
  \/ r.state \in {"ACCEPTED", "RECOVERY_REQUIRED"}
  \/ r.state = "SUBMITTED" /\ (r.intent \/ r.claimed)

Charged(o) == {o} \cup {x \in Orders : (holds[x] = "HELD" /\ ~Releasable(x)) \/ Charges(rows[x])}
\* The sum of the amounts, counted in units of capital, each of one order.
Units(S) == UNION {{o} \X (1 .. Amount[o]) : o \in S}
Total(S) == Cardinality(Units(S))
Fits(o) ==
  /\ Total(Charged(o)) <= cap
  /\ \A x \in Charged(o) : Instrument[x] = Instrument[o] => x = o

\* What projectAutomaticLiveBudget throws for.
Projects(e) ==
  /\ Reconciled /\ cap > 0
  /\ rows[job[e]].state = "SUBMITTED"
  /\ e \in verifyOnly => rows[job[e]].claimed

-----------------------------------------------------------------------------
(* Writes, and the transactions they refuse.                               *)

Goto(e, l) == pc' = [pc EXCEPT ![e] = l]

\* Whatever is written after the snapshot was read makes it differ.
Outdated == {e \in Executors : pc[e] = "begin"}
\* A transaction that has begun waits for, and loses to, one that changed its row
\* or, if it reserves itself, any other reservation.
LosesRow(o) == {e \in Executors : pc[e] = "commit" /\ job[e] = o}
\* Mutant of LosesReservation: a transaction that is not serializable.
LosesNothing == {}
LosesReservation == {e \in Executors : pc[e] = "commit" /\ e \notin verifyOnly}

\* Mutant of Knowing: a write that leaves the version as it was.
StillKnowing(o, E) == fresh \cup E
\* The version of o goes up: of those that work on o only E know it.
Knowing(o, E) == (fresh \ {e \in Executors : job[e] = o}) \cup E
Write(o, r, E) == rows' = [rows EXCEPT ![o] = r] /\ fresh' = Knowing(o, E)

\* The snapshot of e is of no more use.
Forget(e) ==
  /\ fits' = [fits EXCEPT ![e] = FALSE] /\ frees' = [frees EXCEPT ![e] = {}]
  /\ roof' = [roof EXCEPT ![e] = 0]
End(e) ==
  /\ Goto(e, "idle") /\ job' = [job EXCEPT ![e] = NoOrder]
  /\ verifyOnly' = verifyOnly \ {e}
  /\ Forget(e)

-----------------------------------------------------------------------------
(* TradeExecutionService.execute, of an order that has not been submitted. *)

ReadOrder(e, o) ==
  /\ pc[e] = "idle"
  /\ rows[o].state = "SUBMITTED" /\ ~rows[o].intent
  /\ Goto(e, "snapshot") /\ job' = [job EXCEPT ![e] = o] /\ fresh' = fresh \cup {e}
  /\ UNCHANGED <<db, truth, verifyOnly, stale, fits, frees, roof>>

\* budgetOperation.  A reservation is for the version the executor read; the check
\* reads the row itself.
ReadSnapshot(e) ==
  /\ pc[e] = "snapshot"
  /\ e \in fresh \/ e \in verifyOnly
  /\ Projects(e)
  /\ fits' = [fits EXCEPT ![e] = Fits(job[e])] /\ frees' = [frees EXCEPT ![e] = Releases]
  /\ roof' = [roof EXCEPT ![e] = cap]
  /\ stale' = stale \ {e}
  /\ Goto(e, "begin")
  /\ UNCHANGED <<db, truth, job, verifyOnly, fresh>>

\* Mutant of Admits: the check content with the reservation.
AdmitsHeld(e) ==
  IF e \in verifyOnly THEN e \in fresh /\ holds[job[e]] = "HELD" ELSE fits[e] /\ job[e] \notin leased
\* The check wants the claim to be its own: the row of a SUBMITTED order that was
\* claimed is written next by another claim, or by its claimer.
Admits(e) ==
  /\ fits[e]
  /\ IF e \in verifyOnly THEN e \in fresh /\ holds[job[e]] = "HELD" ELSE job[e] \notin leased

\* The first statements of the transaction, which see the database of now.
Begin(e) ==
  /\ pc[e] = "begin" /\ e \notin stale
  /\ Admits(e) /\ ~rows[job[e]].intent
  /\ Goto(e, "commit")
  /\ UNCHANGED <<db, truth, job, verifyOnly, fresh, stale, fits, frees, roof>>

\* SNAPSHOT_STALE, and error 40001: the snapshot is read again.
Retry(e) ==
  /\ pc[e] \in {"begin", "commit"} /\ e \in stale
  /\ Goto(e, "snapshot") /\ stale' = stale \ {e}
  /\ Forget(e)
  /\ UNCHANGED <<db, truth, job, verifyOnly, fresh>>

\* What the transaction writes; the answer may be lost.
Reserve(e, E) ==
  /\ holds' = [o \in Orders |-> IF o \in frees[e] THEN "RELEASED"
                                ELSE IF o = job[e] THEN "HELD" ELSE holds[o]]
  /\ Write(job[e], [rows[job[e]] EXCEPT !.claimed = TRUE], E)
  /\ leased' = leased \cup {job[e]}
  /\ stale' = (stale \cup Outdated \cup LosesRow(job[e]) \cup LosesReservation) \ {e}

CommitReservation(e) ==
  /\ pc[e] = "commit" /\ e \notin stale /\ e \notin verifyOnly
  /\ \/ /\ Reserve(e, {e})
        /\ Goto(e, "snapshot") /\ verifyOnly' = verifyOnly \cup {e} /\ Forget(e) /\ UNCHANGED job
     \/ Reserve(e, {}) /\ End(e)
  /\ UNCHANGED <<cap, truth>>

CommitCheck(e) ==
  /\ pc[e] = "commit" /\ e \notin stale /\ e \in verifyOnly
  /\ Goto(e, "intent")
  /\ fits' = [fits EXCEPT ![e] = FALSE] /\ frees' = [frees EXCEPT ![e] = {}]
  /\ UNCHANGED <<db, truth, job, verifyOnly, fresh, stale, roof>>

\* beginSubmissionIntent, by compare-and-set.
WriteIntent(e) ==
  /\ pc[e] = "intent" /\ e \in fresh
  /\ Write(job[e], [rows[job[e]] EXCEPT !.intent = TRUE], {e})
  /\ stale' = stale \cup Outdated \cup LosesRow(job[e])
  /\ Goto(e, "toPost")
  /\ UNCHANGED <<leased, holds, cap, truth, job, verifyOnly, fits, frees, roof>>

PostOrder(e) ==
  /\ pc[e] = "toPost"
  /\ truth' = [truth EXCEPT ![job[e]] = "working"]
  /\ End(e) /\ fresh' = fresh \ {e} /\ UNCHANGED <<db, stale>>

\* The catch blocks, after a refusal, a failed check, an unknown answer or the last
\* attempt: there is no intent, so the order is rejected.
Reject(e) ==
  /\ pc[e] \notin {"idle", "toPost"} /\ e \in fresh
  /\ Write(job[e], [rows[job[e]] EXCEPT !.state = "REJECTED"], {})
  /\ stale' = (stale \cup Outdated \cup LosesRow(job[e])) \ {e}
  /\ End(e)
  /\ UNCHANGED <<leased, holds, cap, truth>>

\* CLAIM_UNAVAILABLE, a lost write, or a crash.
GiveUp(e) ==
  /\ pc[e] # "idle"
  /\ End(e) /\ fresh' = fresh \ {e} /\ stale' = stale \ {e}
  /\ UNCHANGED <<db, truth>>

Execute(e) ==
  \/ \E o \in Orders : ReadOrder(e, o)
  \/ ReadSnapshot(e) \/ Begin(e) \/ Retry(e) \/ CommitReservation(e) \/ CommitCheck(e)
  \/ WriteIntent(e) \/ PostOrder(e) \/ Reject(e) \/ GiveUp(e)

-----------------------------------------------------------------------------
(* The rest of the pipeline, the broker, the member and the clock.         *)

\* The order o as BudgetedOrder has it: what may be recorded of it, and what the
\* broker may make of it.
Entry(o) == INSTANCE BudgetedOrder WITH row <- rows[o], truth <- truth[o]

Record(o) ==
  /\ rows[o].state \notin Terminal
  /\ \E r \in Entry(o)!Recorded : Write(o, r, {})
  /\ stale' = stale \cup Outdated \cup LosesRow(o)
  /\ UNCHANGED <<leased, holds, cap, truth, pc, job, verifyOnly, fits, frees, roof>>

\* A canonical exit sells what is recorded as filled, and is recorded.
RecordExit(o) ==
  /\ Owned(rows[o])
  /\ rows' = [rows EXCEPT ![o].closed = TRUE]
  /\ truth' = [truth EXCEPT ![o] = Entry(o)!Sold]
  /\ stale' = stale \cup Outdated
  /\ UNCHANGED <<leased, holds, cap, pc, job, verifyOnly, fresh, fits, frees, roof>>

Broker(o) ==
  /\ \E t \in Entry(o)!Moves : truth' = [truth EXCEPT ![o] = t]
  /\ UNCHANGED <<db, calls>>

SavePolicy(c) ==
  /\ c # cap
  /\ cap' = c
  /\ roof' = [e \in Executors |-> IF roof[e] \in 1..c THEN c ELSE roof[e]]
  /\ stale' = stale \cup Outdated
  /\ UNCHANGED <<rows, leased, holds, truth, pc, job, verifyOnly, fresh, fits, frees>>

LeaseExpires(o) ==
  /\ o \in leased
  /\ leased' = leased \ {o}
  /\ UNCHANGED <<rows, holds, cap, truth, calls>>

Next ==
  \/ \E e \in Executors : Execute(e)
  \/ \E o \in Orders : Record(o) \/ RecordExit(o) \/ Broker(o) \/ LeaseExpires(o)
  \/ \E c \in Caps : SavePolicy(c)
Spec == Init /\ [][Next]_vars

-----------------------------------------------------------------------------
(* Properties.                                                             *)

Exposed == {o \in Orders : truth[o] \notin {"none", "over"}}

\* However many executors reserve at once, from whatever snapshots: what is reserved,
\* with what may trade or is owned without a reservation, is within a limit that has
\* been in force since the last of them read its snapshot.
ReservationFitsCap ==
  [][\A e \in Executors : pc[e] = "commit" /\ pc'[e] # "commit" /\ holds' # holds
       => Total(Exposed' \cup {o \in Orders : holds'[o] = "HELD"}) <= roof[e]]_vars

\* The order that is sent, with all that may still trade or is owned, is within a
\* limit that has been in force since its sender last checked, however the member
\* has moved it since the reservation.
PostFitsCap ==
  [][\A e \in Executors : pc[e] = "toPost" /\ pc'[e] = "idle" /\ truth' # truth
       => Total(Exposed') <= roof[e]]_vars

\* Two entries into one instrument are never working or owned together: the next
\* signal waits until the position is sold, even one older than the reservations.
OneEntryPerInstrument ==
  \A x, y \in Exposed : Instrument[x] = Instrument[y] => x = y

\* No time, crash, retry or unknown answer gives back the capital of an order that
\* may still trade or is owned.
HoldStands == \A o \in Exposed \ Legacy : holds[o] = "HELD"

\* What the reservations are checked against is what OrderExecution lets happen to
\* an order: each entry made under them is one.
OrdersAreEntries == \A o \in Orders \ Legacy : Entry(o)!Spec

\* Capital that was given back is never needed again.
ReleaseIsFinal == \A o \in Orders : holds[o] = "RELEASED" => rows[o].state \in Terminal /\ o \notin Exposed
=============================================================================
