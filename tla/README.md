# TLA+ verification of the trading core

This directory holds TLA+ specifications of the parts of this repository that
move real orders, the TLC configurations that model-check them and the TLAPS
proofs of their main properties. Paths below are relative to the repository;
`services/` stands for `api-server/src/services/`.

Contents: [the system](#the-system) ·
[the modules](#the-modules) · [what is abstracted](#what-is-abstracted) ·
[the runs](#the-runs) · [the proofs](#the-proofs) · [the findings](#the-findings) ·
[what is not modelled](#what-is-not-modelled) · [plan](#plan)

## The system

The API server turns approved trading plans into broker orders (Bitget, Upbit,
Toss, Kiwoom) and keeps a row per order in Postgres (`trade_orders`). A second,
self-contained program, the paper gateway (`trade-execution-gateway/`), is a
simulated order-management system with a durable state file. Around them are
background workers, market-data and research packages and React front ends.

| component | state it keeps | operations | interacts with | hard behaviour | what makes it correct |
|---|---|---|---|---|---|
| Order state machine (`services/trade-order-state-machine.service.ts`) | none | `canTransitionOrder`, `isTerminalOrderState` | every writer of an order | – | final states have no successor |
| Execution (`services/trade-execution.service.ts`) | `executionClaimId`, 30 s lease, `submissionStartedAt`/`AttemptId` | `execute`, `beginSubmissionIntent`, one POST per broker | row, broker | concurrent executions, lease expiry, time-outs after the POST, crash at any await | one POST; the intent is stored first; an unknown outcome is never "rejected" |
| Recovery (`services/trade-order-recovery.service.ts`) | `retryCount`, `manualReviewRequired`, fills | `reconcile`, `applySnapshot`, `pending`, fill correction | row, broker look-ups | stale or missing answers, lost writes, fills after a cancel | fills only grow; ends are the broker's; a human's order stays the human's |
| Recovery worker (`services/trade-recovery-worker.service.ts`, `claim_trade_recovery_orders`) | recovery lease | tick: claim, prepare, reconcile, record failure | row, recovery | a tick outliving its lease; death of a tick | every open order is eventually settled or escalated |
| Cancel (`services/trade-cancel-reconciliation.service.ts`) | `cancelRequestClaimId` | `cancel`, `toRecovery`, `reconcileCancellation` | row, broker, recovery | racing cancels, invalidation, fills | at most one cancel request |
| Plan lifecycle and row access (`services/trade-automation.service.ts`, `.repository.ts`, `supabase/migrations/`) | plans, orders, version column | create, approve, expire, invalidate, `transition` | all of the above | two approvals, approval against expiry, compare-and-set lost | a plan gets one order; no transition outside the table |
| Order amendment (`services/trade-order-amendment.service.ts`) | `amendments` list | `amend`, replay by request id | row, broker | intent written by a compare-and-set that may be lost | one provider mutation per request |
| Automatic live budget (`automatic-live-budget.service.ts`, `reserve_automatic_live_entry_budget`) | entry reservations | reserve with the claim, check before the intent, release | execution, policy, the whole ledger in one snapshot | two entries from one snapshot, lost answers, a limit tightened in between | what may trade or is owned fits the limit; a reservation outlives the doubt |
| Kill switch and run control (`trade-kill-switch`, `trade-automation-run-control`) | policy, run control (label, confirmed markets), global stop | start, stop, emergency stop, resume, settings, loss stop, kill switch | every order path | whole rows saved from old copies, a label written after the policy, swallowed failures | a stop stands until its confirmed resume; LIVE only where acknowledged |
| Split orders (`trade-split-order-*.service.ts`) | child orders | activate, cancel the rest | execution, fills | two fills activating one child | children never exceed the plan |
| Member auto-trading worker | tick state | create plans, execute | plans, execution | overlapping ticks | – (an Executor of the pipeline) |
| Worker lock (`api-server/src/workers/worker-lock.ts`) | lock and heartbeat files | acquire, retire, release | file system | stale-lock take-over | one owner per worker name |
| Work pool, provider admission (`api-server/src/lib/`) | lanes, slots, breaker | run, admit, time out | broker and data clients | late work after a time-out, pool limits | bounded concurrency, no lost slot |
| Paper gateway (`trade-execution-gateway/src/`) | orders, idempotency map, two state files, capital and what its last settlement covered | place, fill, cancel, settle, save, restart | adapter, state stores | await with an old order in hand, failed saves, crash between persist and adapter, what a restart takes for settled | an order is submitted once, what a call did is on disk before it says so, entries fit the settled capital |
| Device trust, Telegram delivery | challenges, delivery claims | claim, deliver, acknowledge | Postgres | duplicate delivery | one delivery per event |
| Market data, scanners, research, prediction; front ends; operations | – | – | – | – | outside the core |

How they interact: everything that happens to one live order happens through
its row. Every call (an HTTP handler, a worker tick, a scan) reads the row,
works on its own copy across many `await`s, and writes it back with
`transition_trade_order_atomic`, a compare-and-set on `(state, version)`. When
the write is lost, `transition` re-reads the row and `Object.assign`s it over
the copy, so a caller never sees an error: it must look at the copy to learn
what happened. That protocol, with broker calls in between, is the core of the
system and what this project models first.

## The modules

| module | models |
|---|---|
| `TradeOrderStateMachine` | the states, the transition table and the terminal states; a constant module the others extend |
| `OrderExecution` | one live order: the row, the concurrent activities that drive it, the broker, leases, crashes |
| `OrderPromise` | what the pipeline promises the owner of a plan; the abstract specification `OrderExecution` implements |
| `MCOrderExecution` | two activities `a`, `b` and the sets the configurations give the constants |
| `OrderExecutionProofs` | the inductive invariants, their lemmas and the theorems |
| `AtomicOrder` | the same order if every call read, decided and wrote the row in one step; the specification `OrderExecution` implements and the other components rely on |
| `AtomicOrderProofs` | its invariant, and that it gives the budget and the amendments what they suppose |
| `BudgetedOrder` | an entry as the budget sees it; what `LiveBudget` lets happen to an order, and what the pipeline's order is |
| `OrderAmendment` | the calls of `amend` for one accepted order at a broker that issues a new order id per amendment (Toss, Kiwoom), beside everything else that writes the row |
| `MCOrderAmendment`, `OrderAmendmentProofs` | its instances and its theorems, whatever else runs and for calls of `amend` that are alone with the row |
| `PlanApproval` | one signal of one member, from the plan through its approval and the insertion of its order to the submission intent, against invalidations and emergency stops |
| `SignalPromise` | what a member is promised of a signal; the abstract specification `PlanApproval` implements |
| `MCPlanApproval`, `PlanApprovalProofs` | its instances and its theorems |
| `RunControl` | one member's policy, run control and the global stop, and every call that reads, changes and saves them |
| `MCRunControl`, `RunControlProofs` | its instances and its theorems |
| `LiveBudget` | the reservations of a member's automatic live entries, from the claim to the release, beside what happens to the orders |
| `MCLiveBudget`, `LiveBudgetProofs` | its instance and its theorems |
| `WorkerLock` | the starts of one worker and the lock and heartbeat files they compete for |
| `MCWorkerLock`, `WorkerLockProofs` | its instance and its theorems |
| `PaperGateway` | the paper gateway: its orders in memory and on disk, the queue of saves, the capital that admits entries, restarts |
| `MCPaperGateway`, `PaperGatewayProofs` | its instance and its theorems |

### OrderExecution: state

| variable | in the code |
|---|---|
| `row` | the order in `trade_orders` (`TradingOrder`, `services/trade-automation.types.ts:356`) |
| `leaseLive` | `execution_claimed_at` younger than 30 s |
| `recLease` | `recovery_lease_owner` while the lease has not expired |
| `op`, `pc`, `copy` | the call an activity runs, its next database or broker call, and its `order` object |
| `fresh` | which copies carry the row's current `version` |
| `seen` | the state of the snapshot that `applySnapshot` is about to write |
| `prov`, `wire`, `cwire` | the order at the broker, POSTs and cancel requests in flight |
| `posts`, `cancels`, `faults` | history counters |

### OrderExecution: actions

One action is one piece of code between two awaits on the database or the
broker. `Save` is `TradeAutomationService.transition`: compare-and-set, and on a
lost write `Merge` (the re-read and `Object.assign`).

| actions | code |
|---|---|
| `ExecuteRead` … `ExecuteFails` | `execute`, `beginSubmissionIntent`, the broker's `executeX`, the catch block |
| `Escalate`, `SkipReconcile`, `ReconcileFails`, `FindOrder`, `Lookup`, `ApplySnapshot`, `BeginCorrection`, `CorrectFill`, `ApplyFails` | `reconcile`, `pending`, `validateSnapshot`, `applySnapshot`, the fill correction inside `transition` |
| `WorkerClaim`, `RecordFailure`, `ScanRead` | the worker's tick and `POST /recovery/scan` |
| `CancelRead` … `StillPending`, `InvalidateRead`, `InvalidateOrder` | `cancel`, `toRecovery`, `reconcileCancellation`, `invalidatePlan` and its route |
| `PostArrives`, `CancelArrives`, `ProviderFills`, `ProviderCloses` | the broker and the network: accept, refuse, lose, fill, close, fill after cancel |
| `ExecutionLeaseExpires`, `RecoveryLeaseExpires`, `Crash` | the clock, and a process that dies (or an exception that leaves the call) between any two steps |

### AtomicOrder and BudgetedOrder

`AtomicOrder` has the row (`Plain`: ids reduced to whether they are set), the
number of POSTs, whether one is in flight, and the broker's order; no copies,
versions, leases or calls. Each action is one write that some call may make of the row as it stands:

| actions | the writes of |
|---|---|
| `Refuse`, `Claim`, `RecordIntent`, `Acknowledge`, `SubmissionFails` | `execute` and its catch block |
| `Escalate`, `ReconcileFails`, `Reconcile`, `CorrectFill` | the recovery worker, `reconcile`, `pending`, `applySnapshot`, the fill correction |
| `CancelClaim`, `Invalidate` | `cancel`, `invalidatePlan`; `Noted` is a cancel's note that goes with another write |
| `Post`, `PostArrives`, `ProviderFills`, `ProviderCloses` | the broker, which forgets its cancel requests: it may close an order at any time |

What it promises is that a decision taken from an old copy has no effect that it would not
have had on the row as it stands (`WritesAreAtomic`).

`BudgetedOrder` keeps of the row what the reservation looks at (state, claim,
intent, whether anything is filled, whether the position is closed) and of the
broker what the order may come to (`truth`). `LiveBudget`'s `Record`,
`RecordExit` and `Broker` are defined by it (`Entry(o)`), so what the budget's
model supposes of an order is in one place, and is shown of the pipeline's order (`ServesBudget`).

### OrderAmendment: state and actions

`row`, `pc`, `copy`, `fresh` and `prov` are those of `OrderExecution`, with the
row reduced to what `amend` reads and writes and extended by the list
`amendments` (a status per request id). `req[p]` is the request a call serves,
`mail` the amendments sent with the broker's answers; the n-th amendment makes
the order's id n, so `prov.id` is the id in force.

| actions | code |
|---|---|
| `AmendRead`, `RecordReplay` | the fresh read, `latestAmendment`, `assertAmendRiskBounds`; the replay of an unfinished request |
| `RecordIntent`, `SendAmend`, `AmendThrows`, `PostQuery` | the intent's write, `providerAmend` up to the mutation, its failures, the look-up under the new id |
| `RecordResult`, `AmendFails` | the write of either result, the catch clause |
| `Escalated`, `CancelWritten`, `Reconciled` | what the activities of `OrderExecution` write |
| `AmendArrives`, `ProviderFills`, `ProviderCloses`, `Crash` | broker, network, process |

The writes of the other activities are atomic here, as `OrderExecution` shows they
may be taken to be; a cancel's note may go with any of them, and recovery may
hand the order to a human. Theorem `OrderServesAmendment` shows that these are the pipeline's
writes of an order the broker does not refuse, as long as it
books no fill after it reported a cancel. (The correction such a fill leads to is
`OrderExecution`'s subject and left out.) The constant `Others` says when they run: `"never"`,
`"between"` calls of `amend`, or `"always"`.

### PlanApproval: state and actions

| variable | in the code |
|---|---|
| `plan`, `order` | the rows of `trade_order_plans` and `trade_orders` for the signal's idempotency key; `"none"` before they exist |
| `policy` | the member's policy (`automaticEnabled`, and the member's and the global stop as one flag) |
| `late` | `approvalExpiresAt` has passed |
| `pc`, `mine`, `copy` | a call's next database access, and the plan and the order it holds |
| `clean`, `calm`, `faults` | history: stops without a failed cancel, an answered stop that stands, crashes |

| actions | code |
|---|---|
| `Submit`, `FindPlan`, `InsertPlan` | `POST /plans`, the worker's `executeAutomaticPlan`, `createPlan`, `insertPlan` |
| `BeginAutomatic`, `ApproveRead`, `Decide`, `ApprovePlan`, `ExpirePlan` | `approvePlan`, `beginAutomaticPlan`, `compareAndSetPlan` |
| `CreateOrder`, `InsertOrder` | `createOrder`, `create_trade_order_atomic` |
| `ExecuteRead`, `Precheck`, `ClaimExecution`, `RecheckPlan`, `RecheckPolicy`, `AutomaticControls`, `RecordIntent`, `ExpireBlocked`, `PreflightFails`, `RejectOrder` | `execute` up to `beginSubmissionIntent`, with `TradePreSubmissionRiskService.evaluate` and the catch block |
| `InvalidateRead`, `InvalidateFind`, `InvalidateExpire` | `POST /plans/:id/invalidate` |
| `Stop`, `ListOrders`, `CancelRead`, `CancelClaim`, `CancelFails`, `StopAnswer` | the emergency-stop routes, `cancelOpenEntryOrders`, `cancel` up to its claim |
| `PrepareRecovery` | the recovery worker, or a cancel that failed: the order goes to recovery |
| `SavePolicy`, `LiftStop`, `ApprovalTimesOut`, `Crash` | whoever saves the policy, whatever clears a stop, the clock, the process |

`PlanApproval` follows the order to its submission intent, or to recovery, where `OrderExecution` takes
over; a call that composes a plan is followed until there is one.
It says who executes (`SoleExecutor`) and with what authority; `OrderExecution` starts
from an order that any number of calls may execute, so it needs neither.

### RunControl: state and actions

| variable | in the code |
|---|---|
| `policy` | the payload of `trade_automation_profiles`: the switch (`mode` and `automaticEnabled`), the enabled markets, `newEntriesStopped`, `emergencyStopped` |
| `control` | `trade_automation_run_controls`: `lastAction` (the label of the last change) and `liveConfirmedMarkets` |
| `global` | `trade_system_controls`, or `TRADING_EMERGENCY_STOP` |
| `op`, `pc`, `got`, `mine`, `ctl` | a call, its next access, which of its parallel reads are back, and its copies |
| `halt`, `acked`, `overlapped`, `faults` | history: how far a stop came, the markets acknowledged, whether two calls overlapped |

| actions | code |
|---|---|
| `MemberCalls`, `RiskFails`, `ReadPolicy`, `ReadControl`, `ReadGlobal`, `ReadLabel` | the routes, `tripKillSwitchForRiskFailure`; `getPolicy`, `readAutoRunControl` (a failed read counts as the default), `getGlobalEmergencyStop` |
| `StartRefused`, `AlreadyRunning`, `Start`, `Stop` | `startAutoRun`, `stopAutoRun` |
| `EmergencyStop`, `Resume`, `SaveSettings`, `SettingsRefused`, `SaveCapital` | `POST /emergency-stop`, `POST /resume`, `PUT /policy` with `enforceMemberTradingPolicy`, the two admin routes |
| `LossStop`, `LossStopFails`, `TripNothing`, `TripMember`, `TripSystem`, `KillStop`, `KillStopStands` | `autoStopRunForLossLimit`, `killSwitchReasons` and its scope, `killSwitchStopMemberEntries` |
| `Record`, `RecordLost`, `Crash`, `SetGlobal` | `recordAutoRunChange`, its swallowed failure, a call that dies, `setGlobalEmergencyStop` |

`PlanApproval` takes from it what it needs: a stop that any failed check may set
and any save may lift.

### LiveBudget: state and actions

| variable | in the code |
|---|---|
| `rows`, `leased` | the order's state, claim, intent and fill in `trade_orders`; claimed less than 30 s ago |
| `holds` | `trade_live_budget_reservations` |
| `cap` | the member's limit; 0 is a stop |
| `truth` | what the broker has of each order |
| `pc`, `job`, `verifyOnly`, `fresh` | where an executor is in `execute`, its order, whether it checks or reserves, whether its copy has the row's version |
| `stale`, `fits`, `frees` | whether its transaction will be refused, and what its snapshot said |
| `roof` | history: the largest limit since its snapshot |

| actions | code |
|---|---|
| `ReadOrder`, `ReadSnapshot`, `Begin`, `Retry`, `CommitReservation`, `CommitCheck` | `execute`, `budgetOperation` with `projectAutomaticLiveBudget`, and the SQL function: its reads, its refusal (`SNAPSHOT_STALE`, error 40001), its writes |
| `WriteIntent`, `PostOrder`, `Reject`, `GiveUp` | `beginSubmissionIntent`, the POST, the two catch blocks, a call that ends without a write |
| `Record`, `RecordExit`, `Broker` | what recovery, acknowledgements and cancels record of an order, the fill of an exit, the broker |
| `SavePolicy`, `LeaseExpires` | the member, the clock |

`Record`, `RecordExit` and `Broker` are actions of `BudgetedOrder` for one order. The projection is what the modelled operators say: `Releasable` (the three
proofs that free a reservation), `Charges` (`baseCharges`), `Charged` and `Fits`
(the SQL's union of reservations, charges and the candidate), `Reconciled` (what
`canonicalAutomaticLivePositions` refuses). What `OrderExecution` shows of one
order's intent and POST is used here: an intent is written once and followed by
at most one POST.

### WorkerLock: state and actions

| variable | in the code |
|---|---|
| `lock`, `written` | the start whose file the lock path names, and whether its record is in it |
| `beats`, `late`, `aged` | heartbeat files, those older than `staleMs`, starts whose `createdAt` is |
| `pc`, `seen`, `tries` | where a start is in `acquireWorkerLock` or `release`, the record it read, its attempt |
| `overlapped`, `stalled`, `faults` | history: two starts acquired at once, a live process fell silent |

`Create` … `Tidy` are the file operations of `acquireWorkerLock`,
`activeLock` and `retireStaleLock`; `Beat` the timer, `StopSignal`, `Check`,
`Unlock`, `Unbeat` the end of `runWorker` and `release`; `Age`, `GrowLate` the
clock.

### PaperGateway: state and actions

| variable | in the code |
|---|---|
| `orders`, `file` | `#orders` with `#idempotency` (one order per key), and what the state file holds |
| `writes` | `FilePaperStateStore.#writeQueue`: each snapshot with the call that waits for it |
| `capital`, `credited`, `capitalFile` | `PaperCompoundingCapitalManager.#state`, what a failed save puts back, its file |
| `settled` | `#settledOrderIds` of `CapitalManagedPaperGateway` |
| `pc`, `job`, `copy` | a call, its key, the order `cancelOrder` holds while the adapter answers |
| `told`, `recalled`, `unsaved` | history: what callers were told that a save has confirmed, what they were told from memory that none has, and whether the last save failed |
| `submitted`, `overlapped`, `early`, `faults` | history: submissions, a fill that met a cancel, a settlement that covered more than clock or disk knew, faults |

| actions | code |
|---|---|
| `PlaceOrder` | `placeOrder` of the two gateways up to the first save: the turn in `#entryQueue`, `currentCommittedExposure`, `assessAdmission`, the order's creation |
| `ApplyPaperFill`, `CancelOrder`, `CancelAnswered` | `applyPaperFill` with `applyPaperFillTransition`; `cancelOrder` before and after the adapter |
| `PlaceRepeated`, `CancelRepeated` | `placeOrder` under a known key and `cancelOrder` of a canceled order, which answer from memory at once |
| `SaveNow` (`Submit`, `Answer`), `SaveFails` | `save`, `#saveNow`, and what the waiting call does next: submit to the adapter, answer, or throw |
| `ApplyCapitalSettlement`, `InitializeWallet`, `CapitalSaved`, `CapitalSaveFails` | `applyCapitalSettlement` with `applySettlement`, `initializeVirtualPaperWallet`, the rollback |
| `Restart`, `Tick` | `load`, `restorePaperState`, `seedSettledOrderIdsAfterRestart`; the clock |

`PROJECT.json`'s `map` gives the exact lines of every definition.

## What is abstracted

- **Version.** `fresh` is exact: a write that applies increments the version, so
  only its writer's copy stays current; a read or a lost write re-reads the row.
  A lost write and its re-read are one step, taken at the re-read; what other
  activities do in between commutes with it.
- **Ids.** A random id is the activity that drew it.
- **Data.** Quantities are 0..`Qty`; prices, fees, timestamps and log fields are
  left out. `exchangeUpdatedAt` and the other checks of `validateSnapshot` that
  refuse a malformed answer are the failure branch `ReconcileFails`; the check
  on the fill's regression, which orders answers, is modelled.
- **Retry timing.** `nextRetryAt` is left out: an early retry returns unchanged.
  `retryCount` is capped at 3, where the code already requires review.
- **Storage errors.** `SaveFails` covers a database call that fails before or
  after it applied. In `applySnapshot` this is the ordinary write followed by a
  failing or fresh look-up. A claim whose response is lost is a claim and a crash.
  `RecordFailure` is the worker's answer to one database error; when the write of
  `pending` fails after another error, and then counts twice, the tick is taken to end there.
- **Look-ups.** Toss's two requests are two steps (`FindOrder`, `Lookup`); the open list and the
  history of Kiwoom, and a token's renewal, are one with the look-up they belong to.
- **Answers to a cancel.** `cancelAcknowledgedAt` and `lastErrorCode` are not kept: whether an order in
  `CANCEL_REQUESTED` shows one is left open in `CancelEntry`, so `cancel` may query where the
  code returns, as the worker may at any time.
- **Live mode only.** The paper and mock branches of `execute` do not send
  anything. The kill switch that `transition` may trip is a separate component.
- **Checks before the claim** (`connection`, policy, budget …) may each refuse the
  order: `Refuse`. They read other tables and do not write the row.
- **Roles.** The sets `Executors`, `Workers`, … say which calls an activity may
  make; one activity makes its calls one after another, as often as it likes.

In `OrderAmendment`: the broker that accepts an amendment closes the order under its old id.
A Kiwoom answer without the new id makes the code look for the old one, which is
not open then; so that look-up does not confirm, and the old id is kept (`PostQuery`).

In `PlanApproval`, besides:

- **One signal.** All submissions have one idempotency key. Plans of other keys
  have rows of their own and meet this one only in the limits that
  `evaluateTradingPlan` checks, whose outcome is free.
- **Checks** that read the market, the account or the broker may pass or fail, and
  a failing one may trip the kill switch.
- **The policy** is one record and changes in one step. Any call may save it at any
  time: a failing check of another order trips the stop, the run switch and the
  settings may switch automatic trading on while entries are stopped. `savePolicy` compares
  nothing, so a writer that read it before a stop takes the stop back. `LiftStop`
  therefore may happen at any time, and `StopHolds` speaks of a stop that stands.
- **The order's row** after a lost write is not looked at by any of the modelled calls
  before they end, so a lost write ends the call or leads to its rejection.

In `RunControl`, besides: the limits, strategies and assets of the policy are left
out, a market stands for its asset class with its exchange, and `Live` is the set
of markets whose server gates are open. The audit rows are not state anything
reads.

In `LiveBudget`, besides:

- **One limit.** The total, market, instrument, strategy, risk and position limits
  are sums over the same charges compared with a bound of the policy; one stands for all. The rule that
  an instrument has one charge is modelled as it is.
- **Amounts** are the planned ones. A fill may be charged at a higher price, which
  only raises a charge.
- **A snapshot** is kept as what the caller computes from it: whether the order
  fits and what may be released. `stale` is exact: every write of rows, policy or
  reservations after the snapshot makes the comparison fail, and a write between
  the transaction's first statement and its commit makes the serializable
  transaction fail if it touches the same row or, for a reservation, the same
  table.
- **The plan** stays as approved.
- **Releases.** A cancelled order is released once `lastReconciledAt` is set. For a live order it always is: only
  `applySnapshot` writes `CANCELED`, and it sets both.
- **Late fills**, those the broker books after it reported a cancel, are left out
  (see the observations).

In `WorkerLock`: a start is one process with a token of its own, and the file
operations are atomic each. `mkdir`, errors other than `EEXIST` and `ENOENT`,
and a heartbeat write still under way when the timer is cleared are left out.

In `PaperGateway`:

- **Orders** are LIMIT orders valued in won, filled at their limit, the worst
  price a fill may have; so what an order ties up is its notional, and what a
  cancelled one owns its filled part. The time of an order and of a settlement
  are ticks of one clock.
- **Calls.** Between two awaits nothing else runs; what a call does after its save
  is one step with it. A call that is refused, and a read, changes nothing and is left
  out; a call that is repeated changes nothing either, but its answer counts (`told`).
- **The adapter** takes an order or throws; it cancels what it has.
- **Sums** of won are counts of units (`Units`), a pair for each won of each order.
- **A settlement's** sequence number is the next one, its identity is new.

Deadlock checking is off in the runs of `OrderExecution`, `OrderAmendment`, `WorkerLock` and `PaperGateway`: once the orders are final and every
activity idle, or every start has ended, the modelled system really stops. In `PlanApproval`, `RunControl` and
`LiveBudget` the member always has something to do, so their runs keep deadlock checking on. Progress is stated by the
liveness properties instead.

## The runs

Two activities suffice to show each interleaving the code defends against (a
claimer and its successor, a tick and the one that took its lease, a cancel and
a rival); the proofs cover any number. `Qty = 2` distinguishes open, partly
filled and filled. `MaxFaults = 1` allows one crash or early lease expiry
anywhere, lost messages and ordinary lease expiries are not bounded. `posts` and
`cancels` are capped at 2, one above what is allowed.

| run | instance | shows |
|---|---|---|
| `submit` | both activities execute and run worker ticks, one may invalidate the plan; Bitget/Upbit-like broker, which knows the pipeline's own id, with stale look-ups | `TypeOK`, `AtMostOnePost`, `PostBehindIntent`, `NoFalseRejection`, `EvidenceNeverLost`, `ManualReviewStands` |
| `cancel` | both cancel, one also executes, the other also runs the restart scan; late fills; Kiwoom-like broker, which only knows its own id | `FillsBacked`, `CancelAtMostOnce`, `TerminalIsFinal`; `KeepsPromise` and `WritesAreAtomic`: `OrderExecution` implements `OrderPromise` and `AtomicOrder` |
| `liveness` | an executor that also cancels, a worker, one fault; Toss-like broker, which without its id only lists open orders | `OutcomeLearned`, `SubmissionSettled`: the order a crash left without an id is found while open, or ends with a human |
| `amend_alone` | one call at a time, two requests, up to three sends, two faults, the other writers between the calls | `AmendAtMostOnce`, `RowTracksOrder` |
| `amend_race` | two concurrent calls, one request, the others at any time | `TypeOK`, `AckIsTrue`, `NothingForgotten` |
| `amend_twice` | two concurrent calls with one request | `AmendAtMostOnce` is **violated** |
| `approval` | a composer, a worker, an approver, an invalidator, a stop, one fault | `TypeOK`, `SubmissionIsApproved`, `SoleExecutor`, `StopHolds`, and `SignalKept`: `PlanApproval` implements `SignalPromise` |
| `run_control` | a member and a risk failure, which may overlap, one market, which is LIVE, one fault | `TypeOK`, `SerialStopStands`, `LiveAcknowledged`, `StopClearedKnowingly` |
| `stop_lost` | two overlapping calls of the member, no fault | `StopStands` is **violated** |
| `live_budget` | two executors, two entries and an older fill, of which one shares an entry's instrument; two limits | `TypeOK`, `ReservationFitsCap`, `PostFitsCap`, `OneEntryPerInstrument`, `HoldStands` |
| `worker_lock` | three starts, two attempts each, one crash or stall | `TypeOK`, `RunnerHoldsLock`, `NoLockout` |
| `paper` | two calls at a time, two entries of two lots, a loss and a profit of two milestones, two settlements after the wallet, one failed save or restart | `TypeOK`, `SubmittedOnce`, `DoneIsDurable`, `ReservedOnce`, `AdmittedWithinCapital` |

For amendment, two requests show how one call's write treats another's entry,
and `MaxSends` exceeds the requests by one in `amend_alone` and `amend_race`, so
that a second sending of a request would be seen. `amend_alone` has two faults: a call that dies after
sending, and its repetition that dies too. `amend_race` has one request for size; the theorems
about `AckIsTrue`, `NothingForgotten` and `ClosedStaysClosed` hold for any number. Symmetry is over the two
callers, in runs without liveness properties.

For approval, one call of each kind suffices for every race of two kinds, and each
call may be made again once it is over; a second call of the same kind adds
nothing that the worker beside the approver, or the stop's repetition, does not
show. The fault (a crash or a failed cancel) may hit any of them. The theorems
hold for any number of each. No bound is put on the
versions: a plan is written at most twice and an order at most three times.

For run control, a member's call beside a risk failure is the least that can
overlap, and each may be repeated in any order (two calls of the member overlap in `stop_lost`); `overlapped` separates the histories
`SerialStopStands` speaks of from the others, which the same run contains. One fault
loses one record or read, or ends one call. The theorems hold for any number of
calls, markets and faults.

For the budget, two executors may work on one order or on two; the three amounts
are such that all together are over every limit, and the two entries with the
older fill's position fit or do not fit depending on the limit, which may change at any
time: under the smaller one (2) the larger entry fits beside nothing else, under the larger one (3) beside either of the
others. A limit of 0, a stop, refuses every order alike; the theorems cover it. There is no bound on attempts, leases or crashes. The symmetry is of the executors.

For the lock, three starts are a holder and two rivals, or a start after the
remains of two; two attempts are one that retires and one that creates.

For the paper gateway, one of the two entries fits the capital, and both do when
a cancel has left half of the first; two calls are a fill or a settlement beside
an entry or a cancel. The equities 80 and 121 beside a first capital of 100, which the wallet or the limit
gives, are a loss and two milestones at once, so that profit can be made, lost and made
again; `MaxSteps` is 2 instead of the code's 64. Settlements are dated by
the clock (`Ahead = 0`), which has one tick: an order may be as old as a settlement or older.
A restart reads either version of a file whose save it interrupts. Both orders are entries: a sale
differs in waiting for nobody, which the fills and cancels show. The symmetry is
of the calls and of the two orders.

**Fairness** (`LiveSpec`): a call that has begun takes its next step (`WF` of
`Step(p)`: the event loop runs it, each database call returns and each broker
call has a time-out), the worker's interval timer fires (`WF` of `WorkerClaim`),
and a lease whose owner is gone runs out. Nothing is assumed of users,
of further executions, of the broker or of messages in flight, and neither
property needs them: an order the broker never reports on ends with a human
after three attempts. `WorkerLock`'s `FairSpec` says that a start that
acquires or releases goes on (each file operation returns), unless it crashes; nothing is assumed of stop
signals, the clock or the timer.

Each property has a mutant of the code it is about (dropped claim comparison,
catch block that ignores the intent, compare-and-set without the version,
forgotten retry count, …) under which TLC finds it violated; the mutants stand
beside the definitions they change.

## The proofs

`OrderExecutionProofs` proves, for every set of activities in every role, every
quantity, every kind of broker and any number of faults:

| theorem | statement |
|---|---|
| `Consecution` | every step keeps `IInv`, and replaces the row only by one that extends it (`Advanced`) |
| `TypeCorrect` | `Spec => []TypeOK` |
| `SingleSubmission` | `Spec => []AtMostOnePost` |
| `IntentFirst` | `Spec => []PostBehindIntent` |
| `RejectionIsTrue` | `Spec => []NoFalseRejection` |
| `RowIsBacked` | `Spec => []FillsBacked` |
| `EvidenceStands`, `EndIsFinal`, `ReviewStands` | `Spec => EvidenceNeverLost`, `TerminalIsFinal`, `ManualReviewStands` |
| `Implements` | `Spec => KeepsPromise`: the pipeline implements `OrderPromise` (each step by `StepImplements`) |
| `Linearizes` | `Spec => WritesAreAtomic`: it implements `AtomicOrder` |
| `OrderFollowsTable` | `Spec => StatesFollowTable`: no stored row ever moves outside the table, but by the fill correction |

It adds, on `Invalidators = {}` (no `POST /plans/:id/invalidate` beside the cancels):

| theorem | statement |
|---|---|
| `ClaimsKept` | every step keeps `ClaimInv` |
| `CanceledOnce`, `CancelClaimed` | `Spec => []CancelAtMostOnce`, `[]CancelBehindClaim` |

and on `~LateFills`, for the components that rely on the order:

| theorem | statement |
|---|---|
| `OrderServesBudget` | `Spec => Proved!ServesBudget`: the order is a `BudgetedOrder` |
| `OrderServesAmendment` | `Spec => Proved!ServesAmendment`: an order the broker does not refuse is one of `OrderAmendment` without callers |

`AtomicOrderProofs` proves, for every quantity:

| theorem | statement |
|---|---|
| `AtomicInvariance` | `Spec => []AInv` |
| `FollowsTable` | `Spec => StatesFollowTable` |
| `Serves`, `ServesAmend` | on `~LateFills`: `Spec => ServesBudget`, `ServesAmendment` |

`OrderAmendmentProofs` proves, for every set of callers and requests, every
quantity, whatever else runs and any number of faults and sends:

| theorem | statement |
|---|---|
| `Consecution` | every step keeps `IInv` and only advances the row (`Advances`) |
| `TypeCorrect` | `Spec => []TypeOK` |
| `AcknowledgedInForce` | `Spec => []AckIsTrue` |
| `RecordStands`, `ClosedIsFinal` | `Spec => NothingForgotten`, `ClosedStaysClosed` |

It adds, on `OneAtATime` (at most one caller, and `Others` not `"always"`):

| theorem | statement |
|---|---|
| `AloneKept` | every step keeps `AloneInv` |
| `AmendedOnce`, `IdTracked`, `NoFillAmended` | `Spec => []AmendAtMostOnce`, `[]RowTracksOrder`, `[]PartialFillNotAmended` |

`PlanApprovalProofs` proves, for any number of calls in every role and any number
of faults:

| theorem | statement |
|---|---|
| `Consecution` | every step keeps `IInv` and what the action properties promise |
| `TypeCorrect` | `Spec => []TypeOK` |
| `OnlyApproved`, `UserApproves`, `OneExecutor` | `Spec => []SubmissionIsApproved`, `[]ManualNeedsApproval`, `[]SoleExecutor` |
| `DecidedOnce`, `StopIsComplete` | `Spec => PlanDecisionIsFinal`, `StopHolds` |
| `Implements` | `Spec => SignalKept`: the calls implement `SignalPromise` |

`RunControlProofs` proves, for any callers, markets and faults:

| theorem | statement |
|---|---|
| `TypeCorrect` | `Spec => []TypeOK` |
| `StopStandsAlone` | `Spec => []SerialStopStands` |
| `LiveIsAcknowledged` | `Spec => []LiveAcknowledged` |
| `StopsClearedKnowingly` | `Spec => StopClearedKnowingly` |

`LiveBudgetProofs` proves, for any orders, amounts, instruments, limits and executors:

| theorem | statement |
|---|---|
| `Consecution`, `Invariance` | every step keeps `IInv` |
| `TypeCorrect` | `Spec => []TypeOK` |
| `HoldsStand`, `ReleasedForGood`, `OneEntry` | `Spec => []HoldStands`, `[]ReleaseIsFinal`, `[]OneEntryPerInstrument` |
| `ReservationFits`, `PostFits` | `Spec => ReservationFitsCap`, `PostFitsCap` |
| `EntriesAreOrders` | `Spec => OrdersAreEntries`: every entry, seen by itself, is a `BudgetedOrder` |

`WorkerLockProofs` proves, for any number of starts, attempts and faults:

| theorem | statement |
|---|---|
| `TypeCorrect` | `Spec => []TypeOK` (no start exceeds its attempts) |
| `LockIsHeld`, `OneRuns` | `Spec => []RunnerHoldsLock`, `[]Exclusive` |

`PaperGatewayProofs` proves, for any calls, keys, prices, lots and bounds:

| theorem | statement |
|---|---|
| `GatewayInvariant`, `CapitalInvariant` | `Spec => []IInv`, `[](IInv /\ CapitalOK)` |
| `TypeCorrect` | `Spec => []TypeOK` (an order is filled when all its lots are) |
| `OrderSubmittedOnce`, `ReportedIsDurable` | `Spec => []SubmittedOnce`, `[]DoneIsDurable` |
| `AdmittedFits` | `Spec => AdmittedWithinCapital` |
| `ProfitReservedOnce` | `Spec => []ReservedOnce` |

Apart from the three hypotheses named above, all theorems use the named assumptions on the constants only. For `OrderExecution`: `NoOne` is no activity,
`Qty` is positive, the broker is one of the three kinds, the flags are Boolean
and `MaxFaults` is a natural number. For
`OrderAmendment`: `NoRequest` is no request, `Qty` is positive, the bounds are natural numbers, and
`Others` is one of the three regimes. For `PlanApproval`: the roles are disjoint,
`NoOne` has none of them and `MaxFaults` is a natural number. For `RunControl`:
the roles are disjoint, LIVE markets are markets. For `LiveBudget`: finitely many
orders, amounts are positive, and the fills from before the reservations have different instruments. For
`WorkerLock`: `NoStart` is no start and there is at least one attempt. For `PaperGateway`:
there are finitely many keys, some of them entries, `NoKey` is none, lots and prices are positive, bounds are natural numbers.

**The argument for `OrderExecution`.** None of the properties is inductive: an old copy might say
anything. `IInv` adds what makes a copy harmless.

- `RowAgrees`: a copy with the row's version has the row's state and review flag,
  its intent if there is one, and at least its fills, id and cancel claim. So a
  write that the compare-and-set lets through extends the row (`CopyWriteOK`),
  and every other write changes nothing.
- `HeldOK` says what may be held at each step. Its key conjuncts: an activity
  that claimed but lost the version finds another claim, another intent or
  another state in the row; so the one that proceeds to the POST is the one
  whose intent stands in the row (`pc[p] = "toPost" => row.intent = p`), which is
  unique and was written when no intent, hence no POST, existed.
- `BrokerOK` ties the history to the broker: at most one POST, from the intent's
  owner, and an order only after it. `RowOK` makes a final row true of the broker.

The refinement reads the abstract phase off the row (`PhaseOf`). A step sends the
order (`PostsStep`) or extends the row (`Advanced`); `FinalWasSent` says which
rows and fills only a sent order can have, so each extension of the row is one
action of `OrderPromise` or a stutter.

For `AtomicOrder`, agreement with the row is not enough: a call's decision must be
one the row allows. `ShadowInv` says what a copy, even an old one, still tells of the row: an order that had left
`SUBMITTED` has left it for good and kept its execution claim (so a copy read since names it), a cancel claim that was noted is
on record, and what is about to be applied is a picture the broker may still
have given (`PictureOK`). A write that applies is then an action of `AtomicOrder` on
the row it replaces (`SaveShown` once for all of them); one that
is lost is a stutter, and so are leases, crashes and cancel requests. The
theorems about `AtomicOrder` then hold of the pipeline (`Proved` is `AtomicOrderProofs` at `Plain(row)`):
they need an invariant of a few lines, `AInv`, and one case per write, instead
of `IInv` and forty actions.

The components fit together at this point. `LiveBudget` proves each of its entries
to be a `BudgetedOrder` and counts on nothing else of what happens to one; `OrderServesBudget` proves the
pipeline's order to be one, with `Entry` and `Truth` as refinement mapping. For
`OrderAmendment`, the mapped order is in state `ACCEPTED` until it is known to be, and
without a caller only its three rewrites and the broker are left; the extra
invariant `Calm` says that an order outside recovery is not under review and has
no failed attempts.

For cancels (`ClaimInv`): while the row has no claim, an activity holds none but its
own (`OwnClaims`); a claim about to be written is known to nobody else
(`ClaimantOK`), so the row that comes back from a lost write cannot name the loser;
and whoever is about to send is alone, and nothing was sent (`SenderOK`). The
hypothesis is needed because an invalidation writes `CANCEL_REQUESTED` without a claim, which
leaves a rival with its own claim in memory (see the observations); the run
`cancel` has no invalidator either.

`SaveKeeps` carries the argument once for all writes; `Bystander` once for all
activities that look on; each action then has a lemma of a few steps.

**The argument for `OrderAmendment`** rests on three facts of every copy, old or
new: an acknowledgement in it is backed by an accepted amendment whose number is
at most the copy's order id (`AckBacked`, inductive because mail only grows);
a copy with the row's version has the row's state and fills and at least its
requests (`AgreesWithRow`), so a write that applies forgets nothing; and a call
that waits for an answer asked later than the id it holds (`HeldOK`), so taking over the new
id never steps back. A closed row is not written because the copy that could
pass the compare-and-set has the closed state, and `assertOrderTransition`
refuses every transition out of it.

A call that is alone holds the row itself (`CallOK`), so its intent is on record
before it sends. The request is unfinished in the row until its answer is in
(`MailOK`), which stops every repetition, and only the last amendment sent can
change the order's id (`TracksOK`). The hypothesis is necessary: `amend_twice`
refutes `AmendAtMostOnce` for two callers.

**The argument for `PlanApproval`.** Who holds what at which step is in
`HoldsPlan` and `HoldsOrder`: a call about to write a decision holds a pending
plan, so its write only applies while the plan is pending; a submitted plan is
then changed by the one executor's blocked recheck only, hence what that executor saw at
its recheck is still so at its intent. There is one executor because the order is
inserted once and only its inserter goes on.

`StopHolds` needs more than that: an executor may be past its recheck when the stop is
saved. `Closed` says that entries are stopped and that whoever stands between the
recheck and the intent holds an out-of-date copy of the order, so its intent
will be lost. `HoldsStop` shows that every stop without a failure ends there: it
read the order, and then either its cancel applies or somebody has written the
order since; a write moves the version on (`Closing`), and the recheck that comes
after the stop sees it. An order that the stop did not find is inserted after the
stop was saved, with all of its recheck to come.

The refinement reads decision, mode and approver off the plan's row, and the submission off
the order's intent. Each call is at most one step of `SignalPromise` at a time (`Signalled`): it writes the
plan, or the order, or answers. `SignalInv` adds that every copy of the plan, old or new, has the
plan's mode, and that no user's call is about to approve an automatic one; so an approval
that the compare-and-set lets through is by whoever the mode says. That a submitted signal does not
expire is `SubmissionIsApproved` of the state after the step, and that it is not submitted under an answered stop is the argument above.

**The argument for `RunControl`.** `LiveAcknowledged` holds through every overlap
because it is carried by each copy: whatever any call may save, and whatever
confirmations it may record, was acknowledged before (`EveryCopyAcknowledged`),
and acknowledgements are never taken back. `SerialStopStands` needs that a call
alone holds the row it read (`Current`), that one which saved a stop finds it at
its record (`Stopping`), and `Halted`: a stop that stands is an emergency stop,
which no label lets the switch restart, or its label is not that of a loss stop.
The loss stop itself runs only when no stop stands, so its label cannot replace
a kill switch's.

**The argument for `LiveBudget`.** An order that may trade was posted, hence has
an intent, hence a claim, hence a reservation (`RowsTrue`, `Held`); a reservation
is released only when the row proves the order over, and no later write unproves
it, so a released order is not exposed. For instruments, `Apart` says that what
is reserved or an owned old fill is of different instruments, and `Clear` that a
reservation about to commit sees no other charge of its instrument: its snapshot
saw none, and any other reservation since has made it stale. `Begun` and `Copies`
add that its copy is current, so that the row is unclaimed or its own.

A sum counts units of capital (`Units`), so that it grows with the set of orders:
the only law of sums the proofs need. `Affordable` bounds what is reserved and
exposed once a pending reservation commits; between its snapshot and its commit
that set can only shrink, because every other reservation makes it stale.
`Covered` bounds what is exposed and what those who passed their check may still
send. It grows only when another executor passes; that one's snapshot contains the
orders of all who passed before, as their rows are claimed, and fits the limit of
now, which is at most the `roof` of each of them (`Roofed`).

**The argument for `WorkerLock`.** In quiet times the holder is the one the path
names, with record and heartbeat (`HolderNamed`); at most one start acquires
(`OneAcquires`), and if it judged the file stale, there is no holder
(`Acquirer`), so what it renames away is nobody's.

**The argument for `PaperGateway`.** The file, the snapshots in the queue and memory
are versions of one book, in the order they were made, and no version takes back
what an older one says (`InOrder`; fills excepted once a cancel has overwritten
one). Each snapshot has what the call that waits for it did (`Waits`), so when it
is in the file, what the call answers is too. What was answered from memory is
in memory still, or in the last snapshot queued (`MemoryOK`); when the queue has
run empty by a successful save, the file is that snapshot. An order is given to the adapter
when its own save has ended, from then on it is on disk, and whatever a restart
reads has it (`SubmittedOK`, `CreatingOK`).

For the capital, `Grounded` says of each account, in memory, on disk and in a
rollback: the entries it covers are closed on disk, and those it does not were
created when it was made or later. A restart, which knows times only, therefore counts as
settled what the settlement covered (`settled` in `CapitalOK`). Admission adds up
the entries not settled; all others at work are among them, which is an inclusion
of sets of units (`AdmissionFits`), and at the moment of admission no settlement
is under way, so the account is the one a rollback would restore.

For the reserve, `Reserved` says of each account that its base is one that its
highest equity leads to, milestone by milestone, and the last (`Reached`, and
no further milestone is crossed). A settlement of less therefore crosses none
(`NoMilestone`), and one of more goes on where the highest left off
(`MilestonesReserve`). `AfterMilestones` and `Bases` are recursive functions; what
they do at each step follows from a function with that recursion, which `Iterates`
finds by an induction over sets of numbers (`Induction`, from the well-foundedness of `<`).

**Only proved**: `CancelBehindClaim`, `StatesFollowTable`, `ServesBudget`, `ServesAmendment`,
`PartialFillNotAmended`, `ClosedStaysClosed`, `ManualNeedsApproval`, `PlanDecisionIsFinal`, `ReleaseIsFinal`, `OrdersAreEntries`
and `Exclusive`. What they say of the instances of the runs
follows from the theorems, and no run repeats it.

**Only model-checked**: the liveness properties `OutcomeLearned`,
`SubmissionSettled` and `NoLockout` (liveness under fairness is outside the prover's
reach), and with them that the fairness suffices.

## The findings

Two runs are expected to fail: each checks one property that states what the
repository says of the program.

`amend_twice`: `amend` writes its intent and does not look at whether the write
applied (`services/trade-order-amendment.service.ts:333`); after a lost one
`transition` hands it the current row and it goes on to the broker. Two
concurrent calls with the same request id, a double click or a client's retry,
both send their amendment, while the route answers `duplicateProviderMutation:
false` (`api-server/src/routes/trade-automation.ts:4011`). A broker that issues new ids refuses the
second one, as it addresses a replaced order, unless the second call read the
first one's result; then it amends the order once more. Repeated one after the
other, with crashes anywhere, the request is sent at most once (`amend_alone`).

The same lost intent lets a partly filled order through. The
check is made before the intent; a fill booked in between makes the write lose, and
the row that comes back shows the fill but is not checked again, although a test
states that such an amendment "is blocked before any provider request"
(`services/trade-order-amendment.service.test.ts:210`). Calls that are alone with
the row keep `PartialFillNotAmended` (theorem `NoFillAmended`).

`stop_lost`: every change of the policy is read, computed and saved as a whole
row, and `savePolicy` (`services/trade-automation.repository.ts:516`) compares
nothing. A settings save, a start or a stop of the run, or an admin's change of
the capital limit, that read the policy before an emergency stop was saved writes
it back without the stop, after the route answered `newOrdersBlocked: true`.
`services/trade-automation-policy-guard.service.ts:14` says that "emergency/new-entry
stops are sticky and require the dedicated confirmed resume route", and a smoke
test shows it for calls one after another. `StopClearedKnowingly` says how far
the statement holds: the call whose save writes a stop away is the confirmed resume, a
restart that saw a loss stop, or one that had itself read the policy before the stop; and `SerialStopStands` that
it holds as it stands when calls do not overlap.

### Observations without a run

*A cancel request sent twice.* `invalidatePlan` writes `CANCEL_REQUESTED` without a cancel claim
while a `cancel` holds an older copy of the order with its own claim set in
memory. The cancel's compare-and-set is lost; `Object.assign` brings the state
`CANCEL_REQUESTED`, but the stored row has no `cancelRequestClaimId`
key, so the caller's own stays. The test that is to show who owns the cancel
(`services/trade-cancel-reconciliation.service.ts:152`) passes, the request is
sent, and the invalidate route's own cancel then claims and sends a second one.
The route reports the opposite (`api-server/src/routes/trade-automation.ts:4039`,
`exchangeCancelSubmittedAtMostOnce: true`). Brokers treat the second request as
an error or a no-op, so the property at stake is the claim protocol's, not the
owner's money.

*A rejection that did not hold.* The approval queue answers a rejection with
`승인 요청을 거절했습니다` (the request was rejected,
`stock-analyzer/src/components/trade-approval-queue.tsx:438`) when the invalidate
route says `ok`. `invalidatePlan` (`services/trade-automation.service.ts:593`)
says so too when the plan was approved meanwhile and its order does not exist yet:
it leaves a plan that is no longer pending and ignores the outcome of its own
compare-and-set. The approval then makes the order and submits it. The reader has
the older look at the order, so the answer carries `order: null`.

*An approved plan without an order.* `docs/pr51-paper-approval-contract-boundaries.md:35` names a
function `approvePlanAndCreateOrder` and calls the plan's compare-and-set, the
order's insertion and the execution claim one atomic contract, which line 33 says
the general approve route uses. The source has no such function: `approvePlan`
and `createOrder` are two calls. A crash between them leaves a manual plan
`SUBMITTED` without an order: it cannot be approved again, invalidating it does
nothing, and the same signal is answered with it as a duplicate. No order is
lost or doubled by it, and an automatic plan is taken up by the worker's next
entry. `POST /plans/:id/approve` is the only route that approves, paper plans included.

*A kill switch that the run switch restarts.* The label is written after the
policy, and its failure is swallowed. If the record of a resume is lost and then
that of a kill switch, the label is still that of the loss stop before them, and
작동 restarts the member, which `services/trade-automation-run-control.service.ts:324`
excludes ("작동 cannot restart it"). It takes two lost records;
`SerialStopStands` therefore speaks of stops that were answered or recorded.

*The lock under overlapping starts.* A start that finds a file without a record,
because another has just created it, takes it for a stale one and renames it
away; both then run. And one that judged a stale record renames whatever the path
names by then. `RunnerHoldsLock` and `Exclusive` therefore speak of starts that do not overlap.

*Reservations that stay.* An order rejected after its submission intent never
frees its reservation, and one that was cancelled, or is in recovery, after a partial
fill makes `canonicalAutomaticLivePositions` throw, which blocks every automatic
entry of the member; in the cancelled case nothing ends it, as the state is final. Both are on the safe side.

*A fill after the release.* Once a cancelled order without a fill is reconciled, its
reservation may be released (`services/automatic-live-budget.service.ts:191`), and
another entry may use the amount. If the broker then books a fill it had in flight, the
correction makes the order `FILLED`, and it is charged without a reservation: what
is owned may exceed the limit until it is sold. `LiveBudget` and
`OrderAmendment` leave such fills out, which is the hypothesis
`~LateFills` of the theorems that connect them with the pipeline.

*What makes reservations exclusive.* A statement's picture of the database is
older than the advisory lock it takes, so a transaction that waited for the lock would
compare with that older picture; it is the serializable isolation, whose error
40001 is retried, that refuses it. The mutant `LosesNothing` shows the difference.

*What a restart of the paper gateway takes for settled.* A comment says that
"strictly older orders are safely covered by the persisted settlement"
(`trade-execution-gateway/src/capital-managed-paper-gateway.mjs:129`). Two kinds are
not. A settlement may be dated up to a second ahead (`paper-capital-manager.mjs:189`);
an entry placed within that second is older than it. And a settlement looks at
the orders in memory: if an entry's cancel or fill is still being saved, or its
save failed, the file has it open, and after a restart it is filled or worked
without counting against the capital. `AdmittedWithinCapital` holds for all other
settlements (`early` marks these).

*A fill under a cancel.* `cancelOrder` reads the order, awaits the adapter and writes back
what it read (`gateway.mjs:476`). A fill that runs in between is overwritten, in memory and
on disk, although it was answered. Adapters answer at once, so the window is one turn of
the event loop. `DoneIsDurable` leaves out fills that met a cancel (`overlapped`).

*A repeated call is answered from memory.* `cancelOrder` of an order that is canceled in memory answers
`CANCELED` at once (`gateway.mjs:471`), and `placeOrder` under a known key returns the order in memory
(`gateway.mjs:393`), also when the save behind it failed or is still queued. A client
that got `PAPER_STATE_PERSIST_FAILED` and tries again is told that it is done,
while the file holds the older order; after a restart the canceled order can be
filled again, and the accepted one is held as interrupted. The
project's text says `Durable Paper OMS + idempotency`
(`trade-execution-gateway/README.md:22`, `durableIdempotency: true` in `contracts.mjs:193`). The next save
that succeeds makes memory durable, since each snapshot is all of it. `DoneIsDurable` therefore counts an
answer from memory once the last save has succeeded and none is queued (`recalled`, `AllSaved`), and says
nothing of it before.

*A paper order nobody ends.* When the first save of an order fails, memory keeps it
`RISK_ACCEPTED`: it is never submitted, cannot be cancelled, and a retry is
answered with it as a success; as an open entry it blocks every settlement, hence new capital. A restart
that finds it on disk holds it for review, and nothing in the gateway ends the hold.
And a fill whose save failed was made all the same; a retry fills again. Orders are never
removed from the file, and from its limit on (10,000 orders or 5 MiB) every save fails, those of fills and cancels included.

*A retried entry.* The retry of an accepted entry is admitted before its key is
looked up, so it is refused with `COMPOUNDING_CAPITAL_LIMIT_EXCEEDED` when capital is
short because of that very entry (`capital-managed-paper-gateway.mjs:268`).

Two related weaknesses that no property forbids: after a lost intent the row
that comes back may be under manual review, and an unconfirmed amendment then
clears `manualReviewRequired`; and the correction of a cancelled order
(`{ ...currentRow, ...next }`) may replace the *identity* of a stored cancel
claim by a stale one; `EvidenceNeverLost` therefore says that a claim is never
cleared, not that it never changes hands.

## What is not modelled

The components with status `not_modelled` in `PROJECT.json`, for the reasons
given there. Within the pipeline: paper and mock
execution, split orders, and the encoding of broker
requests and answers. Of plans: protective exits, which stops let through, split plans, scanner
approvals and several signals of one member. Of the paper gateway: the supervised protection gate,
which stands in front of `placeOrder`, is off by default and may only refuse; MARKET orders; entries in foreign currency, which
are refused; and `restart-order-recovery-v10.mjs`, which the server does not use. Of amendment: Bitget and Upbit, whose new id is drawn by
the client from the order, the request and the revision, and the price bounds.

## Plan

In order, each with its runs, properties and theorems.

1. **Done**: `TradeOrderStateMachine`, `OrderExecution`, `OrderPromise`, `AtomicOrder`, their
   runs, the safety theorems, the two refinement theorems.
2. **Done**: `OrderAmendment`, its runs, the safety theorems. Left: the brokers that keep
   the client's id, an abstract specification (an order with one term sheet
   per acknowledged request) for calls that are alone with the row, and late fills.
3. **Done**: `PlanApproval`, `SignalPromise`, the run, the safety theorems, the refinement theorem. Left: protective exits (the worker's
   stop-loss and take-profit plans), several signals under one daily limit.
4. **Done**: `RunControl`, `LiveBudget` and `WorkerLock`, their runs and theorems. Left: the label of a
   run as a property of its own.
5. `SplitOrders`: legs activated by fills; sum of legs within the plan.
6. `BoundedWorkPool`, `ProviderAdmission`: lanes, slots and breaker.
7. **Done**: `PaperGateway` with its run and its theorems. Left: the protection gate.
8. **Done**: the safety properties of every run of the live system are theorems, those of cancels and
   amendments under the hypotheses that make them true.
9. **Done**: the composition through `AtomicOrder` and `BudgetedOrder`: what `LiveBudget` and
   `OrderAmendment` suppose of an order is proved of the pipeline's. Left: the same for the beginning of
   the order (`PlanApproval` hands over at the intent), abstract specifications of `WorkerLock`
   (a lock) and `PaperGateway` (a ledger that survives restarts).
