---------------------------- MODULE PlanApproval ----------------------------
(***************************************************************************)
(* From a signal to an authorised order: one live entry plan of one        *)
(* member, its approval, the order made of it and the last checks before   *)
(* its submission intent is recorded.  OrderExecution takes over there.    *)
(*                                                                         *)
(* An activity (a member of Proc) is one running request or one entry of   *)
(* the background worker:                                                  *)
(*   - a composer:    POST /plans, which makes manual plans only           *)
(*                    (publicPlanPolicy);                                  *)
(*   - a worker:      createPlan, beginAutomaticPlan, createOrder, execute *)
(*                    of the member's automatic run;                       *)
(*   - an approver:   POST /plans/:id/approve, which then executes;        *)
(*   - an invalidator: POST /plans/:id/invalidate;                         *)
(*   - a stopper:     POST /emergency-stop or /admin/emergency-stop.       *)
(* Between two database calls of an activity anything else may happen.     *)
(*                                                                         *)
(* Abstractions.                                                           *)
(*  - All submissions are of one signal, so of one idempotency key.        *)
(*  - What the market, the account and the broker answer is               *)
(*    nondeterministic: a check that reads them may pass or fail.          *)
(*  - The member's stops and the global one are one flag, and a change of  *)
(*    the policy is one step.  savePolicy compares nothing, so any writer   *)
(*    of the policy may undo a stop it did not see: LiftStop.               *)
(*  - The order's row is followed up to its intent, or to recovery, from   *)
(*    where it never comes back to be submitted; its claim lease cannot    *)
(*    expire in favour of another activity, since nobody else executes it  *)
(*    (SoleExecutor).                                                      *)
(***************************************************************************)
EXTENDS Integers

CONSTANTS
  Composers, Workers, Approvers, Invalidators, Stoppers,
  NoOne,       \* nobody has approved yet
  MaxFaults    \* crashes and database errors in one behaviour

Proc == Composers \cup Workers \cup Approvers \cup Invalidators \cup Stoppers

ASSUME RolesAssumption ==
  /\ NoOne \notin Proc
  /\ Composers \cap (Workers \cup Approvers \cup Invalidators \cup Stoppers) = {}
  /\ Workers \cap (Approvers \cup Invalidators \cup Stoppers) = {}
  /\ Approvers \cap (Invalidators \cup Stoppers) = {}
  /\ Invalidators \cap Stoppers = {}
ASSUME FaultAssumption == MaxFaults \in Nat

VARIABLES
  plan,     \* the row of trade_order_plans, state "none" before it exists
  order,    \* the row of trade_orders, state "none" before it exists
  policy,   \* the member's policy: automatic run on, entries stopped
  late,     \* approvalExpiresAt has passed
  pc,       \* pc[p]: the next database call of p
  mine,     \* mine[p]: the plan as p last read it
  copy,     \* copy[p]: the order as p last read it
  clean,    \* the stoppers that failed at nothing, and whose stop stands
  calm,     \* a stop was answered without failure, and stands
  faults    \* crashes and database errors so far

db       == <<plan, order>>
activity == <<pc, mine, copy>>
history  == <<clean, calm>>
vars     == <<db, policy, late, activity, history, faults>>

-----------------------------------------------------------------------------
(* State.                                                                  *)

Policies == [automatic : BOOLEAN, stopped : BOOLEAN]

Plans == [ state     : {"none", "APPROVAL_PENDING", "SUBMITTED", "EXPIRED"},
           version   : Nat,
           automatic : BOOLEAN,                 \* executionMode
           by        : Proc \cup {NoOne} ]      \* approvedAt, and whose call set it

Orders == [ state    : {"none", "SUBMITTED", "CANCEL_REQUESTED", "RECOVERY_REQUIRED", "REJECTED"},
            version  : Nat,
            approved : Nat,                     \* approvedPlanVersion
            intent   : BOOLEAN ]                \* submissionStartedAt

NoPlan  == [state |-> "none", version |-> 0, automatic |-> FALSE, by |-> NoOne]
NoOrder == [state |-> "none", version |-> 0, approved |-> 0, intent |-> FALSE]

Pcs == { "idle", "find", "insert", "begin", "decide", "approve", "expire",
         "create", "insertOrder", "execute", "precheck", "claim",
         "recheckPlan", "recheckPolicy", "controls", "intent", "blocked", "reject",
         "findOrder", "expirePending", "answer",
         "list", "cancelRead", "cancelClaim" }

TypeOK ==
  /\ plan \in Plans
  /\ order \in Orders
  /\ policy \in Policies
  /\ late \in BOOLEAN
  /\ pc \in [Proc -> Pcs]
  /\ mine \in [Proc -> Plans]
  /\ copy \in [Proc -> Orders]
  /\ clean \subseteq Proc
  /\ calm \in BOOLEAN
  /\ faults \in 0..MaxFaults

Init ==
  /\ plan = NoPlan
  /\ order = NoOrder
  /\ policy \in Policies
  /\ ~policy.stopped
  /\ late = FALSE
  /\ pc = [p \in Proc |-> "idle"]
  /\ mine = [p \in Proc |-> NoPlan]
  /\ copy = [p \in Proc |-> NoOrder]
  /\ clean = {}
  /\ calm = FALSE
  /\ faults = 0

-----------------------------------------------------------------------------
(* Steps of an activity.                                                   *)

Goto(p, next) == pc' = [pc EXCEPT ![p] = next]

\* The call is over: nothing of it is left in memory.
End(p) ==
  /\ pc' = [pc EXCEPT ![p] = "idle"]
  /\ mine' = [mine EXCEPT ![p] = NoPlan]
  /\ copy' = [copy EXCEPT ![p] = NoOrder]

\* p reads the plan, or the order, as it is now.
ReadPlan(p)  == mine' = [mine EXCEPT ![p] = plan]
ReadOrder(p) == copy' = [copy EXCEPT ![p] = order]

\* Mutant of PlanApplies: the plan's state and version not compared.
AlwaysApplies(p) == TRUE

\* compareAndSetPlan: state and version are those p read.
PlanApplies(p) == plan.state = mine[p].state /\ plan.version = mine[p].version

\* transitionOrderAtomic and the execution claim: likewise for the order.
OrderApplies(p) == order.state = copy[p].state /\ order.version = copy[p].version

\* Mutant of Bumped: the version counted the wrong way.
CountedDown(r) == [r EXCEPT !.version = @ - 1]

\* Every write counts the row's version up.
Bumped(r) == [r EXCEPT !.version = @ + 1]

\* What may be written over a plan, and over an order.
Approved(r, p) == Bumped([r EXCEPT !.state = "SUBMITTED", !.by = p])
Expired(r)     == Bumped([r EXCEPT !.state = "EXPIRED"])
Moved(o, to)   == Bumped([o EXCEPT !.state = to])
Intended(o)    == Bumped([o EXCEPT !.intent = TRUE])

\* A failed check may trip the kill switch, which stops the member's entries.
MayTrip == policy' \in {policy, [policy EXCEPT !.stopped = TRUE]}

Others == <<late, history, faults>>

-----------------------------------------------------------------------------
(* createPlan.                                                             *)

\* A composer needs no automatic run, a worker does.  A stop seen here keeps
\* a new plan from being made, and a known one is worked on all the same; a
\* composer changes nothing once there is a plan, and is followed no further.
Submit(p) ==
  /\ pc[p] = "idle"
  /\ \/ p \in Composers /\ ~policy.stopped /\ plan.state = "none"
     \/ p \in Workers /\ policy.automatic /\ (policy.stopped => plan.state # "none")
  /\ Goto(p, "find")
  /\ UNCHANGED <<db, policy, mine, copy, Others>>

\* findPlanByIdempotency: a known plan is returned as it is.
FindPlan(p) ==
  /\ pc[p] = "find"
  /\ IF plan.state = "none"
       THEN \/ /\ Goto(p, "insert") /\ UNCHANGED <<mine, copy, policy>>
            \/ /\ End(p) /\ MayTrip
       ELSE UNCHANGED policy /\ IF p \in Workers
              THEN Goto(p, "begin") /\ ReadPlan(p) /\ UNCHANGED copy
              ELSE End(p)
  /\ UNCHANGED <<db, Others>>

NewPlan(p) ==
  [state |-> "APPROVAL_PENDING", version |-> 0, automatic |-> (p \in Workers), by |-> NoOne]

\* insertPlan: the unique key lets one plan in, the others get that one.
InsertPlan(p) ==
  /\ pc[p] = "insert"
  /\ plan' = IF plan.state = "none"
               THEN NewPlan(p)
               ELSE plan
  /\ IF p \in Workers
       THEN Goto(p, "begin") /\ mine' = [mine EXCEPT ![p] = plan'] /\ UNCHANGED copy
       ELSE End(p)
  /\ UNCHANGED <<order, policy, Others>>

-----------------------------------------------------------------------------
(* approvePlan and beginAutomaticPlan.                                     *)

\* The worker begins a pending plan and executes a submitted one.
BeginAutomatic(p) ==
  /\ pc[p] = "begin"
  /\ CASE mine[p].state = "SUBMITTED" -> Goto(p, "create") /\ UNCHANGED <<mine, copy>>
       [] mine[p].state = "APPROVAL_PENDING" /\ plan.state = "APPROVAL_PENDING" ->
            Goto(p, "decide") /\ ReadPlan(p) /\ UNCHANGED copy
       [] OTHER -> End(p)
  /\ UNCHANGED <<db, policy, Others>>

\* The user approves a manual plan; past its time it expires instead.
ApproveRead(p) ==
  /\ p \in Approvers /\ pc[p] = "idle"
  /\ plan.state = "APPROVAL_PENDING" /\ ~plan.automatic
  /\ ReadPlan(p)
  /\ Goto(p, IF late THEN "expire" ELSE "decide")
  /\ UNCHANGED <<db, policy, copy, Others>>

\* Mutant of MayBegin: the plan's own execution mode not looked at.
MayBeginAnyPlan(p) == p \in Workers => policy.automatic

\* Only an automatic plan of a member whose automatic run is on begins
\* without the user's approval.
MayBegin(p) == p \in Workers => policy.automatic /\ mine[p].automatic

\* The policy is read and the plan judged again: it may be approved, it
\* expires when a check fails, or the call ends with an exception.
Decide(p) ==
  /\ pc[p] = "decide"
  /\ \/ /\ MayBegin(p) /\ ~policy.stopped
        /\ Goto(p, "approve") /\ UNCHANGED <<mine, copy, policy>>
     \/ /\ MayBegin(p)
        /\ Goto(p, "expire") /\ MayTrip /\ UNCHANGED <<mine, copy>>
     \/ /\ End(p) /\ UNCHANGED policy
  /\ UNCHANGED <<db, Others>>

ApprovePlan(p) ==
  /\ pc[p] = "approve"
  /\ IF PlanApplies(p)
       THEN /\ plan' = Approved(mine[p], p)
            /\ mine' = [mine EXCEPT ![p] = plan']
            /\ Goto(p, "create")
            /\ UNCHANGED copy
       ELSE End(p) /\ UNCHANGED plan
  /\ UNCHANGED <<order, policy, Others>>

\* The plan expires, and the call ends with the error that explains it.
ExpirePlan(p) ==
  /\ pc[p] = "expire"
  /\ plan' = IF PlanApplies(p) THEN Expired(mine[p]) ELSE plan
  /\ End(p)
  /\ UNCHANGED <<order, policy, Others>>

-----------------------------------------------------------------------------
(* createOrder.                                                            *)

\* Mutant of Duplicate: the caller of a duplicate goes on as the inserter.
GoOnWithDuplicate(p) == Goto(p, "execute") /\ ReadOrder(p) /\ UNCHANGED mine

\* executeSubmittedPlan and the worker return an order that exists already.
Duplicate(p) == End(p)

CreateOrder(p) ==
  /\ pc[p] = "create"
  /\ IF order.state # "none"
       THEN Duplicate(p)
       ELSE Goto(p, "insertOrder") /\ UNCHANGED <<mine, copy>>
  /\ UNCHANGED <<db, policy, Others>>

\* create_trade_order_atomic: under the plan's row lock the plan must still be
\* SUBMITTED, and one order is let in.
InsertOrder(p) ==
  /\ pc[p] = "insertOrder"
  /\ CASE plan.state # "SUBMITTED" -> End(p) /\ UNCHANGED order
       [] plan.state = "SUBMITTED" /\ order.state # "none" -> Duplicate(p) /\ UNCHANGED order
       [] OTHER -> /\ order' = [NoOrder EXCEPT !.state = "SUBMITTED", !.approved = mine[p].version]
                   /\ copy' = [copy EXCEPT ![p] = order']
                   /\ Goto(p, "execute")
                   /\ UNCHANGED mine
  /\ UNCHANGED <<plan, policy, Others>>

-----------------------------------------------------------------------------
(* execute, up to the submission intent.                                   *)

ExecuteRead(p) ==
  /\ pc[p] = "execute"
  /\ IF order.state = "SUBMITTED"
       THEN Goto(p, "precheck") /\ ReadOrder(p) /\ UNCHANGED mine
       ELSE End(p)
  /\ UNCHANGED <<db, policy, Others>>

\* Connection, verification and capability, and for an automatic plan the run
\* and the stops.  A revoked membership throws and leaves the order as it is.
Precheck(p) ==
  /\ pc[p] = "precheck"
  /\ \/ /\ mine[p].automatic => policy.automatic /\ ~policy.stopped
        /\ Goto(p, "claim") /\ UNCHANGED <<mine, copy>>
     \/ Goto(p, "reject") /\ UNCHANGED <<mine, copy>>
     \/ mine[p].automatic /\ End(p)
  /\ UNCHANGED <<db, policy, Others>>

\* claim_trade_order_execution; for an automatic plan the budget's claim, which
\* may refuse.
ClaimExecution(p) ==
  /\ pc[p] = "claim"
  /\ \/ /\ OrderApplies(p)
        /\ order' = Bumped(order)
        /\ copy' = [copy EXCEPT ![p] = order']
        /\ Goto(p, "recheckPlan")
        /\ UNCHANGED mine
     \/ /\ ~OrderApplies(p)
        /\ End(p) /\ UNCHANGED order
     \/ /\ mine[p].automatic
        /\ Goto(p, "reject") /\ UNCHANGED <<order, mine, copy>>
  /\ UNCHANGED <<plan, policy, Others>>

\* The recheck's look at the plan: submitted, at the version the order was
\* made from, and in time.
StillApproved(p) ==
  /\ plan.state = "SUBMITTED"
  /\ plan.version = copy[p].approved
  /\ ~late

\* TradePreSubmissionRiskService.evaluate looks at the clock and reads the
\* plan first ...
RecheckPlan(p) ==
  /\ pc[p] = "recheckPlan"
  /\ IF StillApproved(p)
       THEN Goto(p, "recheckPolicy") /\ UNCHANGED policy
       ELSE Goto(p, "blocked") /\ MayTrip
  /\ UNCHANGED <<db, mine, copy, Others>>

\* Mutant of EntriesAllowed: the stop not looked at.
AlwaysAllowed == TRUE

EntriesAllowed == ~policy.stopped

\* ... and then the policy; any other check may block the order too.
RecheckPolicy(p) ==
  /\ pc[p] = "recheckPolicy"
  /\ \/ /\ EntriesAllowed
        /\ Goto(p, IF mine[p].automatic THEN "controls" ELSE "intent")
        /\ UNCHANGED policy
     \/ Goto(p, "blocked") /\ MayTrip
  /\ UNCHANGED <<db, mine, copy, Others>>

\* assertAutomaticLiveEntryAuthorized, for automatic plans.
AutomaticControls(p) ==
  /\ pc[p] = "controls"
  /\ Goto(p, IF policy.automatic /\ ~policy.stopped THEN "intent" ELSE "reject")
  /\ UNCHANGED <<db, policy, mine, copy, Others>>

\* beginSubmissionIntent.  Whatever follows is OrderExecution's.
RecordIntent(p) ==
  /\ pc[p] = "intent"
  /\ order' = IF OrderApplies(p) THEN Intended(order) ELSE order
  /\ End(p)
  /\ UNCHANGED <<plan, policy, Others>>

\* expirePlanAfterBlockedRecheck: nobody else writes a submitted plan, so its
\* read and its compare-and-set are one step.
ExpireBlocked(p) ==
  /\ pc[p] = "blocked"
  /\ plan' = IF plan.state = "SUBMITTED" /\ plan.version = copy[p].approved
               THEN Expired(plan) ELSE plan
  /\ Goto(p, "reject")
  /\ UNCHANGED <<order, policy, mine, copy, Others>>

\* An exchange error before the intent.
PreflightFails(p) ==
  /\ pc[p] \in {"recheckPlan", "controls", "intent"}
  /\ Goto(p, "reject")
  /\ UNCHANGED <<db, policy, mine, copy, Others>>

\* transition trips the kill switch for the error codes it escalates.
RejectOrder(p) ==
  /\ pc[p] = "reject"
  /\ order' = IF OrderApplies(p) THEN Moved(order, "REJECTED") ELSE order
  /\ End(p) /\ MayTrip
  /\ UNCHANGED <<plan, Others>>

-----------------------------------------------------------------------------
(* The invalidate route and the emergency stop.                            *)

\* Mutant of Cancelable: an order that was not yet accepted is not cancelled.
CancelableOnceAccepted(o) == o.state = "CANCEL_REQUESTED"

\* CANCEL_RECONCILIATION_STATES and CANCELABLE_STATES.
Cancelable(o) == o.state \in {"SUBMITTED", "CANCEL_REQUESTED", "RECOVERY_REQUIRED"}

InvalidateRead(p) ==
  /\ p \in Invalidators /\ pc[p] = "idle"
  /\ plan.state # "none"
  /\ ReadPlan(p) /\ Goto(p, "findOrder")
  /\ UNCHANGED <<db, policy, copy, Others>>

\* Without an order a pending plan is expired; an order is cancelled.
InvalidateFind(p) ==
  /\ pc[p] = "findOrder"
  /\ CASE order.state = "none" /\ mine[p].state = "APPROVAL_PENDING" ->
            Goto(p, "expirePending") /\ UNCHANGED <<mine, copy>>
       [] Cancelable(order) ->
            Goto(p, "cancelRead") /\ mine' = [mine EXCEPT ![p] = NoPlan] /\ UNCHANGED copy
       [] OTHER -> End(p)
  /\ UNCHANGED <<db, policy, Others>>

\* Whether the plan was still pending is not looked at; ok: true, order: null.
InvalidateExpire(p) ==
  /\ pc[p] = "expirePending"
  /\ plan' = IF PlanApplies(p) THEN Expired(mine[p]) ELSE plan
  /\ End(p)
  /\ UNCHANGED <<order, policy, Others>>

\* The stop is saved first, whatever the policy was.
Stop(p) ==
  /\ p \in Stoppers /\ pc[p] = "idle"
  /\ policy' = [automatic |-> FALSE, stopped |-> TRUE]
  /\ clean' = clean \cup {p}
  /\ Goto(p, "list")
  /\ UNCHANGED <<db, late, mine, copy, calm, faults>>

\* cancelOpenEntryOrders lists the member's orders ...
ListOrders(p) ==
  /\ pc[p] = "list"
  /\ Goto(p, IF Cancelable(order) THEN "cancelRead" ELSE "answer")
  /\ UNCHANGED <<db, policy, mine, copy, Others>>

\* A cancel is over: the stop goes on to its answer, the invalidation ends.
Cancelled(p) ==
  IF p \in Stoppers THEN Goto(p, "answer") /\ UNCHANGED <<mine, copy>> ELSE End(p)

\* ... and cancels each that is open: cancel reads it again; a cancel that is
\* under way already is left to it, and of an order in recovery it is only noted.
CancelRead(p) ==
  /\ pc[p] = "cancelRead"
  /\ IF order.state = "SUBMITTED"
       THEN Goto(p, "cancelClaim") /\ ReadOrder(p) /\ UNCHANGED mine
       ELSE Cancelled(p)
  /\ UNCHANGED <<db, policy, Others>>

\* The claim of the cancel is a compare-and-set; one that is lost ends the
\* cancel.  The request to the broker that follows is OrderExecution's.
CancelClaim(p) ==
  /\ pc[p] = "cancelClaim"
  /\ order' = IF OrderApplies(p) THEN Moved(order, "CANCEL_REQUESTED") ELSE order
  /\ Cancelled(p)
  /\ UNCHANGED <<plan, policy, Others>>

\* A database error in the cancel is counted by the stop and ends an
\* invalidation; its write may have been applied.
CancelFails(p) ==
  /\ pc[p] \in {"cancelRead", "cancelClaim"} /\ faults < MaxFaults
  /\ \/ UNCHANGED order
     \/ /\ pc[p] = "cancelClaim" /\ OrderApplies(p)
        /\ order' = Moved(order, "CANCEL_REQUESTED")
  /\ Cancelled(p)
  /\ clean' = clean \ {p}
  /\ faults' = faults + 1
  /\ UNCHANGED <<plan, policy, late, calm>>

\* The stop is answered; entryOrderCancelFailures is zero if it is clean.
StopAnswer(p) ==
  /\ p \in Stoppers /\ pc[p] = "answer"
  /\ End(p)
  /\ calm' = (calm \/ p \in clean)
  /\ clean' = clean \ {p}
  /\ UNCHANGED <<db, policy, late, faults>>

-----------------------------------------------------------------------------
(* The recovery worker, the member's switch, the clock and crashes.        *)

\* The recovery worker takes an order it finds due, with or without an intent,
\* as a cancel does that fails.  What follows is OrderExecution's.
PrepareRecovery ==
  /\ order.state \in {"SUBMITTED", "CANCEL_REQUESTED"}
  /\ order' = Moved(order, "RECOVERY_REQUIRED")
  /\ UNCHANGED <<plan, policy, activity, Others>>

\* The run switch, the settings or the failure of another order's check save the
\* policy: as they read it, so that the run may be switched on under a stop.
SavePolicy ==
  /\ policy' \in Policies \ {policy}
  /\ policy.stopped => policy'.stopped
  /\ UNCHANGED <<db, activity, Others>>

\* The stop is lifted: by the confirmed resume, by the start of a run that a
\* loss limit had stopped, or by a save of the policy as it was read before.
LiftStop ==
  /\ policy.stopped
  /\ policy' \in [automatic : BOOLEAN, stopped : {FALSE}]
  /\ clean' = {} /\ calm' = FALSE
  /\ UNCHANGED <<db, activity, late, faults>>

ApprovalTimesOut ==
  /\ plan.state # "none" /\ late' = TRUE
  /\ UNCHANGED <<db, policy, activity, history, faults>>

\* The process dies, or a database call throws, anywhere.
Crash(p) ==
  /\ pc[p] # "idle" /\ faults < MaxFaults
  /\ End(p)
  /\ clean' = clean \ {p}
  /\ faults' = faults + 1
  /\ UNCHANGED <<db, policy, late, calm>>

Compose(p)    == Submit(p) \/ FindPlan(p) \/ InsertPlan(p)
Approve(p)    == BeginAutomatic(p) \/ ApproveRead(p) \/ Decide(p) \/ ApprovePlan(p) \/ ExpirePlan(p)
Create(p)     == CreateOrder(p) \/ InsertOrder(p)
Execute(p)    == \/ ExecuteRead(p) \/ Precheck(p) \/ ClaimExecution(p)
                 \/ RecheckPlan(p) \/ RecheckPolicy(p) \/ AutomaticControls(p)
                 \/ RecordIntent(p) \/ ExpireBlocked(p) \/ PreflightFails(p) \/ RejectOrder(p)
Invalidate(p) == InvalidateRead(p) \/ InvalidateFind(p) \/ InvalidateExpire(p)
Cancel(p)     == CancelRead(p) \/ CancelClaim(p) \/ CancelFails(p)
EmergencyStop(p) == Stop(p) \/ ListOrders(p) \/ StopAnswer(p)

Next ==
  \/ \E p \in Proc : \/ Compose(p) \/ Approve(p) \/ Create(p) \/ Execute(p)
                     \/ Invalidate(p) \/ Cancel(p) \/ EmergencyStop(p) \/ Crash(p)
  \/ PrepareRecovery \/ SavePolicy \/ LiftStop \/ ApprovalTimesOut

Spec == Init /\ [][Next]_vars

-----------------------------------------------------------------------------
(* Properties.                                                             *)

Executing == {"execute", "precheck", "claim", "recheckPlan", "recheckPolicy",
              "controls", "intent", "blocked", "reject"}

\* An order whose submission intent is on record was made of the plan as it
\* stands: still submitted, at the version that was approved.  Plans are written
\* by approvals, invalidations and blocked rechecks of any age.
SubmissionIsApproved ==
  order.intent => plan.state = "SUBMITTED" /\ plan.version = order.approved

\* A manual plan is approved by nobody but a call of the approve route, whatever
\* the automatic run does meanwhile to a signal of the same key.
ManualNeedsApproval ==
  plan.by # NoOne /\ ~plan.automatic => plan.by \in Approvers

\* Of all the calls that get as far as createOrder, one executes the order.
SoleExecutor ==
  \A p, q \in Proc : pc[p] \in Executing /\ pc[q] \in Executing => p = q

\* A plan is decided once: after an approval or an expiry it can only expire,
\* and the approval on record stays that of the call that made it.
PlanDecisionIsFinal ==
  [][ plan.state \in {"SUBMITTED", "EXPIRED"} =>
        plan'.state \in {plan.state, "EXPIRED"} /\ plan'.by = plan.by ]_vars

\* An emergency stop that was answered without a failed cancel is complete: as
\* long as it stands, no entry gets as far as its submission intent, neither one
\* already past its approval nor one made while the orders were being listed.
StopHolds == [][calm => order'.intent = order.intent]_vars

-----------------------------------------------------------------------------
(* Refinement: the calls keep the promise of SignalPromise.                *)

Signal == INSTANCE SignalPromise
            WITH Users <- Approvers, Runs <- Workers,
                 decision <- plan.state, automatic <- plan.automatic, by <- plan.by,
                 sent <- order.intent, halted <- calm

\* However many requests, worker entries, approvals, invalidations and stops
\* work on a signal, each with its own copies, it is decided once, by whoever its
\* mode says, and submitted once, on the decision as it stands, and not under a
\* stop that was answered.
SignalKept == Signal!Spec
=============================================================================
