------------------------- MODULE PlanApprovalProofs -------------------------
(***************************************************************************)
(* Proofs about PlanApproval: its types, that only an approved plan is     *)
(* submitted, by one call, that an answered emergency stop holds, and that *)
(* the calls implement SignalPromise.                                      *)
(***************************************************************************)
EXTENDS PlanApproval, TLAPS

-----------------------------------------------------------------------------
(* The inductive invariant.                                                *)

\* A manual plan's approval is the user's.
Sound(r) == r.by # NoOne /\ ~r.automatic => r.by \in Approvers

\* What p holds of the plan, by the step it is about to take.
HoldsPlan(p) ==
  /\ Sound(mine[p])
  /\ pc[p] = "begin" => p \in Workers
  /\ pc[p] \in {"decide", "approve"} => p \in Workers \cup Approvers
  /\ pc[p] \in {"decide", "approve", "expire", "expirePending"} => mine[p].state = "APPROVAL_PENDING"
  /\ pc[p] = "approve" /\ p \in Workers => mine[p].automatic

\* What p holds of the order when it executes or cancels it, and of the plan
\* once it has looked.
HoldsOrder(p) ==
  /\ pc[p] \in Executing => /\ order.state # "none"
                            /\ copy[p].state = "SUBMITTED"
                            /\ copy[p].approved = order.approved
                            /\ copy[p].version <= order.version
  /\ pc[p] \in {"recheckPolicy", "controls", "intent"} =>
       plan.state = "SUBMITTED" /\ plan.version = order.approved
  /\ pc[p] = "cancelClaim" => copy[p].state = "SUBMITTED"

\* Entries are stopped, and no executor past its recheck can still record an
\* intent: its copy is out of date.
Closed ==
  /\ policy.stopped
  /\ \A q \in Proc : pc[q] \in {"controls", "intent"} => ~OrderApplies(q)

\* A stopper that has failed at nothing: once it has read the order, either its
\* cancel goes through or somebody's write has closed the order already.
HoldsStop(p) ==
  p \in clean => /\ p \in Stoppers /\ policy.stopped
                 /\ pc[p] \in {"list", "cancelRead", "cancelClaim", "answer"}
                 /\ pc[p] = "cancelClaim" => OrderApplies(p) \/ Closed
                 /\ pc[p] = "answer" => Closed

IInv ==
  /\ TypeOK
  /\ Sound(plan)
  /\ SoleExecutor
  /\ order.state = "none" => ~order.intent
  /\ order.intent => \A q \in Proc : pc[q] \notin Executing
  /\ SubmissionIsApproved
  /\ calm => Closed
  /\ \A p \in Proc : HoldsPlan(p) /\ HoldsOrder(p) /\ HoldsStop(p)

-----------------------------------------------------------------------------
(* What one step of p may do.                                              *)

\* Nobody else is disturbed.
Alone(p) ==
  /\ \A q \in Proc \ {p} : pc'[q] = pc[q] /\ mine'[q] = mine[q] /\ copy'[q] = copy[q]
  /\ clean' \subseteq clean \cup {p}
  /\ policy.stopped => policy'.stopped
  /\ calm' => calm \/ (p \in clean /\ pc[p] = "answer")

\* A decided plan is changed by a blocked recheck only.
PlanStep(p) ==
  \/ plan' = plan
  \/ /\ Sound(plan')
     /\ \/ plan.state \notin {"SUBMITTED", "EXPIRED"}
        \/ /\ pc[p] = "blocked" /\ plan.state = "SUBMITTED"
           /\ plan'.state = "EXPIRED" /\ plan'.by = plan.by

\* The order is made once, and every write counts its version up.
OrderStep(p) ==
  \/ order' = order
  \/ /\ order.state = "none" /\ order'.state # "none" /\ ~order'.intent
     /\ \A q \in Proc : pc[q] \notin Executing
  \/ /\ order.state # "none" /\ order'.state # "none"
     /\ order'.version = order.version + 1 /\ order'.approved = order.approved
     /\ \/ order'.intent = order.intent
        \/ pc[p] = "intent" /\ pc'[p] = "idle" /\ OrderApplies(p)

\* An executor made the order or was one before, and passes the recheck of the
\* policy only while entries are allowed.
ExecStep(p) ==
  /\ pc'[p] \in Executing => pc[p] \in Executing \/ (order.state = "none" /\ order'.state # "none")
  /\ pc'[p] \in {"controls", "intent"} =>
       /\ order' = order /\ copy'[p] = copy[p]
       /\ policy.stopped => pc[p] = "controls"

StepOf(p) == Alone(p) /\ PlanStep(p) /\ OrderStep(p) /\ ExecStep(p)

\* After a step in which the order changes while entries are stopped, and after
\* any step from a closed state, nothing is left to pass.
LEMMA Closing ==
  ASSUME IInv, NEW p \in Proc, StepOf(p), TypeOK', policy.stopped, order' # order \/ Closed
  PROVE  Closed'
<1>1. policy'.stopped
  BY DEF StepOf, Alone
<1>2. ASSUME NEW q \in Proc, pc'[q] \in {"controls", "intent"}, order' = order
      PROVE  ~OrderApplies(q)'
  <2>1. pc[q] \in {"controls", "intent"} /\ copy'[q] = copy[q]
    BY <1>2 DEF StepOf, Alone, ExecStep
  <2> QED BY <1>2, <2>1 DEF Closed, OrderApplies
<1>3. ASSUME NEW q \in Proc, pc'[q] \in {"controls", "intent"}, order' # order
      PROVE  ~OrderApplies(q)'
  <2>1. q # p /\ pc[q] \in {"controls", "intent"} /\ copy'[q] = copy[q]
    BY <1>3 DEF StepOf, Alone, ExecStep
  <2>2. pc[q] \in Executing
    BY <2>1 DEF Executing
  <2>3. copy[q].version <= order.version /\ copy[q].version \in Nat /\ order.version \in Nat
    BY <2>2 DEF IInv, HoldsOrder, TypeOK, Orders
  <2>4. order'.version = order.version + 1
    BY <1>3, <2>2 DEF StepOf, OrderStep, IInv, HoldsOrder
  <2> QED BY <2>1, <2>3, <2>4 DEF OrderApplies
<1> QED BY <1>1, <1>2, <1>3 DEF Closed

\* With the order cancelled or done, nothing is left to pass.
LEMMA ClosedUnlessSubmitted ==
  ASSUME IInv, policy.stopped, order.state # "SUBMITTED"
  PROVE  Closed
BY DEF Closed, IInv, HoldsOrder, OrderApplies, Executing

\* Whoever does not take the step keeps what it holds.
LEMMA Bystander ==
  ASSUME IInv, NEW p \in Proc, StepOf(p), TypeOK', NEW q \in Proc, q # p
  PROVE  HoldsPlan(q)' /\ HoldsOrder(q)' /\ HoldsStop(q)'
<1>1. pc'[q] = pc[q] /\ mine'[q] = mine[q] /\ copy'[q] = copy[q] /\ (q \in clean' => q \in clean)
  BY DEF StepOf, Alone
<1>2. HoldsPlan(q)'
  BY <1>1 DEF IInv, HoldsPlan, Sound
<1>3. HoldsOrder(q)'
  <2>1. SUFFICES ASSUME pc[q] \in Executing
                 PROVE  /\ order'.state # "none"
                        /\ order'.approved = order.approved
                        /\ copy[q].version <= order'.version
                        /\ plan.state = "SUBMITTED" => plan' = plan
    BY <1>1 DEF IInv, HoldsOrder, Executing
  <2>2. pc[p] \notin Executing
    BY <2>1 DEF IInv, SoleExecutor
  <2>3. plan.state = "SUBMITTED" => plan' = plan
    BY <2>2 DEF StepOf, PlanStep, Executing
  <2>4. order.state # "none" /\ copy[q].version <= order.version
    BY <2>1 DEF IInv, HoldsOrder
  <2>5. copy[q].version \in Nat /\ order.version \in Nat
    BY DEF IInv, TypeOK, Orders
  <2>6. order' = order \/ (/\ order'.state # "none" /\ order'.approved = order.approved
                           /\ order'.version = order.version + 1)
    BY <2>4 DEF StepOf, OrderStep
  <2> QED BY <2>3, <2>4, <2>5, <2>6
<1>4. HoldsStop(q)'
  <2>1. SUFFICES ASSUME q \in clean'
                 PROVE  /\ q \in Stoppers /\ policy'.stopped
                        /\ pc[q] \in {"list", "cancelRead", "cancelClaim", "answer"}
                        /\ pc[q] = "cancelClaim" => OrderApplies(q)' \/ Closed'
                        /\ pc[q] = "answer" => Closed'
    BY <1>1 DEF HoldsStop
  <2>2. policy.stopped /\ policy'.stopped /\ HoldsStop(q) /\ q \in clean
    BY <1>1, <2>1 DEF IInv, HoldsStop, StepOf, Alone
  <2>3. Closed => Closed'
    BY <2>2, Closing
  <2>4. order' # order => Closed'
    BY <2>2, Closing
  <2>5. order' = order /\ OrderApplies(q) => OrderApplies(q)'
    BY <1>1 DEF OrderApplies
  <2> QED BY <2>2, <2>3, <2>4, <2>5 DEF HoldsStop
<1> QED BY <1>2, <1>3, <1>4

\* A step of p keeps the invariant if p itself keeps what it holds.
LEMMA StepKeeps ==
  ASSUME IInv, NEW p \in Proc, StepOf(p), TypeOK',
         HoldsPlan(p)', HoldsOrder(p)', HoldsStop(p)'
  PROVE  /\ IInv'
         /\ calm => order'.intent = order.intent
<1>1. \A q \in Proc : HoldsPlan(q)' /\ HoldsOrder(q)' /\ HoldsStop(q)'
  BY Bystander
<1>2. Sound(plan)'
  BY DEF IInv, Sound, StepOf, PlanStep
<1>3. SoleExecutor'
  <2>1. SUFFICES ASSUME NEW q \in Proc, NEW r \in Proc, q # r,
                        pc'[q] \in Executing, pc'[r] \in Executing
                 PROVE  FALSE
    BY DEF SoleExecutor, Executing
  <2>2. ASSUME NEW u \in Proc, NEW v \in Proc, u # v, pc'[u] \in Executing, pc'[v] \in Executing,
               v # p
        PROVE  FALSE
    <3>1. pc[v] \in Executing /\ order.state # "none"
      BY <2>2 DEF StepOf, Alone, IInv, HoldsOrder
    <3>2. pc[u] \in Executing
      BY <2>2, <3>1 DEF StepOf, Alone, ExecStep
    <3> QED BY <2>2, <3>1, <3>2 DEF IInv, SoleExecutor
  <2> QED BY <2>1, <2>2
<1>4. (order.state = "none" => ~order.intent)'
  BY DEF IInv, StepOf, OrderStep
<1>5. ASSUME order'.intent
      PROVE  /\ \A q \in Proc : pc'[q] \notin Executing
             /\ plan'.state = "SUBMITTED" /\ plan'.version = order'.approved
  <2>1. CASE order.intent
    <3>1. \A q \in Proc : pc[q] \notin Executing
      BY <2>1 DEF IInv
    <3>2. \A q \in Proc : pc'[q] \notin Executing
      BY <2>1, <3>1 DEF StepOf, Alone, ExecStep, IInv
    <3>3. plan' = plan
      BY <2>1, <3>1 DEF IInv, SubmissionIsApproved, StepOf, PlanStep, Executing
    <3>4. order'.approved = order.approved
      BY <2>1 DEF IInv, StepOf, OrderStep
    <3> QED BY <2>1, <3>2, <3>3, <3>4 DEF IInv, SubmissionIsApproved
  <2>2. CASE ~order.intent
    <3>1. /\ pc[p] = "intent" /\ pc'[p] = "idle"
          /\ order'.approved = order.approved /\ order.state # "none"
      BY <1>5, <2>2 DEF StepOf, OrderStep, IInv, TypeOK, Orders
    <3>2. \A q \in Proc : pc'[q] \notin Executing
      BY <3>1 DEF IInv, SoleExecutor, StepOf, Alone, Executing
    <3>3. plan' = plan
      BY <3>1 DEF StepOf, PlanStep, IInv, HoldsOrder
    <3> QED BY <3>1, <3>2, <3>3 DEF IInv, HoldsOrder
  <2> QED BY <2>1, <2>2
<1>6. calm' => Closed'
  <2>1. calm' => Closed
    BY DEF StepOf, Alone, IInv, HoldsStop
  <2> QED BY <2>1, Closing DEF Closed
<1>7. ASSUME calm PROVE order'.intent = order.intent
  <2>1. Closed
    BY <1>7 DEF IInv
  <2>2. pc[p] = "intent" => ~OrderApplies(p)
    BY <2>1 DEF Closed
  <2> QED BY <2>2 DEF StepOf, OrderStep, IInv, TypeOK, Orders
<1> QED BY <1>1, <1>2, <1>3, <1>4, <1>5, <1>6, <1>7 DEF IInv, SubmissionIsApproved

-----------------------------------------------------------------------------
(* Every action is such a step.                                            *)

\* What an action of p has to be shown to do.
Keeps(p) == /\ TypeOK' /\ StepOf(p)
            /\ HoldsPlan(p)' /\ HoldsOrder(p)' /\ HoldsStop(p)'

\* The end of a call leaves nothing to hold.
LEMMA EndHolds ==
  ASSUME TypeOK, NEW p \in Proc, End(p), p \notin clean'
  PROVE  /\ pc' \in [Proc -> Pcs] /\ mine' \in [Proc -> Plans] /\ copy' \in [Proc -> Orders]
         /\ pc'[p] = "idle"
         /\ \A q \in Proc \ {p} : pc'[q] = pc[q] /\ mine'[q] = mine[q] /\ copy'[q] = copy[q]
         /\ HoldsPlan(p)' /\ HoldsOrder(p)' /\ HoldsStop(p)'
<1>1. NoPlan \in Plans /\ NoOrder \in Orders
  BY DEF NoPlan, NoOrder, Plans, Orders
<1>2. /\ pc' \in [Proc -> Pcs] /\ mine' \in [Proc -> Plans] /\ copy' \in [Proc -> Orders]
      /\ pc'[p] = "idle" /\ mine'[p] = NoPlan
      /\ \A q \in Proc \ {p} : pc'[q] = pc[q] /\ mine'[q] = mine[q] /\ copy'[q] = copy[q]
  BY <1>1 DEF TypeOK, End, Pcs
<1> QED BY <1>2 DEF HoldsPlan, HoldsOrder, HoldsStop, Sound, NoPlan, Executing

\* The kill switch leaves the policy of its type and takes no stop back.
LEMMA Tripped ==
  ASSUME policy \in Policies, MayTrip
  PROVE  policy' \in Policies /\ (policy.stopped => policy'.stopped)
BY DEF Policies, MayTrip

\* Writes keep the types of the rows.
LEMMA PlanWrites ==
  ASSUME NEW r \in Plans, NEW p \in Proc
  PROVE  /\ Approved(r, p) \in Plans /\ Expired(r) \in Plans
         /\ Approved(r, p).state = "SUBMITTED" /\ Expired(r).state = "EXPIRED"
         /\ Approved(r, p).by = p /\ Expired(r).by = r.by
         /\ Approved(r, p).automatic = r.automatic /\ Expired(r).automatic = r.automatic
<1>1. \A n \in Plans : Bumped(n) \in Plans
  BY DEF Bumped, Plans
<1>2. [r EXCEPT !.state = "SUBMITTED", !.by = p] \in Plans /\ [r EXCEPT !.state = "EXPIRED"] \in Plans
  BY DEF Plans
<1>3. Approved(r, p) \in Plans /\ Expired(r) \in Plans
  BY <1>1, <1>2 DEF Approved, Expired
<1> QED BY <1>3 DEF Approved, Expired, Bumped, Plans

\* And every write of an order counts its version up and leaves what it was
\* made of.
LEMMA OrderWrites ==
  ASSUME NEW o \in Orders
  PROVE  /\ \A to \in {"REJECTED", "CANCEL_REQUESTED", "RECOVERY_REQUIRED"} :
              /\ Moved(o, to) \in Orders /\ Moved(o, to).state = to
              /\ Moved(o, to).version = o.version + 1
              /\ Moved(o, to).approved = o.approved /\ Moved(o, to).intent = o.intent
         /\ Intended(o) \in Orders /\ Intended(o).state = o.state
         /\ Intended(o).version = o.version + 1 /\ Intended(o).approved = o.approved
         /\ Bumped(o) \in Orders /\ Bumped(o).state = o.state
         /\ Bumped(o).version = o.version + 1
         /\ Bumped(o).approved = o.approved /\ Bumped(o).intent = o.intent
<1>1. \A n \in Orders : Bumped(n) \in Orders
  BY DEF Bumped, Orders
<1>2. /\ \A to \in {"REJECTED", "CANCEL_REQUESTED", "RECOVERY_REQUIRED"} : [o EXCEPT !.state = to] \in Orders
      /\ [o EXCEPT !.intent = TRUE] \in Orders
  BY DEF Orders
<1>3. /\ \A to \in {"REJECTED", "CANCEL_REQUESTED", "RECOVERY_REQUIRED"} : Moved(o, to) \in Orders
      /\ Intended(o) \in Orders /\ Bumped(o) \in Orders
  BY <1>1, <1>2 DEF Moved, Intended
<1> QED BY <1>3 DEF Moved, Intended, Bumped, Orders

\* A call that ends keeps the invariant if its last write is in order.
LEMMA EndKeeps ==
  ASSUME IInv, NEW p \in Proc, End(p), plan' \in Plans, order' \in Orders,
         policy' \in Policies, late' \in BOOLEAN,
         faults' \in 0..MaxFaults, calm' \in BOOLEAN,
         clean' \subseteq clean, p \notin clean',
         policy.stopped => policy'.stopped,
         calm' => calm \/ (p \in clean /\ pc[p] = "answer"),
         PlanStep(p), OrderStep(p)
  PROVE  Keeps(p)
<1>1. TypeOK'
  BY EndHolds DEF IInv, TypeOK
<1>2. StepOf(p)
  BY EndHolds DEF IInv, StepOf, Alone, ExecStep, Executing
<1> QED BY <1>1, <1>2, EndHolds DEF IInv, Keeps

\* A call that goes on leaves the others alone.
LEMMA MoveFacts ==
  ASSUME TypeOK, NEW p \in Proc, NEW next \in Pcs, Goto(p, next),
         plan' \in Plans, order' \in Orders, policy' \in Policies,
         policy.stopped => policy'.stopped, UNCHANGED Others,
         mine' \in {mine, [mine EXCEPT ![p] = plan'], [mine EXCEPT ![p] = NoPlan]},
         copy' = copy \/ copy' = [copy EXCEPT ![p] = order']
  PROVE  TypeOK' /\ Alone(p) /\ pc'[p] = next
<1>1. NoPlan \in Plans
  BY DEF NoPlan, Plans
<1>2. mine' \in [Proc -> Plans] /\ copy' \in [Proc -> Orders] /\ pc' \in [Proc -> Pcs]
  BY <1>1 DEF TypeOK, Goto
<1> QED BY <1>2 DEF TypeOK, Goto, Others, history, Alone

\* A call that only reads keeps the invariant if the reader holds what its next
\* step wants.
LEMMA ReaderMoves ==
  ASSUME IInv, NEW p \in Proc, NEW next \in Pcs, Goto(p, next), p \notin clean,
         UNCHANGED <<db, copy, Others>>,
         mine' \in {mine, [mine EXCEPT ![p] = plan'], [mine EXCEPT ![p] = NoPlan]},
         policy' \in Policies, policy.stopped => policy'.stopped,
         next \in Executing => pc[p] \in Executing,
         next \in {"controls", "intent"} /\ policy.stopped => pc[p] = "controls",
         HoldsPlan(p)', HoldsOrder(p)'
  PROVE  Keeps(p)
<1>1. TypeOK' /\ Alone(p) /\ pc'[p] = next
  BY MoveFacts DEF db, IInv, TypeOK
<1>2. StepOf(p)
  BY <1>1 DEF StepOf, PlanStep, OrderStep, ExecStep, db
<1>3. HoldsStop(p)'
  BY DEF HoldsStop, Others, history
<1> QED BY <1>1, <1>2, <1>3 DEF Keeps

\* And so does one that ends without a write of its own.
LEMMA ReaderEnds ==
  ASSUME IInv, NEW p \in Proc, End(p), p \notin clean, UNCHANGED <<db, Others>>,
         policy' \in Policies, policy.stopped => policy'.stopped
  PROVE  Keeps(p)
BY EndKeeps DEF db, Others, history, IInv, TypeOK, PlanStep, OrderStep

\* A call of createPlan starts.
LEMMA SubmitKeeps ==
  ASSUME IInv, NEW p \in Proc, Submit(p)  PROVE Keeps(p)
<1>1. /\ pc[p] = "idle" /\ Goto(p, "find") /\ UNCHANGED <<db, policy, mine, copy, Others>>
      /\ p \notin clean /\ pc'[p] = "find"
  BY DEF Submit, Goto, IInv, TypeOK, HoldsStop
<1>2. HoldsPlan(p)' /\ HoldsOrder(p)'
  BY <1>1 DEF HoldsPlan, HoldsOrder, Executing, IInv, Sound
<1> QED BY <1>1, <1>2, ReaderMoves DEF Pcs, Executing, IInv, TypeOK

\* It finds the plan, or means to make it.
LEMMA FindPlanKeeps ==
  ASSUME IInv, NEW p \in Proc, FindPlan(p)  PROVE Keeps(p)
<1>1. CASE End(p)
  BY <1>1, EndKeeps, Tripped DEF FindPlan, Others, history, db, IInv, TypeOK, HoldsStop, PlanStep, OrderStep
<1>2. CASE ~End(p)
  <2>1. /\ \/ Goto(p, "insert") /\ UNCHANGED mine
           \/ Goto(p, "begin") /\ mine' = [mine EXCEPT ![p] = plan'] /\ p \in Workers
        /\ UNCHANGED <<db, policy, copy, Others>>
        /\ pc[p] = "find"
    BY <1>2 DEF FindPlan, db, ReadPlan
  <2>2. TypeOK' /\ Alone(p) /\ (pc'[p] = "insert" \/ (pc'[p] = "begin" /\ p \in Workers))
    BY <2>1, MoveFacts DEF db, IInv, TypeOK, Pcs
  <2>3. StepOf(p)
    BY <2>1, <2>2 DEF StepOf, PlanStep, OrderStep, ExecStep, Executing, db
  <2>4. HoldsPlan(p)' /\ HoldsOrder(p)' /\ HoldsStop(p)'
    BY <2>1, <2>2 DEF HoldsPlan, HoldsOrder, HoldsStop, Executing, IInv, TypeOK, Sound, db, Others, history
  <2> QED BY <2>2, <2>3, <2>4 DEF Keeps
<1> QED BY <1>1, <1>2

\* The plan is made once.
LEMMA InsertPlanKeeps ==
  ASSUME IInv, NEW p \in Proc, InsertPlan(p)  PROVE Keeps(p)
<1>1. NewPlan(p) \in Plans /\ NewPlan(p).by = NoOne
  BY DEF NewPlan, Plans
<1>2. plan' \in Plans /\ PlanStep(p)
  BY <1>1 DEF InsertPlan, PlanStep, Sound, IInv, TypeOK
<1>3. UNCHANGED <<order, policy, Others>> /\ OrderStep(p) /\ pc[p] = "insert"
  BY DEF InsertPlan, OrderStep
<1>4. CASE p \notin Workers
  BY <1>2, <1>3, <1>4, EndKeeps DEF InsertPlan, Others, history, IInv, TypeOK, HoldsStop
<1>5. CASE p \in Workers
  <2>1. Goto(p, "begin") /\ mine' = [mine EXCEPT ![p] = plan'] /\ UNCHANGED copy
    BY <1>5 DEF InsertPlan
  <2>2. TypeOK' /\ Alone(p) /\ pc'[p] = "begin"
    BY <1>2, <1>3, <2>1, MoveFacts DEF IInv, TypeOK, Pcs
  <2>3. StepOf(p)
    BY <1>2, <1>3, <2>2 DEF StepOf, ExecStep, Executing
  <2>4. HoldsPlan(p)' /\ HoldsOrder(p)' /\ HoldsStop(p)'
    BY <1>2, <1>3, <1>5, <2>1, <2>2 DEF HoldsPlan, HoldsOrder, HoldsStop, Executing, PlanStep, IInv, TypeOK, Sound, Others, history
  <2> QED BY <2>2, <2>3, <2>4 DEF Keeps
<1> QED BY <1>4, <1>5

\* The worker looks at the plan it found.
LEMMA BeginAutomaticKeeps ==
  ASSUME IInv, NEW p \in Proc, BeginAutomatic(p)  PROVE Keeps(p)
<1>1. /\ pc[p] = "begin" /\ p \in Workers
      /\ UNCHANGED <<db, policy, Others>>
  BY DEF BeginAutomatic, IInv, HoldsPlan
<1>2. CASE End(p)
  BY <1>1, <1>2, EndKeeps DEF Others, history, db, IInv, TypeOK, HoldsStop, PlanStep, OrderStep
<1>3. CASE ~End(p)
  <2>1. /\ \/ Goto(p, "create") /\ UNCHANGED mine
           \/ /\ Goto(p, "decide") /\ plan.state = "APPROVAL_PENDING"
              /\ mine' = [mine EXCEPT ![p] = plan']
        /\ UNCHANGED copy
    BY <1>1, <1>3 DEF BeginAutomatic, ReadPlan, db
  <2>2. TypeOK' /\ Alone(p) /\ (pc'[p] = "create" \/ pc'[p] = "decide")
    BY <1>1, <2>1, MoveFacts DEF db, IInv, TypeOK, Pcs
  <2>3. StepOf(p)
    BY <1>1, <2>2 DEF StepOf, PlanStep, OrderStep, ExecStep, Executing, db
  <2>4. HoldsPlan(p)'
    <3>1. CASE UNCHANGED mine /\ Goto(p, "create")
      BY <3>1, <2>2 DEF HoldsPlan, IInv, TypeOK, Sound, Goto
    <3>2. CASE plan.state = "APPROVAL_PENDING" /\ mine' = [mine EXCEPT ![p] = plan'] /\ Goto(p, "decide")
      BY <3>2, <1>1 DEF HoldsPlan, IInv, TypeOK, Sound, Goto, db
    <3> QED BY <2>1, <3>1, <3>2
  <2>5. HoldsOrder(p)' /\ HoldsStop(p)'
    BY <1>1, <2>2 DEF HoldsOrder, HoldsStop, Executing, IInv, Others, history
  <2> QED BY <2>2, <2>3, <2>4, <2>5 DEF Keeps
<1> QED BY <1>2, <1>3

\* The user means to approve the plan.
LEMMA ApproveReadKeeps ==
  ASSUME IInv, NEW p \in Proc, ApproveRead(p)  PROVE Keeps(p)
<1>1. /\ pc[p] = "idle" /\ p \in Approvers /\ plan.state = "APPROVAL_PENDING"
      /\ UNCHANGED <<db, policy, copy, Others>> /\ mine' = [mine EXCEPT ![p] = plan']
      /\ p \notin clean
      /\ mine'[p] = plan
  BY DEF ApproveRead, ReadPlan, db, IInv, TypeOK, HoldsStop
<1>2. PICK next \in {"expire", "decide"} : Goto(p, next)
  BY DEF ApproveRead
<1>3. pc'[p] = next
  BY <1>2 DEF Goto, IInv, TypeOK
<1>4. HoldsPlan(p)' /\ HoldsOrder(p)'
  BY <1>1, <1>3 DEF HoldsPlan, HoldsOrder, Executing, IInv, Sound
<1> QED BY <1>1, <1>2, <1>4, ReaderMoves DEF Pcs, Executing, IInv, TypeOK

\* Whoever goes on to approve is a worker on an automatic plan or an approver.
LEMMA DecideKeeps ==
  ASSUME IInv, NEW p \in Proc, Decide(p)  PROVE Keeps(p)
<1>1. /\ pc[p] = "decide" /\ p \notin clean /\ UNCHANGED <<db, Others>>
      /\ mine[p].state = "APPROVAL_PENDING" /\ p \in Workers \cup Approvers
      /\ policy' \in Policies /\ (policy.stopped => policy'.stopped)
  BY Tripped DEF Decide, IInv, TypeOK, HoldsPlan, HoldsStop
<1>2. CASE End(p)
  BY <1>1, <1>2, ReaderEnds
<1>3. ASSUME NEW next \in {"approve", "expire"}, Goto(p, next), MayBegin(p), UNCHANGED <<mine, copy>>
      PROVE  Keeps(p)
  <2>1. pc'[p] = next
    BY <1>3 DEF Goto, IInv, TypeOK
  <2>2. HoldsPlan(p)' /\ HoldsOrder(p)'
    BY <1>1, <1>3, <2>1 DEF HoldsPlan, HoldsOrder, Executing, MayBegin, IInv, Sound
  <2> QED BY <1>1, <1>3, <2>2, ReaderMoves DEF Pcs, Executing
<1> QED BY <1>2, <1>3 DEF Decide

\* The approval is a compare-and-set on a pending plan.
LEMMA ApprovePlanKeeps ==
  ASSUME IInv, NEW p \in Proc, ApprovePlan(p)  PROVE Keeps(p)
<1>1. /\ pc[p] = "approve" /\ mine[p] \in Plans /\ p \in Workers \cup Approvers
      /\ mine[p].state = "APPROVAL_PENDING" /\ (p \in Workers => mine[p].automatic)
      /\ UNCHANGED <<order, policy, Others>> /\ OrderStep(p)
  BY DEF ApprovePlan, IInv, TypeOK, HoldsPlan, OrderStep
<1>2. CASE ~PlanApplies(p)
  BY <1>1, <1>2, EndKeeps DEF ApprovePlan, Others, history, IInv, TypeOK, HoldsStop, PlanStep
<1>3. CASE PlanApplies(p)
  <2>1. /\ plan' = Approved(mine[p], p) /\ mine' = [mine EXCEPT ![p] = plan']
        /\ Goto(p, "create") /\ UNCHANGED copy
    BY <1>3 DEF ApprovePlan
  <2>2. plan' \in Plans /\ Sound(plan')
    BY <1>1, <2>1, PlanWrites DEF Sound
  <2>3. TypeOK' /\ Alone(p) /\ pc'[p] = "create"
    BY <1>1, <2>1, <2>2, MoveFacts DEF IInv, TypeOK, Pcs
  <2>4. StepOf(p)
    BY <1>1, <1>3, <2>2, <2>3 DEF StepOf, PlanStep, PlanApplies, ExecStep, Executing
  <2>5. HoldsPlan(p)' /\ HoldsOrder(p)' /\ HoldsStop(p)'
    BY <1>1, <2>1, <2>2, <2>3 DEF HoldsPlan, HoldsOrder, HoldsStop, Executing, IInv, TypeOK, Sound, Others, history
  <2> QED BY <2>3, <2>4, <2>5 DEF Keeps
<1> QED BY <1>2, <1>3

\* So is the expiry.
LEMMA ExpirePlanKeeps ==
  ASSUME IInv, NEW p \in Proc, ExpirePlan(p)  PROVE Keeps(p)
<1>1. /\ pc[p] = "expire" /\ mine[p] \in Plans
      /\ mine[p].state = "APPROVAL_PENDING" /\ Sound(mine[p])
  BY DEF ExpirePlan, IInv, TypeOK, HoldsPlan
<1>2. plan' \in Plans /\ PlanStep(p)
  BY <1>1, PlanWrites DEF ExpirePlan, PlanStep, PlanApplies, Sound, IInv, TypeOK
<1> QED BY <1>1, <1>2, EndKeeps DEF ExpirePlan, Others, history, IInv, TypeOK, HoldsStop, OrderStep

\* Looking for the order changes nothing.
LEMMA CreateOrderKeeps ==
  ASSUME IInv, NEW p \in Proc, CreateOrder(p)  PROVE Keeps(p)
<1>1. pc[p] = "create" /\ p \notin clean /\ UNCHANGED <<db, policy, Others>>
  BY DEF CreateOrder, IInv, HoldsStop
<1>2. CASE End(p)
  BY <1>1, <1>2, ReaderEnds DEF IInv, TypeOK
<1>3. CASE Goto(p, "insertOrder") /\ UNCHANGED <<mine, copy>>
  <2>1. pc'[p] = "insertOrder"
    BY <1>3 DEF Goto, IInv, TypeOK
  <2>2. HoldsPlan(p)' /\ HoldsOrder(p)'
    BY <1>3, <2>1 DEF HoldsPlan, HoldsOrder, Executing, IInv, Sound
  <2> QED BY <1>1, <1>3, <2>2, ReaderMoves DEF Pcs, Executing, IInv, TypeOK
<1> QED BY <1>2, <1>3 DEF CreateOrder, Duplicate

\* Whoever makes the order is the first to execute it.
LEMMA InsertOrderKeeps ==
  ASSUME IInv, NEW p \in Proc, InsertOrder(p)  PROVE Keeps(p)
<1> DEFINE new == [NoOrder EXCEPT !.state = "SUBMITTED", !.approved = mine[p].version]
<1>1. /\ pc[p] = "insertOrder" /\ UNCHANGED <<plan, policy, Others>> /\ PlanStep(p)
  BY DEF InsertOrder, PlanStep
<1>2. CASE End(p) /\ UNCHANGED order
  BY <1>1, <1>2, EndKeeps DEF Others, history, IInv, TypeOK, HoldsStop, OrderStep
<1>3. CASE ~(End(p) /\ UNCHANGED order)
  <2>1. /\ order.state = "none" /\ order' = new /\ copy' = [copy EXCEPT ![p] = order']
        /\ Goto(p, "execute") /\ UNCHANGED mine
    BY <1>3 DEF InsertOrder, Duplicate, IInv, TypeOK, Orders
  <2>2. order' \in Orders /\ order'.state = "SUBMITTED" /\ ~order'.intent
    BY <2>1 DEF NoOrder, Orders, IInv, TypeOK, Plans
  <2>3. TypeOK' /\ Alone(p) /\ pc'[p] = "execute"
    BY <1>1, <2>1, <2>2, MoveFacts DEF IInv, TypeOK, Pcs
  <2>4. \A q \in Proc : pc[q] \notin Executing
    BY <2>1 DEF IInv, HoldsOrder
  <2>5. StepOf(p)
    BY <1>1, <2>1, <2>2, <2>3, <2>4 DEF StepOf, OrderStep, ExecStep
  <2>6. copy'[p] = order'
    BY <2>1 DEF IInv, TypeOK
  <2>7. order'.version <= order'.version
    BY <2>2 DEF Orders
  <2>8. HoldsPlan(p)' /\ HoldsOrder(p)' /\ HoldsStop(p)'
    BY <1>1, <2>1, <2>2, <2>3, <2>6, <2>7 DEF HoldsPlan, HoldsOrder, HoldsStop, Executing, IInv, Sound, Others, history
  <2> QED BY <2>3, <2>5, <2>8 DEF Keeps
<1> QED BY <1>2, <1>3

\* The executor reads the order it made.
LEMMA ExecuteReadKeeps ==
  ASSUME IInv, NEW p \in Proc, ExecuteRead(p)  PROVE Keeps(p)
<1>1. pc[p] = "execute" /\ UNCHANGED <<db, policy, Others>> /\ PlanStep(p) /\ OrderStep(p)
  BY DEF ExecuteRead, PlanStep, OrderStep, db
<1>2. CASE order.state # "SUBMITTED"
  BY <1>1, <1>2, EndKeeps DEF ExecuteRead, Others, history, db, IInv, TypeOK, HoldsStop
<1>3. CASE order.state = "SUBMITTED"
  <2>1. Goto(p, "precheck") /\ copy' = [copy EXCEPT ![p] = order'] /\ UNCHANGED mine
    BY <1>3 DEF ExecuteRead, ReadOrder, db
  <2>2. TypeOK' /\ Alone(p) /\ pc'[p] = "precheck"
    BY <1>1, <2>1, MoveFacts DEF db, IInv, TypeOK, Pcs
  <2>3. StepOf(p)
    BY <1>1, <2>2 DEF StepOf, ExecStep, Executing
  <2>4. copy'[p] = order /\ order.version <= order.version
    BY <1>1, <2>1 DEF db, IInv, TypeOK, Orders
  <2>5. HoldsPlan(p)' /\ HoldsOrder(p)' /\ HoldsStop(p)'
    BY <1>1, <1>3, <2>1, <2>2, <2>4 DEF HoldsPlan, HoldsOrder, HoldsStop, Executing, IInv, Sound, db, Others, history
  <2> QED BY <2>2, <2>3, <2>5 DEF Keeps
<1> QED BY <1>2, <1>3

\* The prechecks change nothing.
LEMMA PrecheckKeeps ==
  ASSUME IInv, NEW p \in Proc, Precheck(p)  PROVE Keeps(p)
<1>1. pc[p] = "precheck" /\ p \notin clean /\ UNCHANGED <<db, policy, Others>>
  BY DEF Precheck, IInv, HoldsStop
<1>2. CASE End(p)
  BY <1>1, <1>2, ReaderEnds DEF IInv, TypeOK
<1>3. ASSUME NEW next \in {"claim", "reject"}, Goto(p, next), UNCHANGED <<mine, copy>>
      PROVE  Keeps(p)
  <2>1. pc'[p] = next
    BY <1>3 DEF Goto, IInv, TypeOK
  <2>2. HoldsPlan(p)' /\ HoldsOrder(p)'
    BY <1>1, <1>3, <2>1 DEF HoldsPlan, HoldsOrder, Executing, IInv, Sound, db
  <2> QED BY <1>1, <1>3, <2>2, ReaderMoves DEF Pcs, Executing, IInv, TypeOK
<1> QED BY <1>2, <1>3 DEF Precheck

\* The claim counts the version up, and the executor knows it.
LEMMA ClaimExecutionKeeps ==
  ASSUME IInv, NEW p \in Proc, ClaimExecution(p)  PROVE Keeps(p)
<1>1. /\ pc[p] = "claim" /\ UNCHANGED <<plan, policy, Others>> /\ PlanStep(p)
      /\ copy[p].state = "SUBMITTED" /\ order.state # "none" /\ copy[p].approved = order.approved
      /\ order \in Orders
  BY DEF ClaimExecution, PlanStep, IInv, TypeOK, HoldsOrder, Executing
<1>2. CASE End(p) /\ UNCHANGED order
  BY <1>1, <1>2, EndKeeps DEF Others, history, IInv, TypeOK, HoldsStop, OrderStep
<1>3. CASE Goto(p, "reject") /\ UNCHANGED <<order, mine, copy>>
  <2>1. TypeOK' /\ Alone(p) /\ pc'[p] = "reject"
    BY <1>1, <1>3, MoveFacts DEF IInv, TypeOK, Pcs
  <2>2. StepOf(p)
    BY <1>1, <1>3, <2>1 DEF StepOf, OrderStep, ExecStep, Executing
  <2>3. HoldsPlan(p)' /\ HoldsOrder(p)' /\ HoldsStop(p)'
    BY <1>1, <1>3, <2>1 DEF HoldsPlan, HoldsOrder, HoldsStop, Executing, IInv, Sound, Others, history
  <2> QED BY <2>1, <2>2, <2>3 DEF Keeps
<1>4. CASE /\ OrderApplies(p) /\ order' = Bumped(order) /\ copy' = [copy EXCEPT ![p] = order']
           /\ Goto(p, "recheckPlan") /\ UNCHANGED mine
  <2>1. /\ order' \in Orders /\ order'.state = "SUBMITTED" /\ order'.version = order.version + 1
        /\ order'.approved = order.approved /\ order'.intent = order.intent
    BY <1>1, <1>4, OrderWrites DEF OrderApplies
  <2>2. TypeOK' /\ Alone(p) /\ pc'[p] = "recheckPlan"
    BY <1>1, <1>4, <2>1, MoveFacts DEF IInv, TypeOK, Pcs
  <2>3. StepOf(p)
    BY <1>1, <2>1, <2>2 DEF StepOf, OrderStep, ExecStep, Executing
  <2>4. copy'[p] = order' /\ order'.version <= order'.version
    BY <1>4, <2>1 DEF IInv, TypeOK, Orders
  <2>5. HoldsPlan(p)' /\ HoldsOrder(p)' /\ HoldsStop(p)'
    BY <1>1, <1>4, <2>1, <2>2, <2>4 DEF HoldsPlan, HoldsOrder, HoldsStop, Executing, IInv, Sound, Others, history
  <2> QED BY <2>2, <2>3, <2>5 DEF Keeps
<1> QED BY <1>2, <1>3, <1>4 DEF ClaimExecution

\* Past the recheck of the plan it is the approved one.
LEMMA RecheckPlanKeeps ==
  ASSUME IInv, NEW p \in Proc, RecheckPlan(p)  PROVE Keeps(p)
<1>1. /\ pc[p] = "recheckPlan" /\ p \notin clean /\ UNCHANGED <<db, mine, copy, Others>>
      /\ policy' \in Policies /\ (policy.stopped => policy'.stopped)
  BY Tripped DEF RecheckPlan, IInv, TypeOK, HoldsStop
<1>2. ASSUME NEW next \in {"recheckPolicy", "blocked"}, Goto(p, next),
             next = "recheckPolicy" => StillApproved(p)
      PROVE  Keeps(p)
  <2>1. pc'[p] = next
    BY <1>2 DEF Goto, IInv, TypeOK
  <2>2. HoldsPlan(p)' /\ HoldsOrder(p)'
    BY <1>1, <1>2, <2>1 DEF HoldsPlan, HoldsOrder, StillApproved, Executing, IInv, Sound, db
  <2> QED BY <1>1, <1>2, <2>2, ReaderMoves DEF Pcs, Executing
<1> QED BY <1>2 DEF RecheckPlan

\* Past the recheck of the policy entries were allowed.
LEMMA RecheckPolicyKeeps ==
  ASSUME IInv, NEW p \in Proc, RecheckPolicy(p)  PROVE Keeps(p)
<1>1. /\ pc[p] = "recheckPolicy" /\ p \notin clean /\ UNCHANGED <<db, mine, copy, Others>>
      /\ policy' \in Policies /\ (policy.stopped => policy'.stopped)
  BY Tripped DEF RecheckPolicy, IInv, TypeOK, HoldsStop
<1>2. ASSUME NEW next \in {"controls", "intent", "blocked"}, Goto(p, next),
             next # "blocked" => ~policy.stopped
      PROVE  Keeps(p)
  <2>1. pc'[p] = next
    BY <1>2 DEF Goto, IInv, TypeOK
  <2>2. HoldsPlan(p)' /\ HoldsOrder(p)'
    BY <1>1, <1>2, <2>1 DEF HoldsPlan, HoldsOrder, Executing, IInv, Sound, db
  <2> QED BY <1>1, <1>2, <2>2, ReaderMoves DEF Pcs, Executing
<1> QED BY <1>2 DEF RecheckPolicy, EntriesAllowed

\* The controls of an automatic entry change nothing.
LEMMA AutomaticControlsKeeps ==
  ASSUME IInv, NEW p \in Proc, AutomaticControls(p)  PROVE Keeps(p)
<1>1. pc[p] = "controls" /\ p \notin clean /\ UNCHANGED <<db, policy, mine, copy, Others>>
  BY DEF AutomaticControls, IInv, HoldsStop
<1>2. PICK next \in {"intent", "reject"} : Goto(p, next)
  BY DEF AutomaticControls
<1>3. pc'[p] = next
  BY <1>2 DEF Goto, IInv, TypeOK
<1>4. HoldsPlan(p)' /\ HoldsOrder(p)'
  BY <1>1, <1>3 DEF HoldsPlan, HoldsOrder, Executing, IInv, Sound, db
<1> QED BY <1>1, <1>2, <1>4, ReaderMoves DEF Pcs, Executing, IInv, TypeOK

\* The intent is recorded over the copy the recheck was made with.
LEMMA RecordIntentKeeps ==
  ASSUME IInv, NEW p \in Proc, RecordIntent(p)  PROVE Keeps(p)
<1>1. /\ pc[p] = "intent" /\ End(p) /\ UNCHANGED <<plan, policy, Others>> /\ PlanStep(p)
      /\ order \in Orders /\ order.state # "none"
  BY DEF RecordIntent, PlanStep, IInv, TypeOK, HoldsOrder, Executing
<1>2. pc'[p] = "idle"
  BY <1>1 DEF End, IInv, TypeOK
<1>3. order' \in Orders /\ OrderStep(p)
  BY <1>1, <1>2, OrderWrites DEF RecordIntent, OrderStep
<1> QED BY <1>1, <1>3, EndKeeps DEF Others, history, IInv, TypeOK, HoldsStop

\* A blocked recheck expires its own plan.
LEMMA ExpireBlockedKeeps ==
  ASSUME IInv, NEW p \in Proc, ExpireBlocked(p)  PROVE Keeps(p)
<1>1. /\ pc[p] = "blocked" /\ Goto(p, "reject") /\ UNCHANGED <<order, policy, mine, copy, Others>>
      /\ plan \in Plans /\ OrderStep(p)
  BY DEF ExpireBlocked, OrderStep, IInv, TypeOK
<1>2. plan' \in Plans /\ PlanStep(p)
  BY <1>1, PlanWrites DEF ExpireBlocked, PlanStep, Sound, IInv
<1>3. TypeOK' /\ Alone(p) /\ pc'[p] = "reject"
  BY <1>1, <1>2, MoveFacts DEF IInv, TypeOK, Pcs
<1>4. StepOf(p)
  BY <1>1, <1>2, <1>3 DEF StepOf, ExecStep, Executing
<1>5. HoldsPlan(p)' /\ HoldsOrder(p)' /\ HoldsStop(p)'
  BY <1>1, <1>3 DEF HoldsPlan, HoldsOrder, HoldsStop, Executing, IInv, Sound, Others, history
<1> QED BY <1>3, <1>4, <1>5 DEF Keeps

\* A failed preflight check rejects the order next.
LEMMA PreflightFailsKeeps ==
  ASSUME IInv, NEW p \in Proc, PreflightFails(p)  PROVE Keeps(p)
<1>1. /\ pc[p] \in {"recheckPlan", "controls", "intent"} /\ p \notin clean
      /\ Goto(p, "reject") /\ UNCHANGED <<db, policy, mine, copy, Others>>
  BY DEF PreflightFails, IInv, HoldsStop
<1>2. pc'[p] = "reject"
  BY <1>1 DEF Goto, IInv, TypeOK
<1>3. HoldsPlan(p)' /\ HoldsOrder(p)'
  BY <1>1, <1>2 DEF HoldsPlan, HoldsOrder, Executing, IInv, Sound, db
<1> QED BY <1>1, <1>3, ReaderMoves DEF Pcs, Executing, IInv, TypeOK

\* A rejection is a compare-and-set.
LEMMA RejectOrderKeeps ==
  ASSUME IInv, NEW p \in Proc, RejectOrder(p)  PROVE Keeps(p)
<1>1. /\ pc[p] = "reject" /\ End(p) /\ UNCHANGED <<plan, Others>> /\ PlanStep(p)
      /\ order \in Orders /\ order.state # "none"
  BY DEF RejectOrder, PlanStep, IInv, TypeOK, HoldsOrder, Executing
<1>2. order' \in Orders /\ OrderStep(p)
  BY <1>1, OrderWrites DEF RejectOrder, OrderStep
<1>3. policy' \in Policies /\ (policy.stopped => policy'.stopped)
  BY Tripped DEF RejectOrder, IInv, TypeOK
<1> QED BY <1>1, <1>2, <1>3, EndKeeps DEF Others, history, IInv, TypeOK, HoldsStop

\* An invalidation reads the plan.
LEMMA InvalidateReadKeeps ==
  ASSUME IInv, NEW p \in Proc, InvalidateRead(p)  PROVE Keeps(p)
<1>1. /\ pc[p] = "idle" /\ p \notin clean /\ Goto(p, "findOrder")
      /\ UNCHANGED <<db, policy, copy, Others>> /\ mine' = [mine EXCEPT ![p] = plan']
      /\ mine'[p] = plan
  BY DEF InvalidateRead, ReadPlan, db, IInv, TypeOK, HoldsStop
<1>2. pc'[p] = "findOrder"
  BY <1>1 DEF Goto, IInv, TypeOK
<1>3. HoldsPlan(p)' /\ HoldsOrder(p)'
  BY <1>1, <1>2 DEF HoldsPlan, HoldsOrder, Executing, IInv, Sound
<1> QED BY <1>1, <1>3, ReaderMoves DEF Pcs, Executing, IInv, TypeOK

\* It expires only a plan it read as pending.
LEMMA InvalidateFindKeeps ==
  ASSUME IInv, NEW p \in Proc, InvalidateFind(p)  PROVE Keeps(p)
<1>1. pc[p] = "findOrder" /\ p \notin clean /\ UNCHANGED <<db, policy, Others>>
  BY DEF InvalidateFind, IInv, HoldsStop
<1>2. CASE End(p)
  BY <1>1, <1>2, ReaderEnds DEF IInv, TypeOK
<1>3. ASSUME NEW next \in {"expirePending", "cancelRead"}, Goto(p, next), UNCHANGED copy,
             mine' \in {mine, [mine EXCEPT ![p] = NoPlan]},
             next = "expirePending" => mine' = mine /\ mine[p].state = "APPROVAL_PENDING"
      PROVE  Keeps(p)
  <2>1. pc'[p] = next /\ mine'[p] \in {mine[p], NoPlan}
    BY <1>3 DEF Goto, IInv, TypeOK
  <2>2. HoldsPlan(p)' /\ HoldsOrder(p)'
    BY <1>3, <2>1 DEF HoldsPlan, HoldsOrder, Executing, IInv, Sound, NoPlan
  <2> QED BY <1>1, <1>3, <2>2, ReaderMoves DEF Pcs, Executing, IInv, TypeOK
<1> QED BY <1>2, <1>3 DEF InvalidateFind

\* Its expiry is a compare-and-set.
LEMMA InvalidateExpireKeeps ==
  ASSUME IInv, NEW p \in Proc, InvalidateExpire(p)  PROVE Keeps(p)
<1>1. /\ pc[p] = "expirePending" /\ mine[p] \in Plans
      /\ mine[p].state = "APPROVAL_PENDING" /\ Sound(mine[p])
  BY DEF InvalidateExpire, IInv, TypeOK, HoldsPlan
<1>2. plan' \in Plans /\ PlanStep(p)
  BY <1>1, PlanWrites DEF InvalidateExpire, PlanStep, PlanApplies, Sound, IInv, TypeOK
<1> QED BY <1>1, <1>2, EndKeeps DEF InvalidateExpire, Others, history, IInv, TypeOK, HoldsStop, OrderStep

\* A stop begins clean.
LEMMA StopKeeps ==
  ASSUME IInv, NEW p \in Proc, Stop(p)  PROVE Keeps(p)
<1>1. /\ p \in Stoppers /\ pc[p] = "idle" /\ Goto(p, "list")
      /\ UNCHANGED <<db, late, mine, copy, calm, faults>>
      /\ clean' = clean \cup {p}
  BY DEF Stop
<1>2. policy' \in Policies /\ policy'.stopped
  BY DEF Stop, Policies
<1>3. pc' \in [Proc -> Pcs] /\ pc'[p] = "list" /\ \A q \in Proc \ {p} : pc'[q] = pc[q]
  BY <1>1 DEF Goto, IInv, TypeOK, Pcs
<1>4. TypeOK'
  BY <1>1, <1>2, <1>3 DEF IInv, TypeOK, db
<1>5. StepOf(p)
  BY <1>1, <1>2, <1>3 DEF StepOf, Alone, PlanStep, OrderStep, ExecStep, Executing, db
<1>6. HoldsPlan(p)' /\ HoldsOrder(p)' /\ HoldsStop(p)'
  BY <1>1, <1>2, <1>3 DEF HoldsPlan, HoldsOrder, HoldsStop, Executing, IInv, Sound
<1> QED BY <1>4, <1>5, <1>6 DEF Keeps

\* A stop that finds nothing to cancel has nothing to fear.
LEMMA ListOrdersKeeps ==
  ASSUME IInv, NEW p \in Proc, ListOrders(p)  PROVE Keeps(p)
<1>1. /\ pc[p] = "list" /\ UNCHANGED <<db, policy, mine, copy, Others>>
      /\ PlanStep(p) /\ OrderStep(p)
      /\ \/ Goto(p, "cancelRead")
         \/ Goto(p, "answer") /\ order.state # "SUBMITTED"
  BY DEF ListOrders, Cancelable, PlanStep, OrderStep, db
<1>2. TypeOK' /\ Alone(p) /\ (pc'[p] = "cancelRead" \/ (pc'[p] = "answer" /\ order.state # "SUBMITTED"))
  BY <1>1, MoveFacts DEF db, IInv, TypeOK, Pcs
<1>3. StepOf(p)
  BY <1>1, <1>2 DEF StepOf, ExecStep, Executing
<1>4. HoldsPlan(p)' /\ HoldsOrder(p)'
  BY <1>1, <1>2 DEF HoldsPlan, HoldsOrder, Executing, IInv, Sound
<1>5. HoldsStop(p)'
  BY <1>1, <1>2, <1>3, ClosedUnlessSubmitted, Closing DEF HoldsStop, IInv, Others, history
<1> QED BY <1>2, <1>3, <1>4, <1>5 DEF Keeps

\* A cancel's claim that applies is a write of an order that was submitted.
LEMMA CancelWrites ==
  ASSUME IInv, NEW p \in Proc, pc[p] = "cancelClaim", OrderApplies(p)
  PROVE  /\ order.state # "none"
         /\ LET new == Moved(order, "CANCEL_REQUESTED")
            IN  /\ new \in Orders /\ new.state = "CANCEL_REQUESTED" /\ new # order
                /\ new.version = order.version + 1
                /\ new.approved = order.approved /\ new.intent = order.intent
<1>1. order \in Orders /\ order.version \in Nat /\ copy[p].state = "SUBMITTED"
  BY DEF IInv, TypeOK, Orders, HoldsOrder
<1>2. order.version + 1 # order.version
  BY <1>1
<1> QED BY <1>1, <1>2, OrderWrites DEF OrderApplies

\* A cancel has the order as it stands.
LEMMA CancelReadKeeps ==
  ASSUME IInv, NEW p \in Proc, CancelRead(p)  PROVE Keeps(p)
<1>1. pc[p] = "cancelRead" /\ UNCHANGED <<db, policy, Others>> /\ PlanStep(p) /\ OrderStep(p)
  BY DEF CancelRead, PlanStep, OrderStep, db
<1>2. CASE order.state = "SUBMITTED"
  <2>1. Goto(p, "cancelClaim") /\ copy' = [copy EXCEPT ![p] = order'] /\ UNCHANGED mine
    BY <1>2 DEF CancelRead, ReadOrder, db
  <2>2. TypeOK' /\ Alone(p) /\ pc'[p] = "cancelClaim"
    BY <1>1, <2>1, MoveFacts DEF db, IInv, TypeOK, Pcs
  <2>3. StepOf(p)
    BY <1>1, <2>2 DEF StepOf, ExecStep, Executing
  <2>4. OrderApplies(p)' /\ copy'[p].state = "SUBMITTED"
    BY <1>1, <1>2, <2>1 DEF OrderApplies, db, IInv, TypeOK
  <2>5. HoldsPlan(p)' /\ HoldsOrder(p)' /\ HoldsStop(p)'
    BY <1>1, <2>1, <2>2, <2>4 DEF HoldsPlan, HoldsOrder, HoldsStop, Executing, IInv, Sound, Others, history
  <2> QED BY <2>2, <2>3, <2>5 DEF Keeps
<1>3. CASE order.state # "SUBMITTED" /\ p \notin Stoppers
  BY <1>1, <1>3, EndKeeps DEF CancelRead, Cancelled, Others, history, db, IInv, TypeOK, HoldsStop
<1>4. CASE order.state # "SUBMITTED" /\ p \in Stoppers
  <2>1. Goto(p, "answer") /\ UNCHANGED <<mine, copy>>
    BY <1>4 DEF CancelRead, Cancelled
  <2>2. TypeOK' /\ Alone(p) /\ pc'[p] = "answer"
    BY <1>1, <2>1, MoveFacts DEF db, IInv, TypeOK, Pcs
  <2>3. StepOf(p)
    BY <1>1, <2>2 DEF StepOf, ExecStep, Executing
  <2>4. HoldsStop(p)'
    BY <1>1, <1>4, <2>2, <2>3, ClosedUnlessSubmitted, Closing DEF HoldsStop, IInv, Others, history
  <2>5. HoldsPlan(p)' /\ HoldsOrder(p)'
    BY <1>1, <2>1, <2>2 DEF HoldsPlan, HoldsOrder, Executing, IInv, Sound
  <2> QED BY <2>2, <2>3, <2>4, <2>5 DEF Keeps
<1> QED BY <1>2, <1>3, <1>4

\* Its claim writes the order, or somebody has written it already.
LEMMA CancelClaimKeeps ==
  ASSUME IInv, NEW p \in Proc, CancelClaim(p)  PROVE Keeps(p)
<1>1. pc[p] = "cancelClaim" /\ UNCHANGED <<plan, policy, Others>> /\ PlanStep(p)
  BY DEF CancelClaim, PlanStep
<1>2. order' \in Orders /\ OrderStep(p) /\ (OrderApplies(p) => order' # order)
  BY CancelWrites DEF CancelClaim, OrderStep, IInv, TypeOK
<1>3. CASE p \notin Stoppers
  BY <1>1, <1>2, <1>3, EndKeeps DEF CancelClaim, Cancelled, Others, history, IInv, TypeOK, HoldsStop
<1>4. CASE p \in Stoppers
  <2>1. Goto(p, "answer") /\ UNCHANGED <<mine, copy>>
    BY <1>4 DEF CancelClaim, Cancelled
  <2>2. TypeOK' /\ Alone(p) /\ pc'[p] = "answer"
    BY <1>1, <1>2, <2>1, MoveFacts DEF IInv, TypeOK, Pcs
  <2>3. StepOf(p)
    BY <1>1, <1>2, <2>2 DEF StepOf, ExecStep, Executing
  <2>4. HoldsStop(p)'
    BY <1>1, <1>2, <1>4, <2>2, <2>3, Closing DEF HoldsStop, IInv, Others, history
  <2>5. HoldsPlan(p)' /\ HoldsOrder(p)'
    BY <1>1, <2>1, <2>2 DEF HoldsPlan, HoldsOrder, Executing, IInv, Sound
  <2> QED BY <2>2, <2>3, <2>4, <2>5 DEF Keeps
<1> QED BY <1>3, <1>4

\* A failed cancel takes the stop out of the clean ones.
LEMMA CancelFailsKeeps ==
  ASSUME IInv, NEW p \in Proc, CancelFails(p)  PROVE Keeps(p)
<1>1. /\ pc[p] \in {"cancelRead", "cancelClaim"} /\ UNCHANGED <<plan, policy, late, calm>>
      /\ clean' = clean \ {p} /\ faults' \in 0..MaxFaults /\ PlanStep(p)
  BY FaultAssumption DEF CancelFails, PlanStep, IInv, TypeOK
<1>2. order' \in Orders /\ OrderStep(p)
  BY CancelWrites DEF CancelFails, OrderStep, IInv, TypeOK
<1>3. CASE p \notin Stoppers
  BY <1>1, <1>2, <1>3, EndKeeps DEF CancelFails, Cancelled, IInv, TypeOK
<1>4. CASE p \in Stoppers
  <2>1. Goto(p, "answer") /\ UNCHANGED <<mine, copy>>
    BY <1>4 DEF CancelFails, Cancelled
  <2>2. pc' \in [Proc -> Pcs] /\ pc'[p] = "answer" /\ \A q \in Proc \ {p} : pc'[q] = pc[q]
    BY <2>1 DEF Goto, IInv, TypeOK, Pcs
  <2>3. TypeOK'
    BY <1>1, <1>2, <2>1, <2>2 DEF IInv, TypeOK
  <2>4. StepOf(p)
    BY <1>1, <1>2, <2>1, <2>2 DEF StepOf, Alone, ExecStep, Executing
  <2>5. HoldsPlan(p)' /\ HoldsOrder(p)' /\ HoldsStop(p)'
    BY <1>1, <2>1, <2>2 DEF HoldsPlan, HoldsOrder, HoldsStop, Executing, IInv, Sound
  <2> QED BY <2>3, <2>4, <2>5 DEF Keeps
<1> QED BY <1>3, <1>4

\* A clean stop is answered with nothing left to pass.
LEMMA StopAnswerKeeps ==
  ASSUME IInv, NEW p \in Proc, StopAnswer(p)  PROVE Keeps(p)
BY EndKeeps DEF StopAnswer, db, IInv, TypeOK, PlanStep, OrderStep

\* A crash leaves nothing to hold.
LEMMA CrashKeeps ==
  ASSUME IInv, NEW p \in Proc, Crash(p)  PROVE Keeps(p)
<1>1. faults' \in 0..MaxFaults
  BY FaultAssumption DEF Crash, IInv, TypeOK
<1> QED BY <1>1, EndKeeps DEF Crash, db, IInv, TypeOK, PlanStep, OrderStep

-----------------------------------------------------------------------------
(* The theorems.                                                           *)

\* The initial state satisfies the inductive invariant.
LEMMA InitIInv == Init => IInv
<1> SUFFICES ASSUME Init PROVE IInv
  OBVIOUS
<1>1. TypeOK
  <2>1. NoPlan \in Plans /\ NoOrder \in Orders
    BY DEF NoPlan, NoOrder, Plans, Orders
  <2>2. policy \in Policies /\ faults \in 0..MaxFaults
    BY FaultAssumption DEF Init
  <2> QED BY <2>1, <2>2 DEF Init, TypeOK, Pcs
<1>2. \A p \in Proc : HoldsPlan(p) /\ HoldsOrder(p) /\ HoldsStop(p)
  BY DEF Init, HoldsPlan, HoldsOrder, HoldsStop, Sound, NoPlan, Executing
<1> QED BY <1>1, <1>2 DEF Init, IInv, Sound, SoleExecutor, SubmissionIsApproved, NoPlan, NoOrder, Executing

\* The invariant does not depend on the clock, and on the policy only while
\* entries are stopped.
LEMMA Surroundings ==
  ASSUME IInv, UNCHANGED <<db, activity>>, TypeOK',
         \/ UNCHANGED <<clean, calm>> /\ (policy.stopped => policy'.stopped)
         \/ clean' = {} /\ ~calm'
  PROVE  IInv'
<1>1. Closed /\ policy'.stopped => Closed'
  BY DEF Closed, OrderApplies, db, activity
<1>2. \A p \in Proc : HoldsPlan(p)' /\ HoldsOrder(p)' /\ HoldsStop(p)'
  BY <1>1 DEF IInv, HoldsPlan, HoldsOrder, HoldsStop, Sound, OrderApplies, Closed, db, activity
<1> QED BY <1>1, <1>2 DEF IInv, Sound, SoleExecutor, SubmissionIsApproved, Closed, db, activity

\* What a step promises beyond the invariant.
Promise ==
  /\ plan.state \in {"SUBMITTED", "EXPIRED"} =>
       plan'.state \in {plan.state, "EXPIRED"} /\ plan'.by = plan.by
  /\ calm => order'.intent = order.intent

\* A call's step keeps the invariant and the promise.
LEMMA CallKeeps ==
  ASSUME IInv, NEW p \in Proc, Keeps(p)  PROVE IInv' /\ Promise
BY StepKeeps DEF Keeps, Promise, StepOf, PlanStep

\* An order that is taken to recovery is out of reach of whoever would submit it.
LEMMA PrepareRecoveryKeeps ==
  ASSUME IInv, PrepareRecovery  PROVE IInv' /\ Promise
<1>1. /\ order \in Orders /\ order.state \in {"SUBMITTED", "CANCEL_REQUESTED"} /\ order.version \in Nat
      /\ UNCHANGED <<plan, policy, pc, mine, copy, late, clean, calm, faults>>
  BY DEF PrepareRecovery, IInv, TypeOK, Orders, activity, Others, history
<1>2. /\ order' \in Orders /\ order'.state = "RECOVERY_REQUIRED" /\ order'.version = order.version + 1
      /\ order'.approved = order.approved /\ order'.intent = order.intent
  BY <1>1, OrderWrites DEF PrepareRecovery
<1>3. TypeOK'
  BY <1>1, <1>2 DEF IInv, TypeOK
<1>4. \A q \in Proc : HoldsPlan(q)' /\ HoldsOrder(q)'
  <2> SUFFICES ASSUME NEW q \in Proc PROVE HoldsPlan(q)' /\ HoldsOrder(q)'
    OBVIOUS
  <2>1. HoldsPlan(q)' /\ HoldsOrder(q)
    BY <1>1 DEF IInv, HoldsPlan, Sound
  <2>2. copy[q].version \in Nat
    BY DEF IInv, TypeOK, Orders
  <2> QED BY <1>1, <1>2, <2>1, <2>2 DEF HoldsOrder
<1>5. policy.stopped => Closed'
  BY <1>1, <1>2 DEF Closed, IInv, HoldsOrder, OrderApplies, Executing
<1>6. \A q \in Proc : HoldsStop(q)'
  BY <1>1, <1>5 DEF IInv, HoldsStop
<1>7. calm => Closed'
  BY <1>5 DEF IInv, Closed
<1>8. IInv'
  BY <1>1, <1>2, <1>3, <1>4, <1>6, <1>7 DEF IInv, Sound, SoleExecutor, SubmissionIsApproved
<1> QED BY <1>1, <1>2, <1>8 DEF Promise

\* Every step of a call, of the member's switch, of the clock or a crash keeps
\* the inductive invariant, leaves a decided plan decided and an answered stop
\* in force.
THEOREM Consecution == IInv /\ [Next]_vars => IInv' /\ [Promise]_vars
<1> SUFFICES ASSUME IInv, [Next]_vars PROVE IInv' /\ Promise
  OBVIOUS
<1>1. ASSUME NEW p \in Proc, Compose(p)  PROVE IInv' /\ Promise
  BY <1>1, SubmitKeeps, FindPlanKeeps, InsertPlanKeeps, CallKeeps DEF Compose
<1>2. ASSUME NEW p \in Proc, Approve(p)  PROVE IInv' /\ Promise
  BY <1>2, BeginAutomaticKeeps, ApproveReadKeeps, DecideKeeps, ApprovePlanKeeps, ExpirePlanKeeps,
     CallKeeps DEF Approve
<1>3. ASSUME NEW p \in Proc, Create(p)  PROVE IInv' /\ Promise
  BY <1>3, CreateOrderKeeps, InsertOrderKeeps, CallKeeps DEF Create
<1>4. ASSUME NEW p \in Proc, Execute(p)  PROVE IInv' /\ Promise
  BY <1>4, ExecuteReadKeeps, PrecheckKeeps, ClaimExecutionKeeps, RecheckPlanKeeps,
     RecheckPolicyKeeps, AutomaticControlsKeeps, RecordIntentKeeps, ExpireBlockedKeeps,
     PreflightFailsKeeps, RejectOrderKeeps, CallKeeps DEF Execute
<1>5. ASSUME NEW p \in Proc, Invalidate(p)  PROVE IInv' /\ Promise
  BY <1>5, InvalidateReadKeeps, InvalidateFindKeeps, InvalidateExpireKeeps,
     CallKeeps DEF Invalidate
<1>6. ASSUME NEW p \in Proc, Cancel(p)  PROVE IInv' /\ Promise
  BY <1>6, CancelReadKeeps, CancelClaimKeeps, CancelFailsKeeps, CallKeeps DEF Cancel
<1>7. ASSUME NEW p \in Proc, EmergencyStop(p)  PROVE IInv' /\ Promise
  BY <1>7, StopKeeps, ListOrdersKeeps, StopAnswerKeeps, CallKeeps DEF EmergencyStop
<1>8. ASSUME NEW p \in Proc, Crash(p)  PROVE IInv' /\ Promise
  BY <1>8, CrashKeeps, CallKeeps
<1>9. CASE SavePolicy \/ LiftStop \/ ApprovalTimesOut \/ UNCHANGED vars
  <2>1. UNCHANGED <<db, activity>>
    BY <1>9 DEF SavePolicy, LiftStop, ApprovalTimesOut, vars
  <2>2. TypeOK'
    BY <1>9 DEF SavePolicy, LiftStop, ApprovalTimesOut, vars, db, activity, history,
                Others, IInv, TypeOK, Policies
  <2>3. \/ UNCHANGED <<clean, calm>> /\ (policy.stopped => policy'.stopped)
        \/ clean' = {} /\ ~calm'
    BY <1>9 DEF SavePolicy, LiftStop, ApprovalTimesOut, vars, history, Others, IInv,
                TypeOK, Policies
  <2> QED BY <2>1, <2>2, <2>3, Surroundings DEF Promise, db
<1>10. CASE PrepareRecovery
  BY <1>10, PrepareRecoveryKeeps
<1> QED BY <1>1, <1>2, <1>3, <1>4, <1>5, <1>6, <1>7, <1>8, <1>9, <1>10 DEF Next

\* The inductive invariant holds in every reachable state.
LEMMA Invariance == Spec => []IInv
<1> QED BY InitIInv, Consecution, PTL DEF Spec

\* Every variable keeps its type.
THEOREM TypeCorrect == Spec => []TypeOK
<1>1. IInv => TypeOK
  BY DEF IInv
<1> QED BY <1>1, Invariance, PTL

\* An order with an intent on record was made of the plan as it was approved
\* and stands (createOrder, evaluate, beginSubmissionIntent).
THEOREM OnlyApproved == Spec => []SubmissionIsApproved
<1>1. IInv => SubmissionIsApproved
  BY DEF IInv
<1> QED BY <1>1, Invariance, PTL

\* No automatic run approves a manual plan (beginAutomaticPlan).
THEOREM UserApproves == Spec => []ManualNeedsApproval
<1>1. IInv => ManualNeedsApproval
  BY DEF IInv, Sound, ManualNeedsApproval
<1> QED BY <1>1, Invariance, PTL

\* One call executes the order, however many get to createOrder.
THEOREM OneExecutor == Spec => []SoleExecutor
<1>1. IInv => SoleExecutor
  BY DEF IInv
<1> QED BY <1>1, Invariance, PTL

\* A plan is decided once (compareAndSetPlan).
THEOREM DecidedOnce == Spec => PlanDecisionIsFinal
<1>1. IInv /\ [Next]_vars =>
        [ plan.state \in {"SUBMITTED", "EXPIRED"} =>
            plan'.state \in {plan.state, "EXPIRED"} /\ plan'.by = plan.by ]_vars
  BY Consecution DEF Promise
<1> QED BY <1>1, Invariance, PTL DEF Spec, PlanDecisionIsFinal

\* An answered emergency stop holds as long as it stands: no entry gets as far
\* as its submission intent (POST /emergency-stop, cancelOpenEntryOrders).
THEOREM StopIsComplete == Spec => StopHolds
<1>1. IInv /\ [Next]_vars => [calm => order'.intent = order.intent]_vars
  BY Consecution DEF Promise
<1> QED BY <1>1, Invariance, PTL DEF Spec, StopHolds

-----------------------------------------------------------------------------
(* The refinement.                                                         *)

\* Every copy of the plan, old or new, has its mode; nobody has approved a plan
\* that is pending, and the users do not approve automatic ones.
SignalInv ==
  /\ plan.state \in {"none", "APPROVAL_PENDING"} => plan.by = NoOne
  /\ \A p \in Proc : /\ mine[p].state # "none" => plan.state # "none" /\ mine[p].automatic = plan.automatic
                     /\ mine[p].state = "APPROVAL_PENDING" => mine[p].by = NoOne
                     /\ p \in Approvers /\ pc[p] \in {"decide", "approve"} => ~mine[p].automatic

\* What a step may make of the plan.
Proposed == plan.state = "none" /\ \E p \in Proc : plan' = NewPlan(p)
DecidedBy(p) ==
  /\ plan.state = "APPROVAL_PENDING" /\ plan'.state = "SUBMITTED" /\ plan'.automatic = plan.automatic
  /\ plan'.by = p /\ p \in IF plan.automatic THEN Workers ELSE Approvers
Lapsed ==
  /\ plan.state \in {"APPROVAL_PENDING", "SUBMITTED"} /\ plan'.state = "EXPIRED"
  /\ plan'.automatic = plan.automatic /\ plan'.by = plan.by

\* What p may hold of the plan after a step of its own.
Copied(p) ==
  /\ \A q \in Proc \ {p} : mine'[q] = mine[q] /\ pc'[q] = pc[q]
  /\ mine'[p] \in {mine[p], plan', NoPlan}
  /\ p \in Approvers /\ pc'[p] \in {"decide", "approve"} => ~mine'[p].automatic

\* The step of SignalPromise that p takes, or none.
Signalled(p) ==
  /\ Copied(p)
  /\ \/ plan' = plan /\ order'.intent = order.intent
     \/ plan' = plan /\ plan.state = "SUBMITTED" /\ ~order.intent /\ order'.intent /\ calm' = calm
     \/ order' = order /\ calm' = calm /\ (Proposed \/ (\E q \in Proc : DecidedBy(q)) \/ Lapsed)

\* A copy that was true of the plan stays so, whatever becomes of the plan.
LEMMA SignalInvKept ==
  ASSUME IInv, SignalInv, NEW p \in Proc, Signalled(p)  PROVE SignalInv'
<1>1. /\ plan.state # "none" => plan'.state # "none" /\ plan'.automatic = plan.automatic
      /\ plan'.state \in {"none", "APPROVAL_PENDING"} => plan'.by = NoOne
  BY DEF Signalled, Proposed, DecidedBy, Lapsed, NewPlan, SignalInv
<1>2. ASSUME NEW q \in Proc
      PROVE  /\ mine'[q].state # "none" => plan'.state # "none" /\ mine'[q].automatic = plan'.automatic
             /\ mine'[q].state = "APPROVAL_PENDING" => mine'[q].by = NoOne
             /\ q \in Approvers /\ pc'[q] \in {"decide", "approve"} => ~mine'[q].automatic
  <2>1. CASE q # p
    BY <1>1, <2>1 DEF Signalled, Copied, SignalInv
  <2>2. CASE q = p
    BY <1>1, <2>2 DEF Signalled, Copied, SignalInv, NoPlan
  <2> QED BY <2>1, <2>2
<1> QED BY <1>1, <1>2 DEF SignalInv

\* Such a step is one of SignalPromise.
LEMMA SignalStep ==
  ASSUME IInv, SignalInv, IInv', Promise, NEW p \in Proc, Signalled(p)
  PROVE  [Signal!Next]_(Signal!signal)
<1> USE DEF Signal!Next, Signal!signal
<1>1. /\ calm \in BOOLEAN /\ calm' \in BOOLEAN /\ order.intent \in BOOLEAN /\ order'.intent \in BOOLEAN
      /\ plan.state = "none" => plan.by = NoOne
      /\ order'.intent => plan'.state = "SUBMITTED"
  BY DEF IInv, TypeOK, Orders, SubmissionIsApproved, SignalInv
<1>2. CASE plan' = plan /\ order'.intent = order.intent
  BY <1>1, <1>2 DEF Signal!Halt
<1>3. CASE plan' = plan /\ plan.state = "SUBMITTED" /\ ~order.intent /\ order'.intent /\ calm' = calm
  BY <1>1, <1>3 DEF Signal!Send, Promise
<1>4. CASE order' = order /\ calm' = calm /\ Proposed
  <2>1. PICK q \in Proc : plan' = NewPlan(q)
    BY <1>4 DEF Proposed
  <2> QED BY <1>1, <1>4, <2>1 DEF Signal!Propose, Proposed, NewPlan
<1>5. CASE order' = order /\ calm' = calm /\ \E q \in Proc : DecidedBy(q)
  BY <1>5 DEF Signal!Approve, DecidedBy
<1>6. CASE order' = order /\ calm' = calm /\ Lapsed
  BY <1>1, <1>6 DEF Signal!Expire, Lapsed
<1> QED BY <1>2, <1>3, <1>4, <1>5, <1>6 DEF Signalled

\* A call that leaves the plan and the order and its copy of the plan alone, or
\* reads the plan, or ends.
LEMMA Quiet ==
  ASSUME IInv, NEW p \in Proc, plan' = plan, order'.intent = order.intent,
         \/ UNCHANGED mine
         \/ ReadPlan(p)
         \/ mine' = [mine EXCEPT ![p] = NoPlan],
         \E s : Goto(p, s) /\ (p \in Approvers /\ s \in {"decide", "approve"} => ~mine'[p].automatic)
  PROVE  Signalled(p)
<1>1. mine \in [Proc -> Plans] /\ pc \in [Proc -> Pcs]
  BY DEF IInv, TypeOK
<1>2. PICK s : Goto(p, s) /\ (p \in Approvers /\ s \in {"decide", "approve"} => ~mine'[p].automatic)
  OBVIOUS
<1>3. pc'[p] = s /\ \A q \in Proc \ {p} : pc'[q] = pc[q] /\ mine'[q] = mine[q]
  BY <1>1, <1>2 DEF Goto, ReadPlan
<1>4. mine'[p] \in {mine[p], plan', NoPlan}
  BY <1>1 DEF ReadPlan
<1> QED BY <1>2, <1>3, <1>4 DEF Signalled, Copied

\* A call that ends.
LEMMA QuietEnd ==
  ASSUME IInv, NEW p \in Proc, plan' = plan, order'.intent = order.intent, End(p)
  PROVE  Signalled(p)
<1>1. Goto(p, "idle") /\ mine' = [mine EXCEPT ![p] = NoPlan]
  BY DEF End, Goto
<1>2. \E s : Goto(p, s) /\ (p \in Approvers /\ s \in {"decide", "approve"} => ~mine'[p].automatic)
  BY <1>1
<1> QED BY <1>1, <1>2, Quiet

\* A call that goes on without looking at the plan.
LEMMA QuietMove ==
  ASSUME IInv, NEW p \in Proc, plan' = plan, order'.intent = order.intent, UNCHANGED mine,
         NEW s \in Pcs \ {"decide", "approve"}, Goto(p, s)
  PROVE  Signalled(p)
BY Quiet

\* createPlan: the plan is proposed once.
LEMMA ComposeSignalled ==
  ASSUME IInv, NEW p \in Proc, Compose(p)  PROVE Signalled(p)
<1>1. CASE Submit(p)
  <2>1. plan' = plan /\ order'.intent = order.intent /\ UNCHANGED mine /\ Goto(p, "find")
    BY <1>1 DEF Submit, db
  <2> QED BY <2>1, QuietMove DEF Pcs
<1>2. CASE FindPlan(p)
  <2>1. plan' = plan /\ order'.intent = order.intent
    BY <1>2 DEF FindPlan, db
  <2>2. \/ Goto(p, "insert") /\ UNCHANGED mine
        \/ Goto(p, "begin") /\ ReadPlan(p)
        \/ End(p)
    BY <1>2 DEF FindPlan
  <2> QED BY <2>1, <2>2, QuietMove, QuietEnd, Quiet DEF Pcs
<1>3. CASE InsertPlan(p)
  <2>1. order' = order /\ calm' = calm
    BY <1>3 DEF InsertPlan, Others, history
  <2>2. /\ mine \in [Proc -> Plans] /\ pc \in [Proc -> Pcs]
        /\ \/ Goto(p, "begin") /\ mine' = [mine EXCEPT ![p] = plan']
           \/ End(p)
    BY <1>3 DEF InsertPlan, IInv, TypeOK
  <2>3. Copied(p)
    BY <2>2 DEF Copied, Goto, End
  <2>4. plan' = plan \/ (plan.state = "none" /\ plan' = NewPlan(p))
    BY <1>3 DEF InsertPlan
  <2> QED BY <2>1, <2>3, <2>4 DEF Signalled, Proposed
<1> QED BY <1>1, <1>2, <1>3 DEF Compose

\* A pending plan expires, as p read it, and the call ends.
LEMMA ExpirySignalled ==
  ASSUME IInv, SignalInv, NEW p \in Proc, pc[p] \in {"expire", "expirePending"},
         plan' = IF PlanApplies(p) THEN Expired(mine[p]) ELSE plan,
         End(p), UNCHANGED order, UNCHANGED Others
  PROVE  Signalled(p)
<1>1. CASE ~PlanApplies(p)
  BY <1>1, QuietEnd
<1>2. CASE PlanApplies(p)
  <2>1. mine \in [Proc -> Plans] /\ pc \in [Proc -> Pcs] /\ mine[p] \in Plans /\ calm' = calm
    BY DEF IInv, TypeOK, Others, history
  <2>2. Copied(p)
    BY <2>1 DEF Copied, End
  <2>3. /\ mine[p].state = "APPROVAL_PENDING" /\ plan.state = "APPROVAL_PENDING"
        /\ mine[p].automatic = plan.automatic /\ mine[p].by = plan.by
    BY <1>2 DEF IInv, HoldsPlan, PlanApplies, SignalInv
  <2>4. plan'.state = "EXPIRED" /\ plan'.automatic = mine[p].automatic /\ plan'.by = mine[p].by
    BY <1>2, <2>1 DEF Expired, Bumped, Plans
  <2> QED BY <2>1, <2>2, <2>3, <2>4 DEF Signalled, Lapsed
<1> QED BY <1>1, <1>2

\* approvePlan, beginAutomaticPlan: the plan is decided by whoever its mode says.
LEMMA ApproveSignalled ==
  ASSUME IInv, SignalInv, NEW p \in Proc, Approve(p)  PROVE Signalled(p)
<1>0. /\ mine \in [Proc -> Plans] /\ pc \in [Proc -> Pcs] /\ HoldsPlan(p)
      /\ mine[p] \in Plans /\ plan \in Plans
      /\ Workers \cap Approvers = {}
  BY RolesAssumption DEF IInv, TypeOK
<1>1. CASE BeginAutomatic(p)
  <2>1. plan' = plan /\ order'.intent = order.intent /\ p \notin Approvers
    BY <1>0, <1>1 DEF BeginAutomatic, db, HoldsPlan
  <2>2. \/ Goto(p, "create") /\ UNCHANGED mine
        \/ Goto(p, "decide") /\ ReadPlan(p)
        \/ End(p)
    BY <1>1 DEF BeginAutomatic
  <2> QED BY <2>1, <2>2, QuietMove, QuietEnd, Quiet DEF Pcs
<1>2. CASE ApproveRead(p)
  <2>1. /\ plan' = plan /\ order'.intent = order.intent /\ ReadPlan(p) /\ ~plan.automatic
        /\ Goto(p, IF late THEN "expire" ELSE "decide")
    BY <1>2 DEF ApproveRead, db
  <2>2. mine'[p] = plan
    BY <1>0, <2>1 DEF ReadPlan
  <2> QED BY <2>1, <2>2, Quiet
<1>3. CASE Decide(p)
  <2>1. plan' = plan /\ order'.intent = order.intent /\ pc[p] = "decide"
    BY <1>3 DEF Decide, db
  <2>2. \/ Goto(p, "approve") /\ UNCHANGED mine
        \/ Goto(p, "expire") /\ UNCHANGED mine
        \/ End(p)
    BY <1>3 DEF Decide
  <2>3. p \in Approvers => ~mine[p].automatic
    BY <2>1 DEF SignalInv
  <2> QED BY <2>1, <2>2, <2>3, QuietMove, QuietEnd, Quiet DEF Pcs
<1>4. CASE ApprovePlan(p)
  <2>1. pc[p] = "approve" /\ order' = order /\ calm' = calm
    BY <1>4 DEF ApprovePlan, Others, history
  <2>2. CASE PlanApplies(p)
    <3>1. /\ plan' = Approved(mine[p], p) /\ mine' = [mine EXCEPT ![p] = plan'] /\ Goto(p, "create")
      BY <1>4, <2>2 DEF ApprovePlan
    <3>2. Copied(p)
      BY <1>0, <3>1 DEF Copied, Goto
    <3>3. mine[p].state = "APPROVAL_PENDING" /\ plan.state = "APPROVAL_PENDING" /\ mine[p].automatic = plan.automatic
      BY <1>0, <2>1, <2>2 DEF HoldsPlan, PlanApplies, SignalInv
    <3>4. plan'.state = "SUBMITTED" /\ plan'.by = p /\ plan'.automatic = mine[p].automatic
      BY <1>0, <3>1 DEF Approved, Bumped, Plans
    <3>5. p \in IF plan.automatic THEN Workers ELSE Approvers
      <4>1. p \in Workers => plan.automatic
        BY <1>0, <2>1, <3>3 DEF HoldsPlan
      <4>2. p \in Approvers => ~plan.automatic
        BY <2>1, <3>3 DEF SignalInv
      <4> QED BY <1>0, <2>1, <4>1, <4>2 DEF HoldsPlan
    <3> QED BY <2>1, <3>2, <3>3, <3>4, <3>5 DEF Signalled, DecidedBy
  <2>3. CASE ~PlanApplies(p)
    BY <1>4, <2>1, <2>3, QuietEnd DEF ApprovePlan
  <2> QED BY <2>2, <2>3
<1>5. CASE ExpirePlan(p)
  BY <1>5, ExpirySignalled DEF ExpirePlan
<1> QED BY <1>1, <1>2, <1>3, <1>4, <1>5 DEF Approve

\* createOrder and execute: the order is submitted on the approval as it stands.
LEMMA ExecuteSignalled ==
  ASSUME IInv, NEW p \in Proc, Create(p) \/ Execute(p)  PROVE Signalled(p)
<1>0. order \in Orders /\ HoldsOrder(p) /\ (order.state = "none" => ~order.intent)
  BY DEF IInv, TypeOK
<1>1. CASE CreateOrder(p)
  <2>1. plan' = plan /\ order'.intent = order.intent
    BY <1>1 DEF CreateOrder, db
  <2>2. End(p) \/ (Goto(p, "insertOrder") /\ UNCHANGED mine)
    BY <1>1 DEF CreateOrder, Duplicate
  <2> QED BY <2>1, <2>2, QuietMove, QuietEnd DEF Pcs
<1>2. CASE InsertOrder(p)
  <2>1. plan' = plan /\ order'.intent = order.intent
    BY <1>0, <1>2 DEF InsertOrder, NoOrder, Orders
  <2>2. End(p) \/ (Goto(p, "execute") /\ UNCHANGED mine)
    BY <1>2 DEF InsertOrder, Duplicate
  <2> QED BY <2>1, <2>2, QuietMove, QuietEnd DEF Pcs
<1>3. CASE ClaimExecution(p)
  <2>1. plan' = plan /\ order'.intent = order.intent
    BY <1>0, <1>3 DEF ClaimExecution, Bumped, Orders
  <2>2. End(p) \/ \E s \in {"recheckPlan", "reject"} : Goto(p, s) /\ UNCHANGED mine
    BY <1>3 DEF ClaimExecution
  <2> QED BY <2>1, <2>2, QuietMove, QuietEnd DEF Pcs
<1>4. CASE RecordIntent(p)
  <2>1. plan' = plan /\ calm' = calm /\ End(p) /\ pc[p] = "intent" /\ plan.state = "SUBMITTED"
    BY <1>0, <1>4 DEF RecordIntent, HoldsOrder, Others, history
  <2>2. order'.intent = order.intent \/ order'.intent = TRUE
    BY <1>0, <1>4 DEF RecordIntent, Intended, Bumped, Orders
  <2>3. mine \in [Proc -> Plans] /\ pc \in [Proc -> Pcs]
    BY DEF IInv, TypeOK
  <2>4. Copied(p)
    BY <2>1, <2>3 DEF Copied, End
  <2>5. ~order.intent
    BY <2>1 DEF IInv, Executing
  <2> QED BY <2>1, <2>2, <2>4, <2>5 DEF Signalled
<1>5. CASE RejectOrder(p)
  <2>1. plan' = plan /\ End(p) /\ order'.intent = order.intent
    BY <1>0, <1>5 DEF RejectOrder, Moved, Bumped, Orders
  <2> QED BY <2>1, QuietEnd
<1>6. CASE ExpireBlocked(p)
  <2>1. order' = order /\ calm' = calm /\ UNCHANGED mine /\ Goto(p, "reject")
    BY <1>6 DEF ExpireBlocked, Others, history
  <2>2. plan' = plan \/ (plan.state = "SUBMITTED" /\ plan' = Expired(plan))
    BY <1>6 DEF ExpireBlocked
  <2>3. mine \in [Proc -> Plans] /\ pc \in [Proc -> Pcs] /\ plan \in Plans
    BY DEF IInv, TypeOK
  <2>4. Copied(p)
    BY <2>1, <2>3 DEF Copied, Goto
  <2> QED BY <2>1, <2>2, <2>3, <2>4 DEF Signalled, Lapsed, Expired, Bumped, Plans
<1>7. CASE \/ ExecuteRead(p) \/ Precheck(p) \/ RecheckPlan(p) \/ RecheckPolicy(p)
           \/ AutomaticControls(p) \/ PreflightFails(p)
  <2>1. plan' = plan /\ order'.intent = order.intent
    BY <1>7 DEF ExecuteRead, Precheck, RecheckPlan, RecheckPolicy, AutomaticControls, PreflightFails, db
  <2>2. \/ End(p)
        \/ \E s \in {"precheck", "claim", "reject", "recheckPolicy", "blocked", "controls", "intent"} :
             Goto(p, s) /\ UNCHANGED mine
    BY <1>7 DEF ExecuteRead, Precheck, RecheckPlan, RecheckPolicy, AutomaticControls, PreflightFails
  <2> QED BY <2>1, <2>2, QuietMove, QuietEnd DEF Pcs
<1> QED BY <1>1, <1>2, <1>3, <1>4, <1>5, <1>6, <1>7 DEF Create, Execute

\* An invalidation expires a pending plan; a cancel leaves plan and intent alone.
LEMMA CancelSignalled ==
  ASSUME IInv, SignalInv, NEW p \in Proc, Invalidate(p) \/ Cancel(p)  PROVE Signalled(p)
<1>0. order \in Orders /\ mine \in [Proc -> Plans] /\ pc \in [Proc -> Pcs]
  BY DEF IInv, TypeOK
<1>1. CASE InvalidateRead(p)
  <2>1. plan' = plan /\ order'.intent = order.intent /\ ReadPlan(p) /\ Goto(p, "findOrder")
    BY <1>1 DEF InvalidateRead, db
  <2> QED BY <2>1, Quiet
<1>2. CASE InvalidateFind(p)
  <2>1. plan' = plan /\ order'.intent = order.intent
    BY <1>2 DEF InvalidateFind, db
  <2>2. \/ Goto(p, "expirePending") /\ UNCHANGED mine
        \/ Goto(p, "cancelRead") /\ mine' = [mine EXCEPT ![p] = NoPlan]
        \/ End(p)
    BY <1>2 DEF InvalidateFind
  <2> QED BY <2>1, <2>2, QuietMove, QuietEnd, Quiet DEF Pcs
<1>3. CASE InvalidateExpire(p)
  BY <1>3, ExpirySignalled DEF InvalidateExpire
<1>4. CASE CancelRead(p) \/ CancelClaim(p) \/ CancelFails(p)
  <2>1. plan' = plan /\ order'.intent = order.intent
    BY <1>0, <1>4 DEF CancelRead, CancelClaim, CancelFails, Moved, Bumped, Orders, db
  <2>2. \/ Goto(p, "cancelClaim") /\ UNCHANGED mine
        \/ Goto(p, "answer") /\ UNCHANGED mine
        \/ End(p)
    BY <1>4 DEF CancelRead, CancelClaim, CancelFails, Cancelled
  <2> QED BY <2>1, <2>2, QuietMove, QuietEnd DEF Pcs
<1> QED BY <1>1, <1>2, <1>3, <1>4 DEF Invalidate, Cancel

\* A stop, and a call that dies, leave plan and order alone.
LEMMA StopSignalled ==
  ASSUME IInv, NEW p \in Proc, EmergencyStop(p) \/ Crash(p)  PROVE Signalled(p)
<1>1. plan' = plan /\ order'.intent = order.intent
  BY DEF EmergencyStop, Stop, ListOrders, StopAnswer, Crash, db
<1>2. End(p) \/ \E s \in {"list", "cancelRead", "answer"} : Goto(p, s) /\ UNCHANGED mine
  BY DEF EmergencyStop, Stop, ListOrders, StopAnswer, Crash
<1> QED BY <1>1, <1>2, QuietMove, QuietEnd DEF Pcs

\* Every step of the calls, the recovery worker, the policy, the clock or a crash
\* is one of SignalPromise or none.
LEMMA SignalConsecution ==
  ASSUME IInv, SignalInv, [Next]_vars
  PROVE  SignalInv' /\ [Signal!Next]_(Signal!signal)
<1>1. IInv' /\ Promise
  BY Consecution DEF Promise, vars, db, history
<1>2. ASSUME NEW p \in Proc, Signalled(p)
      PROVE  SignalInv' /\ [Signal!Next]_(Signal!signal)
  BY <1>1, <1>2, SignalInvKept, SignalStep
<1>3. ASSUME NEW p \in Proc,
             \/ Compose(p) \/ Approve(p) \/ Create(p) \/ Execute(p)
             \/ Invalidate(p) \/ Cancel(p) \/ EmergencyStop(p) \/ Crash(p)
      PROVE  Signalled(p)
  BY <1>3, ComposeSignalled, ApproveSignalled, ExecuteSignalled, CancelSignalled, StopSignalled
<1>4. CASE PrepareRecovery \/ SavePolicy \/ LiftStop \/ ApprovalTimesOut \/ UNCHANGED vars
  <2>1. plan' = plan /\ UNCHANGED <<pc, mine>>
    BY <1>4 DEF PrepareRecovery, SavePolicy, LiftStop, ApprovalTimesOut, vars, db, activity
  <2>2. order \in Orders /\ calm \in BOOLEAN /\ calm' \in BOOLEAN
    BY <1>1 DEF IInv, TypeOK
  <2>3. order'.intent = order.intent
    BY <1>4, <2>2 DEF PrepareRecovery, SavePolicy, LiftStop, ApprovalTimesOut, vars, db, Moved, Bumped, Orders
  <2>4. SignalInv'
    BY <2>1 DEF SignalInv
  <2> QED BY <2>1, <2>2, <2>3, <2>4 DEF Signal!Next, Signal!Halt, Signal!signal
<1> QED BY <1>2, <1>3, <1>4 DEF Next

\* The calls keep the promise of SignalPromise: a signal is decided once, by
\* whoever its mode says, and submitted once, on the decision as it stands, and
\* not under a stop that was answered.
THEOREM Implements == Spec => SignalKept
<1>1. Init => Signal!Init /\ SignalInv
  BY DEF Init, Signal!Init, SignalInv, NoPlan, NoOrder
<1>2. IInv /\ SignalInv /\ [Next]_vars => SignalInv' /\ [Signal!Next]_(Signal!signal)
  BY SignalConsecution
<1> QED BY <1>1, <1>2, Invariance, PTL DEF Spec, SignalKept, Signal!Spec
=============================================================================
