------------------------ MODULE OrderExecutionProofs ------------------------
(***************************************************************************)
(* Theorems of OrderExecution, for every number of activities, every kind  *)
(* of broker and every number of crashes and early lease expiries.         *)
(*                                                                         *)
(* The properties of submit and cancel follow from IInv.  Its core is      *)
(* RowAgrees: an activity whose copy has the row's version (a member of    *)
(* fresh) holds a copy that is the row, but for what it learned since; so  *)
(* a write that the compare-and-set lets through extends the row it        *)
(* replaces (WriteOK).  HeldOK says what an activity may hold at each of   *)
(* its steps.                                                              *)
(*                                                                         *)
(* Then, when no plan is invalidated, one cancel request at most leaves    *)
(* for an order, and only behind a claim.  (The invalidate route moves an  *)
(* order to CANCEL_REQUESTED without a claim, which is what breaks the     *)
(* protocol.)  ClaimInv says who may hold which claim: while the row has   *)
(* none, an activity can only hold a claim it drew itself (OwnClaims), and *)
(* the claim of an activity about to write it is known to nobody else      *)
(* (ClaimantOK), so the row that comes back from a lost write cannot name  *)
(* it by accident.                                                         *)
(*                                                                         *)
(* Last, every behaviour is one of AtomicOrder: a write that applies is a  *)
(* step of the order from the row it replaces, and everything else a call  *)
(* does is a step of the broker or none.  ShadowInv says what a stale copy *)
(* still tells of the row: where the order was, what the broker had of it. *)
(* With AtomicOrderProofs the order's states follow the table, and the     *)
(* order is one the entry budget counts on.                                *)
(***************************************************************************)
EXTENDS OrderExecution, TLAPS

\* Open and outside recovery.
Working == OrderStates \ (TerminalStates \cup {"RECOVERY_REQUIRED"})

RowOK ==
  /\ row.state = "SUBMITTED" => ~row.oid
  /\ row.state # "EXPIRED"
  /\ row.state = "REJECTED" => prov.st = "rejected" \/ row.intent = NoOne
  /\ row.manual => row.state = "RECOVERY_REQUIRED"
  /\ row.filled <= prov.filled
  /\ row.state = "FILLED" => prov.st = "filled" /\ row.filled = Qty
  /\ row.state = "CANCELED" => prov.st \in {"canceled", "filled"}

BrokerOK ==
  /\ posts <= 1
  /\ posts > 0 => row.intent # NoOne
  /\ wire \subseteq {row.intent}
  /\ wire # {} => prov.st = "absent" /\ posts = 1
  /\ prov.st # "absent" => posts = 1
  /\ prov.st \in {"absent", "open"} => prov.filled < Qty
  /\ prov.st \in {"absent", "rejected"} => prov.filled = 0
  /\ prov.st = "filled" => prov.filled = Qty

\* A copy with the row's version is the row, but for what its owner learned.
RowAgrees(c) ==
  /\ c.state = row.state
  /\ c.manual = row.manual
  /\ row.intent # NoOne => c.intent = row.intent
  /\ row.cancelClaim # NoOne => c.cancelClaim # NoOne
  /\ row.oid => c.oid
  /\ c.filled >= row.filled

\* What p holds, by the step it is about to take.
HeldOK(p) ==
  /\ copy[p].filled <= prov.filled
  /\ pc[p] \in {"unclaimed", "claimed", "toPost", "posting", "acked"}
       => copy[p].state = "SUBMITTED" /\ op[p] = "execute"
  /\ pc[p] \in {"unclaimed", "claimed"} => copy[p].intent = NoOne /\ ~copy[p].oid
  /\ pc[p] = "claimed" /\ p \notin fresh /\ row.state = "SUBMITTED"
       => row.claim # p \/ row.intent \notin {NoOne, p}
  /\ pc[p] = "toPost" => row.intent = p /\ posts = 0
  /\ pc[p] \in {"toPost", "posting", "acked", "failed"} => copy[p].intent # NoOne
  /\ pc[p] # "failed" => copy[p].intent \in {NoOne, row.intent}
  /\ pc[p] \in {"reconcile", "found", "apply", "cancelIntent"} => copy[p].state = "RECOVERY_REQUIRED"
  /\ pc[p] \in {"escalate", "cancelClaim", "cancelSend", "canceling", "stillPending", "invalidate"}
       => copy[p].state \in Working
  /\ pc[p] = "apply" =>
       /\ seen[p] \in {"ACCEPTED", "PARTIALLY_FILLED", "FILLED", "CANCELED", "REJECTED"}
       /\ ~copy[p].manual /\ copy[p].oid
       /\ seen[p] = "REJECTED" => prov.st = "rejected"
       /\ seen[p] = "FILLED" => prov.st = "filled" /\ copy[p].filled = Qty
       /\ seen[p] = "CANCELED" => prov.st \in {"canceled", "filled"}
  /\ pc[p] = "correct" =>
       /\ copy[p].state = "CANCELED" /\ prov.st = "filled" /\ copy[p].filled = Qty
       /\ p \in fresh => copy[p].filled > row.filled

CopiesOK ==
  \A p \in Proc : HeldOK(p) /\ (p \in fresh => RowAgrees(copy[p]))

IInv == TypeOK /\ RowOK /\ BrokerOK /\ CopiesOK

-----------------------------------------------------------------------------
(* Lemmas about writes and about the activities that only look on.         *)

\* The initial state satisfies the inductive invariant.
LEMMA InitIInv == Init => IInv
<1> SUFFICES ASSUME Init PROVE IInv
  OBVIOUS
<1>1. NewOrder \in Rows
  BY QtyAssumption DEF NewOrder, Rows, OrderStates, RetryLimit
<1>2. TypeOK
  <2>1. row \in Rows /\ copy \in [Proc -> Rows]
    BY <1>1 DEF Init
  <2>2. prov \in ProviderOrders
    BY QtyAssumption DEF Init, ProviderOrders
  <2>3. op \in [Proc -> Ops] /\ pc \in [Proc -> Pcs] /\ seen \in [Proc -> OrderStates]
    BY DEF Init, OrderStates, Ops, Pcs
  <2>4. posts \in 0..2 /\ cancels \in 0..2 /\ faults \in 0..MaxFaults
    BY FaultAssumption DEF Init
  <2>5. fresh \subseteq Proc /\ wire \subseteq Proc /\ cwire \subseteq Proc
    BY DEF Init
  <2> QED BY <2>1, <2>2, <2>3, <2>4, <2>5 DEF Init, TypeOK
<1>3. RowOK
  BY DEF Init, RowOK, NewOrder
<1>4. BrokerOK
  BY QtyAssumption DEF Init, BrokerOK
<1>5. CopiesOK
  BY DEF Init, CopiesOK, HeldOK, NewOrder
<1> QED BY <1>2, <1>3, <1>4, <1>5 DEF IInv

\* The broker's order only moves on.
ProviderGrows ==
  /\ prov'.filled >= prov.filled
  /\ prov.st \in {"rejected", "filled"} => prov'.st = prov.st
  /\ prov.st = "canceled" => prov'.st \in {"canceled", "filled"}

\* An activity that takes no part in a step keeps what it may hold.
LEMMA Bystander ==
  ASSUME IInv, TypeOK', ProviderGrows, NEW q \in Proc,
         pc'[q] = pc[q], copy'[q] = copy[q], seen'[q] = seen[q], op'[q] = op[q],
         q \in fresh' => q \in fresh /\ row' = row,
         \/ row' = row /\ (q \in fresh => q \in fresh')
         \/ row'.state = "SUBMITTED" => row'.claim # q \/ row'.intent \notin {NoOne, q},
         row.intent # NoOne => row'.intent = row.intent,
         pc[q] = "toPost" => posts' = posts
  PROVE  HeldOK(q)' /\ (q \in fresh' => RowAgrees(copy[q])')
<1>1. HeldOK(q) /\ (q \in fresh => RowAgrees(copy[q]))
  BY DEF IInv, CopiesOK
<1>2. /\ copy[q].filled \in Nat /\ prov.filled \in Nat /\ prov'.filled \in Nat
      /\ row.filled \in Nat
  BY DEF IInv, TypeOK, Rows, ProviderOrders
<1>3. q \in fresh' => RowAgrees(copy[q])'
  BY <1>1 DEF RowAgrees
<1>4. HeldOK(q)'
  BY <1>1, <1>2, ProcAssumption DEF HeldOK, ProviderGrows
<1> QED BY <1>3, <1>4

\* What Merge returns: the row, with the ids it lacks taken from the copy.
LEMMA MergeFields ==
  ASSUME NEW c \in Rows, NEW r \in Rows
  PROVE  /\ Merge(c, r) \in Rows
         /\ Merge(c, r).state = r.state /\ Merge(c, r).manual = r.manual
         /\ Merge(c, r).oid = r.oid /\ Merge(c, r).filled = r.filled
         /\ Merge(c, r).retry = r.retry /\ Merge(c, r).claim = r.claim
         /\ Merge(c, r).intent = IF r.intent = NoOne THEN c.intent ELSE r.intent
         /\ Merge(c, r).cancelClaim = IF r.cancelClaim = NoOne THEN c.cancelClaim
                                     ELSE r.cancelClaim
BY DEF Merge, Rows

\* A write keeps what the row it replaces knew.
Advances(r, n) ==
  /\ n.filled >= r.filled
  /\ r.oid => n.oid
  /\ r.intent # NoOne => n.intent = r.intent
  /\ r.cancelClaim # NoOne => n.cancelClaim # NoOne
  /\ isTerminalOrderState(r.state)
       => r.state = "CANCELED" /\ n.state = "FILLED" /\ n.filled > r.filled
  /\ r.manual => n.manual /\ n.state = r.state

\* What every step may do to the row.
Advanced == row' = row \/ Advances(row, row')

\* What p may put in the place of the row.
WriteOK(p, new) ==
  /\ Advances(row, new)
  /\ new.state = "SUBMITTED" => row.state = "SUBMITTED" /\ new.intent = p /\ ~new.oid
  /\ new.state # "EXPIRED"
  /\ new.state = "REJECTED" => prov.st = "rejected" \/ new.intent = NoOne
  /\ new.manual => new.state = "RECOVERY_REQUIRED"
  /\ new.filled <= prov.filled
  /\ new.state = "FILLED" => prov.st = "filled" /\ new.filled = Qty
  /\ new.state = "CANCELED" => prov.st \in {"canceled", "filled"}

\* What p must hold to go on at next after a write.
Lands(p, c, next) ==
  /\ next \in {"idle", "toPost", "failed", "reconcile", "escalate", "stillPending",
               "cancelSend", "cancelRead"}
  /\ next = "toPost" => /\ Applies(p) /\ op[p] = "execute" /\ posts = 0
                        /\ c.state = "SUBMITTED" /\ c.intent = p
  /\ next = "failed" => c.intent # NoOne
  /\ next = "reconcile" => c.state = "RECOVERY_REQUIRED"
  /\ next \in {"escalate", "stillPending", "cancelSend"} => c.state \in Working

\* Save gives every variable of the row and of the activities a value of its type.
LEMMA SaveType ==
  ASSUME TypeOK, NEW p \in Proc, NEW new \in Rows, NEW next \in Pcs, Save(p, new, next),
         UNCHANGED <<broker, history>>
  PROVE  TypeOK' /\ Outcome(p, new) \in Rows
<1>1. Merge(new, row) \in Rows
  BY MergeFields DEF TypeOK
<1>2. Outcome(p, new) \in Rows
  BY <1>1 DEF Outcome
<1>3. NewOrder \in Rows
  BY QtyAssumption DEF NewOrder, Rows, OrderStates, RetryLimit
<1>4. row' \in Rows /\ leaseLive' \in BOOLEAN /\ recLease' \in Proc \cup {NoOne}
  BY DEF TypeOK, Save, LeaseAfter
<1>5. op' \in [Proc -> Ops] /\ pc' \in [Proc -> Pcs]
  BY DEF TypeOK, Save, Ops
<1>6. copy' \in [Proc -> Rows]
  BY <1>2, <1>3 DEF TypeOK, Save
<1>7. fresh' \subseteq Proc
  BY DEF TypeOK, Save
<1>8. seen' \in [Proc -> OrderStates]
  BY DEF TypeOK, Save, OrderStates
<1> QED
  BY <1>2, <1>4, <1>5, <1>6, <1>7, <1>8 DEF TypeOK, broker, history

\* A write keeps the invariant when it extends the row and the writer may be
\* where it goes on.
LEMMA SaveKeeps ==
  ASSUME IInv, NEW p \in Proc, NEW new \in Rows, NEW next \in Pcs, Save(p, new, next),
         UNCHANGED <<broker, history>>,
         Applies(p) => WriteOK(p, new),
         Lands(p, Outcome(p, new), next),
         ~Applies(p) /\ next \notin {"idle", "failed"} => new.intent \in {NoOne, row.intent}
  PROVE  IInv' /\ Advanced
<1> DEFINE c == Outcome(p, new)
<1>1. TypeOK /\ TypeOK' /\ c \in Rows
  BY SaveType DEF IInv
<1>2. row \in Rows /\ row' \in Rows /\ prov \in ProviderOrders /\ posts \in Nat
  BY <1>1 DEF TypeOK
<1>3. /\ Applies(p) => row' = new /\ c = new /\ p \in fresh
      /\ ~Applies(p) => row' = row /\ c = Merge(new, row)
  BY DEF Save, Outcome, Applies
<1>4. UNCHANGED <<prov, wire, cwire, posts>> /\ ProviderGrows
  BY <1>2 DEF broker, history, ProviderGrows, ProviderOrders
<1>5. RowOK'
  BY <1>3, <1>4 DEF IInv, RowOK, WriteOK
<1>6. BrokerOK'
  BY <1>3, <1>4 DEF IInv, BrokerOK, WriteOK, Advances
<1>7. Advanced
  BY <1>3 DEF WriteOK, Advanced
<1>8. row.intent # NoOne => row'.intent = row.intent
  BY <1>7 DEF Advanced, Advances
<1>9. ASSUME NEW q \in Proc, q # p
      PROVE  HeldOK(q)' /\ (q \in fresh' => RowAgrees(copy[q])')
  <2>1. pc'[q] = pc[q] /\ copy'[q] = copy[q] /\ seen'[q] = seen[q] /\ op'[q] = op[q]
    BY <1>1, <1>9 DEF Save, TypeOK
  <2>2. (q \in fresh' => ~Applies(p) /\ q \in fresh) /\ (~Applies(p) /\ q \in fresh => q \in fresh')
    BY <1>9 DEF Save
  <2>3. Applies(p) /\ row'.state = "SUBMITTED" => row'.intent \notin {NoOne, q}
    BY <1>3, <1>9, ProcAssumption DEF WriteOK
  <2> QED BY <1>1, <1>3, <1>4, <1>8, <2>1, <2>2, <2>3, Bystander
<1>10. HeldOK(p)' /\ (p \in fresh' => RowAgrees(copy[p])')
  <2>1. CASE next = "idle"
    <3>1. pc'[p] = "idle" /\ copy'[p] = NewOrder /\ p \notin fresh'
      BY <1>1, <2>1 DEF Save, TypeOK
    <3> QED BY <1>2, <3>1, <1>4 DEF HeldOK, NewOrder, ProviderOrders
  <2>2. CASE next # "idle"
    <3>1. pc'[p] = next /\ copy'[p] = c /\ op'[p] = op[p]
      BY <1>1, <2>2 DEF Save, TypeOK
    <3>2. RowAgrees(copy[p])'
      BY <1>2, <1>3, <3>1, MergeFields DEF RowAgrees, Rows
    <3>3. c.filled <= prov.filled
      BY <1>2, <1>3, MergeFields DEF WriteOK, IInv, RowOK
    <3>4. next # "failed" => c.intent \in {NoOne, row'.intent}
      BY <1>2, <1>3, <2>2, MergeFields
    <3>5. HeldOK(p)'
      BY <1>3, <1>4, <2>2, <3>1, <3>3, <3>4, ProcAssumption DEF HeldOK, Lands
    <3> QED BY <3>2, <3>5
  <2> QED BY <2>1, <2>2
<1>11. CopiesOK'
  BY <1>9, <1>10 DEF CopiesOK
<1> QED BY <1>1, <1>5, <1>6, <1>7, <1>11 DEF IInv

\* The same for a write answered by a database error.
LEMMA SaveFailsKeeps ==
  ASSUME IInv, NEW p \in Proc, NEW new \in Rows, NEW c \in Rows, SaveFails(p, new, c),
         UNCHANGED <<broker, history>>,
         Applies(p) => WriteOK(p, new),
         c.intent # NoOne, c.filled = copy[p].filled,
         p \in fresh => RowAgrees(c)
  PROVE  IInv' /\ Advanced
<1>1. TypeOK
  BY DEF IInv
<1>2. TypeOK'
  <2>1. row' \in Rows /\ recLease' \in Proc \cup {NoOne} /\ fresh' \subseteq Proc
    BY <1>1 DEF SaveFails, TypeOK
  <2>2. pc' \in [Proc -> Pcs] /\ copy' \in [Proc -> Rows]
    BY <1>1 DEF SaveFails, TypeOK, Pcs
  <2> QED BY <1>1, <2>1, <2>2 DEF SaveFails, TypeOK, broker, history
<1>3. \/ row' = row /\ fresh' = fresh
      \/ Applies(p) /\ row' = new /\ fresh' = {}
  BY DEF SaveFails
<1>4. UNCHANGED <<prov, wire, cwire, posts>> /\ ProviderGrows
  BY <1>1 DEF broker, history, ProviderGrows, TypeOK, ProviderOrders
<1>5. RowOK'
  BY <1>3, <1>4 DEF IInv, RowOK, WriteOK
<1>6. BrokerOK'
  BY <1>3, <1>4, <1>1 DEF IInv, BrokerOK, WriteOK, Advances, TypeOK
<1>7. Advanced
  BY <1>3 DEF WriteOK, Advanced
<1>8. row.intent # NoOne => row'.intent = row.intent
  BY <1>7 DEF Advanced, Advances
<1>9. ASSUME NEW q \in Proc, q # p
      PROVE  HeldOK(q)' /\ (q \in fresh' => RowAgrees(copy[q])')
  <2>1. pc'[q] = pc[q] /\ copy'[q] = copy[q] /\ seen'[q] = seen[q] /\ op'[q] = op[q]
    BY <1>1, <1>9 DEF SaveFails, TypeOK
  <2>2. row' # row /\ row'.state = "SUBMITTED" => row'.intent \notin {NoOne, q}
    BY <1>3, <1>9, ProcAssumption DEF WriteOK
  <2>3. \/ row' = row /\ fresh' = fresh
        \/ q \notin fresh' /\ (row'.state = "SUBMITTED" => row'.intent \notin {NoOne, q})
    BY <1>3, <1>9, ProcAssumption DEF WriteOK
  <2> QED BY <1>2, <1>4, <1>8, <2>1, <2>3, Bystander
<1>10. pc'[p] = "failed" /\ copy'[p] = c
  BY <1>1 DEF SaveFails, TypeOK
<1>11. HeldOK(p)'
  BY <1>10, <1>4 DEF HeldOK, IInv, CopiesOK
<1>12. p \in fresh' => RowAgrees(copy[p])'
  BY <1>3, <1>10 DEF RowAgrees
<1>13. CopiesOK'
  BY <1>9, <1>11, <1>12 DEF CopiesOK
<1> QED BY <1>2, <1>5, <1>6, <1>7, <1>13 DEF IInv

\* An activity that ends leaves nothing behind that could be written later.
LEMMA EndKeeps ==
  ASSUME IInv, NEW p \in Proc, End(p), UNCHANGED <<db, broker, posts, cancels>>,
         faults' \in 0..MaxFaults
  PROVE  IInv'
<1>1. TypeOK
  BY DEF IInv
<1>2. NewOrder \in Rows
  BY QtyAssumption DEF NewOrder, Rows, OrderStates, RetryLimit
<1>3. TypeOK'
  <2>1. /\ op' \in [Proc -> Ops] /\ pc' \in [Proc -> Pcs] /\ copy' \in [Proc -> Rows]
        /\ seen' \in [Proc -> OrderStates] /\ fresh' \subseteq Proc
    BY <1>1, <1>2 DEF End, TypeOK, Ops, Pcs, OrderStates
  <2> QED BY <1>1, <2>1 DEF TypeOK, db, broker
<1>4. UNCHANGED <<row, prov, wire, cwire, posts>> /\ ProviderGrows
  BY <1>1 DEF db, broker, ProviderGrows, TypeOK, ProviderOrders
<1>5. RowOK' /\ BrokerOK'
  BY <1>4 DEF IInv, RowOK, BrokerOK
<1>6. ASSUME NEW q \in Proc, q # p
      PROVE  HeldOK(q)' /\ (q \in fresh' => RowAgrees(copy[q])')
  <2>1. pc'[q] = pc[q] /\ copy'[q] = copy[q] /\ seen'[q] = seen[q] /\ op'[q] = op[q]
    BY <1>1, <1>6 DEF End, TypeOK
  <2>2. (q \in fresh') = (q \in fresh)
    BY <1>6 DEF End
  <2> QED BY <1>3, <1>4, <2>1, <2>2, Bystander
<1>7. pc'[p] = "idle" /\ copy'[p] = NewOrder /\ p \notin fresh'
  BY <1>1 DEF End, TypeOK
<1>8. HeldOK(p)' /\ (p \in fresh' => RowAgrees(copy[p])')
  BY <1>1, <1>4, <1>7 DEF HeldOK, NewOrder, TypeOK, ProviderOrders
<1> QED BY <1>3, <1>5, <1>6, <1>8 DEF IInv, CopiesOK

\* An activity that begins holds the row itself, but for a cancel claim.
LEMMA BeginKeeps ==
  ASSUME IInv, NEW p \in Proc, NEW o \in Ops, NEW c \in Rows, NEW next \in Pcs,
         Begin(p, o, c, next),
         UNCHANGED <<row, leaseLive, broker, history>>, recLease' \in Proc \cup {NoOne},
         \/ c = row
         \/ \E x \in Proc : c = [row EXCEPT !.cancelClaim = IF @ = NoOne THEN x ELSE @],
         next \in {"unclaimed", "reconcile", "escalate", "cancelRead", "cancelIntent",
                  "cancelClaim", "invalidate"},
         next = "unclaimed" => o = "execute" /\ c.state = "SUBMITTED" /\ c.intent = NoOne,
         next \in {"reconcile", "cancelIntent"} => c.state = "RECOVERY_REQUIRED",
         next \in {"escalate", "cancelClaim", "invalidate"} => c.state \in Working
  PROVE  IInv'
<1>1. TypeOK /\ row \in Rows
  BY DEF IInv, TypeOK
<1>2. TypeOK'
  <2>1. /\ op' \in [Proc -> Ops] /\ pc' \in [Proc -> Pcs] /\ copy' \in [Proc -> Rows]
        /\ seen' \in [Proc -> OrderStates] /\ fresh' \subseteq Proc
    BY <1>1 DEF Begin, TypeOK
  <2> QED BY <1>1, <2>1 DEF TypeOK, broker, history
<1>3. UNCHANGED <<row, prov, wire, cwire, posts>> /\ ProviderGrows
  BY <1>1 DEF broker, history, ProviderGrows, TypeOK, ProviderOrders
<1>4. RowOK' /\ BrokerOK'
  BY <1>3 DEF IInv, RowOK, BrokerOK
<1>5. ASSUME NEW q \in Proc, q # p
      PROVE  HeldOK(q)' /\ (q \in fresh' => RowAgrees(copy[q])')
  <2>1. pc'[q] = pc[q] /\ copy'[q] = copy[q] /\ seen'[q] = seen[q] /\ op'[q] = op[q]
    BY <1>1, <1>5 DEF Begin, TypeOK
  <2>2. (q \in fresh') = (q \in fresh)
    BY <1>5 DEF Begin
  <2> QED BY <1>2, <1>3, <2>1, <2>2, Bystander
<1>6. pc'[p] = next /\ copy'[p] = c /\ op'[p] = o
  BY <1>1 DEF Begin, TypeOK
<1>7. /\ c.state = row.state /\ c.manual = row.manual /\ c.intent = row.intent
      /\ c.oid = row.oid /\ c.filled = row.filled
      /\ row.cancelClaim # NoOne => c.cancelClaim # NoOne
  BY <1>1 DEF Rows
<1>8. RowAgrees(copy[p])'
  BY <1>1, <1>3, <1>6, <1>7 DEF RowAgrees, Rows
<1>9. HeldOK(p)'
  BY <1>3, <1>6, <1>7 DEF HeldOK, IInv, RowOK
<1> QED BY <1>2, <1>4, <1>5, <1>8, <1>9 DEF IInv, CopiesOK

\* A step that leaves the row alone and touches one activity.
LEMMA OwnStep ==
  ASSUME IInv, TypeOK', NEW p \in Proc, row' = row, prov' = prov, BrokerOK',
         \A q \in Proc \ {p} :
           /\ pc'[q] = pc[q] /\ copy'[q] = copy[q] /\ seen'[q] = seen[q] /\ op'[q] = op[q]
           /\ (q \in fresh') = (q \in fresh)
           /\ pc[q] = "toPost" => posts' = posts,
         HeldOK(p)', p \in fresh' => RowAgrees(copy[p])'
  PROVE  IInv' /\ Advanced
<1>1. ProviderGrows
  BY DEF ProviderGrows, IInv, TypeOK, ProviderOrders
<1>2. ASSUME NEW q \in Proc
      PROVE  HeldOK(q)' /\ (q \in fresh' => RowAgrees(copy[q])')
  <2>1. CASE q = p
    BY <2>1
  <2>2. CASE q # p
    BY <1>1, <2>2, Bystander
  <2> QED BY <2>1, <2>2
<1>3. RowOK' /\ CopiesOK'
  BY <1>2 DEF IInv, RowOK, CopiesOK
<1> QED BY <1>3 DEF IInv, Advanced

\* The order may be moved from the state p read to the one it writes.
ReachesState(p, new) ==
  \/ new.state \in {"ACCEPTED", "PARTIALLY_FILLED", "CANCEL_REQUESTED", "RECOVERY_REQUIRED"}
  \/ new.state = "REJECTED" /\ (copy[p].intent = NoOne \/ prov.st = "rejected")
  \/ new.state = "FILLED" /\ prov.st = "filled" /\ new.filled = Qty
  \/ new.state = "CANCELED" /\ prov.st \in {"canceled", "filled"}

\* A write made from a copy with the row's version extends the row.
LEMMA CopyWriteOK ==
  ASSUME IInv, NEW p \in Proc, Applies(p), NEW new \in Rows, ReachesState(p, new),
         new.intent = copy[p].intent, new.filled = copy[p].filled,
         new.cancelClaim = copy[p].cancelClaim,
         new.oid = copy[p].oid \/ copy[p].state = "SUBMITTED",
         \/ copy[p].state \in Working
         \/ /\ copy[p].state = "RECOVERY_REQUIRED"
            /\ copy[p].manual => new.manual /\ new.state = "RECOVERY_REQUIRED",
         new.manual => new.manual = copy[p].manual \/ new.state = "RECOVERY_REQUIRED"
  PROVE  WriteOK(p, new)
<1>1. p \in fresh /\ RowAgrees(copy[p]) /\ copy[p].filled <= prov.filled
  BY DEF Applies, IInv, CopiesOK, HeldOK
<1>2. copy[p] \in Rows /\ row \in Rows /\ prov \in ProviderOrders
  BY DEF IInv, TypeOK
<1>3. Advances(row, new)
  BY <1>1, <1>2 DEF Advances, RowAgrees, IInv, RowOK, Working, isTerminalOrderState,
                    TerminalStates, Rows
<1>4. /\ new.manual => new.state = "RECOVERY_REQUIRED"
      /\ new.state \notin {"SUBMITTED", "EXPIRED"}
  BY <1>1, <1>2 DEF RowAgrees, IInv, RowOK, Working, ReachesState
<1> QED BY <1>1, <1>3, <1>4 DEF WriteOK, ReachesState

\* Moving a copy changes its state only.
LEMMA MoveFields ==
  ASSUME NEW c \in Rows, NEW s \in OrderStates
  PROVE  /\ Move(c, s) \in Rows /\ Move(c, s).state = s
         /\ Move(c, s).manual = c.manual /\ Move(c, s).oid = c.oid
         /\ Move(c, s).filled = c.filled /\ Move(c, s).claim = c.claim
         /\ Move(c, s).intent = c.intent /\ Move(c, s).cancelClaim = c.cancelClaim
BY DEF Move, Rows

\* One more failed attempt changes the state, the count and the review flag only.
LEMMA PendingFields ==
  ASSUME NEW c \in Rows, NEW review \in BOOLEAN
  PROVE  /\ Pending(c, review) \in Rows
         /\ Pending(c, review).state = "RECOVERY_REQUIRED"
         /\ Pending(c, review).intent = c.intent /\ Pending(c, review).oid = c.oid
         /\ Pending(c, review).filled = c.filled
         /\ Pending(c, review).cancelClaim = c.cancelClaim
<1>1. "RECOVERY_REQUIRED" \in OrderStates
  BY DEF OrderStates
<1>2. Move(c, "RECOVERY_REQUIRED") \in Rows
  BY <1>1, MoveFields
<1>3. c.retry \in 0..RetryLimit /\ Bump(c.retry) \in 0..RetryLimit
  BY DEF Bump, RetryLimit, Rows
<1>4. Move(c, "RECOVERY_REQUIRED").retry = c.retry
  BY DEF Move, Rows
<1> QED BY <1>1, <1>2, <1>3, <1>4, MoveFields DEF Pending, Rows

-----------------------------------------------------------------------------
(* The steps of execute.                                                   *)

\* execute begins with a fresh copy.
LEMMA ExecuteReadKeeps ==
  ASSUME IInv, NEW p \in Proc, ExecuteRead(p)  PROVE IInv' /\ Advanced
<1> DEFINE next == IF row.state = "RECOVERY_REQUIRED" THEN "reconcile"
                   ELSE IF row.intent # NoOne THEN "escalate" ELSE "unclaimed"
<1>1. row \in Rows /\ recLease' \in Proc \cup {NoOne}
  BY DEF IInv, TypeOK, ExecuteRead, db
<1>2. Begin(p, "execute", row, next) /\ UNCHANGED <<row, leaseLive, broker, history>>
  BY DEF ExecuteRead, db
<1>3. next \in Pcs /\ "execute" \in Ops
  BY DEF Pcs, Ops
<1>4. next \in {"reconcile", "escalate", "unclaimed"}
  OBVIOUS
<1>5. next = "unclaimed" => row.state = "SUBMITTED" /\ row.intent = NoOne
  BY DEF ExecuteRead
<1>6. next = "escalate" => row.state \in Working
  BY DEF ExecuteRead, Working, OrderStates, TerminalStates
<1> HIDE DEF next
<1>7. next = "reconcile" => row.state = "RECOVERY_REQUIRED"
  BY DEF next
<1> QED BY <1>1, <1>2, <1>3, <1>4, <1>5, <1>6, <1>7, BeginKeeps DEF Advanced

\* A check before the claim refuses the order (execute).
LEMMA RefuseKeeps ==
  ASSUME IInv, NEW p \in Proc, Refuse(p)  PROVE IInv' /\ Advanced
<1> DEFINE new == Move(copy[p], "REJECTED")
<1>1. copy[p] \in Rows /\ "REJECTED" \in OrderStates /\ "idle" \in Pcs
  BY DEF IInv, TypeOK, OrderStates, Pcs
<1>2. copy[p].state \in Working /\ copy[p].intent = NoOne
  BY DEF Refuse, IInv, CopiesOK, HeldOK, Working, OrderStates, TerminalStates
<1>3. Applies(p) => WriteOK(p, new)
  BY <1>1, <1>2, MoveFields, CopyWriteOK DEF ReachesState
<1>4. Save(p, new, "idle") /\ UNCHANGED <<broker, history>>
  BY DEF Refuse
<1>5. Lands(p, Outcome(p, new), "idle")
  BY DEF Lands
<1> QED BY <1>1, <1>3, <1>4, <1>5, MoveFields, SaveKeeps

\* The claim replaces every claim made before it and leaves no other copy fresh.
LEMMA ClaimOrderExecutionKeeps ==
  ASSUME IInv, NEW p \in Proc, ClaimOrderExecution(p)  PROVE IInv' /\ Advanced
<1>1. TypeOK /\ row \in Rows /\ pc[p] = "unclaimed" /\ HeldOK(p)
  BY DEF IInv, TypeOK, CopiesOK, ClaimOrderExecution
<1>2. CASE ~Claimable(p)
  <2>1. End(p) /\ UNCHANGED db /\ UNCHANGED <<broker, history>>
    BY <1>2 DEF ClaimOrderExecution
  <2> QED BY <1>1, <2>1, EndKeeps DEF history, TypeOK, Advanced, db
<1>3. CASE Claimable(p)
  <2>1. /\ row' = [row EXCEPT !.claim = p] /\ leaseLive' = TRUE /\ fresh' = {p}
        /\ pc' = [pc EXCEPT ![p] = "claimed"] /\ copy' = [copy EXCEPT ![p] = row']
        /\ UNCHANGED <<recLease, op, seen>> /\ UNCHANGED <<broker, history>>
    BY <1>3 DEF ClaimOrderExecution
  <2>2. row' \in Rows /\ row'.claim = p
    BY <1>1, <2>1 DEF Rows
  <2>3. /\ row'.state = row.state /\ row'.intent = row.intent /\ row'.oid = row.oid
        /\ row'.filled = row.filled /\ row'.retry = row.retry /\ row'.manual = row.manual
        /\ row'.cancelClaim = row.cancelClaim
    BY <1>1, <2>1 DEF Rows
  <2>4. pc' \in [Proc -> Pcs] /\ copy' \in [Proc -> Rows]
    BY <1>1, <2>1, <2>2 DEF TypeOK, Pcs
  <2>5. TypeOK'
    BY <1>1, <2>1, <2>2, <2>4 DEF TypeOK, broker, history
  <2>6. RowOK' /\ BrokerOK'
    BY <2>1, <2>3 DEF IInv, RowOK, BrokerOK, broker, history
  <2>7. ProviderGrows
    BY <1>1, <2>1 DEF ProviderGrows, TypeOK, ProviderOrders, broker
  <2>8. ASSUME NEW q \in Proc, q # p
        PROVE  HeldOK(q)' /\ (q \in fresh' => RowAgrees(copy[q])')
    <3>1. pc'[q] = pc[q] /\ copy'[q] = copy[q] /\ seen'[q] = seen[q] /\ op'[q] = op[q]
      BY <1>1, <2>1, <2>8 DEF TypeOK
    <3>2. q \notin fresh' /\ row'.claim # q
      BY <2>1, <2>2, <2>8
    <3> QED BY <2>1, <2>3, <2>5, <2>7, <3>1, <3>2, Bystander DEF history
  <2>9. pc'[p] = "claimed" /\ copy'[p] = row' /\ op'[p] = op[p] /\ p \in fresh'
    BY <1>1, <2>1 DEF TypeOK
  <2>10. RowAgrees(copy[p])'
    BY <2>2, <2>9 DEF RowAgrees, Rows
  <2>11. HeldOK(p)'
    BY <1>1, <1>3, <2>1, <2>3, <2>9 DEF HeldOK, Claimable, IInv, RowOK, broker
  <2>12. Advanced
    BY <1>1, <1>3, <2>3 DEF Advanced, Advances, Claimable, isTerminalOrderState,
                            TerminalStates, Rows
  <2> QED BY <2>5, <2>6, <2>8, <2>10, <2>11, <2>12 DEF IInv, CopiesOK
<1> QED BY <1>2, <1>3

\* The intent stands only over a row without one, so it is the first.
LEMMA BeginSubmissionIntentKeeps ==
  ASSUME IInv, NEW p \in Proc, BeginSubmissionIntent(p)  PROVE IInv' /\ Advanced
<1> DEFINE new == [copy[p] EXCEPT !.intent = p]
           next == IF Proceeds(p, Outcome(p, new)) THEN "toPost" ELSE "idle"
<1>1. /\ pc[p] = "claimed" /\ HeldOK(p) /\ (p \in fresh => RowAgrees(copy[p]))
      /\ copy[p] \in Rows /\ row \in Rows /\ prov \in ProviderOrders /\ posts \in Nat
  BY DEF BeginSubmissionIntent, IInv, TypeOK, CopiesOK
<1>2. /\ new \in Rows /\ new.state = copy[p].state /\ new.manual = copy[p].manual
      /\ new.oid = copy[p].oid /\ new.filled = copy[p].filled /\ new.claim = copy[p].claim
      /\ new.cancelClaim = copy[p].cancelClaim /\ new.intent = p
  BY <1>1 DEF Rows
<1> HIDE DEF new
<1>3. /\ copy[p].state = "SUBMITTED" /\ copy[p].intent = NoOne /\ op[p] = "execute"
      /\ copy[p].filled <= prov.filled /\ ~copy[p].oid
  BY <1>1 DEF HeldOK
<1>4. Applies(p) = (p \in fresh)
  BY <1>3 DEF Applies
<1>5. p \in fresh => row.state = "SUBMITTED" /\ row.intent = NoOne /\ ~row.manual
  BY <1>1, <1>3 DEF RowAgrees, IInv, RowOK
<1>6. p \in fresh => WriteOK(p, new)
  <2> SUFFICES ASSUME p \in fresh PROVE WriteOK(p, new)
    OBVIOUS
  <2>1. Advances(row, new)
    BY <1>1, <1>2, <1>3, <1>5 DEF Advances, RowAgrees, isTerminalOrderState, TerminalStates, Rows
  <2>2. row.oid = FALSE /\ copy[p].manual = FALSE
    BY <1>1, <1>5 DEF RowAgrees, IInv, RowOK, Rows
  <2> QED BY <1>2, <1>3, <1>5, <2>1, <2>2 DEF WriteOK
<1>7. CASE Save(p, new, next) /\ UNCHANGED <<broker, history>>
  <2>1. Outcome(p, new) = IF p \in fresh THEN new ELSE Merge(new, row)
    BY <1>4 DEF Outcome
  <2>2. next = "toPost" => p \in fresh
    <3> SUFFICES ASSUME p \notin fresh, Proceeds(p, Merge(new, row)) PROVE FALSE
      BY <2>1
    <3>1. row.state = "SUBMITTED" /\ row.claim = p /\ row.intent \in {NoOne, p}
      BY <1>1, <1>2, MergeFields DEF Proceeds
    <3> QED BY <1>1, <3>1 DEF HeldOK
  <2>3. p \in fresh => posts = 0
    BY <1>1, <1>5 DEF IInv, BrokerOK
  <2>4. Lands(p, Outcome(p, new), next)
    BY <1>2, <1>3, <1>4, <2>1, <2>2, <2>3 DEF Lands
  <2>5. next \in Pcs
    BY DEF Pcs
  <2> QED BY <1>2, <1>4, <1>6, <1>7, <2>2, <2>4, <2>5, SaveKeeps
<1>8. CASE Save(p, new, "failed") /\ UNCHANGED <<broker, history>>
  <2>1. Outcome(p, new).intent # NoOne
    BY <1>1, <1>2, MergeFields, ProcAssumption DEF Outcome
  <2>2. Lands(p, Outcome(p, new), "failed") /\ "failed" \in Pcs
    BY <2>1 DEF Lands, Pcs
  <2> QED BY <1>2, <1>4, <1>6, <1>8, <2>2, SaveKeeps
<1>9. CASE SaveFails(p, new, new) /\ UNCHANGED <<broker, history>>
  <2>1. new.intent # NoOne /\ (p \in fresh => RowAgrees(new))
    BY <1>1, <1>2, <1>5, ProcAssumption DEF RowAgrees
  <2> QED BY <1>2, <1>4, <1>6, <1>9, <2>1, SaveFailsKeeps
<1> QED BY <1>7, <1>8, <1>9 DEF BeginSubmissionIntent, new

\* Whoever is about to send owns the row's intent, and nothing was sent.
LEMMA PostOrderKeeps ==
  ASSUME IInv, NEW p \in Proc, PostOrder(p)  PROVE IInv' /\ Advanced
<1>1. TypeOK /\ HeldOK(p) /\ (p \in fresh => RowAgrees(copy[p]))
  BY DEF IInv, CopiesOK
<1>2. /\ pc[p] = "toPost" /\ wire' = wire \cup {p}
      /\ posts' = IF posts < 2 THEN posts + 1 ELSE posts
      /\ pc' = [pc EXCEPT ![p] = "posting"]
      /\ UNCHANGED <<row, leaseLive, recLease, op, copy, fresh, seen, prov, cwire, cancels, faults>>
  BY DEF PostOrder, db
<1>3. row.intent = p /\ posts = 0
  BY <1>1, <1>2 DEF HeldOK
<1>4. posts' = 1
  BY <1>2, <1>3
<1>5. pc' \in [Proc -> Pcs] /\ pc'[p] = "posting"
  BY <1>1, <1>2 DEF TypeOK, Pcs
<1>6. TypeOK'
  BY <1>1, <1>2, <1>4, <1>5 DEF TypeOK
<1>7. BrokerOK'
  BY <1>2, <1>3, <1>4, ProcAssumption DEF IInv, BrokerOK
<1>8. HeldOK(p)'
  BY <1>1, <1>2, <1>5 DEF HeldOK
<1>9. p \in fresh' => RowAgrees(copy[p])'
  BY <1>1, <1>2 DEF RowAgrees
<1>10. \A q \in Proc \ {p} : pc'[q] = pc[q] /\ pc[q] # "toPost"
  BY <1>1, <1>2, <1>3 DEF IInv, CopiesOK, HeldOK, TypeOK
<1> QED BY <1>2, <1>6, <1>7, <1>8, <1>9, <1>10, OwnStep

\* The broker's acknowledgement puts its order id into the copy (execute).
LEMMA PostAnsweredKeeps ==
  ASSUME IInv, NEW p \in Proc, PostAnswered(p)  PROVE IInv' /\ Advanced
<1>1. TypeOK /\ HeldOK(p) /\ (p \in fresh => RowAgrees(copy[p]))
  BY DEF IInv, CopiesOK
<1>2. /\ pc[p] = "posting" /\ pc' = [pc EXCEPT ![p] = "acked"]
      /\ UNCHANGED <<row, leaseLive, recLease, op, copy, fresh, seen, prov, wire, cwire,
                    posts, cancels, faults>>
  BY DEF PostAnswered, db, broker, history
<1>3. pc' \in [Proc -> Pcs] /\ pc'[p] = "acked"
  BY <1>1, <1>2 DEF TypeOK, Pcs
<1>4. TypeOK'
  BY <1>1, <1>2, <1>3 DEF TypeOK
<1>5. BrokerOK' /\ (p \in fresh' => RowAgrees(copy[p])')
  BY <1>1, <1>2 DEF IInv, BrokerOK, RowAgrees
<1>6. HeldOK(p)'
  BY <1>1, <1>2, <1>3 DEF HeldOK
<1>7. \A q \in Proc \ {p} : pc'[q] = pc[q]
  BY <1>1, <1>2 DEF TypeOK
<1> QED BY <1>2, <1>4, <1>5, <1>6, <1>7, OwnStep

\* The acknowledgement is written (execute).
LEMMA RecordAcceptedKeeps ==
  ASSUME IInv, NEW p \in Proc, RecordAccepted(p)  PROVE IInv' /\ Advanced
<1>1. /\ pc[p] = "acked" /\ HeldOK(p) /\ (p \in fresh => RowAgrees(copy[p]))
      /\ copy[p] \in Rows /\ row \in Rows
  BY DEF RecordAccepted, IInv, TypeOK, CopiesOK
<1>2. copy[p].state = "SUBMITTED" /\ copy[p].intent # NoOne
  BY <1>1 DEF HeldOK
<1>3. PICK next \in {"idle", "failed"}, known \in BOOLEAN :
        LET new == [Move(copy[p], "ACCEPTED") EXCEPT !.oid = known]
        IN  Save(p, new, next) \/ SaveFails(p, new, copy[p])
  BY DEF RecordAccepted
<1> DEFINE new == [Move(copy[p], "ACCEPTED") EXCEPT !.oid = known]
<1>4. /\ Move(copy[p], "ACCEPTED") \in Rows /\ Move(copy[p], "ACCEPTED").state = "ACCEPTED"
      /\ Move(copy[p], "ACCEPTED").intent = copy[p].intent
      /\ Move(copy[p], "ACCEPTED").filled = copy[p].filled
      /\ Move(copy[p], "ACCEPTED").manual = copy[p].manual
      /\ Move(copy[p], "ACCEPTED").cancelClaim = copy[p].cancelClaim
  BY <1>1, MoveFields DEF OrderStates
<1>5. /\ new \in Rows /\ new.state = "ACCEPTED" /\ new.intent = copy[p].intent
      /\ new.filled = copy[p].filled /\ new.manual = copy[p].manual
      /\ new.cancelClaim = copy[p].cancelClaim
  BY <1>4 DEF Rows
<1> HIDE DEF new
<1>6. Applies(p) => WriteOK(p, new)
  BY <1>1, <1>2, <1>5, CopyWriteOK DEF ReachesState, Working, OrderStates, TerminalStates
<1>7. UNCHANGED <<broker, history>>
  BY DEF RecordAccepted
<1>8. CASE Save(p, new, next)
  <2>1. Outcome(p, new).intent # NoOne
    BY <1>1, <1>2, <1>5, MergeFields DEF Outcome
  <2>2. Lands(p, Outcome(p, new), next) /\ next \in Pcs
    BY <2>1 DEF Lands, Pcs
  <2> QED BY <1>5, <1>6, <1>7, <1>8, <2>2, SaveKeeps
<1>9. CASE SaveFails(p, new, copy[p])
  BY <1>1, <1>2, <1>5, <1>6, <1>7, <1>9, SaveFailsKeeps
<1> QED BY <1>3, <1>8, <1>9 DEF new

\* Rejecting is for copies without an intent, and those agree with a row
\* without one or are too old to be written.
LEMMA ExecuteFailsKeeps ==
  ASSUME IInv, NEW p \in Proc, ExecuteFails(p)  PROVE IInv' /\ Advanced
<1> DEFINE s == FailureState(copy[p])
           new == Move(copy[p], s)
<1>1. TypeOK /\ HeldOK(p) /\ copy[p] \in Rows
  BY DEF IInv, TypeOK, CopiesOK
<1>2. UNCHANGED <<broker, history>>
  BY DEF ExecuteFails
<1>3. s \in OrderStates /\ "idle" \in Pcs
  BY DEF FailureState, OrderStates, Pcs
<1>4. CASE ~canTransitionOrder(copy[p].state, s)
  <2>1. End(p) /\ UNCHANGED db
    BY <1>4 DEF ExecuteFails
  <2> QED BY <1>1, <1>2, <2>1, EndKeeps DEF history, TypeOK, Advanced, db
<1>5. CASE canTransitionOrder(copy[p].state, s)
  <2>1. copy[p].state \in Working \cup {"RECOVERY_REQUIRED"}
    BY <1>1, <1>5 DEF canTransitionOrder, TRANSITIONS, Working, TerminalStates, Rows, OrderStates
  <2>2. copy[p].state = "RECOVERY_REQUIRED" => s = "RECOVERY_REQUIRED"
    BY <1>1 DEF HeldOK, FailureState, ExecuteFails
  <2>3. ReachesState(p, new)
    BY <1>1, <1>3, MoveFields DEF ReachesState, FailureState
  <2>4. Applies(p) => WriteOK(p, new)
    BY <1>1, <1>3, <2>1, <2>2, <2>3, MoveFields, CopyWriteOK
  <2>5. Save(p, new, "idle") /\ Lands(p, Outcome(p, new), "idle")
    BY <1>5 DEF ExecuteFails, Lands
  <2> QED BY <1>1, <1>2, <1>3, <2>4, <2>5, MoveFields, SaveKeeps
<1> QED BY <1>4, <1>5

-----------------------------------------------------------------------------
(* The steps of reconcile.                                                 *)

\* Where the calls that query, recover and cancel go on after a write.
LandsOpen(c, next) ==
  /\ next \in {"idle", "reconcile", "escalate", "stillPending", "cancelSend", "cancelRead"}
  /\ next = "reconcile" => c.state = "RECOVERY_REQUIRED"
  /\ next \in {"escalate", "stillPending", "cancelSend"} => c.state \in Working

\* A write made from p's copy that keeps its evidence keeps the invariant.
LEMMA CopySaveKeeps ==
  ASSUME IInv, NEW p \in Proc, NEW new \in Rows, NEW next, Save(p, new, next),
         UNCHANGED <<broker, history>>,
         pc[p] # "failed",
         ReachesState(p, new),
         new.intent = copy[p].intent, new.filled = copy[p].filled,
         new.cancelClaim = copy[p].cancelClaim, new.oid = copy[p].oid,
         \/ copy[p].state \in Working
         \/ /\ copy[p].state = "RECOVERY_REQUIRED"
            /\ copy[p].manual => new.manual /\ new.state = "RECOVERY_REQUIRED",
         new.manual => new.manual = copy[p].manual \/ new.state = "RECOVERY_REQUIRED",
         LandsOpen(Outcome(p, new), next)
  PROVE  IInv' /\ Advanced
<1>1. copy[p].intent \in {NoOne, row.intent}
  BY DEF IInv, CopiesOK, HeldOK
<1>2. Applies(p) => WriteOK(p, new)
  BY CopyWriteOK
<1>3. Lands(p, Outcome(p, new), next) /\ next \in Pcs
  BY DEF Lands, LandsOpen, Pcs
<1> QED BY <1>1, <1>2, <1>3, SaveKeeps

\* The same when the write only moves the order.
LEMMA MoveSaveKeeps ==
  ASSUME IInv, NEW p \in Proc, NEW s \in OrderStates, NEW next,
         Save(p, Move(copy[p], s), next), UNCHANGED <<broker, history>>,
         pc[p] # "failed",
         ReachesState(p, Move(copy[p], s)),
         \/ copy[p].state \in Working
         \/ copy[p].state = "RECOVERY_REQUIRED" /\ (copy[p].manual => s = "RECOVERY_REQUIRED"),
         LandsOpen(Outcome(p, Move(copy[p], s)), next)
  PROVE  IInv' /\ Advanced
<1>1. copy[p] \in Rows
  BY DEF IInv, TypeOK
<1> QED BY <1>1, MoveFields, CopySaveKeeps

\* The same when the write counts a failed attempt of an order that is not a
\* human's yet.
LEMMA PendingSaveKeeps ==
  ASSUME IInv, NEW p \in Proc, NEW c, c = copy[p] \/ c = [copy[p] EXCEPT !.oid = TRUE],
         NEW review \in BOOLEAN, NEW next \in Pcs,
         Save(p, Pending(c, review), next), UNCHANGED <<broker, history>>,
         pc[p] # "failed",
         copy[p].state \in Working \/ (copy[p].state = "RECOVERY_REQUIRED" /\ ~copy[p].manual),
         LandsOpen(Outcome(p, Pending(c, review)), next)
  PROVE  IInv' /\ Advanced
<1>1. copy[p] \in Rows /\ HeldOK(p) /\ (p \in fresh => RowAgrees(copy[p]))
  BY DEF IInv, TypeOK, CopiesOK
<1>2. /\ c \in Rows /\ c.intent = copy[p].intent /\ c.filled = copy[p].filled
      /\ c.cancelClaim = copy[p].cancelClaim /\ (copy[p].oid => c.oid)
  BY <1>1 DEF Rows
<1> DEFINE new == Pending(c, review)
<1>3. /\ new \in Rows /\ new.state = "RECOVERY_REQUIRED" /\ new.intent = copy[p].intent
      /\ new.filled = copy[p].filled /\ new.cancelClaim = copy[p].cancelClaim
      /\ copy[p].oid => new.oid
  BY <1>2, PendingFields
<1> HIDE DEF new
<1>4. Applies(p) => WriteOK(p, new)
  <2> SUFFICES ASSUME Applies(p) PROVE WriteOK(p, new)
    OBVIOUS
  <2>1. RowAgrees(copy[p])
    BY <1>1 DEF Applies
  <2>2. row \in Rows /\ prov \in ProviderOrders
    BY DEF IInv, TypeOK
  <2>3. ~row.manual /\ ~isTerminalOrderState(row.state)
    BY <2>1 DEF RowAgrees, IInv, RowOK, Working, isTerminalOrderState, TerminalStates
  <2>4. Advances(row, new)
    BY <1>1, <1>3, <2>1, <2>2, <2>3 DEF Advances, RowAgrees, Rows
  <2> QED BY <1>1, <1>3, <2>4 DEF WriteOK, HeldOK
<1>5. Lands(p, Outcome(p, new), next) /\ next \in Pcs
  BY DEF Lands, LandsOpen, Pcs, new
<1>6. new.intent \in {NoOne, row.intent}
  BY <1>1, <1>3 DEF HeldOK
<1> QED BY <1>3, <1>4, <1>5, <1>6, SaveKeeps DEF new

\* reconcile continues with a cancel only while the order works.
LEMMA AfterReconcileLands ==
  ASSUME NEW p \in Proc, NEW c
  PROVE  LandsOpen(c, AfterReconcile(p, c)) /\ AfterReconcile(p, c) \in Pcs
BY DEF LandsOpen, AfterReconcile, Working, OrderStates, TerminalStates, Pcs

\* reconcile returns at once for a closed or reviewed order.
LEMMA SkipReconcileKeeps ==
  ASSUME IInv, NEW p \in Proc, SkipReconcile(p)  PROVE IInv' /\ Advanced
BY EndKeeps DEF SkipReconcile, history, db, Advanced, IInv, TypeOK

\* A look-up that fails counts an attempt (reconcile, pending).
LEMMA ReconcileFailsKeeps ==
  ASSUME IInv, NEW p \in Proc, ReconcileFails(p)  PROVE IInv' /\ Advanced
<1>1. HeldOK(p) /\ pc[p] \in {"reconcile", "found"} /\ ~copy[p].manual
  BY DEF IInv, CopiesOK, ReconcileFails, Reconcilable
<1>2. copy[p].state = "RECOVERY_REQUIRED"
  BY <1>1 DEF HeldOK
<1>3. PICK review \in BOOLEAN :
        Save(p, Pending(copy[p], review), AfterReconcile(p, Outcome(p, Pending(copy[p], review))))
  BY DEF ReconcileFails
<1>4. UNCHANGED <<broker, history>>
  BY DEF ReconcileFails
<1> QED BY <1>1, <1>2, <1>3, <1>4, AfterReconcileLands, PendingSaveKeeps

\* The list of open orders adds the order's id to the copy, and nothing else.
LEMMA FindOrderKeeps ==
  ASSUME IInv, NEW p \in Proc, FindOrder(p)  PROVE IInv' /\ Advanced
<1>1. /\ TypeOK /\ HeldOK(p) /\ (p \in fresh => RowAgrees(copy[p])) /\ copy[p] \in Rows
      /\ pc[p] = "reconcile" /\ copy[p].state = "RECOVERY_REQUIRED" /\ row \in Rows
  BY DEF IInv, TypeOK, CopiesOK, HeldOK, FindOrder
<1>2. /\ copy' = [copy EXCEPT ![p] = [@ EXCEPT !.oid = TRUE]]
      /\ pc' = [pc EXCEPT ![p] = "found"]
      /\ UNCHANGED <<row, leaseLive, recLease, op, fresh, seen, prov, wire, cwire, posts, cancels, faults>>
  BY DEF FindOrder, db, broker, history
<1> DEFINE d == copy'[p]
<1>3. /\ d \in Rows /\ d.oid /\ d.filled = copy[p].filled /\ d.manual = copy[p].manual
      /\ d.state = copy[p].state /\ d.intent = copy[p].intent /\ d.claim = copy[p].claim
      /\ d.cancelClaim = copy[p].cancelClaim
  BY <1>1, <1>2 DEF TypeOK, Rows
<1>4. pc'[p] = "found"
  BY <1>1, <1>2 DEF TypeOK
<1>5. TypeOK'
  <2>1. pc' \in [Proc -> Pcs]
    BY <1>1, <1>2 DEF TypeOK, Pcs
  <2>2. copy' \in [Proc -> Rows]
    BY <1>1, <1>2, <1>3 DEF TypeOK
  <2> QED BY <1>1, <1>2, <2>1, <2>2 DEF TypeOK
<1>6. BrokerOK'
  BY <1>2 DEF IInv, BrokerOK
<1>7. HeldOK(p)' /\ (p \in fresh' => RowAgrees(copy[p])')
  BY <1>1, <1>2, <1>3, <1>4 DEF HeldOK, RowAgrees
<1>8. \A q \in Proc \ {p} : pc'[q] = pc[q] /\ copy'[q] = copy[q] /\ seen'[q] = seen[q]
  BY <1>1, <1>2 DEF TypeOK
<1> QED BY <1>2, <1>5, <1>6, <1>7, <1>8, OwnStep

\* A snapshot that passes validation adds to what the copy knows.
LEMMA LookupKeeps ==
  ASSUME IInv, NEW p \in Proc, Lookup(p)  PROVE IInv' /\ Advanced
<1>1. /\ TypeOK /\ HeldOK(p) /\ (p \in fresh => RowAgrees(copy[p])) /\ copy[p] \in Rows
      /\ pc[p] \in {"reconcile", "found"} /\ ~copy[p].manual
  BY DEF IInv, TypeOK, CopiesOK, Lookup, Reconcilable
<1>2. PICK s \in Snapshots :
        /\ ValidSnapshot(copy[p], s)
        /\ copy' = [copy EXCEPT ![p] = [@ EXCEPT !.oid = TRUE, !.filled = s.filled,
                                                !.retry = 0, !.manual = FALSE]]
        /\ seen' = [seen EXCEPT ![p] = SnapshotState(s)]
  BY DEF Lookup
<1>3. /\ pc' = [pc EXCEPT ![p] = "apply"]
      /\ UNCHANGED <<row, leaseLive, recLease, op, fresh, prov, wire, cwire, posts, cancels, faults>>
  BY DEF Lookup, db, broker, history
<1>4. prov \in ProviderOrders /\ Qty \in Nat /\ row \in Rows
  BY <1>1, QtyAssumption DEF TypeOK
<1>5. /\ s.filled \in 0..Qty /\ s.filled <= prov.filled
      /\ s.st = "open" \/ (s = prov /\ s.st # "absent")
  BY <1>4 DEF Snapshots, ProviderOrders
<1>6. /\ SnapshotState(s) \in {"ACCEPTED", "PARTIALLY_FILLED", "FILLED", "CANCELED", "REJECTED"}
      /\ SnapshotState(s) = "REJECTED" => prov.st = "rejected"
      /\ SnapshotState(s) = "FILLED" => prov.st = "filled" /\ s.filled = Qty
      /\ SnapshotState(s) = "CANCELED" => prov.st = "canceled"
  <2>1. prov.st \in {"absent", "open", "filled", "canceled", "rejected"}
    BY <1>4 DEF ProviderOrders
  <2>2. CASE s.st = "open"
    <3>1. s.filled = 0 \/ s.filled > 0
      BY <1>5
    <3> QED BY <2>2, <3>1 DEF SnapshotState
  <2>3. CASE s.st # "open"
    BY <1>5, <2>1, <2>3 DEF SnapshotState, IInv, BrokerOK
  <2> QED BY <2>2, <2>3
<1>7. s.filled >= copy[p].filled
  BY <1>2 DEF ValidSnapshot
<1> DEFINE d == copy'[p]
<1>8. /\ d \in Rows /\ d.oid /\ d.filled = s.filled /\ ~d.manual /\ d.state = copy[p].state
      /\ d.intent = copy[p].intent /\ d.claim = copy[p].claim /\ d.cancelClaim = copy[p].cancelClaim
  <2>1. d = [copy[p] EXCEPT !.oid = TRUE, !.filled = s.filled, !.retry = 0, !.manual = FALSE]
    BY <1>1, <1>2 DEF TypeOK
  <2>2. 0 \in 0..RetryLimit
    BY DEF RetryLimit
  <2> HIDE DEF d
  <2> QED BY <1>1, <1>5, <2>1, <2>2 DEF Rows
<1>9. pc'[p] = "apply" /\ seen'[p] = SnapshotState(s)
  BY <1>1, <1>2, <1>3 DEF TypeOK
<1>10. TypeOK'
  <2>1. pc' \in [Proc -> Pcs]
    BY <1>1, <1>3 DEF TypeOK, Pcs
  <2>2. seen' \in [Proc -> OrderStates]
    BY <1>1, <1>2, <1>6 DEF TypeOK, OrderStates
  <2>3. copy' \in [Proc -> Rows]
    BY <1>1, <1>2, <1>8 DEF TypeOK
  <2> QED BY <1>1, <1>3, <2>1, <2>2, <2>3 DEF TypeOK
<1>11. BrokerOK'
  BY <1>3 DEF IInv, BrokerOK
<1>12. HeldOK(p)'
  <2> HIDE DEF d
  <2>1. copy'[p] = d
    BY DEF d
  <2> QED BY <1>1, <1>3, <1>5, <1>6, <1>8, <1>9, <2>1 DEF HeldOK
<1>13. p \in fresh' => RowAgrees(copy[p])'
  <2> HIDE DEF d
  <2>1. copy'[p] = d
    BY DEF d
  <2> SUFFICES ASSUME p \in fresh PROVE RowAgrees(copy[p])'
    BY <1>3
  <2>2. RowAgrees(copy[p])
    BY <1>1
  <2>3. d.filled >= row.filled
    BY <1>1, <1>4, <1>5, <1>7, <1>8, <2>2 DEF RowAgrees, Rows
  <2>4. d.manual = row.manual
    BY <1>1, <1>4, <1>8, <2>2 DEF RowAgrees, Rows
  <2> QED BY <1>3, <1>8, <2>1, <2>2, <2>3, <2>4 DEF RowAgrees
<1>14. \A q \in Proc \ {p} : pc'[q] = pc[q] /\ copy'[q] = copy[q] /\ seen'[q] = seen[q]
  BY <1>1, <1>2, <1>3 DEF TypeOK
<1> QED BY <1>3, <1>10, <1>11, <1>12, <1>13, <1>14, OwnStep

\* A valid snapshot is written, or lost (applySnapshot).
LEMMA ApplySnapshotKeeps ==
  ASSUME IInv, NEW p \in Proc, ApplySnapshot(p)  PROVE IInv' /\ Advanced
<1>1. HeldOK(p) /\ pc[p] = "apply" /\ seen[p] \in OrderStates /\ copy[p] \in Rows
  BY DEF IInv, TypeOK, CopiesOK, ApplySnapshot
<1>2. copy[p].state = "RECOVERY_REQUIRED" /\ ~copy[p].manual
  BY <1>1 DEF HeldOK
<1>3. ReachesState(p, Move(copy[p], seen[p]))
  BY <1>1, MoveFields DEF HeldOK, ReachesState
<1>4. /\ UNCHANGED <<broker, history>>
      /\ Save(p, Move(copy[p], seen[p]), AfterReconcile(p, Outcome(p, Move(copy[p], seen[p]))))
  BY DEF ApplySnapshot
<1> QED BY <1>1, <1>2, <1>3, <1>4, AfterReconcileLands, MoveSaveKeeps

\* A lost FILLED finds the order cancelled (transition).
LEMMA BeginCorrectionKeeps ==
  ASSUME IInv, NEW p \in Proc, BeginCorrection(p)  PROVE IInv' /\ Advanced
<1>1. /\ TypeOK /\ HeldOK(p) /\ copy[p] \in Rows /\ row \in Rows
      /\ pc[p] = "apply" /\ FillCorrects(p)
  BY DEF IInv, TypeOK, CopiesOK, BeginCorrection
<1>2. /\ pc' = [pc EXCEPT ![p] = "correct"]
      /\ copy' = [copy EXCEPT ![p] = Move(Merge(row, copy[p]), "CANCELED")]
      /\ fresh' = fresh \cup {p}
      /\ UNCHANGED <<row, leaseLive, recLease, op, seen, prov, wire, cwire, posts, cancels, faults>>
  BY DEF BeginCorrection, db, broker, history
<1> DEFINE d == Move(Merge(row, copy[p]), "CANCELED")
<1>3. /\ d \in Rows /\ d.state = "CANCELED" /\ d.manual = copy[p].manual /\ d.oid = copy[p].oid
      /\ d.filled = copy[p].filled
      /\ d.intent = IF copy[p].intent = NoOne THEN row.intent ELSE copy[p].intent
      /\ d.cancelClaim = IF copy[p].cancelClaim = NoOne THEN row.cancelClaim
                         ELSE copy[p].cancelClaim
  <2>1. "CANCELED" \in OrderStates
    BY DEF OrderStates
  <2>2. Merge(row, copy[p]) \in Rows
    BY <1>1, MergeFields
  <2> QED BY <1>1, <2>1, <2>2, MergeFields, MoveFields
<1> HIDE DEF d
<1>4. pc'[p] = "correct" /\ copy'[p] = d
  BY <1>1, <1>2 DEF TypeOK, d
<1>5. TypeOK'
  <2>1. pc' \in [Proc -> Pcs]
    BY <1>1, <1>2 DEF TypeOK, Pcs
  <2>2. copy' \in [Proc -> Rows]
    BY <1>1, <1>2, <1>3 DEF TypeOK, d
  <2>3. fresh' \subseteq Proc
    BY <1>1, <1>2 DEF TypeOK
  <2> QED BY <1>1, <1>2, <2>1, <2>2, <2>3 DEF TypeOK
<1>6. BrokerOK'
  BY <1>2 DEF IInv, BrokerOK
<1>7. /\ copy[p].intent \in {NoOne, row.intent} /\ ~copy[p].manual /\ copy[p].oid
      /\ copy[p].filled <= prov.filled /\ prov.st = "filled" /\ copy[p].filled = Qty
      /\ row.state = "CANCELED" /\ copy[p].filled > row.filled
  BY <1>1 DEF HeldOK, FillCorrects
<1>8. ~row.manual
  BY <1>7 DEF IInv, RowOK
<1>9. HeldOK(p)'
  BY <1>2, <1>3, <1>4, <1>7 DEF HeldOK
<1>10. RowAgrees(copy[p])'
  <2>1. d.manual = row.manual /\ d.filled >= row.filled
    BY <1>1, <1>3, <1>7, <1>8 DEF Rows
  <2>2. /\ row.intent # NoOne => d.intent = row.intent
        /\ row.cancelClaim # NoOne => d.cancelClaim # NoOne
    BY <1>3, <1>7
  <2> QED BY <1>2, <1>3, <1>4, <1>7, <2>1, <2>2 DEF RowAgrees
<1>11. \A q \in Proc \ {p} : /\ pc'[q] = pc[q] /\ copy'[q] = copy[q]
                              /\ (q \in fresh') = (q \in fresh)
  BY <1>1, <1>2 DEF TypeOK
<1> QED BY <1>2, <1>5, <1>6, <1>9, <1>10, <1>11, OwnStep

\* The correction is written only over the cancelled row it was made from.
LEMMA CorrectFillKeeps ==
  ASSUME IInv, NEW p \in Proc, CorrectFill(p)  PROVE IInv' /\ Advanced
<1>1. /\ HeldOK(p) /\ pc[p] = "correct" /\ copy[p] \in Rows /\ row \in Rows
      /\ p \in fresh => RowAgrees(copy[p])
  BY DEF IInv, TypeOK, CopiesOK, CorrectFill
<1> DEFINE new == Move(copy[p], "FILLED")
<1>2. /\ new \in Rows /\ new.state = "FILLED" /\ new.manual = copy[p].manual
      /\ new.oid = copy[p].oid /\ new.filled = copy[p].filled
      /\ new.intent = copy[p].intent /\ new.cancelClaim = copy[p].cancelClaim
  BY <1>1, MoveFields DEF OrderStates
<1> HIDE DEF new
<1>3. Applies(p) => WriteOK(p, new)
  <2> SUFFICES ASSUME Applies(p) PROVE WriteOK(p, new)
    OBVIOUS
  <2>1. /\ RowAgrees(copy[p]) /\ copy[p].filled > row.filled /\ row.state = "CANCELED"
        /\ prov.st = "filled" /\ copy[p].filled <= prov.filled /\ copy[p].filled = Qty
    BY <1>1 DEF Applies, HeldOK, RowAgrees
  <2>2. ~row.manual
    BY <2>1 DEF IInv, RowOK
  <2>3. Advances(row, new)
    BY <1>1, <1>2, <2>1, <2>2 DEF Advances, RowAgrees, Rows
  <2> QED BY <1>2, <2>1, <2>2, <2>3 DEF WriteOK, RowAgrees
<1>4. Save(p, new, "idle") /\ UNCHANGED <<broker, history>>
  BY DEF CorrectFill, new
<1>5. Lands(p, Outcome(p, new), "idle") /\ "idle" \in Pcs
  BY DEF Lands, Pcs
<1> QED BY <1>2, <1>3, <1>4, <1>5, SaveKeeps

\* applySnapshot throws and the attempt is counted (reconcile).
LEMMA ApplyFailsKeeps ==
  ASSUME IInv, NEW p \in Proc, ApplyFails(p)  PROVE IInv' /\ Advanced
<1>1. HeldOK(p) /\ pc[p] = "apply"
  BY DEF IInv, CopiesOK, ApplyFails
<1>2. copy[p].state = "RECOVERY_REQUIRED" /\ ~copy[p].manual
  BY <1>1 DEF HeldOK
<1>3. /\ UNCHANGED <<broker, history>>
      /\ Save(p, Pending(copy[p], TRUE), AfterReconcile(p, Outcome(p, Pending(copy[p], TRUE))))
  BY DEF ApplyFails
<1> QED BY <1>1, <1>2, <1>3, AfterReconcileLands, PendingSaveKeeps

\* The worker takes the order to recovery (prepareRecoveryOrder).
LEMMA EscalateKeeps ==
  ASSUME IInv, NEW p \in Proc, Escalate(p)  PROVE IInv' /\ Advanced
<1> DEFINE new == Move(copy[p], "RECOVERY_REQUIRED")
           next == IF /\ Outcome(p, new).state = "RECOVERY_REQUIRED"
                      /\ op[p] = "worker" => Applies(p)
                     THEN "reconcile" ELSE "idle"
<1>1. HeldOK(p) /\ pc[p] = "escalate" /\ copy[p] \in Rows /\ "RECOVERY_REQUIRED" \in OrderStates
  BY DEF IInv, TypeOK, CopiesOK, Escalate, OrderStates
<1>2. copy[p].state \in Working
  BY <1>1 DEF HeldOK
<1>3. ReachesState(p, new)
  BY <1>1, MoveFields DEF ReachesState
<1>4. Save(p, new, next) /\ UNCHANGED <<broker, history>>
  BY DEF Escalate
<1>5. LandsOpen(Outcome(p, new), next)
  BY DEF LandsOpen
<1> QED BY <1>1, <1>2, <1>3, <1>4, <1>5, MoveSaveKeeps

-----------------------------------------------------------------------------
(* The steps of the worker, the scan and cancel.                           *)

\* An open order is in recovery or worked on.
LEMMA OpenStates ==
  ASSUME NEW c \in Rows, Open(c)
  PROVE  c.state = "RECOVERY_REQUIRED" \/ c.state \in Working
BY DEF Open, isTerminalOrderState, Working, Rows

\* The worker leases the order (claim_trade_recovery_orders).
LEMMA WorkerClaimKeeps ==
  ASSUME IInv, NEW p \in Proc, WorkerClaim(p)  PROVE IInv' /\ Advanced
<1> DEFINE next == IF row.state = "RECOVERY_REQUIRED" THEN "reconcile" ELSE "escalate"
<1>1. row \in Rows /\ recLease' \in Proc \cup {NoOne}
  BY DEF IInv, TypeOK, WorkerClaim
<1>2. Begin(p, "worker", row, next) /\ UNCHANGED <<row, leaseLive, broker, history>>
  BY DEF WorkerClaim
<1>3. next \in Pcs /\ next \in {"reconcile", "escalate"} /\ "worker" \in Ops
  BY DEF Pcs, Ops
<1>4. /\ next = "reconcile" => row.state = "RECOVERY_REQUIRED"
      /\ next = "escalate" => row.state \in Working
  BY <1>1, OpenStates DEF WorkerClaim, Recoverable
<1> HIDE DEF next
<1> QED BY <1>1, <1>2, <1>3, <1>4, BeginKeeps DEF Advanced

\* The worker records that its tick failed (recordFailure).
LEMMA RecordFailureKeeps ==
  ASSUME IInv, NEW p \in Proc, RecordFailure(p)  PROVE IInv' /\ Advanced
<1>1. HeldOK(p) /\ pc[p] \in {"escalate", "reconcile"}
  BY DEF IInv, CopiesOK, RecordFailure
<1>2. copy[p].state \in Working \/ (copy[p].state = "RECOVERY_REQUIRED" /\ ~copy[p].manual)
  BY <1>1 DEF HeldOK, RecordFailure, Reconcilable
<1>3. Save(p, Pending(copy[p], FALSE), "idle") /\ UNCHANGED <<broker, history>>
  BY DEF RecordFailure
<1>4. LandsOpen(Outcome(p, Pending(copy[p], FALSE)), "idle")
  BY DEF LandsOpen
<1>5. "idle" \in Pcs
  BY DEF Pcs
<1> QED BY <1>1, <1>2, <1>3, <1>4, <1>5, PendingSaveKeeps

\* The restart scan reads the order (recoverOpenOrders).
LEMMA ScanReadKeeps ==
  ASSUME IInv, NEW p \in Proc, ScanRead(p)  PROVE IInv' /\ Advanced
<1> DEFINE next == IF row.state = "RECOVERY_REQUIRED" THEN "reconcile" ELSE "escalate"
<1>1. row \in Rows /\ recLease' \in Proc \cup {NoOne}
  BY DEF IInv, TypeOK, ScanRead, db
<1>2. Begin(p, "scan", row, next) /\ UNCHANGED <<row, leaseLive, broker, history>>
  BY DEF ScanRead, db
<1>3. next \in Pcs /\ next \in {"reconcile", "escalate"} /\ "scan" \in Ops
  BY DEF Pcs, Ops
<1>4. /\ next = "reconcile" => row.state = "RECOVERY_REQUIRED"
      /\ next = "escalate" => row.state \in Working
  BY <1>1, OpenStates DEF ScanRead
<1> HIDE DEF next
<1> QED BY <1>1, <1>2, <1>3, <1>4, BeginKeeps DEF Advanced

\* cancel begins with a fresh copy.
LEMMA CancelReadKeeps ==
  ASSUME IInv, NEW p \in Proc, CancelRead(p)  PROVE IInv' /\ Advanced
<1>0. PICK answered \in BOOLEAN :
        IF Open(row) /\ CancelEntry(answered) # "idle"
          THEN Begin(p, "cancel", [row EXCEPT !.cancelClaim = IF @ = NoOne THEN p ELSE @],
                     CancelEntry(answered))
          ELSE End(p)
  BY DEF CancelRead
<1> DEFINE c == [row EXCEPT !.cancelClaim = IF @ = NoOne THEN p ELSE @]
<1>1. row \in Rows /\ recLease' \in Proc \cup {NoOne} /\ UNCHANGED <<db, broker, history>>
  BY DEF IInv, TypeOK, CancelRead, db
<1> DEFINE entry == CancelEntry(answered)
<1>2. CASE Open(row) /\ entry # "idle"
  <2>1. Begin(p, "cancel", c, entry)
    BY <1>0, <1>2
  <2>2. c \in Rows /\ c.state = row.state
    BY <1>1 DEF Rows
  <2>3. entry \in {"reconcile", "escalate", "cancelIntent", "cancelClaim"}
    BY <1>2 DEF CancelEntry
  <2>4. /\ entry \in {"reconcile", "cancelIntent"} => row.state = "RECOVERY_REQUIRED"
        /\ entry \in {"escalate", "cancelClaim"} => row.state \in Working
    BY <1>1, <1>2, OpenStates DEF CancelEntry
  <2>5. entry \in Pcs /\ "cancel" \in Ops
    BY <2>3 DEF Pcs, Ops
  <2>6. \E x \in Proc : c = [row EXCEPT !.cancelClaim = IF @ = NoOne THEN x ELSE @]
    OBVIOUS
  <2> HIDE DEF c
  <2> QED BY <1>1, <2>1, <2>2, <2>3, <2>4, <2>5, <2>6, BeginKeeps DEF Advanced, db
<1>3. CASE ~(Open(row) /\ entry # "idle")
  <2>1. End(p)
    BY <1>0, <1>3
  <2> QED BY <1>1, <2>1, EndKeeps DEF history, IInv, TypeOK, Advanced, db
<1> QED BY <1>2, <1>3

\* QueryFirst goes where the copy's state says.
LEMMA QueryFirstLands ==
  ASSUME NEW c \in Rows  PROVE LandsOpen(c, QueryFirst(c))
BY OpenStates DEF LandsOpen, QueryFirst

\* The cancel of an order in recovery is noted with a claim (cancel).
LEMMA CancelIntentKeeps ==
  ASSUME IInv, NEW p \in Proc, CancelIntent(p)  PROVE IInv' /\ Advanced
<1> DEFINE c == Outcome(p, copy[p])
           next == IF c.cancelClaim # p THEN "idle" ELSE QueryFirst(c)
<1>1. HeldOK(p) /\ pc[p] = "cancelIntent" /\ copy[p] \in Rows /\ row \in Rows
  BY DEF IInv, TypeOK, CopiesOK, CancelIntent
<1>2. copy[p].state = "RECOVERY_REQUIRED"
  BY <1>1 DEF HeldOK
<1>3. c \in Rows
  BY <1>1, MergeFields DEF Outcome
<1>4. Save(p, copy[p], next) /\ UNCHANGED <<broker, history>>
  BY DEF CancelIntent
<1>5. LandsOpen(c, next)
  BY <1>3, QueryFirstLands DEF LandsOpen
<1>6. ReachesState(p, copy[p])
  BY <1>2 DEF ReachesState
<1> QED BY <1>1, <1>2, <1>4, <1>5, <1>6, CopySaveKeeps

\* A working order is claimed for the cancel (cancel).
LEMMA CancelClaimKeeps ==
  ASSUME IInv, NEW p \in Proc, CancelClaim(p)  PROVE IInv' /\ Advanced
<1> DEFINE new == Move(copy[p], "CANCEL_REQUESTED")
           next == IF OwnsCancel(p, Outcome(p, new)) THEN "cancelSend" ELSE "idle"
<1>1. HeldOK(p) /\ pc[p] = "cancelClaim" /\ copy[p] \in Rows /\ "CANCEL_REQUESTED" \in OrderStates
  BY DEF IInv, TypeOK, CopiesOK, CancelClaim, OrderStates
<1>2. copy[p].state \in Working
  BY <1>1 DEF HeldOK
<1>3. ReachesState(p, new)
  BY <1>1, MoveFields DEF ReachesState
<1>4. Save(p, new, next) /\ UNCHANGED <<broker, history>>
  BY DEF CancelClaim
<1>5. LandsOpen(Outcome(p, new), next)
  BY DEF LandsOpen, OwnsCancel, Working, OrderStates, TerminalStates
<1> QED BY <1>1, <1>2, <1>3, <1>4, <1>5, MoveSaveKeeps

\* The owner of the claim sends the request (cancel).
LEMMA SendCancelKeeps ==
  ASSUME IInv, NEW p \in Proc, SendCancel(p)  PROVE IInv' /\ Advanced
<1>1. TypeOK /\ HeldOK(p) /\ (p \in fresh => RowAgrees(copy[p])) /\ pc[p] = "cancelSend"
  BY DEF IInv, CopiesOK, SendCancel
<1>2. /\ pc' = [pc EXCEPT ![p] = "canceling"] /\ cwire' = cwire \cup {p}
      /\ cancels' = IF cancels < 2 THEN cancels + 1 ELSE cancels
      /\ UNCHANGED <<row, leaseLive, recLease, op, copy, fresh, seen, prov, wire, posts, faults>>
  BY DEF SendCancel, db
<1>3. pc' \in [Proc -> Pcs] /\ pc'[p] = "canceling"
  BY <1>1, <1>2 DEF TypeOK, Pcs
<1>4. cancels' \in 0..2
  BY <1>1, <1>2 DEF TypeOK
<1>5. TypeOK'
  BY <1>1, <1>2, <1>3, <1>4 DEF TypeOK
<1>6. BrokerOK' /\ (p \in fresh' => RowAgrees(copy[p])')
  BY <1>1, <1>2 DEF IInv, BrokerOK, RowAgrees
<1>7. HeldOK(p)'
  BY <1>1, <1>2, <1>3 DEF HeldOK
<1>8. \A q \in Proc \ {p} : pc'[q] = pc[q]
  BY <1>1, <1>2 DEF TypeOK
<1> QED BY <1>2, <1>5, <1>6, <1>7, <1>8, OwnStep

\* A cancel whose outcome is unknown goes to recovery (toRecovery).
LEMMA CancelToRecoveryKeeps ==
  ASSUME IInv, NEW p \in Proc, CancelToRecovery(p)  PROVE IInv' /\ Advanced
<1> DEFINE new == Move(copy[p], "RECOVERY_REQUIRED")
<1>1. /\ HeldOK(p) /\ pc[p] \in {"cancelSend", "canceling"} /\ copy[p] \in Rows /\ row \in Rows
      /\ "RECOVERY_REQUIRED" \in OrderStates
  BY DEF IInv, TypeOK, CopiesOK, CancelToRecovery, OrderStates
<1>2. copy[p].state \in Working
  BY <1>1 DEF HeldOK
<1>3. ReachesState(p, new) /\ Outcome(p, new) \in Rows
  BY <1>1, MoveFields, MergeFields DEF ReachesState, Outcome
<1>4. Save(p, new, QueryFirst(Outcome(p, new))) /\ UNCHANGED <<broker, history>>
  BY DEF CancelToRecovery
<1>5. LandsOpen(Outcome(p, new), QueryFirst(Outcome(p, new)))
  BY <1>3, QueryFirstLands
<1> QED BY <1>1, <1>2, <1>3, <1>4, <1>5, MoveSaveKeeps

\* A cancel the broker has not yet made counts an attempt
\* (reconcileCancellation).
LEMMA StillPendingKeeps ==
  ASSUME IInv, NEW p \in Proc, StillPending(p)  PROVE IInv' /\ Advanced
<1>1. HeldOK(p) /\ pc[p] = "stillPending"
  BY DEF IInv, CopiesOK, StillPending
<1>2. copy[p].state \in Working
  BY <1>1 DEF HeldOK
<1>3. Save(p, Pending(copy[p], FALSE), "idle") /\ UNCHANGED <<broker, history>>
  BY DEF StillPending
<1>4. LandsOpen(Outcome(p, Pending(copy[p], FALSE)), "idle")
  BY DEF LandsOpen
<1>5. "idle" \in Pcs
  BY DEF Pcs
<1> QED BY <1>1, <1>2, <1>3, <1>4, <1>5, PendingSaveKeeps

\* invalidatePlan reads the order.
LEMMA InvalidateReadKeeps ==
  ASSUME IInv, NEW p \in Proc, InvalidateRead(p)  PROVE IInv' /\ Advanced
<1> DEFINE next == IF row.state \in {"ACCEPTED", "PARTIALLY_FILLED"} THEN "invalidate"
                   ELSE "cancelRead"
<1>1. row \in Rows /\ recLease' \in Proc \cup {NoOne}
  BY DEF IInv, TypeOK, InvalidateRead, db
<1>2. Begin(p, "cancel", row, next) /\ UNCHANGED <<row, leaseLive, broker, history>>
  BY DEF InvalidateRead, db
<1>3. next \in Pcs /\ next \in {"invalidate", "cancelRead"} /\ "cancel" \in Ops
  BY DEF Pcs, Ops
<1>4. next = "invalidate" => row.state \in Working
  BY DEF Working, OrderStates, TerminalStates
<1> HIDE DEF next
<1> QED BY <1>1, <1>2, <1>3, <1>4, BeginKeeps DEF Advanced

\* invalidatePlan writes CANCEL_REQUESTED without a claim.
LEMMA InvalidateOrderKeeps ==
  ASSUME IInv, NEW p \in Proc, InvalidateOrder(p)  PROVE IInv' /\ Advanced
<1> DEFINE new == Move(copy[p], "CANCEL_REQUESTED")
           next == IF Open(Outcome(p, new)) THEN "cancelRead" ELSE "idle"
<1>1. HeldOK(p) /\ pc[p] = "invalidate" /\ copy[p] \in Rows /\ "CANCEL_REQUESTED" \in OrderStates
  BY DEF IInv, TypeOK, CopiesOK, InvalidateOrder, OrderStates
<1>2. copy[p].state \in Working
  BY <1>1 DEF HeldOK
<1>3. ReachesState(p, new)
  BY <1>1, MoveFields DEF ReachesState
<1>4. Save(p, new, next) /\ UNCHANGED <<broker, history>>
  BY DEF InvalidateOrder
<1>5. LandsOpen(Outcome(p, new), next)
  BY DEF LandsOpen
<1> QED BY <1>1, <1>2, <1>3, <1>4, <1>5, MoveSaveKeeps

-----------------------------------------------------------------------------
(* The steps of the broker, the clock and crashes.                         *)

\* A step that no activity takes.
LEMMA OutsideStep ==
  ASSUME IInv, UNCHANGED <<row, leaseLive, activity, posts, cancels>>, ProviderGrows,
         recLease' \in Proc \cup {NoOne}, prov' \in ProviderOrders,
         wire' \subseteq Proc, cwire' \subseteq Proc, faults' \in 0..MaxFaults, BrokerOK'
  PROVE  IInv' /\ Advanced
<1>1. TypeOK'
  BY DEF IInv, TypeOK, activity
<1>2. ASSUME NEW q \in Proc
      PROVE  HeldOK(q)' /\ (q \in fresh' => RowAgrees(copy[q])')
  BY <1>1, <1>2, Bystander DEF activity
<1>3. RowOK'
  BY DEF IInv, TypeOK, Rows, ProviderOrders, RowOK, ProviderGrows
<1> QED BY <1>1, <1>2, <1>3 DEF IInv, CopiesOK, Advanced

\* A change of its status changes nothing else of the broker's order.
LEMMA StatusFields ==
  ASSUME NEW o \in ProviderOrders, NEW s \in {"absent", "open", "filled", "canceled", "rejected"}
  PROVE  /\ [o EXCEPT !.st = s] \in ProviderOrders
         /\ [o EXCEPT !.st = s].st = s /\ [o EXCEPT !.st = s].filled = o.filled
BY DEF ProviderOrders

\* The POST arrives, is refused or is lost.
LEMMA PostArrivesKeeps ==
  ASSUME IInv, NEW p \in Proc, PostArrives(p)  PROVE IInv' /\ Advanced
<1>1. /\ TypeOK /\ prov \in ProviderOrders /\ prov.filled \in Nat /\ p \in wire
      /\ wire' = wire \ {p} /\ UNCHANGED <<db, activity, cwire, history>>
  BY DEF IInv, TypeOK, ProviderOrders, PostArrives
<1>2. \/ prov' = prov
      \/ prov.st = "absent" /\ \E st \in {"open", "rejected"} : prov' = [prov EXCEPT !.st = st]
  BY DEF PostArrives
<1>3. /\ prov' \in ProviderOrders /\ prov'.filled = prov.filled
      /\ prov' = prov \/ (prov.st = "absent" /\ prov'.st \in {"open", "rejected"})
  <2>1. CASE prov' = prov
    BY <1>1, <2>1
  <2>2. CASE prov.st = "absent" /\ \E st \in {"open", "rejected"} : prov' = [prov EXCEPT !.st = st]
    <3>1. PICK st \in {"open", "rejected"} : prov' = [prov EXCEPT !.st = st]
      BY <2>2
    <3>2. st \in {"absent", "open", "filled", "canceled", "rejected"}
      OBVIOUS
    <3>3. prov' \in ProviderOrders /\ prov'.filled = prov.filled /\ prov'.st = st
      BY <1>1, <3>1, <3>2, StatusFields
    <3> QED BY <2>2, <3>3
  <2> QED BY <1>2, <2>1, <2>2
<1>4. /\ wire = {p} /\ posts = 1 /\ row.intent = p
      /\ prov.filled < Qty /\ prov.st = "absent" /\ prov.filled = 0
  BY <1>1, ProcAssumption DEF IInv, BrokerOK, TypeOK
<1>5. BrokerOK'
  BY <1>1, <1>3, <1>4, ProcAssumption DEF BrokerOK, db, history
<1>6. ProviderGrows
  BY <1>1, <1>3 DEF ProviderGrows
<1> QED BY <1>1, <1>3, <1>5, <1>6, OutsideStep DEF IInv, TypeOK, db, history

\* A cancel request arrives, comes too late or is lost.
LEMMA CancelArrivesKeeps ==
  ASSUME IInv, NEW p \in Proc, CancelArrives(p)  PROVE IInv' /\ Advanced
<1>1. /\ TypeOK /\ prov \in ProviderOrders /\ prov.filled \in Nat
      /\ cwire' = cwire \ {p} /\ UNCHANGED <<db, activity, wire, history>>
  BY DEF IInv, TypeOK, ProviderOrders, CancelArrives
<1>2. prov' = prov \/ (prov.st = "open" /\ prov' = [prov EXCEPT !.st = "canceled"])
  BY DEF CancelArrives
<1>3. /\ prov' \in ProviderOrders /\ prov'.filled = prov.filled
      /\ prov' = prov \/ (prov.st = "open" /\ prov'.st = "canceled")
  <2>1. CASE prov' = prov
    BY <1>1, <2>1
  <2>2. CASE prov.st = "open" /\ prov' = [prov EXCEPT !.st = "canceled"]
    BY <1>1, <2>2, StatusFields
  <2> QED BY <1>2, <2>1, <2>2
<1>4. BrokerOK'
  BY <1>1, <1>3 DEF IInv, BrokerOK, db, history
<1>5. ProviderGrows
  BY <1>1, <1>3 DEF ProviderGrows
<1> QED BY <1>1, <1>3, <1>4, <1>5, OutsideStep DEF IInv, TypeOK, db, history

\* The broker fills the order further.
LEMMA ProviderFillsKeeps ==
  ASSUME IInv, ProviderFills  PROVE IInv' /\ Advanced
<1>1. /\ TypeOK /\ prov \in ProviderOrders /\ prov.st = "open" /\ prov.filled < Qty
      /\ UNCHANGED <<db, activity, wire, cwire, history>>
  BY DEF IInv, TypeOK, BrokerOK, ProviderFills
<1>2. /\ prov'.filled = prov.filled + 1 /\ prov.filled \in Nat
      /\ prov'.st = IF prov.filled + 1 = Qty THEN "filled" ELSE "open"
      /\ prov' \in ProviderOrders
  BY <1>1, QtyAssumption DEF ProviderFills, ProviderOrders
<1>3. BrokerOK'
  <2>1. prov'.st = "open" => prov'.filled < Qty
    BY <1>1, <1>2, QtyAssumption DEF ProviderOrders
  <2> QED BY <1>1, <1>2, <2>1 DEF IInv, BrokerOK, db, history
<1>4. ProviderGrows
  BY <1>1, <1>2 DEF ProviderGrows
<1> QED BY <1>1, <1>2, <1>3, <1>4, OutsideStep DEF IInv, TypeOK, db, history

\* The broker closes the order, or fills a cancelled one late.
LEMMA ProviderClosesKeeps ==
  ASSUME IInv, ProviderCloses  PROVE IInv' /\ Advanced
<1>1. /\ TypeOK /\ prov \in ProviderOrders /\ Qty \in Nat
      /\ UNCHANGED <<db, activity, wire, cwire, history>>
  BY QtyAssumption DEF IInv, TypeOK, ProviderCloses
<1>2. \/ prov.st = "open" /\ prov'.st = "canceled" /\ prov'.filled = prov.filled
      \/ prov.st = "canceled" /\ prov'.st = "filled" /\ prov'.filled = Qty
  BY <1>1 DEF ProviderCloses, ProviderOrders
<1>3. prov' \in ProviderOrders
  BY <1>1 DEF ProviderCloses, ProviderOrders
<1>4. BrokerOK'
  BY <1>1, <1>2 DEF IInv, BrokerOK, db, history
<1>5. ProviderGrows
  BY <1>1, <1>2 DEF ProviderGrows, ProviderOrders
<1> QED BY <1>1, <1>3, <1>4, <1>5, OutsideStep DEF IInv, TypeOK, db, history

\* The execution lease or the recovery lease runs out.
LEMMA LeasesExpireKeep ==
  ASSUME IInv, ExecutionLeaseExpires \/ RecoveryLeaseExpires  PROVE IInv' /\ Advanced
<1>1. TypeOK /\ UNCHANGED <<row, activity, broker, posts, cancels>>
  BY DEF IInv, ExecutionLeaseExpires, RecoveryLeaseExpires, history
<1>2. leaseLive' \in BOOLEAN /\ recLease' \in Proc \cup {NoOne} /\ faults' \in 0..MaxFaults
  <2>1. CASE ExecutionLeaseExpires
    BY <1>1, <2>1 DEF TypeOK, ExecutionLeaseExpires, history
  <2>2. CASE RecoveryLeaseExpires
    <3>1. faults' = faults \/ (faults < MaxFaults /\ faults' = faults + 1)
      BY <2>2 DEF RecoveryLeaseExpires
    <3>2. faults' \in 0..MaxFaults
      BY <1>1, <3>1, FaultAssumption DEF TypeOK
    <3> QED BY <1>1, <2>2, <3>2 DEF TypeOK, RecoveryLeaseExpires
  <2> QED BY <2>1, <2>2
<1>3. TypeOK'
  BY <1>1, <1>2 DEF TypeOK, activity, broker
<1>4. RowOK' /\ BrokerOK'
  BY <1>1 DEF IInv, RowOK, BrokerOK, broker
<1>5. ProviderGrows
  BY <1>1 DEF ProviderGrows, TypeOK, ProviderOrders, broker
<1>6. ASSUME NEW q \in Proc
      PROVE  HeldOK(q)' /\ (q \in fresh' => RowAgrees(copy[q])')
  BY <1>1, <1>3, <1>5, <1>6, Bystander DEF activity
<1> QED BY <1>1, <1>3, <1>4, <1>6 DEF IInv, CopiesOK, Advanced

\* An activity that dies writes nothing more.
LEMMA CrashKeeps ==
  ASSUME IInv, NEW p \in Proc, Crash(p)  PROVE IInv' /\ Advanced
<1>1. faults' \in 0..MaxFaults
  BY FaultAssumption DEF Crash, IInv, TypeOK
<1>2. End(p) /\ UNCHANGED <<db, broker, posts, cancels>>
  BY DEF Crash
<1> QED BY <1>1, <1>2, EndKeeps DEF Advanced, db

-----------------------------------------------------------------------------
(* The theorems.                                                           *)

\* Every step keeps the inductive invariant and extends the row it replaces.
THEOREM Consecution == IInv /\ [Next]_vars => IInv' /\ Advanced
<1> SUFFICES ASSUME IInv, [Next]_vars PROVE IInv' /\ Advanced
  OBVIOUS
<1>1. ASSUME NEW p \in Proc, Execute(p)  PROVE IInv' /\ Advanced
  BY <1>1, ExecuteReadKeeps, RefuseKeeps, ClaimOrderExecutionKeeps, BeginSubmissionIntentKeeps,
     PostOrderKeeps, PostAnsweredKeeps, RecordAcceptedKeeps, ExecuteFailsKeeps DEF Execute
<1>2. ASSUME NEW p \in Proc, Reconcile(p)  PROVE IInv' /\ Advanced
  BY <1>2, EscalateKeeps, SkipReconcileKeeps, ReconcileFailsKeeps, FindOrderKeeps, LookupKeeps,
     ApplySnapshotKeeps, BeginCorrectionKeeps, CorrectFillKeeps, ApplyFailsKeeps DEF Reconcile
<1>3. ASSUME NEW p \in Proc, Recover(p)  PROVE IInv' /\ Advanced
  BY <1>3, WorkerClaimKeeps, RecordFailureKeeps, ScanReadKeeps DEF Recover
<1>4. ASSUME NEW p \in Proc, Cancel(p)  PROVE IInv' /\ Advanced
  BY <1>4, CancelReadKeeps, CancelIntentKeeps, CancelClaimKeeps, SendCancelKeeps,
     CancelToRecoveryKeeps, StillPendingKeeps, InvalidateReadKeeps, InvalidateOrderKeeps
     DEF Cancel
<1>5. CASE Broker
  BY <1>5, PostArrivesKeeps, CancelArrivesKeeps, ProviderFillsKeeps, ProviderClosesKeeps
     DEF Broker
<1>6. CASE Environment
  BY <1>6, LeasesExpireKeep, CrashKeeps DEF Environment
<1>7. CASE UNCHANGED vars
  BY <1>7 DEF vars, db, activity, broker, history, IInv, TypeOK, RowOK, BrokerOK, CopiesOK,
              HeldOK, RowAgrees, Advanced
<1> QED BY <1>1, <1>2, <1>3, <1>4, <1>5, <1>6, <1>7 DEF Next

\* IInv holds in every reachable state.
THEOREM Invariance == Spec => []IInv
BY InitIInv, Consecution, PTL DEF Spec

\* Every variable keeps its type, whatever interleaves.
THEOREM TypeCorrect == Spec => []TypeOK
<1>1. IInv => TypeOK
  BY DEF IInv
<1> QED BY <1>1, Invariance, PTL

\* One order is POSTed to the broker at most once, for any number of
\* executors, recovery workers, scans, cancels, invalidations and crashes.
THEOREM SingleSubmission == Spec => []AtMostOnePost
<1>1. IInv => AtMostOnePost
  BY DEF IInv, BrokerOK, AtMostOnePost
<1> QED BY <1>1, Invariance, PTL

\* The row announces every order the broker holds or may still receive.
THEOREM IntentFirst == Spec => []PostBehindIntent
<1>1. IInv => PostBehindIntent
  BY DEF IInv, BrokerOK, PostBehindIntent
<1> QED BY <1>1, Invariance, PTL

\* No order the broker holds is recorded as rejected or expired.
THEOREM RejectionIsTrue == Spec => []NoFalseRejection
<1>1. IInv => NoFalseRejection
  BY DEF IInv, RowOK, BrokerOK, TypeOK, NoFalseRejection
<1> QED BY <1>1, Invariance, PTL

\* The row claims no fill, execution or cancel the broker did not report.
THEOREM RowIsBacked == Spec => []FillsBacked
<1>1. IInv => FillsBacked
  BY DEF IInv, RowOK, FillsBacked
<1> QED BY <1>1, Invariance, PTL

\* No write takes back a fill, the broker's id, the submission or a claim.
THEOREM EvidenceStands == Spec => EvidenceNeverLost
<1>1. IInv /\ [Next]_vars =>
        [ /\ row'.filled >= row.filled
          /\ row.oid => row'.oid
          /\ row.intent # NoOne => row'.intent = row.intent
          /\ row.cancelClaim # NoOne => row'.cancelClaim # NoOne ]_vars
  BY Consecution DEF IInv, TypeOK, Rows, Advanced, Advances
<1> QED BY <1>1, Invariance, PTL DEF Spec, EvidenceNeverLost

\* A final state is final, but for a fill booked after a reported cancel.
THEOREM EndIsFinal == Spec => TerminalIsFinal
<1>1. IInv /\ [Next]_vars =>
        [ isTerminalOrderState(row.state) /\ row' # row
            => /\ row.state = "CANCELED" /\ row'.state = "FILLED"
               /\ row'.filled > row.filled ]_vars
  BY Consecution DEF Advanced, Advances
<1> QED BY <1>1, Invariance, PTL DEF Spec, TerminalIsFinal

\* An order handed to a human is changed by no late activity.
THEOREM ReviewStands == Spec => ManualReviewStands
<1>1. IInv /\ [Next]_vars =>
        [row.manual => row'.manual /\ row'.state = row.state]_vars
  BY Consecution DEF Advanced, Advances
<1> QED BY <1>1, Invariance, PTL DEF Spec, ManualReviewStands

-----------------------------------------------------------------------------
(* The pipeline implements OrderPromise.                                   *)

\* The abstract phase, read off the row.
PhaseFits ==
  /\ row.state = "FILLED" => Phase = "filled"
  /\ row.state = "CANCELED" => Phase = "canceled"
  /\ row.state \in {"REJECTED", "EXPIRED"} => Phase = "rejected"
  /\ Open(row) /\ row.intent = NoOne => Phase = "pending"
  /\ Open(row) /\ row.intent # NoOne => Phase = "committed"
  /\ \/ Open(row)
     \/ row.state \in {"FILLED", "CANCELED", "REJECTED", "EXPIRED"}

\* The phase the promise sees is read off the row.
LEMMA PhaseOf == row \in Rows => PhaseFits
BY DEF PhaseFits, Phase, Open, isTerminalOrderState, TerminalStates

\* The same after a step.
LEMMA PhaseOfNext == row' \in Rows => PhaseFits'
BY DEF PhaseFits, Phase, Open, isTerminalOrderState, TerminalStates

\* Orders are sent by PostOrder only, and it leaves the row alone.
LEMMA PostsStep ==
  ASSUME IInv, [Next]_vars
  PROVE  \/ posts' = posts
         \/ /\ posts = 0 /\ posts' = 1 /\ row' = row /\ row.intent # NoOne
<1>1. ASSUME NEW p \in Proc, PostOrder(p)
      PROVE  posts = 0 /\ posts' = 1 /\ row' = row /\ row.intent # NoOne
  <2>1. row.intent = p /\ posts = 0
    BY <1>1 DEF PostOrder, IInv, CopiesOK, HeldOK
  <2> QED BY <1>1, <2>1, ProcAssumption DEF PostOrder, db
<1>2. ASSUME NEW p \in Proc, Execute(p), ~PostOrder(p)  PROVE posts' = posts
  BY <1>2 DEF Execute, ExecuteRead, Refuse, ClaimOrderExecution, BeginSubmissionIntent,
              PostAnswered, RecordAccepted, ExecuteFails, history
<1>3. ASSUME NEW p \in Proc, Reconcile(p)  PROVE posts' = posts
  BY <1>3 DEF Reconcile, Escalate, SkipReconcile, ReconcileFails, FindOrder, Lookup, ApplySnapshot,
              BeginCorrection, CorrectFill, ApplyFails, history
<1>4. ASSUME NEW p \in Proc, Recover(p)  PROVE posts' = posts
  BY <1>4 DEF Recover, WorkerClaim, RecordFailure, ScanRead, history
<1>5. ASSUME NEW p \in Proc, Cancel(p)  PROVE posts' = posts
  BY <1>5 DEF Cancel, CancelRead, CancelIntent, CancelClaim, SendCancel, CancelToRecovery,
              StillPending, InvalidateRead, InvalidateOrder, history
<1>6. CASE Broker
  BY <1>6 DEF Broker, PostArrives, CancelArrives, ProviderFills, ProviderCloses, history
<1>7. CASE Environment
  BY <1>7 DEF Environment, ExecutionLeaseExpires, RecoveryLeaseExpires, Crash, history
<1>8. CASE UNCHANGED vars
  BY <1>8 DEF vars, history
<1> QED BY <1>1, <1>2, <1>3, <1>4, <1>5, <1>6, <1>7, <1>8 DEF Next

\* What the promise says of posts and fills in each state of the row.
SentFits ==
  /\ row.state \in {"FILLED", "CANCELED"} => posts = 1 /\ row.intent # NoOne
  /\ row.state = "REJECTED" /\ row.intent # NoOne => posts = 1
  /\ row.state = "REJECTED" => row.filled = 0
  /\ row.filled > 0 => posts = 1
  /\ row.intent = NoOne => posts = 0 /\ row.filled = 0
  /\ row.filled \in 0..Qty /\ posts \in {0, 1} /\ row.state # "EXPIRED"

\* A final row of an order that was announced is the broker's doing.
LEMMA FinalWasSent == IInv => SentFits
<1> SUFFICES ASSUME IInv PROVE SentFits
  OBVIOUS
<1>1. row \in Rows /\ prov \in ProviderOrders /\ posts \in 0..2 /\ Qty \in Nat
  BY QtyAssumption DEF IInv, TypeOK
<1>2. row.filled \in 0..Qty /\ prov.filled \in 0..Qty /\ posts \in {0, 1}
  BY <1>1 DEF Rows, ProviderOrders, IInv, BrokerOK
<1>3. row.filled > 0 => prov.st # "absent" /\ prov.st # "rejected"
  BY <1>2 DEF IInv, RowOK, BrokerOK
<1>4. row.intent = NoOne => posts = 0 /\ prov.st = "absent"
  BY <1>2 DEF IInv, BrokerOK
<1>5. row.state = "REJECTED" => row.filled = 0
  BY <1>2, <1>3, <1>4 DEF IInv, RowOK
<1> QED BY <1>2, <1>3, <1>4, <1>5 DEF SentFits, IInv, RowOK, BrokerOK

\* The same after a step.
LEMMA FinalWasSentNext == IInv' => SentFits'
BY FinalWasSent, PTL

\* Every step of the pipeline is a step of the promise, or none.
THEOREM StepImplements ==
  IInv /\ IInv' /\ [Next]_vars => [Promise!Next]_(Promise!promise)
<1> SUFFICES ASSUME IInv, IInv', [Next]_vars PROVE [Promise!Next]_(Promise!promise)
  OBVIOUS
<1> USE DEF Promise!promise
<1>1. row \in Rows /\ row' \in Rows
  BY DEF IInv, TypeOK
<1>2. Advanced
  BY Consecution
<1>3. CASE row' = row /\ posts' = posts
  BY <1>3 DEF Phase, Open
<1>4. CASE posts' # posts
  <2>1. posts = 0 /\ posts' = 1 /\ row' = row /\ row.intent # NoOne
    BY <1>4, PostsStep
  <2>2. Phase = "committed" /\ Phase' = "committed"
    BY <1>1, <2>1, PhaseOf, FinalWasSent DEF PhaseFits, SentFits, Phase, Open
  <2> QED BY <2>1, <2>2 DEF Promise!Next, Promise!Send
<1>5. CASE posts' = posts /\ Advances(row, row')
  <2>1. /\ row'.filled >= row.filled
        /\ row.intent # NoOne => row'.intent = row.intent
        /\ ~Open(row) => /\ row.state = "CANCELED" /\ row'.state = "FILLED"
                         /\ row'.filled > row.filled
    BY <1>5 DEF Advances, Open
  <2>2. PhaseFits /\ PhaseFits' /\ SentFits /\ SentFits'
    BY <1>1, PhaseOf, PhaseOfNext, FinalWasSent, FinalWasSentNext
  <2>3. row'.state = "FILLED" => row'.filled = Qty
    BY DEF IInv, RowOK
  <2>4. CASE ~Open(row)
    BY <1>5, <2>1, <2>2, <2>3, <2>4, QtyAssumption
       DEF PhaseFits, SentFits, Promise!Next, Promise!Correct
  <2>5. CASE Open(row) /\ row.intent = NoOne
    <3>1. Phase = "pending" /\ posts = 0 /\ row.filled = 0 /\ row'.filled = 0
      BY <1>5, <2>2, <2>5 DEF PhaseFits, SentFits
    <3>2. \/ Phase' = "pending"
          \/ Phase' = "committed"
          \/ Phase' = "rejected"
      BY <1>5, <2>2, <3>1 DEF PhaseFits, SentFits
    <3> QED BY <1>5, <3>1, <3>2 DEF Promise!Next, Promise!Commit, Promise!Refuse
  <2>6. CASE Open(row) /\ row.intent # NoOne
    <3>1. Phase = "committed" /\ row'.intent # NoOne
      BY <2>1, <2>2, <2>6 DEF PhaseFits
    <3>2. \/ Phase' = "committed"
          \/ Phase' = "filled" /\ row'.filled = Qty /\ posts = 1
          \/ Phase' = "canceled" /\ posts = 1
          \/ Phase' = "rejected" /\ row'.filled = 0 /\ posts = 1
      BY <1>5, <2>2, <2>3, <3>1 DEF PhaseFits, SentFits
    <3>3. row'.filled \in row.filled..Qty /\ (row'.filled # row.filled => posts = 1)
      BY <1>5, <2>1, <2>2, QtyAssumption DEF SentFits
    <3> QED BY <1>5, <3>1, <3>2, <3>3 DEF Promise!Next, Promise!Report
  <2> QED BY <2>4, <2>5, <2>6
<1> QED BY <1>2, <1>3, <1>4, <1>5 DEF Advanced

\* The pipeline keeps the promise of OrderPromise: an order is committed before
\* it is sent, sent once, its booked fills only grow, and its end stands.
THEOREM Implements == Spec => KeepsPromise
<1>1. Init => Promise!Init
  <2> SUFFICES ASSUME Init PROVE Promise!Init
    OBVIOUS
  <2>1. IInv
    BY InitIInv
  <2>2. PhaseFits
    BY <2>1, PhaseOf DEF IInv, TypeOK
  <2>3. Open(row) /\ row.intent = NoOne /\ row.filled = 0 /\ posts = 0
    BY DEF Init, NewOrder, Open, isTerminalOrderState, TerminalStates
  <2> QED BY <2>2, <2>3 DEF PhaseFits, Promise!Init
<1> QED BY <1>1, Invariance, StepImplements, PTL DEF Spec, KeepsPromise, Promise!Spec

-----------------------------------------------------------------------------
(* Cancel claims, when no plan is invalidated.                             *)

\* While the row has no claim, everybody holds none or the own one.
OwnClaims ==
  row.cancelClaim = NoOne => \A q \in Proc : copy[q].cancelClaim \in {NoOne, q}

\* p is about to write its claim: nobody else knows it, and if p's copy is
\* current there is no other.
ClaimantOK(p) ==
  pc[p] = "cancelClaim" =>
    /\ copy[p].cancelClaim = p
    /\ row.cancelClaim # p
    /\ p \in fresh => row.cancelClaim = NoOne
    /\ \A q \in Proc \ {p} : copy[q].cancelClaim # p

\* p is about to send: nothing was sent, and nobody else is.
SenderOK(p) ==
  pc[p] = "cancelSend" =>
    /\ cancels = 0
    /\ row.cancelClaim # NoOne
    /\ \A q \in Proc \ {p} : pc[q] # "cancelSend"

ClaimInv ==
  /\ cancels <= 1
  /\ cancels > 0 => row.cancelClaim # NoOne
  /\ cwire # {} => row.cancelClaim # NoOne
  /\ row.state = "CANCEL_REQUESTED" => row.cancelClaim # NoOne
  /\ OwnClaims
  /\ \A p \in Proc : /\ pc[p] \notin {"invalidate", "cancelRead"}
                     /\ ClaimantOK(p)
                     /\ SenderOK(p)

-----------------------------------------------------------------------------
(* Cancel claims: lemmas.                                                  *)

\* No claim is drawn before the first cancel.
LEMMA InitClaims == Init => ClaimInv
BY DEF Init, NewOrder, ClaimInv, OwnClaims, ClaimantOK, SenderOK

\* Claims spread only from the row and from the copy that is written: a step
\* of p that draws none, and after which p is not about to claim or to send.
LEMMA ClaimsSpread ==
  ASSUME IInv, ClaimInv, TypeOK', NEW p \in Proc,
         \A q \in Proc \ {p} :
           /\ pc'[q] = pc[q] /\ copy'[q] = copy[q]
           /\ q \in fresh' => q \in fresh /\ row' = row,
         \/ row' = row
         \/ /\ row'.cancelClaim = copy[p].cancelClaim
            /\ row.cancelClaim # NoOne => row'.cancelClaim # NoOne
            /\ row'.state = "CANCEL_REQUESTED" => row'.cancelClaim # NoOne,
         copy'[p].cancelClaim \in {NoOne, copy[p].cancelClaim, row.cancelClaim},
         pc'[p] \notin {"invalidate", "cancelRead", "cancelClaim", "cancelSend"},
         \/ cancels' = cancels /\ cwire' \subseteq cwire
         \/ pc[p] = "cancelSend" /\ cancels' = 1 /\ row' = row
  PROVE  ClaimInv'
<1>1. /\ row.cancelClaim # NoOne => row'.cancelClaim # NoOne
      /\ row'.cancelClaim \in {row.cancelClaim, copy[p].cancelClaim}
  OBVIOUS
<1>2. cancels \in 0..2 /\ cancels' \in 0..2
  BY DEF IInv, TypeOK
<1>3. /\ cancels' <= 1
      /\ cancels' > 0 => row'.cancelClaim # NoOne
      /\ cwire' # {} => row'.cancelClaim # NoOne
      /\ row'.state = "CANCEL_REQUESTED" => row'.cancelClaim # NoOne
  BY <1>1, <1>2 DEF ClaimInv, SenderOK
<1>4. OwnClaims'
  BY <1>1 DEF ClaimInv, OwnClaims
<1>5. ASSUME NEW q \in Proc
      PROVE  /\ pc'[q] \notin {"invalidate", "cancelRead"}
             /\ ClaimantOK(q)'
             /\ SenderOK(q)'
  <2>1. CASE q = p
    BY <2>1 DEF ClaimantOK, SenderOK
  <2>2. CASE q # p
    <3>1. pc'[q] = pc[q] /\ copy'[q] = copy[q] /\ (q \in fresh' => q \in fresh /\ row' = row)
      BY <2>2
    <3>2. ClaimantOK(q) /\ SenderOK(q) /\ pc[q] \notin {"invalidate", "cancelRead"}
      BY DEF ClaimInv
    <3>3. ClaimantOK(q)'
      BY <1>1, <2>2, <3>1, <3>2, ProcAssumption DEF ClaimantOK
    <3>4. SenderOK(q)'
      BY <1>1, <1>2, <2>2, <3>1, <3>2 DEF SenderOK
    <3> QED BY <3>1, <3>2, <3>3, <3>4
  <2> QED BY <2>1, <2>2
<1> QED BY <1>3, <1>4, <1>5 DEF ClaimInv

\* Where a write may lead an activity that is not cancelling.
Elsewhere == {"idle", "toPost", "failed", "reconcile", "escalate", "stillPending"}

\* A write of p that carries the claim p holds.
LEMMA SaveSpreads ==
  ASSUME IInv, IInv', Advanced, ClaimInv, NEW p \in Proc, NEW new, NEW next \in Elsewhere,
         Save(p, new, next), UNCHANGED <<broker, history>>,
         new.cancelClaim = copy[p].cancelClaim,
         new.state # "CANCEL_REQUESTED"
  PROVE  ClaimInv'
<1>1. TypeOK /\ TypeOK' /\ row \in Rows
  BY DEF IInv, TypeOK
<1>2. \A q \in Proc \ {p} :
        /\ pc'[q] = pc[q] /\ copy'[q] = copy[q]
        /\ q \in fresh' => q \in fresh /\ row' = row
  BY <1>1 DEF Save, TypeOK
<1>3. \/ row' = row
      \/ row'.cancelClaim = copy[p].cancelClaim /\ row'.state # "CANCEL_REQUESTED"
  BY DEF Save
<1>4. row' # row /\ row.cancelClaim # NoOne => row'.cancelClaim # NoOne
  BY DEF Advanced, Advances
<1>5. copy'[p].cancelClaim \in {NoOne, copy[p].cancelClaim, row.cancelClaim}
  <2>1. Outcome(p, new).cancelClaim \in {copy[p].cancelClaim, row.cancelClaim}
    BY <1>1 DEF Outcome, Merge, Rows
  <2>2. copy'[p] \in {NewOrder, Outcome(p, new)}
    BY <1>1 DEF Save, TypeOK
  <2> QED BY <2>1, <2>2 DEF NewOrder
<1>6. pc'[p] = next
  BY <1>1 DEF Save, TypeOK
<1> QED BY <1>1, <1>2, <1>3, <1>4, <1>5, <1>6, ClaimsSpread DEF Elsewhere, broker, history

\* A call that ends.
LEMMA EndSpreads ==
  ASSUME IInv, IInv', ClaimInv, NEW p \in Proc, End(p), UNCHANGED <<row, cwire, cancels>>
  PROVE  ClaimInv'
<1>1. TypeOK /\ TypeOK'
  BY DEF IInv
<1>2. /\ \A q \in Proc \ {p} : pc'[q] = pc[q] /\ copy'[q] = copy[q] /\ (q \in fresh' => q \in fresh)
      /\ copy'[p].cancelClaim = NoOne /\ pc'[p] = "idle"
  BY <1>1 DEF End, TypeOK, NewOrder
<1> QED BY <1>1, <1>2, ClaimsSpread

\* A call that begins with the row as it is.
LEMMA BeginSpreads ==
  ASSUME IInv, IInv', ClaimInv, NEW p \in Proc, NEW o,
         NEW next \in Elsewhere \cup {"unclaimed", "cancelIntent"},
         Begin(p, o, row, next), UNCHANGED <<row, cwire, cancels>>
  PROVE  ClaimInv'
<1>1. TypeOK /\ TypeOK'
  BY DEF IInv
<1>2. /\ \A q \in Proc \ {p} : pc'[q] = pc[q] /\ copy'[q] = copy[q] /\ (q \in fresh' => q \in fresh)
      /\ copy'[p] = row /\ pc'[p] = next
  BY <1>1 DEF Begin, TypeOK
<1> QED BY <1>1, <1>2, ClaimsSpread DEF Elsewhere

-----------------------------------------------------------------------------
(* Cancel claims: the steps.                                               *)

\* Executions carry the claim of the row they read.
LEMMA ExecuteClaims ==
  ASSUME IInv, IInv', Advanced, ClaimInv, NEW p \in Proc, Execute(p)
  PROVE  ClaimInv'
<1>1. TypeOK /\ TypeOK' /\ copy[p] \in Rows /\ HeldOK(p)
  BY DEF IInv, TypeOK, CopiesOK
<1>2. CASE ExecuteRead(p)
  BY <1>2, BeginSpreads DEF ExecuteRead, Elsewhere, db, broker, history
<1>3. CASE Refuse(p)
  <2>1. Move(copy[p], "REJECTED").cancelClaim = copy[p].cancelClaim
        /\ Move(copy[p], "REJECTED").state = "REJECTED"
    BY <1>1 DEF Move, Rows
  <2> QED BY <1>3, <2>1, SaveSpreads DEF Refuse, Elsewhere
<1>4. CASE ClaimOrderExecution(p)
  <2>1. CASE Claimable(p)
    <3>1. /\ row' = [row EXCEPT !.claim = p] /\ copy' = [copy EXCEPT ![p] = row']
          /\ pc' = [pc EXCEPT ![p] = "claimed"] /\ fresh' = {p}
          /\ UNCHANGED <<cwire, cancels>>
      BY <1>4, <2>1 DEF ClaimOrderExecution, broker, history
    <3>2. row'.cancelClaim = row.cancelClaim /\ row'.state = row.state
      BY <1>1, <3>1 DEF TypeOK, Rows
    <3>3. row.state = "SUBMITTED" /\ pc[p] = "unclaimed"
      BY <1>4, <2>1 DEF ClaimOrderExecution, Claimable
    <3>4. /\ copy'[p].cancelClaim = row.cancelClaim /\ pc'[p] = "claimed"
          /\ \A q \in Proc \ {p} : pc'[q] = pc[q] /\ copy'[q] = copy[q] /\ q \notin fresh'
      BY <1>1, <3>1, <3>2 DEF TypeOK
    <3> QED BY <3>1, <3>2, <3>3, <3>4, ProcAssumption
            DEF ClaimInv, OwnClaims, ClaimantOK, SenderOK
  <2>2. CASE ~Claimable(p)
    BY <1>4, <2>2, EndSpreads DEF ClaimOrderExecution, db, broker, history
  <2> QED BY <2>1, <2>2
<1>5. CASE BeginSubmissionIntent(p)
  <2> DEFINE new == [copy[p] EXCEPT !.intent = p]
  <2>1. new.cancelClaim = copy[p].cancelClaim /\ new.state = "SUBMITTED"
    BY <1>1, <1>5 DEF Rows, HeldOK, BeginSubmissionIntent
  <2>2. ASSUME NEW next \in {"toPost", "idle", "failed"}, Save(p, new, next)
        PROVE  ClaimInv'
    BY <1>5, <2>1, <2>2, SaveSpreads DEF Elsewhere, BeginSubmissionIntent
  <2>3. CASE SaveFails(p, new, new)
    <3>1. \/ row' = row
          \/ row' = new
      BY <2>3 DEF SaveFails
    <3>2. /\ \A q \in Proc \ {p} : /\ pc'[q] = pc[q] /\ copy'[q] = copy[q]
                                   /\ q \in fresh' => q \in fresh /\ row' = row
          /\ copy'[p] = new /\ pc'[p] = "failed"
      BY <1>1, <2>3 DEF SaveFails, TypeOK
    <3>3. row' # row /\ row.cancelClaim # NoOne => row'.cancelClaim # NoOne
      BY DEF Advanced, Advances
    <3> QED BY <1>1, <1>5, <2>1, <3>1, <3>2, <3>3, ClaimsSpread
            DEF BeginSubmissionIntent, broker, history
  <2> QED BY <1>5, <2>2, <2>3 DEF BeginSubmissionIntent
<1>6. CASE PostOrder(p) \/ PostAnswered(p)
  <2>1. /\ row' = row /\ copy' = copy /\ fresh' = fresh /\ UNCHANGED <<cwire, cancels>>
        /\ \A q \in Proc \ {p} : pc'[q] = pc[q]
        /\ pc'[p] \in {"posting", "acked"}
    BY <1>1, <1>6 DEF PostOrder, PostAnswered, TypeOK, db, broker, history
  <2> QED BY <1>1, <2>1, ClaimsSpread
<1>7. CASE RecordAccepted(p)
  <2>1. PICK next \in {"idle", "failed"}, known \in BOOLEAN :
          LET new == [Move(copy[p], "ACCEPTED") EXCEPT !.oid = known]
          IN  Save(p, new, next) \/ SaveFails(p, new, copy[p])
    BY <1>7 DEF RecordAccepted
  <2> DEFINE new == [Move(copy[p], "ACCEPTED") EXCEPT !.oid = known]
  <2>2. new.cancelClaim = copy[p].cancelClaim /\ new.state = "ACCEPTED"
    BY <1>1 DEF Rows, Move
  <2>3. CASE Save(p, new, next)
    BY <1>7, <2>2, <2>3, SaveSpreads DEF Elsewhere, RecordAccepted
  <2>4. CASE SaveFails(p, new, copy[p])
    <3>1. \/ row' = row
          \/ row' = new
      BY <2>4 DEF SaveFails
    <3>2. /\ \A q \in Proc \ {p} : /\ pc'[q] = pc[q] /\ copy'[q] = copy[q]
                                   /\ q \in fresh' => q \in fresh /\ row' = row
          /\ copy'[p] = copy[p] /\ pc'[p] = "failed"
      BY <1>1, <2>4 DEF SaveFails, TypeOK
    <3>3. row' # row /\ row.cancelClaim # NoOne => row'.cancelClaim # NoOne
      BY DEF Advanced, Advances
    <3> QED BY <1>1, <1>7, <2>2, <3>1, <3>2, <3>3, ClaimsSpread
            DEF RecordAccepted, broker, history
  <2> QED BY <2>1, <2>3, <2>4
<1>8. CASE ExecuteFails(p)
  <2>1. /\ Move(copy[p], FailureState(copy[p])).cancelClaim = copy[p].cancelClaim
        /\ Move(copy[p], FailureState(copy[p])).state # "CANCEL_REQUESTED"
    BY <1>1 DEF Move, Rows, FailureState
  <2> QED BY <1>8, <2>1, SaveSpreads, EndSpreads DEF ExecuteFails, Elsewhere, db, broker, history
<1> QED BY <1>2, <1>3, <1>4, <1>5, <1>6, <1>7, <1>8 DEF Execute

\* What a look-up, an escalation or a failed attempt writes keeps the claim.
LEMMA FieldsOfWrites ==
  ASSUME NEW c \in Rows, NEW state \in OrderStates, NEW review \in BOOLEAN
  PROVE  /\ Move(c, state).cancelClaim = c.cancelClaim
         /\ Move(c, state).state = state
         /\ Pending(c, review).cancelClaim = c.cancelClaim
         /\ Pending(c, review).state = "RECOVERY_REQUIRED"
BY DEF Move, Pending, Rows

\* Reconciliations carry the claim of the copy they began with.
LEMMA ReconcileClaims ==
  ASSUME IInv, IInv', Advanced, ClaimInv, NEW p \in Proc, Reconcile(p)
  PROVE  ClaimInv'
<1>1. TypeOK /\ TypeOK' /\ copy[p] \in Rows /\ row \in Rows /\ HeldOK(p)
  BY DEF IInv, TypeOK, CopiesOK
<1>2. CASE Escalate(p)
  BY <1>1, <1>2, FieldsOfWrites, SaveSpreads DEF Escalate, Elsewhere, OrderStates
<1>3. CASE SkipReconcile(p)
  BY <1>3, EndSpreads DEF SkipReconcile, db, broker, history
<1>4. CASE ReconcileFails(p)
  <2>1. PICK review \in BOOLEAN :
          Save(p, Pending(copy[p], review),
               AfterReconcile(p, Outcome(p, Pending(copy[p], review))))
    BY <1>4 DEF ReconcileFails
  <2> QED BY <1>1, <1>4, <2>1, FieldsOfWrites, SaveSpreads
          DEF ReconcileFails, AfterReconcile, Elsewhere, OrderStates
<1>5. CASE Lookup(p)
  <2>1. PICK s \in Snapshots :
          copy' = [copy EXCEPT ![p] = [@ EXCEPT !.oid = TRUE, !.filled = s.filled,
                                               !.retry = 0, !.manual = FALSE]]
    BY <1>5 DEF Lookup
  <2>2. copy'[p].cancelClaim = copy[p].cancelClaim
        /\ \A q \in Proc \ {p} : copy'[q] = copy[q]
    BY <1>1, <2>1 DEF TypeOK, Rows
  <2>3. /\ row' = row /\ fresh' = fresh /\ UNCHANGED <<cwire, cancels>>
        /\ \A q \in Proc \ {p} : pc'[q] = pc[q]
        /\ pc'[p] = "apply"
    BY <1>1, <1>5 DEF Lookup, TypeOK, db, broker, history
  <2> QED BY <1>1, <2>2, <2>3, ClaimsSpread
<1>6. CASE ApplySnapshot(p)
  <2>1. seen[p] \in OrderStates /\ seen[p] # "CANCEL_REQUESTED"
    BY <1>1, <1>6 DEF ApplySnapshot, HeldOK, OrderStates
  <2> QED BY <1>1, <1>6, <2>1, FieldsOfWrites, SaveSpreads
          DEF ApplySnapshot, AfterReconcile, Elsewhere
<1>7. CASE BeginCorrection(p)
  <2>1. Move(Merge(row, copy[p]), "CANCELED").cancelClaim \in {copy[p].cancelClaim, row.cancelClaim}
    <3>1. /\ Merge(row, copy[p]) \in Rows
          /\ Merge(row, copy[p]).cancelClaim \in {copy[p].cancelClaim, row.cancelClaim}
      BY <1>1, MergeFields
    <3> QED BY <3>1, FieldsOfWrites DEF OrderStates
  <2>2. /\ row' = row /\ UNCHANGED <<cwire, cancels>>
        /\ \A q \in Proc \ {p} : pc'[q] = pc[q] /\ copy'[q] = copy[q] /\ (q \in fresh' => q \in fresh)
        /\ pc'[p] = "correct"
        /\ copy'[p] = Move(Merge(row, copy[p]), "CANCELED")
    BY <1>1, <1>7 DEF BeginCorrection, TypeOK, db, broker, history
  <2> QED BY <1>1, <2>1, <2>2, ClaimsSpread
<1>8. CASE CorrectFill(p)
  BY <1>1, <1>8, FieldsOfWrites, SaveSpreads DEF CorrectFill, Elsewhere, OrderStates
<1>9. CASE ApplyFails(p)
  BY <1>1, <1>9, FieldsOfWrites, SaveSpreads
     DEF ApplyFails, AfterReconcile, Elsewhere, OrderStates
<1>10. CASE FindOrder(p)
  <2>1. /\ row' = row /\ fresh' = fresh /\ UNCHANGED <<cwire, cancels>>
        /\ \A q \in Proc \ {p} : pc'[q] = pc[q] /\ copy'[q] = copy[q]
        /\ pc'[p] = "found"
        /\ copy'[p].cancelClaim = copy[p].cancelClaim
    BY <1>1, <1>10 DEF FindOrder, TypeOK, Rows, db, broker, history
  <2> QED BY <1>1, <2>1, ClaimsSpread
<1> QED BY <1>2, <1>3, <1>4, <1>5, <1>6, <1>7, <1>8, <1>9, <1>10 DEF Reconcile

\* The worker and the scan begin with the row.
LEMMA RecoverClaims ==
  ASSUME IInv, IInv', Advanced, ClaimInv, NEW p \in Proc, Recover(p)
  PROVE  ClaimInv'
<1>1. TypeOK /\ copy[p] \in Rows
  BY DEF IInv, TypeOK
<1>2. CASE WorkerClaim(p)
  BY <1>2, BeginSpreads DEF WorkerClaim, Elsewhere, broker, history
<1>3. CASE RecordFailure(p)
  BY <1>1, <1>3, FieldsOfWrites, SaveSpreads DEF RecordFailure, Elsewhere, OrderStates
<1>4. CASE ScanRead(p)
  BY <1>4, BeginSpreads DEF ScanRead, Elsewhere, db, broker, history
<1> QED BY <1>2, <1>3, <1>4 DEF Recover

\* A claim in memory is its owner's until it is written.
LEMMA CancelReadClaims ==
  ASSUME IInv, IInv', ClaimInv, NEW p \in Proc, CancelRead(p)
  PROVE  ClaimInv'
<1>0. PICK answered \in BOOLEAN :
        IF Open(row) /\ CancelEntry(answered) # "idle"
          THEN Begin(p, "cancel", [row EXCEPT !.cancelClaim = IF @ = NoOne THEN p ELSE @],
                     CancelEntry(answered))
          ELSE End(p)
  BY DEF CancelRead
<1> DEFINE entry == CancelEntry(answered)
<1>1. TypeOK /\ TypeOK' /\ row \in Rows
  BY DEF IInv, TypeOK
<1>2. UNCHANGED <<row, cwire, cancels>>
  BY DEF CancelRead, db, broker, history
<1>3. CASE Open(row) /\ entry # "idle"
  <2> DEFINE c == [row EXCEPT !.cancelClaim = IF @ = NoOne THEN p ELSE @]
  <2>1. c.cancelClaim = IF row.cancelClaim = NoOne THEN p ELSE row.cancelClaim
    BY <1>1 DEF Rows
  <2>2. /\ \A q \in Proc \ {p} : pc'[q] = pc[q] /\ copy'[q] = copy[q] /\ (q \in fresh' => q \in fresh)
        /\ copy'[p] = c /\ pc'[p] = entry
    BY <1>0, <1>1, <1>3 DEF Begin, TypeOK
  <2>3. CASE row.cancelClaim # NoOne
    <3>1. copy'[p].cancelClaim = row.cancelClaim /\ pc'[p] \in {"reconcile", "escalate"}
      BY <1>3, <2>1, <2>2, <2>3 DEF CancelEntry
    <3> QED BY <1>1, <1>2, <2>2, <3>1, ClaimsSpread
  <2>4. CASE row.cancelClaim = NoOne
    <3>1. copy'[p].cancelClaim = p /\ pc'[p] \in {"cancelIntent", "cancelClaim"}
      BY <2>1, <2>2, <2>4 DEF CancelEntry
    <3>2. \A q \in Proc : copy[q].cancelClaim \in {NoOne, q}
      BY <2>4 DEF ClaimInv, OwnClaims
    <3>3. OwnClaims'
      BY <2>2, <3>1, <3>2 DEF OwnClaims
    <3>4. ASSUME NEW q \in Proc  PROVE ClaimantOK(q)'
      <4>1. CASE q = p
        BY <1>2, <2>2, <2>4, <3>1, <3>2, <4>1, ProcAssumption DEF ClaimantOK
      <4>2. CASE q # p
        <5>1. pc'[q] = pc[q] /\ copy'[q] = copy[q] /\ ClaimantOK(q)
          BY <2>2, <4>2 DEF ClaimInv
        <5>2. \A x \in Proc \ {q} : pc'[q] = "cancelClaim" => copy'[x].cancelClaim # q
          BY <2>2, <3>1, <4>2, <5>1 DEF ClaimantOK
        <5> QED BY <1>2, <2>4, <5>1, <5>2, ProcAssumption DEF ClaimantOK
      <4> QED BY <4>1, <4>2
    <3>5. \A q \in Proc : SenderOK(q)' /\ pc'[q] \notin {"invalidate", "cancelRead"}
      BY <1>2, <2>2, <2>4, <3>1 DEF ClaimInv, SenderOK
    <3> QED BY <1>2, <3>3, <3>4, <3>5 DEF ClaimInv
  <2> QED BY <2>3, <2>4
<1>4. CASE ~(Open(row) /\ entry # "idle")
  BY <1>0, <1>2, <1>4, EndSpreads
<1> QED BY <1>3, <1>4

\* The claim is written once: a lost write returns a row that names somebody
\* else, or that is not being cancelled.
LEMMA CancelClaimClaims ==
  ASSUME IInv, IInv', Advanced, ClaimInv, NEW p \in Proc, CancelClaim(p)
  PROVE  ClaimInv'
<1> DEFINE new  == Move(copy[p], "CANCEL_REQUESTED")
           next == IF OwnsCancel(p, Outcome(p, new)) THEN "cancelSend" ELSE "idle"
<1>1. TypeOK /\ TypeOK' /\ row \in Rows /\ copy[p] \in Rows
  BY DEF IInv, TypeOK
<1>2. Save(p, new, next) /\ UNCHANGED <<cwire, cancels>> /\ pc[p] = "cancelClaim"
  BY DEF CancelClaim, broker, history
<1>3. new \in Rows /\ new.cancelClaim = p /\ new.state = "CANCEL_REQUESTED"
  BY <1>1, <1>2 DEF ClaimInv, ClaimantOK, Move, Rows, OrderStates
<1>4. \A q \in Proc \ {p} : /\ pc'[q] = pc[q] /\ copy'[q] = copy[q]
                            /\ q \in fresh' => q \in fresh /\ row' = row
  BY <1>1, <1>2 DEF Save, TypeOK
<1>5. CASE ~Applies(p)
  <2>1. Outcome(p, new) = Merge(new, row) /\ row' = row
    BY <1>2, <1>5 DEF Outcome, Save
  <2>2. ~OwnsCancel(p, Merge(new, row))
    <3>1. row.cancelClaim # p /\ (row.state = "CANCEL_REQUESTED" => row.cancelClaim # NoOne)
      BY <1>2 DEF ClaimInv, ClaimantOK
    <3> QED BY <1>1, <1>3, <3>1, MergeFields DEF OwnsCancel
  <2>3. pc'[p] = "idle" /\ copy'[p] = NewOrder
    BY <1>1, <1>2, <2>1, <2>2 DEF Save, TypeOK
  <2> QED BY <1>1, <1>2, <1>4, <2>1, <2>3, ClaimsSpread DEF NewOrder
<1>6. CASE Applies(p)
  <2>1. row.cancelClaim = NoOne
    BY <1>2, <1>6 DEF Applies, ClaimInv, ClaimantOK
  <2>2. row' = new /\ pc'[p] = "cancelSend" /\ copy'[p] = new
    BY <1>1, <1>2, <1>3, <1>6 DEF Save, Outcome, OwnsCancel, TypeOK
  <2>3. /\ cancels = 0 /\ cwire = {}
        /\ \A q \in Proc : pc[q] # "cancelSend"
        /\ \A q \in Proc : copy[q].cancelClaim \in {NoOne, q}
    BY <1>1, <2>1 DEF ClaimInv, SenderOK, OwnClaims, TypeOK
  <2>4. row'.cancelClaim = p /\ p # NoOne
    BY <1>3, <2>2, ProcAssumption
  <2>5. ASSUME NEW q \in Proc  PROVE ClaimantOK(q)' /\ SenderOK(q)'
    <3>1. CASE q = p
      BY <1>2, <1>4, <2>2, <2>3, <2>4, <3>1 DEF ClaimantOK, SenderOK
    <3>2. CASE q # p
      BY <1>3, <1>4, <2>2, <2>3, <2>4, <3>2, ProcAssumption DEF ClaimInv, ClaimantOK, SenderOK
    <3> QED BY <3>1, <3>2
  <2>6. \A q \in Proc : pc'[q] \notin {"invalidate", "cancelRead"}
    BY <1>4, <2>2 DEF ClaimInv
  <2>7. OwnClaims'
    BY <2>4 DEF OwnClaims
  <2> QED BY <1>2, <2>3, <2>4, <2>5, <2>6, <2>7 DEF ClaimInv
<1> QED BY <1>5, <1>6

\* Cancels, when nobody invalidates.
LEMMA CancelClaims ==
  ASSUME Invalidators = {}, IInv, IInv', Advanced, ClaimInv, NEW p \in Proc, Cancel(p)
  PROVE  ClaimInv'
<1>1. TypeOK /\ TypeOK' /\ copy[p] \in Rows /\ HeldOK(p)
  BY DEF IInv, TypeOK, CopiesOK
<1>2. CASE CancelRead(p)
  BY <1>2, CancelReadClaims
<1>3. CASE CancelIntent(p)
  <2>1. copy[p].state = "RECOVERY_REQUIRED"
    BY <1>1, <1>3 DEF CancelIntent, HeldOK
  <2> QED BY <1>3, <2>1, SaveSpreads DEF CancelIntent, QueryFirst, Elsewhere
<1>4. CASE CancelClaim(p)
  BY <1>4, CancelClaimClaims
<1>5. CASE SendCancel(p)
  <2>1. pc[p] = "cancelSend" /\ SenderOK(p)
    BY <1>5 DEF SendCancel, ClaimInv
  <2>2. /\ cancels' = 1 /\ row' = row /\ copy' = copy /\ fresh' = fresh
        /\ \A q \in Proc \ {p} : pc'[q] = pc[q]
        /\ pc'[p] = "canceling"
    BY <1>1, <1>5, <2>1 DEF SendCancel, SenderOK, TypeOK, db
  <2> QED BY <1>1, <2>1, <2>2, ClaimsSpread
<1>6. CASE CancelToRecovery(p)
  BY <1>1, <1>6, FieldsOfWrites, SaveSpreads
     DEF CancelToRecovery, QueryFirst, Elsewhere, OrderStates
<1>7. CASE StillPending(p)
  BY <1>1, <1>7, FieldsOfWrites, SaveSpreads DEF StillPending, Elsewhere, OrderStates
<1>8. ~InvalidateRead(p) /\ ~InvalidateOrder(p)
  BY DEF InvalidateRead, InvalidateOrder, ClaimInv
<1> QED BY <1>2, <1>3, <1>4, <1>5, <1>6, <1>7, <1>8 DEF Cancel

\* The broker, the clock and crashes know of no claim.
LEMMA OutsideClaims ==
  ASSUME IInv, IInv', ClaimInv, Broker \/ Environment
  PROVE  ClaimInv'
<1>1. CASE \E p \in Proc : Crash(p)
  BY <1>1, EndSpreads DEF Crash, db, broker
<1>2. CASE Broker \/ ExecutionLeaseExpires \/ RecoveryLeaseExpires
  <2>1. UNCHANGED <<row, pc, copy, fresh, cancels>> /\ cwire' \subseteq cwire
    BY <1>2 DEF Broker, PostArrives, CancelArrives, ProviderFills, ProviderCloses,
                ExecutionLeaseExpires, RecoveryLeaseExpires, db, activity, broker, history
  <2> QED BY <2>1 DEF ClaimInv, OwnClaims, ClaimantOK, SenderOK
<1> QED BY <1>1, <1>2 DEF Environment

-----------------------------------------------------------------------------
(* Cancel claims: the theorems.                                            *)

\* Without invalidations, who may hold which claim is kept by every step.
THEOREM ClaimsKept ==
  ASSUME Invalidators = {}
  PROVE  IInv /\ ClaimInv /\ [Next]_vars => ClaimInv'
<1> SUFFICES ASSUME IInv, ClaimInv, [Next]_vars PROVE ClaimInv'
  OBVIOUS
<1>1. IInv' /\ Advanced
  BY Consecution
<1>2. CASE UNCHANGED vars
  BY <1>2 DEF vars, db, activity, broker, history, ClaimInv, OwnClaims, ClaimantOK, SenderOK
<1> QED BY <1>1, <1>2, ExecuteClaims, ReconcileClaims, RecoverClaims, CancelClaims, OutsideClaims
        DEF Next

\* ClaimInv holds in every reachable state.
LEMMA ClaimsInvariant ==
  ASSUME Invalidators = {}
  PROVE  Spec => []ClaimInv
BY InitClaims, ClaimsKept, Invariance, PTL DEF Spec

\* However many cancels, executions, recoveries and crashes interleave, the
\* broker gets at most one cancel request for the order.
THEOREM CanceledOnce ==
  ASSUME Invalidators = {}
  PROVE  Spec => []CancelAtMostOnce
<1>1. ClaimInv => CancelAtMostOnce
  BY DEF ClaimInv, CancelAtMostOnce
<1> QED BY <1>1, ClaimsInvariant, PTL

\* A cancel request on its way is one the row records the claim of.
THEOREM CancelClaimed ==
  ASSUME Invalidators = {}
  PROVE  Spec => []CancelBehindClaim
<1>1. ClaimInv => CancelBehindClaim
  BY DEF ClaimInv, CancelBehindClaim
<1> QED BY <1>1, ClaimsInvariant, PTL

-----------------------------------------------------------------------------
(* Reads and writes as one step: what a copy tells of the row.             *)

\* Where an order is once it was inserted.
Reached == {"SUBMITTED", "ACCEPTED", "PARTIALLY_FILLED", "FILLED", "CANCEL_REQUESTED",
            "RECOVERY_REQUIRED", "CANCELED", "REJECTED"}

\* The broker took the order.
Taken == prov.st \notin {"absent", "rejected"}

\* What p is about to apply is a picture of the order the broker may have given.
PictureOK(p) ==
  /\ seen[p] = "ACCEPTED" => Taken /\ copy[p].filled = 0
  /\ seen[p] = "PARTIALLY_FILLED" => Taken /\ 0 < copy[p].filled /\ copy[p].filled < Qty
  /\ seen[p] = "CANCELED" => \/ prov.st = "canceled" /\ copy[p].filled = prov.filled
                             \/ LateFills /\ prov.st = "filled" /\ copy[p].filled < Qty

\* Where an execution owns a claim.
Submitting == {"claimed", "toPost", "posting", "acked", "failed"}

\* A copy is the row it was made from, but for what its owner means to write.
ShadowOK(p) ==
  /\ copy[p].state \in Reached
  /\ p \in fresh => copy[p].claim = row.claim
  /\ copy[p].state # "SUBMITTED" => row.state # "SUBMITTED" /\ copy[p].claim = row.claim
  /\ p \in fresh /\ pc[p] \notin {"found", "apply", "correct"}
       => copy[p].oid = row.oid /\ copy[p].filled = row.filled /\ copy[p].retry = row.retry
  /\ op[p] # "cancel" \/ pc[p] = "invalidate"
       => (copy[p].cancelClaim # NoOne => row.cancelClaim # NoOne)
  /\ pc[p] \in {"cancelIntent", "cancelClaim"} => copy[p].cancelClaim # NoOne
  /\ pc[p] \in Submitting => copy[p].claim # NoOne /\ row.claim # NoOne /\ op[p] = "execute"
  /\ pc[p] \in {"acked", "found"} => Taken
  /\ p \in fresh /\ pc[p] = "found" => copy[p].filled = row.filled /\ copy[p].retry = row.retry
  /\ pc[p] = "invalidate" => copy[p].state \in {"ACCEPTED", "PARTIALLY_FILLED"}
  /\ pc[p] \in {"apply", "correct"} => copy[p].retry = 0 /\ copy[p].oid
  /\ pc[p] = "found" => copy[p].oid
  /\ pc[p] = "apply" => PictureOK(p)

ShadowInv ==
  /\ row.state \in Reached
  /\ row.intent # NoOne => row.claim # NoOne
  /\ prov.st = "canceled" => prov.filled < Qty
  /\ \A p \in Proc : ShadowOK(p)

LEMMA InitShadow == Init => ShadowInv
BY QtyAssumption DEF Init, NewOrder, ShadowInv, ShadowOK, Reached, Submitting

\* What the row and the broker keep in every step.
Onward ==
  /\ row.state # "SUBMITTED" => row'.state # "SUBMITTED" /\ row'.claim = row.claim
  /\ row.claim # NoOne => row'.claim # NoOne
  /\ row.cancelClaim # NoOne => row'.cancelClaim # NoOne
  /\ Taken => Taken'
  /\ prov.st = "canceled" => prov' = prov \/ (LateFills /\ prov'.st = "filled")
  /\ prov.st = "filled" => prov' = prov

\* A copy nobody touches stays what it was.
LEMMA ShadowStands ==
  ASSUME IInv, ShadowInv, Onward, NEW q \in Proc,
         pc'[q] = pc[q], copy'[q] = copy[q], seen'[q] = seen[q], op'[q] = op[q],
         q \in fresh' => q \in fresh /\ row' = row
  PROVE  ShadowOK(q)'
<1>1. ShadowOK(q) /\ copy[q] \in Rows /\ prov \in ProviderOrders /\ Qty \in Nat
  BY QtyAssumption DEF ShadowInv, IInv, TypeOK
<1>2. PictureOK(q) => PictureOK(q)'
  BY <1>1 DEF PictureOK, Onward, ShadowInv, Taken, Rows, ProviderOrders
<1> QED BY <1>1, <1>2 DEF ShadowOK, Onward

\* Who holds nothing casts no shadow.
LEMMA BlankShadow ==
  ASSUME NEW p \in Proc, pc'[p] = "idle", copy'[p] = NewOrder, p \notin fresh'
  PROVE  ShadowOK(p)'
<1>1. copy'[p].state = "SUBMITTED" /\ copy'[p].cancelClaim = NoOne
  BY DEF NewOrder
<1>2. pc'[p] \notin Submitting
  BY DEF Submitting
<1> QED BY <1>1, <1>2 DEF ShadowOK, Reached

\* What p may write, as far as its copy's shadow goes.
ShadowWrite(p, new) ==
  /\ new.state \in Reached
  /\ new.state = "SUBMITTED" => row.state = "SUBMITTED"
  /\ row.cancelClaim # NoOne => new.cancelClaim # NoOne
  /\ new.intent # NoOne => copy[p].claim # NoOne

\* Where a write may lead, and who may go there.
ShadowLands(p, next) ==
  /\ next \notin {"found", "apply", "correct", "cancelIntent", "cancelClaim", "acked", "invalidate", "claimed", "posting"}
  /\ next \in {"toPost", "failed"} => op[p] = "execute" /\ row.claim # NoOne /\ copy[p].claim # NoOne

\* A write leaves its writer with the row, or with what it lost to the row.
LEMMA SaveShadow ==
  ASSUME IInv, ShadowInv, NEW p \in Proc, NEW new \in Rows, NEW next \in Pcs, Save(p, new, next),
         UNCHANGED <<broker, history>>,
         new.claim = copy[p].claim, new.cancelClaim = copy[p].cancelClaim,
         Applies(p) => ShadowWrite(p, new),
         ShadowLands(p, next)
  PROVE  ShadowInv'
<1>1. TypeOK /\ row \in Rows /\ prov' = prov /\ ShadowOK(p)
  BY DEF IInv, TypeOK, ShadowInv, broker
<1>2. /\ Applies(p) => p \in fresh /\ row' = new
      /\ ~Applies(p) => row' = row
  BY DEF Save, Applies
<1>3. Applies(p) => row'.claim = row.claim
  BY <1>1, <1>2 DEF ShadowOK
<1>4. Onward
  BY <1>1, <1>2, <1>3 DEF Onward, ShadowWrite, Taken
<1>5. row'.state \in Reached /\ (row'.intent # NoOne => row'.claim # NoOne)
  BY <1>2, <1>3 DEF ShadowInv, ShadowWrite
<1>6. ASSUME NEW q \in Proc, q # p PROVE ShadowOK(q)'
  <2>1. pc'[q] = pc[q] /\ copy'[q] = copy[q] /\ seen'[q] = seen[q] /\ op'[q] = op[q]
        /\ (q \in fresh' => q \in fresh /\ row' = row)
    BY <1>1, <1>2, <1>6 DEF Save, TypeOK
  <2> QED BY <1>4, <2>1, ShadowStands
<1>7. ShadowOK(p)'
  <2>1. CASE next = "idle"
    <3>1. pc'[p] = "idle" /\ copy'[p] = NewOrder /\ p \notin fresh'
      BY <1>1, <2>1 DEF Save, TypeOK
    <3> QED BY <3>1, BlankShadow
  <2>2. CASE next # "idle"
    <3>1. pc'[p] = next /\ copy'[p] = Outcome(p, new) /\ op'[p] = op[p]
      BY <1>1, <2>2 DEF Save, TypeOK
    <3>2. /\ copy'[p].state = row'.state /\ copy'[p].claim = row'.claim /\ copy'[p].oid = row'.oid
          /\ copy'[p].filled = row'.filled /\ copy'[p].retry = row'.retry
          /\ \/ copy'[p].cancelClaim = row'.cancelClaim
             \/ row'.cancelClaim = row.cancelClaim /\ copy'[p].cancelClaim = copy[p].cancelClaim
      BY <1>1, <1>2, <3>1, MergeFields DEF Outcome
    <3>3. op[p] # "cancel" => (copy'[p].cancelClaim # NoOne => row'.cancelClaim # NoOne)
      BY <1>1, <3>2 DEF ShadowOK
    <3>4. next \in Submitting => next \in {"toPost", "failed"} /\ row'.claim # NoOne
      BY <1>4 DEF Submitting, ShadowLands, Onward
    <3>5. next = "invalidate" => FALSE
      BY DEF ShadowLands
    <3>6. op'[p] # "cancel" \/ pc'[p] = "invalidate"
            => (copy'[p].cancelClaim # NoOne => row'.cancelClaim # NoOne)
      BY <3>1, <3>3, <3>5
    <3>7. pc'[p] \in Submitting => copy'[p].claim # NoOne /\ row'.claim # NoOne /\ op'[p] = "execute"
      BY <3>1, <3>2, <3>4 DEF ShadowLands
    <3>8. pc'[p] \notin {"found", "apply", "correct", "cancelIntent", "cancelClaim", "acked", "invalidate"}
      BY <3>1 DEF ShadowLands
    <3> QED BY <1>5, <3>1, <3>2, <3>6, <3>7, <3>8 DEF ShadowOK
  <2> QED BY <2>1, <2>2
<1> QED BY <1>1, <1>5, <1>6, <1>7 DEF ShadowInv

\* A call that ends casts no shadow.
LEMMA EndShadow ==
  ASSUME IInv, ShadowInv, NEW p \in Proc, End(p), UNCHANGED <<row, prov>>
  PROVE  ShadowInv'
<1>1. TypeOK
  BY DEF IInv
<1>2. Onward
  BY DEF Onward, Taken
<1>3. ASSUME NEW q \in Proc, q # p PROVE ShadowOK(q)'
  <2>1. pc'[q] = pc[q] /\ copy'[q] = copy[q] /\ seen'[q] = seen[q] /\ op'[q] = op[q]
        /\ (q \in fresh' => q \in fresh /\ row' = row)
    BY <1>1, <1>3 DEF End, TypeOK
  <2> QED BY <1>2, <2>1, ShadowStands
<1>4. pc'[p] = "idle" /\ copy'[p] = NewOrder /\ p \notin fresh'
  BY <1>1 DEF End, TypeOK
<1>5. ShadowOK(p)'
  BY <1>4, BlankShadow
<1> QED BY <1>3, <1>5 DEF ShadowInv

\* A call begins with the row, but for a cancel claim.
LEMMA BeginShadow ==
  ASSUME IInv, ShadowInv, NEW p \in Proc, NEW o, NEW c \in Rows, NEW next, Begin(p, o, c, next),
         UNCHANGED <<row, prov>>,
         \/ c = row
         \/ o = "cancel" /\ next # "invalidate" /\ c = [row EXCEPT !.cancelClaim = IF @ = NoOne THEN p ELSE @],
         next \notin Submitting \cup {"found", "apply", "correct"},
         next \in {"cancelIntent", "cancelClaim"} => c # row \/ row.cancelClaim # NoOne,
         next = "invalidate" => row.state \in {"ACCEPTED", "PARTIALLY_FILLED"}
  PROVE  ShadowInv'
<1>1. TypeOK /\ row \in Rows
  BY DEF IInv, TypeOK
<1>2. Onward
  BY DEF Onward, Taken
<1>3. ASSUME NEW q \in Proc, q # p PROVE ShadowOK(q)'
  <2>1. pc'[q] = pc[q] /\ copy'[q] = copy[q] /\ seen'[q] = seen[q] /\ op'[q] = op[q]
        /\ (q \in fresh' => q \in fresh /\ row' = row)
    BY <1>1, <1>3 DEF Begin, TypeOK
  <2> QED BY <1>2, <2>1, ShadowStands
<1>4. pc'[p] = next /\ copy'[p] = c /\ op'[p] = o
  BY <1>1 DEF Begin, TypeOK
<1>5. /\ c.state = row.state /\ c.claim = row.claim /\ c.oid = row.oid /\ c.filled = row.filled
      /\ c.retry = row.retry
      /\ c.cancelClaim = row.cancelClaim \/ (o = "cancel" /\ next # "invalidate")
      /\ c # row => c.cancelClaim # NoOne
  BY <1>1, ProcAssumption DEF Rows
<1>6. ShadowOK(p)'
  BY <1>4, <1>5 DEF ShadowOK, Submitting, ShadowInv
<1> QED BY <1>3, <1>6 DEF ShadowInv

\* Both orders know the same states.
LEMMA SameStates == Atomic!OrderStates = OrderStates
BY DEF OrderStates, Atomic!OrderStates

\* The row as the atomic order sees it.
LEMMA PlainFields ==
  ASSUME NEW r \in Rows
  PROVE  /\ Plain(r) \in Atomic!Rows
         /\ Plain(r).state = r.state /\ Plain(r).oid = r.oid /\ Plain(r).filled = r.filled
         /\ Plain(r).retry = r.retry /\ Plain(r).manual = r.manual
         /\ Plain(r).claimed <=> r.claim # NoOne
         /\ Plain(r).intent <=> r.intent # NoOne
         /\ Plain(r).canceling <=> r.cancelClaim # NoOne
<1>1. Plain(r) \in Atomic!Rows
  BY SameStates DEF Plain, Rows, Atomic!Rows, RetryLimit, Atomic!RetryLimit
<1>2. /\ Plain(r).state = r.state /\ Plain(r).oid = r.oid /\ Plain(r).filled = r.filled
      /\ Plain(r).retry = r.retry /\ Plain(r).manual = r.manual
  BY DEF Plain
<1>3. Plain(r).claimed = (r.claim # NoOne)
  BY Zenon DEF Plain
<1>4. Plain(r).intent = (r.intent # NoOne)
  BY Zenon DEF Plain
<1>5. Plain(r).canceling = (r.cancelClaim # NoOne)
  BY Zenon DEF Plain
<1> QED BY <1>1, <1>2, <1>3, <1>4, <1>5

\* Two such rows are the same when their fields are.
LEMMA SamePlain ==
  ASSUME NEW x \in Atomic!Rows, NEW y \in Atomic!Rows,
         x.state = y.state, x.claimed <=> y.claimed, x.intent <=> y.intent, x.oid <=> y.oid,
         x.filled = y.filled, x.retry = y.retry, x.manual <=> y.manual, x.canceling <=> y.canceling
  PROVE  x = y
BY DEF Atomic!Rows

\* A note of the cancel changes nothing else.
LEMMA NotedFields ==
  ASSUME NEW x \in Atomic!Rows, NEW y \in Atomic!Rows,
         x.state = y.state, x.claimed <=> y.claimed, x.intent <=> y.intent, x.oid <=> y.oid,
         x.filled = y.filled, x.retry = y.retry, x.manual <=> y.manual,
         y.canceling => x.canceling
  PROVE  x \in Atomic!Noted(y)
<1>1. CASE x.canceling <=> y.canceling
  BY <1>1, SamePlain DEF Atomic!Noted
<1>2. CASE x.canceling /\ ~y.canceling
  <2>1. x = [y EXCEPT !.canceling = TRUE]
    BY <1>2 DEF Atomic!Rows
  <2> QED BY <2>1 DEF Atomic!Noted
<1> QED BY <1>1, <1>2 DEF Atomic!Rows

\* What p may apply it made from the row.
LEMMA FreshCopy ==
  ASSUME IInv, ShadowInv, NEW p \in Proc, Applies(p)
  PROVE  /\ copy[p].state = row.state /\ copy[p].manual = row.manual /\ copy[p].claim = row.claim
         /\ pc[p] # "failed" => copy[p].intent = row.intent
         /\ pc[p] \notin {"found", "apply", "correct"}
              => copy[p].oid = row.oid /\ copy[p].filled = row.filled /\ copy[p].retry = row.retry
         /\ pc[p] = "found" => /\ copy[p].oid /\ copy[p].filled = row.filled
                              /\ copy[p].retry = row.retry /\ Taken
         /\ row.cancelClaim # NoOne => copy[p].cancelClaim # NoOne
         /\ op[p] # "cancel" \/ pc[p] = "invalidate"
              => (copy[p].cancelClaim # NoOne <=> row.cancelClaim # NoOne)
         /\ copy[p].filled >= row.filled
<1>1. p \in fresh /\ RowAgrees(copy[p]) /\ HeldOK(p) /\ ShadowOK(p)
  BY DEF Applies, IInv, CopiesOK, ShadowInv
<1> QED BY <1>1 DEF RowAgrees, HeldOK, ShadowOK

\* The working states an order may be in.
LEMMA WorkingStates ==
  ASSUME ShadowInv, row.state \in Working  PROVE row.state \in Atomic!Working
BY DEF ShadowInv, Reached, Working, OrderStates, TerminalStates, Atomic!Working

\* Moving a copy moves the row.
LEMMA MovePlain ==
  ASSUME IInv, ShadowInv, NEW p \in Proc, Applies(p), NEW s \in OrderStates,
         pc[p] \notin {"found", "apply", "correct", "failed"}
  PROVE  /\ Plain(Move(copy[p], s)) \in Atomic!Noted([Plain(row) EXCEPT !.state = s])
         /\ op[p] # "cancel" \/ pc[p] = "invalidate"
              => Plain(Move(copy[p], s)) = [Plain(row) EXCEPT !.state = s]
<1> DEFINE new == Move(copy[p], s)
           y   == [Plain(row) EXCEPT !.state = s]
<1>1. copy[p] \in Rows /\ row \in Rows
  BY DEF IInv, TypeOK
<1>2. /\ y \in Atomic!Rows /\ y.state = s /\ y.claimed = Plain(row).claimed
      /\ y.intent = Plain(row).intent /\ y.oid = Plain(row).oid /\ y.filled = Plain(row).filled
      /\ y.retry = Plain(row).retry /\ y.manual = Plain(row).manual /\ y.canceling = Plain(row).canceling
  BY <1>1, SameStates, PlainFields DEF Atomic!Rows
<1>3. new \in Rows /\ new.state = s /\ new.retry = copy[p].retry
      /\ new.claim = copy[p].claim /\ new.intent = copy[p].intent /\ new.oid = copy[p].oid
      /\ new.filled = copy[p].filled /\ new.manual = copy[p].manual /\ new.cancelClaim = copy[p].cancelClaim
  BY <1>1 DEF Move, Rows
<1> HIDE DEF new, y
<1>4. /\ new.state = y.state
      /\ new.claim # NoOne <=> y.claimed
      /\ new.intent # NoOne <=> y.intent
      /\ new.oid = y.oid /\ new.filled = y.filled /\ new.retry = y.retry /\ new.manual = y.manual
      /\ y.canceling => new.cancelClaim # NoOne
      /\ op[p] # "cancel" \/ pc[p] = "invalidate" => (new.cancelClaim # NoOne <=> y.canceling)
  BY <1>1, <1>2, <1>3, FreshCopy, PlainFields
<1>5. Plain(new) \in Atomic!Noted(y)
  BY <1>2, <1>3, <1>4, PlainFields, NotedFields
<1>6. op[p] # "cancel" \/ pc[p] = "invalidate" => Plain(new) = y
  BY <1>2, <1>3, <1>4, PlainFields, SamePlain
<1> QED BY <1>5, <1>6 DEF new, y

\* A step of the order as the atomic order takes it, or none.
Shown == [Atomic!Next]_(Atomic!vars)

\* What leaves the row and the broker alone does not show.
LEMMA Unseen ==
  ASSUME UNCHANGED <<row, posts, wire, prov>>  PROVE Shown
BY DEF Shown, Atomic!vars, Plain

\* A write that applies shows, one that is lost does not.
LEMMA SaveShown ==
  ASSUME IInv, ShadowInv, NEW p \in Proc, NEW new \in Rows, NEW next \in Pcs, Save(p, new, next),
         UNCHANGED <<broker, history>>,
         new.claim = copy[p].claim, new.cancelClaim = copy[p].cancelClaim,
         Applies(p) => ShadowWrite(p, new),
         ShadowLands(p, next),
         Applies(p) /\ row' = new => Atomic!Write
  PROVE  ShadowInv' /\ Shown
<1>1. ShadowInv'
  BY SaveShadow
<1>2. CASE Applies(p)
  <2>1. row' = new
    BY <1>2 DEF Save
  <2> QED BY <1>1, <1>2, <2>1 DEF Shown, Atomic!Next
<1>3. CASE ~Applies(p)
  <2>1. UNCHANGED <<row, posts, wire, prov>>
    BY <1>3 DEF Save, broker, history
  <2> QED BY <1>1, <2>1, Unseen
<1> QED BY <1>1, <1>2, <1>3

\* What a write leaves alone.
LEMMA OnlyTheRow ==
  ASSUME UNCHANGED <<broker, history>>
  PROVE  UNCHANGED <<posts, wire # {}, prov>>
BY DEF broker, history

\* A write that moves the order.
LEMMA MoveShown ==
  ASSUME IInv, ShadowInv, NEW p \in Proc, NEW s \in Reached \ {"SUBMITTED"}, NEW next \in Pcs,
         Save(p, Move(copy[p], s), next), UNCHANGED <<broker, history>>,
         pc[p] \notin {"found", "apply", "correct", "failed"},
         ShadowLands(p, next),
         Applies(p) /\ row' = Move(copy[p], s) => Atomic!Write
  PROVE  ShadowInv' /\ Shown
<1>1. copy[p] \in Rows /\ s \in OrderStates
  BY DEF IInv, TypeOK, Reached, OrderStates
<1>2. Applies(p) => ShadowWrite(p, Move(copy[p], s))
  BY <1>1, MoveFields, FreshCopy DEF ShadowWrite, ShadowInv
<1> QED BY <1>1, <1>2, MoveFields, SaveShown

\* A check before the claim refuses the order (execute).
LEMMA RefuseShown ==
  ASSUME IInv, ShadowInv, NEW p \in Proc, Refuse(p)  PROVE ShadowInv' /\ Shown
<1> DEFINE new == Move(copy[p], "REJECTED")
<1>1. /\ Save(p, new, "idle") /\ UNCHANGED <<broker, history>> /\ pc[p] = "unclaimed"
      /\ copy[p].state = "SUBMITTED" /\ op[p] = "execute" /\ copy[p].intent = NoOne
  BY DEF Refuse, IInv, CopiesOK, HeldOK
<1>2. ShadowLands(p, "idle") /\ "REJECTED" \in OrderStates /\ row \in Rows /\ "idle" \in Pcs
      /\ "REJECTED" \in Reached \ {"SUBMITTED"}
  BY DEF ShadowLands, OrderStates, IInv, TypeOK, Pcs, Reached
<1>3. ASSUME Applies(p), row' = new PROVE Atomic!Write
  <2>1. Plain(row') = [Plain(row) EXCEPT !.state = "REJECTED"]
    BY <1>1, <1>2, <1>3, MovePlain
  <2>2. Plain(row).state = "SUBMITTED" /\ ~Plain(row).intent
    BY <1>1, <1>2, <1>3, FreshCopy, PlainFields
  <2> QED BY <1>1, <2>1, <2>2, OnlyTheRow DEF Atomic!Write, Atomic!Refuse
<1> QED BY <1>1, <1>2, <1>3, MoveShown

\* An order is claimed only as it was read.
LEMMA ClaimOrderExecutionShown ==
  ASSUME IInv, ShadowInv, NEW p \in Proc, ClaimOrderExecution(p)  PROVE ShadowInv' /\ Shown
<1>1. CASE ~Claimable(p)
  <2>1. End(p) /\ UNCHANGED <<row, posts, wire, prov>>
    BY <1>1 DEF ClaimOrderExecution, db, broker, history
  <2> QED BY <2>1, EndShadow, Unseen
<1>2. CASE Claimable(p)
  <2>1. /\ row' = [row EXCEPT !.claim = p] /\ fresh' = {p}
        /\ pc' = [pc EXCEPT ![p] = "claimed"] /\ copy' = [copy EXCEPT ![p] = row']
        /\ UNCHANGED <<op, seen>> /\ UNCHANGED <<broker, history>> /\ pc[p] = "unclaimed"
    BY <1>2 DEF ClaimOrderExecution
  <2>2. TypeOK /\ row \in Rows /\ op[p] = "execute" /\ row.state = "SUBMITTED" /\ row.intent = NoOne
    BY <1>2, <2>1 DEF IInv, TypeOK, CopiesOK, HeldOK, Claimable
  <2>3. /\ row' \in Rows /\ row'.claim = p /\ row'.state = row.state /\ row'.intent = row.intent
        /\ row'.oid = row.oid /\ row'.filled = row.filled /\ row'.retry = row.retry
        /\ row'.manual = row.manual /\ row'.cancelClaim = row.cancelClaim
    BY <2>1, <2>2 DEF Rows
  <2>4. Onward
    BY <2>1, <2>2, <2>3, ProcAssumption DEF Onward, Taken, broker
  <2>5. ASSUME NEW q \in Proc, q # p PROVE ShadowOK(q)'
    <3>1. pc'[q] = pc[q] /\ copy'[q] = copy[q] /\ seen'[q] = seen[q] /\ op'[q] = op[q] /\ q \notin fresh'
      BY <2>1, <2>2, <2>5 DEF TypeOK
    <3> QED BY <2>4, <3>1, ShadowStands
  <2>6. pc'[p] = "claimed" /\ copy'[p] = row' /\ op'[p] = "execute"
    BY <2>1, <2>2 DEF TypeOK
  <2>7. ShadowOK(p)'
    BY <2>2, <2>3, <2>6, ProcAssumption DEF ShadowOK, Submitting, Reached
  <2>8. ShadowInv'
    BY <2>1, <2>2, <2>3, <2>5, <2>7 DEF ShadowInv, broker
  <2> DEFINE y == [Plain(row) EXCEPT !.claimed = TRUE]
  <2>9. /\ y \in Atomic!Rows /\ y.state = Plain(row).state /\ y.claimed = TRUE
        /\ y.intent = Plain(row).intent /\ y.oid = Plain(row).oid /\ y.filled = Plain(row).filled
        /\ y.retry = Plain(row).retry /\ y.manual = Plain(row).manual /\ y.canceling = Plain(row).canceling
    <3>1. Plain(row) \in Atomic!Rows
      BY <2>2, PlainFields
    <3> QED BY <3>1 DEF Atomic!Rows
  <2> HIDE DEF y
  <2>10. Plain(row') = y
    <3>1. row'.claim # NoOne
      BY <2>3, ProcAssumption
    <3>2. Plain(row') \in Atomic!Rows /\ Plain(row').claimed /\ y.claimed
      BY <2>3, <2>9, <3>1, PlainFields
    <3>3. /\ Plain(row').state = y.state /\ Plain(row').oid = y.oid /\ Plain(row').filled = y.filled
          /\ Plain(row').retry = y.retry /\ Plain(row').manual = y.manual
      BY <2>2, <2>3, <2>9, PlainFields
    <3>4. (Plain(row').intent <=> y.intent) /\ (Plain(row').canceling <=> y.canceling)
      BY <2>2, <2>3, <2>9, PlainFields
    <3> QED BY <2>9, <3>2, <3>3, <3>4, SamePlain
  <2>11. Plain(row).state = "SUBMITTED" /\ ~Plain(row).intent
    BY <2>2, PlainFields
  <2>12. Atomic!Write
    BY <2>1, <2>10, <2>11, OnlyTheRow DEF Atomic!Write, Atomic!Claim, y
  <2> QED BY <2>8, <2>12 DEF Shown, Atomic!Next
<1> QED BY <1>1, <1>2

\* A write answered by a database error shows when it was applied after all.
LEMMA SaveFailsShown ==
  ASSUME IInv, ShadowInv, NEW p \in Proc, NEW new \in Rows, NEW c \in Rows, SaveFails(p, new, c),
         UNCHANGED <<broker, history>>,
         pc[p] \in Submitting, copy[p].state = "SUBMITTED",
         new.claim = copy[p].claim, new.cancelClaim = copy[p].cancelClaim,
         c.state = "SUBMITTED", c.claim = copy[p].claim, c.oid = copy[p].oid,
         c.filled = copy[p].filled, c.retry = copy[p].retry, c.cancelClaim = copy[p].cancelClaim,
         Applies(p) => ShadowWrite(p, new),
         Applies(p) /\ row' = new => Atomic!Write
  PROVE  ShadowInv' /\ Shown
<1>1. TypeOK /\ row \in Rows /\ prov' = prov /\ ShadowOK(p)
  BY DEF IInv, TypeOK, ShadowInv, broker
<1>2. \/ row' = row /\ fresh' = fresh
      \/ Applies(p) /\ row' = new /\ fresh' = {}
  BY DEF SaveFails
<1>3. Applies(p) => copy[p].claim = row.claim
  BY FreshCopy
<1>4. Onward
  BY <1>1, <1>2, <1>3 DEF Onward, ShadowWrite, Taken
<1>5. row'.state \in Reached /\ (row'.intent # NoOne => row'.claim # NoOne)
  BY <1>2, <1>3 DEF ShadowInv, ShadowWrite
<1>6. ASSUME NEW q \in Proc, q # p PROVE ShadowOK(q)'
  <2>1. pc'[q] = pc[q] /\ copy'[q] = copy[q] /\ seen'[q] = seen[q] /\ op'[q] = op[q]
        /\ (q \in fresh' => q \in fresh /\ row' = row)
    BY <1>1, <1>2, <1>6 DEF SaveFails, TypeOK
  <2> QED BY <1>4, <2>1, ShadowStands
<1>7. pc'[p] = "failed" /\ copy'[p] = c /\ op'[p] = op[p] /\ pc[p] \notin {"found", "apply", "correct"}
      /\ c.state \in Reached
  BY <1>1 DEF SaveFails, TypeOK, Submitting, Reached
<1>8. p \in fresh' => c.claim = row'.claim /\ c.oid = row'.oid /\ c.filled = row'.filled /\ c.retry = row'.retry
  BY <1>1, <1>2, <1>7 DEF ShadowOK
<1>9. op[p] = "execute" /\ c.claim # NoOne /\ row'.claim # NoOne
      /\ (c.cancelClaim # NoOne => row'.cancelClaim # NoOne)
  BY <1>1, <1>4 DEF ShadowOK, Onward
<1>10. ShadowOK(p)'
  BY <1>7, <1>8, <1>9 DEF ShadowOK
<1>11. ShadowInv'
  BY <1>1, <1>5, <1>6, <1>10 DEF ShadowInv
<1>12. Shown
  <2>1. CASE row' = row
    BY <2>1, Unseen DEF broker, history
  <2>2. CASE row' # row
    BY <1>2, <2>2 DEF Shown, Atomic!Next
  <2> QED BY <2>1, <2>2
<1> QED BY <1>11, <1>12

\* The intent is recorded once, by a call that claimed the order.
LEMMA BeginSubmissionIntentShown ==
  ASSUME IInv, ShadowInv, NEW p \in Proc, BeginSubmissionIntent(p)  PROVE ShadowInv' /\ Shown
<1> DEFINE new  == [copy[p] EXCEPT !.intent = p]
           next == IF Proceeds(p, Outcome(p, new)) THEN "toPost" ELSE "idle"
<1>1. /\ pc[p] = "claimed" /\ HeldOK(p) /\ ShadowOK(p) /\ copy[p] \in Rows /\ row \in Rows
      /\ UNCHANGED <<broker, history>>
  BY DEF BeginSubmissionIntent, IInv, TypeOK, CopiesOK, ShadowInv
<1>2. /\ copy[p].state = "SUBMITTED" /\ copy[p].intent = NoOne /\ op[p] = "execute"
      /\ copy[p].claim # NoOne /\ row.claim # NoOne /\ pc[p] \in Submitting
  BY <1>1 DEF HeldOK, ShadowOK, Submitting
<1>3. /\ new \in Rows /\ new.state = "SUBMITTED" /\ new.intent = p /\ new.oid = copy[p].oid
      /\ new.claim = copy[p].claim /\ new.cancelClaim = copy[p].cancelClaim
      /\ new.filled = copy[p].filled /\ new.retry = copy[p].retry /\ new.manual = copy[p].manual
  BY <1>1, <1>2 DEF Rows
<1> HIDE DEF new
<1>4. Applies(p) => ShadowWrite(p, new)
  BY <1>1, <1>2, <1>3, FreshCopy DEF ShadowWrite, Reached
<1>5. ASSUME Applies(p), row' = new PROVE Atomic!Write
  <2> DEFINE y == [Plain(row) EXCEPT !.intent = TRUE]
  <2>1. Plain(row) \in Atomic!Rows /\ Plain(new) \in Atomic!Rows
    BY <1>1, <1>3, PlainFields
  <2>2. /\ y \in Atomic!Rows /\ y.state = Plain(row).state /\ y.intent = TRUE
        /\ y.claimed = Plain(row).claimed /\ y.oid = Plain(row).oid /\ y.filled = Plain(row).filled
        /\ y.retry = Plain(row).retry /\ y.manual = Plain(row).manual /\ y.canceling = Plain(row).canceling
    BY <2>1 DEF Atomic!Rows
  <2> HIDE DEF y
  <2>3. p # NoOne
    BY ProcAssumption
  <2>4. /\ new.state = row.state /\ new.oid = row.oid /\ new.filled = row.filled
        /\ new.retry = row.retry /\ new.manual = row.manual /\ new.claim = row.claim
        /\ new.cancelClaim # NoOne <=> row.cancelClaim # NoOne
    BY <1>1, <1>2, <1>3, <1>5, FreshCopy
  <2>5. Plain(new).intent /\ y.intent
    BY <1>3, <2>2, <2>3, PlainFields
  <2>6. /\ Plain(new).state = y.state /\ Plain(new).oid = y.oid /\ Plain(new).filled = y.filled
        /\ Plain(new).retry = y.retry /\ Plain(new).manual = y.manual
    BY <1>1, <1>3, <2>2, <2>4, PlainFields
  <2>7. (Plain(new).claimed <=> y.claimed) /\ (Plain(new).canceling <=> y.canceling)
    BY <1>1, <1>3, <2>2, <2>4, PlainFields
  <2>8. Plain(new) = y
    BY <2>1, <2>2, <2>5, <2>6, <2>7, SamePlain
  <2>9. Plain(row).state = "SUBMITTED" /\ ~Plain(row).intent /\ Plain(row).claimed
    BY <1>1, <1>2, <1>5, FreshCopy, PlainFields
  <2> QED BY <1>1, <1>5, <2>8, <2>9, OnlyTheRow DEF Atomic!Write, Atomic!RecordIntent, y
<1>6. CASE Save(p, new, next)
  <2>1. next \in Pcs /\ ShadowLands(p, next)
    BY <1>2 DEF Pcs, ShadowLands
  <2> QED BY <1>1, <1>3, <1>4, <1>5, <1>6, <2>1, SaveShown
<1>7. CASE Save(p, new, "failed")
  <2>1. "failed" \in Pcs /\ ShadowLands(p, "failed")
    BY <1>2 DEF Pcs, ShadowLands
  <2> QED BY <1>1, <1>3, <1>4, <1>5, <1>7, <2>1, SaveShown
<1>8. CASE SaveFails(p, new, new)
  BY <1>1, <1>2, <1>3, <1>4, <1>5, <1>8, SaveFailsShown
<1> QED BY <1>6, <1>7, <1>8 DEF BeginSubmissionIntent, new

\* The order is sent once.
LEMMA PostOrderShown ==
  ASSUME IInv, ShadowInv, NEW p \in Proc, PostOrder(p)  PROVE ShadowInv' /\ Shown
<1>1. /\ pc[p] = "toPost" /\ wire' = wire \cup {p} /\ posts' = IF posts < 2 THEN posts + 1 ELSE posts
      /\ pc' = [pc EXCEPT ![p] = "posting"] /\ UNCHANGED <<row, op, copy, fresh, seen, prov>>
      /\ TypeOK /\ HeldOK(p) /\ ShadowOK(p) /\ row \in Rows
  BY DEF PostOrder, db, IInv, TypeOK, CopiesOK, ShadowInv
<1>2. row.intent = p /\ posts = 0
  BY <1>1 DEF HeldOK
<1>3. Onward
  BY <1>1 DEF Onward, Taken
<1>4. ASSUME NEW q \in Proc, q # p PROVE ShadowOK(q)'
  <2>1. pc'[q] = pc[q]
    BY <1>1, <1>4 DEF TypeOK
  <2> QED BY <1>1, <1>3, <2>1, ShadowStands
<1>5. pc'[p] = "posting"
  BY <1>1 DEF TypeOK
<1>6. ShadowOK(p)'
  BY <1>1, <1>5 DEF ShadowOK, Submitting
<1>7. ShadowInv'
  BY <1>1, <1>4, <1>6 DEF ShadowInv
<1>8. Plain(row).intent /\ posts' = 1 /\ (wire' # {}) = TRUE /\ Plain(row') = Plain(row)
  BY <1>1, <1>2, PlainFields, ProcAssumption
<1> QED BY <1>1, <1>2, <1>7, <1>8 DEF Shown, Atomic!Next, Atomic!Post

\* An answer leaves the row and the broker alone.
LEMMA PostAnsweredShown ==
  ASSUME IInv, ShadowInv, NEW p \in Proc, PostAnswered(p)  PROVE ShadowInv' /\ Shown
<1>1. /\ pc[p] = "posting" /\ pc' = [pc EXCEPT ![p] = "acked"]
      /\ UNCHANGED <<row, op, copy, fresh, seen, prov, wire, posts>> /\ Taken
      /\ TypeOK /\ ShadowOK(p)
  BY DEF PostAnswered, db, broker, history, IInv, CopiesOK, ShadowInv, Taken
<1>2. Onward
  BY <1>1 DEF Onward, Taken
<1>3. ASSUME NEW q \in Proc, q # p PROVE ShadowOK(q)'
  <2>1. pc'[q] = pc[q]
    BY <1>1, <1>3 DEF TypeOK
  <2> QED BY <1>1, <1>2, <2>1, ShadowStands
<1>4. pc'[p] = "acked"
  BY <1>1 DEF TypeOK
<1>5. ShadowOK(p)'
  BY <1>1, <1>4 DEF ShadowOK, Submitting, Taken
<1>6. ShadowInv'
  BY <1>1, <1>3, <1>5 DEF ShadowInv
<1> QED BY <1>1, <1>6, Unseen

\* The acknowledgement is written as long as the order is as it was posted.
LEMMA RecordAcceptedShown ==
  ASSUME IInv, ShadowInv, NEW p \in Proc, RecordAccepted(p)  PROVE ShadowInv' /\ Shown
<1>1. /\ pc[p] = "acked" /\ HeldOK(p) /\ ShadowOK(p) /\ copy[p] \in Rows /\ row \in Rows
      /\ UNCHANGED <<broker, history>>
  BY DEF RecordAccepted, IInv, TypeOK, CopiesOK, ShadowInv
<1>2. /\ copy[p].state = "SUBMITTED" /\ copy[p].intent # NoOne /\ op[p] = "execute"
      /\ copy[p].claim # NoOne /\ row.claim # NoOne /\ pc[p] \in Submitting /\ Taken
  BY <1>1 DEF HeldOK, ShadowOK, Submitting
<1>3. PICK next \in {"idle", "failed"}, known \in BOOLEAN :
        LET new == [Move(copy[p], "ACCEPTED") EXCEPT !.oid = known]
        IN  Save(p, new, next) \/ SaveFails(p, new, copy[p])
  BY DEF RecordAccepted
<1> DEFINE moved == Move(copy[p], "ACCEPTED")
           new   == [moved EXCEPT !.oid = known]
<1>4. moved \in Rows /\ moved.state = "ACCEPTED" /\ moved.retry = copy[p].retry
      /\ moved.claim = copy[p].claim /\ moved.intent = copy[p].intent /\ moved.filled = copy[p].filled
      /\ moved.manual = copy[p].manual /\ moved.cancelClaim = copy[p].cancelClaim
  BY <1>1 DEF Move, Rows, OrderStates
<1> HIDE DEF moved
<1>5. /\ new \in Rows /\ new.state = "ACCEPTED" /\ new.oid = known
      /\ new.claim = copy[p].claim /\ new.intent = copy[p].intent /\ new.filled = copy[p].filled
      /\ new.retry = copy[p].retry /\ new.manual = copy[p].manual
      /\ new.cancelClaim = copy[p].cancelClaim
  BY <1>4 DEF Rows
<1> HIDE DEF new
<1>6. Applies(p) => ShadowWrite(p, new)
  BY <1>1, <1>2, <1>5, FreshCopy DEF ShadowWrite, Reached
<1>7. ASSUME Applies(p), row' = new PROVE Atomic!Write
  <2> DEFINE y == [Plain(row) EXCEPT !.state = "ACCEPTED", !.oid = known]
  <2>1. Plain(row) \in Atomic!Rows /\ Plain(new) \in Atomic!Rows
    BY <1>1, <1>5, PlainFields
  <2>2. /\ y \in Atomic!Rows /\ y.state = "ACCEPTED" /\ y.oid = known
        /\ y.claimed = Plain(row).claimed /\ y.intent = Plain(row).intent /\ y.filled = Plain(row).filled
        /\ y.retry = Plain(row).retry /\ y.manual = Plain(row).manual /\ y.canceling = Plain(row).canceling
    BY <2>1 DEF Atomic!Rows, Atomic!OrderStates
  <2> HIDE DEF y
  <2>3. /\ new.intent = row.intent /\ new.filled = row.filled
        /\ new.retry = row.retry /\ new.manual = row.manual /\ new.claim = row.claim
        /\ new.cancelClaim # NoOne <=> row.cancelClaim # NoOne
    BY <1>1, <1>2, <1>5, <1>7, FreshCopy
  <2>4. /\ Plain(new).state = y.state /\ Plain(new).oid = y.oid /\ Plain(new).filled = y.filled
        /\ Plain(new).retry = y.retry /\ Plain(new).manual = y.manual
    BY <1>1, <1>5, <2>2, <2>3, PlainFields
  <2>5. /\ Plain(new).claimed <=> y.claimed
        /\ Plain(new).canceling <=> y.canceling
        /\ Plain(new).intent <=> y.intent
    BY <1>1, <1>5, <2>2, <2>3, PlainFields
  <2>6. Plain(new) = y
    BY <2>1, <2>2, <2>4, <2>5, SamePlain
  <2>7. Plain(row).state = "SUBMITTED" /\ Plain(row).intent
    BY <1>1, <1>2, <1>7, FreshCopy, PlainFields
  <2> QED BY <1>1, <1>2, <1>7, <2>6, <2>7, OnlyTheRow DEF Atomic!Write, Atomic!Acknowledge, Taken, y
<1>8. CASE Save(p, new, next)
  <2>1. next \in Pcs /\ ShadowLands(p, next)
    BY <1>2 DEF Pcs, ShadowLands
  <2> QED BY <1>1, <1>5, <1>6, <1>7, <1>8, <2>1, SaveShown
<1>9. CASE SaveFails(p, new, copy[p])
  BY <1>1, <1>2, <1>5, <1>6, <1>7, <1>9, SaveFailsShown
<1> QED BY <1>3, <1>8, <1>9 DEF new, moved

\* Whoever failed with an intent is told nothing of the order's outcome.
LEMMA ExecuteFailsShown ==
  ASSUME IInv, ShadowInv, NEW p \in Proc, ExecuteFails(p)  PROVE ShadowInv' /\ Shown
<1>1. /\ pc[p] \in Submitting /\ HeldOK(p) /\ ShadowOK(p) /\ copy[p] \in Rows /\ row \in Rows
      /\ UNCHANGED <<broker, history>>
  BY DEF ExecuteFails, IInv, TypeOK, CopiesOK, ShadowInv, Submitting
<1>2. op[p] = "execute" /\ copy[p].claim # NoOne /\ row.claim # NoOne
  BY <1>1 DEF ShadowOK
<1>3. "idle" \in Pcs /\ ShadowLands(p, "idle")
  BY DEF Pcs, ShadowLands
<1>4. CASE ~canTransitionOrder(copy[p].state, FailureState(copy[p]))
  <2>1. End(p) /\ UNCHANGED <<row, posts, wire, prov>>
    BY <1>4 DEF ExecuteFails, db, broker, history
  <2> QED BY <2>1, EndShadow, Unseen
<1>5. CASE canTransitionOrder(copy[p].state, FailureState(copy[p])) /\ copy[p].intent = NoOne
  <2> DEFINE new == Move(copy[p], "REJECTED")
  <2>1. Save(p, new, "idle") /\ pc[p] = "claimed" /\ copy[p].state = "SUBMITTED"
    BY <1>1, <1>5 DEF ExecuteFails, FailureState, HeldOK, Submitting
  <2>2. "REJECTED" \in OrderStates /\ "REJECTED" \in Reached \ {"SUBMITTED"}
    BY DEF OrderStates, Reached
  <2>3. ASSUME Applies(p), row' = new PROVE Atomic!Write
    <3>1. Plain(row') = [Plain(row) EXCEPT !.state = "REJECTED"]
      BY <1>2, <2>1, <2>2, <2>3, MovePlain
    <3>2. Plain(row).state = "SUBMITTED" /\ ~Plain(row).intent
      BY <1>1, <1>5, <2>1, <2>3, FreshCopy, PlainFields
    <3> QED BY <1>1, <3>1, <3>2, OnlyTheRow DEF Atomic!Write, Atomic!Refuse
  <2> QED BY <1>1, <1>3, <2>1, <2>2, <2>3, MoveShown
<1>6. CASE canTransitionOrder(copy[p].state, FailureState(copy[p])) /\ copy[p].intent # NoOne
  <2> DEFINE new == Move(copy[p], "RECOVERY_REQUIRED")
  <2>1. Save(p, new, "idle") /\ pc[p] \notin {"found", "apply", "correct"}
    BY <1>1, <1>6 DEF ExecuteFails, FailureState, Submitting
  <2>2. copy[p].state \in Working \cup {"RECOVERY_REQUIRED"}
    BY <1>1, <1>6 DEF canTransitionOrder, TRANSITIONS, Working, TerminalStates, Rows, OrderStates,
                      FailureState
  <2>3. /\ new \in Rows /\ new.state = "RECOVERY_REQUIRED" /\ new.retry = copy[p].retry
        /\ new.claim = copy[p].claim /\ new.intent = copy[p].intent /\ new.oid = copy[p].oid
        /\ new.filled = copy[p].filled /\ new.manual = copy[p].manual
        /\ new.cancelClaim = copy[p].cancelClaim
    BY <1>1 DEF Move, Rows, OrderStates
  <2> HIDE DEF new
  <2>4. Applies(p) => ShadowWrite(p, new)
    BY <1>2, <2>3, FreshCopy DEF ShadowWrite, Reached
  <2>5. ASSUME Applies(p), row' = new PROVE Atomic!Write
    <3> DEFINE y == [Plain(row) EXCEPT !.state = "RECOVERY_REQUIRED", !.intent = TRUE]
    <3>1. Plain(row) \in Atomic!Rows /\ Plain(new) \in Atomic!Rows
      BY <1>1, <2>3, PlainFields
    <3>2. /\ y \in Atomic!Rows /\ y.state = "RECOVERY_REQUIRED" /\ y.intent = TRUE
          /\ y.claimed = Plain(row).claimed /\ y.oid = Plain(row).oid /\ y.filled = Plain(row).filled
          /\ y.retry = Plain(row).retry /\ y.manual = Plain(row).manual
          /\ y.canceling = Plain(row).canceling
      BY <3>1 DEF Atomic!Rows, Atomic!OrderStates
    <3> HIDE DEF y
    <3>3. /\ new.oid = row.oid /\ new.filled = row.filled
          /\ new.retry = row.retry /\ new.manual = row.manual /\ new.claim = row.claim
          /\ new.cancelClaim # NoOne <=> row.cancelClaim # NoOne
      BY <1>1, <1>2, <2>1, <2>3, <2>5, FreshCopy
    <3>4. /\ Plain(new).state = y.state /\ Plain(new).oid = y.oid /\ Plain(new).filled = y.filled
          /\ Plain(new).retry = y.retry /\ Plain(new).manual = y.manual
      BY <1>1, <2>3, <3>2, <3>3, PlainFields
    <3>5. /\ Plain(new).claimed <=> y.claimed
          /\ Plain(new).canceling <=> y.canceling
      BY <1>1, <2>3, <3>2, <3>3, PlainFields
    <3>6. Plain(new).intent /\ y.intent
      BY <1>6, <2>3, <3>2, PlainFields
    <3>7. Plain(new) = y
      BY <3>1, <3>2, <3>4, <3>5, <3>6, SamePlain
    <3>8. row.state \in Atomic!Working \cup {"RECOVERY_REQUIRED"}
      BY <2>2, <2>5, FreshCopy, WorkingStates
    <3>9. Plain(row).state \in Atomic!Working \cup {"RECOVERY_REQUIRED"} /\ Plain(row).claimed
      BY <1>1, <1>2, <3>8, PlainFields
    <3> QED BY <1>1, <2>5, <3>7, <3>9, OnlyTheRow DEF Atomic!Write, Atomic!SubmissionFails, y
  <2> QED BY <1>1, <1>3, <2>1, <2>3, <2>4, <2>5, SaveShown
<1> QED BY <1>4, <1>5, <1>6

\* execute begins with the row.
LEMMA ExecuteReadShown ==
  ASSUME IInv, ShadowInv, NEW p \in Proc, ExecuteRead(p)  PROVE ShadowInv' /\ Shown
<1> DEFINE next == IF row.state = "RECOVERY_REQUIRED" THEN "reconcile"
                   ELSE IF row.intent # NoOne THEN "escalate" ELSE "unclaimed"
<1>1. /\ Begin(p, "execute", row, next) /\ UNCHANGED <<row, prov>> /\ row \in Rows
      /\ UNCHANGED <<row, posts, wire, prov>>
  BY DEF ExecuteRead, db, broker, history, IInv, TypeOK
<1>2. next \in {"reconcile", "escalate", "unclaimed"}
  OBVIOUS
<1> HIDE DEF next
<1>3. next \notin Submitting \cup {"found", "apply", "correct", "cancelIntent", "cancelClaim", "invalidate"}
  BY <1>2 DEF Submitting
<1> QED BY <1>1, <1>3, BeginShadow, Unseen

\* A failed attempt counts in the row as it does in the copy.
LEMMA PendingPlain ==
  ASSUME NEW c \in Rows, NEW x \in Atomic!Rows, NEW review \in BOOLEAN,
         c.claim # NoOne <=> x.claimed, c.intent # NoOne <=> x.intent, c.oid = x.oid,
         c.filled = x.filled, c.retry = x.retry, x.canceling => c.cancelClaim # NoOne
  PROVE  Plain(Pending(c, review)) \in Atomic!Noted(Atomic!Pending(x, review))
<1> DEFINE n == Pending(c, review)
           y == Atomic!Pending(x, review)
           m == review \/ Bump(c.retry) >= RetryLimit
<1>1. c.retry \in 0..RetryLimit /\ Bump(c.retry) \in 0..RetryLimit
      /\ Atomic!Bump(x.retry) = Bump(c.retry) /\ Atomic!RetryLimit = RetryLimit
  BY DEF Bump, RetryLimit, Rows, Atomic!Bump, Atomic!RetryLimit
<1>2. m \in BOOLEAN
  OBVIOUS
<1>3. y = [x EXCEPT !.state = "RECOVERY_REQUIRED", !.retry = Bump(c.retry), !.manual = m]
  BY <1>1 DEF Atomic!Pending, Atomic!Rows
<1>4. n = [Move(c, "RECOVERY_REQUIRED") EXCEPT !.retry = Bump(c.retry), !.manual = m]
  BY <1>1 DEF Pending, Move, Rows
<1>5. /\ Move(c, "RECOVERY_REQUIRED") \in Rows
      /\ Move(c, "RECOVERY_REQUIRED").state = "RECOVERY_REQUIRED"
      /\ Move(c, "RECOVERY_REQUIRED").claim = c.claim
  BY MoveFields DEF OrderStates
<1> HIDE DEF m, y, n
<1>6. /\ n \in Rows /\ n.state = "RECOVERY_REQUIRED" /\ n.retry = Bump(c.retry) /\ n.manual = m
      /\ n.claim = c.claim
  BY <1>1, <1>2, <1>4, <1>5 DEF Rows
<1>7. n.intent = c.intent /\ n.oid = c.oid /\ n.filled = c.filled /\ n.cancelClaim = c.cancelClaim
  BY PendingFields DEF n
<1>8. /\ y \in Atomic!Rows /\ y.state = "RECOVERY_REQUIRED" /\ y.retry = Bump(c.retry) /\ y.manual = m
      /\ y.claimed = x.claimed /\ y.intent = x.intent /\ y.oid = x.oid /\ y.filled = x.filled
      /\ y.canceling = x.canceling
  BY <1>1, <1>2, <1>3 DEF Atomic!Rows, Atomic!OrderStates
<1>9. Plain(n) \in Atomic!Rows
  BY <1>6, PlainFields
<1>10. /\ Plain(n).state = y.state /\ Plain(n).oid = y.oid /\ Plain(n).filled = y.filled
       /\ Plain(n).retry = y.retry /\ Plain(n).manual = y.manual
  BY <1>6, <1>7, <1>8, PlainFields
<1>11. /\ Plain(n).claimed <=> y.claimed
       /\ Plain(n).intent <=> y.intent
       /\ y.canceling => Plain(n).canceling
  BY <1>6, <1>7, <1>8, PlainFields
<1>12. Plain(n) \in Atomic!Noted(y)
  BY <1>8, <1>9, <1>10, <1>11, NotedFields
<1> QED BY <1>12 DEF n, y

\* reconcile returns at once for an order under review.
LEMMA SkipReconcileShown ==
  ASSUME IInv, ShadowInv, NEW p \in Proc, SkipReconcile(p)  PROVE ShadowInv' /\ Shown
BY EndShadow, Unseen DEF SkipReconcile, db, broker, history

\* A call that met the order open writes that it needs recovery.
LEMMA EscalateShown ==
  ASSUME IInv, ShadowInv, NEW p \in Proc, NEW next \in Pcs,
         Save(p, Move(copy[p], "RECOVERY_REQUIRED"), next), UNCHANGED <<broker, history>>,
         pc[p] \in {"escalate", "cancelSend", "canceling"},
         next \in {"idle", "reconcile", "escalate"}
  PROVE  ShadowInv' /\ Shown
<1>1. copy[p].state \in Working /\ row \in Rows
  BY DEF IInv, TypeOK, CopiesOK, HeldOK
<1>2. "RECOVERY_REQUIRED" \in OrderStates /\ "RECOVERY_REQUIRED" \in Reached \ {"SUBMITTED"}
  BY DEF OrderStates, Reached
<1>3. ASSUME Applies(p), row' = Move(copy[p], "RECOVERY_REQUIRED") PROVE Atomic!Write
  <2>1. Plain(row') \in Atomic!Noted([Plain(row) EXCEPT !.state = "RECOVERY_REQUIRED"])
    BY <1>2, <1>3, MovePlain
  <2>2. row.state \in Atomic!Working
    BY <1>1, <1>3, FreshCopy, WorkingStates
  <2>3. Plain(row).state \in Atomic!Working
    BY <1>1, <2>2, PlainFields
  <2> QED BY <2>1, <2>3, OnlyTheRow DEF Atomic!Write, Atomic!Escalate
<1>4. ShadowLands(p, next)
  BY DEF ShadowLands
<1> QED BY <1>2, <1>3, <1>4, MoveShown

\* So does one that counts the attempt.
LEMMA AttemptShown ==
  ASSUME IInv, ShadowInv, NEW p \in Proc, NEW next \in Pcs,
         Save(p, Pending(copy[p], FALSE), next), UNCHANGED <<broker, history>>,
         pc[p] \in {"escalate", "stillPending"},
         next = "idle"
  PROVE  ShadowInv' /\ Shown
<1> DEFINE new == Pending(copy[p], FALSE)
<1>1. copy[p].state \in Working /\ row \in Rows /\ copy[p] \in Rows
  BY DEF IInv, TypeOK, CopiesOK, HeldOK
<1>2. /\ new \in Rows /\ new.state = "RECOVERY_REQUIRED" /\ new.intent = copy[p].intent
      /\ new.cancelClaim = copy[p].cancelClaim
  BY <1>1, PendingFields
<1>3. new.claim = copy[p].claim
  BY <1>1 DEF Pending, Move, Rows
<1>4. Applies(p) => ShadowWrite(p, new)
  BY <1>1, <1>2, FreshCopy DEF ShadowWrite, ShadowInv, Reached
<1>5. ASSUME Applies(p), row' = new PROVE Atomic!Write
  <2>1. Plain(row) \in Atomic!Rows
    BY <1>1, PlainFields
  <2>2. /\ copy[p].claim = row.claim /\ copy[p].intent = row.intent /\ copy[p].oid = row.oid
        /\ copy[p].filled = row.filled /\ copy[p].retry = row.retry
        /\ row.cancelClaim # NoOne => copy[p].cancelClaim # NoOne
    BY <1>5, FreshCopy
  <2>3. Plain(new) \in Atomic!Noted(Atomic!Pending(Plain(row), FALSE))
    <3>1. /\ copy[p].oid = Plain(row).oid /\ copy[p].filled = Plain(row).filled
          /\ copy[p].retry = Plain(row).retry
      BY <1>1, <2>2, PlainFields
    <3>2. /\ copy[p].claim # NoOne <=> Plain(row).claimed
          /\ copy[p].intent # NoOne <=> Plain(row).intent
          /\ Plain(row).canceling => copy[p].cancelClaim # NoOne
      BY <1>1, <2>2, PlainFields
    <3> QED BY <1>1, <2>1, <3>1, <3>2, PendingPlain
  <2>4. row.state \in Atomic!Working
    BY <1>1, <1>5, FreshCopy, WorkingStates
  <2>5. Plain(row).state \in Atomic!Working
    BY <1>1, <2>4, PlainFields
  <2> QED BY <1>5, <2>3, <2>5, OnlyTheRow DEF Atomic!Write, Atomic!Escalate
<1>6. ShadowLands(p, next)
  BY DEF ShadowLands
<1> QED BY <1>2, <1>3, <1>4, <1>5, <1>6, SaveShown

\* Where reconcile may leave its caller.
LEMMA AfterReconcileShadow ==
  ASSUME NEW p \in Proc, NEW c
  PROVE  ShadowLands(p, AfterReconcile(p, c)) /\ AfterReconcile(p, c) \in Pcs
BY DEF ShadowLands, AfterReconcile, Pcs

\* A failed attempt counts; the list of open orders may have brought the order's id.
LEMMA FailureShown ==
  ASSUME IInv, ShadowInv, NEW p \in Proc, NEW review \in BOOLEAN, NEW next \in Pcs,
         Save(p, Pending(copy[p], review), next), UNCHANGED <<broker, history>>,
         pc[p] \in {"reconcile", "found"}, ~copy[p].manual,
         ShadowLands(p, next)
  PROVE  ShadowInv' /\ Shown
<1>1. /\ copy[p].state = "RECOVERY_REQUIRED"
      /\ copy[p] \in Rows /\ row \in Rows /\ UNCHANGED <<broker, history>>
  BY DEF IInv, TypeOK, CopiesOK, HeldOK
<1> DEFINE c == copy[p]
<1>3. c \in Rows /\ c = copy[p]
  BY <1>1
<1>4. Applies(p) => c.oid \in {row.oid} \cup (IF Taken THEN {TRUE} ELSE {})
  BY <1>1, FreshCopy DEF Rows
<1> HIDE DEF c
<1> DEFINE new == Pending(c, review)
<1>5. /\ new \in Rows /\ new.state = "RECOVERY_REQUIRED" /\ new.intent = copy[p].intent
      /\ new.cancelClaim = copy[p].cancelClaim
  BY <1>3, PendingFields
<1>6. new.claim = copy[p].claim
  BY <1>3 DEF Pending, Move, Rows
<1>7. Applies(p) => ShadowWrite(p, new)
  BY <1>1, <1>5, FreshCopy DEF ShadowWrite, ShadowInv, Reached
<1>8. ASSUME Applies(p), row' = new PROVE Atomic!Write
  <2> DEFINE x == [Plain(row) EXCEPT !.oid = c.oid]
  <2>1. Plain(row) \in Atomic!Rows /\ c.oid \in BOOLEAN
    BY <1>1, <1>3, PlainFields DEF Rows
  <2>2. /\ x \in Atomic!Rows /\ x.claimed = Plain(row).claimed /\ x.intent = Plain(row).intent
        /\ x.oid = c.oid /\ x.filled = Plain(row).filled /\ x.retry = Plain(row).retry
        /\ x.canceling = Plain(row).canceling
    BY <2>1 DEF Atomic!Rows
  <2> HIDE DEF x
  <2>3. /\ c.claim = row.claim /\ c.intent = row.intent
        /\ c.filled = row.filled /\ c.retry = row.retry
        /\ row.cancelClaim # NoOne => c.cancelClaim # NoOne
        /\ row.state = "RECOVERY_REQUIRED" /\ ~row.manual
    BY <1>1, <1>3, <1>8, FreshCopy
  <2>4. Plain(new) \in Atomic!Noted(Atomic!Pending(x, review))
    <3>1. c.filled = x.filled /\ c.retry = x.retry
      BY <1>1, <2>2, <2>3, PlainFields
    <3>2. /\ c.claim # NoOne <=> x.claimed
          /\ c.intent # NoOne <=> x.intent
          /\ x.canceling => c.cancelClaim # NoOne
      BY <1>1, <2>2, <2>3, PlainFields
    <3> QED BY <1>3, <2>2, <3>1, <3>2, PendingPlain
  <2>5. Plain(row).oid = row.oid /\ Plain(row).state = "RECOVERY_REQUIRED" /\ ~Plain(row).manual
    BY <1>1, <2>3, PlainFields
  <2>6. c.oid \in {Plain(row).oid} \cup (IF prov.st \in {"absent", "rejected"} THEN {} ELSE {TRUE})
    BY <1>4, <1>8, <2>5 DEF Taken
  <2>7. Atomic!Reconcilable
    BY <2>5 DEF Atomic!Reconcilable
  <2>8. Atomic!ReconcileFails
    BY <1>8, <2>4, <2>6, <2>7 DEF Atomic!ReconcileFails, x
  <2> QED BY <1>1, <2>8, OnlyTheRow DEF Atomic!Write
<1> QED BY <1>1, <1>3, <1>5, <1>6, <1>7, <1>8, SaveShown

\* So does a look-up that fails.
LEMMA ReconcileFailsShown ==
  ASSUME IInv, ShadowInv, NEW p \in Proc, ReconcileFails(p)  PROVE ShadowInv' /\ Shown
<1>1. PICK review \in BOOLEAN :
        Save(p, Pending(copy[p], review), AfterReconcile(p, Outcome(p, Pending(copy[p], review))))
  BY DEF ReconcileFails
<1>2. pc[p] \in {"reconcile", "found"} /\ ~copy[p].manual /\ UNCHANGED <<broker, history>>
  BY DEF ReconcileFails, Reconcilable
<1> QED BY <1>1, <1>2, FailureShown, AfterReconcileShadow

\* An order in the list of open ones is one the broker took.
LEMMA FindOrderShown ==
  ASSUME IInv, ShadowInv, NEW p \in Proc, FindOrder(p)  PROVE ShadowInv' /\ Shown
<1>1. /\ pc[p] = "reconcile" /\ copy[p].state = "RECOVERY_REQUIRED" /\ copy[p] \in Rows /\ row \in Rows
      /\ TypeOK /\ ShadowOK(p) /\ Taken
      /\ copy' = [copy EXCEPT ![p] = [@ EXCEPT !.oid = TRUE]]
      /\ pc' = [pc EXCEPT ![p] = "found"] /\ UNCHANGED <<row, op, fresh, seen, prov, posts, wire>>
  BY DEF FindOrder, db, broker, history, IInv, TypeOK, CopiesOK, HeldOK, ShadowInv, Taken
<1>2. /\ pc'[p] = "found" /\ op'[p] = op[p]
      /\ copy'[p].state = copy[p].state /\ copy'[p].claim = copy[p].claim
      /\ copy'[p].cancelClaim = copy[p].cancelClaim /\ copy'[p].oid
      /\ copy'[p].filled = copy[p].filled /\ copy'[p].retry = copy[p].retry
  BY <1>1 DEF TypeOK, Rows
<1>3. Onward
  BY <1>1 DEF Onward, Taken
<1>4. ASSUME NEW q \in Proc, q # p PROVE ShadowOK(q)'
  <2>1. pc'[q] = pc[q] /\ copy'[q] = copy[q] /\ seen'[q] = seen[q] /\ op'[q] = op[q]
    BY <1>1, <1>4 DEF TypeOK
  <2> QED BY <1>1, <1>3, <2>1, ShadowStands
<1>5. ShadowOK(p)'
  BY <1>1, <1>2 DEF ShadowOK, Submitting, Reached, Taken
<1>6. ShadowInv'
  BY <1>1, <1>4, <1>5 DEF ShadowInv
<1> QED BY <1>1, <1>6, Unseen

\* What the broker answers is a picture of the order it may have given.
LEMMA LookupShown ==
  ASSUME IInv, ShadowInv, NEW p \in Proc, Lookup(p)  PROVE ShadowInv' /\ Shown
<1>1. /\ pc[p] \in {"reconcile", "found"} /\ copy[p].state = "RECOVERY_REQUIRED" /\ copy[p] \in Rows /\ row \in Rows
      /\ TypeOK /\ ShadowOK(p) /\ prov \in ProviderOrders /\ Qty \in Nat
      /\ pc' = [pc EXCEPT ![p] = "apply"] /\ UNCHANGED <<row, op, fresh, prov, posts, wire>>
  BY QtyAssumption DEF Lookup, db, broker, history, IInv, TypeOK, CopiesOK, HeldOK, ShadowInv
<1>2. PICK s \in Snapshots :
        /\ copy' = [copy EXCEPT ![p] = [@ EXCEPT !.oid = TRUE, !.filled = s.filled,
                                                !.retry = 0, !.manual = FALSE]]
        /\ seen' = [seen EXCEPT ![p] = SnapshotState(s)]
  BY DEF Lookup
<1>3. /\ prov.st # "absent" /\ s.filled \in 0..Qty
      /\ s.st = "open" => s.filled < Qty /\ prov.st # "rejected"
      /\ s.st # "open" => s = prov
  BY <1>1, <1>2 DEF Snapshots, ProviderOrders, IInv, BrokerOK
<1> DEFINE d == [copy[p] EXCEPT !.oid = TRUE, !.filled = s.filled, !.retry = 0, !.manual = FALSE]
<1>4. /\ d.state = copy[p].state /\ d.claim = copy[p].claim /\ d.cancelClaim = copy[p].cancelClaim
      /\ d.filled = s.filled /\ d.retry = 0 /\ d.oid = TRUE
  BY <1>1 DEF Rows
<1> HIDE DEF d
<1>5. pc'[p] = "apply" /\ copy'[p] = d /\ op'[p] = op[p] /\ seen'[p] = SnapshotState(s)
  BY <1>1, <1>2 DEF TypeOK, d
<1>6. Onward
  BY <1>1 DEF Onward, Taken
<1>7. ASSUME NEW q \in Proc, q # p PROVE ShadowOK(q)'
  <2>1. pc'[q] = pc[q] /\ copy'[q] = copy[q] /\ seen'[q] = seen[q] /\ op'[q] = op[q]
    BY <1>1, <1>2, <1>7 DEF TypeOK
  <2> QED BY <1>1, <1>6, <2>1, ShadowStands
<1>8. PictureOK(p)'
  <2>1. CASE s.st = "open" /\ s.filled = 0
    <3>1. seen'[p] = "ACCEPTED"
      BY <1>5, <2>1 DEF SnapshotState
    <3> QED BY <1>1, <1>3, <1>4, <1>5, <2>1, <3>1 DEF PictureOK, Taken
  <2>2. CASE s.st = "open" /\ s.filled # 0
    <3>1. seen'[p] = "PARTIALLY_FILLED" /\ s.filled > 0
      BY <1>3, <1>5, <2>2 DEF SnapshotState
    <3> QED BY <1>1, <1>3, <1>4, <1>5, <2>2, <3>1 DEF PictureOK, Taken
  <2>3. CASE s.st # "open"
    <3>1. s = prov /\ s.st \in {"filled", "canceled", "rejected"}
      BY <1>1, <1>3, <2>3 DEF ProviderOrders
    <3>2. /\ s.st = "canceled" => seen'[p] = "CANCELED"
          /\ s.st # "canceled" => seen'[p] \in {"FILLED", "REJECTED"}
      BY <1>5, <3>1 DEF SnapshotState
    <3> QED BY <1>1, <1>4, <1>5, <3>1, <3>2 DEF PictureOK
  <2> QED BY <2>1, <2>2, <2>3
<1>9. ShadowOK(p)'
  <2>1. copy'[p].state = "RECOVERY_REQUIRED" /\ copy'[p].claim = copy[p].claim
        /\ copy'[p].cancelClaim = copy[p].cancelClaim /\ copy'[p].retry = 0 /\ copy'[p].oid
    BY <1>1, <1>4, <1>5
  <2> QED BY <1>1, <1>5, <1>8, <2>1 DEF ShadowOK, Submitting, Reached
<1>10. ShadowInv'
  BY <1>1, <1>7, <1>9 DEF ShadowInv
<1> QED BY <1>1, <1>10, Unseen

\* What a call holds of the order's fields when it is about to apply them.
Learned(p, s) ==
  /\ s \in Atomic!Pictures
  /\ s.filled = copy[p].filled
  /\ Atomic!PictureState(s) = seen[p]

\* A call that applies a picture holds one.
LEMMA PictureHeld ==
  ASSUME IInv, ShadowInv, NEW p \in Proc, pc[p] = "apply", Applies(p)
  PROVE  \E s : Learned(p, s)
<1>1. /\ HeldOK(p) /\ PictureOK(p) /\ prov \in ProviderOrders /\ row \in Rows /\ copy[p] \in Rows
      /\ Qty \in Nat \ {0} /\ LateFills \in BOOLEAN
      /\ copy[p].filled >= row.filled /\ copy[p].filled <= prov.filled
  BY FreshCopy, QtyAssumption, FlagAssumption DEF IInv, TypeOK, CopiesOK, HeldOK, ShadowInv, ShadowOK
<1>2. /\ Plain(row).filled = row.filled
      /\ copy[p].filled \in Plain(row).filled .. prov.filled
      /\ prov.filled \in Plain(row).filled .. prov.filled
  BY <1>1, PlainFields DEF Rows, ProviderOrders
<1>3. CASE seen[p] = "ACCEPTED"
  <2> DEFINE s == [st |-> "open", filled |-> copy[p].filled]
  <2>1. prov.st \notin {"absent", "rejected"} /\ s.filled = 0 /\ s.filled < Qty /\ s.st = "open"
    BY <1>1, <1>3 DEF PictureOK, Taken
  <2>2. s \in Atomic!Pictures
    BY <1>2, <2>1 DEF Atomic!Pictures
  <2>3. Atomic!PictureState(s) = "ACCEPTED"
    BY <2>1 DEF Atomic!PictureState
  <2> QED BY <1>3, <2>2, <2>3 DEF Learned
<1>4. CASE seen[p] = "PARTIALLY_FILLED"
  <2> DEFINE s == [st |-> "open", filled |-> copy[p].filled]
  <2>1. prov.st \notin {"absent", "rejected"} /\ s.filled > 0 /\ s.filled < Qty /\ s.st = "open"
    BY <1>1, <1>4 DEF PictureOK, Taken, Rows
  <2>2. s \in Atomic!Pictures
    BY <1>2, <2>1 DEF Atomic!Pictures
  <2>3. Atomic!PictureState(s) = "PARTIALLY_FILLED"
    BY <2>1 DEF Atomic!PictureState
  <2> QED BY <1>4, <2>2, <2>3 DEF Learned
<1>5. CASE seen[p] = "CANCELED"
  <2> DEFINE s == [st |-> "canceled", filled |-> copy[p].filled]
  <2>1. /\ prov.st \in {"canceled", "filled"}
        /\ s = prov \/ (LateFills /\ prov.st = "filled" /\ s.filled < Qty)
    BY <1>1, <1>5 DEF PictureOK, ProviderOrders
  <2>2. s \in Atomic!Pictures
    BY <1>2, <2>1 DEF Atomic!Pictures
  <2>3. Atomic!PictureState(s) = "CANCELED"
    BY DEF Atomic!PictureState
  <2> QED BY <1>5, <2>2, <2>3 DEF Learned
<1>6. CASE seen[p] \in {"FILLED", "REJECTED"}
  <2>1. /\ seen[p] = "FILLED" => prov.st = "filled"
        /\ seen[p] = "REJECTED" => prov.st = "rejected"
        /\ copy[p].filled = prov.filled
    BY <1>1, <1>6 DEF HeldOK, IInv, BrokerOK, ProviderOrders, Rows
  <2>2. prov \in Atomic!Pictures
    BY <1>1, <1>2, <1>6, <2>1 DEF Atomic!Pictures, ProviderOrders
  <2>3. Atomic!PictureState(prov) = seen[p]
    BY <1>6, <2>1 DEF Atomic!PictureState
  <2> QED BY <2>1, <2>2, <2>3 DEF Learned
<1> QED BY <1>1, <1>3, <1>4, <1>5, <1>6 DEF HeldOK

\* The row with what a call learned of the order.
LEMMA InformedFields ==
  ASSUME IInv, ShadowInv, NEW p \in Proc, pc[p] \in {"apply", "correct"}, Applies(p), NEW s,
         s.filled = copy[p].filled
  PROVE  LET x == Atomic!Informed(Plain(row), s)
         IN  /\ x \in Atomic!Rows /\ x.state = row.state
             /\ copy[p].claim # NoOne <=> x.claimed
             /\ copy[p].intent # NoOne <=> x.intent
             /\ x.oid = copy[p].oid /\ x.filled = copy[p].filled /\ x.retry = copy[p].retry
             /\ x.manual = FALSE
             /\ x.canceling => copy[p].cancelClaim # NoOne
<1> DEFINE x == Atomic!Informed(Plain(row), s)
<1>1. /\ copy[p] \in Rows /\ row \in Rows /\ copy[p].oid = TRUE /\ copy[p].retry = 0
  BY DEF IInv, TypeOK, ShadowInv, ShadowOK, Rows
<1>2. /\ copy[p].claim = row.claim /\ copy[p].intent = row.intent
      /\ row.cancelClaim # NoOne => copy[p].cancelClaim # NoOne
  BY FreshCopy
<1>3. Plain(row) \in Atomic!Rows /\ s.filled \in 0..Qty
  BY <1>1, PlainFields DEF Rows
<1>4. /\ x \in Atomic!Rows /\ x.state = Plain(row).state /\ x.claimed = Plain(row).claimed
      /\ x.intent = Plain(row).intent /\ x.oid = TRUE /\ x.filled = s.filled /\ x.retry = 0
      /\ x.manual = FALSE /\ x.canceling = Plain(row).canceling
  <2>1. x = [Plain(row) EXCEPT !.oid = TRUE, !.filled = s.filled, !.retry = 0, !.manual = FALSE]
    BY DEF Atomic!Informed
  <2>2. 0 \in 0..Atomic!RetryLimit
    BY DEF Atomic!RetryLimit
  <2> HIDE DEF x
  <2> QED BY <1>3, <2>1, <2>2 DEF Atomic!Rows
<1> HIDE DEF x
<1>5. /\ copy[p].claim # NoOne <=> x.claimed
      /\ copy[p].intent # NoOne <=> x.intent
      /\ x.canceling => copy[p].cancelClaim # NoOne
  BY <1>1, <1>2, <1>4, PlainFields
<1>6. x.state = row.state /\ x.oid = copy[p].oid /\ x.filled = copy[p].filled /\ x.retry = copy[p].retry
  BY <1>1, <1>4, PlainFields
<1> QED BY <1>4, <1>5, <1>6 DEF x

\* A valid snapshot is written, or lost (applySnapshot).
LEMMA ApplySnapshotShown ==
  ASSUME IInv, ShadowInv, NEW p \in Proc, ApplySnapshot(p)  PROVE ShadowInv' /\ Shown
<1> DEFINE new == Move(copy[p], seen[p])
<1>1. /\ pc[p] = "apply" /\ HeldOK(p) /\ copy[p] \in Rows /\ row \in Rows /\ seen[p] \in OrderStates
      /\ copy[p].state = "RECOVERY_REQUIRED" /\ ~copy[p].manual /\ UNCHANGED <<broker, history>>
      /\ Save(p, new, AfterReconcile(p, Outcome(p, new)))
      /\ seen[p] \in {"ACCEPTED", "PARTIALLY_FILLED", "FILLED", "CANCELED", "REJECTED"}
  BY DEF ApplySnapshot, IInv, TypeOK, CopiesOK, HeldOK
<1>2. /\ new \in Rows /\ new.state = seen[p] /\ new.retry = copy[p].retry /\ new.claim = copy[p].claim
      /\ new.intent = copy[p].intent /\ new.oid = copy[p].oid /\ new.filled = copy[p].filled
      /\ new.manual = FALSE /\ new.cancelClaim = copy[p].cancelClaim
  BY <1>1 DEF Move, Rows
<1>3. Applies(p) => ShadowWrite(p, new)
  BY <1>1, <1>2, FreshCopy DEF ShadowWrite, ShadowInv, Reached
<1>4. ASSUME Applies(p), row' = new PROVE Atomic!Write
  <2> HIDE DEF new
  <2>1. PICK s : Learned(p, s)
    BY <1>1, <1>4, PictureHeld
  <2> DEFINE x == Atomic!Informed(Plain(row), s)
             y == [x EXCEPT !.state = seen[p]]
  <2>2. /\ x \in Atomic!Rows
        /\ copy[p].claim # NoOne <=> x.claimed
        /\ copy[p].intent # NoOne <=> x.intent
        /\ x.oid = copy[p].oid /\ x.filled = copy[p].filled /\ x.retry = copy[p].retry
        /\ x.manual = FALSE
        /\ x.canceling => copy[p].cancelClaim # NoOne
    BY <1>1, <1>4, <2>1, InformedFields DEF Learned
  <2> HIDE DEF x
  <2>3. /\ y \in Atomic!Rows /\ y.state = seen[p] /\ y.claimed = x.claimed /\ y.intent = x.intent
        /\ y.oid = x.oid /\ y.filled = x.filled /\ y.retry = x.retry /\ y.manual = x.manual
        /\ y.canceling = x.canceling
    BY <1>1, <2>2, SameStates DEF Atomic!Rows
  <2> HIDE DEF y
  <2>4. Plain(new) \in Atomic!Rows
    BY <1>2, PlainFields
  <2>5. /\ Plain(new).state = y.state /\ Plain(new).oid = y.oid /\ Plain(new).filled = y.filled
        /\ Plain(new).retry = y.retry
    BY <1>2, <2>2, <2>3, PlainFields
  <2>6. /\ Plain(new).claimed <=> y.claimed
        /\ Plain(new).intent <=> y.intent
        /\ Plain(new).manual <=> y.manual
        /\ y.canceling => Plain(new).canceling
    BY <1>2, <2>2, <2>3, PlainFields
  <2>7. Plain(new) \in Atomic!Noted(y)
    BY <2>3, <2>4, <2>5, <2>6, NotedFields
  <2>8. Plain(row).state = "RECOVERY_REQUIRED" /\ ~Plain(row).manual
    BY <1>1, <1>4, FreshCopy, PlainFields
  <2>9. Atomic!Reconcile
    BY <1>4, <2>1, <2>7, <2>8 DEF Atomic!Reconcile, Atomic!Reconcilable, Learned, x, y
  <2> QED BY <1>1, <2>9, OnlyTheRow DEF Atomic!Write
<1> QED BY <1>1, <1>2, <1>3, <1>4, AfterReconcileShadow, SaveShown

\* Or the order is handed to a human with what was learned.
LEMMA ApplyFailsShown ==
  ASSUME IInv, ShadowInv, NEW p \in Proc, ApplyFails(p)  PROVE ShadowInv' /\ Shown
<1> DEFINE new == Pending(copy[p], TRUE)
<1>1. /\ pc[p] = "apply" /\ HeldOK(p) /\ copy[p] \in Rows /\ row \in Rows
      /\ copy[p].state = "RECOVERY_REQUIRED" /\ ~copy[p].manual /\ UNCHANGED <<broker, history>>
      /\ Save(p, new, AfterReconcile(p, Outcome(p, new)))
  BY DEF ApplyFails, IInv, TypeOK, CopiesOK, HeldOK
<1>2. /\ new \in Rows /\ new.state = "RECOVERY_REQUIRED" /\ new.intent = copy[p].intent
      /\ new.cancelClaim = copy[p].cancelClaim
  BY <1>1, PendingFields
<1>3. new.claim = copy[p].claim
  BY <1>1 DEF Pending, Move, Rows
<1>4. Applies(p) => ShadowWrite(p, new)
  BY <1>1, <1>2, FreshCopy DEF ShadowWrite, ShadowInv, Reached
<1>5. ASSUME Applies(p), row' = new PROVE Atomic!Write
  <2>1. PICK s : Learned(p, s)
    BY <1>1, <1>5, PictureHeld
  <2> DEFINE x == Atomic!Informed(Plain(row), s)
  <2>2. /\ x \in Atomic!Rows
        /\ copy[p].claim # NoOne <=> x.claimed
        /\ copy[p].intent # NoOne <=> x.intent
        /\ x.oid = copy[p].oid /\ x.filled = copy[p].filled /\ x.retry = copy[p].retry
        /\ x.canceling => copy[p].cancelClaim # NoOne
    BY <1>1, <1>5, <2>1, InformedFields DEF Learned
  <2> HIDE DEF x
  <2>3. Plain(new) \in Atomic!Noted(Atomic!Pending(x, TRUE))
    BY <1>1, <2>2, PendingPlain
  <2>4. Plain(row).state = "RECOVERY_REQUIRED" /\ ~Plain(row).manual
    BY <1>1, <1>5, FreshCopy, PlainFields
  <2> HIDE DEF new
  <2>5. Atomic!Reconcile
    BY <1>5, <2>1, <2>3, <2>4 DEF Atomic!Reconcile, Atomic!Reconcilable, Learned, x
  <2> QED BY <1>1, <2>5, OnlyTheRow DEF Atomic!Write
<1> QED BY <1>1, <1>2, <1>3, <1>4, <1>5, AfterReconcileShadow, SaveShown

\* A lost fill goes on over the row it was lost to.
LEMMA BeginCorrectionShown ==
  ASSUME IInv, ShadowInv, NEW p \in Proc, BeginCorrection(p)  PROVE ShadowInv' /\ Shown
<1>1. /\ pc[p] = "apply" /\ copy[p].state = "RECOVERY_REQUIRED" /\ copy[p] \in Rows /\ row \in Rows
      /\ TypeOK /\ ShadowOK(p) /\ row.state = "CANCELED"
      /\ pc' = [pc EXCEPT ![p] = "correct"]
      /\ copy' = [copy EXCEPT ![p] = Move(Merge(row, copy[p]), "CANCELED")]
      /\ fresh' = fresh \cup {p} /\ UNCHANGED <<row, op, seen, prov, posts, wire>>
  BY DEF BeginCorrection, FillCorrects, db, broker, history, IInv, TypeOK, CopiesOK, HeldOK, ShadowInv
<1> DEFINE m == Merge(row, copy[p])
           d == Move(m, "CANCELED")
<1>2. /\ m \in Rows /\ m.claim = copy[p].claim /\ m.retry = copy[p].retry /\ m.oid = copy[p].oid
      /\ m.cancelClaim = IF copy[p].cancelClaim = NoOne THEN row.cancelClaim ELSE copy[p].cancelClaim
  BY <1>1, MergeFields
<1> HIDE DEF m
<1>3. /\ d.state = "CANCELED" /\ d.claim = copy[p].claim /\ d.retry = copy[p].retry
      /\ d.oid = copy[p].oid /\ d.cancelClaim = m.cancelClaim
  BY <1>2 DEF Move, Rows
<1>4. pc'[p] = "correct" /\ copy'[p] = d /\ op'[p] = op[p]
  BY <1>1 DEF TypeOK, m
<1> HIDE DEF d
<1>5. Onward
  BY <1>1 DEF Onward, Taken
<1>6. ASSUME NEW q \in Proc, q # p PROVE ShadowOK(q)'
  <2>1. /\ pc'[q] = pc[q] /\ copy'[q] = copy[q] /\ seen'[q] = seen[q] /\ op'[q] = op[q]
        /\ q \in fresh' => q \in fresh
    BY <1>1, <1>6 DEF TypeOK
  <2> QED BY <1>1, <1>5, <2>1, ShadowStands
<1>7. ShadowOK(p)'
  BY <1>1, <1>2, <1>3, <1>4 DEF ShadowOK, Submitting, Reached
<1>8. ShadowInv'
  BY <1>1, <1>6, <1>7 DEF ShadowInv
<1> QED BY <1>1, <1>8, Unseen

\* The correction is written only over the cancelled row it was made from.
LEMMA CorrectFillShown ==
  ASSUME IInv, ShadowInv, NEW p \in Proc, CorrectFill(p)  PROVE ShadowInv' /\ Shown
<1> DEFINE new == Move(copy[p], "FILLED")
<1>1. /\ pc[p] = "correct" /\ HeldOK(p) /\ copy[p] \in Rows /\ row \in Rows /\ Save(p, new, "idle")
      /\ UNCHANGED <<broker, history>> /\ "idle" \in Pcs
      /\ copy[p].state = "CANCELED" /\ prov.st = "filled" /\ copy[p].filled = Qty /\ prov.filled = Qty
      /\ p \in fresh => copy[p].filled > row.filled
  BY DEF CorrectFill, IInv, TypeOK, CopiesOK, HeldOK, BrokerOK, Pcs
<1>2. /\ new \in Rows /\ new.state = "FILLED" /\ new.retry = copy[p].retry /\ new.claim = copy[p].claim
      /\ new.intent = copy[p].intent /\ new.oid = copy[p].oid /\ new.filled = copy[p].filled
      /\ new.manual = copy[p].manual /\ new.cancelClaim = copy[p].cancelClaim
  BY <1>1 DEF Move, Rows, OrderStates
<1> HIDE DEF new
<1>3. Applies(p) => ShadowWrite(p, new)
  BY <1>1, <1>2, FreshCopy DEF ShadowWrite, ShadowInv, Reached
<1>4. ASSUME Applies(p), row' = new PROVE Atomic!Write
  <2> DEFINE x == Atomic!Informed(Plain(row), prov)
             y == [x EXCEPT !.state = "FILLED"]
  <2>1. /\ x \in Atomic!Rows
        /\ copy[p].claim # NoOne <=> x.claimed
        /\ copy[p].intent # NoOne <=> x.intent
        /\ x.oid = copy[p].oid /\ x.filled = copy[p].filled /\ x.retry = copy[p].retry
        /\ x.manual = FALSE
        /\ x.canceling => copy[p].cancelClaim # NoOne
    BY <1>1, <1>4, InformedFields
  <2> HIDE DEF x
  <2>2. /\ y \in Atomic!Rows /\ y.state = "FILLED" /\ y.claimed = x.claimed /\ y.intent = x.intent
        /\ y.oid = x.oid /\ y.filled = x.filled /\ y.retry = x.retry /\ y.manual = x.manual
        /\ y.canceling = x.canceling
    BY <2>1 DEF Atomic!Rows, Atomic!OrderStates
  <2> HIDE DEF y
  <2>3. row.state = "CANCELED" /\ row.manual = copy[p].manual /\ row.filled < Qty
    BY <1>1, <1>4, FreshCopy, QtyAssumption DEF Applies, Rows
  <2>4. copy[p].manual = FALSE
    BY <1>1, <2>3 DEF IInv, RowOK, Rows
  <2>5. Plain(new) \in Atomic!Rows
    BY <1>2, PlainFields
  <2>6. /\ Plain(new).state = y.state /\ Plain(new).oid = y.oid /\ Plain(new).filled = y.filled
        /\ Plain(new).retry = y.retry
    BY <1>2, <2>1, <2>2, PlainFields
  <2>7. /\ Plain(new).claimed <=> y.claimed
        /\ Plain(new).intent <=> y.intent
        /\ Plain(new).manual <=> y.manual
        /\ y.canceling => Plain(new).canceling
    BY <1>2, <2>1, <2>2, <2>4, PlainFields
  <2>8. Plain(new) \in Atomic!Noted(y)
    BY <2>2, <2>5, <2>6, <2>7, NotedFields
  <2>9. Plain(row).state = "CANCELED" /\ Plain(row).filled < Qty
    BY <1>1, <2>3, PlainFields
  <2>10. Atomic!CorrectFill
    BY <1>1, <1>4, <2>8, <2>9 DEF Atomic!CorrectFill, x, y
  <2> QED BY <1>1, <2>10, OnlyTheRow DEF Atomic!Write
<1>5. ShadowLands(p, "idle")
  BY DEF ShadowLands
<1> QED BY <1>1, <1>2, <1>3, <1>4, <1>5, SaveShown

\* The other calls on an open order write what the row's state calls for.
LEMMA EscalateStepShown ==
  ASSUME IInv, ShadowInv, NEW p \in Proc, Escalate(p)  PROVE ShadowInv' /\ Shown
<1> DEFINE new  == Move(copy[p], "RECOVERY_REQUIRED")
           next == IF /\ Outcome(p, new).state = "RECOVERY_REQUIRED"
                      /\ op[p] = "worker" => Applies(p)
                     THEN "reconcile" ELSE "idle"
<1>1. Save(p, new, next) /\ UNCHANGED <<broker, history>> /\ pc[p] = "escalate"
  BY DEF Escalate
<1>2. next \in {"idle", "reconcile", "escalate"} /\ next \in Pcs
  BY DEF Pcs
<1> HIDE DEF next
<1> QED BY <1>1, <1>2, EscalateShown

\* The worker and the scan begin with the row.
LEMMA WorkerClaimShown ==
  ASSUME IInv, ShadowInv, NEW p \in Proc, WorkerClaim(p)  PROVE ShadowInv' /\ Shown
<1> DEFINE next == IF row.state = "RECOVERY_REQUIRED" THEN "reconcile" ELSE "escalate"
<1>1. /\ Begin(p, "worker", row, next) /\ row \in Rows /\ UNCHANGED <<row, prov>>
      /\ UNCHANGED <<row, posts, wire, prov>>
  BY DEF WorkerClaim, broker, history, IInv, TypeOK
<1>2. next \in {"reconcile", "escalate"}
  OBVIOUS
<1> HIDE DEF next
<1>3. next \notin Submitting \cup {"found", "apply", "correct", "cancelIntent", "cancelClaim", "invalidate"}
  BY <1>2 DEF Submitting
<1> QED BY <1>1, <1>3, BeginShadow, Unseen

\* Likewise (recoverOpenOrders).
LEMMA ScanReadShown ==
  ASSUME IInv, ShadowInv, NEW p \in Proc, ScanRead(p)  PROVE ShadowInv' /\ Shown
<1> DEFINE next == IF row.state = "RECOVERY_REQUIRED" THEN "reconcile" ELSE "escalate"
<1>1. /\ Begin(p, "scan", row, next) /\ row \in Rows /\ UNCHANGED <<row, prov>>
      /\ UNCHANGED <<row, posts, wire, prov>>
  BY DEF ScanRead, db, broker, history, IInv, TypeOK
<1>2. next \in {"reconcile", "escalate"}
  OBVIOUS
<1> HIDE DEF next
<1>3. next \notin Submitting \cup {"found", "apply", "correct", "cancelIntent", "cancelClaim", "invalidate"}
  BY <1>2 DEF Submitting
<1> QED BY <1>1, <1>3, BeginShadow, Unseen

\* A failed tick counts as an attempt (recordFailure).
LEMMA RecordFailureShown ==
  ASSUME IInv, ShadowInv, NEW p \in Proc, RecordFailure(p)  PROVE ShadowInv' /\ Shown
<1>1. CASE pc[p] = "escalate"
  BY <1>1, AttemptShown DEF RecordFailure, Pcs
<1>2. CASE pc[p] = "reconcile"
  BY <1>2, FailureShown DEF RecordFailure, Reconcilable, Pcs, ShadowLands
<1> QED BY <1>1, <1>2 DEF RecordFailure

\* An order that still works after its cancel counts as one, too.
LEMMA StillPendingShown ==
  ASSUME IInv, ShadowInv, NEW p \in Proc, StillPending(p)  PROVE ShadowInv' /\ Shown
BY AttemptShown DEF StillPending, Pcs

\* cancel begins with the row and, in memory, a claim.
LEMMA CancelReadShown ==
  ASSUME IInv, ShadowInv, NEW p \in Proc, CancelRead(p)  PROVE ShadowInv' /\ Shown
<1>0. PICK answered \in BOOLEAN :
        IF Open(row) /\ CancelEntry(answered) # "idle"
          THEN Begin(p, "cancel", [row EXCEPT !.cancelClaim = IF @ = NoOne THEN p ELSE @],
                     CancelEntry(answered))
          ELSE End(p)
  BY DEF CancelRead
<1> DEFINE c == [row EXCEPT !.cancelClaim = IF @ = NoOne THEN p ELSE @]
<1>1. row \in Rows /\ UNCHANGED <<row, prov>> /\ UNCHANGED <<row, posts, wire, prov>>
  BY DEF CancelRead, db, broker, history, IInv, TypeOK
<1> DEFINE entry == CancelEntry(answered)
<1>2. CASE Open(row) /\ entry # "idle"
  <2>1. Begin(p, "cancel", c, entry)
    BY <1>0, <1>2
  <2>2. c \in Rows /\ (row.cancelClaim = NoOne => c # row)
    BY <1>1, ProcAssumption DEF Rows
  <2>3. entry \in {"reconcile", "escalate", "cancelIntent", "cancelClaim"}
    BY <1>2 DEF CancelEntry
  <2>4. entry \notin Submitting \cup {"found", "apply", "correct"} /\ entry # "invalidate"
    BY <2>3 DEF Submitting
  <2> QED BY <1>1, <2>1, <2>2, <2>4, BeginShadow, Unseen
<1>3. CASE ~(Open(row) /\ entry # "idle")
  <2>1. End(p)
    BY <1>0, <1>3
  <2> QED BY <1>1, <2>1, EndShadow, Unseen
<1> QED BY <1>2, <1>3

\* Where an order goes that has to be queried first.
LEMMA QueryFirstShadow ==
  ASSUME NEW p \in Proc, NEW c
  PROVE  QueryFirst(c) \in {"idle", "reconcile", "escalate"} /\ QueryFirst(c) \in Pcs
         /\ ShadowLands(p, QueryFirst(c))
BY DEF QueryFirst, Pcs, ShadowLands

\* The cancel of an order in recovery is noted in the row.
LEMMA CancelIntentShown ==
  ASSUME IInv, ShadowInv, NEW p \in Proc, CancelIntent(p)  PROVE ShadowInv' /\ Shown
<1> DEFINE c == Outcome(p, copy[p])
           next == IF c.cancelClaim # p THEN "idle" ELSE QueryFirst(c)
           new == copy[p]
<1>1. /\ pc[p] = "cancelIntent" /\ copy[p].state = "RECOVERY_REQUIRED" /\ copy[p].cancelClaim # NoOne
      /\ new \in Rows /\ row \in Rows /\ Save(p, new, next) /\ UNCHANGED <<broker, history>>
  BY DEF CancelIntent, IInv, TypeOK, CopiesOK, HeldOK, ShadowInv, ShadowOK
<1>2. next \in Pcs /\ ShadowLands(p, next)
  BY QueryFirstShadow DEF Pcs, ShadowLands
<1> HIDE DEF next
<1>3. Applies(p) => ShadowWrite(p, new)
  BY <1>1, FreshCopy DEF ShadowWrite, ShadowInv, Reached
<1>4. ASSUME Applies(p), row' = new PROVE Atomic!Write
  <2> DEFINE y == [Plain(row) EXCEPT !.canceling = TRUE,
                                     !.state = IF @ = "RECOVERY_REQUIRED" THEN @ ELSE "CANCEL_REQUESTED"]
  <2>1. Plain(row) \in Atomic!Rows /\ Plain(new) \in Atomic!Rows
        /\ Plain(row).state = "RECOVERY_REQUIRED"
    BY <1>1, <1>4, FreshCopy, PlainFields
  <2>2. /\ y \in Atomic!Rows /\ y.state = "RECOVERY_REQUIRED" /\ y.canceling = TRUE
        /\ y.claimed = Plain(row).claimed /\ y.intent = Plain(row).intent /\ y.oid = Plain(row).oid
        /\ y.filled = Plain(row).filled /\ y.retry = Plain(row).retry /\ y.manual = Plain(row).manual
    BY <2>1 DEF Atomic!Rows
  <2> HIDE DEF y
  <2>3. /\ new.state = row.state /\ new.claim = row.claim /\ new.intent = row.intent
        /\ new.oid = row.oid /\ new.filled = row.filled /\ new.retry = row.retry
        /\ new.manual = row.manual
    BY <1>1, <1>4, FreshCopy
  <2>4. /\ Plain(new).state = y.state /\ Plain(new).oid = y.oid /\ Plain(new).filled = y.filled
        /\ Plain(new).retry = y.retry /\ Plain(new).manual = y.manual
    BY <1>1, <2>2, <2>3, PlainFields
  <2>5. /\ Plain(new).claimed <=> y.claimed
        /\ Plain(new).intent <=> y.intent
    BY <1>1, <2>2, <2>3, PlainFields
  <2>6. Plain(new).canceling /\ y.canceling
    BY <1>1, <2>2, PlainFields
  <2>7. Plain(new) = y
    BY <2>1, <2>2, <2>4, <2>5, <2>6, SamePlain
  <2> QED BY <1>1, <1>4, <2>1, <2>7, OnlyTheRow DEF Atomic!Write, Atomic!CancelClaim, y
<1> QED BY <1>1, <1>2, <1>3, <1>4, SaveShown

\* The cancel of an order that works is claimed in the row.
LEMMA CancelClaimShown ==
  ASSUME IInv, ShadowInv, NEW p \in Proc, CancelClaim(p)  PROVE ShadowInv' /\ Shown
<1> DEFINE new  == Move(copy[p], "CANCEL_REQUESTED")
           next == IF OwnsCancel(p, Outcome(p, new)) THEN "cancelSend" ELSE "idle"
<1>1. /\ pc[p] = "cancelClaim" /\ copy[p].state \in Working /\ copy[p].cancelClaim # NoOne
      /\ copy[p] \in Rows /\ row \in Rows /\ Save(p, new, next) /\ UNCHANGED <<broker, history>>
  BY DEF CancelClaim, IInv, TypeOK, CopiesOK, HeldOK, ShadowInv, ShadowOK
<1>2. next \in Pcs /\ ShadowLands(p, next)
  BY DEF Pcs, ShadowLands
<1> HIDE DEF next
<1>3. /\ new \in Rows /\ new.state = "CANCEL_REQUESTED" /\ new.retry = copy[p].retry
      /\ new.claim = copy[p].claim /\ new.intent = copy[p].intent /\ new.oid = copy[p].oid
      /\ new.filled = copy[p].filled /\ new.manual = copy[p].manual
      /\ new.cancelClaim = copy[p].cancelClaim
  BY <1>1 DEF Move, Rows, OrderStates
<1> HIDE DEF new
<1>4. ASSUME Applies(p), row' = new PROVE Atomic!Write
  <2> DEFINE y == [Plain(row) EXCEPT !.canceling = TRUE,
                                     !.state = IF @ = "RECOVERY_REQUIRED" THEN @ ELSE "CANCEL_REQUESTED"]
  <2>1. Plain(row) \in Atomic!Rows /\ Plain(new) \in Atomic!Rows
    BY <1>1, <1>3, PlainFields
  <2>2. row.state \in Atomic!Working /\ row.state # "RECOVERY_REQUIRED"
    BY <1>1, <1>4, FreshCopy, WorkingStates DEF Working
  <2>3. Plain(row).state \in Atomic!Working /\ Plain(row).state # "RECOVERY_REQUIRED"
    BY <1>1, <2>2, PlainFields
  <2>4. /\ y \in Atomic!Rows /\ y.state = "CANCEL_REQUESTED" /\ y.canceling = TRUE
        /\ y.claimed = Plain(row).claimed /\ y.intent = Plain(row).intent /\ y.oid = Plain(row).oid
        /\ y.filled = Plain(row).filled /\ y.retry = Plain(row).retry /\ y.manual = Plain(row).manual
    BY <2>1, <2>3 DEF Atomic!Rows, Atomic!OrderStates
  <2> HIDE DEF y
  <2>5. /\ new.claim = row.claim /\ new.intent = row.intent
        /\ new.oid = row.oid /\ new.filled = row.filled /\ new.retry = row.retry
        /\ new.manual = row.manual
    BY <1>1, <1>3, <1>4, FreshCopy
  <2>6. /\ Plain(new).state = y.state /\ Plain(new).oid = y.oid /\ Plain(new).filled = y.filled
        /\ Plain(new).retry = y.retry /\ Plain(new).manual = y.manual
    BY <1>1, <1>3, <2>4, <2>5, PlainFields
  <2>7. /\ Plain(new).claimed <=> y.claimed
        /\ Plain(new).intent <=> y.intent
    BY <1>1, <1>3, <2>4, <2>5, PlainFields
  <2>8. Plain(new).canceling /\ y.canceling
    BY <1>1, <1>3, <2>4, PlainFields
  <2>9. Plain(new) = y
    BY <2>1, <2>4, <2>6, <2>7, <2>8, SamePlain
  <2> QED BY <1>1, <1>4, <2>3, <2>9, OnlyTheRow DEF Atomic!Write, Atomic!CancelClaim, y
<1>5. "CANCEL_REQUESTED" \in Reached \ {"SUBMITTED"}
  BY DEF Reached
<1> QED BY <1>1, <1>2, <1>4, <1>5, MoveShown DEF new

\* A cancel request is sent behind the row's back.
LEMMA SendCancelShown ==
  ASSUME IInv, ShadowInv, NEW p \in Proc, SendCancel(p)  PROVE ShadowInv' /\ Shown
<1>1. /\ pc[p] = "cancelSend" /\ pc' = [pc EXCEPT ![p] = "canceling"]
      /\ UNCHANGED <<row, op, copy, fresh, seen, prov, posts, wire>> /\ TypeOK /\ ShadowOK(p)
  BY DEF SendCancel, db, IInv, ShadowInv
<1>2. Onward
  BY <1>1 DEF Onward, Taken
<1>3. ASSUME NEW q \in Proc, q # p PROVE ShadowOK(q)'
  <2>1. pc'[q] = pc[q]
    BY <1>1, <1>3 DEF TypeOK
  <2> QED BY <1>1, <1>2, <2>1, ShadowStands
<1>4. pc'[p] = "canceling"
  BY <1>1 DEF TypeOK
<1>5. ShadowOK(p)'
  BY <1>1, <1>4 DEF ShadowOK, Submitting
<1>6. ShadowInv'
  BY <1>1, <1>3, <1>5 DEF ShadowInv
<1> QED BY <1>1, <1>6, Unseen

\* A cancel that was, or could not be, sent leaves the order to recovery.
LEMMA CancelToRecoveryShown ==
  ASSUME IInv, ShadowInv, NEW p \in Proc, CancelToRecovery(p)  PROVE ShadowInv' /\ Shown
<1> DEFINE new == Move(copy[p], "RECOVERY_REQUIRED")
<1>1. /\ Save(p, new, QueryFirst(Outcome(p, new))) /\ UNCHANGED <<broker, history>>
      /\ pc[p] \in {"cancelSend", "canceling"}
  BY DEF CancelToRecovery
<1> QED BY <1>1, QueryFirstShadow, EscalateShown

\* The invalidate route begins with the row.
LEMMA InvalidateReadShown ==
  ASSUME IInv, ShadowInv, NEW p \in Proc, InvalidateRead(p)  PROVE ShadowInv' /\ Shown
<1> DEFINE next == IF row.state \in {"ACCEPTED", "PARTIALLY_FILLED"} THEN "invalidate" ELSE "cancelRead"
<1>1. /\ Begin(p, "cancel", row, next) /\ row \in Rows /\ UNCHANGED <<row, prov>>
      /\ UNCHANGED <<row, posts, wire, prov>>
  BY DEF InvalidateRead, db, broker, history, IInv, TypeOK
<1>2. next \in {"invalidate", "cancelRead"}
      /\ (next = "invalidate" => row.state \in {"ACCEPTED", "PARTIALLY_FILLED"})
  OBVIOUS
<1> HIDE DEF next
<1>3. next \notin Submitting \cup {"found", "apply", "correct", "cancelIntent", "cancelClaim"}
  BY <1>2 DEF Submitting
<1> QED BY <1>1, <1>2, <1>3, BeginShadow, Unseen

\* It moves an accepted order without a claim.
LEMMA InvalidateOrderShown ==
  ASSUME IInv, ShadowInv, NEW p \in Proc, InvalidateOrder(p)  PROVE ShadowInv' /\ Shown
<1> DEFINE new  == Move(copy[p], "CANCEL_REQUESTED")
           next == IF Open(Outcome(p, new)) THEN "cancelRead" ELSE "idle"
<1>1. /\ pc[p] = "invalidate" /\ copy[p].state \in {"ACCEPTED", "PARTIALLY_FILLED"}
      /\ row \in Rows /\ Save(p, new, next) /\ UNCHANGED <<broker, history>>
  BY DEF InvalidateOrder, IInv, TypeOK, ShadowInv, ShadowOK
<1>2. next \in Pcs /\ ShadowLands(p, next)
  BY DEF Pcs, ShadowLands
<1> HIDE DEF next
<1>3. "CANCEL_REQUESTED" \in OrderStates /\ "CANCEL_REQUESTED" \in Reached \ {"SUBMITTED"}
  BY DEF OrderStates, Reached
<1>4. ASSUME Applies(p), row' = new PROVE Atomic!Write
  <2>1. Plain(row') = [Plain(row) EXCEPT !.state = "CANCEL_REQUESTED"]
    BY <1>1, <1>3, <1>4, MovePlain
  <2>2. Plain(row).state \in {"ACCEPTED", "PARTIALLY_FILLED"}
    BY <1>1, <1>4, FreshCopy, PlainFields
  <2> QED BY <1>1, <2>1, <2>2, OnlyTheRow DEF Atomic!Write, Atomic!Invalidate
<1> QED BY <1>1, <1>2, <1>3, <1>4, MoveShown

\* A step of the broker or of the clock leaves every copy as it was.
LEMMA OutsideShadow ==
  ASSUME IInv, ShadowInv, UNCHANGED <<row, activity>>, Onward,
         prov'.st = "canceled" => prov'.filled < Qty
  PROVE  ShadowInv'
<1>1. ASSUME NEW q \in Proc PROVE ShadowOK(q)'
  <2>1. pc'[q] = pc[q] /\ copy'[q] = copy[q] /\ seen'[q] = seen[q] /\ op'[q] = op[q]
        /\ (q \in fresh' => q \in fresh /\ row' = row)
    BY DEF activity
  <2> QED BY <2>1, ShadowStands
<1> QED BY <1>1 DEF ShadowInv

\* The order arrives, is refused or is lost.
LEMMA PostArrivesShown ==
  ASSUME IInv, ShadowInv, NEW p \in Proc, PostArrives(p)  PROVE ShadowInv' /\ Shown
<1>1. /\ prov \in ProviderOrders /\ p \in wire /\ wire' = wire \ {p}
      /\ UNCHANGED <<row, activity, posts>> /\ wire = {p} /\ prov.st = "absent"
  BY DEF IInv, TypeOK, BrokerOK, PostArrives, db, history
<1>2. prov' \in {prov} \cup {[prov EXCEPT !.st = st] : st \in {"open", "rejected"}}
  BY DEF PostArrives
<1>3. prov' = prov \/ prov'.st \in {"open", "rejected"}
  BY <1>1, <1>2 DEF ProviderOrders
<1>4. ShadowInv'
  BY <1>1, <1>3, OutsideShadow DEF Onward, Taken
<1>5. (wire # {}) = TRUE /\ (wire' # {}) = FALSE /\ Plain(row') = Plain(row)
  BY <1>1
<1>6. Atomic!PostArrives
  BY <1>1, <1>2, <1>5 DEF Atomic!PostArrives
<1> QED BY <1>4, <1>6 DEF Shown, Atomic!Next

\* The broker ends the order, or fills it after all.
LEMMA ClosesShown ==
  ASSUME IInv, ShadowInv, UNCHANGED <<row, activity, posts, wire>>,
         \/ prov.st = "open" /\ prov' = [prov EXCEPT !.st = "canceled"]
         \/ LateFills /\ prov.st = "canceled" /\ prov' = [st |-> "filled", filled |-> Qty]
  PROVE  ShadowInv' /\ Shown
<1>1. prov \in ProviderOrders /\ (prov.st = "open" => prov.filled < Qty)
  BY DEF IInv, TypeOK, BrokerOK
<1>2. \/ prov.st = "open" /\ prov'.st = "canceled" /\ prov'.filled = prov.filled
      \/ LateFills /\ prov.st = "canceled" /\ prov'.st = "filled"
  BY <1>1 DEF ProviderOrders
<1>3. Onward /\ (prov'.st = "canceled" => prov'.filled < Qty)
  BY <1>1, <1>2 DEF Onward, Taken
<1>4. ShadowInv'
  BY <1>3, OutsideShadow
<1>5. Plain(row') = Plain(row) /\ (wire' # {}) = (wire # {})
  OBVIOUS
<1> QED BY <1>4, <1>5 DEF Shown, Atomic!Next, Atomic!ProviderCloses

\* A cancel request arrives, comes too late or is lost.
LEMMA CancelArrivesShown ==
  ASSUME IInv, ShadowInv, NEW p \in Proc, CancelArrives(p)  PROVE ShadowInv' /\ Shown
<1>1. UNCHANGED <<row, activity, posts, wire>>
  BY DEF CancelArrives, db, history
<1>2. CASE prov' = prov
  <2>1. Onward
    BY <1>1, <1>2 DEF Onward, Taken
  <2>2. ShadowInv'
    BY <1>1, <1>2, <2>1, OutsideShadow DEF ShadowInv
  <2> QED BY <1>1, <1>2, <2>2, Unseen
<1>3. CASE prov' # prov
  <2>1. prov.st = "open" /\ prov' = [prov EXCEPT !.st = "canceled"]
    BY <1>3 DEF CancelArrives
  <2> QED BY <1>1, <2>1, ClosesShown
<1> QED BY <1>2, <1>3

\* The broker fills the order further.
LEMMA ProviderFillsShown ==
  ASSUME IInv, ShadowInv, ProviderFills  PROVE ShadowInv' /\ Shown
<1>1. /\ UNCHANGED <<row, activity, posts, wire>> /\ prov.st = "open"
      /\ prov' = [st |-> IF prov.filled + 1 = Qty THEN "filled" ELSE "open",
                  filled |-> prov.filled + 1]
  BY DEF ProviderFills, db, history
<1>2. Onward /\ prov'.st # "canceled"
  BY <1>1 DEF Onward, Taken
<1>3. ShadowInv'
  BY <1>1, <1>2, OutsideShadow
<1>4. Plain(row') = Plain(row) /\ (wire' # {}) = (wire # {})
  BY <1>1
<1> QED BY <1>1, <1>3, <1>4 DEF Shown, Atomic!Next, Atomic!ProviderFills

\* By itself.
LEMMA ProviderClosesShown ==
  ASSUME IInv, ShadowInv, ProviderCloses  PROVE ShadowInv' /\ Shown
BY ClosesShown DEF ProviderCloses, db, history

\* Leases and crashes do not show.
LEMMA EnvironmentShown ==
  ASSUME IInv, ShadowInv, Environment  PROVE ShadowInv' /\ Shown
<1>1. UNCHANGED <<row, posts, wire, prov>>
  BY DEF Environment, ExecutionLeaseExpires, RecoveryLeaseExpires, Crash, db, broker, history
<1>2. Onward
  BY <1>1 DEF Onward, Taken
<1>3. CASE ExecutionLeaseExpires \/ RecoveryLeaseExpires
  <2>1. UNCHANGED activity
    BY <1>3 DEF ExecutionLeaseExpires, RecoveryLeaseExpires
  <2>2. ShadowInv'
    BY <1>1, <1>2, <2>1, OutsideShadow DEF ShadowInv
  <2> QED BY <1>1, <2>2, Unseen
<1>4. ASSUME NEW p \in Proc, Crash(p)  PROVE ShadowInv' /\ Shown
  <2>1. End(p)
    BY <1>4 DEF Crash
  <2> QED BY <1>1, <2>1, EndShadow, Unseen
<1> QED BY <1>3, <1>4 DEF Environment

\* Every step of the pipeline is one of the atomic order's or does not show.
LEMMA StepShown ==
  ASSUME IInv, ShadowInv, [Next]_vars  PROVE ShadowInv' /\ Shown
<1>1. ASSUME NEW p \in Proc, Execute(p)  PROVE ShadowInv' /\ Shown
  BY <1>1, ExecuteReadShown, RefuseShown, ClaimOrderExecutionShown, BeginSubmissionIntentShown,
     PostOrderShown, PostAnsweredShown, RecordAcceptedShown, ExecuteFailsShown DEF Execute
<1>2. ASSUME NEW p \in Proc, Reconcile(p)  PROVE ShadowInv' /\ Shown
  BY <1>2, EscalateStepShown, SkipReconcileShown, ReconcileFailsShown, FindOrderShown, LookupShown,
     ApplySnapshotShown, BeginCorrectionShown, CorrectFillShown, ApplyFailsShown DEF Reconcile
<1>3. ASSUME NEW p \in Proc, Recover(p)  PROVE ShadowInv' /\ Shown
  BY <1>3, WorkerClaimShown, RecordFailureShown, ScanReadShown DEF Recover
<1>4. ASSUME NEW p \in Proc, Cancel(p)  PROVE ShadowInv' /\ Shown
  BY <1>4, CancelReadShown, CancelIntentShown, CancelClaimShown, SendCancelShown,
     CancelToRecoveryShown, StillPendingShown, InvalidateReadShown, InvalidateOrderShown DEF Cancel
<1>5. CASE Broker
  BY <1>5, PostArrivesShown, CancelArrivesShown, ProviderFillsShown, ProviderClosesShown DEF Broker
<1>6. CASE Environment
  BY <1>6, EnvironmentShown
<1>7. CASE UNCHANGED vars
  <2>1. UNCHANGED <<row, activity, posts, wire, prov>>
    BY <1>7 DEF vars, db, broker, history
  <2>2. Onward
    BY <2>1 DEF Onward, Taken
  <2>3. ShadowInv'
    BY <2>1, <2>2, OutsideShadow DEF ShadowInv
  <2> QED BY <2>1, <2>3, Unseen
<1> QED BY <1>1, <1>2, <1>3, <1>4, <1>5, <1>6, <1>7 DEF Next

\* The order is inserted as the atomic order is.
LEMMA InitShown == Init => Atomic!Init
<1> SUFFICES ASSUME Init PROVE Atomic!Init
  OBVIOUS
<1>1. /\ (NewOrder.claim # NoOne) = FALSE /\ (NewOrder.intent # NoOne) = FALSE
      /\ (NewOrder.cancelClaim # NoOne) = FALSE
  BY DEF NewOrder
<1>2. Plain(row) = [ state |-> "SUBMITTED", claimed |-> FALSE, intent |-> FALSE, oid |-> FALSE,
                     filled |-> 0, retry |-> 0, manual |-> FALSE, canceling |-> FALSE ]
  BY <1>1 DEF Init, Plain, NewOrder
<1>3. (wire # {}) = FALSE
  BY DEF Init
<1> QED BY <1>2, <1>3 DEF Init, Atomic!Init

\* WritesAreAtomic: every behaviour of the pipeline, whatever interleaves, is
\* one of an order that each call reads, decides and writes in one step.
THEOREM Linearizes == Spec => WritesAreAtomic
<1>1. Init => ShadowInv /\ Atomic!Init
  BY InitShadow, InitShown
<1>2. IInv /\ ShadowInv /\ [Next]_vars => ShadowInv' /\ [Atomic!Next]_(Atomic!vars)
  BY StepShown DEF Shown
<1> QED BY <1>1, <1>2, Invariance, PTL DEF Spec, WritesAreAtomic, Atomic!Spec

-----------------------------------------------------------------------------
(* What AtomicOrderProofs proves of the atomic order holds of this one.    *)

Proved == INSTANCE AtomicOrderProofs WITH row <- Plain(row), wire <- wire # {}

\* Proved is about the order of WritesAreAtomic.
LEMMA SameAtomic == Atomic!Spec <=> Proved!Spec
<1>1. Atomic!Init <=> Proved!Init
  BY DEF Atomic!Init, Proved!Init
<1>2. [Atomic!Next]_Atomic!vars <=> [Proved!Next]_Proved!vars
  BY DEF Atomic!Noted, Proved!Noted, Atomic!Bump, Proved!Bump, Atomic!Pending, Proved!Pending,
         Atomic!Pictures, Proved!Pictures, Atomic!PictureState, Proved!PictureState,
         Atomic!Informed, Proved!Informed, Atomic!Refuse, Proved!Refuse, Atomic!Claim,
         Proved!Claim, Atomic!RecordIntent, Proved!RecordIntent, Atomic!Acknowledge,
         Proved!Acknowledge, Atomic!SubmissionFails, Proved!SubmissionFails, Atomic!Escalate,
         Proved!Escalate, Atomic!Reconcilable, Proved!Reconcilable, Atomic!ReconcileFails,
         Proved!ReconcileFails, Atomic!Reconcile, Proved!Reconcile, Atomic!CorrectFill,
         Proved!CorrectFill, Atomic!CancelClaim, Proved!CancelClaim, Atomic!Invalidate,
         Proved!Invalidate, Atomic!Write, Proved!Write, Atomic!Post, Proved!Post,
         Atomic!PostArrives, Proved!PostArrives, Atomic!ProviderFills, Proved!ProviderFills,
         Atomic!ProviderCloses, Proved!ProviderCloses, Atomic!Next, Proved!Next, Atomic!vars,
         Proved!vars, Atomic!Working, Proved!Working, Atomic!RetryLimit, Proved!RetryLimit
<1> QED BY <1>1, <1>2, PTL DEF Atomic!Spec, Proved!Spec

\* StatesFollowTable: whoever writes, the row's state moves as the table of
\* transitions says, but for a fill the broker booked on a cancelled order.
THEOREM OrderFollowsTable == Spec => StatesFollowTable
<1>1. Proved!Spec => Proved!StatesFollowTable
  BY QtyAssumption, Proved!FollowsTable DEF Proved!QtyOK
<1>2. [Proved!TableStep]_(Plain(row)) => [TableStep]_vars
  <2>1. Plain(row).state = row.state /\ Plain(row)'.state = row'.state
        /\ Plain(row).filled = row.filled /\ Plain(row)'.filled = row'.filled
    BY DEF Plain
  <2> QED BY <2>1 DEF TableStep, Proved!TableStep, canTransitionOrder, Proved!canTransitionOrder,
             TRANSITIONS, Proved!TRANSITIONS
<1>3. Proved!StatesFollowTable => StatesFollowTable
  BY <1>2, PTL DEF StatesFollowTable, Proved!StatesFollowTable
<1> QED BY <1>1, <1>3, Linearizes, SameAtomic, PTL DEF WritesAreAtomic

\* As long as the broker books no fill after it reported a cancel, the order is
\* one LiveBudget counts on.
THEOREM OrderServesBudget == ASSUME ~LateFills PROVE Spec => Proved!ServesBudget
<1>1. Proved!Spec => Proved!ServesBudget
  BY QtyAssumption, Proved!Serves DEF Proved!QtyOK
<1> QED BY <1>1, Linearizes, SameAtomic, PTL DEF WritesAreAtomic

\* As long as the broker refuses the order at no time and books no fill after it
\* reported a cancel, what the activities write while an amend runs is what
\* OrderAmendment lets them write.
THEOREM OrderServesAmendment == ASSUME ~LateFills PROVE Spec => Proved!ServesAmendment
<1>1. Proved!Spec => Proved!ServesAmendment
  BY QtyAssumption, Proved!ServesAmend DEF Proved!QtyOK
<1> QED BY <1>1, Linearizes, SameAtomic, PTL DEF WritesAreAtomic
=============================================================================
