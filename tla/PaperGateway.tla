---------------------------- MODULE PaperGateway ----------------------------
(***************************************************************************)
(* The paper order gateway (trade-execution-gateway): orders in memory, a  *)
(* state file that outlives the process, and the capital that admits new   *)
(* entries (gateway.mjs, paper-state-store.mjs,                            *)
(* capital-managed-paper-gateway.mjs, paper-capital-manager.mjs).          *)
(*                                                                         *)
(* A call runs to its next `await' undisturbed, changes memory first, and  *)
(* then waits for a snapshot of memory to be saved.  Snapshots are written *)
(* one after another; entries and settlements wait for each other, fills   *)
(* and cancels for nobody.  A restart rebuilds memory from the two files.  *)
(*                                                                         *)
(* Abstractions.                                                           *)
(*  - A key is an idempotency key with the one LIMIT order made under it,  *)
(*    of `Lots' lots at `Price' won each, its worst fill; every entry is   *)
(*    valued in won and the admission gate is on.  Refused calls and plain *)
(*    reads change nothing and are left out, as is the protection gate in  *)
(*    front of placeOrder, which only refuses.                             *)
(*  - What a call does when its save ends belongs to the save: nothing     *)
(*    else can run in between.                                             *)
(*  - A save may fail, or be interrupted by a crash, before or after the   *)
(*    file is replaced.                                                    *)
(***************************************************************************)
EXTENDS Naturals, Sequences, FiniteSets, FiniteSetsExt, SequencesExt

CONSTANTS
  Keys, Entries,   \* idempotency keys; those of orders that increase exposure
  Calls,           \* calls under way at a time
  NoKey,           \* of an idle call
  Lots, Price,     \* what an order is for
  Equities,        \* account equities a settlement may report
  InitialLimit,    \* initialCapitalLimitKrw
  MaxSteps,        \* maxReserveStepsPerSettlement
  Ahead,           \* how far a settlement may be dated ahead of the clock
  MaxTime, MaxSettlements, MaxFaults

ASSUME KeysAssumption == IsFiniteSet(Keys) /\ Entries \subseteq Keys /\ NoKey \notin Keys
ASSUME SizesAssumption == Lots \in Nat \ {0} /\ Price \in [Keys -> Nat \ {0}]
ASSUME CapitalAssumption == InitialLimit \in Nat \ {0} /\ Equities \subseteq Nat
ASSUME BoundsAssumption == {MaxSteps, Ahead, MaxTime, MaxSettlements, MaxFaults} \subseteq Nat

VARIABLES
  orders, file,    \* #orders with #idempotency, and the state file
  writes,          \* #writeQueue: snapshots to be saved, each for a call
  capital,         \* the capital manager's #state
  credited,        \* ... as it was before a settlement that is being saved
  capitalFile,
  settled,         \* #settledOrderIds
  now,
  pc, job, copy,   \* where a call is, its key, the order it holds across an await
  \* history
  submitted,       \* orders the adapter was given, per key
  told,            \* what callers were answered that a save has confirmed
  recalled,        \* what they were answered from memory that none has yet
  unsaved,         \* the last save failed
  overlapped,      \* a fill met a cancel of its order under way
  early,           \* a settlement covered more than the disk or the clock knew
  faults
store   == <<orders, file, writes>>
wallet  == <<capital, credited, capitalFile, settled>>
calls   == <<pc, job, copy>>
history == <<submitted, told, recalled, unsaved, overlapped, early, faults>>
vars == <<store, wallet, now, calls, history>>

Nonterminal == {"CREATED", "RISK_ACCEPTED", "SUBMITTED", "ACCEPTED", "PARTIALLY_FILLED"}
Fillable == {"ACCEPTED", "PARTIALLY_FILLED"}
Statuses == {"NONE", "RISK_ACCEPTED", "ACCEPTED", "PARTIALLY_FILLED", "FILLED", "CANCELED", "REJECTED"}
Order == [status : Statuses, filled : 0 .. Lots, recoveryHold : BOOLEAN, createdAt : 0 .. MaxTime]
NoOrder == [status |-> "NONE", filled |-> 0, recoveryHold |-> FALSE, createdAt |-> 0]
Books == [Keys -> Order]
Placed(book) == {k \in Keys : book[k].status # "NONE"}

\* `active' is managedActiveEquityKrw; `covers' are the orders its last settlement
\* found, and `peak' is history: the largest equity settled.
Capital == [ initialized : BOOLEAN, base : Nat, reserve : Nat, excluded : Nat, active : Nat,
             effective : Nat, sequence : Nat, observedAt : Nat, covers : SUBSET Keys, peak : Nat ]
NoCapital == [ initialized |-> FALSE, base |-> 0, reserve |-> 0, excluded |-> 0, active |-> 0,
               effective |-> 0, sequence |-> 0, observedAt |-> 0, covers |-> {}, peak |-> 0 ]

\* What an answer says of an order: the adapter has had it, it is canceled, its fills.
News == [placed : BOOLEAN, canceled : BOOLEAN, filled : 0 .. Lots]
NoNews == [placed |-> FALSE, canceled |-> FALSE, filled |-> 0]
Says(o) == [placed |-> o.status \notin {"NONE", "RISK_ACCEPTED"},
            canceled |-> o.status = "CANCELED", filled |-> o.filled]
Both(x, y) == [placed |-> x.placed \/ y.placed, canceled |-> x.canceled \/ y.canceled,
               filled |-> IF y.filled > x.filled THEN y.filled ELSE x.filled]

PCs == {"idle", "creating", "accepting", "rejecting", "filling", "atAdapter", "cancelling", "seeding", "settling"}

TypeOK ==
  /\ orders \in Books /\ file \in Books
  /\ writes \in Seq([snapshot : Books, by : Calls])
  /\ capital \in Capital /\ credited \in Capital /\ capitalFile \in Capital
  /\ settled \subseteq Keys /\ now \in 0 .. MaxTime
  /\ pc \in [Calls -> PCs] /\ job \in [Calls -> Keys \cup {NoKey}] /\ copy \in [Calls -> Order]
  /\ submitted \in [Keys -> Nat]
  /\ told \in [Keys -> News] /\ recalled \in [Keys -> News]
  /\ unsaved \in BOOLEAN /\ overlapped \in BOOLEAN /\ early \in BOOLEAN /\ faults \in 0 .. MaxFaults
  /\ \A k \in Keys : orders[k].status = "FILLED" <=> orders[k].filled = Lots

Init ==
  /\ orders = [k \in Keys |-> NoOrder] /\ file = orders /\ writes = <<>>
  /\ capital = NoCapital /\ credited = NoCapital /\ capitalFile = NoCapital
  /\ settled = {} /\ now = 0
  /\ pc = [p \in Calls |-> "idle"] /\ job = [p \in Calls |-> NoKey] /\ copy = [p \in Calls |-> NoOrder]
  /\ submitted = [k \in Keys |-> 0]
  /\ told = [k \in Keys |-> NoNews] /\ recalled = told /\ unsaved = FALSE
  /\ overlapped = FALSE /\ early = FALSE /\ faults = 0

-----------------------------------------------------------------------------
(* Calls and saves.                                                        *)

Starts(p, k, step) ==
  /\ pc[p] = "idle"
  /\ pc' = [pc EXCEPT ![p] = step] /\ job' = [job EXCEPT ![p] = k]
Goto(p, step) == pc' = [pc EXCEPT ![p] = step]
Ends(p) ==
  /\ pc' = [pc EXCEPT ![p] = "idle"] /\ job' = [job EXCEPT ![p] = NoKey]
  /\ copy' = [copy EXCEPT ![p] = NoOrder]

\* Memory changes at once; the snapshot is what it was when the save was asked for.
Persist(p, queue, book) ==
  /\ orders' = book
  /\ writes' = Append(queue, [snapshot |-> book, by |-> p])

\* Mutant of InEntryQueue: settlements do not wait.
EntriesOnly(p) == pc[p] \in {"creating", "accepting", "rejecting"} /\ job[p] \in Entries
\* #entryQueue: one entry, settlement or wallet at a time.
InEntryQueue(p) ==
  \/ pc[p] \in {"creating", "accepting", "rejecting"} /\ job[p] \in Entries
  \/ pc[p] \in {"seeding", "settling"}
QueueFree == \A p \in Calls : ~InEntryQueue(p)

-----------------------------------------------------------------------------
(* Admission.                                                              *)

committedOrderNotional(k) ==
  CASE orders[k].status \in {"NONE", "REJECTED"} -> 0
    [] orders[k].status = "CANCELED" -> orders[k].filled * Price[k]
    [] OTHER -> Lots * Price[k]

\* The won that orders come to: one pair for each, so the number of pairs is a sum.
Units(notional, S) == UNION {{k} \X (1 .. notional[k]) : k \in S}
Won(notional, S) == Cardinality(Units(notional, S))

committed == [k \in Keys |-> committedOrderNotional(k)]
CommittedExposure == Won(committed, Entries \ settled)

\* assessAdmission
Admits(k) ==
  /\ capital.initialized /\ capital.sequence > 0
  /\ CommittedExposure + Lots * Price[k] <= capital.effective

-----------------------------------------------------------------------------
(* Orders.                                                                 *)

\* What the calls about orders leave alone, up to their saves.
Others == <<wallet, now, faults>>
Beginning == <<submitted, told, recalled, unsaved, early, Others>>

\* placeOrder under a new key; an entry when its turn in the queue has come.
PlaceOrder(p, k) ==
  /\ Starts(p, k, "creating") /\ orders[k].status = "NONE"
  /\ k \in Entries => QueueFree /\ Admits(k)
  /\ Persist(p, writes, [orders EXCEPT ![k] =
       [status |-> "RISK_ACCEPTED", filled |-> 0, recoveryHold |-> FALSE, createdAt |-> now]])
  /\ UNCHANGED <<file, copy, overlapped, Beginning>>

\* Mutant of Remaining: fills are not measured against what is left.
AnyFill(k) == Lots
Remaining(k) == Lots - orders[k].filled

\* applyPaperFill
ApplyPaperFill(p, k) ==
  /\ Starts(p, k, "filling")
  /\ orders[k].status \in Fillable /\ ~orders[k].recoveryHold
  /\ \E n \in 1 .. Remaining(k) :
       LET filled == orders[k].filled + n IN
       Persist(p, writes, [orders EXCEPT
         ![k].filled = filled,
         ![k].status = IF filled = Lots THEN "FILLED" ELSE "PARTIALLY_FILLED"])
  /\ overlapped' = (overlapped \/ \E q \in Calls : pc[q] = "atAdapter" /\ job[q] = k)
  /\ UNCHANGED <<file, copy, Beginning>>

\* cancelOrder up to the adapter, which cancels whatever it has (fills are not its
\* business), and from there: the order that was read is written back.
CancelOrder(p, k) ==
  /\ Starts(p, k, "atAdapter")
  /\ orders[k].status \in Fillable /\ ~orders[k].recoveryHold
  /\ copy' = [copy EXCEPT ![p] = orders[k]]
  /\ UNCHANGED <<store, overlapped, Beginning>>

\* Mutant of CancelAnswered: the canceled order is not saved.
CanceledInMemory(p) ==
  /\ pc[p] = "atAdapter" /\ Ends(p)
  /\ orders' = [orders EXCEPT ![job[p]] = [copy[p] EXCEPT !.status = "CANCELED"]]
  /\ UNCHANGED <<file, writes, overlapped, Beginning>>
CancelAnswered(p) ==
  /\ pc[p] = "atAdapter" /\ Goto(p, "cancelling")
  /\ Persist(p, writes, [orders EXCEPT ![job[p]] = [copy[p] EXCEPT !.status = "CANCELED"]])
  /\ copy' = [copy EXCEPT ![p] = NoOrder]
  /\ UNCHANGED <<file, job, overlapped, Beginning>>

\* Answered from memory at once, whatever became of the save: memory is on disk if
\* the last save succeeded and none is queued, and otherwise may yet be lost.
AllSaved == writes = <<>> /\ ~unsaved
AnswerFromMemory(k) ==
  LET heard(news) == [news EXCEPT ![k] = Both(@, Says(orders[k]))] IN
  /\ IF AllSaved THEN told' = heard(told) /\ UNCHANGED recalled
                 ELSE recalled' = heard(recalled) /\ UNCHANGED told
  /\ UNCHANGED <<store, calls, submitted, unsaved, overlapped, early, Others>>

\* placeOrder under a known key, which an entry too is admitted for first; and
\* cancelOrder of an order that is canceled.
PlaceRepeated(k) ==
  /\ orders[k].status # "NONE"
  /\ k \in Entries => QueueFree /\ Admits(k)
  /\ AnswerFromMemory(k)
CancelRepeated(k) ==
  /\ orders[k].status = "CANCELED" /\ ~orders[k].recoveryHold
  /\ AnswerFromMemory(k)

-----------------------------------------------------------------------------
(* Saves of the orders.                                                    *)

\* Mutant of NextWrites: saves overtake each other.
AnyWrite == DOMAIN writes
\* save: one after another, in the order asked for.
NextWrites == DOMAIN writes \cap {1}

\* What a save under way may have left on disk.
OnDisk == {file} \cup {writes[i].snapshot : i \in NextWrites}

\* The order is durable: it is given to the adapter, which takes it or throws.
Submit(p, rest) ==
  /\ pc[p] = "creating"
  /\ submitted' = [submitted EXCEPT ![job[p]] = @ + 1]
  /\ \/ Persist(p, rest, [orders EXCEPT ![job[p]].status = "ACCEPTED"]) /\ Goto(p, "accepting")
     \/ Persist(p, rest, [orders EXCEPT ![job[p]].status = "REJECTED"]) /\ Goto(p, "rejecting")
  /\ UNCHANGED <<job, copy, told, recalled>>

\* The change is durable: its caller is told, or gets the adapter's error.  With the
\* last save of the queue, so is all that was answered from memory.
Answer(p, rest, book) ==
  /\ pc[p] \in {"accepting", "rejecting", "filling", "cancelling"}
  /\ LET done == [ placed   |-> pc[p] # "rejecting",
                   canceled |-> pc[p] = "cancelling",
                   filled   |-> IF pc[p] = "filling" THEN book[job[p]].filled ELSE 0 ]
         heard == [told EXCEPT ![job[p]] = Both(@, done)]
     IN  IF rest = <<>>
           THEN /\ told' = [k \in Keys |-> Both(heard[k], recalled[k])]
                /\ recalled' = [k \in Keys |-> NoNews]
           ELSE told' = heard /\ UNCHANGED recalled
  /\ Ends(p) /\ writes' = rest
  /\ UNCHANGED <<orders, submitted>>

SaveNow ==
  \E i \in NextWrites :
    LET w == writes[i]  rest == RemoveAt(writes, i) IN
    /\ file' = w.snapshot /\ unsaved' = FALSE
    /\ Submit(w.by, rest) \/ Answer(w.by, rest, w.snapshot)
    /\ UNCHANGED <<overlapped, early, Others>>

\* PAPER_STATE_PERSIST_FAILED: the caller gets the error, memory stays changed.
SaveFails ==
  /\ faults < MaxFaults /\ faults' = faults + 1
  /\ file' \in OnDisk /\ unsaved' = TRUE
  /\ \E i \in NextWrites : writes' = RemoveAt(writes, i) /\ Ends(writes[i].by)
  /\ UNCHANGED <<orders, wallet, now, submitted, told, recalled, overlapped, early>>

-----------------------------------------------------------------------------
(* Capital.                                                                *)

CeilBps(x, bps) == (x * bps + 9999) \div 10000
FloorBps(x, bps) == (x * bps) \div 10000
nextTrigger(base) == base + CeilBps(base, 1000)

\* One reserve milestone, and as many as an equity crosses.
Milestone(c) == c.active >= nextTrigger(c.base) /\ FloorBps(c.base, 500) >= 1
Reserve(c) ==
  LET r == FloorBps(c.base, 500) IN
  [c EXCEPT !.reserve = @ + r, !.active = @ - r, !.base = @ + r]
AfterMilestones(c) ==
  LET step[n \in 0 .. MaxSteps] ==
        IF n = 0 THEN c ELSE LET s == step[n - 1] IN IF Milestone(s) THEN Reserve(s) ELSE s
  IN  step[MaxSteps]

\* The capital an equity leaves at work: what a first settlement has above the limit
\* is excluded for good, later ones lose what is excluded or reserved.
FirstAtWork(c, e) ==
  LET base == Min({InitialLimit, e}) IN
  [c EXCEPT !.initialized = e > 0, !.base = base, !.active = base, !.excluded = e - base]
LaterAtWork(c, e) == [c EXCEPT !.active = e - (c.reserve + c.excluded)]
\* Mutant of AtWork: after a loss, profit is measured from what is left.
Rebased(c, e) ==
  IF ~c.initialized THEN FirstAtWork(c, e)
  ELSE LET s == LaterAtWork(c, e) IN [s EXCEPT !.base = Min({@, s.active})]
AtWork(c, e) == IF c.initialized THEN LaterAtWork(c, e) ELSE FirstAtWork(c, e)

\* applySettlement: the state after a settlement of equity e observed at t.
Settlement(c, e, t) ==
  LET s == AfterMilestones(AtWork(c, e)) IN
  [s EXCEPT !.effective = Min({s.base, s.active}), !.sequence = @ + 1, !.observedAt = t,
            !.covers = Placed(orders), !.peak = Max({@, e})]

Adopts(p, c) ==
  /\ QueueFree /\ Starts(p, NoKey, IF c.sequence = 0 THEN "seeding" ELSE "settling")
  /\ capital' = c
  /\ UNCHANGED <<store, credited, capitalFile, settled, now, copy,
                submitted, told, recalled, unsaved, overlapped, faults>>

\* applyCapitalSettlement, with flat evidence: no entry is open, every order is older.
\* The next sequence number stands for any larger one.
ApplyCapitalSettlement(p) ==
  /\ capital.sequence < MaxSettlements
  /\ \A k \in Entries : orders[k].status \notin Nonterminal
  /\ \E e \in Equities, t \in capital.observedAt .. now + Ahead :
       /\ \A k \in Placed(orders) : orders[k].createdAt <= t
       /\ capital.initialized => e >= capital.reserve + capital.excluded
       /\ ~Milestone(AfterMilestones(AtWork(capital, e)))
       /\ Adopts(p, Settlement(capital, e, t))
       /\ early' = (early \/ t > now \/ \E k \in Entries : orders[k] # file[k])

\* initializeVirtualPaperWallet
InitializeWallet(p) ==
  /\ ~capital.initialized /\ Placed(orders) = {}
  /\ Adopts(p, [NoCapital EXCEPT !.initialized = TRUE, !.base = InitialLimit, !.active = InitialLimit,
                                 !.effective = InitialLimit, !.peak = InitialLimit])
  /\ UNCHANGED early

\* The capital is durable: it counts, and what it found is settled.
CapitalSaved(p) ==
  /\ pc[p] \in {"seeding", "settling"} /\ Ends(p)
  /\ capitalFile' = capital /\ credited' = capital
  /\ settled' = IF pc[p] = "settling" THEN capital.covers ELSE settled
  /\ UNCHANGED <<store, capital, now, history>>

CapitalOnDisk ==
  IF \E p \in Calls : pc[p] \in {"seeding", "settling"} THEN {capitalFile, capital} ELSE {capitalFile}

\* Mutant of RolledBack: a settlement counts although its save failed.
Kept == capital
RolledBack == credited

CapitalSaveFails(p) ==
  /\ faults < MaxFaults /\ faults' = faults + 1
  /\ pc[p] \in {"seeding", "settling"} /\ Ends(p)
  /\ capitalFile' \in CapitalOnDisk /\ capital' = RolledBack
  /\ UNCHANGED <<store, credited, settled, now, submitted, told, recalled, unsaved, overlapped, early>>

-----------------------------------------------------------------------------
(* A restart, after a crash at any point or a shutdown.  It takes back what *)
(* was answered from memory and not confirmed by a save.                   *)

\* Mutant of safeRestoredOrder: an interrupted order is forgotten.
OnlySubmitted(o) == IF o.status = "RISK_ACCEPTED" THEN NoOrder ELSE o
\* restorePaperState: an order that may have been interrupted before its adapter
\* answered is held.
safeRestoredOrder(o) == [o EXCEPT !.recoveryHold = @ \/ o.status = "RISK_ACCEPTED"]

\* Mutant of CoveredAfterRestart: an order of the same millisecond counts as covered.
CoveredUpTo(o, t) == o.createdAt <= t
CoveredAfterRestart(o, t) == o.createdAt < t
seedSettledOrderIdsAfterRestart(book, c) ==
  IF c.sequence = 0 THEN {}
  ELSE {k \in Placed(book) : CoveredAfterRestart(book[k], c.observedAt)}

Restart ==
  /\ faults < MaxFaults /\ faults' = faults + 1
  /\ file' \in OnDisk /\ capitalFile' \in CapitalOnDisk
  /\ orders' = [k \in Keys |-> safeRestoredOrder(file'[k])] /\ writes' = <<>>
  /\ capital' = capitalFile' /\ credited' = capitalFile'
  /\ settled' = seedSettledOrderIdsAfterRestart(file', capitalFile')
  /\ pc' = [p \in Calls |-> "idle"] /\ job' = [p \in Calls |-> NoKey]
  /\ copy' = [p \in Calls |-> NoOrder]
  /\ recalled' = [k \in Keys |-> NoNews] /\ unsaved' = FALSE
  /\ UNCHANGED <<now, submitted, told, overlapped, early>>

Tick == now < MaxTime /\ now' = now + 1 /\ UNCHANGED <<store, wallet, calls, history>>

Next ==
  \/ \E p \in Calls, k \in Keys : PlaceOrder(p, k) \/ ApplyPaperFill(p, k) \/ CancelOrder(p, k)
  \/ \E p \in Calls : \/ CancelAnswered(p)
                      \/ ApplyCapitalSettlement(p) \/ InitializeWallet(p)
                      \/ CapitalSaved(p) \/ CapitalSaveFails(p)
  \/ \E k \in Keys : PlaceRepeated(k) \/ CancelRepeated(k)
  \/ SaveNow \/ SaveFails \/ Restart \/ Tick

Spec == Init /\ [][Next]_vars

-----------------------------------------------------------------------------
(* Safety.                                                                 *)

\* An order is given to the adapter once, whatever is retried, fails to be saved or
\* is interrupted by a restart ("automatic resubmissions: 0").
SubmittedOnce == \A k \in Keys : submitted[k] <= 1

\* What a caller was told is on disk, so neither an older snapshot nor a restart takes
\* it back: what a call did, once its own save has ended, and what was answered from
\* memory, once the last save succeeded and none is queued.  Until then a restart may
\* take back an answer from memory.  A fill needs that no cancel of its order was
\* under way, which writes back the order it read.
DoneIsDurable ==
  \A k \in Keys :
    /\ told[k].placed => file[k].status \notin {"NONE", "RISK_ACCEPTED"}
    /\ told[k].canceled => file[k].status = "CANCELED"
    /\ ~overlapped => file[k].filled >= told[k].filled

\* What an entry ties up or owns.  The last settlement found some entries flat; one
\* that it found so and that is open again is at work all the same.
exposure == [k \in Keys |-> Max({committedOrderNotional(k), told[k].filled * Price[k]})]
UnsettledExposure ==
  Won(exposure, {k \in Entries : k \notin credited.covers \/ orders[k].status \in Nonterminal})

\* An entry is admitted only if it fits, with everything that is still at work, the
\* capital of the last settlement that was saved; over restarts too, if settlements
\* were dated by the clock and covered orders that were on disk.
AdmittedWithinCapital ==
  [][ \A k \in Entries :
        orders[k].status = "NONE" /\ orders'[k].status # "NONE" /\ ~overlapped /\ ~early
          => UnsettledExposure' <= credited.effective ]_vars

\* Profit is reserved once: the reserve is that of the highest equity ever settled,
\* however often it was lost and recovered, in memory and on disk.
MaxReserves == MaxSteps * MaxSettlements
Bases(first) ==
  LET base[n \in 0 .. MaxReserves] ==
        IF n = 0 THEN first ELSE LET prior == base[n - 1] IN prior + FloorBps(prior, 500)
  IN  base
ReservedOnce ==
  \A c \in {capital, credited, capitalFile} :
    c.initialized =>
      LET first == c.base - c.reserve
          base == Bases(first)
          Crossed(n) == \A i \in 0 .. n - 1 :
                          c.peak - c.excluded - (base[i] - first) >= nextTrigger(base[i])
      IN  c.base = base[Max({n \in 0 .. MaxReserves : Crossed(n)})]
=============================================================================
