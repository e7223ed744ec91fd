--------------------------- MODULE OrderAmendment ---------------------------
(***************************************************************************)
(* TradeOrderAmendmentService.amend: the terms of one accepted stock order *)
(* are changed at a broker that issues a new order id for every change it  *)
(* puts into force (Toss, Kiwoom).                                         *)
(*                                                                         *)
(* An amender is one running call of amend; it shares the row with other   *)
(* calls of amend and with the activities of OrderExecution.  A write of   *)
(* theirs that applies was computed from the row it replaces, so each is   *)
(* one atomic action here (Elsewhere).                                     *)
(*                                                                         *)
(* Abstractions.                                                           *)
(*  - `fresh' stands for the version column, as in OrderExecution.         *)
(*  - A request id is a model value; the price and quantity asked for are  *)
(*    those of the request.                                                *)
(*  - The n-th amendment sent to the broker makes the order's new id n, if *)
(*    it is put into force; the order was placed as 0.                     *)
(*  - A call that is refused before it writes anything (policy,            *)
(*    capability, connection, price bounds) leaves no trace.               *)
(***************************************************************************)
EXTENDS Naturals, Sequences, TradeOrderStateMachine

CONSTANTS
  Amenders,    \* concurrent calls of amend
  Requests,    \* request ids the user may send, and send again
  NoRequest,   \* no request
  Qty,         \* the quantity of the order, in fill units
  Others,      \* when the activities of OrderExecution run
  MaxSends,    \* amendments sent to the broker in one behaviour
  MaxFaults    \* crashes and database errors in one behaviour

\* Never, only while no amend runs, or at any time.
Regimes == {"never", "between", "always"}

ASSUME AmendmentAssumption ==
  /\ NoRequest \notin Requests
  /\ Qty \in Nat \ {0} /\ MaxSends \in Nat /\ MaxFaults \in Nat
  /\ Others \in Regimes

VARIABLES
  row,     \* the order's row in trade_orders
  pc,      \* pc[p]: the next database or broker call of p
  req,     \* req[p]: the request p serves
  copy,    \* copy[p]: p's private copy of the row
  asked,   \* asked[p]: the number of the amendment p sent, or 0
  fresh,   \* the amenders whose copy has the row's version
  prov,    \* the order as the broker knows it
  mail,    \* the amendments sent so far and the broker's answers
  faults   \* crashes and database errors so far

amender == <<pc, req, copy, asked>>
broker  == <<prov, mail>>
vars    == <<row, amender, fresh, broker, faults>>

-----------------------------------------------------------------------------
(* State.                                                                  *)

Ids == 0..MaxSends

\* TradingOrderAmendment.status, or "none" for a request not in the list.
Statuses == {"none", "INTENT_RECORDED", "ACKNOWLEDGED", "RECOVERY_REQUIRED"}

Rows == [ state       : OrderStates,
          manual      : BOOLEAN,      \* manualReviewRequired
          cancelClaim : BOOLEAN,      \* cancelRequestClaimId is set
          oid         : Ids,          \* exchangeOrderId
          filled      : 0..Qty,       \* filledQuantity
          amendments  : [Requests -> Statuses] ]

Mail == [ req : Requests, oid : Ids, answer : {"none", "accepted", "refused"} ]

\* An order the broker accepted and nobody has touched since.
AcceptedOrder ==
  [ state |-> "ACCEPTED", manual |-> FALSE, cancelClaim |-> FALSE, oid |-> 0,
    filled |-> 0, amendments |-> [r \in Requests |-> "none"] ]

Pcs == {"idle", "replay", "intent", "send", "sending", "confirmed", "unconfirmed", "failed"}

TypeOK ==
  /\ row \in Rows
  /\ pc \in [Amenders -> Pcs]
  /\ req \in [Amenders -> Requests \cup {NoRequest}]
  /\ copy \in [Amenders -> Rows]
  /\ asked \in [Amenders -> Ids]
  /\ fresh \subseteq Amenders
  /\ prov \in [st : {"open", "filled", "canceled"}, id : Ids, filled : 0..Qty]
  /\ mail \in Seq(Mail) /\ Len(mail) <= MaxSends
  /\ faults \in 0..MaxFaults

Init ==
  /\ row = AcceptedOrder
  /\ pc = [p \in Amenders |-> "idle"]
  /\ req = [p \in Amenders |-> NoRequest]
  /\ copy = [p \in Amenders |-> AcceptedOrder]
  /\ asked = [p \in Amenders |-> 0]
  /\ fresh = {}
  /\ prov = [st |-> "open", id |-> 0, filled |-> 0]
  /\ mail = <<>>
  /\ faults = 0

-----------------------------------------------------------------------------
(* Reading and writing the row.                                            *)

\* The call is over: nothing of it is left in memory.
End(p) ==
  /\ pc' = [pc EXCEPT ![p] = "idle"]
  /\ req' = [req EXCEPT ![p] = NoRequest]
  /\ copy' = [copy EXCEPT ![p] = AcceptedOrder]
  /\ asked' = [asked EXCEPT ![p] = 0]

\* Mutant of Applies: the version not compared.
AlwaysApplies(p) == TRUE

\* The compare-and-set on state and version.
Applies(p) == p \in fresh

\* TradeAutomationService.transition: p tries to write new; a lost write
\* returns the current row, which replaces p's copy.
Save(p, new) ==
  /\ row' = IF Applies(p) THEN new ELSE row
  /\ fresh' = IF Applies(p) THEN {p} ELSE fresh \cup {p}

\* The last write of the call.
SaveAndEnd(p, new) ==
  /\ row' = IF Applies(p) THEN new ELSE row
  /\ fresh' = IF Applies(p) THEN {} ELSE fresh \ {p}
  /\ End(p)

\* The write throws: the database answered with an error, whether or not the
\* write was applied, or the write was lost and the kill switch could not be
\* tripped for the order in recovery that replaced the copy.
SaveThrows(p, new) ==
  /\ faults < MaxFaults
  /\ faults' = faults + 1
  /\ pc' = [pc EXCEPT ![p] = "failed"]
  /\ \/ UNCHANGED <<row, copy, fresh>>
     \/ Applies(p) /\ row' = new /\ fresh' = {} /\ UNCHANGED copy
     \/ /\ ~Applies(p) /\ row.state = "RECOVERY_REQUIRED"
        /\ copy' = [copy EXCEPT ![p] = row]
        /\ fresh' = fresh \cup {p}
        /\ UNCHANGED row
  /\ UNCHANGED <<req, asked, broker>>

\* replaceAmendment.
Replace(c, r, status) == [c EXCEPT !.amendments[r] = status]

-----------------------------------------------------------------------------
(* TradeOrderAmendmentService.amend.                                       *)

\* Mutant of Recorded: an unfinished entry taken for none.
RecordedAsDone(c, r) == c.amendments[r] = "ACKNOWLEDGED"

\* latestAmendment: has the order an entry for the request?
Recorded(c, r) == c.amendments[r] # "none"

\* assertAmendRiskBounds, on what it asks of the order.
Amendable(c) == c.state = "ACCEPTED" /\ c.filled = 0 /\ ~c.cancelClaim

\* The call begins with a fresh read.  A request on record is not sent again;
\* unless it was acknowledged, its order is handed to a human.
AmendRead(p, r) ==
  /\ pc[p] = "idle"
  /\ \/ /\ Recorded(row, r)
        /\ row.amendments[r] # "ACKNOWLEDGED" /\ row.state = "ACCEPTED"
        /\ pc' = [pc EXCEPT ![p] = "replay"]
     \/ /\ ~Recorded(row, r) /\ Amendable(row)
        /\ pc' = [pc EXCEPT ![p] = "intent"]
  /\ req' = [req EXCEPT ![p] = r]
  /\ copy' = [copy EXCEPT ![p] = row]
  /\ fresh' = fresh \cup {p}
  /\ UNCHANGED <<row, asked, broker, faults>>

\* What the replay and the catch clause write: a human decides.
HandedOver(c, r) ==
  [Replace(c, r, "RECOVERY_REQUIRED") EXCEPT !.state = "RECOVERY_REQUIRED", !.manual = TRUE]

RecordReplay(p) ==
  /\ pc[p] = "replay"
  /\ SaveAndEnd(p, HandedOver(copy[p], req[p]))
  /\ UNCHANGED <<broker, faults>>

\* Mutant of RecordIntent: the entry left out of the write.
RecordNothing(p) ==
  /\ pc[p] = "intent"
  /\ Save(p, copy[p])
  /\ copy' = [copy EXCEPT ![p] = row']
  /\ pc' = [pc EXCEPT ![p] = "send"]
  /\ UNCHANGED <<req, asked, broker, faults>>

\* The intent's write.  Whether it applied is not looked at: after a lost one
\* the call goes on with the row as it is by then.
RecordIntent(p) ==
  /\ pc[p] = "intent"
  /\ Save(p, Replace(copy[p], req[p], "INTENT_RECORDED"))
  /\ copy' = [copy EXCEPT ![p] = row']
  /\ pc' = [pc EXCEPT ![p] = "send"]
  /\ UNCHANGED <<req, asked, broker, faults>>

\* providerAmend: the amendment addresses the order id p holds.
SendAmend(p) ==
  /\ pc[p] = "send"
  /\ Len(mail) < MaxSends
  /\ mail' = Append(mail, [req |-> req[p], oid |-> copy[p].oid, answer |-> "none"])
  /\ asked' = [asked EXCEPT ![p] = Len(mail')]
  /\ pc' = [pc EXCEPT ![p] = "sending"]
  /\ UNCHANGED <<row, req, copy, fresh, prov, faults>>

\* No credentials, no token, a refusal, an acknowledgement without the new id,
\* or a timeout, whatever becomes of the amendment.
AmendThrows(p) ==
  /\ pc[p] \in {"send", "sending"}
  /\ pc' = [pc EXCEPT ![p] = "failed"]
  /\ UNCHANGED <<row, req, copy, asked, fresh, broker, faults>>

\* Mutant of Confirmed: the new id not taken over.
ConfirmedUnderOldId(c, r, n) == Replace(c, r, "ACKNOWLEDGED")

\* The order as amended.
Confirmed(c, r, n) == [Replace(c, r, "ACKNOWLEDGED") EXCEPT !.oid = n]

\* tossActiveOrder, kiwoomOpenOrderExists: the order is open under its new id.
ActiveConfirmed(n) == prov.st = "open" /\ prov.id = n

\* The acknowledged order is looked up under its new id; p's copy takes the
\* result.  Kiwoom's answer may leave the new id out, and the old one is kept.
PostQuery(p) ==
  /\ pc[p] = "sending"
  /\ mail[asked[p]].answer = "accepted"
  /\ \/ /\ ActiveConfirmed(asked[p])
        /\ copy' = [copy EXCEPT ![p] = Confirmed(@, req[p], asked[p])]
        /\ pc' = [pc EXCEPT ![p] = "confirmed"]
     \/ \E id \in {asked[p], copy[p].oid} :
          /\ copy' = [copy EXCEPT ![p] =
                        [Replace(@, req[p], "RECOVERY_REQUIRED") EXCEPT !.oid = id,
                                                                       !.manual = FALSE]]
          /\ pc' = [pc EXCEPT ![p] = "unconfirmed"]
  /\ UNCHANGED <<row, req, asked, fresh, broker, faults>>

\* assertOrderTransition on the state of p's copy.
MayBecome(c, state) == canTransitionOrder(c.state, state)

\* The result is written: ACCEPTED again, or in recovery until the broker is
\* asked again.  A transition the copy's state forbids throws.
RecordResult(p) ==
  LET state == IF pc[p] = "confirmed" THEN "ACCEPTED" ELSE "RECOVERY_REQUIRED"
      new   == [copy[p] EXCEPT !.state = state]
  IN  /\ pc[p] \in {"confirmed", "unconfirmed"}
      /\ \/ /\ MayBecome(copy[p], state)
            /\ \/ SaveAndEnd(p, new) /\ UNCHANGED <<broker, faults>>
               \/ SaveThrows(p, new)
         \/ /\ ~MayBecome(copy[p], state)
            /\ pc' = [pc EXCEPT ![p] = "failed"]
            /\ UNCHANGED <<row, req, copy, asked, fresh, broker, faults>>

\* The catch clause; an order that is closed by then is left as it is.
AmendFails(p) ==
  /\ pc[p] = "failed"
  /\ IF MayBecome(copy[p], "RECOVERY_REQUIRED")
       THEN SaveAndEnd(p, HandedOver(copy[p], req[p]))
       ELSE End(p) /\ fresh' = fresh \ {p} /\ UNCHANGED row
  /\ UNCHANGED <<broker, faults>>

\* The process dies, or a write outside the try block throws: the call ends
\* where it is, after whatever it last wrote.
Crash(p) ==
  /\ pc[p] # "idle"
  /\ faults < MaxFaults
  /\ faults' = faults + 1
  /\ End(p)
  /\ fresh' = fresh \ {p}
  /\ UNCHANGED <<row, broker>>

Amend(p) ==
  \/ \E r \in Requests : AmendRead(p, r)
  \/ RecordReplay(p)
  \/ RecordIntent(p)
  \/ SendAmend(p)
  \/ AmendThrows(p)
  \/ PostQuery(p)
  \/ RecordResult(p)
  \/ AmendFails(p)

-----------------------------------------------------------------------------
(* The activities of OrderExecution, by the writes of theirs that apply.   *)

\* What a call makes of the row; whoever cancels may note so with it.
Noted(c) == {c, [c EXCEPT !.cancelClaim = TRUE]}

Rewrite(new) ==
  /\ \/ Others = "always"
     \/ Others = "between" /\ \A p \in Amenders : pc[p] = "idle"
  /\ row' \in Noted(new)
  /\ fresh' = {}
  /\ UNCHANGED <<amender, broker, faults>>

Open(c) == ~isTerminalOrderState(c.state)

\* The recovery worker, the scan or a failing cancel takes the order to recovery.
Escalated == Open(row) /\ Rewrite([row EXCEPT !.state = "RECOVERY_REQUIRED"])

\* cancel claims the order, or notes the cancel of one in recovery; invalidate
\* moves it without a claim.
CancelWritten ==
  \/ /\ row.state \in {"ACCEPTED", "PARTIALLY_FILLED", "CANCEL_REQUESTED"}
     /\ Rewrite([row EXCEPT !.state = "CANCEL_REQUESTED"])
  \/ row.state = "RECOVERY_REQUIRED" /\ Rewrite(row)

\* What the broker answers about the order the row addresses: what it is now,
\* or an older picture of it, which is all there is of a replaced order.
Pictures ==
  { <<"open", f>> : f \in {g \in row.filled..prov.filled : g < Qty} }
    \cup (IF row.oid = prov.id THEN {<<prov.st, prov.filled>>} ELSE {})

PictureState(s) ==
  CASE s[1] = "open" /\ s[2] = 0 -> "ACCEPTED"
    [] s[1] = "open" /\ s[2] > 0 -> "PARTIALLY_FILLED"
    [] s[1] = "filled"           -> "FILLED"
    [] s[1] = "canceled"         -> "CANCELED"

\* Mutant of Booked: the broker's total taken for one more fill.
AddedUp(f, s) == f + s[2]

\* The broker answers with the total filled.
Booked(f, s) == s[2]

\* reconcile writes what the broker answered, as it is or with the order handed
\* to a human, or that it did not answer.
Reconciled ==
  /\ row.state = "RECOVERY_REQUIRED" /\ ~row.manual
  /\ \/ \E s \in Pictures :
          LET told == [row EXCEPT !.filled = Booked(@, s)]
          IN  Rewrite([told EXCEPT !.state = PictureState(s)]) \/ Rewrite([told EXCEPT !.manual = TRUE])
     \/ \E review \in BOOLEAN : Rewrite([row EXCEPT !.manual = review])

Elsewhere == Escalated \/ CancelWritten \/ Reconciled

-----------------------------------------------------------------------------
(* The broker.                                                             *)

\* An amendment arrives: of the open order it addresses by its present id, it
\* makes a new one.
AmendArrives(n) ==
  LET took == mail[n].oid = prov.id /\ prov.st = "open"
  IN  /\ mail[n].answer = "none"
      /\ mail' = [mail EXCEPT ![n].answer = IF took THEN "accepted" ELSE "refused"]
      /\ prov' = IF took THEN [prov EXCEPT !.id = n] ELSE prov
      /\ UNCHANGED <<row, amender, fresh, faults>>

ProviderFills ==
  /\ prov.st = "open"
  /\ LET f == prov.filled + 1
     IN  prov' = [prov EXCEPT !.filled = f, !.st = IF f = Qty THEN "filled" ELSE @]
  /\ UNCHANGED <<row, amender, fresh, mail, faults>>

ProviderCloses ==
  /\ prov.st = "open"
  /\ prov' = [prov EXCEPT !.st = "canceled"]
  /\ UNCHANGED <<row, amender, fresh, mail, faults>>

Broker == (\E n \in 1..Len(mail) : AmendArrives(n)) \/ ProviderFills \/ ProviderCloses

Next == \/ \E p \in Amenders : Amend(p) \/ Crash(p)
        \/ Elsewhere
        \/ Broker

Spec == Init /\ [][Next]_vars

-----------------------------------------------------------------------------
(* Safety, whatever else runs.                                             *)

\* An amendment recorded as acknowledged was put into force by the broker, and
\* the row's order id is the one it led to or a later one (amend records
\* ACKNOWLEDGED together with the id it looked the order up by).
AckIsTrue ==
  \A r \in Requests : row.amendments[r] = "ACKNOWLEDGED"
    => \E n \in 1..Len(mail) : mail[n].req = r /\ mail[n].answer = "accepted" /\ n <= row.oid

\* A request on record stays on record, and the fills of the order stay
\* booked, whatever stale copies the calls of amend write back.
NothingForgotten ==
  [][ /\ \A r \in Requests : row.amendments[r] # "none" => row'.amendments[r] # "none"
      /\ row'.filled >= row.filled ]_vars

\* An order that was closed in the meantime is not reopened by the late result
\* of an amendment.
ClosedStaysClosed == [][~Open(row) => row' = row]_vars

-----------------------------------------------------------------------------
(* Safety of a call that is alone with the row: true of repeated and       *)
(* crashed calls, not of concurrent ones.                                  *)

\* The row addresses the order by the id the broker last issued, unless an
\* unfinished amendment on record says why it may not.
RowTracksOrder ==
  row.oid # prov.id
    => \E r \in Requests : row.amendments[r] \in {"INTENT_RECORDED", "RECOVERY_REQUIRED"}

\* At most one amendment is sent to the broker for a request, however often the
\* user repeats it (the route answers duplicateProviderMutation: false).
AmendAtMostOnce ==
  \A m, n \in 1..Len(mail) : mail[m].req = mail[n].req => m = n

\* No amendment is sent for an order that its caller knows to be partly filled
\* (such an order is to be cancelled and planned again).
PartialFillNotAmended ==
  \A p \in Amenders : pc[p] = "sending" => copy[p].filled = 0
=============================================================================
