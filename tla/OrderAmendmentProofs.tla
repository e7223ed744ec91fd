------------------------ MODULE OrderAmendmentProofs ------------------------
(***************************************************************************)
(* Proofs about OrderAmendment: its types, and the properties that hold    *)
(* whatever else runs.                                                     *)
(***************************************************************************)
EXTENDS OrderAmendment, TLAPS

-----------------------------------------------------------------------------
(* The inductive invariant.                                                *)

\* What AckIsTrue says of the row, said of any copy.
AckBacked(c) ==
  \A r \in Requests : c.amendments[r] = "ACKNOWLEDGED"
    => \E n \in 1..Len(mail) : mail[n].req = r /\ mail[n].answer = "accepted" /\ n <= c.oid

\* A copy with the row's version has the row's state and fills, and at least
\* the requests the row has on record.
AgreesWithRow(c) ==
  /\ c.state = row.state
  /\ c.filled = row.filled
  /\ \A r \in Requests : row.amendments[r] # "none" => c.amendments[r] # "none"

\* What p holds, by the step it is about to take.
HeldOK(p) ==
  /\ AckBacked(copy[p])
  /\ copy[p].oid <= Len(mail)
  /\ p \in fresh => AgreesWithRow(copy[p])
  /\ pc[p] \in {"replay", "intent"} => copy[p].state = "ACCEPTED"
  /\ pc[p] # "idle" => req[p] \in Requests
  /\ pc[p] = "sending" => /\ asked[p] \in 1..Len(mail)
                          /\ copy[p].oid < asked[p]
                          /\ mail[asked[p]].req = req[p]

IInv ==
  /\ TypeOK
  /\ row.filled <= prov.filled
  /\ prov.st = "open" => prov.filled < Qty
  /\ row.oid <= Len(mail)
  /\ AckBacked(row)
  /\ \A p \in Amenders : HeldOK(p)

\* What a step may do to the row.
Advances ==
  /\ \A r \in Requests : row.amendments[r] # "none" => row'.amendments[r] # "none"
  /\ row'.filled >= row.filled
  /\ Open(row) \/ row' = row

-----------------------------------------------------------------------------
(* Lemmas about writes and about the calls that only look on.              *)

\* The initial state satisfies the inductive invariant.
LEMMA InitIInv == Init => IInv
<1> SUFFICES ASSUME Init PROVE IInv
  OBVIOUS
<1>1. AcceptedOrder \in Rows
  BY AmendmentAssumption DEF AcceptedOrder, Rows, OrderStates, Statuses, Ids
<1>2. TypeOK
  <2>1. mail \in Seq(Mail) /\ Len(mail) <= MaxSends
    BY AmendmentAssumption DEF Init
  <2>2. prov \in [st : {"open", "filled", "canceled"}, id : Ids, filled : 0..Qty]
    BY AmendmentAssumption DEF Init, Ids
  <2> QED BY <1>1, <2>1, <2>2, AmendmentAssumption DEF Init, TypeOK, Pcs, Ids
<1>3. AckBacked(AcceptedOrder)
  BY DEF AckBacked, AcceptedOrder
<1>4. \A p \in Amenders : HeldOK(p)
  BY <1>3, AmendmentAssumption DEF Init, HeldOK, AcceptedOrder
<1>5. row.filled <= prov.filled /\ row.oid <= Len(mail)
  BY DEF Init, AcceptedOrder
<1>6. prov.st = "open" => prov.filled < Qty
  BY AmendmentAssumption DEF Init
<1> QED BY <1>2, <1>3, <1>4, <1>5, <1>6 DEF IInv, Init

\* A call that does not move keeps what it holds while the amendments sent are
\* the same and the row is either the same or not the one it read.
LEMMA Bystander ==
  ASSUME NEW q \in Amenders, HeldOK(q), mail' = mail,
         copy'[q] = copy[q], pc'[q] = pc[q], req'[q] = req[q], asked'[q] = asked[q],
         q \in fresh' => q \in fresh /\ row' = row
  PROVE  HeldOK(q)'
BY DEF HeldOK, AckBacked, AgreesWithRow

\* A call that is over holds nothing.
LEMMA EndHolds ==
  ASSUME IInv, NEW p \in Amenders, End(p), mail' = mail, p \notin fresh'
  PROVE  HeldOK(p)'
<1>1. pc'[p] = "idle" /\ copy'[p] = AcceptedOrder /\ Len(mail) \in Nat
  BY DEF IInv, TypeOK, End
<1> QED BY <1>1 DEF HeldOK, AckBacked, AcceptedOrder

\* The types after the call of p is over.
LEMMA EndType ==
  ASSUME IInv, NEW p \in Amenders, End(p), row' \in Rows, fresh' \subseteq Amenders,
         UNCHANGED broker, faults' \in 0..MaxFaults
  PROVE  TypeOK'
<1>1. AcceptedOrder \in Rows
  BY AmendmentAssumption DEF AcceptedOrder, Rows, OrderStates, Statuses, Ids
<1> QED BY <1>1, AmendmentAssumption DEF IInv, TypeOK, End, Pcs, Ids, broker

\* What p may write: it takes back nothing of the row it read.
WriteOK(p, new) ==
  /\ new \in Rows /\ AckBacked(new) /\ new.oid <= Len(mail)
  /\ Applies(p) => /\ new.filled = row.filled
                   /\ \A r \in Requests :
                        row.amendments[r] # "none" => new.amendments[r] # "none"
                   /\ Open(row)

\* The last write of a call.
LEMMA SaveAndEndKeeps ==
  ASSUME IInv, NEW p \in Amenders, NEW new, WriteOK(p, new), SaveAndEnd(p, new),
         UNCHANGED <<broker, faults>>
  PROVE  IInv' /\ Advances
<1>1. row' \in Rows /\ fresh' \subseteq Amenders
  BY DEF WriteOK, SaveAndEnd, IInv, TypeOK, Applies
<1>2. TypeOK'
  BY <1>1, EndType DEF SaveAndEnd, IInv, TypeOK
<1>3. row'.filled = row.filled /\ row'.oid <= Len(mail) /\ AckBacked(row')
  BY DEF WriteOK, SaveAndEnd, IInv
<1>4. AckBacked(row)'
  BY <1>3 DEF AckBacked, broker
<1>5. HeldOK(p)'
  BY EndHolds DEF SaveAndEnd, broker, Applies
<1>6. ASSUME NEW q \in Amenders, q # p  PROVE HeldOK(q)'
  BY <1>6, Bystander DEF SaveAndEnd, End, broker, Applies, IInv, TypeOK
<1>7. Advances
  BY <1>1, <1>3, AmendmentAssumption DEF Advances, WriteOK, SaveAndEnd, IInv, TypeOK, Rows
<1> QED BY <1>2, <1>3, <1>4, <1>5, <1>6, <1>7 DEF IInv, broker

\* A step of p that leaves the row and the broker alone.
LEMMA QuietKeeps ==
  ASSUME IInv, NEW p \in Amenders, TypeOK', HeldOK(p)', row' = row, UNCHANGED broker,
         \A q \in Amenders : q # p =>
           /\ copy'[q] = copy[q] /\ pc'[q] = pc[q] /\ req'[q] = req[q]
           /\ asked'[q] = asked[q] /\ (q \in fresh' => q \in fresh)
  PROVE  IInv' /\ Advances
<1>1. ASSUME NEW q \in Amenders, q # p  PROVE HeldOK(q)'
  BY <1>1, Bystander DEF IInv, broker
<1>2. AckBacked(row)'
  BY DEF IInv, AckBacked, broker
<1>3. Advances
  BY AmendmentAssumption DEF Advances, IInv, TypeOK, Rows
<1> QED BY <1>1, <1>2, <1>3 DEF IInv, broker

-----------------------------------------------------------------------------
(* The steps of amend.                                                     *)

\* The copy p takes at the beginning is the row.
LEMMA AmendReadKeeps ==
  ASSUME IInv, NEW p \in Amenders, NEW r \in Requests, AmendRead(p, r)
  PROVE  IInv' /\ Advances
<1>1. TypeOK'
  BY DEF AmendRead, IInv, TypeOK, Pcs, broker
<1>2. copy'[p] = row /\ pc'[p] \in {"replay", "intent"} /\ req'[p] = r /\ row.state = "ACCEPTED"
  BY DEF AmendRead, IInv, TypeOK, Amendable
<1>3. HeldOK(p)'
  BY <1>2 DEF AmendRead, HeldOK, IInv, AckBacked, AgreesWithRow, broker
<1> QED BY <1>1, <1>3, QuietKeeps DEF AmendRead, IInv, TypeOK

\* An entry that is not an acknowledgement needs no backing.
LEMMA ReplaceBacked ==
  ASSUME NEW c \in Rows, AckBacked(c), NEW r \in Requests,
         NEW status \in Statuses \ {"ACKNOWLEDGED", "none"}
  PROVE  /\ Replace(c, r, status) \in Rows
         /\ AckBacked(Replace(c, r, status))
         /\ Replace(c, r, status).state = c.state
         /\ Replace(c, r, status).filled = c.filled
         /\ Replace(c, r, status).oid = c.oid
         /\ \A x \in Requests : c.amendments[x] # "none"
                               => Replace(c, r, status).amendments[x] # "none"
BY DEF Replace, AckBacked, Rows, Statuses

\* The hand-over to a human is a write that p may make.
LEMMA HandedOverOK ==
  ASSUME IInv, NEW p \in Amenders, req[p] \in Requests,
         ~isTerminalOrderState(copy[p].state)
  PROVE  WriteOK(p, HandedOver(copy[p], req[p]))
<1>1. copy[p] \in Rows /\ HeldOK(p)
  BY DEF IInv, TypeOK
<1> DEFINE m == Replace(copy[p], req[p], "RECOVERY_REQUIRED")
<1>2. /\ m \in Rows /\ AckBacked(m) /\ m.filled = copy[p].filled /\ m.oid = copy[p].oid
      /\ \A x \in Requests : copy[p].amendments[x] # "none" => m.amendments[x] # "none"
  BY <1>1, ReplaceBacked DEF HeldOK, Statuses
<1> HIDE DEF m
<1> DEFINE new == [m EXCEPT !.state = "RECOVERY_REQUIRED", !.manual = TRUE]
<1>3. /\ new \in Rows /\ new.filled = m.filled /\ new.oid = m.oid
      /\ new.amendments = m.amendments
  BY <1>2 DEF Rows, OrderStates
<1>4. AckBacked(new)
  BY <1>2, <1>3 DEF AckBacked
<1>5. HandedOver(copy[p], req[p]) = new
  BY DEF HandedOver, m
<1> HIDE DEF new
<1> QED BY <1>1, <1>2, <1>3, <1>4, <1>5 DEF WriteOK, HeldOK, Applies, AgreesWithRow, Open

\* The replay of an unfinished request hands the order over (amend).
LEMMA RecordReplayKeeps ==
  ASSUME IInv, NEW p \in Amenders, RecordReplay(p)
  PROVE  IInv' /\ Advances
<1>1. req[p] \in Requests /\ copy[p].state = "ACCEPTED"
  BY DEF RecordReplay, IInv, HeldOK
<1>2. WriteOK(p, HandedOver(copy[p], req[p]))
  BY <1>1, HandedOverOK DEF isTerminalOrderState, TerminalStates
<1> QED BY <1>2, SaveAndEndKeeps DEF RecordReplay

\* The intent's write adds the request to the record, or is lost (amend).
LEMMA RecordIntentKeeps ==
  ASSUME IInv, NEW p \in Amenders, RecordIntent(p)
  PROVE  IInv' /\ Advances
<1> DEFINE new == Replace(copy[p], req[p], "INTENT_RECORDED")
<1>1. /\ copy[p] \in Rows /\ HeldOK(p) /\ req[p] \in Requests /\ copy[p].state = "ACCEPTED"
      /\ row \in Rows /\ AckBacked(row) /\ row.oid <= Len(mail)
  BY DEF IInv, TypeOK, RecordIntent, HeldOK
<1>2. /\ new \in Rows /\ AckBacked(new) /\ new.state = "ACCEPTED"
      /\ new.filled = copy[p].filled /\ new.oid = copy[p].oid
      /\ \A x \in Requests : copy[p].amendments[x] # "none" => new.amendments[x] # "none"
  BY <1>1, ReplaceBacked DEF HeldOK, Statuses
<1> HIDE DEF new
<1>3. /\ row' = IF Applies(p) THEN new ELSE row
      /\ fresh' = IF Applies(p) THEN {p} ELSE fresh \cup {p}
      /\ copy' = [copy EXCEPT ![p] = row']
      /\ pc' = [pc EXCEPT ![p] = "send"]
      /\ UNCHANGED <<req, asked, mail, prov, faults>>
  BY DEF RecordIntent, Save, new, broker
<1>4. /\ row' \in Rows /\ AckBacked(row') /\ row'.oid <= Len(mail) /\ row'.filled = row.filled
      /\ \A x \in Requests : row.amendments[x] # "none" => row'.amendments[x] # "none"
      /\ Open(row) \/ row' = row
  BY <1>1, <1>2, <1>3
     DEF HeldOK, AgreesWithRow, Applies, Open, isTerminalOrderState, TerminalStates
<1>5. TypeOK'
  BY <1>3, <1>4 DEF IInv, TypeOK, Pcs, Applies
<1>6. copy'[p] = row' /\ pc'[p] = "send" /\ req'[p] = req[p]
  BY <1>3 DEF IInv, TypeOK
<1>7. HeldOK(p)'
  BY <1>1, <1>3, <1>4, <1>6 DEF HeldOK, AckBacked, AgreesWithRow
<1>8. ASSUME NEW q \in Amenders, q # p  PROVE HeldOK(q)'
  BY <1>3, <1>8, Bystander DEF IInv, TypeOK, Applies
<1>9. AckBacked(row)'
  BY <1>3, <1>4 DEF AckBacked
<1>10. Advances
  BY <1>1, <1>4, AmendmentAssumption DEF Advances, Rows
<1> QED BY <1>3, <1>4, <1>5, <1>7, <1>8, <1>9, <1>10 DEF IInv

\* The amendments sent so far may grow and be answered.
MailGrows ==
  /\ Len(mail) <= Len(mail')
  /\ \A n \in 1..Len(mail) :
       /\ mail'[n].req = mail[n].req
       /\ mail[n].answer = "accepted" => mail'[n].answer = "accepted"

\* What is held is backed by more amendments as well.
LEMMA GrowthKeeps ==
  ASSUME NEW c, NEW d, AckBacked(c), MailGrows, d = c,
         Len(mail) \in Nat, Len(mail') \in Nat
  PROVE  \A r \in Requests : d.amendments[r] = "ACKNOWLEDGED"
           => \E n \in 1..Len(mail') :
                mail'[n].req = r /\ mail'[n].answer = "accepted" /\ n <= d.oid
BY DEF AckBacked, MailGrows

\* Whoever does not move keeps what it holds when the mail grows.
LEMMA Correspondent ==
  ASSUME NEW q \in Amenders, HeldOK(q), TypeOK, TypeOK', MailGrows,
         copy'[q] = copy[q], pc'[q] = pc[q], req'[q] = req[q], asked'[q] = asked[q],
         fresh' = fresh, row' = row
  PROVE  HeldOK(q)'
<1>1. Len(mail) \in Nat /\ Len(mail') \in Nat /\ copy[q] \in Rows
  BY DEF TypeOK
<1>2. AckBacked(copy[q])'
  BY <1>1, GrowthKeeps DEF HeldOK, AckBacked
<1>3. copy[q].oid \in Nat
  BY <1>1, AmendmentAssumption DEF Rows, Ids
<1> QED BY <1>1, <1>2, <1>3 DEF HeldOK, AgreesWithRow, MailGrows

\* The amendment is sent under the id the copy holds (providerAmend).
LEMMA SendAmendKeeps ==
  ASSUME IInv, NEW p \in Amenders, SendAmend(p)
  PROVE  IInv' /\ Advances
<1> DEFINE m == [req |-> req[p], oid |-> copy[p].oid, answer |-> "none"]
<1>1. /\ copy[p] \in Rows /\ HeldOK(p) /\ req[p] \in Requests /\ mail \in Seq(Mail)
      /\ Len(mail) \in Nat /\ row \in Rows
  BY DEF IInv, TypeOK, SendAmend, HeldOK
<1>2. m \in Mail
  BY <1>1 DEF Mail, Rows
<1>3. /\ mail' \in Seq(Mail) /\ Len(mail') = Len(mail) + 1 /\ mail'[Len(mail')] = m
      /\ \A n \in 1..Len(mail) : mail'[n] = mail[n]
  BY <1>1, <1>2 DEF SendAmend
<1>4. MailGrows
  BY <1>1, <1>3 DEF MailGrows
<1>5. Len(mail') \in Ids /\ Len(mail') <= MaxSends
  BY <1>1, <1>3, AmendmentAssumption DEF SendAmend, Ids
<1>6. TypeOK'
  BY <1>3, <1>5 DEF IInv, TypeOK, SendAmend, Pcs
<1>7. /\ pc'[p] = "sending" /\ asked'[p] = Len(mail') /\ copy'[p] = copy[p] /\ req'[p] = req[p]
  BY DEF SendAmend, IInv, TypeOK
<1>8. AckBacked(copy[p])'
  BY <1>1, <1>3, <1>4, GrowthKeeps DEF HeldOK, AckBacked, SendAmend
<1>9. copy[p].oid \in Nat
  BY <1>1, AmendmentAssumption DEF Rows, Ids
<1>10. HeldOK(p)'
  BY <1>1, <1>3, <1>7, <1>8, <1>9 DEF HeldOK, AgreesWithRow, SendAmend
<1>11. ASSUME NEW q \in Amenders, q # p  PROVE HeldOK(q)'
  BY <1>4, <1>6, <1>11, Correspondent DEF SendAmend, IInv, TypeOK
<1>12. AckBacked(row)'
  BY <1>1, <1>3, <1>4, GrowthKeeps DEF IInv, AckBacked, SendAmend
<1>13. row.oid \in Nat /\ row.filled \in Nat
  BY <1>1, AmendmentAssumption DEF Rows, Ids
<1> QED BY <1>1, <1>3, <1>6, <1>10, <1>11, <1>12, <1>13 DEF IInv, SendAmend, Advances

\* A failing amendment leaves the row to the catch clause (providerAmend).
LEMMA AmendThrowsKeeps ==
  ASSUME IInv, NEW p \in Amenders, AmendThrows(p)
  PROVE  IInv' /\ Advances
<1>1. TypeOK'
  BY DEF AmendThrows, IInv, TypeOK, Pcs, broker
<1>2. pc'[p] = "failed" /\ pc[p] # "idle"
  BY DEF AmendThrows, IInv, TypeOK
<1>3. HeldOK(p)'
  BY <1>2 DEF AmendThrows, IInv, HeldOK, AckBacked, AgreesWithRow, broker
<1> QED BY <1>1, <1>3, QuietKeeps DEF AmendThrows, IInv, TypeOK

\* The look-up's result is put into the copy; it is backed by the broker's
\* acceptance (providerAmend, amend).
LEMMA PostQueryKeeps ==
  ASSUME IInv, NEW p \in Amenders, PostQuery(p)
  PROVE  IInv' /\ Advances
<1>1. /\ copy[p] \in Rows /\ HeldOK(p) /\ req[p] \in Requests /\ row \in Rows
      /\ asked[p] \in 1..Len(mail) /\ copy[p].oid < asked[p] /\ Len(mail) \in Nat
      /\ mail[asked[p]].req = req[p] /\ mail[asked[p]].answer = "accepted"
      /\ asked[p] \in Ids
  BY DEF IInv, TypeOK, PostQuery, HeldOK
<1>2. copy[p].oid \in Nat
  BY <1>1, AmendmentAssumption DEF Rows, Ids
<1> DEFINE Resulting(c) ==
             /\ c \in Rows /\ c.state = copy[p].state /\ c.filled = copy[p].filled
             /\ c.oid \in {copy[p].oid, asked[p]}
             /\ \A r \in Requests :
                  \/ c.amendments[r] = copy[p].amendments[r]
                  \/ r = req[p] /\ c.amendments[r] = "RECOVERY_REQUIRED"
                  \/ r = req[p] /\ c.amendments[r] = "ACKNOWLEDGED" /\ c.oid = asked[p]
<1>3. /\ Resulting(copy'[p])
      /\ pc'[p] \in {"confirmed", "unconfirmed"}
      /\ copy' = [copy EXCEPT ![p] = copy'[p]] /\ pc' = [pc EXCEPT ![p] = pc'[p]]
  <2>1. CASE /\ copy' = [copy EXCEPT ![p] = Confirmed(@, req[p], asked[p])]
             /\ pc' = [pc EXCEPT ![p] = "confirmed"]
    BY <1>1, <2>1 DEF IInv, TypeOK, Confirmed, Replace, Rows, Statuses
  <2>2. ASSUME NEW id \in {asked[p], copy[p].oid},
               copy' = [copy EXCEPT ![p] =
                          [Replace(@, req[p], "RECOVERY_REQUIRED") EXCEPT !.oid = id,
                                                                         !.manual = FALSE]],
               pc' = [pc EXCEPT ![p] = "unconfirmed"]
        PROVE  <1>3
    BY <1>1, <2>2 DEF IInv, TypeOK, Replace, Rows, Statuses
  <2> QED BY <2>1, <2>2 DEF PostQuery
<1>4. TypeOK'
  BY <1>3 DEF IInv, TypeOK, PostQuery, Pcs, broker
<1>5. AckBacked(copy'[p])
  BY <1>1, <1>2, <1>3 DEF AckBacked, HeldOK
<1>6. copy'[p].oid <= Len(mail)
  BY <1>1, <1>2, <1>3
<1>7. HeldOK(p)'
  BY <1>1, <1>3, <1>5, <1>6 DEF PostQuery, HeldOK, AckBacked, AgreesWithRow, broker
<1>8. ASSUME NEW q \in Amenders, q # p
      PROVE  copy'[q] = copy[q] /\ pc'[q] = pc[q]
  BY <1>3, <1>8 DEF IInv, TypeOK
<1> QED BY <1>4, <1>7, <1>8, QuietKeeps DEF PostQuery

\* A transition the state machine allows starts from an open order.
LEMMA MayBecomeOpen ==
  ASSUME NEW c \in Rows, NEW state, MayBecome(c, state)
  PROVE  ~isTerminalOrderState(c.state)
BY DEF MayBecome, canTransitionOrder, TRANSITIONS, isTerminalOrderState, TerminalStates

\* The result is written, lost, or refused by assertOrderTransition (amend).
LEMMA RecordResultKeeps ==
  ASSUME IInv, NEW p \in Amenders, RecordResult(p)
  PROVE  IInv' /\ Advances
<1> DEFINE state == IF pc[p] = "confirmed" THEN "ACCEPTED" ELSE "RECOVERY_REQUIRED"
           new   == [copy[p] EXCEPT !.state = state]
<1>1. /\ copy[p] \in Rows /\ HeldOK(p) /\ pc[p] # "idle" /\ req[p] \in Requests
      /\ row \in Rows /\ row.filled \in Nat
  BY AmendmentAssumption DEF IInv, TypeOK, RecordResult, HeldOK, Rows
<1>2. /\ new \in Rows /\ new.filled = copy[p].filled /\ new.oid = copy[p].oid
      /\ new.amendments = copy[p].amendments
  BY <1>1 DEF Rows, OrderStates
<1>3. AckBacked(new)
  BY <1>1, <1>2 DEF AckBacked, HeldOK
<1> HIDE DEF new
<1>4. ASSUME MayBecome(copy[p], state)  PROVE WriteOK(p, new)
  BY <1>1, <1>2, <1>3, <1>4, MayBecomeOpen
     DEF WriteOK, HeldOK, AgreesWithRow, Applies, Open
<1>5. CASE MayBecome(copy[p], state) /\ SaveAndEnd(p, new) /\ UNCHANGED <<broker, faults>>
  BY <1>4, <1>5, SaveAndEndKeeps
<1>6. CASE MayBecome(copy[p], state) /\ SaveThrows(p, new)
  <2>1. /\ \/ row' = row /\ copy' = copy /\ fresh' = fresh
           \/ Applies(p) /\ row' = new /\ fresh' = {} /\ copy' = copy
           \/ copy' = [copy EXCEPT ![p] = row] /\ fresh' = fresh \cup {p} /\ row' = row
        /\ pc' = [pc EXCEPT ![p] = "failed"]
        /\ UNCHANGED <<req, asked, mail, prov>>
        /\ faults' \in 0..MaxFaults
    BY <1>6, AmendmentAssumption DEF SaveThrows, broker, IInv, TypeOK
  <2>2. TypeOK'
    BY <1>1, <1>2, <2>1 DEF IInv, TypeOK, Pcs
  <2>3. /\ row'.filled = row.filled /\ row'.oid <= Len(mail) /\ AckBacked(row')
        /\ \A r \in Requests : row.amendments[r] # "none" => row'.amendments[r] # "none"
        /\ Open(row) \/ row' = row
    BY <1>4, <1>6, <2>1 DEF WriteOK, IInv
  <2>4. pc'[p] = "failed" /\ copy'[p] \in {copy[p], row}
    BY <2>1 DEF IInv, TypeOK
  <2>5. HeldOK(p)'
    <3>1. AckBacked(copy[p])' /\ copy'[p].oid <= Len(mail)
      BY <1>1, <2>1, <2>4 DEF IInv, HeldOK, AckBacked
    <3>2. p \in fresh' => AgreesWithRow(copy[p])'
      BY <1>1, <2>1 DEF IInv, TypeOK, HeldOK, AgreesWithRow
    <3> QED BY <1>1, <2>1, <2>4, <3>1, <3>2 DEF HeldOK
  <2>6. ASSUME NEW q \in Amenders, q # p  PROVE HeldOK(q)'
    BY <2>1, <2>6, Bystander DEF IInv, TypeOK
  <2>7. AckBacked(row)'
    BY <2>1, <2>3 DEF AckBacked
  <2> QED BY <1>1, <2>1, <2>2, <2>3, <2>5, <2>6, <2>7 DEF IInv, Advances
<1>7. CASE pc' = [pc EXCEPT ![p] = "failed"]
           /\ UNCHANGED <<row, req, copy, asked, fresh, broker, faults>>
  <2>1. TypeOK'
    BY <1>7 DEF IInv, TypeOK, Pcs, broker
  <2>2. pc'[p] = "failed"
    BY <1>7 DEF IInv, TypeOK
  <2>3. HeldOK(p)'
    BY <1>1, <1>7, <2>2 DEF HeldOK, AckBacked, AgreesWithRow, broker
  <2> QED BY <1>7, <2>1, <2>3, QuietKeeps DEF IInv, TypeOK
<1> QED BY <1>5, <1>6, <1>7 DEF RecordResult, new

\* A call that ends without a write leaves everything as it is.
LEMMA EndKeeps ==
  ASSUME IInv, NEW p \in Amenders, End(p), fresh' = fresh \ {p}, row' = row,
         UNCHANGED broker, faults' \in 0..MaxFaults
  PROVE  IInv' /\ Advances
<1>1. TypeOK'
  BY EndType DEF IInv, TypeOK
<1>2. HeldOK(p)'
  BY EndHolds DEF broker
<1> QED BY <1>1, <1>2, QuietKeeps DEF End, IInv, TypeOK

\* The catch clause hands the order over, or leaves a closed one (amend).
LEMMA AmendFailsKeeps ==
  ASSUME IInv, NEW p \in Amenders, AmendFails(p)
  PROVE  IInv' /\ Advances
<1>1. req[p] \in Requests /\ copy[p] \in Rows /\ faults \in 0..MaxFaults
  BY DEF AmendFails, IInv, HeldOK, TypeOK
<1>2. CASE MayBecome(copy[p], "RECOVERY_REQUIRED")
  <2>1. WriteOK(p, HandedOver(copy[p], req[p]))
    BY <1>1, <1>2, MayBecomeOpen, HandedOverOK
  <2> QED BY <1>2, <2>1, SaveAndEndKeeps DEF AmendFails
<1>3. CASE ~MayBecome(copy[p], "RECOVERY_REQUIRED")
  BY <1>1, <1>3, EndKeeps DEF AmendFails
<1> QED BY <1>2, <1>3

\* A call that dies writes nothing more.
LEMMA CrashKeeps ==
  ASSUME IInv, NEW p \in Amenders, Crash(p)
  PROVE  IInv' /\ Advances
<1>1. faults' \in 0..MaxFaults
  BY AmendmentAssumption DEF Crash, IInv, TypeOK
<1> QED BY <1>1, EndKeeps DEF Crash

-----------------------------------------------------------------------------
(* The steps of everybody else.                                            *)

\* What another activity may make of the row.
RewriteOK(new) ==
  /\ new \in Rows /\ new.oid = row.oid /\ new.amendments = row.amendments
  /\ new.filled >= row.filled /\ new.filled <= prov.filled

\* The activities of OrderExecution write an open order's row only.
LEMMA ElsewhereWrites ==
  ASSUME IInv, Elsewhere
  PROVE  Open(row) /\ \E new \in Rows : Rewrite(new) /\ RewriteOK(new)
<1>1. row \in Rows /\ row.filled \in 0..Qty /\ prov.filled \in 0..Qty /\ Qty \in Nat
      /\ row.filled <= prov.filled
  BY AmendmentAssumption DEF IInv, TypeOK, Rows
<1>2. Open(row)
  BY DEF Elsewhere, Escalated, CancelWritten, Reconciled, Open, isTerminalOrderState, TerminalStates
<1>3. RewriteOK(row)
  BY <1>1 DEF RewriteOK
<1>4. ASSUME NEW state \in OrderStates PROVE RewriteOK([row EXCEPT !.state = state])
  BY <1>1, <1>4 DEF RewriteOK, Rows
<1>5. CASE Escalated
  <2>1. RewriteOK([row EXCEPT !.state = "RECOVERY_REQUIRED"])
    BY <1>4 DEF OrderStates
  <2> QED BY <1>2, <1>5, <2>1 DEF Escalated, RewriteOK
<1>6. CASE CancelWritten
  <2>1. RewriteOK([row EXCEPT !.state = "CANCEL_REQUESTED"])
    BY <1>4 DEF OrderStates
  <2> QED BY <1>2, <1>3, <1>6, <2>1 DEF CancelWritten, RewriteOK
<1>7. CASE Reconciled
  <2>1. ASSUME NEW review \in BOOLEAN, Rewrite([row EXCEPT !.manual = review])
        PROVE  \E new \in Rows : Rewrite(new) /\ RewriteOK(new)
    <3>1. RewriteOK([row EXCEPT !.manual = review])
      BY <1>1 DEF RewriteOK, Rows
    <3> QED BY <2>1, <3>1 DEF RewriteOK
  <2>2. ASSUME NEW s \in Pictures
        PROVE  LET told == [row EXCEPT !.filled = Booked(@, s)]
               IN  RewriteOK([told EXCEPT !.state = PictureState(s)]) /\ RewriteOK([told EXCEPT !.manual = TRUE])
    <3>1. /\ s[2] \in 0..Qty /\ s[2] >= row.filled /\ s[2] <= prov.filled
          /\ s[1] \in {"open", "filled", "canceled"}
      BY <1>1 DEF Pictures, IInv, TypeOK
    <3>2. PictureState(s) \in OrderStates
      BY <3>1 DEF PictureState, OrderStates
    <3> DEFINE told == [row EXCEPT !.filled = Booked(@, s)]
    <3>3. /\ told \in Rows /\ told.filled = s[2] /\ told.oid = row.oid
          /\ told.amendments = row.amendments
      BY <1>1, <3>1 DEF Rows, Booked
    <3> HIDE DEF told
    <3>4. RewriteOK([told EXCEPT !.state = PictureState(s)])
      BY <3>1, <3>2, <3>3 DEF RewriteOK, Rows
    <3>5. RewriteOK([told EXCEPT !.manual = TRUE])
      BY <3>1, <3>3 DEF RewriteOK, Rows
    <3> QED BY <3>4, <3>5 DEF told
  <2> QED BY <1>2, <1>7, <2>1, <2>2 DEF Reconciled, RewriteOK
<1> QED BY <1>5, <1>6, <1>7 DEF Elsewhere

\* The row as another activity leaves it: noting a cancel changes nothing else.
LEMMA Rewritten ==
  ASSUME NEW new \in Rows, Rewrite(new), RewriteOK(new)
  PROVE  /\ RewriteOK(row')
         /\ fresh' = {} /\ UNCHANGED <<pc, req, copy, asked, prov, mail, faults>>
         /\ Others = "always" \/ \A p \in Amenders : pc[p] = "idle"
<1>1. row' = new \/ row' = [new EXCEPT !.cancelClaim = TRUE]
  BY DEF Rewrite, Noted
<1>2. RewriteOK([new EXCEPT !.cancelClaim = TRUE])
  BY DEF RewriteOK, Rows
<1> QED BY <1>1, <1>2 DEF Rewrite, amender, broker

\* What the activities of OrderExecution write only advances the row, and no
\* call of amend is fresh any more.
LEMMA ElsewhereKeeps ==
  ASSUME IInv, Elsewhere
  PROVE  IInv' /\ Advances
<1>1. /\ row' \in Rows /\ row'.oid = row.oid /\ row'.amendments = row.amendments
      /\ row'.filled >= row.filled /\ row'.filled <= prov.filled
      /\ fresh' = {} /\ UNCHANGED <<pc, req, copy, asked, prov, mail, faults>>
  BY ElsewhereWrites, Rewritten DEF RewriteOK
<1>2. TypeOK'
  BY <1>1 DEF IInv, TypeOK
<1>3. ASSUME NEW q \in Amenders  PROVE HeldOK(q)'
  BY <1>1, <1>3, Bystander DEF IInv
<1>4. AckBacked(row)'
  BY <1>1 DEF IInv, AckBacked
<1> QED BY <1>1, <1>2, <1>3, <1>4, ElsewhereWrites DEF IInv, Advances

\* The broker's steps: an acceptance adds a mail entry's answer, fills grow.
LEMMA BrokerKeeps ==
  ASSUME IInv, Broker
  PROVE  IInv' /\ Advances
<1>1. /\ row' = row /\ fresh' = fresh /\ faults' = faults
      /\ UNCHANGED <<pc, req, copy, asked>>
  BY DEF Broker, AmendArrives, ProviderFills, ProviderCloses, amender
<1>2. /\ row \in Rows /\ row.filled \in Nat /\ mail \in Seq(Mail) /\ Len(mail) \in Nat
      /\ Len(mail) <= MaxSends /\ prov.filled \in 0..Qty
  BY AmendmentAssumption DEF IInv, TypeOK, Rows
<1>3. /\ mail' \in Seq(Mail) /\ Len(mail') = Len(mail) /\ MailGrows
      /\ prov' \in [st : {"open", "filled", "canceled"}, id : Ids, filled : 0..Qty]
      /\ prov'.filled >= prov.filled /\ (prov'.st = "open" => prov'.filled < Qty)
  <2>1. ASSUME NEW n \in 1..Len(mail), AmendArrives(n)  PROVE <1>3
    <3>1. mail[n] \in Mail /\ n \in Ids
      BY <1>2, AmendmentAssumption DEF Ids
    <3>2. PICK x \in {"accepted", "refused"} : mail' = [mail EXCEPT ![n].answer = x]
      BY <2>1 DEF AmendArrives
    <3>3. [mail[n] EXCEPT !.answer = x] \in Mail
      BY <3>1 DEF Mail
    <3>4. /\ mail' \in Seq(Mail) /\ Len(mail') = Len(mail)
          /\ mail'[n] = [mail[n] EXCEPT !.answer = x]
          /\ \A k \in 1..Len(mail) : k # n => mail'[k] = mail[k]
      BY <1>2, <3>2, <3>3
    <3>5. MailGrows
      BY <1>2, <2>1, <3>1, <3>4 DEF MailGrows, AmendArrives, Mail
    <3>6. prov' = prov \/ prov' = [prov EXCEPT !.id = n]
      BY <2>1 DEF AmendArrives
    <3> QED BY <1>2, <3>1, <3>4, <3>5, <3>6 DEF IInv, TypeOK
  <2>2. CASE ProviderFills
    <3>1. prov.filled < Qty
      BY <2>2 DEF ProviderFills, IInv
    <3>2. mail' = mail /\ MailGrows
      BY <1>2, <2>2 DEF ProviderFills, MailGrows
    <3>3. /\ prov' \in [st : {"open", "filled", "canceled"}, id : Ids, filled : 0..Qty]
          /\ prov'.filled = prov.filled + 1 /\ (prov'.st = "open" => prov'.filled < Qty)
      <4> DEFINE f == prov.filled + 1
      <4>1. f \in 0..Qty
        BY <1>2, <3>1, AmendmentAssumption
      <4>2. prov' = [prov EXCEPT !.filled = f, !.st = IF f = Qty THEN "filled" ELSE @]
        BY <2>2 DEF ProviderFills
      <4>3. prov \in [st : {"open", "filled", "canceled"}, id : Ids, filled : 0..Qty]
        BY DEF IInv, TypeOK
      <4> HIDE DEF f
      <4>4. /\ prov'.filled = f /\ prov'.st \in {"open", "filled", "canceled"}
            /\ prov'.st = "open" => f # Qty
            /\ prov' \in [st : {"open", "filled", "canceled"}, id : Ids, filled : 0..Qty]
        BY <2>2, <4>1, <4>2, <4>3 DEF ProviderFills
      <4> QED BY <4>1, <4>4, AmendmentAssumption DEF f
    <3> QED BY <1>2, <3>2, <3>3
  <2>3. CASE ProviderCloses
    BY <1>2, <2>3, AmendmentAssumption DEF ProviderCloses, IInv, TypeOK, MailGrows
  <2> QED BY <2>1, <2>2, <2>3 DEF Broker
<1>4. TypeOK'
  BY <1>1, <1>2, <1>3 DEF IInv, TypeOK
<1>5. ASSUME NEW q \in Amenders  PROVE HeldOK(q)'
  BY <1>1, <1>3, <1>4, <1>5, Correspondent DEF IInv
<1>6. AckBacked(row)'
  BY <1>1, <1>2, <1>3, GrowthKeeps DEF IInv, AckBacked
<1>7. row'.filled <= prov'.filled
  BY <1>1, <1>2, <1>3 DEF IInv
<1> QED BY <1>1, <1>2, <1>3, <1>4, <1>5, <1>6, <1>7 DEF IInv, Advances

-----------------------------------------------------------------------------
(* The theorems.                                                           *)

\* Every step keeps the inductive invariant and lets the row only advance.
THEOREM Consecution == IInv /\ [Next]_vars => IInv' /\ Advances
<1> SUFFICES ASSUME IInv, [Next]_vars PROVE IInv' /\ Advances
  OBVIOUS
<1>1. ASSUME NEW p \in Amenders, Amend(p)  PROVE IInv' /\ Advances
  BY <1>1, AmendReadKeeps, RecordReplayKeeps, RecordIntentKeeps, SendAmendKeeps,
     AmendThrowsKeeps, PostQueryKeeps, RecordResultKeeps, AmendFailsKeeps DEF Amend
<1>2. ASSUME NEW p \in Amenders, Crash(p)  PROVE IInv' /\ Advances
  BY <1>2, CrashKeeps
<1>3. CASE UNCHANGED vars
  <2>1. row' = row /\ fresh' = fresh /\ faults' = faults /\ mail' = mail /\ prov' = prov
        /\ pc' = pc /\ req' = req /\ copy' = copy /\ asked' = asked
    BY <1>3 DEF vars, amender, broker
  <2>2. TypeOK'
    BY <2>1 DEF IInv, TypeOK
  <2>3. ASSUME NEW q \in Amenders  PROVE HeldOK(q)'
    BY <2>1, <2>3, Bystander DEF IInv
  <2>4. AckBacked(row)'
    BY <2>1 DEF IInv, AckBacked
  <2>5. row.filled \in Nat
    BY AmendmentAssumption DEF IInv, TypeOK, Rows
  <2>6. Advances
    BY <2>1, <2>5 DEF Advances
  <2> QED BY <2>1, <2>2, <2>3, <2>4, <2>6 DEF IInv
<1> QED BY <1>1, <1>2, <1>3, ElsewhereKeeps, BrokerKeeps DEF Next

\* The inductive invariant holds in every reachable state.
THEOREM Invariance == Spec => []IInv
BY InitIInv, Consecution, PTL DEF Spec

\* Every variable keeps its type.
THEOREM TypeCorrect == Spec => []TypeOK
<1>1. IInv => TypeOK
  BY DEF IInv
<1> QED BY <1>1, Invariance, PTL

\* An acknowledged amendment is one the broker put into force, and the row's
\* order id is no older (amend).
THEOREM AcknowledgedInForce == Spec => []AckIsTrue
<1>1. IInv => AckIsTrue
  BY DEF IInv, AckBacked, AckIsTrue
<1> QED BY <1>1, Invariance, PTL

\* No call of amend, however old its copy, takes a request or a fill off the
\* row (the compare-and-set of transition).
THEOREM RecordStands == Spec => NothingForgotten
<1>1. IInv /\ [Next]_vars =>
        [ /\ \A r \in Requests : row.amendments[r] # "none" => row'.amendments[r] # "none"
          /\ row'.filled >= row.filled ]_vars
  BY Consecution DEF Advances
<1> QED BY <1>1, Invariance, PTL DEF Spec, NothingForgotten

\* A closed order is not reopened by an amendment's late result.
THEOREM ClosedIsFinal == Spec => ClosedStaysClosed
<1>1. IInv /\ [Next]_vars => [~Open(row) => row' = row]_vars
  BY Consecution DEF Advances
<1> QED BY <1>1, Invariance, PTL DEF Spec, ClosedStaysClosed
-----------------------------------------------------------------------------
(***************************************************************************)
(* Proofs about OrderAmendment when the calls of amend for an order do not *)
(* overlap, neither with each other nor with the other writers of its row: *)
(* then a request is sent once, the row addresses the order in force or    *)
(* says why it may not, and no partly filled order is amended, for any     *)
(* number of requests, repetitions, crashes and answers however late.      *)
(*                                                                         *)
(* The heart of AloneInv is that a call writes what it says it writes: it  *)
(* holds the row itself (CallOK), so its intent is on record before it     *)
(* sends.  From then on the request is unfinished in the row until its     *)
(* answer is in (MailOK), and only the last amendment sent can still       *)
(* change the order's id once its predecessors are refused (TracksOK).     *)
(***************************************************************************)
\* A request is on record and not acknowledged.
Unfinished(status) == status \in {"INTENT_RECORDED", "RECOVERY_REQUIRED"}

\* What the row says of the amendments sent.
MailOK ==
  /\ AmendAtMostOnce
  /\ \A n \in 1..Len(mail) :
       /\ mail[n].oid < n
       /\ row.amendments[mail[n].req] # "none"
       /\ mail[n].answer = "none" => Unfinished(row.amendments[mail[n].req])

\* What the row says of the order's id.
TracksOK ==
  /\ prov.id <= Len(mail) /\ row.oid <= prov.id
  /\ row.oid # prov.id => Unfinished(row.amendments[mail[prov.id].req])

\* The copy of p is the row but for what p records of its own request.
OwnRequestOnly(p) ==
  \A r \in Requests \ {req[p]} : copy[p].amendments[r] = row.amendments[r]

\* What the one call holds, by the step it is about to take.
CallOK(p) ==
  /\ pc[p] \in {"replay", "intent", "send", "sending"} => p \in fresh /\ copy[p] = row
  /\ pc[p] \in {"intent", "send", "sending"} => row.filled = 0
  /\ pc[p] = "intent" => row.amendments[req[p]] = "none"
  /\ pc[p] \in {"send", "sending"} => Unfinished(row.amendments[req[p]])
  /\ pc[p] = "send" => \A n \in 1..Len(mail) : mail[n].req # req[p]
  /\ pc[p] \in {"sending", "confirmed", "unconfirmed"} =>
       /\ asked[p] = Len(mail) /\ asked[p] > 0 /\ mail[asked[p]].req = req[p]
       /\ mail[asked[p]].answer = "accepted" => prov.id = asked[p]
  /\ pc[p] \in {"confirmed", "unconfirmed"} =>
       /\ p \in fresh
       /\ mail[asked[p]].answer = "accepted"
       /\ copy[p].amendments[req[p]] # "none" /\ OwnRequestOnly(p)
  /\ pc[p] = "confirmed" => copy[p].oid = asked[p]
  /\ pc[p] = "unconfirmed" => /\ copy[p].oid \in {row.oid, asked[p]}
                              /\ copy[p].amendments[req[p]] = "RECOVERY_REQUIRED"
  /\ pc[p] = "failed" /\ p \in fresh =>
       /\ OwnRequestOnly(p)
       /\ copy[p].oid = row.oid \/ (copy[p].oid = prov.id /\ prov.id = Len(mail))

AloneInv == MailOK /\ TracksOK /\ \A p \in Amenders : CallOK(p)

-----------------------------------------------------------------------------
(* Lemmas.                                                                 *)

\* Nothing is sent at the beginning.
LEMMA InitAlone == Init => AloneInv
BY DEF Init, AcceptedOrder, AloneInv, MailOK, TracksOK, CallOK, AmendAtMostOnce

\* What the types say of the parts the proofs look at.
LEMMA Typed ==
  ASSUME IInv
  PROVE  /\ row \in Rows /\ row.oid \in Nat /\ row.amendments \in [Requests -> Statuses]
         /\ prov.id \in Nat /\ Len(mail) \in Nat
         /\ \A n \in 1..Len(mail) : mail[n] \in Mail
         /\ \A p \in Amenders : copy[p] \in Rows /\ (pc[p] # "idle" => req[p] \in Requests)
BY AmendmentAssumption DEF IInv, TypeOK, Rows, Ids, HeldOK

\* A step that leaves the row's requests and id and the broker alone, and
\* after which the one call is where CallOK allows it.
LEMMA QuietAlone ==
  ASSUME IInv, AloneInv, NEW p \in Amenders, \A q \in Amenders : q = p,
         row'.amendments = row.amendments, row'.oid = row.oid,
         UNCHANGED broker, CallOK(p)'
  PROVE  AloneInv'
BY DEF AloneInv, MailOK, TracksOK, AmendAtMostOnce, broker

\* A write of the one call that changes its own request only.
LEMMA WriteAlone ==
  ASSUME IInv, AloneInv, NEW p \in Amenders, \A q \in Amenders : q = p,
         pc[p] # "idle", UNCHANGED broker, CallOK(p)',
         row'.amendments[req[p]] # "none",
         \A r \in Requests \ {req[p]} : row'.amendments[r] = row.amendments[r],
         \/ Unfinished(row'.amendments[req[p]])
         \/ \A n \in 1..Len(mail) : mail[n].req = req[p] => mail[n].answer # "none",
         \/ row'.oid = prov.id
         \/ row'.oid = row.oid /\ Unfinished(row'.amendments[req[p]])
  PROVE  AloneInv'
<1>1. /\ \A n \in 1..Len(mail) : mail[n].req \in Requests
      /\ prov.id \in Nat /\ row.oid \in Nat /\ Len(mail) \in Nat /\ req[p] \in Requests
  BY Typed DEF Mail
<1>2. mail' = mail /\ prov' = prov
  BY DEF broker
<1>3. ASSUME NEW n \in 1..Len(mail)
      PROVE  /\ mail[n].oid < n
             /\ row'.amendments[mail[n].req] # "none"
             /\ mail[n].answer = "none" => Unfinished(row'.amendments[mail[n].req])
             /\ Unfinished(row.amendments[mail[n].req]) /\ Unfinished(row'.amendments[req[p]])
                  => Unfinished(row'.amendments[mail[n].req])
  BY <1>1 DEF AloneInv, MailOK
<1>4. MailOK'
  BY <1>2, <1>3 DEF AloneInv, MailOK, AmendAtMostOnce
<1>5. TracksOK'
  <2>1. row.oid # prov.id => prov.id \in 1..Len(mail)
    BY <1>1 DEF AloneInv, TracksOK
  <2> QED BY <1>1, <1>2, <1>3, <2>1 DEF AloneInv, TracksOK
<1> QED BY <1>4, <1>5 DEF AloneInv

\* The write that ends the call.
LEMMA SaveAndEndAlone ==
  ASSUME IInv, AloneInv, NEW p \in Amenders, \A q \in Amenders : q = p,
         pc[p] # "idle", NEW new, SaveAndEnd(p, new), UNCHANGED broker,
         p \in fresh =>
           /\ new.amendments[req[p]] # "none"
           /\ \A r \in Requests \ {req[p]} : new.amendments[r] = row.amendments[r]
           /\ \/ Unfinished(new.amendments[req[p]])
              \/ \A n \in 1..Len(mail) : mail[n].req = req[p] => mail[n].answer # "none"
           /\ \/ new.oid = prov.id
              \/ new.oid = row.oid /\ Unfinished(new.amendments[req[p]])
  PROVE  AloneInv'
<1>1. CallOK(p)'
  BY DEF SaveAndEnd, End, CallOK, IInv, TypeOK
<1>2. CASE p \in fresh
  BY <1>1, <1>2, WriteAlone DEF SaveAndEnd, Applies
<1>3. CASE p \notin fresh
  BY <1>1, <1>3, QuietAlone DEF SaveAndEnd, Applies
<1> QED BY <1>2, <1>3

\* What the replay and the catch clause write.
LEMMA HandedOverFields ==
  ASSUME NEW c \in Rows, NEW r \in Requests
  PROVE  /\ HandedOver(c, r).oid = c.oid
         /\ HandedOver(c, r).amendments[r] = "RECOVERY_REQUIRED"
         /\ \A s \in Requests \ {r} : HandedOver(c, r).amendments[s] = c.amendments[s]
BY DEF HandedOver, Replace, Rows

-----------------------------------------------------------------------------
(* The steps of the call.                                                  *)

\* A call begins with the row itself.
LEMMA AmendReadAlone ==
  ASSUME IInv, AloneInv, NEW p \in Amenders, \A q \in Amenders : q = p,
         NEW r \in Requests, AmendRead(p, r)
  PROVE  AloneInv'
<1>1. /\ pc'[p] \in {"replay", "intent"} /\ req'[p] = r /\ copy'[p] = row /\ p \in fresh'
      /\ row' = row /\ broker' = broker
      /\ pc'[p] = "intent" => row.filled = 0 /\ row.amendments[r] = "none"
  BY Typed DEF AmendRead, Amendable, Recorded, IInv, TypeOK, Statuses
<1>2. CallOK(p)'
  BY <1>1 DEF CallOK
<1> QED BY <1>1, <1>2, QuietAlone

\* The replay hands the row it read to a human.
LEMMA RecordReplayAlone ==
  ASSUME IInv, AloneInv, NEW p \in Amenders, \A q \in Amenders : q = p, RecordReplay(p)
  PROVE  AloneInv'
<1>1. pc[p] = "replay" /\ copy[p] = row /\ row \in Rows /\ req[p] \in Requests
  BY Typed DEF RecordReplay, AloneInv, CallOK
<1> QED BY <1>1, HandedOverFields, SaveAndEndAlone DEF RecordReplay, Unfinished

\* The intent is always written.
LEMMA RecordIntentAlone ==
  ASSUME IInv, AloneInv, NEW p \in Amenders, \A q \in Amenders : q = p, RecordIntent(p)
  PROVE  AloneInv'
<1> DEFINE new == Replace(copy[p], req[p], "INTENT_RECORDED")
<1>1. /\ pc[p] = "intent" /\ p \in fresh /\ copy[p] = row /\ row \in Rows /\ req[p] \in Requests
      /\ row.filled = 0 /\ row.amendments[req[p]] = "none"
  BY Typed DEF RecordIntent, AloneInv, CallOK
<1>2. row' = new /\ fresh' = {p} /\ copy'[p] = row' /\ pc'[p] = "send" /\ req' = req
      /\ broker' = broker
  BY <1>1 DEF RecordIntent, Save, Applies, IInv, TypeOK
<1>3. /\ new.oid = row.oid /\ new.filled = row.filled
      /\ new.amendments[req[p]] = "INTENT_RECORDED"
      /\ \A s \in Requests \ {req[p]} : new.amendments[s] = row.amendments[s]
  BY <1>1 DEF Replace, Rows
<1>4. \A n \in 1..Len(mail) : mail[n].req # req[p]
  BY <1>1 DEF AloneInv, MailOK
<1>5. CallOK(p)'
  BY <1>1, <1>2, <1>3, <1>4 DEF CallOK, Unfinished, broker
<1> QED BY <1>1, <1>2, <1>3, <1>5, WriteAlone DEF Unfinished

\* The first amendment for its request.
LEMMA SendAmendAlone ==
  ASSUME IInv, AloneInv, NEW p \in Amenders, \A q \in Amenders : q = p, SendAmend(p)
  PROVE  AloneInv'
<1> DEFINE m == [req |-> req[p], oid |-> copy[p].oid, answer |-> "none"]
           k == Len(mail) + 1
<1>1. /\ pc[p] = "send" /\ p \in fresh /\ copy[p] = row /\ row.filled = 0
      /\ Unfinished(row.amendments[req[p]])
      /\ \A n \in 1..Len(mail) : mail[n].req # req[p]
  BY DEF SendAmend, AloneInv, CallOK
<1>2. /\ mail' = Append(mail, m) /\ row' = row /\ prov' = prov
      /\ req' = req /\ copy' = copy /\ fresh' = fresh
  BY DEF SendAmend
<1>3. Len(mail) \in Nat /\ row.oid \in Nat /\ prov.id \in Nat /\ mail \in Seq(Mail)
  BY Typed DEF IInv, TypeOK
<1>4. m \in Mail
  BY <1>1, Typed DEF Mail, IInv, TypeOK, Rows
<1>5. /\ Len(mail') = k /\ mail'[k] = m
      /\ \A n \in 1..Len(mail) : mail'[n] = mail[n]
  BY <1>2, <1>3, <1>4
<1>6. asked'[p] = k /\ pc'[p] = "sending"
  BY <1>5 DEF SendAmend, IInv, TypeOK
<1>7. \A n \in 1..Len(mail') : n \in 1..Len(mail) \/ n = k
  BY <1>3, <1>5
<1>8. MailOK'
  <2>1. AmendAtMostOnce'
    BY <1>1, <1>5, <1>7 DEF AloneInv, MailOK, AmendAtMostOnce
  <2>2. row.oid < k
    BY <1>3 DEF AloneInv, TracksOK
  <2> QED BY <1>1, <1>2, <1>5, <1>7, <2>1, <2>2 DEF AloneInv, MailOK, Unfinished
<1>9. TracksOK'
  <2>1. row.oid # prov.id => prov.id \in 1..Len(mail)
    BY <1>3 DEF AloneInv, TracksOK
  <2> QED BY <1>2, <1>3, <1>5, <2>1 DEF AloneInv, TracksOK
<1>10. CallOK(p)'
  BY <1>1, <1>2, <1>3, <1>5, <1>6 DEF CallOK
<1> QED BY <1>8, <1>9, <1>10 DEF AloneInv

\* A call that fails holds the row it read, so far unchanged.
LEMMA AmendThrowsAlone ==
  ASSUME IInv, AloneInv, NEW p \in Amenders, \A q \in Amenders : q = p, AmendThrows(p)
  PROVE  AloneInv'
<1>1. /\ pc'[p] = "failed" /\ copy[p] = row
      /\ UNCHANGED <<row, req, copy, asked, fresh, broker>>
  BY DEF AmendThrows, AloneInv, CallOK, IInv, TypeOK
<1>2. CallOK(p)'
  BY <1>1 DEF CallOK, OwnRequestOnly
<1> QED BY <1>1, <1>2, QuietAlone

\* The look-up's result goes into the copy.
LEMMA PostQueryAlone ==
  ASSUME IInv, AloneInv, NEW p \in Amenders, \A q \in Amenders : q = p, PostQuery(p)
  PROVE  AloneInv'
<1>1. /\ pc[p] = "sending" /\ copy[p] = row /\ p \in fresh /\ row \in Rows /\ req[p] \in Requests
      /\ mail[asked[p]].answer = "accepted"
      /\ asked[p] = Len(mail) /\ asked[p] > 0 /\ mail[asked[p]].req = req[p]
      /\ prov.id = asked[p]
  BY Typed DEF PostQuery, AloneInv, CallOK
<1>2. UNCHANGED <<row, req, asked, fresh, broker>>
  BY DEF PostQuery
<1>3. CallOK(p)'
  <2>1. CASE /\ copy' = [copy EXCEPT ![p] = Confirmed(@, req[p], asked[p])]
             /\ pc' = [pc EXCEPT ![p] = "confirmed"]
    <3>1. pc'[p] = "confirmed" /\ copy'[p] = Confirmed(row, req[p], asked[p])
      BY <1>1, <2>1 DEF IInv, TypeOK
    <3>2. /\ copy'[p].oid = asked[p] /\ copy'[p].amendments[req[p]] = "ACKNOWLEDGED"
          /\ \A r \in Requests \ {req[p]} : copy'[p].amendments[r] = row.amendments[r]
      BY <1>1, <3>1 DEF Confirmed, Replace, Rows
    <3> QED BY <1>1, <1>2, <3>1, <3>2 DEF CallOK, OwnRequestOnly, broker
  <2>2. ASSUME NEW id \in {asked[p], copy[p].oid},
               copy' = [copy EXCEPT ![p] =
                          [Replace(@, req[p], "RECOVERY_REQUIRED") EXCEPT !.oid = id,
                                                                         !.manual = FALSE]],
               pc' = [pc EXCEPT ![p] = "unconfirmed"]
        PROVE  CallOK(p)'
    <3>1. /\ pc'[p] = "unconfirmed"
          /\ copy'[p] = [Replace(row, req[p], "RECOVERY_REQUIRED") EXCEPT !.oid = id,
                                                                         !.manual = FALSE]
      BY <1>1, <2>2 DEF IInv, TypeOK
    <3>2. /\ copy'[p].oid = id /\ copy'[p].amendments[req[p]] = "RECOVERY_REQUIRED"
          /\ \A r \in Requests \ {req[p]} : copy'[p].amendments[r] = row.amendments[r]
      BY <1>1, <3>1 DEF Replace, Rows
    <3> QED BY <1>1, <1>2, <2>2, <3>1, <3>2 DEF CallOK, OwnRequestOnly, broker
  <2> QED BY <2>1, <2>2 DEF PostQuery
<1> QED BY <1>2, <1>3, QuietAlone

\* The result: the id in force, or a request that says it may not be.
LEMMA RecordResultAlone ==
  ASSUME IInv, AloneInv, NEW p \in Amenders, \A q \in Amenders : q = p, RecordResult(p)
  PROVE  AloneInv'
<1> DEFINE state == IF pc[p] = "confirmed" THEN "ACCEPTED" ELSE "RECOVERY_REQUIRED"
           new   == [copy[p] EXCEPT !.state = state]
<1>1. /\ pc[p] \in {"confirmed", "unconfirmed"} /\ p \in fresh
      /\ mail[asked[p]].answer = "accepted" /\ mail[asked[p]].req = req[p]
      /\ asked[p] = Len(mail) /\ asked[p] > 0 /\ prov.id = asked[p]
      /\ copy[p].amendments[req[p]] # "none" /\ OwnRequestOnly(p)
      /\ pc[p] = "confirmed" => copy[p].oid = asked[p]
      /\ pc[p] = "unconfirmed" => /\ copy[p].oid \in {row.oid, asked[p]}
                                  /\ copy[p].amendments[req[p]] = "RECOVERY_REQUIRED"
  BY DEF RecordResult, AloneInv, CallOK
<1>2. copy[p] \in Rows /\ row \in Rows /\ req[p] \in Requests /\ Len(mail) \in Nat
  BY <1>1, Typed
<1>3. new.oid = copy[p].oid /\ new.amendments = copy[p].amendments
  BY <1>2 DEF Rows
<1>4. \A n \in 1..Len(mail) : mail[n].req = req[p] => mail[n].answer # "none"
  BY <1>1, <1>2 DEF AloneInv, MailOK, AmendAtMostOnce
<1>5. \/ copy[p].oid = prov.id
      \/ copy[p].oid = row.oid /\ Unfinished(copy[p].amendments[req[p]])
  BY <1>1 DEF Unfinished
<1>6. CASE SaveAndEnd(p, new) /\ UNCHANGED broker
  <2>1. /\ new.amendments[req[p]] # "none"
        /\ \A r \in Requests \ {req[p]} : new.amendments[r] = row.amendments[r]
        /\ \/ new.oid = prov.id
           \/ new.oid = row.oid /\ Unfinished(new.amendments[req[p]])
    BY <1>1, <1>3, <1>5 DEF OwnRequestOnly
  <2> HIDE DEF new
  <2> QED BY <1>1, <1>4, <1>6, <2>1, SaveAndEndAlone
<1>7. CASE SaveThrows(p, new)
  <2>1. UNCHANGED <<req, broker>> /\ pc'[p] = "failed"
    BY <1>7 DEF SaveThrows, IInv, TypeOK
  <2>2. CASE UNCHANGED <<row, copy, fresh>>
    <3>1. CallOK(p)'
      BY <1>1, <2>1, <2>2 DEF CallOK, OwnRequestOnly, broker
    <3> QED BY <2>1, <2>2, <3>1, QuietAlone
  <2>3. CASE row' = new /\ fresh' = {}
    <3>1. CallOK(p)'
      BY <2>1, <2>3 DEF CallOK
    <3> QED BY <1>1, <1>3, <1>4, <1>5, <2>1, <2>3, <3>1, WriteAlone DEF OwnRequestOnly
  <2> QED BY <1>1, <1>7, <2>2, <2>3 DEF SaveThrows, Applies
<1>8. CASE /\ pc' = [pc EXCEPT ![p] = "failed"]
           /\ UNCHANGED <<row, req, copy, asked, fresh, broker, faults>>
  <2>1. pc'[p] = "failed"
    BY <1>8 DEF IInv, TypeOK
  <2>2. CallOK(p)'
    BY <1>1, <1>8, <2>1 DEF CallOK, OwnRequestOnly, broker
  <2> QED BY <1>8, <2>2, QuietAlone
<1> QED BY <1>6, <1>7, <1>8 DEF RecordResult

\* The catch clause marks the request as unfinished.
LEMMA AmendFailsAlone ==
  ASSUME IInv, AloneInv, NEW p \in Amenders, \A q \in Amenders : q = p, AmendFails(p)
  PROVE  AloneInv'
<1>1. /\ pc[p] = "failed" /\ copy[p] \in Rows /\ req[p] \in Requests
      /\ p \in fresh => /\ OwnRequestOnly(p)
                        /\ copy[p].oid = row.oid \/ copy[p].oid = prov.id
  BY Typed DEF AmendFails, AloneInv, CallOK
<1>2. CASE SaveAndEnd(p, HandedOver(copy[p], req[p])) /\ UNCHANGED broker
  BY <1>1, <1>2, HandedOverFields, SaveAndEndAlone DEF OwnRequestOnly, Unfinished
<1>3. CASE End(p) /\ UNCHANGED <<row, broker>>
  <2>1. CallOK(p)'
    BY <1>3 DEF End, CallOK, IInv, TypeOK
  <2> QED BY <1>3, <2>1, QuietAlone
<1> QED BY <1>2, <1>3 DEF AmendFails

\* A call that dies leaves what it last wrote.
LEMMA CrashAlone ==
  ASSUME IInv, AloneInv, NEW p \in Amenders, \A q \in Amenders : q = p, Crash(p)
  PROVE  AloneInv'
<1>1. CallOK(p)' /\ UNCHANGED <<row, broker>>
  BY DEF Crash, End, CallOK, IInv, TypeOK
<1> QED BY <1>1, QuietAlone

-----------------------------------------------------------------------------
(* The other writers and the broker.                                       *)

\* Between the calls, the row's requests and id are left alone.
LEMMA ElsewhereAlone ==
  ASSUME Others # "always", IInv, AloneInv, Elsewhere
  PROVE  AloneInv'
<1>1. /\ row'.oid = row.oid /\ row'.amendments = row.amendments
      /\ broker' = broker /\ UNCHANGED <<pc, req, copy, asked>>
      /\ \A p \in Amenders : pc'[p] = "idle"
  BY ElsewhereWrites, Rewritten DEF RewriteOK, broker
<1> QED BY <1>1 DEF AloneInv, MailOK, TracksOK, CallOK, AmendAtMostOnce, broker

\* Of the amendments on their way only one that addresses the order in force is
\* accepted, and none but the last can.
LEMMA ArrivesAlone ==
  ASSUME IInv, AloneInv, NEW n \in 1..Len(mail), AmendArrives(n)
  PROVE  AloneInv'
<1> DEFINE took == mail[n].oid = prov.id /\ prov.st = "open"
<1>1. /\ row' = row /\ UNCHANGED <<pc, req, copy, asked, fresh>>
      /\ mail[n].answer = "none"
      /\ mail' = [mail EXCEPT ![n].answer = IF took THEN "accepted" ELSE "refused"]
      /\ prov' = IF took THEN [prov EXCEPT !.id = n] ELSE prov
  BY DEF AmendArrives, amender
<1>2. /\ mail \in Seq(Mail) /\ Len(mail) \in Nat /\ prov.id \in Nat /\ row.oid \in Nat
      /\ prov'.id = IF took THEN n ELSE prov.id
  BY <1>1, Typed DEF IInv, TypeOK
<1>3. /\ Len(mail') = Len(mail)
      /\ \A k \in 1..Len(mail) :
           /\ mail'[k].req = mail[k].req /\ mail'[k].oid = mail[k].oid
           /\ k # n => mail'[k] = mail[k]
      /\ mail'[n].answer = IF took THEN "accepted" ELSE "refused"
  BY <1>1, <1>2, Typed DEF Mail
<1>4. MailOK'
  <2>1. AmendAtMostOnce'
    BY <1>3 DEF AloneInv, MailOK, AmendAtMostOnce
  <2>2. ASSUME NEW k \in 1..Len(mail)
        PROVE  /\ mail'[k].oid < k
               /\ row'.amendments[mail'[k].req] # "none"
               /\ mail'[k].answer = "none" => Unfinished(row'.amendments[mail'[k].req])
    BY <1>1, <1>3 DEF AloneInv, MailOK
  <2> QED BY <1>3, <2>1, <2>2 DEF MailOK
<1>5. Unfinished(row.amendments[mail[n].req]) /\ mail[n].oid < n
  BY <1>1 DEF AloneInv, MailOK
<1>6. TracksOK'
  <2>1. row.oid # prov.id => prov.id \in 1..Len(mail)
    BY <1>2 DEF AloneInv, TracksOK
  <2> QED BY <1>1, <1>2, <1>3, <1>5, <2>1 DEF AloneInv, TracksOK
<1>7. ASSUME NEW p \in Amenders  PROVE CallOK(p)'
  <2>1. CallOK(p) /\ copy[p].oid \in Nat
    BY AmendmentAssumption DEF AloneInv, IInv, TypeOK, Rows, Ids
  <2>2. prov.id = Len(mail) => ~took
    BY <1>2, <1>5
  <2>3. asked[p] = Len(mail) /\ asked[p] > 0 =>
          /\ mail'[asked[p]].req = mail[asked[p]].req
          /\ mail[asked[p]].answer = "accepted" => mail'[asked[p]].answer = "accepted"
          /\ mail'[asked[p]].answer = "accepted" /\ mail[asked[p]].answer # "accepted"
               => prov'.id = asked[p]
    BY <1>1, <1>2, <1>3
  <2>4. CASE pc[p] \in {"idle", "replay", "intent", "send", "failed"}
    BY <1>1, <1>2, <1>3, <2>1, <2>2, <2>4 DEF CallOK, OwnRequestOnly
  <2>5. CASE pc[p] = "sending"
    BY <1>1, <1>2, <1>3, <2>1, <2>2, <2>3, <2>5 DEF CallOK
  <2>6. CASE pc[p] \in {"confirmed", "unconfirmed"}
    BY <1>1, <1>2, <1>3, <2>1, <2>2, <2>3, <2>6 DEF CallOK, OwnRequestOnly
  <2> QED BY <2>4, <2>5, <2>6 DEF IInv, TypeOK, Pcs
<1> QED BY <1>4, <1>6, <1>7 DEF AloneInv

\* A fill or a close changes no id.
LEMMA BrokerAlone ==
  ASSUME IInv, AloneInv, Broker
  PROVE  AloneInv'
<1>1. CASE ProviderFills \/ ProviderCloses
  <2>1. UNCHANGED <<row, pc, req, copy, asked, fresh, mail>> /\ prov'.id = prov.id
    BY <1>1 DEF ProviderFills, ProviderCloses, amender, IInv, TypeOK
  <2> QED BY <2>1
          DEF AloneInv, MailOK, TracksOK, CallOK, OwnRequestOnly, AmendAtMostOnce
<1> QED BY <1>1, ArrivesAlone DEF Broker

-----------------------------------------------------------------------------
(* The theorems.                                                           *)

\* Calls of amend are made one after another, and the other writers of the
\* row work between them.
OneAtATime ==
  /\ \A p, q \in Amenders : p = q
  /\ Others # "always"

\* Without overlap, every step keeps AloneInv.
THEOREM AloneKept ==
  ASSUME OneAtATime
  PROVE  IInv /\ AloneInv /\ [Next]_vars => AloneInv'
<1> SUFFICES ASSUME IInv, AloneInv, [Next]_vars PROVE AloneInv'
  OBVIOUS
<1>1. ASSUME NEW p \in Amenders, Amend(p) \/ Crash(p)  PROVE AloneInv'
  BY <1>1, AmendReadAlone, RecordReplayAlone, RecordIntentAlone, SendAmendAlone,
     AmendThrowsAlone, PostQueryAlone, RecordResultAlone, AmendFailsAlone, CrashAlone
     DEF Amend, OneAtATime
<1>2. CASE UNCHANGED vars
  BY <1>2 DEF vars, amender, broker, AloneInv, MailOK, TracksOK, CallOK, OwnRequestOnly,
              AmendAtMostOnce
<1> QED BY <1>1, <1>2, ElsewhereAlone, BrokerAlone DEF Next, OneAtATime

\* AloneInv holds in every reachable state.
LEMMA AloneInvariant ==
  ASSUME OneAtATime
  PROVE  Spec => []AloneInv
BY InitAlone, AloneKept, Invariance, PTL DEF Spec

\* A request that is repeated, and crashes anywhere, is sent once.
THEOREM AmendedOnce ==
  ASSUME OneAtATime
  PROVE  Spec => []AmendAtMostOnce
<1>1. AloneInv => AmendAtMostOnce
  BY DEF AloneInv, MailOK
<1> QED BY <1>1, AloneInvariant, PTL

\* An id the row does not have is that of an amendment the row has not
\* finished.
THEOREM IdTracked ==
  ASSUME OneAtATime
  PROVE  Spec => []RowTracksOrder
<1>1. IInv /\ AloneInv => RowTracksOrder
  <2> SUFFICES ASSUME IInv, AloneInv, row.oid # prov.id  PROVE RowTracksOrder
    BY DEF RowTracksOrder
  <2>1. prov.id \in 1..Len(mail) /\ Unfinished(row.amendments[mail[prov.id].req])
    BY Typed DEF AloneInv, TracksOK
  <2>2. mail[prov.id].req \in Requests
    BY <2>1, Typed DEF Mail
  <2> QED BY <2>1, <2>2 DEF RowTracksOrder, Unfinished
<1> QED BY <1>1, AloneInvariant, Invariance, PTL

\* No order that its caller knows to be partly filled is amended.
THEOREM NoFillAmended ==
  ASSUME OneAtATime
  PROVE  Spec => []PartialFillNotAmended
<1>1. AloneInv => PartialFillNotAmended
  BY DEF AloneInv, CallOK, PartialFillNotAmended
<1> QED BY <1>1, AloneInvariant, PTL
=============================================================================
