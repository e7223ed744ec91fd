------------------------- MODULE AtomicOrderProofs -------------------------
EXTENDS AtomicOrder, TLAPS

Provider == [ st     : {"absent", "open", "filled", "canceled", "rejected"},
              filled : 0..Qty ]

TypeOK ==
  /\ row \in Rows
  /\ posts \in {0, 1}
  /\ wire \in BOOLEAN
  /\ prov \in Provider

\* What the row and the broker agree on.
AInv ==
  /\ TypeOK
  /\ posts = 0 => ~wire /\ prov.st = "absent"
  /\ wire => prov.st = "absent"
  /\ prov.st \in {"absent", "rejected"} => prov.filled = 0
  /\ prov.st = "open" => prov.filled < Qty
  /\ prov.st = "filled" => prov.filled = Qty
  /\ row.filled <= prov.filled
  /\ row.state = "SUBMITTED" => row.filled = 0
  /\ row.state = "CANCELED" => prov.st = "canceled" \/ (LateFills /\ prov.st = "filled")

-----------------------------------------------------------------------------
(* Lemmas.                                                                 *)

QtyOK == Qty \in Nat \ {0}

LEMMA InitA == ASSUME QtyOK, Init PROVE AInv
<1>1. 0 \in 0..Qty /\ 0 \in 0..RetryLimit
  BY DEF QtyOK, RetryLimit
<1>2. row \in Rows
  BY <1>1 DEF Init, Rows, OrderStates
<1>3. prov \in Provider /\ prov.st = "absent" /\ prov.filled = 0
  BY <1>1 DEF Init, Provider
<1>4. row.filled = 0 /\ row.state = "SUBMITTED" /\ posts = 0 /\ wire = FALSE
  BY DEF Init
<1>5. TypeOK
  BY <1>2, <1>3, <1>4 DEF TypeOK
<1>6. wire => prov.st = "absent"
  BY <1>3
<1>7. row.filled <= prov.filled
  BY <1>3, <1>4
<1> QED BY <1>3, <1>4, <1>5, <1>6, <1>7 DEF AInv

\* A note of the cancel changes nothing else.
LEMMA NotedRow ==
  ASSUME NEW r \in Rows, NEW n \in Noted(r)
  PROVE  /\ n \in Rows /\ n.state = r.state /\ n.claimed = r.claimed /\ n.intent = r.intent
         /\ n.oid = r.oid /\ n.filled = r.filled /\ n.retry = r.retry /\ n.manual = r.manual
BY DEF Noted, Rows

\* A failed attempt changes the state, the count and the review only.
LEMMA PendingRow ==
  ASSUME NEW r \in Rows, NEW review \in BOOLEAN
  PROVE  LET n == Pending(r, review)
         IN  /\ n \in Rows /\ n.state = "RECOVERY_REQUIRED" /\ n.claimed = r.claimed
             /\ n.intent = r.intent /\ n.filled = r.filled
<1>1. r.retry \in 0..RetryLimit /\ Bump(r.retry) \in 0..RetryLimit
  BY DEF Bump, RetryLimit, Rows
<1> DEFINE m == review \/ Bump(r.retry) >= RetryLimit
<1>2. m \in BOOLEAN
  OBVIOUS
<1>3. Pending(r, review) = [r EXCEPT !.state = "RECOVERY_REQUIRED", !.retry = Bump(r.retry), !.manual = m]
  BY DEF Pending, Rows
<1> HIDE DEF m
<1> QED BY <1>1, <1>2, <1>3 DEF Rows, OrderStates

\* A picture changes the fields it shows.
LEMMA InformedRow ==
  ASSUME NEW r \in Rows, NEW s, s.filled \in 0..Qty
  PROVE  LET n == Informed(r, s)
         IN  /\ n \in Rows /\ n.state = r.state /\ n.claimed = r.claimed /\ n.intent = r.intent
             /\ n.filled = s.filled
<1>1. 0 \in 0..RetryLimit
  BY DEF RetryLimit
<1>2. Informed(r, s) = [r EXCEPT !.oid = TRUE, !.filled = s.filled, !.retry = 0, !.manual = FALSE]
  BY DEF Informed
<1> HIDE DEF Informed
<1> QED BY <1>1, <1>2 DEF Rows

\* What a write leaves of the row, and where it moves the order: the summary the
\* theorems are proved from.
Moved(s) == row'.state = s /\ row'.claimed = row.claimed

Wrote ==
  \/ /\ row.state = "SUBMITTED" /\ ~row.intent /\ row'.filled = row.filled
     /\ \/ Moved("REJECTED") /\ row'.intent = row.intent
        \/ Moved("SUBMITTED") /\ row.claimed /\ row'.intent = TRUE
        \/ row'.state = "SUBMITTED" /\ row'.claimed = TRUE /\ row'.intent = row.intent
  \/ /\ row.state = "SUBMITTED" /\ row.intent /\ prov.st \notin {"absent", "rejected"}
     /\ Moved("ACCEPTED") /\ row'.filled = row.filled /\ row'.intent = row.intent
  \/ /\ row.state \in Working \cup {"RECOVERY_REQUIRED"}
     /\ row'.intent = row.intent \/ (row.claimed /\ row'.intent = TRUE)
     /\ Moved("RECOVERY_REQUIRED") /\ row'.filled = row.filled
  \/ /\ row.state = "RECOVERY_REQUIRED" /\ row'.intent = row.intent
     /\ \E s \in Pictures : /\ row'.filled = s.filled
                            /\ Moved("RECOVERY_REQUIRED") \/ Moved(PictureState(s))
  \/ /\ row.state = "CANCELED" /\ row.filled < Qty /\ prov.st = "filled"
     /\ Moved("FILLED") /\ row'.filled = prov.filled /\ row'.intent = row.intent
  \/ /\ row.state \in Working /\ row'.intent = row.intent
     /\ Moved("CANCEL_REQUESTED") /\ row'.filled = row.filled

LEMMA WriteWrites ==
  ASSUME QtyOK, AInv, Write  PROVE row' \in Rows /\ Wrote /\ UNCHANGED <<posts, wire, prov>>
<1>1. row \in Rows /\ prov \in Provider /\ UNCHANGED <<posts, wire, prov>>
  BY DEF AInv, TypeOK, Write
<1>2. CASE Refuse
  BY <1>1, <1>2 DEF Refuse, Rows, OrderStates, Wrote, Moved
<1>3. CASE Claim
  BY <1>1, <1>3 DEF Claim, Rows, OrderStates, Wrote, Moved
<1>4. CASE RecordIntent
  BY <1>1, <1>4 DEF RecordIntent, Rows, OrderStates, Wrote, Moved
<1>5. CASE Acknowledge
  BY <1>1, <1>5 DEF Acknowledge, Rows, OrderStates, Wrote, Moved
<1>6. CASE SubmissionFails
  BY <1>1, <1>6 DEF SubmissionFails, Rows, OrderStates, Wrote, Moved
<1>7. CASE Escalate
  <2>1. CASE row' \in Noted([row EXCEPT !.state = "RECOVERY_REQUIRED"])
    <3> DEFINE r == [row EXCEPT !.state = "RECOVERY_REQUIRED"]
    <3>1. r \in Rows /\ r.state = "RECOVERY_REQUIRED" /\ r.claimed = row.claimed
          /\ r.intent = row.intent /\ r.filled = row.filled
      BY <1>1 DEF Rows, OrderStates
    <3> HIDE DEF r
    <3>2. row' \in Noted(r)
      BY <2>1 DEF r
    <3> QED BY <1>1, <1>7, <3>1, <3>2, NotedRow DEF Escalate, Wrote, Moved
  <2>2. CASE row' \in Noted(Pending(row, FALSE))
    <3> DEFINE r == Pending(row, FALSE)
    <3>1. r \in Rows /\ r.state = "RECOVERY_REQUIRED" /\ r.claimed = row.claimed
          /\ r.intent = row.intent /\ r.filled = row.filled
      BY <1>1, PendingRow
    <3> HIDE DEF r
    <3>2. row' \in Noted(r)
      BY <2>2 DEF r
    <3> QED BY <1>1, <1>7, <3>1, <3>2, NotedRow DEF Escalate, Wrote, Moved
  <2> QED BY <1>7, <2>1, <2>2 DEF Escalate
<1>8. CASE ReconcileFails
  <2>1. PICK review \in BOOLEAN, known \in {row.oid, TRUE} :
          row' \in Noted(Pending([row EXCEPT !.oid = known], review))
    BY <1>8 DEF ReconcileFails
  <2> DEFINE r == [row EXCEPT !.oid = known]
  <2>2. r \in Rows /\ r.claimed = row.claimed /\ r.intent = row.intent /\ r.filled = row.filled
    BY <1>1 DEF Rows
  <2> HIDE DEF r
  <2>3. row' \in Noted(Pending(r, review))
    BY <2>1 DEF r
  <2>4. /\ row' \in Rows /\ row'.state = "RECOVERY_REQUIRED" /\ row'.claimed = row.claimed
        /\ row'.intent = row.intent /\ row'.filled = row.filled
    BY <2>2, <2>3, PendingRow, NotedRow
  <2> QED BY <1>1, <1>8, <2>4 DEF ReconcileFails, Reconcilable, Wrote, Moved
<1>9. CASE Reconcile
  <2>1. PICK s \in Pictures :
          \E r \in {[Informed(row, s) EXCEPT !.state = PictureState(s)], Pending(Informed(row, s), TRUE)} :
             row' \in Noted(r)
    BY <1>9 DEF Reconcile
  <2>2. s.filled \in 0..Qty /\ PictureState(s) \in OrderStates
    <3>1. s.filled \in row.filled .. prov.filled /\ s.st \in {"open", "filled", "canceled", "rejected"}
      BY DEF Pictures
    <3>2. s.filled \in 0..Qty
      BY <1>1, <3>1 DEF QtyOK, Rows, Provider
    <3>3. s.filled = 0 \/ s.filled > 0
      BY <3>2
    <3> QED BY <3>1, <3>2, <3>3 DEF PictureState, OrderStates
  <2> DEFINE i == Informed(row, s)
  <2>3. /\ i \in Rows /\ i.claimed = row.claimed /\ i.intent = row.intent /\ i.filled = s.filled
    BY <1>1, <2>2, InformedRow
  <2> HIDE DEF i
  <2>4. CASE row' \in Noted([i EXCEPT !.state = PictureState(s)])
    <3> DEFINE r == [i EXCEPT !.state = PictureState(s)]
    <3>1. r \in Rows /\ r.state = PictureState(s) /\ r.claimed = row.claimed
          /\ r.intent = row.intent /\ r.filled = s.filled
      BY <2>2, <2>3 DEF Rows
    <3> HIDE DEF r
    <3>2. row' \in Noted(r)
      BY <2>4 DEF r
    <3>3. /\ row' \in Rows /\ row'.state = PictureState(s) /\ row'.claimed = row.claimed
          /\ row'.intent = row.intent /\ row'.filled = s.filled
      BY <3>1, <3>2, NotedRow
    <3> QED BY <1>1, <1>9, <3>3 DEF Reconcile, Reconcilable, Wrote, Moved
  <2>5. CASE row' \in Noted(Pending(i, TRUE))
    <3>1. /\ row' \in Rows /\ row'.state = "RECOVERY_REQUIRED" /\ row'.claimed = row.claimed
          /\ row'.intent = row.intent /\ row'.filled = s.filled
      <4> DEFINE r == Pending(i, TRUE)
      <4>1. r \in Rows /\ r.state = "RECOVERY_REQUIRED" /\ r.claimed = row.claimed
            /\ r.intent = row.intent /\ r.filled = s.filled
        BY <2>3, PendingRow
      <4> HIDE DEF r
      <4>2. row' \in Noted(r)
        BY <2>5 DEF r
      <4> QED BY <4>1, <4>2, NotedRow
    <3> QED BY <1>1, <1>9, <3>1 DEF Reconcile, Reconcilable, Wrote, Moved
  <2> QED BY <2>1, <2>4, <2>5 DEF i
<1>10. CASE CorrectFill
  <2> DEFINE i == Informed(row, prov)
             r == [i EXCEPT !.state = "FILLED"]
  <2>1. /\ i \in Rows /\ i.claimed = row.claimed /\ i.intent = row.intent /\ i.filled = prov.filled
    BY <1>1, InformedRow DEF Provider
  <2> HIDE DEF i
  <2>2. r \in Rows /\ r.state = "FILLED" /\ r.claimed = row.claimed
        /\ r.intent = row.intent /\ r.filled = prov.filled
    BY <2>1 DEF Rows, OrderStates
  <2> HIDE DEF r
  <2>3. row' \in Noted(r)
    BY <1>10 DEF CorrectFill, r, i
  <2>4. /\ row' \in Rows /\ row'.state = "FILLED" /\ row'.claimed = row.claimed
        /\ row'.intent = row.intent /\ row'.filled = prov.filled
    BY <2>2, <2>3, NotedRow
  <2> QED BY <1>1, <1>10, <2>4 DEF CorrectFill, Wrote, Moved
<1>11. CASE CancelClaim
  <2>1. /\ row' \in Rows /\ row'.claimed = row.claimed /\ row'.intent = row.intent
        /\ row'.filled = row.filled
        /\ row'.state = IF row.state = "RECOVERY_REQUIRED" THEN row.state ELSE "CANCEL_REQUESTED"
    BY <1>1, <1>11 DEF CancelClaim, Rows, OrderStates
  <2>2. row.state \in Working \cup {"RECOVERY_REQUIRED"}
    BY <1>11 DEF CancelClaim
  <2> QED BY <1>1, <2>1, <2>2 DEF Wrote, Moved, Working
<1>12. CASE Invalidate
  BY <1>1, <1>12 DEF Invalidate, Rows, OrderStates, Wrote, Moved, Working
<1> QED
  BY <1>1, <1>2, <1>3, <1>4, <1>5, <1>6, <1>7, <1>8, <1>9, <1>10, <1>11, <1>12 DEF Write

\* A picture that the row takes over.
LEMMA PictureKinds ==
  ASSUME QtyOK, AInv, NEW s \in Pictures
  PROVE  /\ s.filled \in 0..Qty /\ row.filled <= s.filled /\ s.filled <= prov.filled
         /\ prov.st # "absent" /\ posts # 0 /\ ~wire
         /\ \/ PictureState(s) = "ACCEPTED" /\ s.filled = 0
            \/ PictureState(s) = "PARTIALLY_FILLED" /\ s.filled > 0
            \/ PictureState(s) = "FILLED" /\ s = prov /\ prov.st = "filled"
            \/ PictureState(s) = "CANCELED" /\ s = prov /\ prov.st = "canceled"
            \/ PictureState(s) = "CANCELED" /\ LateFills /\ prov.st = "filled"
            \/ PictureState(s) = "REJECTED" /\ s = prov /\ prov.st = "rejected"
<1>1. /\ s.st \in {"open", "filled", "canceled", "rejected"}
      /\ s.filled \in row.filled .. prov.filled /\ prov.st # "absent"
      /\ s.st \in {"filled", "rejected"} => s = prov
      /\ s.st = "canceled" => s = prov \/ (LateFills /\ prov.st = "filled" /\ s.filled < Qty)
  BY DEF Pictures
<1>2. row.filled \in 0..Qty /\ prov.filled \in 0..Qty
  BY DEF AInv, TypeOK, Rows, Provider
<1>3. s.filled \in 0..Qty /\ row.filled <= s.filled /\ s.filled <= prov.filled
  BY <1>1, <1>2 DEF QtyOK
<1>4. posts # 0 /\ ~wire
  BY <1>1 DEF AInv
<1>5. s.filled = 0 \/ s.filled > 0
  BY <1>3
<1>6. CASE s.st = "open"
  BY <1>1, <1>3, <1>4, <1>5, <1>6 DEF PictureState
<1>7. CASE s.st = "filled"
  BY <1>1, <1>3, <1>4, <1>7 DEF PictureState
<1>8. CASE s.st = "canceled"
  BY <1>1, <1>3, <1>4, <1>8 DEF PictureState
<1>9. CASE s.st = "rejected"
  BY <1>1, <1>3, <1>4, <1>9 DEF PictureState
<1> QED BY <1>1, <1>6, <1>7, <1>8, <1>9

LEMMA WriteKeeps ==
  ASSUME QtyOK, AInv, Write  PROVE AInv'
<1>1. row' \in Rows /\ Wrote /\ UNCHANGED <<posts, wire, prov>>
  BY WriteWrites
<1>2. row.filled \in 0..Qty /\ prov.filled \in 0..Qty /\ row.filled <= prov.filled
  BY DEF AInv, TypeOK, Rows, Provider
<1>3. /\ row'.filled <= prov.filled
      /\ row'.state = "SUBMITTED" => row'.filled = 0
      /\ row'.state = "CANCELED" => prov.st = "canceled" \/ (LateFills /\ prov.st = "filled")
  <2>1. CASE \E s \in Pictures : /\ row'.filled = s.filled
                                 /\ Moved("RECOVERY_REQUIRED") \/ Moved(PictureState(s))
    <3>1. PICK s \in Pictures : /\ row'.filled = s.filled
                                /\ Moved("RECOVERY_REQUIRED") \/ Moved(PictureState(s))
      BY <2>1
    <3>2. row'.filled <= prov.filled
      <4>1. s.filled <= prov.filled
        BY PictureKinds
      <4>2. row'.filled = s.filled
        BY <3>1
      <4> QED BY <4>1, <4>2
    <3>3. row'.state \in {"RECOVERY_REQUIRED", PictureState(s)}
      BY <3>1 DEF Moved
    <3>4. row'.state # "SUBMITTED"
      BY <3>3, PictureKinds
    <3> QED BY <3>2, <3>3, <3>4, PictureKinds
  <2>2. CASE row'.filled = row.filled
             /\ \/ row.state = "SUBMITTED" /\ row'.state \in {"SUBMITTED", "REJECTED", "ACCEPTED"}
                \/ row'.state \in {"RECOVERY_REQUIRED", "CANCEL_REQUESTED"}
    BY <1>2, <2>2 DEF AInv
  <2>3. CASE row'.filled = prov.filled /\ row'.state = "FILLED"
    BY <1>2, <2>3
  <2> QED BY <1>1, <2>1, <2>2, <2>3 DEF Wrote, Moved
<1> QED BY <1>1, <1>3 DEF AInv, TypeOK

LEMMA BrokerKeeps ==
  ASSUME QtyOK, AInv, Post \/ PostArrives \/ ProviderFills \/ ProviderCloses  PROVE AInv'
<1>1. /\ row \in Rows /\ posts \in {0, 1} /\ wire \in BOOLEAN /\ prov \in Provider
      /\ row.filled \in 0..Qty /\ prov.filled \in 0..Qty /\ Qty \in Nat \ {0}
  BY DEF AInv, TypeOK, Rows, Provider, QtyOK
<1>2. CASE Post
  <2>1. UNCHANGED <<row, prov>> /\ posts' = 1 /\ wire' = TRUE /\ prov.st = "absent"
    BY <1>2 DEF Post, AInv
  <2>2. TypeOK'
    BY <1>1, <2>1 DEF TypeOK
  <2> QED BY <2>1, <2>2 DEF AInv
<1>3. CASE PostArrives
  <2>1. UNCHANGED <<row, posts>> /\ wire' = FALSE /\ prov.st = "absent" /\ prov.filled = 0 /\ posts # 0
    BY <1>3 DEF PostArrives, AInv
  <2>2. /\ prov' \in Provider /\ prov'.filled = 0
        /\ prov'.st \in {"absent", "open", "rejected"}
    BY <1>1, <1>3, <2>1 DEF PostArrives, Provider
  <2>3. TypeOK'
    BY <1>1, <2>1, <2>2 DEF TypeOK
  <2>4. row.state # "CANCELED" /\ row.filled <= 0 /\ (row.state = "SUBMITTED" => row.filled = 0)
    BY <2>1 DEF AInv
  <2> QED BY <1>1, <2>1, <2>2, <2>3, <2>4 DEF AInv
<1>4. CASE ProviderFills
  <2>1. /\ UNCHANGED <<row, posts, wire>> /\ prov.st = "open" /\ posts # 0 /\ ~wire
        /\ prov.filled < Qty /\ row.filled <= prov.filled /\ row.state # "CANCELED"
        /\ row.state = "SUBMITTED" => row.filled = 0
    BY <1>4 DEF ProviderFills, AInv
  <2>2. /\ prov' \in Provider /\ prov'.filled = prov.filled + 1
        /\ prov'.st = "filled" => prov'.filled = Qty
        /\ prov'.st = "open" => prov'.filled < Qty
        /\ prov'.st \in {"open", "filled"}
    BY <1>1, <1>4, <2>1 DEF ProviderFills, Provider
  <2>3. TypeOK'
    BY <1>1, <2>1, <2>2 DEF TypeOK
  <2>4. row.filled <= prov'.filled
    BY <1>1, <2>1, <2>2
  <2> QED BY <2>1, <2>2, <2>3, <2>4 DEF AInv
<1>5. CASE ProviderCloses
  <2>1. /\ UNCHANGED <<row, posts, wire>> /\ prov.st \in {"open", "canceled"} /\ posts # 0 /\ ~wire
        /\ row.filled <= prov.filled /\ row.state = "SUBMITTED" => row.filled = 0
    BY <1>5 DEF ProviderCloses, AInv
  <2>2. row.filled <= prov.filled /\ (row.state = "SUBMITTED" => row.filled = 0)
    BY DEF AInv
  <2>3. CASE prov.st = "open" /\ prov' = [prov EXCEPT !.st = "canceled"]
    <3>1. prov' \in Provider /\ prov'.st = "canceled" /\ prov'.filled = prov.filled
      BY <1>1, <2>3 DEF Provider
    <3>2. TypeOK'
      BY <1>1, <2>1, <3>1 DEF TypeOK
    <3> QED BY <2>1, <2>2, <3>1, <3>2 DEF AInv
  <2>4. CASE LateFills /\ prov.st = "canceled" /\ prov' = [st |-> "filled", filled |-> Qty]
    <3>1. prov' \in Provider /\ prov'.st = "filled" /\ prov'.filled = Qty
      BY <1>1, <2>4 DEF Provider
    <3>2. TypeOK'
      BY <1>1, <2>1, <3>1 DEF TypeOK
    <3>3. row.filled <= prov'.filled
      BY <1>1, <3>1
    <3> QED BY <2>1, <2>2, <2>4, <3>1, <3>2, <3>3 DEF AInv
  <2> QED BY <1>5, <2>3, <2>4 DEF ProviderCloses
<1> QED BY <1>2, <1>3, <1>4, <1>5

LEMMA StutterKeeps == ASSUME AInv, UNCHANGED vars PROVE AInv'
<1>1. UNCHANGED <<row, posts, wire, prov>>
  BY DEF vars
<1> QED BY <1>1 DEF AInv, TypeOK

\* The row and the broker agree, always.
THEOREM AtomicInvariance == ASSUME QtyOK PROVE Spec => []AInv
<1>1. AInv /\ [Next]_vars => AInv'
  BY WriteKeeps, BrokerKeeps, StutterKeeps DEF Next
<1> QED BY InitA, <1>1, PTL DEF Spec

-----------------------------------------------------------------------------
(* The table of transitions.                                               *)

LEMMA WriteFollows ==
  ASSUME QtyOK, AInv, Write, row'.state # row.state
  PROVE  \/ canTransitionOrder(row.state, row'.state)
         \/ row.state = "CANCELED" /\ row'.state = "FILLED" /\ row'.filled > row.filled
<1>1. Wrote /\ row.filled \in 0..Qty
  BY WriteWrites DEF AInv, TypeOK, Rows
<1>2. CASE row.state = "RECOVERY_REQUIRED" /\ \E s \in Pictures : Moved("RECOVERY_REQUIRED") \/ Moved(PictureState(s))
  BY <1>2, PictureKinds DEF Moved, canTransitionOrder, TRANSITIONS
<1>3. CASE row.state = "CANCELED" /\ row.filled < Qty /\ prov.st = "filled"
           /\ row'.state = "FILLED" /\ row'.filled = prov.filled
  BY <1>1, <1>3 DEF AInv, QtyOK
<1>4. CASE \/ row.state = "SUBMITTED" /\ row'.state \in {"SUBMITTED", "REJECTED", "ACCEPTED"}
           \/ row.state \in Working \cup {"RECOVERY_REQUIRED"} /\ row'.state = "RECOVERY_REQUIRED"
           \/ row.state \in Working /\ row'.state = "CANCEL_REQUESTED"
  BY <1>4 DEF canTransitionOrder, TRANSITIONS, Working
<1> QED BY <1>1, <1>2, <1>3, <1>4 DEF Wrote, Moved

THEOREM FollowsTable == ASSUME QtyOK PROVE Spec => StatesFollowTable
<1>1. AInv /\ [Next]_vars => [TableStep]_row
  BY WriteFollows DEF Next, vars, Post, PostArrives, ProviderFills, ProviderCloses, TableStep
<1> QED BY AtomicInvariance, <1>1, PTL DEF Spec, StatesFollowTable

-----------------------------------------------------------------------------
(* The order the entry budget counts on.                                   *)

LEMMA EntryFields ==
  ASSUME NEW r
  PROVE  /\ Entry(r).state = r.state /\ Entry(r).claimed = r.claimed /\ Entry(r).intent = r.intent
         /\ Entry(r).filled = (r.filled > 0) /\ Entry(r).closed = FALSE
BY DEF Entry

\* What the broker has of an order, by its own record.
LEMMA TruthKinds ==
  ASSUME QtyOK, AInv
  PROVE  /\ posts # 0 <=> Truth # "none"
         /\ wire \/ (prov.st = "open" /\ prov.filled = 0) => Truth = "working"
         /\ prov.st = "open" /\ prov.filled > 0 => Truth = "partial"
         /\ prov.st = "filled" => Truth = "filled"
         /\ prov.st = "canceled" /\ prov.filled > 0 => Truth = "stub"
         /\ prov.st = "canceled" /\ prov.filled = 0 => Truth = "over"
         /\ prov.st = "rejected" => Truth = "over"
         /\ prov.filled > 0 => Truth \in {"partial", "filled", "stub"}
<1>1. /\ prov.st \in {"absent", "open", "filled", "canceled", "rejected"} /\ prov.filled \in 0..Qty
      /\ wire \in BOOLEAN /\ posts \in {0, 1}
  BY DEF AInv, TypeOK, Provider
<1>2. /\ posts = 0 => ~wire /\ prov.st = "absent"
      /\ wire => prov.st = "absent"
      /\ prov.st \in {"absent", "rejected"} => prov.filled = 0
      /\ prov.st = "filled" => prov.filled = Qty
  BY DEF AInv
<1>3. prov.filled = 0 \/ prov.filled > 0
  BY <1>1 DEF QtyOK
<1>4. Qty > 0 /\ ~(0 > 0)
  BY DEF QtyOK
<1> QED BY <1>1, <1>2, <1>3, <1>4 DEF Truth

Entries == [ state : OrderStates, claimed : BOOLEAN, intent : BOOLEAN, filled : BOOLEAN, closed : BOOLEAN ]

LEMMA EntryType == ASSUME NEW r \in Rows PROVE Entry(r) \in Entries
<1> DEFINE f == r.filled > 0
<1>1. f \in BOOLEAN /\ r.state \in OrderStates /\ r.claimed \in BOOLEAN /\ r.intent \in BOOLEAN
  BY DEF Rows
<1>2. Entry(r) = [state |-> r.state, claimed |-> r.claimed, intent |-> r.intent, filled |-> f, closed |-> FALSE]
  BY DEF Entry
<1> HIDE DEF f
<1> QED BY <1>1, <1>2 DEF Entries

\* What a write makes of the entry.
LEMMA EntryChanges ==
  ASSUME NEW e \in Entries, NEW n \in Entries
  PROVE  /\ n.state = e.state /\ n.intent = e.intent /\ n.filled = e.filled /\ n.closed = e.closed
              => n = [e EXCEPT !.claimed = n.claimed]
         /\ n.claimed = e.claimed /\ n.intent = e.intent /\ n.filled = e.filled /\ n.closed = e.closed
              => n = [e EXCEPT !.state = n.state]
         /\ n.claimed = e.claimed /\ n.filled = e.filled /\ n.closed = e.closed
              => n = [e EXCEPT !.state = n.state, !.intent = n.intent]
         /\ n.state = e.state /\ n.claimed = e.claimed /\ n.filled = e.filled /\ n.closed = e.closed
              => n = [e EXCEPT !.intent = n.intent]
         /\ n.claimed = e.claimed /\ n.intent = e.intent /\ n.closed = e.closed
              => n = [e EXCEPT !.state = n.state, !.filled = n.filled]
         /\ n.claimed = e.claimed /\ n.intent = e.intent
              => n = [e EXCEPT !.state = n.state, !.filled = n.filled, !.closed = n.closed]
<1>1. ASSUME n.state = e.state, n.intent = e.intent, n.filled = e.filled, n.closed = e.closed
      PROVE  n = [e EXCEPT !.claimed = n.claimed]
  BY <1>1 DEF Entries
<1>2. ASSUME n.claimed = e.claimed, n.intent = e.intent, n.filled = e.filled, n.closed = e.closed
      PROVE  n = [e EXCEPT !.state = n.state]
  BY <1>2 DEF Entries
<1>3. ASSUME n.claimed = e.claimed, n.filled = e.filled, n.closed = e.closed
      PROVE  n = [e EXCEPT !.state = n.state, !.intent = n.intent]
  BY <1>3 DEF Entries
<1>4. ASSUME n.state = e.state, n.claimed = e.claimed, n.filled = e.filled, n.closed = e.closed
      PROVE  n = [e EXCEPT !.intent = n.intent]
  BY <1>4 DEF Entries
<1>5. ASSUME n.claimed = e.claimed, n.intent = e.intent, n.closed = e.closed
      PROVE  n = [e EXCEPT !.state = n.state, !.filled = n.filled]
  BY <1>5 DEF Entries
<1>6. ASSUME n.claimed = e.claimed, n.intent = e.intent
      PROVE  n = [e EXCEPT !.state = n.state, !.filled = n.filled, !.closed = n.closed]
  BY <1>6 DEF Entries
<1> QED BY <1>1, <1>2, <1>3, <1>4, <1>5, <1>6

LEMMA WriteServes ==
  ASSUME QtyOK, ~LateFills, AInv, Write
  PROVE  Budgeted!Next \/ UNCHANGED <<Entry(row), Truth>>
<1>1. row' \in Rows /\ Wrote /\ row \in Rows /\ UNCHANGED Truth
  BY WriteWrites DEF AInv, TypeOK, Truth
<1> DEFINE e == Entry(row)
           n == Entry(row')
<1>2. e' = n
  BY DEF Entry
<1>3. /\ e.state = row.state /\ e.claimed = row.claimed /\ e.intent = row.intent
      /\ e.filled = (row.filled > 0) /\ e.closed = FALSE
  BY EntryFields
<1>4. /\ row.filled \in Nat /\ row'.filled \in Nat /\ row.claimed \in BOOLEAN /\ row.intent \in BOOLEAN
      /\ row'.claimed \in BOOLEAN /\ row'.intent \in BOOLEAN
  BY <1>1 DEF Rows, QtyOK
<1>0. /\ n.state = row'.state /\ n.claimed = row'.claimed /\ n.intent = row'.intent
      /\ n.filled = (row'.filled > 0) /\ n.closed = FALSE
  BY EntryFields
<1>14. e \in Entries /\ n \in Entries
  BY <1>1, EntryType
<1>15. row'.filled = row.filled => n.filled = e.filled
  BY <1>0, <1>3
<1> HIDE DEF e, n
<1>5. CASE row.state = "SUBMITTED" /\ ~row.intent /\ row'.filled = row.filled
           /\ Moved("REJECTED") /\ row'.intent = row.intent
  <2>1. n.state = "REJECTED" /\ n.claimed = e.claimed /\ n.intent = e.intent /\ n.filled = e.filled /\ n.closed = e.closed
    BY <1>0, <1>3, <1>5, <1>15 DEF Moved
  <2>2. n = [e EXCEPT !.state = "REJECTED"]
    BY <1>14, <2>1, EntryChanges
  <2> QED BY <1>1, <1>2, <1>3, <1>5, <2>2 DEF Budgeted!Next, Budgeted!Refuse, Budgeted!Unsent, e
<1>6. CASE row.state = "SUBMITTED" /\ ~row.intent /\ row'.filled = row.filled
           /\ Moved("SUBMITTED") /\ row.claimed /\ row'.intent = TRUE
  <2>1. n = [e EXCEPT !.intent = TRUE]
    <3>1. n.intent = TRUE /\ n.state = e.state /\ n.claimed = e.claimed /\ n.filled = e.filled /\ n.closed = e.closed
      BY <1>0, <1>3, <1>6, <1>15 DEF Moved
    <3> QED BY <1>14, <3>1, EntryChanges
  <2> QED BY <1>1, <1>2, <1>3, <1>6, <2>1 DEF Budgeted!Next, Budgeted!RecordIntent, Budgeted!Unsent, e
<1>7. CASE row.state = "SUBMITTED" /\ ~row.intent /\ row'.filled = row.filled
           /\ row'.state = "SUBMITTED" /\ row'.claimed = TRUE /\ row'.intent = row.intent
  <2>1. n = [e EXCEPT !.claimed = TRUE]
    <3>1. n.claimed = TRUE /\ n.state = e.state /\ n.intent = e.intent /\ n.filled = e.filled /\ n.closed = e.closed
      BY <1>0, <1>3, <1>7, <1>15
    <3> QED BY <1>14, <3>1, EntryChanges
  <2> QED BY <1>1, <1>2, <1>3, <1>7, <2>1 DEF Budgeted!Next, Budgeted!Claim, Budgeted!Unsent, e
<1>8. ASSUME row.state \in Working \cup {"RECOVERY_REQUIRED"}, n \in Budgeted!Recorded
      PROVE  Budgeted!Next
  <2>1. e.state \notin Budgeted!Terminal
    BY <1>3, <1>8 DEF Working, Budgeted!Terminal, e
  <2> QED BY <1>1, <1>2, <1>8, <2>1 DEF Budgeted!Next, Budgeted!Record, e
<1>9. CASE row.state = "SUBMITTED" /\ row.intent /\ prov.st \notin {"absent", "rejected"}
           /\ Moved("ACCEPTED") /\ row'.filled = row.filled /\ row'.intent = row.intent
  <2>1. n = [e EXCEPT !.state = "ACCEPTED"]
    <3>1. n.state = "ACCEPTED" /\ n.claimed = e.claimed /\ n.intent = e.intent /\ n.filled = e.filled /\ n.closed = e.closed
      BY <1>0, <1>3, <1>9, <1>15 DEF Moved
    <3> QED BY <1>14, <3>1, EntryChanges
  <2>2. Truth # "none" /\ ~e.filled
    <3>1. posts # 0 /\ row.filled = 0
      BY <1>9 DEF AInv
    <3>2. (row.filled > 0) = FALSE
      BY <3>1
    <3>3. e.filled = FALSE
      BY <1>3, <3>2
    <3>4. Truth # "none"
      BY <3>1 DEF Truth
    <3> QED BY <3>3, <3>4
  <2>3. n \in Budgeted!Recorded
    BY <2>1, <2>2 DEF Budgeted!Recorded, e
  <2> QED BY <1>8, <1>9, <2>3 DEF Working
<1>10. CASE /\ row.state \in Working \cup {"RECOVERY_REQUIRED"}
            /\ row'.intent = row.intent \/ (row.claimed /\ row'.intent = TRUE)
            /\ Moved("RECOVERY_REQUIRED") /\ row'.filled = row.filled
  <2>1. n = [e EXCEPT !.state = "RECOVERY_REQUIRED", !.intent = row'.intent]
    <3>1. n.state = "RECOVERY_REQUIRED" /\ n.intent = row'.intent /\ n.claimed = e.claimed /\ n.filled = e.filled /\ n.closed = e.closed
      BY <1>0, <1>3, <1>10, <1>15 DEF Moved
    <3> QED BY <1>14, <3>1, EntryChanges
  <2>2. row'.intent \in {e.intent, e.claimed}
    BY <1>3, <1>4, <1>10
  <2>3. n \in Budgeted!Recorded
    BY <2>1, <2>2 DEF Budgeted!Recorded, Budgeted!AtAnyTime, e
  <2> QED BY <1>8, <1>10, <2>3
<1>11. CASE /\ row.state = "RECOVERY_REQUIRED" /\ row'.intent = row.intent
            /\ \E s \in Pictures : /\ row'.filled = s.filled
                                   /\ Moved("RECOVERY_REQUIRED") \/ Moved(PictureState(s))
  <2>1. PICK s \in Pictures : /\ row'.filled = s.filled
                              /\ Moved("RECOVERY_REQUIRED") \/ Moved(PictureState(s))
    BY <1>11
  <2>2. row'.filled = s.filled /\ row'.claimed = row.claimed
        /\ row'.state \in {"RECOVERY_REQUIRED", PictureState(s)}
    BY <2>1 DEF Moved
  <2>3. n = [e EXCEPT !.state = row'.state, !.filled = (row'.filled > 0)]
    <3>1. n.state = row'.state /\ n.filled = (row'.filled > 0) /\ n.claimed = e.claimed /\ n.intent = e.intent /\ n.closed = e.closed
      BY <1>0, <1>3, <1>11, <2>2
    <3> QED BY <1>14, <3>1, EntryChanges
  <2>4. posts # 0 /\ Truth # "none"
    <3>1. posts # 0
      BY PictureKinds
    <3> QED BY <3>1 DEF Truth
  <2>5. CASE s.filled = 0
    <3>1. row.filled = 0
      <4>1. row.filled <= s.filled
        BY PictureKinds
      <4> QED BY <1>4, <2>5, <4>1
    <3>2. n = [e EXCEPT !.state = row'.state] /\ ~e.filled
      <4>1. row'.filled = row.filled /\ (row.filled > 0) = FALSE
        BY <2>2, <2>5, <3>1
      <4>2. e.filled = FALSE
        BY <1>3, <4>1
      <4>3. n.state = row'.state /\ n.claimed = e.claimed /\ n.intent = e.intent /\ n.filled = e.filled /\ n.closed = e.closed
        BY <1>0, <1>3, <1>11, <1>15, <2>2, <4>1
      <4>4. n = [e EXCEPT !.state = row'.state]
        BY <1>14, <4>3, EntryChanges
      <4> QED BY <4>2, <4>4
    <3>3. CASE row'.state = "RECOVERY_REQUIRED"
      <4>1. n = [e EXCEPT !.state = "RECOVERY_REQUIRED", !.intent = row.intent]
        <5>1. n.state = "RECOVERY_REQUIRED" /\ n.intent = row.intent /\ n.claimed = e.claimed /\ n.filled = e.filled /\ n.closed = e.closed
          BY <1>0, <1>3, <1>11, <1>15, <2>2, <2>5, <3>1, <3>3
        <5> QED BY <1>14, <5>1, EntryChanges
      <4>2. n \in Budgeted!AtAnyTime
        BY <1>3, <4>1 DEF Budgeted!AtAnyTime, e
      <4> QED BY <1>8, <1>11, <4>2 DEF Budgeted!Recorded, e
    <3>4. CASE row'.state = "ACCEPTED"
      BY <1>8, <1>11, <2>4, <3>2, <3>4 DEF Budgeted!Recorded, e
    <3>5. CASE row'.state \in {"CANCELED", "REJECTED"} /\ Truth = "over"
      <4>1. n \in Budgeted!Nothing
        BY <3>2, <3>5 DEF Budgeted!Nothing, e
      <4> QED BY <1>8, <1>11, <3>5, <4>1 DEF Budgeted!Recorded, Budgeted!Reported, e
    <3>6. \/ row'.state \in {"RECOVERY_REQUIRED", "ACCEPTED"}
          \/ row'.state \in {"CANCELED", "REJECTED"} /\ Truth = "over"
      <4>1. CASE PictureState(s) = "FILLED" /\ s = prov /\ prov.st = "filled"
        BY <2>5, <4>1 DEF AInv, QtyOK
      <4>2. CASE PictureState(s) = "CANCELED" /\ s = prov /\ prov.st = "canceled"
        BY <2>2, <2>5, <4>2, TruthKinds
      <4>3. CASE PictureState(s) = "REJECTED" /\ s = prov /\ prov.st = "rejected"
        BY <2>2, <4>3, TruthKinds
      <4>4. CASE PictureState(s) = "ACCEPTED"
        BY <2>2, <4>4
      <4>5. ~(s.filled > 0)
        BY <2>5
      <4> QED BY <2>2, <4>1, <4>2, <4>3, <4>4, <4>5, PictureKinds
    <3> QED BY <1>8, <1>11, <3>3, <3>4, <3>5, <3>6
  <2>6. CASE s.filled > 0
    <3>1. n = [e EXCEPT !.state = row'.state, !.filled = TRUE]
      <4>1. (row'.filled > 0) = TRUE
        BY <2>2, <2>6
      <4> QED BY <2>3, <4>1
    <3>2. prov.filled > 0 /\ Truth \in {"partial", "filled", "stub"}
      <4>1. s.filled <= prov.filled /\ s.filled \in 0..Qty /\ prov.filled \in 0..Qty
        BY PictureKinds DEF AInv, TypeOK, Provider
      <4>2. prov.filled > 0
        BY <2>6, <4>1 DEF QtyOK
      <4> QED BY <4>2, TruthKinds
    <3>3. CASE row'.state \in {"RECOVERY_REQUIRED", "PARTIALLY_FILLED"}
      <4>1. n = [e EXCEPT !.state = row'.state, !.filled = TRUE, !.closed = FALSE]
        <5>1. (row'.filled > 0) = TRUE
          BY <2>2, <2>6
        <5>2. n.state = row'.state /\ n.filled = TRUE /\ n.closed = FALSE
          BY <1>0, <5>1
        <5>3. n.claimed = e.claimed /\ n.intent = e.intent
          BY <1>0, <1>3, <1>11, <2>2
        <5> QED BY <1>14, <5>2, <5>3, EntryChanges
      <4>2. n \in Budgeted!PartWith(FALSE)
        BY <3>3, <4>1 DEF Budgeted!PartWith, e
      <4> QED BY <1>8, <1>11, <3>2, <4>2 DEF Budgeted!Recorded, Budgeted!Reported, Budgeted!Part, e
    <3>4. CASE row'.state = "FILLED" /\ Truth = "filled"
      <4>1. n = [e EXCEPT !.state = "FILLED", !.filled = TRUE, !.closed = FALSE]
        <5>1. (row'.filled > 0) = TRUE
          BY <2>2, <2>6
        <5>2. n.state = "FILLED" /\ n.filled = TRUE /\ n.closed = FALSE
          BY <1>0, <3>4, <5>1
        <5>3. n.claimed = e.claimed /\ n.intent = e.intent
          BY <1>0, <1>3, <1>11, <2>2
        <5> QED BY <1>14, <5>2, <5>3, EntryChanges
      <4> QED BY <1>8, <1>11, <3>4, <4>1 DEF Budgeted!Recorded, Budgeted!Reported, Budgeted!Whole, e
    <3>5. CASE row'.state = "CANCELED" /\ Truth = "stub"
      BY <1>8, <1>11, <3>1, <3>5 DEF Budgeted!Recorded, Budgeted!Reported, Budgeted!Stub, e
    <3>6. \/ row'.state \in {"RECOVERY_REQUIRED", "PARTIALLY_FILLED"}
          \/ row'.state = "FILLED" /\ Truth = "filled"
          \/ row'.state = "CANCELED" /\ Truth = "stub"
      <4>1. CASE PictureState(s) = "FILLED" /\ prov.st = "filled"
        BY <2>2, <4>1, TruthKinds
      <4>2. CASE PictureState(s) = "CANCELED" /\ prov.st = "canceled"
        BY <2>2, <3>2, <4>2, TruthKinds
      <4>3. CASE PictureState(s) = "REJECTED" /\ prov.st = "rejected"
        BY <3>2, <4>3 DEF AInv
      <4>4. CASE PictureState(s) = "PARTIALLY_FILLED"
        BY <2>2, <4>4
      <4>5. s.filled # 0
        BY <2>6
      <4> QED BY <2>2, <4>1, <4>2, <4>3, <4>4, <4>5, PictureKinds
    <3> QED BY <1>8, <1>11, <3>3, <3>4, <3>5, <3>6
  <2>7. s.filled \in Nat
    BY PictureKinds DEF QtyOK
  <2> QED BY <2>5, <2>6, <2>7
<1>12. CASE row.state = "CANCELED" /\ row.filled < Qty /\ prov.st = "filled"
  BY <1>12 DEF AInv
<1>13. CASE /\ row.state \in Working /\ row'.intent = row.intent
            /\ Moved("CANCEL_REQUESTED") /\ row'.filled = row.filled
  <2>1. n = [e EXCEPT !.state = "CANCEL_REQUESTED"]
    <3>1. n.state = "CANCEL_REQUESTED" /\ n.claimed = e.claimed /\ n.intent = e.intent /\ n.filled = e.filled /\ n.closed = e.closed
      BY <1>0, <1>3, <1>13, <1>15 DEF Moved
    <3> QED BY <1>14, <3>1, EntryChanges
  <2>2. n \in Budgeted!Recorded
    BY <2>1 DEF Budgeted!Recorded, Budgeted!AtAnyTime, e
  <2> QED BY <1>8, <1>13, <2>2
<1> QED BY <1>1, <1>5, <1>6, <1>7, <1>9, <1>10, <1>11, <1>12, <1>13 DEF Wrote

LEMMA BrokerServes ==
  ASSUME QtyOK, ~LateFills, AInv, Post \/ PostArrives \/ ProviderFills \/ ProviderCloses
  PROVE  Budgeted!Next \/ UNCHANGED <<Entry(row), Truth>>
<1>1. AInv' /\ Entry(row)' = Entry(row) /\ Entry(row).intent = row.intent
  BY BrokerKeeps, EntryFields DEF Post, PostArrives, ProviderFills, ProviderCloses, Entry
<1> USE DEF Budgeted!Next
<1>2. CASE Post
  <2>1. Truth = "none" /\ Truth' = "working" /\ row.intent
    BY <1>2 DEF Post, Truth
  <2> QED BY <1>1, <2>1 DEF Budgeted!Post
<1>3. ASSUME Truth' \in Budgeted!Moves \/ Truth' = Truth  PROVE Budgeted!Next \/ UNCHANGED <<Entry(row), Truth>>
  BY <1>1, <1>3 DEF Budgeted!Broker
<1>4. /\ posts \in {0, 1} /\ wire \in BOOLEAN /\ prov.filled \in 0..Qty /\ Qty \in Nat \ {0}
      /\ posts = 0 => ~wire /\ prov.st = "absent"
      /\ wire => prov.st = "absent"
      /\ prov.st \in {"absent", "rejected"} => prov.filled = 0
  BY DEF AInv, TypeOK, Provider, QtyOK
<1>5. CASE PostArrives
  <2>1. Truth = "working"
    BY <1>4, <1>5 DEF PostArrives, Truth
  <2>2. posts' # 0 /\ wire' = FALSE /\ prov'.filled = 0 /\ prov'.st \in {"absent", "open", "rejected"}
    BY <1>4, <1>5 DEF PostArrives, AInv, TypeOK, Provider
  <2>3. Truth' \in {"working", "over"}
    BY <2>2 DEF Truth
  <2> QED BY <1>3, <2>1, <2>3 DEF Budgeted!Moves
<1>6. CASE ProviderFills
  <2>1. /\ prov.st = "open" /\ posts # 0 /\ ~wire /\ prov'.filled = prov.filled + 1
        /\ prov'.st \in {"open", "filled"} /\ posts' = posts /\ wire' = wire
    BY <1>4, <1>6 DEF ProviderFills
  <2>2. Truth \in {"working", "partial"}
    BY <1>4, <2>1 DEF Truth
  <2>3. prov'.filled > 0
    BY <1>4, <2>1
  <2>4. Truth' \in {"partial", "filled"}
    BY <2>1, <2>3 DEF Truth
  <2> QED BY <1>3, <2>2, <2>4 DEF Budgeted!Moves
<1>7. CASE ProviderCloses
  <2>1. /\ prov.st = "open" /\ posts # 0 /\ ~wire /\ posts' = posts /\ wire' = wire
        /\ prov' = [prov EXCEPT !.st = "canceled"]
    BY <1>4, <1>7 DEF ProviderCloses
  <2>2. prov'.st = "canceled" /\ prov'.filled = prov.filled
    BY <2>1 DEF AInv, TypeOK, Provider
  <2>3. CASE prov.filled = 0
    <3>1. Truth = "working" /\ Truth' = "over"
      BY <2>1, <2>2, <2>3 DEF Truth
    <3> QED BY <1>3, <3>1 DEF Budgeted!Moves
  <2>4. CASE prov.filled > 0
    <3>1. Truth = "partial" /\ Truth' = "stub"
      BY <1>4, <2>1, <2>2, <2>4 DEF Truth
    <3> QED BY <1>3, <3>1 DEF Budgeted!Moves
  <2> QED BY <1>4, <2>3, <2>4
<1> QED BY <1>2, <1>5, <1>6, <1>7

LEMMA InitServes == ASSUME QtyOK, Init PROVE Budgeted!Init
<1>1. row.filled = 0 /\ row.state = "SUBMITTED" /\ row.claimed = FALSE /\ row.intent = FALSE /\ posts = 0
  BY DEF Init
<1>2. (row.filled > 0) = FALSE
  BY <1>1
<1>3. Truth = "none"
  BY <1>1 DEF Truth
<1> QED BY <1>1, <1>2, <1>3 DEF Budgeted!Init, Entry

THEOREM Serves == ASSUME QtyOK, ~LateFills PROVE Spec => ServesBudget
<1>1. AInv /\ [Next]_vars => [Budgeted!Next]_<<Entry(row), Truth>>
  <2>1. ASSUME UNCHANGED vars PROVE UNCHANGED <<Entry(row), Truth>>
    BY <2>1 DEF vars, Entry, Truth
  <2> QED BY <2>1, WriteServes, BrokerServes DEF Next
<1> QED BY AtomicInvariance, InitServes, <1>1, PTL DEF Spec, ServesBudget, Budgeted!Spec

-----------------------------------------------------------------------------
(* Serving OrderAmendment.                                                 *)

\* An order that is not in recovery is on nobody's list.
Calm == row.state # "RECOVERY_REQUIRED" => ~row.manual /\ row.retry = 0

AmendRows == [ state : OrderStates, manual : BOOLEAN, cancelClaim : BOOLEAN, oid : {0},
               filled : 0..Qty, amendments : {[q \in {} |-> "none"]} ]

LEMMA AcceptedFields ==
  ASSUME NEW r \in Rows
  PROVE  LET a == Accepted(r)
         IN  /\ a \in AmendRows /\ a.manual = r.manual /\ a.cancelClaim = r.canceling
             /\ a.filled = r.filled /\ a.oid = 0
             /\ a.state = IF r.state = "SUBMITTED" THEN "ACCEPTED" ELSE r.state
BY DEF Accepted, AmendRows, Rows, OrderStates

\* Rows that differ in nothing amend looks at are one row to it.
LEMMA AcceptedAlike ==
  ASSUME NEW a \in AmendRows, NEW b \in AmendRows, a.state = b.state, a.manual = b.manual,
         a.cancelClaim = b.cancelClaim, a.filled = b.filled
  PROVE  a = b
BY DEF AmendRows

LEMMA AcceptedNoted ==
  ASSUME NEW r \in Rows, NEW n \in Noted(r)
  PROVE  Accepted(n) \in Amended!Noted(Accepted(r))
<1> DEFINE a == Accepted(r)
           b == Accepted(n)
<1>1. n \in Rows /\ n.state = r.state /\ n.filled = r.filled /\ n.manual = r.manual
  BY NotedRow
<1>2. n.canceling = r.canceling \/ n.canceling = TRUE
  BY DEF Noted, Rows
<1>3. /\ a \in AmendRows /\ b \in AmendRows /\ b.state = a.state /\ b.manual = a.manual
      /\ b.filled = a.filled /\ a.cancelClaim = r.canceling /\ b.cancelClaim = n.canceling
  BY <1>1, AcceptedFields
<1> HIDE DEF a, b
<1> DEFINE c == [a EXCEPT !.cancelClaim = TRUE]
<1>4. c \in AmendRows /\ c.state = a.state /\ c.manual = a.manual /\ c.filled = a.filled /\ c.cancelClaim = TRUE
  BY <1>3 DEF AmendRows
<1> HIDE DEF c
<1>5. b = a \/ b = c
  BY <1>2, <1>3, <1>4, AcceptedAlike
<1>6. Amended!Noted(a) = {a, c}
  BY DEF Amended!Noted, c
<1> QED BY <1>5, <1>6 DEF a, b

\* A write of the order, as an amend that runs finds it.
LEMMA Rewrites ==
  ASSUME NEW r \in Rows, row' \in Noted(r), prov' = prov
  PROVE  Amended!Rewrite(Accepted(r))
<1>1. Accepted(row)' \in Amended!Noted(Accepted(r))
  <2>1. Accepted(row') \in Amended!Noted(Accepted(r))
    BY AcceptedNoted
  <2> QED BY <2>1 DEF Accepted
<1>2. Placed' = Placed /\ NoCall' = NoCall
  BY DEF Placed, NoCall
<1> QED BY <1>1, <1>2 DEF Amended!Rewrite, Amended!amender, Amended!broker

\* What a failed attempt and a picture leave of the rest of the row.
LEMMA PendingRest ==
  ASSUME NEW r \in Rows, NEW review \in BOOLEAN
  PROVE  LET n == Pending(r, review)
         IN  /\ n \in Rows /\ n.state = "RECOVERY_REQUIRED" /\ n.filled = r.filled
             /\ n.canceling = r.canceling
             /\ n.manual = (review \/ Bump(r.retry) >= RetryLimit)
<1>1. r.retry \in 0..RetryLimit /\ Bump(r.retry) \in 0..RetryLimit
  BY DEF Bump, RetryLimit, Rows
<1> DEFINE m == review \/ Bump(r.retry) >= RetryLimit
<1>2. m \in BOOLEAN
  OBVIOUS
<1>3. Pending(r, review) = [r EXCEPT !.state = "RECOVERY_REQUIRED", !.retry = Bump(r.retry), !.manual = m]
  BY DEF Pending, Rows
<1> HIDE DEF m
<1>4. LET n == Pending(r, review)
      IN  n \in Rows /\ n.state = "RECOVERY_REQUIRED" /\ n.filled = r.filled
          /\ n.canceling = r.canceling /\ n.manual = m
  BY <1>1, <1>2, <1>3 DEF Rows, OrderStates
<1> QED BY <1>4 DEF m

LEMMA InformedRest ==
  ASSUME NEW r \in Rows, NEW s, s.filled \in 0..Qty
  PROVE  LET n == Informed(r, s)
         IN  /\ n \in Rows /\ n.filled = s.filled /\ n.canceling = r.canceling
             /\ n.manual = FALSE /\ n.retry = 0
<1>1. 0 \in 0..RetryLimit
  BY DEF RetryLimit
<1>2. Informed(r, s) = [r EXCEPT !.oid = TRUE, !.filled = s.filled, !.retry = 0, !.manual = FALSE]
  BY DEF Informed
<1> HIDE DEF Informed
<1> QED BY <1>1, <1>2 DEF Rows

\* Escalation, cancellation and reconciliation, by what each writes of the row.
LEMMA ShowsEscalated ==
  ASSUME NEW r \in Rows, row' \in Noted(r), prov' = prov, row \in Rows,
         row.state \in Working \cup {"RECOVERY_REQUIRED"}, r.state = "RECOVERY_REQUIRED",
         r.manual = row.manual, r.filled = row.filled, r.canceling = row.canceling
  PROVE  Amended!Next
<1> DEFINE a == Accepted(row)
           b == Accepted(r)
           c == [a EXCEPT !.state = "RECOVERY_REQUIRED"]
<1>1. /\ a \in AmendRows /\ a.manual = row.manual /\ a.cancelClaim = row.canceling /\ a.filled = row.filled
      /\ a.state = IF row.state = "SUBMITTED" THEN "ACCEPTED" ELSE row.state
  BY AcceptedFields
<1>2. /\ b \in AmendRows /\ b.manual = r.manual /\ b.cancelClaim = r.canceling /\ b.filled = r.filled
      /\ b.state = "RECOVERY_REQUIRED"
  BY AcceptedFields
<1>3. Amended!Rewrite(b)
  BY Rewrites
<1> HIDE DEF a, b
<1>4. /\ c \in AmendRows /\ c.state = "RECOVERY_REQUIRED" /\ c.manual = a.manual
      /\ c.cancelClaim = a.cancelClaim /\ c.filled = a.filled
  BY <1>1 DEF AmendRows, OrderStates
<1>5. b = c
  <2> HIDE DEF c
  <2> QED BY <1>1, <1>2, <1>4, AcceptedAlike
<1>6. Amended!Open(a)
  BY <1>1 DEF Working, Amended!Open, Amended!isTerminalOrderState, Amended!TerminalStates
<1> QED BY <1>3, <1>5, <1>6 DEF Amended!Next, Amended!Elsewhere, Amended!Escalated, a

LEMMA ShowsCancel ==
  ASSUME NEW r \in Rows, row' \in Noted(r), prov' = prov, row \in Rows,
         row.state \in Working, r.state = "CANCEL_REQUESTED",
         r.manual = row.manual, r.filled = row.filled, r.canceling = row.canceling
  PROVE  Amended!Next
<1> DEFINE a == Accepted(row)
           b == Accepted(r)
           c == [a EXCEPT !.state = "CANCEL_REQUESTED"]
<1>1. /\ a \in AmendRows /\ a.manual = row.manual /\ a.cancelClaim = row.canceling /\ a.filled = row.filled
      /\ a.state = IF row.state = "SUBMITTED" THEN "ACCEPTED" ELSE row.state
  BY AcceptedFields
<1>2. /\ b \in AmendRows /\ b.manual = r.manual /\ b.cancelClaim = r.canceling /\ b.filled = r.filled
      /\ b.state = "CANCEL_REQUESTED"
  BY AcceptedFields
<1>3. Amended!Rewrite(b)
  BY Rewrites
<1> HIDE DEF a, b
<1>4. /\ c \in AmendRows /\ c.state = "CANCEL_REQUESTED" /\ c.manual = a.manual
      /\ c.cancelClaim = a.cancelClaim /\ c.filled = a.filled
  BY <1>1 DEF AmendRows, OrderStates
<1>5. b = c
  <2> HIDE DEF c
  <2> QED BY <1>1, <1>2, <1>4, AcceptedAlike
<1>6. a.state \in {"ACCEPTED", "PARTIALLY_FILLED", "CANCEL_REQUESTED"}
  BY <1>1 DEF Working
<1> QED BY <1>3, <1>5, <1>6 DEF Amended!Next, Amended!Elsewhere, Amended!CancelWritten, a

LEMMA ShowsNoAnswer ==
  ASSUME NEW r \in Rows, row' \in Noted(r), prov' = prov, row \in Rows,
         Reconcilable, r.state = "RECOVERY_REQUIRED",
         r.filled = row.filled, r.canceling = row.canceling
  PROVE  Amended!Next
<1> DEFINE a == Accepted(row)
           b == Accepted(r)
           c == [a EXCEPT !.manual = r.manual]
<1>1. /\ a \in AmendRows /\ a.manual = row.manual /\ a.cancelClaim = row.canceling /\ a.filled = row.filled
      /\ a.state = "RECOVERY_REQUIRED" /\ ~row.manual
  BY AcceptedFields DEF Reconcilable
<1>2. /\ b \in AmendRows /\ b.manual = r.manual /\ b.cancelClaim = r.canceling /\ b.filled = r.filled
      /\ b.state = "RECOVERY_REQUIRED" /\ r.manual \in BOOLEAN
  BY AcceptedFields DEF Rows
<1>3. Amended!Rewrite(b)
  BY Rewrites
<1> HIDE DEF a, b
<1>4. /\ c \in AmendRows /\ c.state = a.state /\ c.manual = r.manual
      /\ c.cancelClaim = a.cancelClaim /\ c.filled = a.filled
  BY <1>1, <1>2 DEF AmendRows, OrderStates
<1>5. b = c
  <2> HIDE DEF c
  <2> QED BY <1>1, <1>2, <1>4, AcceptedAlike
<1>6. \E review \in BOOLEAN : Amended!Rewrite([a EXCEPT !.manual = review])
  BY <1>2, <1>3, <1>5
<1> QED BY <1>1, <1>6 DEF Amended!Next, Amended!Elsewhere, Amended!Reconciled, a

LEMMA ShowsPicture ==
  ASSUME QtyOK, ~LateFills, AInv, Reconcilable, prov.st # "rejected", NEW s \in Pictures,
         NEW r \in Rows, row' \in Noted(r), prov' = prov,
         r.filled = s.filled, r.canceling = row.canceling,
         \/ r.state = PictureState(s) /\ r.manual = FALSE
         \/ r.state = "RECOVERY_REQUIRED" /\ r.manual = TRUE
  PROVE  Amended!Next
<1> DEFINE a == Accepted(row)
           b == Accepted(r)
           t == <<s.st, s.filled>>
           c == [[a EXCEPT !.filled = s.filled] EXCEPT !.state = PictureState(s)]
           d == [[a EXCEPT !.filled = s.filled] EXCEPT !.manual = TRUE]
<1>1. /\ a \in AmendRows /\ a.manual = FALSE /\ a.cancelClaim = row.canceling /\ a.filled = row.filled
      /\ a.state = "RECOVERY_REQUIRED" /\ a.oid = 0
  BY AcceptedFields DEF Reconcilable, AInv, TypeOK, Rows
<1>2. /\ s.st \in {"open", "filled", "canceled", "rejected"}
      /\ s.filled \in row.filled .. prov.filled /\ prov.st # "absent"
      /\ s.st = "open" => s.filled < Qty
      /\ s.st \in {"filled", "rejected"} => s = prov
      /\ s.st = "canceled" => s = prov
  BY DEF Pictures
<1>3. s.st \in {"open", "filled", "canceled"} /\ s.filled \in 0..Qty /\ s.filled \in Nat
  BY <1>2, PictureKinds DEF QtyOK
<1>4. PictureState(s) \in {"ACCEPTED", "PARTIALLY_FILLED", "FILLED", "CANCELED"}
  BY <1>3 DEF PictureState
<1>5. /\ b \in AmendRows /\ b.manual = r.manual /\ b.cancelClaim = r.canceling /\ b.filled = r.filled
      /\ b.state = r.state
  BY <1>4, AcceptedFields
<1>6. Amended!Rewrite(b)
  BY Rewrites
<1>7. Placed.st = prov.st /\ Placed.filled = prov.filled /\ Placed.id = 0
  BY <1>2 DEF Placed
<1> HIDE DEF a, b
<1>8. t \in Amended!Pictures
  <2>1. CASE s.st = "open"
    <3>1. s.filled \in {g \in a.filled..Placed.filled : g < Qty}
      BY <1>1, <1>2, <1>7, <2>1
    <3> QED BY <2>1, <3>1 DEF Amended!Pictures, a
  <2>2. CASE s = prov
    <3>1. a.oid = Placed.id /\ t = <<Placed.st, Placed.filled>>
      BY <1>1, <1>7, <2>2
    <3> QED BY <3>1 DEF Amended!Pictures, a
  <2> QED BY <1>2, <1>3, <2>1, <2>2
<1>9. Amended!PictureState(t) = PictureState(s) /\ Amended!Booked(a.filled, t) = s.filled
  BY <1>3 DEF Amended!PictureState, PictureState, Amended!Booked
<1>10. /\ c \in AmendRows /\ c.state = PictureState(s) /\ c.manual = a.manual
       /\ c.cancelClaim = a.cancelClaim /\ c.filled = s.filled
       /\ d \in AmendRows /\ d.state = a.state /\ d.manual = TRUE
       /\ d.cancelClaim = a.cancelClaim /\ d.filled = s.filled
  BY <1>1, <1>3, <1>4 DEF AmendRows, OrderStates
<1>11. b = c \/ b = d
  <2> HIDE DEF c, d
  <2>1. b.cancelClaim = c.cancelClaim /\ b.cancelClaim = d.cancelClaim /\ b.filled = c.filled /\ b.filled = d.filled
    BY <1>1, <1>5, <1>10
  <2>2. \/ b.state = c.state /\ b.manual = c.manual
        \/ b.state = d.state /\ b.manual = d.manual
    BY <1>1, <1>5, <1>10
  <2>3. b \in AmendRows /\ c \in AmendRows /\ d \in AmendRows
    BY <1>5, <1>10
  <2> QED BY <2>1, <2>2, <2>3, AcceptedAlike
<1>12. Amended!Rewrite(c) \/ Amended!Rewrite(d)
  BY <1>6, <1>11
<1> HIDE DEF t
<1>13. LET told == [a EXCEPT !.filled = Amended!Booked(@, t)]
       IN  \/ Amended!Rewrite([told EXCEPT !.state = Amended!PictureState(t)])
           \/ Amended!Rewrite([told EXCEPT !.manual = TRUE])
  <2> DEFINE told == [a EXCEPT !.filled = Amended!Booked(@, t)]
  <2>1. told = [a EXCEPT !.filled = s.filled]
    BY <1>9
  <2> HIDE DEF told
  <2>2. c = [told EXCEPT !.state = Amended!PictureState(t)] /\ d = [told EXCEPT !.manual = TRUE]
    BY <1>9, <2>1
  <2> HIDE DEF c, d
  <2>3. \/ Amended!Rewrite([told EXCEPT !.state = Amended!PictureState(t)])
        \/ Amended!Rewrite([told EXCEPT !.manual = TRUE])
    BY <1>12, <2>2
  <2> QED BY <2>3 DEF told
<1> QED BY <1>1, <1>8, <1>13 DEF Amended!Next, Amended!Elsewhere, Amended!Reconciled, a

LEMMA WriteShown ==
  ASSUME QtyOK, ~LateFills, AInv, Calm, Write, NeverRefused, NeverRefused'
  PROVE  Calm' /\ (Amended!Next \/ UNCHANGED <<Accepted(row), Placed>>)
<1>1. row \in Rows /\ prov \in Provider /\ UNCHANGED <<posts, wire, prov>> /\ Placed' = Placed
  BY DEF AInv, TypeOK, Write, Placed
<1>2. CASE Refuse
  BY <1>1, <1>2 DEF Refuse, NeverRefused, Rows
<1>3. CASE Claim \/ RecordIntent
  <2>1. /\ row.state = "SUBMITTED" /\ row' \in Rows
        /\ row'.state = row.state /\ row'.filled = row.filled /\ row'.manual = row.manual
        /\ row'.retry = row.retry /\ row'.canceling = row.canceling
    BY <1>1, <1>3 DEF Claim, RecordIntent, Rows
  <2>2. Accepted(row') = Accepted(row)
    BY <2>1 DEF Accepted
  <2> QED BY <1>1, <2>1, <2>2 DEF Calm, Accepted
<1>4. CASE Acknowledge
  <2>1. /\ row.state = "SUBMITTED" /\ row'.state = "ACCEPTED"
        /\ row'.filled = row.filled /\ row'.manual = row.manual
        /\ row'.retry = row.retry /\ row'.canceling = row.canceling
    BY <1>1, <1>4 DEF Acknowledge, Rows
  <2>2. Accepted(row') = Accepted(row)
    BY <2>1 DEF Accepted
  <2> QED BY <1>1, <2>1, <2>2 DEF Calm, Accepted
<1>5. CASE SubmissionFails
  <2>1. /\ row' \in Rows /\ row'.state = "RECOVERY_REQUIRED"
        /\ row'.filled = row.filled /\ row'.manual = row.manual /\ row'.canceling = row.canceling
    BY <1>1, <1>5 DEF SubmissionFails, Rows, OrderStates
  <2>2. row' \in Noted(row')
    BY DEF Noted
  <2>3. Amended!Next
    BY <1>1, <1>5, <2>1, <2>2, ShowsEscalated DEF SubmissionFails
  <2> QED BY <2>1, <2>3 DEF Calm
<1>6. CASE Escalate
  <2>1. PICK r \in {[row EXCEPT !.state = "RECOVERY_REQUIRED"], Pending(row, FALSE)} : row' \in Noted(r)
    BY <1>6 DEF Escalate
  <2>2. /\ r \in Rows /\ r.state = "RECOVERY_REQUIRED"
        /\ r.filled = row.filled /\ r.manual = row.manual /\ r.canceling = row.canceling
    <3>1. CASE r = [row EXCEPT !.state = "RECOVERY_REQUIRED"]
      BY <1>1, <3>1 DEF Rows, OrderStates
    <3>2. CASE r = Pending(row, FALSE)
      <4>1. row.manual = FALSE /\ row.retry = 0
        BY <1>1, <1>6 DEF Escalate, Calm, Working, Rows
      <4>2. (FALSE \/ Bump(row.retry) >= RetryLimit) = FALSE
        BY <4>1 DEF Bump, RetryLimit
      <4> QED BY <1>1, <3>2, <4>1, <4>2, PendingRest
    <3> QED BY <2>1, <3>1, <3>2
  <2>3. Amended!Next
    BY <1>1, <1>6, <2>1, <2>2, ShowsEscalated DEF Escalate
  <2>4. row'.state = "RECOVERY_REQUIRED"
    BY <2>1, <2>2, NotedRow
  <2> QED BY <2>3, <2>4 DEF Calm
<1>7. CASE ReconcileFails
  <2>1. PICK review \in BOOLEAN, known \in {row.oid, TRUE} :
          row' \in Noted(Pending([row EXCEPT !.oid = known], review))
    BY <1>7 DEF ReconcileFails
  <2> DEFINE k == [row EXCEPT !.oid = known]
             r == Pending(k, review)
  <2>2. k \in Rows /\ k.filled = row.filled /\ k.canceling = row.canceling
    BY <1>1 DEF Rows
  <2> HIDE DEF k
  <2>3. r \in Rows /\ r.state = "RECOVERY_REQUIRED" /\ r.filled = row.filled /\ r.canceling = row.canceling
    BY <2>2, PendingRest
  <2>4. row' \in Noted(r)
    BY <2>1 DEF k
  <2> HIDE DEF r
  <2>5. Amended!Next
    BY <1>1, <1>7, <2>3, <2>4, ShowsNoAnswer DEF ReconcileFails
  <2>6. row'.state = "RECOVERY_REQUIRED"
    BY <2>3, <2>4, NotedRow
  <2> QED BY <2>5, <2>6 DEF Calm
<1>8. CASE Reconcile
  <2>1. PICK s \in Pictures :
          \E r \in {[Informed(row, s) EXCEPT !.state = PictureState(s)], Pending(Informed(row, s), TRUE)} :
             row' \in Noted(r)
    BY <1>8 DEF Reconcile
  <2>2. s.filled \in 0..Qty /\ PictureState(s) \in OrderStates
    BY PictureKinds DEF OrderStates
  <2> DEFINE i == Informed(row, s)
  <2>3. i \in Rows /\ i.filled = s.filled /\ i.canceling = row.canceling /\ i.manual = FALSE /\ i.retry = 0
    BY <1>1, <2>2, InformedRest
  <2> HIDE DEF i
  <2>4. CASE row' \in Noted([i EXCEPT !.state = PictureState(s)])
    <3> DEFINE r == [i EXCEPT !.state = PictureState(s)]
    <3>1. /\ r \in Rows /\ r.state = PictureState(s) /\ r.filled = s.filled
          /\ r.canceling = row.canceling /\ r.manual = FALSE /\ r.retry = 0
      BY <2>2, <2>3 DEF Rows
    <3> HIDE DEF r
    <3>2. row' \in Noted(r)
      BY <2>4 DEF r
    <3>3. Amended!Next
      BY <1>1, <1>8, <3>1, <3>2, ShowsPicture DEF Reconcile, NeverRefused
    <3>4. row'.manual = FALSE /\ row'.retry = 0
      BY <3>1, <3>2, NotedRow
    <3> QED BY <3>3, <3>4 DEF Calm
  <2>5. CASE row' \in Noted(Pending(i, TRUE))
    <3> DEFINE r == Pending(i, TRUE)
    <3>1. r \in Rows /\ r.state = "RECOVERY_REQUIRED" /\ r.filled = s.filled /\ r.canceling = row.canceling
          /\ r.manual = (TRUE \/ Bump(i.retry) >= RetryLimit)
      BY <2>3, PendingRest
    <3> HIDE DEF r
    <3>2. row' \in Noted(r)
      BY <2>5 DEF r
    <3>3. r.manual = TRUE
      BY <3>1
    <3>4. Amended!Next
      BY <1>1, <1>8, <3>1, <3>2, <3>3, ShowsPicture DEF Reconcile, NeverRefused
    <3>5. row'.state = "RECOVERY_REQUIRED"
      BY <3>1, <3>2, NotedRow
    <3> QED BY <3>4, <3>5 DEF Calm
  <2> QED BY <2>1, <2>4, <2>5 DEF i
<1>9. CASE CorrectFill
  BY <1>9 DEF CorrectFill, AInv
<1>10. CASE CancelClaim
  <2>1. /\ row' \in Rows /\ row'.canceling = TRUE /\ row'.filled = row.filled
        /\ row'.manual = row.manual /\ row'.retry = row.retry
        /\ row'.state = IF row.state = "RECOVERY_REQUIRED" THEN row.state ELSE "CANCEL_REQUESTED"
    BY <1>1, <1>10 DEF CancelClaim, Rows, OrderStates
  <2>2. CASE row.state = "RECOVERY_REQUIRED"
    <3>1. row' = [row EXCEPT !.canceling = TRUE]
      BY <1>1, <1>10, <2>2 DEF CancelClaim, Rows
    <3>2. row' \in Noted(row)
      BY <3>1 DEF Noted
    <3>3. Amended!Rewrite(Accepted(row)) /\ Accepted(row).state = "RECOVERY_REQUIRED"
      BY <1>1, <2>2, <3>2, Rewrites DEF Accepted
    <3>4. Amended!Next
      BY <3>3 DEF Amended!Next, Amended!Elsewhere, Amended!CancelWritten
    <3> QED BY <2>1, <2>2, <3>4 DEF Calm
  <2>3. CASE row.state \in Working
    <3> DEFINE r == [row EXCEPT !.state = "CANCEL_REQUESTED"]
    <3>1. /\ r \in Rows /\ r.state = "CANCEL_REQUESTED" /\ r.manual = row.manual
          /\ r.filled = row.filled /\ r.canceling = row.canceling
      BY <1>1 DEF Rows, OrderStates
    <3>2. row' = [r EXCEPT !.canceling = TRUE]
      BY <1>1, <1>10, <2>3 DEF CancelClaim, Rows, Working
    <3> HIDE DEF r
    <3>3. Amended!Next
      BY <1>1, <2>3, <3>1, <3>2, ShowsCancel DEF Noted
    <3> QED BY <2>1, <2>3, <3>3 DEF Calm, Working
  <2> QED BY <1>10, <2>2, <2>3 DEF CancelClaim
<1>11. CASE Invalidate
  <2>1. /\ row' \in Rows /\ row'.state = "CANCEL_REQUESTED" /\ row'.filled = row.filled
        /\ row'.manual = row.manual /\ row'.retry = row.retry /\ row'.canceling = row.canceling
        /\ row.state \in Working /\ row.state # "RECOVERY_REQUIRED"
    BY <1>1, <1>11 DEF Invalidate, Rows, OrderStates, Working
  <2>2. row' \in Noted(row')
    BY DEF Noted
  <2>3. Amended!Next
    BY <1>1, <2>1, <2>2, ShowsCancel
  <2> QED BY <2>1, <2>3 DEF Calm
<1> QED BY <1>2, <1>3, <1>4, <1>5, <1>6, <1>7, <1>8, <1>9, <1>10, <1>11 DEF Write

Placements == [st : {"open", "filled", "canceled"}, id : {0}, filled : Nat]

LEMMA PlacedFilled ==
  ASSUME NEW p \in Placements, NEW n \in Placements
  PROVE  n = [p EXCEPT !.filled = n.filled, !.st = n.st]
BY DEF Placements

LEMMA BrokerShown ==
  ASSUME QtyOK, ~LateFills, AInv, Calm, NeverRefused', Post \/ PostArrives \/ ProviderFills \/ ProviderCloses
  PROVE  Calm' /\ (Amended!Next \/ UNCHANGED <<Accepted(row), Placed>>)
<1>1. row' = row /\ Calm' /\ Accepted(row)' = Accepted(row) /\ prov \in Provider
  BY DEF Post, PostArrives, ProviderFills, ProviderCloses, Calm, Accepted, AInv, TypeOK
<1>2. CASE Post
  BY <1>1, <1>2 DEF Post, Placed
<1>3. CASE PostArrives
  <2>1. prov.st = "absent" /\ prov'.st \in {"absent", "open"} /\ prov'.filled = prov.filled
    BY <1>1, <1>3 DEF PostArrives, AInv, NeverRefused, Provider
  <2>2. Placed' = Placed
    BY <2>1 DEF Placed
  <2> QED BY <1>1, <2>2
<1>4. ASSUME NEW st \in {"open", "filled", "canceled"}, NEW f, prov'.st = st, prov'.filled = f
      PROVE  Placed' = [st |-> st, id |-> 0, filled |-> f]
  BY <1>4 DEF Placed
<1>5. Placed = [st |-> IF prov.st = "absent" THEN "open" ELSE prov.st, id |-> 0, filled |-> prov.filled]
  BY DEF Placed
<1>6. NoCall' = NoCall
  BY DEF NoCall
<1>7. CASE ProviderFills
  <2> DEFINE f == prov.filled + 1
             st == IF f = Qty THEN "filled" ELSE "open"
  <2>1. prov.st = "open" /\ prov'.st = st /\ prov'.filled = f
    BY <1>1, <1>7 DEF ProviderFills
  <2>2. Placed' = [st |-> st, id |-> 0, filled |-> f]
    BY <1>4, <2>1
  <2>3. Placed = [st |-> "open", id |-> 0, filled |-> prov.filled]
    BY <1>5, <2>1
  <2>4. Placed' = [Placed EXCEPT !.filled = Placed.filled + 1,
                               !.st = IF Placed.filled + 1 = Qty THEN "filled" ELSE @]
    <3> DEFINE p == Placed
               n == Placed'
    <3>1. f \in Nat /\ prov.filled \in Nat
      BY <1>1 DEF Provider, QtyOK
    <3>2. p \in Placements /\ n \in Placements
      BY <2>2, <2>3, <3>1 DEF Placements
    <3>3. n.filled = p.filled + 1 /\ n.st = (IF p.filled + 1 = Qty THEN "filled" ELSE p.st)
      BY <2>2, <2>3
    <3> HIDE DEF p, n
    <3>4. n = [p EXCEPT !.filled = n.filled, !.st = n.st]
      BY <3>2, PlacedFilled
    <3>5. n = [p EXCEPT !.filled = p.filled + 1, !.st = IF p.filled + 1 = Qty THEN "filled" ELSE p.st]
      BY <3>3, <3>4
    <3> QED BY <3>5 DEF p, n
  <2>5. Placed.st = "open"
    BY <2>3
  <2>6. Amended!ProviderFills
    BY <1>1, <1>6, <2>4, <2>5 DEF Amended!ProviderFills, Amended!amender
  <2> QED BY <1>1, <2>6 DEF Amended!Next, Amended!Broker
<1>8. CASE ProviderCloses
  <2>1. prov.st = "open" /\ prov'.st = "canceled" /\ prov'.filled = prov.filled
    BY <1>1, <1>8 DEF ProviderCloses, Provider
  <2>2. Placed' = [st |-> "canceled", id |-> 0, filled |-> prov.filled]
    BY <1>4, <2>1
  <2>3. Placed = [st |-> "open", id |-> 0, filled |-> prov.filled]
    BY <1>5, <2>1
  <2>4. Amended!ProviderCloses
    BY <1>1, <1>6, <2>2, <2>3 DEF Amended!ProviderCloses, Amended!amender
  <2> QED BY <1>1, <2>4 DEF Amended!Next, Amended!Broker
<1> QED BY <1>2, <1>3, <1>7, <1>8

LEMMA InitShown == ASSUME QtyOK, Init PROVE Amended!Init /\ Calm
<1>1. /\ row.state = "SUBMITTED" /\ row.filled = 0 /\ row.manual = FALSE /\ row.retry = 0
      /\ row.canceling = FALSE /\ prov.st = "absent" /\ prov.filled = 0
  BY DEF Init
<1>2. Calm
  BY <1>1 DEF Calm
<1>3. Accepted(row) = Amended!AcceptedOrder
  BY <1>1 DEF Accepted, Amended!AcceptedOrder
<1>4. Placed = [st |-> "open", id |-> 0, filled |-> 0]
  BY <1>1 DEF Placed
<1>5. NoCall = [p \in {} |-> "idle"] /\ NoCall = [p \in {} |-> 0] /\ NoCall = [p \in {} |-> Amended!AcceptedOrder]
  BY DEF NoCall
<1> QED BY <1>2, <1>3, <1>4, <1>5 DEF Amended!Init

\* The order of the pipeline is one OrderAmendment's Elsewhere and its broker account
\* for, step by step.
THEOREM ServesAmend == ASSUME QtyOK, ~LateFills PROVE Spec => ServesAmendment
<1> DEFINE shown == <<Accepted(row), Placed>>
<1>1. AInv /\ Calm /\ NeverRefused /\ NeverRefused' /\ [Next]_vars => Calm' /\ [Amended!Next]_shown
  <2>1. ASSUME Calm, UNCHANGED vars PROVE Calm' /\ UNCHANGED shown
    BY <2>1 DEF vars, Accepted, Placed, Calm
  <2> QED BY <2>1, WriteShown, BrokerShown DEF Next
<1>2. [Amended!Next]_shown => [Amended!Next]_(Amended!vars)
  <2>1. UNCHANGED shown => UNCHANGED Amended!vars
    BY DEF Amended!vars, Amended!amender, Amended!broker, NoCall
  <2> QED BY <2>1
<1>3. Spec /\ []NeverRefused => Amended!Spec
  <2>1. AInv /\ Calm /\ NeverRefused /\ NeverRefused' /\ [Next]_vars => Calm' /\ [Amended!Next]_(Amended!vars)
    BY <1>1, <1>2
  <2> QED BY AtomicInvariance, InitShown, <2>1, PTL DEF Spec, Amended!Spec
<1> QED BY <1>3 DEF ServesAmendment
=============================================================================
