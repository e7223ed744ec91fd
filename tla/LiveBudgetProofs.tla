-------------------------- MODULE LiveBudgetProofs --------------------------
(***************************************************************************)
(* Proofs about LiveBudget: its types, that the reservation of an order    *)
(* stands as long as the order may trade or is owned, that what was given  *)
(* back stays given back, that no two entries into one instrument are out  *)
(* together, and that what is reserved and what is sent fits the limit,    *)
(* for any orders, amounts, limits and number of executors.                *)
(***************************************************************************)
EXTENDS LiveBudget, FiniteSetTheorems, TLAPS

\* Where a call is says what it works on and how far it got.
Jobs ==
  \A e \in Executors :
    /\ pc[e] # "idle" => job[e] \in Orders \ Legacy
    /\ e \in fresh => pc[e] # "idle"
    /\ pc[e] = "idle" => e \notin verifyOnly
    /\ pc[e] \in {"intent", "toPost"} => e \in verifyOnly
    /\ pc[e] = "commit" => fits[e]

\* Who has the row's version has claimed it if it reserved, and nobody else has
\* recorded an intent.
Copies ==
  \A e \in fresh :
    /\ pc[e] # "toPost" => ~rows[job[e]].intent
    /\ e \in verifyOnly => rows[job[e]].claimed

\* A transaction that will not be refused is that of a current copy.
Begun ==
  \A e \in Executors \ verifyOnly :
    pc[e] \in {"begin", "commit"} /\ e \notin stale => e \in fresh

\* An order about to be sent has never been sent, and by one executor.
Sends ==
  \A e \in Executors : pc[e] = "toPost" =>
    /\ rows[job[e]].intent /\ truth[job[e]] = "none"
    /\ rows[job[e]].state \in {"SUBMITTED", "RECOVERY_REQUIRED", "CANCEL_REQUESTED"}
    /\ \A f \in Executors : pc[f] = "toPost" /\ job[f] = job[e] => f = e

\* What a row says of the broker.
RowsTrue ==
  \A o \in Orders :
    /\ truth[o] # "none" => rows[o].intent
    /\ rows[o].intent => rows[o].claimed
    /\ rows[o].state = "CANCELED" /\ ~rows[o].filled => truth[o] = "over"
    /\ rows[o].state = "FILLED" => truth[o] \in {"filled", "over"}
    /\ rows[o].state = "FILLED" /\ rows[o].closed => truth[o] = "over"
    /\ o \in Legacy => rows[o].state = "FILLED"

\* What is claimed has a reservation, given back only for good.
Held ==
  \A o \in Orders :
    /\ o \notin Legacy /\ rows[o].claimed => holds[o] # "none"
    /\ holds[o] # "none" => o \notin Legacy
    /\ holds[o] = "RELEASED" => Releasable(o)
Freeable == \A e \in Executors : \A x \in frees[e] : holds[x] # "none" /\ Releasable(x)

\* What counts against the next entry, and its instruments.
Kept == {x \in Orders : holds[x] = "HELD" \/ (x \in Legacy /\ Owned(rows[x]))}
Apart == \A x, y \in Kept : Instrument[x] = Instrument[y] => x = y
Clear ==
  \A e \in Executors \ verifyOnly :
    pc[e] \in {"begin", "commit"} /\ e \notin stale /\ fits[e] =>
      \A x \in Kept \ frees[e] : Instrument[x] = Instrument[job[e]] => x = job[e]

IInv == TypeOK /\ Jobs /\ Copies /\ Begun /\ Sends /\ RowsTrue /\ Held /\ Freeable /\ Apart /\ Clear

-----------------------------------------------------------------------------
(* Types.                                                                  *)

\* Moving an executor keeps the program counters typed.
LEMMA GotoTyped ==
  ASSUME TypeOK, NEW e \in Executors, NEW l \in PCs, Goto(e, l)
  PROVE  pc' \in [Executors -> PCs]
BY DEF TypeOK, Goto

\* So does forgetting a snapshot.
LEMMA ForgetTyped ==
  ASSUME TypeOK, NEW e \in Executors, Forget(e)
  PROVE  /\ fits' \in [Executors -> BOOLEAN] /\ frees' \in [Executors -> SUBSET Orders]
         /\ roof' \in [Executors -> Caps \cup {0}]
<1>1. fits' \in [Executors -> BOOLEAN]
  BY DEF TypeOK, Forget
<1>2. frees' \in [Executors -> SUBSET Orders]
  BY DEF TypeOK, Forget
<1>3. roof' \in [Executors -> Caps \cup {0}]
  BY DEF TypeOK, Forget
<1> QED BY <1>1, <1>2, <1>3

\* And ending a call.
LEMMA EndTyped ==
  ASSUME TypeOK, NEW e \in Executors, End(e)
  PROVE  /\ pc' \in [Executors -> PCs] /\ job' \in [Executors -> Orders \cup {NoOrder}]
         /\ verifyOnly' \subseteq Executors
         /\ fits' \in [Executors -> BOOLEAN] /\ frees' \in [Executors -> SUBSET Orders]
         /\ roof' \in [Executors -> Caps \cup {0}]
<1>1. pc' \in [Executors -> PCs]
  BY GotoTyped DEF End, PCs
<1>2. job' \in [Executors -> Orders \cup {NoOrder}] /\ verifyOnly' \subseteq Executors
  BY DEF TypeOK, End
<1> QED BY <1>1, <1>2, ForgetTyped DEF End

\* Writing a row keeps the rows typed, and leaves fresh copies of submitted orders.
LEMMA WriteTyped ==
  ASSUME TypeOK, NEW o \in Orders, NEW r \in Rows, NEW E \in SUBSET Executors, Write(o, r, E),
         \A e \in E : job[e] = o /\ r.state = "SUBMITTED"
  PROVE  /\ rows' \in [Orders -> Rows] /\ fresh' \subseteq Executors
         /\ \A e \in fresh' : job[e] # NoOrder /\ rows'[job[e]].state = "SUBMITTED"
<1>1. rows' \in [Orders -> Rows]
  BY DEF TypeOK, Write
<1>2. fresh' \subseteq Executors
  BY DEF TypeOK, Write, Knowing
<1>3. ASSUME NEW e \in fresh' PROVE job[e] # NoOrder /\ rows'[job[e]].state = "SUBMITTED"
  <2>1. CASE e \in E
    BY <2>1, OrdersAssumption DEF TypeOK, Write
  <2>2. CASE e \notin E
    <3>1. e \in fresh /\ job[e] # o
      BY <1>3, <2>2 DEF TypeOK, Write, Knowing
    <3>2. job[e] \in Orders
      BY <3>1 DEF TypeOK
    <3> QED BY <3>1, <3>2 DEF TypeOK, Write
  <2> QED BY <2>1, <2>2
<1> QED BY <1>1, <1>2, <1>3

\* A row stays a row.
LEMMA RowTyped ==
  ASSUME TypeOK, NEW o \in Orders
  PROVE  /\ rows[o] \in Rows
         /\ [rows[o] EXCEPT !.claimed = TRUE] \in Rows
         /\ [rows[o] EXCEPT !.intent = TRUE] \in Rows
         /\ [rows[o] EXCEPT !.closed = TRUE] \in Rows
         /\ \A s \in States : [rows[o] EXCEPT !.state = s] \in Rows
<1>1. rows[o] \in Rows
  BY DEF TypeOK
<1> QED BY <1>1 DEF Rows

\* What is recorded is a row of the same order, and says no more than the broker
\* has of it.
LEMMA RecordedTyped ==
  ASSUME TypeOK, NEW o \in Orders, NEW r \in Entry(o)!Recorded
  PROVE  /\ r \in Rows
         /\ r.claimed = rows[o].claimed /\ r.intent \in {rows[o].intent, rows[o].claimed}
         /\ \/ r.state \in {"RECOVERY_REQUIRED", "CANCEL_REQUESTED"}
            \/ r.state \in {"ACCEPTED", "PARTIALLY_FILLED"} /\ truth[o] # "none"
            \/ r.state = "FILLED" /\ truth[o] = "filled" /\ ~r.closed
            \/ r.state = "CANCELED" /\ r.filled /\ truth[o] = "stub"
            \/ r.state \in {"CANCELED", "REJECTED"} /\ truth[o] = "over"
<1>1. rows[o] \in Rows /\ truth[o] \in Truths
  BY DEF TypeOK
<1> DEFINE Seen(s, c) == [rows[o] EXCEPT !.state = s, !.filled = TRUE, !.closed = c]
<1>2. CASE \E i \in {rows[o].intent, rows[o].claimed} : r = [rows[o] EXCEPT !.state = "RECOVERY_REQUIRED", !.intent = i]
  BY <1>1, <1>2 DEF Rows, States
<1>3. CASE \E s \in {"CANCEL_REQUESTED"} \cup (IF truth[o] # "none" THEN {"ACCEPTED"} ELSE {})
                 \cup (IF truth[o] = "over" THEN {"CANCELED", "REJECTED"} ELSE {}) :
              r = [rows[o] EXCEPT !.state = s]
  BY <1>1, <1>3 DEF Rows, States
<1>4. CASE /\ truth[o] # "none"
           /\ \E s \in {"PARTIALLY_FILLED", "RECOVERY_REQUIRED"}, c \in BOOLEAN : r = Seen(s, c)
  BY <1>1, <1>4 DEF Rows, States
<1>5. CASE truth[o] = "filled" /\ r = Seen("FILLED", FALSE)
  BY <1>1, <1>5 DEF Rows, States
<1>6. CASE truth[o] = "stub" /\ r = [rows[o] EXCEPT !.state = "CANCELED", !.filled = TRUE]
  BY <1>1, <1>6 DEF Rows, States
<1>7. r \in Entry(o)!AtAnyTime \/ r \in Entry(o)!Reported \/ (r = [rows[o] EXCEPT !.state = "ACCEPTED"] /\ truth[o] # "none")
  BY DEF Entry!Recorded
<1>8. ASSUME r \in Entry(o)!AtAnyTime
      PROVE  \/ \E i \in {rows[o].intent, rows[o].claimed} :
                  r = [rows[o] EXCEPT !.state = "RECOVERY_REQUIRED", !.intent = i]
             \/ r = [rows[o] EXCEPT !.state = "CANCEL_REQUESTED"]
  BY <1>8 DEF Entry!AtAnyTime
<1>9. ASSUME r \in Entry(o)!Reported
      PROVE  \/ truth[o] = "over" /\ \E s \in {"CANCELED", "REJECTED"} : r = [rows[o] EXCEPT !.state = s]
             \/ /\ truth[o] # "none"
                /\ \E s \in {"PARTIALLY_FILLED", "RECOVERY_REQUIRED"}, c \in BOOLEAN : r = Seen(s, c)
             \/ truth[o] = "filled" /\ r = Seen("FILLED", FALSE)
             \/ truth[o] = "stub" /\ r = [rows[o] EXCEPT !.state = "CANCELED", !.filled = TRUE]
  <2>1. rows[o].closed \in BOOLEAN
    BY <1>1 DEF Rows
  <2>2. \/ truth[o] # "none" /\ r \in Entry(o)!Part
        \/ truth[o] = "filled" /\ r \in Entry(o)!Whole
        \/ truth[o] = "stub" /\ r \in Entry(o)!Stub
        \/ truth[o] = "over" /\ r \in Entry(o)!Nothing
    BY <1>9 DEF Entry!Reported
  <2>3. ASSUME r \in Entry(o)!Part
        PROVE  \E s \in {"PARTIALLY_FILLED", "RECOVERY_REQUIRED"}, c \in BOOLEAN : r = Seen(s, c)
    BY <2>1, <2>3 DEF Entry!Part, Entry!PartWith
  <2>4. ASSUME r \in Entry(o)!Nothing
        PROVE  \E s \in {"CANCELED", "REJECTED"} : r = [rows[o] EXCEPT !.state = s]
    BY <2>4 DEF Entry!Nothing
  <2>5. r \in Entry(o)!Whole => r = Seen("FILLED", FALSE)
    BY DEF Entry!Whole
  <2>6. r \in Entry(o)!Stub => r = [rows[o] EXCEPT !.state = "CANCELED", !.filled = TRUE]
    BY DEF Entry!Stub
  <2> HIDE DEF Seen
  <2> QED BY <2>2, <2>3, <2>4, <2>5, <2>6
<1> HIDE DEF Seen
<1> QED BY <1>2, <1>3, <1>4, <1>5, <1>6, <1>7, <1>8, <1>9

-----------------------------------------------------------------------------
(* What the pieces of the actions do to one executor or row.               *)

\* A write is of one row.
LEMMA WriteOne ==
  ASSUME TypeOK, NEW o \in Orders, NEW r \in Rows, NEW E, Write(o, r, E)
  PROVE  /\ rows'[o] = r /\ \A x \in Orders : x # o => rows'[x] = rows[x]
         /\ \A f \in Executors : f \in fresh' => f \in E \/ (f \in fresh /\ job[f] # o)
BY DEF TypeOK, Write, Knowing

\* Ending a call is for one executor.
LEMMA EndOne ==
  ASSUME TypeOK, NEW e \in Executors, End(e)
  PROVE  /\ pc'[e] = "idle" /\ e \notin verifyOnly' /\ fits'[e] = FALSE /\ frees'[e] = {}
         /\ \A f \in Executors : f # e =>
              /\ pc'[f] = pc[f] /\ job'[f] = job[f] /\ fits'[f] = fits[f] /\ frees'[f] = frees[f]
              /\ (f \in verifyOnly' <=> f \in verifyOnly)
BY DEF TypeOK, End, Goto, Forget

\* What a row that is not written keeps.
LEMMA CallKeepsRows ==
  ASSUME IInv, UNCHANGED <<db, truth>>
  PROVE  /\ RowsTrue' /\ Held' /\ Apart'
         /\ Kept' = Kept /\ \A x \in Orders : Releasable(x)' <=> Releasable(x)
<1>1. rows' = rows /\ holds' = holds /\ truth' = truth
  BY DEF db
<1>2. RowsTrue' /\ Held'
  BY <1>1 DEF IInv, RowsTrue, Held, Releasable
<1>3. Kept' = Kept
  BY <1>1 DEF Kept, Owned, Filled
<1>4. Apart'
  BY <1>3 DEF IInv, Apart
<1>5. \A x \in Orders : Releasable(x)' <=> Releasable(x)
  BY <1>1 DEF Releasable
<1> QED BY <1>2, <1>3, <1>4, <1>5

-----------------------------------------------------------------------------
(* The steps of a call that write nothing.                                 *)

LEMMA ReadOrderKeeps ==
  ASSUME IInv, NEW e \in Executors, NEW o \in Orders, ReadOrder(e, o)
  PROVE  IInv'
<1> USE DEF ReadOrder
<1>0. TypeOK /\ Jobs /\ Copies /\ Begun /\ Sends /\ RowsTrue /\ Freeable /\ Clear
  BY DEF IInv
<1>1. /\ pc' \in [Executors -> PCs] /\ pc'[e] = "snapshot" /\ job'[e] = o
      /\ job' \in [Executors -> Orders \cup {NoOrder}]
      /\ \A f \in Executors : f # e => pc'[f] = pc[f] /\ job'[f] = job[f]
  BY <1>0 DEF TypeOK, Goto, PCs
<1>2. rows' = rows /\ holds' = holds /\ truth' = truth /\ leased' = leased /\ cap' = cap
  BY DEF db
<1>3. o \notin Legacy /\ o # NoOrder
  BY <1>0, OrdersAssumption DEF RowsTrue
<1>4. e \notin verifyOnly /\ e \notin fresh
  BY <1>0 DEF Jobs
<1>5. TypeOK'
  BY <1>0, <1>1, <1>2, <1>3 DEF TypeOK
<1>6. Jobs'
  BY <1>0, <1>1, <1>3, <1>4 DEF Jobs
<1>7. Copies'
  BY <1>0, <1>1, <1>2, <1>4 DEF Copies, TypeOK
<1>8. Begun'
  BY <1>0, <1>1 DEF Begun
<1>9. Sends'
  BY <1>0, <1>1, <1>2 DEF Sends
<1>10. RowsTrue' /\ Held' /\ Apart' /\ Freeable'
  BY <1>0, <1>2, CallKeepsRows DEF Freeable, TypeOK
<1>11. Clear'
  BY <1>0, <1>1, <1>2, CallKeepsRows DEF Clear
<1> QED BY <1>5, <1>6, <1>7, <1>8, <1>9, <1>10, <1>11 DEF IInv

LEMMA ReadSnapshotKeeps ==
  ASSUME IInv, NEW e \in Executors, ReadSnapshot(e)
  PROVE  IInv'
<1> USE DEF ReadSnapshot
<1>0. TypeOK /\ Jobs /\ Copies /\ Begun /\ Sends /\ RowsTrue /\ Held /\ Freeable /\ Clear
  BY DEF IInv
<1>1. /\ pc' \in [Executors -> PCs] /\ pc'[e] = "begin"
      /\ \A f \in Executors : f # e => pc'[f] = pc[f]
  BY <1>0 DEF TypeOK, Goto, PCs
<1>2. rows' = rows /\ holds' = holds /\ truth' = truth /\ leased' = leased /\ cap' = cap
  BY DEF db
<1>3. job[e] \in Orders \ Legacy
  BY <1>0 DEF Jobs
<1>4. Fits(job[e]) \in BOOLEAN
  BY DEF Fits
<1>5. /\ fits' \in [Executors -> BOOLEAN] /\ frees' \in [Executors -> SUBSET Orders]
      /\ roof' \in [Executors -> Caps \cup {0}]
  <2>1. fits' \in [Executors -> BOOLEAN]
    BY <1>0, <1>4 DEF TypeOK
  <2>2. frees' \in [Executors -> SUBSET Orders]
    <3>1. Releases \in SUBSET Orders
      BY DEF Releases
    <3> QED BY <1>0, <3>1 DEF TypeOK
  <2>3. roof' \in [Executors -> Caps \cup {0}]
    BY <1>0 DEF TypeOK
  <2> QED BY <2>1, <2>2, <2>3
<1>6. /\ fits'[e] = Fits(job[e]) /\ frees'[e] = Releases
      /\ \A f \in Executors : f # e => fits'[f] = fits[f] /\ frees'[f] = frees[f]
  BY <1>0 DEF TypeOK
<1>7. TypeOK'
  BY <1>0, <1>1, <1>2, <1>5 DEF TypeOK
<1>8. Jobs'
  BY <1>0, <1>1, <1>6 DEF Jobs
<1>9. Copies' /\ Sends'
  BY <1>0, <1>1, <1>2 DEF Copies, Sends, TypeOK
<1>10. Begun'
  BY <1>0, <1>1 DEF Begun
<1>11. RowsTrue' /\ Held' /\ Apart'
  BY <1>2, CallKeepsRows DEF db
<1>12. Freeable'
  <2> SUFFICES ASSUME NEW f \in Executors, NEW x \in frees'[f]
               PROVE  holds[x] # "none" /\ Releasable(x)
    BY <1>2, <1>11 DEF Freeable, Releasable
  <2>1. CASE f = e
    BY <1>6, <2>1 DEF Releases
  <2>2. CASE f # e
    BY <1>0, <1>6, <2>2 DEF Freeable
  <2> QED BY <2>1, <2>2
<1>13. Clear'
  <2> SUFFICES ASSUME NEW f \in Executors \ verifyOnly, pc'[f] \in {"begin", "commit"}, f \notin stale',
                      fits'[f], NEW x \in Kept \ frees'[f], Instrument[x] = Instrument[job[f]]
               PROVE  x = job[f]
    BY <1>2, CallKeepsRows DEF Clear, db
  <2>1. CASE f = e
    <3>1. x \in Charged(job[e])
      BY <1>6, <2>1 DEF Kept, Charged, Charges, Releases
    <3> QED BY <1>6, <2>1, <3>1 DEF Fits
  <2>2. CASE f # e
    BY <1>0, <1>1, <1>6, <2>2 DEF Clear
  <2> QED BY <2>1, <2>2
<1> QED BY <1>7, <1>8, <1>9, <1>10, <1>11, <1>12, <1>13 DEF IInv

LEMMA BeginKeeps ==
  ASSUME IInv, NEW e \in Executors, Begin(e)
  PROVE  IInv'
<1> USE DEF Begin
<1>0. TypeOK /\ Jobs /\ Copies /\ Begun /\ Sends /\ Freeable /\ Clear
  BY DEF IInv
<1>1. /\ pc' \in [Executors -> PCs] /\ pc'[e] = "commit"
      /\ \A f \in Executors : f # e => pc'[f] = pc[f]
  BY <1>0 DEF TypeOK, Goto, PCs
<1>2. rows' = rows /\ holds' = holds /\ truth' = truth /\ leased' = leased /\ cap' = cap
  BY DEF db
<1>3. TypeOK'
  BY <1>0, <1>1, <1>2 DEF TypeOK
<1>4. Jobs'
  BY <1>0, <1>1 DEF Jobs, Admits
<1>5. Copies' /\ Sends'
  BY <1>0, <1>1, <1>2 DEF Copies, Sends, TypeOK
<1>6. Begun'
  BY <1>0, <1>1 DEF Begun
<1>7. RowsTrue' /\ Held' /\ Apart'
  BY <1>2, CallKeepsRows DEF db
<1>8. Freeable'
  BY <1>0, <1>2 DEF Freeable, Releasable
<1>9. Kept' = Kept
  BY <1>2, CallKeepsRows DEF db
<1>10. Clear'
  BY <1>0, <1>1, <1>9 DEF Clear
<1> QED BY <1>3, <1>4, <1>5, <1>6, <1>7, <1>8, <1>10 DEF IInv

LEMMA RetryKeeps ==
  ASSUME IInv, NEW e \in Executors, Retry(e)
  PROVE  IInv'
<1> USE DEF Retry
<1>0. TypeOK /\ Jobs /\ Copies /\ Begun /\ Sends /\ Freeable /\ Clear
  BY DEF IInv
<1>1. /\ pc' \in [Executors -> PCs] /\ pc'[e] = "snapshot"
      /\ \A f \in Executors : f # e => pc'[f] = pc[f]
  BY <1>0 DEF TypeOK, Goto, PCs
<1>2. rows' = rows /\ holds' = holds /\ truth' = truth /\ leased' = leased /\ cap' = cap
  BY DEF db
<1>3. /\ frees'[e] = {}
      /\ \A f \in Executors : f # e => fits'[f] = fits[f] /\ frees'[f] = frees[f]
  BY <1>0 DEF TypeOK, Forget
<1>4. TypeOK'
  BY <1>0, <1>1, <1>2, ForgetTyped DEF TypeOK
<1>5. Jobs'
  BY <1>0, <1>1, <1>3 DEF Jobs
<1>6. Copies' /\ Sends'
  BY <1>0, <1>1, <1>2 DEF Copies, Sends, TypeOK
<1>7. Begun'
  BY <1>0, <1>1 DEF Begun
<1>8. RowsTrue' /\ Held' /\ Apart' /\ Kept' = Kept
  BY <1>2, CallKeepsRows DEF db
<1>9. Freeable'
  BY <1>0, <1>2, <1>3 DEF Freeable, Releasable
<1>10. Clear'
  BY <1>0, <1>1, <1>3, <1>8 DEF Clear
<1> QED BY <1>4, <1>5, <1>6, <1>7, <1>8, <1>9, <1>10 DEF IInv

LEMMA CommitCheckKeeps ==
  ASSUME IInv, NEW e \in Executors, CommitCheck(e)
  PROVE  IInv'
<1> USE DEF CommitCheck
<1>0. TypeOK /\ Jobs /\ Copies /\ Begun /\ Sends /\ Freeable /\ Clear
  BY DEF IInv
<1>1. /\ pc' \in [Executors -> PCs] /\ pc'[e] = "intent"
      /\ \A f \in Executors : f # e => pc'[f] = pc[f]
  BY <1>0 DEF TypeOK, Goto, PCs
<1>2. rows' = rows /\ holds' = holds /\ truth' = truth /\ leased' = leased /\ cap' = cap
  BY DEF db
<1>3. /\ frees'[e] = {}
      /\ \A f \in Executors : f # e => fits'[f] = fits[f] /\ frees'[f] = frees[f]
  BY <1>0 DEF TypeOK
<1>4. fits' \in [Executors -> BOOLEAN] /\ frees' \in [Executors -> SUBSET Orders]
  <2>1. fits' \in [Executors -> BOOLEAN]
    BY <1>0 DEF TypeOK
  <2>2. frees' \in [Executors -> SUBSET Orders]
    BY <1>0 DEF TypeOK
  <2> QED BY <2>1, <2>2
<1>5. TypeOK'
  BY <1>0, <1>1, <1>2, <1>4 DEF TypeOK
<1>6. Jobs'
  BY <1>0, <1>1, <1>3 DEF Jobs
<1>7. Copies' /\ Sends'
  BY <1>0, <1>1, <1>2 DEF Copies, Sends, TypeOK
<1>8. Begun'
  BY <1>0, <1>1 DEF Begun
<1>9. RowsTrue' /\ Held' /\ Apart' /\ Kept' = Kept
  BY <1>2, CallKeepsRows DEF db
<1>10. Freeable'
  BY <1>0, <1>2, <1>3 DEF Freeable, Releasable
<1>11. Clear'
  BY <1>0, <1>1, <1>3, <1>9 DEF Clear
<1> QED BY <1>5, <1>6, <1>7, <1>8, <1>9, <1>10, <1>11 DEF IInv

LEMMA GiveUpKeeps ==
  ASSUME IInv, NEW e \in Executors, GiveUp(e)
  PROVE  IInv'
<1> USE DEF GiveUp
<1>0. TypeOK /\ Jobs /\ Copies /\ Begun /\ Sends /\ Freeable /\ Clear
  BY DEF IInv
<1>1. /\ pc'[e] = "idle" /\ e \notin verifyOnly' /\ frees'[e] = {}
      /\ \A f \in Executors : f # e =>
           /\ pc'[f] = pc[f] /\ job'[f] = job[f] /\ fits'[f] = fits[f] /\ frees'[f] = frees[f]
           /\ (f \in verifyOnly' <=> f \in verifyOnly)
  BY <1>0, EndOne
<1>2. rows' = rows /\ holds' = holds /\ truth' = truth /\ leased' = leased /\ cap' = cap
  BY DEF db
<1>3. TypeOK'
  BY <1>0, <1>1, <1>2, EndTyped DEF TypeOK
<1>4. Jobs'
  BY <1>0, <1>1 DEF Jobs
<1>5. Copies' /\ Sends'
  BY <1>0, <1>1, <1>2 DEF Copies, Sends, TypeOK
<1>6. Begun'
  BY <1>0, <1>1 DEF Begun
<1>7. RowsTrue' /\ Held' /\ Apart' /\ Kept' = Kept
  BY <1>2, CallKeepsRows DEF db
<1>8. Freeable'
  BY <1>0, <1>1, <1>2 DEF Freeable, Releasable
<1>9. Clear'
  BY <1>0, <1>1, <1>7 DEF Clear
<1> QED BY <1>3, <1>4, <1>5, <1>6, <1>7, <1>8, <1>9 DEF IInv

-----------------------------------------------------------------------------
(* The steps of the broker, the member and the clock.                      *)

LEMMA BrokerKeeps ==
  ASSUME IInv, NEW o \in Orders, Broker(o)
  PROVE  IInv'
<1> USE DEF Broker
<1>0. TypeOK /\ Jobs /\ Copies /\ Begun /\ Sends /\ RowsTrue /\ Held /\ Freeable /\ Apart /\ Clear
  BY DEF IInv
<1>1. /\ rows' = rows /\ holds' = holds /\ leased' = leased /\ cap' = cap
      /\ pc' = pc /\ job' = job /\ verifyOnly' = verifyOnly /\ fresh' = fresh /\ stale' = stale
      /\ fits' = fits /\ frees' = frees /\ roof' = roof
  BY DEF db, calls
<1>2. /\ truth' \in [Orders -> Truths]
      /\ \A x \in Orders : x # o => truth'[x] = truth[x]
      /\ truth[o] \in {"working", "partial"} /\ truth'[o] \in {"partial", "filled", "stub", "over"}
  <2>1. PICK t \in Entry(o)!Moves : truth' = [truth EXCEPT ![o] = t]
    OBVIOUS
  <2>2. truth[o] \in {"working", "partial"} /\ t \in {"partial", "filled", "stub", "over"}
    BY DEF Entry!Moves
  <2> QED BY <1>0, <2>1, <2>2 DEF TypeOK, Truths
<1>3. TypeOK'
  BY <1>0, <1>1, <1>2 DEF TypeOK
<1>4. Jobs' /\ Copies' /\ Begun'
  BY <1>0, <1>1 DEF Jobs, Copies, Begun
<1>5. Sends'
  <2>1. ASSUME NEW e \in Executors, pc[e] = "toPost" PROVE truth'[job[e]] = "none"
    <3>1. job[e] \in Orders /\ truth[job[e]] = "none"
      BY <1>0, <2>1 DEF Jobs, Sends
    <3> QED BY <1>2, <3>1
  <2> QED BY <1>0, <1>1, <2>1 DEF Sends
<1>6. RowsTrue'
  BY <1>0, <1>1, <1>2 DEF RowsTrue
<1>7. Held' /\ Freeable'
  BY <1>0, <1>1 DEF Held, Freeable, Releasable
<1>8. Kept' = Kept
  BY <1>1 DEF Kept, Owned, Filled
<1>9. Apart' /\ Clear'
  BY <1>0, <1>1, <1>8 DEF Apart, Clear
<1> QED BY <1>3, <1>4, <1>5, <1>6, <1>7, <1>9 DEF IInv

LEMMA LeaseExpiresKeeps ==
  ASSUME IInv, NEW o \in Orders, LeaseExpires(o)
  PROVE  IInv'
<1> USE DEF LeaseExpires
<1>0. TypeOK /\ Jobs /\ Copies /\ Begun /\ Sends /\ RowsTrue /\ Held /\ Freeable /\ Apart /\ Clear
  BY DEF IInv
<1>1. /\ rows' = rows /\ holds' = holds /\ cap' = cap /\ truth' = truth
      /\ pc' = pc /\ job' = job /\ verifyOnly' = verifyOnly /\ fresh' = fresh /\ stale' = stale
      /\ fits' = fits /\ frees' = frees /\ roof' = roof
  BY DEF calls
<1>2. TypeOK'
  BY <1>0, <1>1 DEF TypeOK
<1>3. Jobs' /\ Copies' /\ Begun' /\ Sends' /\ RowsTrue'
  BY <1>0, <1>1 DEF Jobs, Copies, Begun, Sends, RowsTrue
<1>4. Held' /\ Freeable'
  BY <1>0, <1>1 DEF Held, Freeable, Releasable
<1>5. Kept' = Kept
  BY <1>1 DEF Kept, Owned, Filled
<1>6. Apart' /\ Clear'
  BY <1>0, <1>1, <1>5 DEF Apart, Clear
<1> QED BY <1>2, <1>3, <1>4, <1>6 DEF IInv

LEMMA SavePolicyKeeps ==
  ASSUME IInv, NEW c \in Caps, SavePolicy(c)
  PROVE  IInv'
<1> USE DEF SavePolicy
<1>0. TypeOK /\ Jobs /\ Copies /\ Begun /\ Sends /\ RowsTrue /\ Held /\ Freeable /\ Apart /\ Clear
  BY DEF IInv
<1>1. /\ rows' = rows /\ holds' = holds /\ leased' = leased /\ truth' = truth
      /\ pc' = pc /\ job' = job /\ verifyOnly' = verifyOnly /\ fresh' = fresh
      /\ fits' = fits /\ frees' = frees /\ stale \subseteq stale' /\ stale' \subseteq Executors
  BY <1>0 DEF Outdated, TypeOK
<1>2. roof' \in [Executors -> Caps \cup {0}]
  BY <1>0 DEF TypeOK
<1>3. TypeOK'
  BY <1>0, <1>1, <1>2 DEF TypeOK
<1>4. Jobs' /\ Copies' /\ Begun' /\ Sends' /\ RowsTrue'
  BY <1>0, <1>1 DEF Jobs, Copies, Begun, Sends, RowsTrue
<1>5. Held' /\ Freeable'
  BY <1>0, <1>1 DEF Held, Freeable, Releasable
<1>6. Kept' = Kept
  BY <1>1 DEF Kept, Owned, Filled
<1>7. Apart' /\ Clear'
  BY <1>0, <1>1, <1>6 DEF Apart, Clear
<1> QED BY <1>3, <1>4, <1>5, <1>7 DEF IInv

LEMMA RecordExitKeeps ==
  ASSUME IInv, NEW o \in Orders, RecordExit(o)
  PROVE  IInv'
<1> USE DEF RecordExit
<1>0. TypeOK /\ Jobs /\ Copies /\ Begun /\ Sends /\ RowsTrue /\ Held /\ Freeable /\ Apart /\ Clear
  BY DEF IInv
<1>1. /\ holds' = holds /\ leased' = leased /\ cap' = cap
      /\ pc' = pc /\ job' = job /\ verifyOnly' = verifyOnly /\ fresh' = fresh
      /\ fits' = fits /\ frees' = frees /\ roof' = roof
      /\ stale \subseteq stale' /\ stale' \subseteq Executors
  BY <1>0 DEF Outdated, TypeOK
<1>2. rows' \in [Orders -> Rows]
  BY <1>0, RowTyped DEF TypeOK
<1>3. /\ \A x \in Orders : x # o => rows'[x] = rows[x]
      /\ rows'[o] = [rows[o] EXCEPT !.closed = TRUE]
  BY <1>0 DEF TypeOK
<1>4. /\ rows'[o].state = rows[o].state /\ rows'[o].intent = rows[o].intent
      /\ rows'[o].claimed = rows[o].claimed /\ rows'[o].filled = rows[o].filled /\ rows'[o].closed
  <2>1. rows[o] \in Rows
    BY <1>0, RowTyped
  <2> HIDE DEF RecordExit
  <2> QED BY <1>3, <2>1 DEF Rows
<1>5. rows[o].state \in {"PARTIALLY_FILLED", "FILLED"} /\ ~rows[o].closed
  BY DEF Owned, Filled
<1>6. /\ truth' \in [Orders -> Truths]
      /\ \A x \in Orders : x # o => truth'[x] = truth[x]
      /\ truth'[o] = IF rows[o].state = "FILLED" THEN "over" ELSE truth[o]
  BY <1>0 DEF TypeOK, Truths, Entry!Sold
<1>7. TypeOK'
  <2>1. ASSUME NEW e \in fresh PROVE job[e] # NoOrder /\ rows'[job[e]].state = "SUBMITTED"
    <3>1. job[e] \in Orders /\ rows[job[e]].state = "SUBMITTED"
      BY <1>0 DEF TypeOK
    <3> QED BY <1>0, <1>3, <1>4, <3>1 DEF TypeOK
  <2> QED BY <1>0, <1>1, <1>2, <1>6, <2>1 DEF TypeOK
<1>8. Jobs' /\ Begun'
  BY <1>0, <1>1 DEF Jobs, Begun
<1>9. \A e \in Executors : pc[e] # "idle" => job[e] \in Orders
  BY <1>0 DEF Jobs
<1>10. Copies'
  BY <1>0, <1>1, <1>3, <1>4, <1>9 DEF Copies, Jobs, TypeOK
<1>11. Sends'
  BY <1>0, <1>1, <1>3, <1>5, <1>6, <1>9 DEF Sends
<1>12. RowsTrue'
  BY <1>0, <1>3, <1>4, <1>5, <1>6 DEF RowsTrue
<1>13. \A x \in Orders : Releasable(x) => Releasable(x)'
  BY <1>3, <1>4, <1>5 DEF Releasable
<1>14. Held' /\ Freeable'
  <2>1. Held'
    BY <1>0, <1>1, <1>3, <1>4, <1>13 DEF Held
  <2>2. Freeable'
    BY <1>0, <1>1, <1>13 DEF Freeable, TypeOK
  <2> QED BY <2>1, <2>2
<1>15. Kept' \subseteq Kept
  BY <1>1, <1>3, <1>5 DEF Kept, Owned, Filled
<1>16. Apart' /\ Clear'
  BY <1>0, <1>1, <1>15 DEF Apart, Clear
<1> QED BY <1>7, <1>8, <1>10, <1>11, <1>12, <1>14, <1>16 DEF IInv

-----------------------------------------------------------------------------
(* The steps that write, and the one that sends.                           *)

\* Fields of the rows the actions write.
LEMMA Fields ==
  ASSUME NEW r \in Rows
  PROVE  /\ LET c == [r EXCEPT !.claimed = TRUE]
            IN  /\ c.state = r.state /\ c.intent = r.intent /\ c.claimed
                /\ c.filled = r.filled /\ c.closed = r.closed
         /\ LET i == [r EXCEPT !.intent = TRUE]
            IN  /\ i.state = r.state /\ i.intent /\ i.claimed = r.claimed
                /\ i.filled = r.filled /\ i.closed = r.closed
BY DEF Rows

\* A write of o, which somebody works on, leaves no other current copy of o, and no
\* transaction begun over it but those already refused.
LEMMA WriteKeepsBegun ==
  ASSUME IInv, NEW o \in Orders, NEW r \in Rows, NEW E \in SUBSET Executors, Write(o, r, E),
         NEW f \in Executors, f \notin verifyOnly, pc[f] \in {"begin", "commit"},
         f \notin stale, f \notin Outdated, f \notin LosesRow(o)
  PROVE  f \in fresh'
<1>1. f \in fresh /\ pc[f] = "commit" /\ job[f] # o
  BY DEF IInv, Begun, Outdated, LosesRow
<1> QED BY <1>1 DEF Write, Knowing

LEMMA PostOrderKeeps ==
  ASSUME IInv, NEW e \in Executors, PostOrder(e)
  PROVE  IInv'
<1> USE DEF PostOrder
<1>0. TypeOK /\ Jobs /\ Copies /\ Begun /\ Sends /\ RowsTrue /\ Held /\ Freeable /\ Apart /\ Clear
  BY DEF IInv
<1>1. /\ pc'[e] = "idle" /\ e \notin verifyOnly' /\ frees'[e] = {}
      /\ \A f \in Executors : f # e =>
           /\ pc'[f] = pc[f] /\ job'[f] = job[f] /\ fits'[f] = fits[f] /\ frees'[f] = frees[f]
           /\ (f \in verifyOnly' <=> f \in verifyOnly)
  BY <1>0, EndOne
<1>2. rows' = rows /\ holds' = holds /\ leased' = leased /\ cap' = cap /\ stale' = stale
  BY DEF db
<1>3. job[e] \in Orders /\ rows[job[e]].intent /\ truth[job[e]] = "none"
  BY <1>0 DEF Jobs, Sends
<1>4. /\ truth' \in [Orders -> Truths] /\ truth'[job[e]] = "working"
      /\ \A x \in Orders : x # job[e] => truth'[x] = truth[x]
  BY <1>0, <1>3 DEF TypeOK, Truths
<1>5. TypeOK'
  BY <1>0, <1>1, <1>2, <1>4, EndTyped DEF TypeOK
<1>6. Jobs'
  BY <1>0, <1>1 DEF Jobs
<1>7. Copies' /\ Begun'
  BY <1>0, <1>1, <1>2 DEF Copies, Begun, TypeOK
<1>8. Sends'
  <2> SUFFICES ASSUME NEW f \in Executors, f # e, pc[f] = "toPost"
               PROVE  truth'[job[f]] = "none"
    BY <1>0, <1>1, <1>2 DEF Sends
  <2> QED BY <1>0, <1>4 DEF Sends, Jobs
<1>9. RowsTrue'
  BY <1>0, <1>2, <1>3, <1>4 DEF RowsTrue
<1>10. Held' /\ Freeable'
  <2>1. Held'
    BY <1>0, <1>2 DEF Held, Releasable
  <2>2. Freeable'
    BY <1>0, <1>1, <1>2 DEF Freeable, Releasable
  <2> QED BY <2>1, <2>2
<1>11. Kept' = Kept
  BY <1>2 DEF Kept, Owned, Filled
<1>12. Apart' /\ Clear'
  <2>1. Apart'
    BY <1>0, <1>11 DEF Apart
  <2>2. Clear'
    BY <1>0, <1>1, <1>2, <1>11 DEF Clear
  <2> QED BY <2>1, <2>2
<1> QED BY <1>5, <1>6, <1>7, <1>8, <1>9, <1>10, <1>12 DEF IInv

LEMMA WriteIntentKeeps ==
  ASSUME IInv, NEW e \in Executors, WriteIntent(e)
  PROVE  IInv'
<1> USE DEF WriteIntent
<1>0. TypeOK /\ Jobs /\ Copies /\ Begun /\ Sends /\ RowsTrue /\ Held /\ Freeable /\ Apart /\ Clear
  BY DEF IInv
<1> DEFINE o == job[e]
           r == [rows[o] EXCEPT !.intent = TRUE]
<1>1. /\ o \in Orders \ Legacy /\ e \in verifyOnly /\ e \in fresh
      /\ rows[o].state = "SUBMITTED" /\ ~rows[o].intent /\ rows[o].claimed
  BY <1>0 DEF Jobs, Copies, TypeOK
<1>2. r \in Rows /\ r.state = "SUBMITTED" /\ r.intent /\ r.claimed
      /\ r.filled = rows[o].filled /\ r.closed = rows[o].closed
  <2>1. rows[o] \in Rows
    BY <1>0, <1>1 DEF TypeOK
  <2> QED BY <1>0, <1>1, <2>1, RowTyped, Fields
<1> HIDE DEF r
<1>3. Write(o, r, {e})
  BY DEF r
<1>4. /\ rows' \in [Orders -> Rows] /\ fresh' \subseteq Executors
      /\ \A f \in fresh' : job[f] # NoOrder /\ rows'[job[f]].state = "SUBMITTED"
  <2> HIDE DEF WriteIntent
  <2> QED BY <1>0, <1>1, <1>2, <1>3, WriteTyped
<1>5. /\ rows'[o] = r /\ \A x \in Orders : x # o => rows'[x] = rows[x]
      /\ \A f \in Executors : f \in fresh' => f = e \/ (f \in fresh /\ job[f] # o)
  BY <1>0, <1>1, <1>2, <1>3, WriteOne
<1>6. /\ pc' \in [Executors -> PCs] /\ pc'[e] = "toPost"
      /\ \A f \in Executors : f # e => pc'[f] = pc[f]
  BY <1>0 DEF TypeOK, Goto, PCs
<1>7. TypeOK'
  <2>1. stale' \subseteq Executors
    BY <1>0 DEF TypeOK, Outdated, LosesRow
  <2> QED BY <1>0, <1>4, <1>6, <2>1 DEF TypeOK
<1>8. Jobs'
  <2>1. ASSUME NEW f \in Executors, f \in fresh' PROVE pc'[f] # "idle"
    BY <1>0, <1>5, <1>6, <2>1 DEF Jobs
  <2> QED BY <1>0, <1>1, <1>6, <2>1 DEF Jobs
<1>9. Copies'
  <2> SUFFICES ASSUME NEW f \in fresh'
               PROVE  /\ pc'[f] # "toPost" => ~rows'[job[f]].intent
                      /\ f \in verifyOnly => rows'[job[f]].claimed
    BY DEF Copies
  <2>1. CASE f = e
    BY <1>2, <1>5, <1>6, <2>1
  <2>2. CASE f # e
    <3>1. f \in Executors /\ f \in fresh /\ job[f] # o /\ job[f] \in Orders
      BY <1>0, <1>4, <1>5, <2>2 DEF TypeOK
    <3> QED BY <1>0, <1>5, <1>6, <2>2, <3>1 DEF Copies
  <2> QED BY <2>1, <2>2
<1>10. Begun'
  BY <1>0, <1>1, <1>2, <1>3, <1>6, WriteKeepsBegun DEF Begun
<1>11. Sends'
  <2> SUFFICES ASSUME NEW f \in Executors, pc'[f] = "toPost"
               PROVE  /\ rows'[job[f]].intent /\ truth[job[f]] = "none"
                      /\ rows'[job[f]].state \in {"SUBMITTED", "RECOVERY_REQUIRED", "CANCEL_REQUESTED"}
                      /\ \A g \in Executors : pc'[g] = "toPost" /\ job[g] = job[f] => g = f
    BY DEF Sends
  <2>1. ASSUME NEW g \in Executors, pc[g] = "toPost" PROVE job[g] \in Orders /\ job[g] # o
    BY <1>0, <1>1, <2>1 DEF Sends, Jobs
  <2>2. CASE f = e
    <3>1. truth[o] = "none"
      BY <1>0, <1>1 DEF RowsTrue
    <3> QED BY <1>2, <1>5, <1>6, <2>1, <2>2, <3>1
  <2>3. CASE f # e
    BY <1>0, <1>5, <1>6, <2>1, <2>3 DEF Sends
  <2> QED BY <2>2, <2>3
<1>12. RowsTrue'
  BY <1>0, <1>1, <1>2, <1>5 DEF RowsTrue
<1>13. \A x \in Orders : Releasable(x)' <=> Releasable(x)
  BY <1>1, <1>2, <1>5 DEF Releasable
<1>14. Held' /\ Freeable'
  <2>1. Held'
    BY <1>0, <1>1, <1>2, <1>5, <1>13 DEF Held
  <2>2. Freeable'
    BY <1>0, <1>13 DEF Freeable, TypeOK
  <2> QED BY <2>1, <2>2
<1>15. Kept' = Kept
  BY <1>1, <1>5 DEF Kept, Owned, Filled
<1>16. Apart' /\ Clear'
  <2>1. Apart'
    BY <1>0, <1>15 DEF Apart
  <2>2. Clear'
    BY <1>0, <1>6, <1>15 DEF Clear
  <2> QED BY <2>1, <2>2
<1> QED BY <1>7, <1>8, <1>9, <1>10, <1>11, <1>12, <1>14, <1>16 DEF IInv

LEMMA RejectKeeps ==
  ASSUME IInv, NEW e \in Executors, Reject(e)
  PROVE  IInv'
<1> USE DEF Reject
<1>0. TypeOK /\ Jobs /\ Copies /\ Begun /\ Sends /\ RowsTrue /\ Held /\ Freeable /\ Apart /\ Clear
  BY DEF IInv
<1> DEFINE o == job[e]
           r == [rows[o] EXCEPT !.state = "REJECTED"]
<1>1. o \in Orders \ Legacy /\ rows[o].state = "SUBMITTED" /\ ~rows[o].intent
  BY <1>0 DEF Jobs, Copies, TypeOK
<1>2. r \in Rows /\ r.state = "REJECTED" /\ r.intent = rows[o].intent /\ r.claimed = rows[o].claimed
      /\ r.filled = rows[o].filled /\ r.closed = rows[o].closed
  <2>1. rows[o] \in Rows /\ "REJECTED" \in States
    BY <1>0, <1>1 DEF TypeOK, States
  <2>2. r \in Rows
    BY <1>0, <1>1, <2>1, RowTyped
  <2> HIDE DEF Reject
  <2> QED BY <2>1, <2>2 DEF Rows
<1> HIDE DEF r
<1>3. Write(o, r, {})
  BY DEF r
<1>4. /\ rows' \in [Orders -> Rows] /\ fresh' \subseteq Executors
      /\ \A f \in fresh' : job[f] # NoOrder /\ rows'[job[f]].state = "SUBMITTED"
  <2> HIDE DEF Reject
  <2> QED BY <1>0, <1>1, <1>2, <1>3, WriteTyped
<1>5. /\ rows'[o] = r /\ \A x \in Orders : x # o => rows'[x] = rows[x]
      /\ \A f \in Executors : f \in fresh' => f \in fresh /\ job[f] # o
  BY <1>0, <1>1, <1>2, <1>3, WriteOne
<1>6. /\ pc'[e] = "idle" /\ e \notin verifyOnly' /\ frees'[e] = {}
      /\ \A f \in Executors : f # e =>
           /\ pc'[f] = pc[f] /\ job'[f] = job[f] /\ fits'[f] = fits[f] /\ frees'[f] = frees[f]
           /\ (f \in verifyOnly' <=> f \in verifyOnly)
  BY <1>0, EndOne
<1>7. e \notin fresh'
  BY <1>5
<1>8. TypeOK'
  <2>1. stale' \subseteq Executors
    BY <1>0 DEF TypeOK, Outdated, LosesRow
  <2>2. \A f \in fresh' : job'[f] # NoOrder /\ rows'[job'[f]].state = "SUBMITTED"
    BY <1>4, <1>6, <1>7
  <2> QED BY <1>0, <1>4, <2>1, <2>2, EndTyped DEF TypeOK
<1>9. Jobs'
  BY <1>0, <1>5, <1>6 DEF Jobs
<1>10. Copies'
  <2> SUFFICES ASSUME NEW f \in fresh'
               PROVE  /\ pc'[f] # "toPost" => ~rows'[job'[f]].intent
                      /\ f \in verifyOnly' => rows'[job'[f]].claimed
    BY DEF Copies
  <2>1. f \in Executors /\ f # e /\ f \in fresh /\ job[f] # o /\ job[f] \in Orders
    BY <1>0, <1>4, <1>5, <1>7 DEF TypeOK
  <2> QED BY <1>0, <1>5, <1>6, <2>1 DEF Copies
<1>11. Begun'
  <2> SUFFICES ASSUME NEW f \in Executors, f \notin verifyOnly', pc'[f] \in {"begin", "commit"}, f \notin stale'
               PROVE  f \in fresh'
    BY DEF Begun
  <2>1. f # e
    BY <1>6
  <2> QED BY <1>1, <1>2, <1>3, <1>6, <2>1, WriteKeepsBegun
<1>12. \A f \in Executors : pc[f] = "toPost" => job[f] \in Orders /\ job[f] # o
  BY <1>0, <1>1 DEF Sends, Jobs
<1>13. Sends'
  BY <1>0, <1>5, <1>6, <1>12 DEF Sends
<1>14. RowsTrue'
  BY <1>0, <1>1, <1>2, <1>5 DEF RowsTrue
<1>15. \A x \in Orders : Releasable(x) => Releasable(x)'
  BY <1>1, <1>2, <1>5 DEF Releasable
<1>16. Held' /\ Freeable'
  <2>1. Held'
    BY <1>0, <1>1, <1>2, <1>5, <1>15 DEF Held
  <2>2. Freeable'
    BY <1>0, <1>6, <1>15 DEF Freeable, TypeOK
  <2> QED BY <2>1, <2>2
<1>17. Kept' = Kept
  BY <1>1, <1>5 DEF Kept, Owned, Filled
<1>18. Apart' /\ Clear'
  <2>1. Apart'
    BY <1>0, <1>17 DEF Apart
  <2>2. Clear'
    BY <1>0, <1>6, <1>17 DEF Clear
  <2> QED BY <2>1, <2>2
<1> QED BY <1>8, <1>9, <1>10, <1>11, <1>13, <1>14, <1>16, <1>18 DEF IInv

LEMMA RecordKeeps ==
  ASSUME IInv, NEW o \in Orders, Record(o)
  PROVE  IInv'
<1> USE DEF Record
<1>0. TypeOK /\ Jobs /\ Copies /\ Begun /\ Sends /\ RowsTrue /\ Held /\ Freeable /\ Apart /\ Clear
  BY DEF IInv
<1>1. PICK r \in Entry(o)!Recorded : Write(o, r, {})
  OBVIOUS
<1>2. /\ r \in Rows /\ r.claimed = rows[o].claimed
      /\ rows[o].intent => r.intent
      /\ r.intent => r.claimed
      /\ \/ r.state \in {"RECOVERY_REQUIRED", "CANCEL_REQUESTED"}
         \/ r.state \in {"ACCEPTED", "PARTIALLY_FILLED"} /\ truth[o] # "none"
         \/ r.state = "FILLED" /\ truth[o] = "filled" /\ ~r.closed
         \/ r.state = "CANCELED" /\ r.filled /\ truth[o] = "stub"
         \/ r.state \in {"CANCELED", "REJECTED"} /\ truth[o] = "over"
  BY <1>0, RecordedTyped DEF RowsTrue
<1>3. rows[o].state \notin Terminal /\ o \notin Legacy
  BY <1>0 DEF RowsTrue, Terminal
<1>4. /\ holds' = holds /\ leased' = leased /\ cap' = cap /\ truth' = truth
      /\ pc' = pc /\ job' = job /\ verifyOnly' = verifyOnly
      /\ fits' = fits /\ frees' = frees /\ roof' = roof
      /\ stale' = stale \cup Outdated \cup LosesRow(o)
  OBVIOUS
<1> HIDE DEF Record
<1>5. /\ rows' \in [Orders -> Rows] /\ fresh' \subseteq Executors
      /\ \A f \in fresh' : job[f] # NoOrder /\ rows'[job[f]].state = "SUBMITTED"
  BY <1>0, <1>1, <1>2, WriteTyped
<1>6. /\ rows'[o] = r /\ \A x \in Orders : x # o => rows'[x] = rows[x]
      /\ \A f \in Executors : f \in fresh' => f \in fresh /\ job[f] # o
  BY <1>0, <1>1, <1>2, WriteOne
<1>7. TypeOK'
  <2>1. stale' \subseteq Executors
    BY <1>0, <1>4 DEF TypeOK, Outdated, LosesRow
  <2> QED BY <1>0, <1>4, <1>5, <2>1 DEF TypeOK
<1>8. Jobs'
  BY <1>0, <1>4, <1>6 DEF Jobs
<1>9. Copies'
  <2> SUFFICES ASSUME NEW f \in fresh'
               PROVE  /\ pc[f] # "toPost" => ~rows'[job[f]].intent
                      /\ f \in verifyOnly => rows'[job[f]].claimed
    BY <1>4 DEF Copies
  <2>1. f \in Executors /\ f \in fresh /\ job[f] # o /\ job[f] \in Orders
    BY <1>0, <1>5, <1>6 DEF TypeOK
  <2> QED BY <1>0, <1>6, <2>1 DEF Copies
<1>10. Begun'
  BY <1>1, <1>2, <1>4, WriteKeepsBegun DEF Begun
<1>11. Sends'
  <2> SUFFICES ASSUME NEW f \in Executors, pc[f] = "toPost"
               PROVE  /\ rows'[job[f]].intent
                      /\ rows'[job[f]].state \in {"SUBMITTED", "RECOVERY_REQUIRED", "CANCEL_REQUESTED"}
    BY <1>0, <1>4 DEF Sends
  <2>1. job[f] \in Orders
    BY <1>0 DEF Jobs
  <2>2. CASE job[f] = o
    BY <1>0, <1>2, <1>6, <2>2 DEF Sends
  <2>3. CASE job[f] # o
    BY <1>0, <1>6, <2>1, <2>3 DEF Sends
  <2> QED BY <2>2, <2>3
<1>12. RowsTrue'
  BY <1>0, <1>2, <1>3, <1>4, <1>6 DEF RowsTrue
<1>13. \A x \in Orders : Releasable(x) => Releasable(x)'
  BY <1>3, <1>6 DEF Releasable, Terminal
<1>14. Held' /\ Freeable'
  <2>1. Held'
    BY <1>0, <1>2, <1>4, <1>6, <1>13 DEF Held
  <2>2. Freeable'
    BY <1>0, <1>4, <1>13 DEF Freeable, TypeOK
  <2> QED BY <2>1, <2>2
<1>15. Kept' = Kept
  BY <1>3, <1>4, <1>6 DEF Kept, Owned, Filled
<1>16. Apart' /\ Clear'
  <2>1. Apart'
    BY <1>0, <1>15 DEF Apart
  <2>2. Clear'
    BY <1>0, <1>4, <1>15 DEF Clear
  <2> QED BY <2>1, <2>2
<1> QED BY <1>7, <1>8, <1>9, <1>10, <1>11, <1>12, <1>14, <1>16 DEF IInv

\* What a reservation writes, whether or not its answer arrives.
LEMMA ReserveWrites ==
  ASSUME IInv, NEW e \in Executors, pc[e] = "commit", e \notin stale, e \notin verifyOnly,
         NEW E \in SUBSET {e}, Reserve(e, E), truth' = truth
  PROVE  /\ job[e] \in Orders \ Legacy /\ rows[job[e]].state = "SUBMITTED" /\ ~rows[job[e]].intent
         /\ rows' \in [Orders -> Rows] /\ leased' \subseteq Orders
         /\ holds' \in [Orders -> {"none", "HELD", "RELEASED"}]
         /\ fresh' \subseteq Executors
         /\ \A f \in fresh' : job[f] # NoOrder /\ rows'[job[f]].state = "SUBMITTED"
         /\ \A f \in Executors : f \in fresh' => f \in E \/ (f \in fresh /\ job[f] # job[e])
         /\ \A x \in Orders : /\ rows'[x].state = rows[x].state /\ rows'[x].intent = rows[x].intent
                              /\ rows[x].claimed => rows'[x].claimed
         /\ \A x \in Orders : x # job[e] => rows'[x] = rows[x]
         /\ rows'[job[e]].claimed
         /\ RowsTrue' /\ Held' /\ Apart'
         /\ \A x \in Orders : Releasable(x)' <=> Releasable(x)
         /\ \A x \in Orders : holds[x] # "none" => holds'[x] # "none"
<1> USE DEF Reserve
<1>0. TypeOK /\ Jobs /\ Copies /\ Begun /\ RowsTrue /\ Held /\ Freeable /\ Apart /\ Clear
  BY DEF IInv
<1> DEFINE o == job[e]
           r == [rows[o] EXCEPT !.claimed = TRUE]
<1>1. e \in fresh /\ fits[e]
  BY <1>0 DEF Begun, Jobs
<1>2. o \in Orders \ Legacy /\ rows[o].state = "SUBMITTED" /\ ~rows[o].intent
  BY <1>0, <1>1 DEF Jobs, Copies, TypeOK
<1>3. r \in Rows /\ r.state = "SUBMITTED" /\ r.claimed /\ r.intent = rows[o].intent
      /\ r.filled = rows[o].filled /\ r.closed = rows[o].closed
  <2>1. rows[o] \in Rows
    BY <1>0, <1>2 DEF TypeOK
  <2> HIDE DEF Reserve
  <2> QED BY <1>0, <1>2, <2>1, RowTyped, Fields
<1> HIDE DEF r
<1>4. Write(o, r, E)
  BY DEF r
<1>5. holds' = [x \in Orders |-> IF x \in frees[e] THEN "RELEASED" ELSE IF x = o THEN "HELD" ELSE holds[x]]
  OBVIOUS
<1>6. leased' \subseteq Orders
  BY <1>0, <1>2 DEF TypeOK
<1> HIDE DEF Reserve
<1>7. /\ rows' \in [Orders -> Rows] /\ fresh' \subseteq Executors
      /\ \A f \in fresh' : job[f] # NoOrder /\ rows'[job[f]].state = "SUBMITTED"
  BY <1>0, <1>2, <1>3, <1>4, WriteTyped
<1>8. /\ rows'[o] = r /\ \A x \in Orders : x # o => rows'[x] = rows[x]
      /\ \A f \in Executors : f \in fresh' => f \in E \/ (f \in fresh /\ job[f] # o)
  BY <1>0, <1>2, <1>3, <1>4, WriteOne
<1>9. \A x \in Orders : Releasable(x)' <=> Releasable(x)
  BY <1>2, <1>3, <1>8 DEF Releasable
<1>10. \A x \in frees[e] : x \in Orders \ Legacy /\ Releasable(x) /\ x # o
  BY <1>0, <1>2 DEF Freeable, Held, Releasable, TypeOK
<1>11. holds' \in [Orders -> {"none", "HELD", "RELEASED"}]
  BY <1>0, <1>5 DEF TypeOK
<1>12. \A x \in Orders : holds[x] # "none" => holds'[x] # "none"
  BY <1>5
<1>13. RowsTrue'
  BY <1>0, <1>2, <1>3, <1>8 DEF RowsTrue
<1>14. Held'
  <2> SUFFICES ASSUME NEW x \in Orders
               PROVE  /\ x \notin Legacy /\ rows'[x].claimed => holds'[x] # "none"
                      /\ holds'[x] # "none" => x \notin Legacy
                      /\ holds'[x] = "RELEASED" => Releasable(x)
    BY <1>9 DEF Held
  <2>1. CASE x \in frees[e]
    BY <1>5, <1>10, <2>1
  <2>2. CASE x = o
    BY <1>2, <1>5, <1>10, <2>2
  <2>3. CASE x \notin frees[e] /\ x # o
    BY <1>0, <1>5, <1>8, <2>3 DEF Held
  <2> QED BY <2>1, <2>2, <2>3
<1>15. Kept' \subseteq (Kept \ frees[e]) \cup {o}
  <2> SUFFICES ASSUME NEW x \in Kept', x # o PROVE x \in Kept /\ x \notin frees[e]
    OBVIOUS
  <2>1. x \in Orders /\ rows'[x] = rows[x]
    BY <1>8 DEF Kept
  <2>2. CASE x \in Legacy /\ Owned(rows[x])
    BY <1>10, <2>1, <2>2 DEF Kept
  <2>3. CASE holds'[x] = "HELD"
    BY <1>5, <2>1, <2>3 DEF Kept
  <2> QED BY <2>1, <2>2, <2>3 DEF Kept
<1>16. Apart'
  <2> SUFFICES ASSUME NEW x \in Kept', NEW y \in Kept', Instrument[x] = Instrument[y]
               PROVE  x = y
    BY DEF Apart
  <2>1. \A z \in Kept \ frees[e] : Instrument[z] = Instrument[o] => z = o
    BY <1>0, <1>1 DEF Clear
  <2> QED BY <1>0, <1>15, <2>1 DEF Apart
<1>17. \A x \in Orders : /\ rows'[x].state = rows[x].state /\ rows'[x].intent = rows[x].intent
                         /\ rows[x].claimed => rows'[x].claimed
  BY <1>2, <1>3, <1>8
<1> QED BY <1>2, <1>3, <1>6, <1>7, <1>8, <1>9, <1>11, <1>12, <1>13, <1>14, <1>16, <1>17

LEMMA CommitReservationKeeps ==
  ASSUME IInv, NEW e \in Executors, CommitReservation(e)
  PROVE  IInv'
<1>0. TypeOK /\ Jobs /\ Copies /\ Begun /\ Sends /\ RowsTrue /\ Held /\ Freeable /\ Apart /\ Clear
  BY DEF IInv
<1>1. pc[e] = "commit" /\ e \notin stale /\ e \notin verifyOnly /\ cap' = cap /\ truth' = truth
  BY DEF CommitReservation
<1>2. PICK E \in SUBSET {e} :
        /\ Reserve(e, E)
        /\ \/ /\ E = {e} /\ Goto(e, "snapshot") /\ verifyOnly' = verifyOnly \cup {e} /\ Forget(e)
              /\ job' = job
           \/ E = {} /\ End(e)
  BY DEF CommitReservation
<1>3. /\ pc' \in [Executors -> PCs] /\ job' \in [Executors -> Orders \cup {NoOrder}]
      /\ verifyOnly' \subseteq Executors
      /\ fits' \in [Executors -> BOOLEAN] /\ frees' \in [Executors -> SUBSET Orders]
      /\ roof' \in [Executors -> Caps \cup {0}]
  <2>1. CASE E = {e} /\ Goto(e, "snapshot") /\ verifyOnly' = verifyOnly \cup {e} /\ Forget(e) /\ job' = job
    <3>1. pc' \in [Executors -> PCs]
      BY <1>0, <2>1, GotoTyped DEF PCs
    <3> QED BY <1>0, <2>1, <3>1, ForgetTyped DEF TypeOK
  <2>2. CASE End(e)
    BY <1>0, <2>2, EndTyped
  <2> QED BY <1>2, <2>1, <2>2
<1>4. /\ frees'[e] = {} /\ pc'[e] \in {"snapshot", "idle"}
      /\ e \in E => pc'[e] = "snapshot" /\ job'[e] = job[e]
      /\ pc'[e] = "snapshot" => job'[e] = job[e]
      /\ pc'[e] = "idle" => e \notin verifyOnly'
      /\ \A f \in Executors : f # e =>
           /\ pc'[f] = pc[f] /\ job'[f] = job[f] /\ fits'[f] = fits[f] /\ frees'[f] = frees[f]
           /\ (f \in verifyOnly' <=> f \in verifyOnly)
  <2>1. CASE E = {e} /\ Goto(e, "snapshot") /\ verifyOnly' = verifyOnly \cup {e} /\ Forget(e) /\ job' = job
    BY <1>0, <2>1 DEF TypeOK, Goto, Forget
  <2>2. CASE E = {} /\ End(e)
    BY <1>0, <2>2, EndOne
  <2> QED BY <1>2, <2>1, <2>2
<1> DEFINE o == job[e]
<1>5. /\ o \in Orders \ Legacy /\ rows[o].state = "SUBMITTED" /\ ~rows[o].intent
      /\ rows' \in [Orders -> Rows] /\ leased' \subseteq Orders
      /\ holds' \in [Orders -> {"none", "HELD", "RELEASED"}]
      /\ fresh' \subseteq Executors
      /\ \A f \in fresh' : job[f] # NoOrder /\ rows'[job[f]].state = "SUBMITTED"
  BY <1>1, <1>2, ReserveWrites
<1>6. /\ \A f \in Executors : f \in fresh' => f \in E \/ (f \in fresh /\ job[f] # o)
      /\ \A x \in Orders : /\ rows'[x].state = rows[x].state /\ rows'[x].intent = rows[x].intent
                           /\ rows[x].claimed => rows'[x].claimed
      /\ \A x \in Orders : x # o => rows'[x] = rows[x]
      /\ rows'[o].claimed
  BY <1>1, <1>2, ReserveWrites
<1>7. RowsTrue' /\ Held' /\ Apart'
  BY <1>1, <1>2, ReserveWrites
<1>8. /\ \A x \in Orders : Releasable(x)' <=> Releasable(x)
      /\ \A x \in Orders : holds[x] # "none" => holds'[x] # "none"
  BY <1>1, <1>2, ReserveWrites
<1>9. stale' = (stale \cup Outdated \cup LosesRow(o) \cup LosesReservation) \ {e}
  BY <1>2 DEF Reserve
<1>10. TypeOK'
  <2>1. stale' \subseteq Executors
    BY <1>0, <1>9 DEF TypeOK, Outdated, LosesRow, LosesReservation
  <2>2. \A f \in fresh' : job'[f] = job[f]
    BY <1>4, <1>5, <1>6
  <2> QED BY <1>0, <1>1, <1>3, <1>5, <2>1, <2>2 DEF TypeOK
<1>11. Jobs'
  BY <1>0, <1>1, <1>4, <1>5, <1>6 DEF Jobs
<1>12. Copies'
  <2> SUFFICES ASSUME NEW f \in fresh'
               PROVE  /\ pc'[f] # "toPost" => ~rows'[job'[f]].intent
                      /\ f \in verifyOnly' => rows'[job'[f]].claimed
    BY DEF Copies
  <2>1. CASE f = e
    BY <1>4, <1>5, <1>6, <2>1
  <2>2. CASE f # e
    <3>1. f \in Executors /\ f \in fresh /\ job[f] \in Orders /\ job'[f] = job[f]
      BY <1>0, <1>4, <1>5, <1>6, <2>2 DEF TypeOK
    <3> QED BY <1>0, <1>4, <1>6, <2>2, <3>1 DEF Copies
  <2> QED BY <2>1, <2>2
<1>13. ASSUME NEW f \in Executors \ verifyOnly', pc'[f] \in {"begin", "commit"} PROVE f \in stale'
  BY <1>4, <1>9, <1>13 DEF Outdated, LosesReservation
<1>14. Begun' /\ Clear'
  BY <1>13 DEF Begun, Clear
<1>15. Sends'
  <2>1. ASSUME NEW f \in Executors, pc'[f] = "toPost"
        PROVE  f # e /\ pc[f] = "toPost" /\ job'[f] = job[f] /\ job[f] \in Orders
    BY <1>0, <1>4, <2>1 DEF Jobs
  <2> QED BY <1>0, <1>1, <1>6, <2>1 DEF Sends
<1>16. Freeable'
  BY <1>0, <1>4, <1>8 DEF Freeable, TypeOK
<1> QED BY <1>7, <1>10, <1>11, <1>12, <1>14, <1>15, <1>16 DEF IInv

-----------------------------------------------------------------------------
(* The invariant and what follows from it.                                 *)

LEMMA InitInvariant == Init => IInv
<1> SUFFICES ASSUME Init PROVE IInv
  OBVIOUS
<1> USE DEF Init
<1>1. NewOrder \in Rows /\ OldFill \in Rows
  BY DEF NewOrder, OldFill, Rows, States
<1>2. /\ \A o \in Orders : rows[o] = IF o \in Legacy THEN OldFill ELSE NewOrder
      /\ \A o \in Orders : truth[o] = (IF o \in Legacy THEN "filled" ELSE "none") /\ holds[o] = "none"
      /\ \A e \in Executors : pc[e] = "idle" /\ frees[e] = {}
  OBVIOUS
<1>3. TypeOK
  <2>1. rows \in [Orders -> Rows]
    BY <1>1
  <2>2. truth \in [Orders -> Truths] /\ holds \in [Orders -> {"none", "HELD", "RELEASED"}]
    BY DEF Truths
  <2>3. pc \in [Executors -> PCs] /\ job \in [Executors -> Orders \cup {NoOrder}]
    BY DEF PCs
  <2>4. fits \in [Executors -> BOOLEAN] /\ frees \in [Executors -> SUBSET Orders]
    OBVIOUS
  <2>5. roof \in [Executors -> Caps \cup {0}]
    OBVIOUS
  <2> QED BY <2>1, <2>2, <2>3, <2>4, <2>5 DEF TypeOK
<1>4. Jobs /\ Copies /\ Begun /\ Sends /\ Freeable /\ Clear
  BY <1>2 DEF Jobs, Copies, Begun, Sends, Freeable, Clear
<1>5. RowsTrue /\ Held
  BY <1>2 DEF RowsTrue, Held, NewOrder, OldFill
<1>6. Kept \subseteq Legacy
  BY <1>2 DEF Kept
<1>7. Apart
  BY <1>6, LegacyDistinct DEF Apart
<1> QED BY <1>3, <1>4, <1>5, <1>7 DEF IInv

\* Every step of an executor, of the pipeline behind it, of the broker, the member
\* or the clock keeps the invariant.
THEOREM Consecution == IInv /\ [Next]_vars => IInv'
<1> SUFFICES ASSUME IInv, [Next]_vars PROVE IInv'
  OBVIOUS
<1>1. ASSUME NEW e \in Executors, Execute(e) PROVE IInv'
  BY <1>1, ReadOrderKeeps, ReadSnapshotKeeps, BeginKeeps, RetryKeeps, CommitReservationKeeps,
     CommitCheckKeeps, WriteIntentKeeps, PostOrderKeeps, RejectKeeps, GiveUpKeeps DEF Execute
<1>2. ASSUME NEW o \in Orders, Record(o) \/ RecordExit(o) \/ Broker(o) \/ LeaseExpires(o) PROVE IInv'
  BY <1>2, RecordKeeps, RecordExitKeeps, BrokerKeeps, LeaseExpiresKeeps
<1>3. ASSUME NEW c \in Caps, SavePolicy(c) PROVE IInv'
  BY <1>3, SavePolicyKeeps
<1>4. CASE UNCHANGED vars
  <2>1. UNCHANGED <<db, truth>>
    BY <1>4 DEF vars
  <2>2. RowsTrue' /\ Held' /\ Apart' /\ Kept' = Kept
    BY <2>1, CallKeepsRows
  <2>3. TypeOK' /\ Jobs' /\ Copies' /\ Begun' /\ Sends'
    BY <1>4 DEF IInv, TypeOK, Jobs, Copies, Begun, Sends, vars, db, calls
  <2>4. Freeable'
    BY <1>4 DEF IInv, Freeable, Releasable, vars, db, calls
  <2>5. Clear'
    BY <1>4, <2>2 DEF IInv, Clear, vars, db, calls
  <2> QED BY <2>2, <2>3, <2>4, <2>5 DEF IInv
<1> QED BY <1>1, <1>2, <1>3, <1>4 DEF Next

\* The invariant holds in every state, for any orders, limits and executors.
THEOREM Invariance == Spec => []IInv
<1>1. Init => IInv
  BY InitInvariant
<1>2. IInv /\ [Next]_vars => IInv'
  BY Consecution
<1> QED BY <1>1, <1>2, PTL DEF Spec

\* Every variable keeps its type.
THEOREM TypeCorrect == Spec => []TypeOK
<1>1. IInv => TypeOK
  BY DEF IInv
<1> QED BY <1>1, Invariance, PTL

\* The reservation of an order that may trade or is owned stands.
LEMMA InvariantHolds == IInv => HoldStands
<1> SUFFICES ASSUME IInv, NEW o \in Exposed \ Legacy PROVE holds[o] = "HELD"
  BY DEF HoldStands
<1>1. o \in Orders /\ truth[o] # "none" /\ truth[o] # "over"
  BY DEF Exposed
<1>2. rows[o].intent /\ holds[o] # "none"
  BY <1>1 DEF IInv, RowsTrue, Held
<1>3. ~Releasable(o)
  BY <1>1, <1>2 DEF IInv, RowsTrue, Releasable
<1> QED BY <1>1, <1>2, <1>3 DEF IInv, TypeOK, Held

\* No order of a member that may trade or is owned is without its reservation,
\* whatever executors, leases and unknown answers do.
THEOREM HoldsStand == Spec => []HoldStands
BY InvariantHolds, Invariance, PTL

\* What was given back belongs to an order that is over.
LEMMA InvariantReleases == IInv => ReleaseIsFinal
BY DEF IInv, Held, Releasable, RowsTrue, ReleaseIsFinal, Terminal, Exposed

\* Capital that was given back is never needed again, for any number of orders.
THEOREM ReleasedForGood == Spec => []ReleaseIsFinal
BY InvariantReleases, Invariance, PTL

\* Orders of one instrument are not out together.
LEMMA InvariantSeparates == IInv => OneEntryPerInstrument
<1> SUFFICES ASSUME IInv PROVE Exposed \subseteq Kept
  BY DEF IInv, Apart, OneEntryPerInstrument
<1> SUFFICES ASSUME NEW o \in Exposed PROVE o \in Kept
  OBVIOUS
<1>1. CASE o \notin Legacy
  BY <1>1, InvariantHolds DEF HoldStands, Kept, Exposed
<1>2. CASE o \in Legacy
  <2>1. rows[o].state = "FILLED" /\ ~rows[o].closed
    BY <1>2 DEF IInv, RowsTrue, Exposed
  <2> QED BY <1>2, <2>1 DEF Kept, Owned, Filled, Exposed
<1> QED BY <1>1, <1>2

\* However many executors reserve from whatever snapshots, two entries into one
\* instrument are never working or owned together.
THEOREM OneEntry == Spec => []OneEntryPerInstrument
BY InvariantSeparates, Invariance, PTL

-----------------------------------------------------------------------------
(* Sums.  A sum counts units of capital, so it grows with what is charged. *)

\* Finitely many orders have finitely many units.
LEMMA UnitsFinite ==
  ASSUME NEW S \in SUBSET Orders
  PROVE  IsFiniteSet(Units(S))
<1> DEFINE UnitsOf == [o \in S |-> {o} \X (1 .. Amount[o])]
           Parts == {UnitsOf[o] : o \in S}
<1>1. IsFiniteSet(S)
  BY OrdersAssumption, FS_Subset
<1>2. UnitsOf \in Surjection(S, Parts)
  BY DEF Surjection
<1>3. IsFiniteSet(Parts)
  BY <1>1, <1>2, FS_Surjection
<1>4. ASSUME NEW T \in Parts PROVE IsFiniteSet(T)
  <2>1. PICK o \in S : T = {o} \X (1 .. Amount[o])
    OBVIOUS
  <2>2. IsFiniteSet({o})
    BY FS_Singleton
  <2>3. Amount[o] \in Int
    BY AmountAssumption
  <2>4. IsFiniteSet(1 .. Amount[o])
    BY <2>3, FS_Interval
  <2> QED BY <2>1, <2>2, <2>4, FS_Product
<1>5. Units(S) = UNION Parts
  BY DEF Units
<1> QED BY <1>3, <1>4, <1>5, FS_UNION

\* The less is charged, the less is the sum.
LEMMA TotalMonotone ==
  ASSUME NEW S \in SUBSET Orders, NEW T \in SUBSET S
  PROVE  Total(S) \in Nat /\ Total(T) \in Nat /\ Total(T) <= Total(S)
<1>1. Units(T) \subseteq Units(S)
  BY DEF Units
<1>2. IsFiniteSet(Units(S)) /\ IsFiniteSet(Units(T))
  BY UnitsFinite
<1>3. Cardinality(Units(S)) \in Nat /\ Cardinality(Units(T)) \in Nat
  BY <1>2, FS_CardinalityType
<1>4. Cardinality(Units(T)) <= Cardinality(Units(S))
  BY <1>1, <1>2, FS_Subset
<1> QED BY <1>3, <1>4 DEF Total

\* So a bound on a sum is one on a part of it, and a larger one will do.
LEMMA PartFits ==
  ASSUME NEW S \in SUBSET Orders, NEW T \in SUBSET S, NEW m \in Nat, NEW n \in Nat,
         Total(S) <= m, m <= n
  PROVE  Total(T) <= n
BY TotalMonotone

\* From its snapshot to its POST an executor knows a limit the present one does
\* not exceed.
Past == {"begin", "commit", "intent", "toPost"}
Roofed == \A e \in Executors : pc[e] \in Past => 0 < roof[e] /\ cap <= roof[e]

\* A reservation about to be made, and what is charged once it is.
Pending(e) == e \notin verifyOnly /\ pc[e] \in {"begin", "commit"} /\ e \notin stale /\ fits[e]
Claims(e) == {job[e]} \cup Exposed \cup {x \in Orders : holds[x] = "HELD" /\ x \notin frees[e]}
Affordable == \A e \in Executors : Pending(e) => Total(Claims(e)) <= roof[e]

\* Executors whose order may be sent by the check they made, and what may then
\* trade or be owned.  It grows only by a snapshot, which fits the limit of now,
\* which is no more than that of any of them.
Passed ==
  {e \in verifyOnly : \/ pc[e] = "toPost"
                      \/ e \in fresh /\ pc[e] = "intent"
                      \/ e \in fresh /\ pc[e] \in {"begin", "commit"} /\ fits[e]}
Due == Exposed \cup {job[e] : e \in Passed}
Covered == \A e \in Passed : Total(Due) <= roof[e]

Sums == Roofed /\ Affordable /\ Covered

\* Limits and orders.
LEMMA SumsTyped ==
  ASSUME IInv
  PROVE  /\ cap \in Nat /\ \A e \in Executors : roof[e] \in Nat
         /\ Passed \subseteq Executors /\ Due \subseteq Orders
         /\ \A e \in Executors : pc[e] # "idle" => job[e] \in Orders /\ Claims(e) \subseteq Orders
<1>1. cap \in Nat /\ \A e \in Executors : roof[e] \in Nat
  <2>1. cap \in Caps /\ roof \in [Executors -> Caps \cup {0}]
    BY DEF IInv, TypeOK
  <2>2. cap \in Nat
    BY <2>1, CapsAssumption
  <2>3. ASSUME NEW e \in Executors PROVE roof[e] \in Nat
    <3>1. roof[e] \in Caps \cup {0}
      BY <2>1
    <3>2. \A c \in Caps : c \in Nat
      BY CapsAssumption
    <3> QED BY <3>1, <3>2
  <2> QED BY <2>2, <2>3
<1>2. Passed \subseteq Executors
  BY DEF Passed, IInv, TypeOK
<1>3. \A e \in Executors : pc[e] # "idle" => job[e] \in Orders
  BY DEF IInv, Jobs
<1>4. Due \subseteq Orders
  BY <1>2, <1>3 DEF Due, Passed, Exposed
<1>5. \A e \in Executors : pc[e] # "idle" => Claims(e) \subseteq Orders
  BY <1>3 DEF Claims, Exposed
<1> QED BY <1>1, <1>2, <1>3, <1>4, <1>5

\* What may trade or is owned is charged, as a reservation that stays or as a fill.
LEMMA ExposedCharged ==
  ASSUME IInv, NEW o \in Exposed
  PROVE  \/ holds[o] = "HELD" /\ ~Releasable(o)
         \/ Owned(rows[o])
<1>1. o \in Orders /\ truth[o] # "none" /\ truth[o] # "over"
  BY DEF Exposed
<1>2. CASE o \notin Legacy
  <2>1. holds[o] = "HELD"
    BY <1>2, InvariantHolds DEF HoldStands
  <2>2. ~Releasable(o)
    BY <1>1 DEF IInv, RowsTrue, Releasable
  <2> QED BY <2>1, <2>2
<1>3. CASE o \in Legacy
  BY <1>1, <1>3 DEF IInv, RowsTrue, Owned, Filled
<1> QED BY <1>2, <1>3

\* So is what has been claimed and is not final.
LEMMA PassedCharged ==
  ASSUME IInv, NEW e \in Passed
  PROVE  /\ e \in Executors /\ job[e] \in Orders
         /\ holds[job[e]] = "HELD" /\ ~Releasable(job[e])
<1>1. e \in Executors /\ job[e] \in Orders \ Legacy
  BY DEF Passed, IInv, TypeOK, Jobs
<1>2. CASE pc[e] = "toPost"
  <2>1. rows[job[e]].intent /\ rows[job[e]].state \in {"SUBMITTED", "RECOVERY_REQUIRED", "CANCEL_REQUESTED"}
    BY <1>1, <1>2 DEF IInv, Sends
  <2>2. holds[job[e]] # "none" /\ ~Releasable(job[e])
    BY <1>1, <2>1 DEF IInv, RowsTrue, Held, Releasable
  <2> QED BY <1>1, <2>1, <2>2 DEF IInv, TypeOK, Held
<1>3. CASE pc[e] # "toPost"
  <2>1. rows[job[e]].claimed /\ rows[job[e]].state = "SUBMITTED"
    BY <1>3 DEF Passed, IInv, TypeOK, Copies
  <2>2. holds[job[e]] # "none" /\ ~Releasable(job[e])
    BY <1>1, <2>1 DEF IInv, Held, Releasable
  <2> QED BY <1>1, <2>1, <2>2 DEF IInv, TypeOK, Held
<1> QED BY <1>2, <1>3

\* A step in which nobody makes a snapshot, and nothing is reserved but what makes
\* the snapshots of the others stale, only takes from what is bounded.
LEMMA StepKeepsSums ==
  ASSUME IInv, IInv', Sums,
         \A f \in Executors : pc'[f] \in Past => pc[f] \in Past /\ roof[f] <= roof'[f] /\ cap' <= roof'[f],
         \A f \in Executors : Pending(f)' =>
           Pending(f) /\ job'[f] = job[f] /\ frees'[f] = frees[f] /\ holds' = holds,
         \A f \in Passed' : f \in Passed /\ job'[f] = job[f],
         Exposed' \subseteq Exposed \cup {job[f] : f \in {g \in Passed : pc[g] = "toPost"}}
  PROVE  Sums'
<1>0. cap' \in Nat /\ \A f \in Executors : roof'[f] \in Nat
  <2>1. cap' \in Caps /\ roof' \in [Executors -> Caps \cup {0}]
    BY DEF IInv, TypeOK
  <2>2. cap' \in Nat
    BY <2>1, CapsAssumption
  <2>3. ASSUME NEW f \in Executors PROVE roof'[f] \in Nat
    <3>1. roof'[f] \in Caps \cup {0}
      BY <2>1
    <3>2. \A c \in Caps : c \in Nat
      BY CapsAssumption
    <3> QED BY <3>1, <3>2
  <2> QED BY <2>2, <2>3
<1>1. Roofed'
  <2> SUFFICES ASSUME NEW f \in Executors, pc'[f] \in Past
               PROVE  0 < roof'[f] /\ cap' <= roof'[f]
    BY DEF Roofed, Past
  <2>1. 0 < roof[f] /\ roof[f] <= roof'[f] /\ cap' <= roof'[f]
    BY DEF Sums, Roofed
  <2> QED BY <1>0, <2>1, SumsTyped
<1>2. Affordable'
  <2> SUFFICES ASSUME NEW f \in Executors, Pending(f)'
               PROVE  Total(Claims(f)') <= roof'[f]
    BY DEF Affordable
  <2>1. /\ Pending(f) /\ job'[f] = job[f] /\ frees'[f] = frees[f] /\ holds' = holds
        /\ pc'[f] \in Past
    BY DEF Pending, Past
  <2>2. ASSUME NEW x \in Exposed' PROVE x \in Claims(f)
    <3>1. CASE x \in Exposed
      BY <3>1 DEF Claims
    <3>2. CASE x \notin Exposed
      <4>1. PICK g \in Passed : x = job[g]
        BY <2>2, <3>2
      <4>2. x \in Orders /\ holds[x] = "HELD" /\ ~Releasable(x)
        BY <4>1, PassedCharged
      <4>3. x \notin frees[f]
        BY <4>2 DEF IInv, Freeable
      <4> QED BY <4>2, <4>3 DEF Claims
    <3> QED BY <3>1, <3>2
  <2>3. Claims(f)' \subseteq Claims(f)
    BY <2>1, <2>2 DEF Claims
  <2>4. Claims(f) \subseteq Orders /\ roof[f] \in Nat /\ roof'[f] \in Nat
    <3>1. pc[f] # "idle"
      BY <2>1 DEF Pending
    <3> QED BY <1>0, <3>1, SumsTyped
  <2>5. Total(Claims(f)) <= roof[f] /\ roof[f] <= roof'[f]
    BY <2>1 DEF Sums, Affordable
  <2> QED BY <2>3, <2>4, <2>5, PartFits
<1>3. Covered'
  <2> SUFFICES ASSUME NEW f \in Passed'
               PROVE  Total(Due') <= roof'[f]
    BY DEF Covered
  <2>1. f \in Passed /\ f \in Executors
    BY SumsTyped
  <2>2. Due' \subseteq Due
    BY DEF Due
  <2>3. pc'[f] \in Past
    BY DEF Passed, Past
  <2>4. roof[f] \in Nat /\ roof'[f] \in Nat /\ roof[f] <= roof'[f]
    BY <1>0, <2>1, <2>3, SumsTyped
  <2>5. Total(Due) <= roof[f]
    BY <2>1 DEF Sums, Covered
  <2> QED BY <2>2, <2>4, <2>5, PartFits, SumsTyped
<1> QED BY <1>1, <1>2, <1>3 DEF Sums

\* A step of one call that does not touch what the others hold.
Elsewhere(e) ==
  \A f \in Executors \ {e} :
    /\ pc'[f] = pc[f] /\ job'[f] = job[f] /\ fits'[f] = fits[f] /\ frees'[f] = frees[f]
    /\ roof'[f] = roof[f] /\ (f \in verifyOnly' <=> f \in verifyOnly)
    /\ f \in fresh' => f \in fresh
    /\ f \in stale => f \in stale'

\* Who ends, or has to read a snapshot again, is bound by none.
LEMMA LeavingKeepsSums ==
  ASSUME IInv, IInv', Sums, NEW e \in Executors, Elsewhere(e), cap' = cap,
         pc'[e] \in {"idle", "snapshot"},
         holds' = holds \/ \A f \in Executors : ~Pending(f)',
         Exposed' \subseteq Exposed \cup {job[f] : f \in {g \in Passed : pc[g] = "toPost"}}
  PROVE  Sums'
<1>1. \A f \in Executors : pc'[f] \in Past => pc[f] \in Past /\ roof[f] <= roof'[f] /\ cap' <= roof'[f]
  <2> SUFFICES ASSUME NEW f \in Executors, pc'[f] \in Past
               PROVE  pc[f] \in Past /\ roof[f] <= roof'[f] /\ cap' <= roof'[f]
    OBVIOUS
  <2>1. f # e
    BY DEF Past
  <2>2. pc[f] \in Past /\ roof'[f] = roof[f]
    BY <2>1 DEF Elsewhere
  <2> QED BY <2>2, SumsTyped DEF Sums, Roofed
<1>2. \A f \in Executors : Pending(f)' =>
        Pending(f) /\ job'[f] = job[f] /\ frees'[f] = frees[f] /\ holds' = holds
  BY DEF Elsewhere, Pending
<1>3. \A f \in Passed' : f \in Passed /\ job'[f] = job[f]
  <2> SUFFICES ASSUME NEW f \in Passed' PROVE f \in Passed /\ job'[f] = job[f]
    OBVIOUS
  <2>1. f \in Executors /\ f # e
    BY DEF Passed, IInv, TypeOK
  <2> QED BY <2>1 DEF Passed, Elsewhere
<1> QED BY <1>1, <1>2, <1>3, StepKeepsSums

\* Who goes on without a new snapshot is bound as before.
LEMMA GoingOnKeepsSums ==
  ASSUME IInv, IInv', Sums, NEW e \in Executors, Elsewhere(e), cap' = cap,
         pc[e] \in Past, roof' = roof, job' = job, holds' = holds, truth' = truth,
         Pending(e)' => Pending(e) /\ frees'[e] = frees[e],
         e \in Passed' => e \in Passed
  PROVE  Sums'
<1>1. \A f \in Executors : pc'[f] \in Past => pc[f] \in Past /\ roof[f] <= roof'[f] /\ cap' <= roof'[f]
  <2> SUFFICES ASSUME NEW f \in Executors, pc'[f] \in Past
               PROVE  pc[f] \in Past /\ roof[f] <= roof'[f] /\ cap' <= roof'[f]
    OBVIOUS
  <2>1. pc[f] \in Past
    BY DEF Elsewhere
  <2> QED BY <2>1, SumsTyped DEF Sums, Roofed
<1>2. \A f \in Executors : Pending(f)' =>
        Pending(f) /\ job'[f] = job[f] /\ frees'[f] = frees[f] /\ holds' = holds
  BY DEF Elsewhere, Pending
<1>3. \A f \in Passed' : f \in Passed /\ job'[f] = job[f]
  <2> SUFFICES ASSUME NEW f \in Passed', f # e PROVE f \in Passed
    OBVIOUS
  <2>1. f \in Executors
    BY DEF Passed, IInv, TypeOK
  <2> QED BY <2>1 DEF Passed, Elsewhere
<1>4. Exposed' = Exposed
  BY DEF Exposed
<1> QED BY <1>1, <1>2, <1>3, <1>4, StepKeepsSums

-----------------------------------------------------------------------------
(* The steps and the sums.                                                 *)

\* The one step that adds to what is bounded: its snapshot holds all of it.
LEMMA SnapshotSums ==
  ASSUME IInv, IInv', Sums, NEW e \in Executors, ReadSnapshot(e)
  PROVE  Sums'
<1> USE DEF ReadSnapshot
<1>0. TypeOK /\ job[e] \in Orders /\ cap \in Nat /\ \A f \in Executors : roof[f] \in Nat
  BY SumsTyped DEF IInv, Jobs
<1>1. /\ rows' = rows /\ holds' = holds /\ truth' = truth /\ cap' = cap
      /\ job' = job /\ verifyOnly' = verifyOnly /\ fresh' = fresh /\ 0 < cap
  BY <1>0 DEF db, Projects
<1>2. /\ pc'[e] = "begin" /\ fits'[e] = Fits(job[e]) /\ frees'[e] = Releases /\ roof'[e] = cap
      /\ \A f \in Executors \ {e} :
           /\ pc'[f] = pc[f] /\ fits'[f] = fits[f] /\ frees'[f] = frees[f] /\ roof'[f] = roof[f]
           /\ f \in stale' <=> f \in stale
  BY <1>0 DEF TypeOK, Goto
<1>3. Exposed' = Exposed
  BY <1>1 DEF Exposed
<1>4. Charged(job[e]) \subseteq Orders
  BY <1>0 DEF Charged
<1>5. Exposed \subseteq Charged(job[e])
  BY ExposedCharged DEF Charged, Charges, Exposed
<1>6. Roofed'
  <2> SUFFICES ASSUME NEW f \in Executors, pc'[f] \in Past
               PROVE  0 < roof'[f] /\ cap <= roof'[f]
    BY <1>1 DEF Roofed, Past
  <2>1. CASE f = e
    BY <1>0, <1>1, <1>2, <2>1
  <2>2. CASE f # e
    BY <1>2, <2>2 DEF Sums, Roofed
  <2> QED BY <2>1, <2>2
<1>7. Affordable'
  <2> SUFFICES ASSUME NEW f \in Executors, Pending(f)'
               PROVE  Total(Claims(f)') <= roof'[f]
    BY DEF Affordable
  <2>1. CASE f = e
    <3>1. Fits(job[e])
      BY <1>2, <2>1 DEF Pending
    <3>2. Claims(f)' \subseteq Charged(job[e])
      BY <1>1, <1>2, <1>3, <1>5, <2>1 DEF Claims, Charged, Releases
    <3>3. Total(Charged(job[e])) <= cap
      BY <3>1 DEF Fits
    <3> QED BY <1>0, <1>2, <1>4, <2>1, <3>2, <3>3, PartFits
  <2>2. CASE f # e
    <3>1. Pending(f)
      BY <1>1, <1>2, <2>2 DEF Pending
    <3>2. Claims(f)' = Claims(f)
      BY <1>1, <1>2, <1>3, <2>2 DEF Claims
    <3> QED BY <1>2, <2>2, <3>1, <3>2 DEF Sums, Affordable
  <2> QED BY <2>1, <2>2
<1>8. \A f \in Passed' : f = e \/ f \in Passed
  <2> SUFFICES ASSUME NEW f \in Passed', f # e PROVE f \in Passed
    OBVIOUS
  <2>1. f \in Executors
    BY DEF Passed, IInv, TypeOK
  <2> QED BY <1>1, <1>2, <2>1 DEF Passed
<1>9. Covered'
  <2> SUFFICES ASSUME NEW f \in Passed' PROVE Total(Due') <= roof'[f]
    BY DEF Covered
  <2>0. f \in Executors /\ pc'[f] \in Past
    BY DEF Passed, IInv, TypeOK, Past
  <2>1. CASE e \in Passed'
    <3>1. Fits(job[e])
      BY <1>2, <2>1 DEF Passed
    <3>2. \A g \in Passed' : job[g] \in Charged(job[e])
      BY <1>8, PassedCharged DEF Charged
    <3>3. Due' \subseteq Charged(job[e])
      BY <1>1, <1>3, <1>5, <3>2 DEF Due
    <3>4. Total(Charged(job[e])) <= cap
      BY <3>1 DEF Fits
    <3>5. cap <= roof'[f]
      BY <1>1, <1>6, <2>0 DEF Roofed
    <3>6. roof'[f] \in Nat
      BY <1>0, <1>2, <2>0
    <3> QED BY <1>0, <1>4, <3>3, <3>4, <3>5, <3>6, PartFits
  <2>2. CASE e \notin Passed'
    <3>1. f # e /\ f \in Passed
      BY <1>8, <2>2
    <3>2. Due' \subseteq Due
      BY <1>1, <1>3, <1>8, <2>2 DEF Due
    <3>3. Total(Due) <= roof[f] /\ roof'[f] = roof[f]
      BY <1>2, <2>0, <3>1 DEF Sums, Covered
    <3> QED BY <1>0, <2>0, <3>2, <3>3, PartFits, SumsTyped
  <2> QED BY <2>1, <2>2
<1> QED BY <1>6, <1>7, <1>9 DEF Sums

\* Every step of a call keeps the sums bounded.
LEMMA ExecuteSums ==
  ASSUME IInv, IInv', Sums, NEW e \in Executors, Execute(e)
  PROVE  Sums'
<1>0. TypeOK /\ Jobs
  BY DEF IInv
<1>1. ASSUME End(e), UNCHANGED truth, UNCHANGED cap, stale \ {e} \subseteq stale',
             \A f \in Executors \ {e} : f \in fresh' => f \in fresh,
             holds' = holds \/ \A f \in Executors : ~Pending(f)'
      PROVE  Sums'
  <2>1. Elsewhere(e) /\ pc'[e] = "idle"
    BY <1>0, <1>1 DEF Elsewhere, End, Goto, Forget, TypeOK
  <2>2. Exposed' = Exposed
    BY <1>1 DEF Exposed
  <2> QED BY <1>1, <2>1, <2>2, LeavingKeepsSums
<1>2. ASSUME NEW o \in Orders, ReadOrder(e, o) PROVE Sums'
  <2>1. Elsewhere(e) /\ pc'[e] = "snapshot" /\ holds' = holds /\ cap' = cap
    BY <1>0, <1>2 DEF ReadOrder, Elsewhere, Goto, TypeOK, db
  <2>2. Exposed' = Exposed
    BY <1>2 DEF ReadOrder, Exposed
  <2> QED BY <2>1, <2>2, LeavingKeepsSums
<1>3. CASE Retry(e)
  <2>1. Elsewhere(e) /\ pc'[e] = "snapshot" /\ holds' = holds /\ cap' = cap
    BY <1>0, <1>3 DEF Retry, Elsewhere, Forget, Goto, TypeOK, db
  <2>2. Exposed' = Exposed
    BY <1>3 DEF Retry, Exposed
  <2> QED BY <2>1, <2>2, LeavingKeepsSums
<1>4. CASE Begin(e)
  <2>1. /\ pc[e] = "begin" /\ pc'[e] = "commit" /\ e \notin stale /\ fits[e]
        /\ pc[e] \in Past /\ roof' = roof /\ job' = job /\ holds' = holds /\ truth' = truth /\ cap' = cap
        /\ verifyOnly' = verifyOnly /\ fresh' = fresh /\ fits' = fits /\ frees' = frees
    BY <1>0, <1>4 DEF Begin, Admits, Goto, TypeOK, db, Past
  <2>2. Elsewhere(e)
    BY <1>0, <1>4 DEF Begin, Elsewhere, Goto, TypeOK
  <2>3. (Pending(e)' => Pending(e)) /\ (e \in Passed' => e \in Passed)
    BY <2>1 DEF Pending, Passed
  <2> QED BY <2>1, <2>2, <2>3, GoingOnKeepsSums
<1>5. CASE CommitReservation(e)
  <2>1. PICK E \in SUBSET {e} :
          /\ Reserve(e, E)
          /\ \/ Goto(e, "snapshot") /\ verifyOnly' = verifyOnly \cup {e} /\ Forget(e) /\ UNCHANGED job
             \/ End(e)
    BY <1>5 DEF CommitReservation
  <2>2. /\ cap' = cap /\ truth' = truth
        /\ stale' = (stale \cup Outdated \cup LosesRow(job[e]) \cup LosesReservation) \ {e}
        /\ \A f \in Executors \ {e} : f \in fresh' => f \in fresh
    BY <1>5, <2>1 DEF CommitReservation, Reserve, Write, Knowing
  <2>3. Elsewhere(e) /\ pc'[e] \in {"snapshot", "idle"}
    BY <1>0, <2>1, <2>2 DEF Elsewhere, End, Forget, Goto, TypeOK
  <2>4. \A f \in Executors : ~Pending(f)'
    BY <2>2, <2>3 DEF Pending, Elsewhere, Outdated, LosesReservation
  <2>5. Exposed' = Exposed
    BY <2>2 DEF Exposed
  <2> QED BY <2>2, <2>3, <2>4, <2>5, LeavingKeepsSums
<1>6. CASE CommitCheck(e)
  <2>1. /\ pc[e] = "commit" /\ pc'[e] = "intent" /\ fits[e] /\ e \in verifyOnly
        /\ pc[e] \in Past /\ roof' = roof /\ job' = job /\ holds' = holds /\ truth' = truth /\ cap' = cap
        /\ verifyOnly' = verifyOnly /\ fresh' = fresh
    BY <1>0, <1>6 DEF CommitCheck, Jobs, Goto, TypeOK, db, Past
  <2>2. Elsewhere(e)
    BY <1>0, <1>6 DEF CommitCheck, Elsewhere, Goto, TypeOK
  <2>3. ~Pending(e)' /\ (e \in Passed' => e \in Passed)
    BY <2>1 DEF Pending, Passed
  <2> QED BY <2>1, <2>2, <2>3, GoingOnKeepsSums
<1>7. CASE WriteIntent(e)
  <2>1. /\ pc[e] = "intent" /\ pc'[e] = "toPost" /\ e \in fresh
        /\ pc[e] \in Past /\ roof' = roof /\ job' = job /\ holds' = holds /\ truth' = truth /\ cap' = cap
        /\ verifyOnly' = verifyOnly
    BY <1>0, <1>7 DEF WriteIntent, Goto, TypeOK, Past
  <2>2. Elsewhere(e)
    BY <1>0, <1>7 DEF WriteIntent, Write, Knowing, Elsewhere, Goto, TypeOK
  <2>3. ~Pending(e)' /\ (e \in Passed' => e \in Passed)
    BY <2>1 DEF Pending, Passed
  <2> QED BY <2>1, <2>2, <2>3, GoingOnKeepsSums
<1>8. CASE PostOrder(e)
  <2>1. e \in Passed /\ pc[e] = "toPost"
    BY <1>0, <1>8 DEF PostOrder, Jobs, Passed
  <2>2. Elsewhere(e) /\ pc'[e] = "idle" /\ holds' = holds /\ cap' = cap
    BY <1>0, <1>8 DEF PostOrder, Elsewhere, End, Goto, Forget, TypeOK, db
  <2>3. truth' = [truth EXCEPT ![job[e]] = "working"]
    BY <1>8 DEF PostOrder
  <2>4. Exposed' \subseteq Exposed \cup {job[f] : f \in {g \in Passed : pc[g] = "toPost"}}
    BY <1>0, <2>1, <2>3 DEF Exposed, TypeOK
  <2> QED BY <2>2, <2>4, LeavingKeepsSums
<1>9. CASE Reject(e)
  <2>1. /\ \A f \in Executors \ {e} : f \in fresh' => f \in fresh
        /\ stale \ {e} \subseteq stale'
    BY <1>9 DEF Reject, Write, Knowing
  <2>2. End(e) /\ truth' = truth /\ cap' = cap /\ holds' = holds
    BY <1>9 DEF Reject
  <2> QED BY <1>1, <2>1, <2>2
<1>10. CASE GiveUp(e)
  BY <1>1, <1>10 DEF GiveUp, db
<1> QED BY <1>2, <1>3, <1>4, <1>5, <1>6, <1>7, <1>8, <1>9, <1>10, SnapshotSums DEF Execute

\* What the pipeline records, the broker, the member and the clock do frees capital
\* or raises the limits.
LEMMA OutsideSums ==
  ASSUME IInv, IInv', Sums,
         \/ \E o \in Orders : Record(o) \/ RecordExit(o) \/ Broker(o) \/ LeaseExpires(o)
         \/ \E c \in Caps : SavePolicy(c)
         \/ UNCHANGED vars
  PROVE  Sums'
<1>0. TypeOK /\ cap \in Nat /\ \A f \in Executors : roof[f] \in Nat
  BY SumsTyped DEF IInv
<1>1. /\ pc' = pc /\ job' = job /\ verifyOnly' = verifyOnly /\ fits' = fits /\ frees' = frees
      /\ holds' = holds /\ fresh' \subseteq fresh /\ stale \subseteq stale'
  BY DEF Record, RecordExit, Broker, LeaseExpires, SavePolicy, Write, Knowing, vars, db, calls
<1>2. Exposed' \subseteq Exposed
  <2>1. CASE \E o \in Orders : Broker(o)
    BY <1>0, <2>1 DEF Broker, Entry!Moves, Exposed, TypeOK
  <2>2. CASE \E o \in Orders : RecordExit(o)
    BY <1>0, <2>2 DEF RecordExit, Entry!Sold, Exposed, TypeOK
  <2>3. CASE truth' = truth
    BY <2>3 DEF Exposed
  <2> QED BY <2>1, <2>2, <2>3 DEF Record, LeaseExpires, SavePolicy, vars
<1>3. \A f \in Executors : pc'[f] \in Past => pc[f] \in Past /\ roof[f] <= roof'[f] /\ cap' <= roof'[f]
  <2> SUFFICES ASSUME NEW f \in Executors, pc[f] \in Past
               PROVE  roof[f] <= roof'[f] /\ cap' <= roof'[f]
    BY <1>1
  <2>1. 0 < roof[f] /\ cap <= roof[f]
    BY DEF Sums, Roofed
  <2>2. CASE \E c \in Caps : SavePolicy(c)
    <3>1. PICK c \in Caps : SavePolicy(c)
      BY <2>2
    <3>2. c \in Nat
      BY CapsAssumption
    <3>3. cap' = c /\ roof'[f] = IF roof[f] \in 1..c THEN c ELSE roof[f]
      BY <3>1 DEF SavePolicy
    <3> QED BY <1>0, <2>1, <3>2, <3>3
  <2>3. CASE ~\E c \in Caps : SavePolicy(c)
    <3>1. cap' = cap /\ roof' = roof
      BY <2>3 DEF Record, RecordExit, Broker, LeaseExpires, vars, db, calls
    <3> QED BY <1>0, <2>1, <3>1
  <2> QED BY <2>2, <2>3
<1>4. \A f \in Executors : Pending(f)' =>
        Pending(f) /\ job'[f] = job[f] /\ frees'[f] = frees[f] /\ holds' = holds
  BY <1>1 DEF Pending
<1>5. \A f \in Passed' : f \in Passed /\ job'[f] = job[f]
  BY <1>1 DEF Passed
<1> QED BY <1>2, <1>3, <1>4, <1>5, StepKeepsSums

\* The sums hold in every reachable state.
LEMMA SumsInvariance == Spec => [](IInv /\ Sums)
<1>1. Init => Sums
  <2> SUFFICES ASSUME Init PROVE Sums
    OBVIOUS
  <2>1. verifyOnly = {} /\ \A e \in Executors : pc[e] = "idle"
    BY DEF Init
  <2>2. Roofed /\ Affordable
    BY <2>1 DEF Roofed, Past, Affordable, Pending
  <2>3. Covered
    BY <2>1 DEF Covered, Passed
  <2> QED BY <2>2, <2>3 DEF Sums
<1>2. IInv /\ Sums /\ [Next]_vars => IInv' /\ Sums'
  BY Consecution, ExecuteSums, OutsideSums DEF Next
<1> QED BY <1>1, <1>2, InitInvariant, PTL DEF Spec

\* A reservation fits a limit that was in force since its snapshot, with all that is
\* reserved or out besides, for any orders, amounts, limits and executors.
THEOREM ReservationFits == Spec => ReservationFitsCap
<1> DEFINE Fitting == \A e \in Executors : pc[e] = "commit" /\ pc'[e] # "commit" /\ holds' # holds
                        => Total(Exposed' \cup {o \in Orders : holds'[o] = "HELD"}) <= roof[e]
<1>1. IInv /\ Sums /\ [Next]_vars => Fitting
  <2> SUFFICES ASSUME IInv, Sums, [Next]_vars, NEW e \in Executors,
                      pc[e] = "commit", pc'[e] # "commit", holds' # holds
               PROVE  Total(Exposed' \cup {o \in Orders : holds'[o] = "HELD"}) <= roof[e]
    OBVIOUS
  <2>0. TypeOK /\ Jobs
    BY DEF IInv
  <2>1. PICK f \in Executors : CommitReservation(f)
    BY DEF Next, Execute, ReadOrder, ReadSnapshot, Begin, Retry, CommitCheck, WriteIntent, PostOrder,
           Reject, GiveUp, Record, RecordExit, Broker, LeaseExpires, SavePolicy, vars, db
  <2>2. f = e
    BY <2>0, <2>1 DEF CommitReservation, End, Goto, TypeOK
  <2>3. e \notin verifyOnly /\ e \notin stale /\ truth' = truth /\ \E E \in SUBSET {e} : Reserve(e, E)
    BY <2>1, <2>2 DEF CommitReservation
  <2>4. Pending(e)
    BY <2>0, <2>3 DEF Pending, Jobs
  <2>5. Total(Claims(e)) <= roof[e]
    BY <2>4 DEF Sums, Affordable
  <2>6. \A o \in Orders : holds'[o] = "HELD" => o \notin frees[e] /\ (o = job[e] \/ holds[o] = "HELD")
    BY <2>3 DEF Reserve
  <2>7. Exposed' \cup {o \in Orders : holds'[o] = "HELD"} \subseteq Claims(e)
    BY <2>3, <2>6 DEF Claims, Exposed
  <2>8. Claims(e) \subseteq Orders /\ roof[e] \in Nat
    BY SumsTyped
  <2> QED BY <2>5, <2>7, <2>8, PartFits
<1>2. IInv /\ Sums /\ [Next]_vars => [Fitting]_vars
  BY <1>1
<1> QED BY <1>2, SumsInvariance, PTL DEF Spec, ReservationFitsCap

\* Whatever is sent fits, with all that is out, a limit in force since its sender
\* last checked, however many executors passed their checks before it.
THEOREM PostFits == Spec => PostFitsCap
<1> DEFINE Fitting == \A e \in Executors : pc[e] = "toPost" /\ pc'[e] = "idle" /\ truth' # truth
                        => Total(Exposed') <= roof[e]
<1>1. IInv /\ Sums /\ [Next]_vars => Fitting
  <2> SUFFICES ASSUME IInv, Sums, [Next]_vars, NEW e \in Executors,
                      pc[e] = "toPost", pc'[e] = "idle", truth' # truth
               PROVE  Total(Exposed') <= roof[e]
    OBVIOUS
  <2>0. TypeOK /\ Jobs
    BY DEF IInv
  <2>1. PICK f \in Executors : PostOrder(f)
    BY DEF Next, Execute, ReadOrder, ReadSnapshot, Begin, Retry, CommitReservation, CommitCheck,
           WriteIntent, Reject, GiveUp, Record, RecordExit, Broker, LeaseExpires, SavePolicy, vars, calls
  <2>2. f = e
    BY <2>0, <2>1 DEF PostOrder, End, Goto, TypeOK
  <2>3. e \in Passed
    BY <2>0 DEF Jobs, Passed
  <2>4. Exposed' \subseteq Due
    BY <2>0, <2>1, <2>2, <2>3 DEF PostOrder, Exposed, Due, TypeOK
  <2>5. Total(Due) <= roof[e] /\ Due \subseteq Orders /\ roof[e] \in Nat
    BY <2>3, SumsTyped DEF Sums, Covered
  <2> QED BY <2>4, <2>5, PartFits
<1>2. IInv /\ Sums /\ [Next]_vars => [Fitting]_vars
  BY <1>1
<1> QED BY <1>2, SumsInvariance, PTL DEF Spec, PostFitsCap

-----------------------------------------------------------------------------
(* Each entry is an order of BudgetedOrder.                                *)

\* A write by a call is one of the order's own, before it is sent.
LEMMA CallIsEntry ==
  ASSUME IInv, NEW e \in Executors, Execute(e), NEW o \in Orders
  PROVE  Entry(o)!Next \/ UNCHANGED <<rows[o], truth[o]>>
<1>0. TypeOK /\ Jobs /\ Copies /\ Begun /\ Sends
  BY DEF IInv
<1>1. ASSUME pc[e] # "idle", NEW r \in Rows, NEW E, Write(job[e], r, E), truth' = truth,
             job[e] = o => /\ Entry(o)!Unsent
                           /\ \/ r = [rows[o] EXCEPT !.claimed = TRUE]
                              \/ rows[o].claimed /\ r = [rows[o] EXCEPT !.intent = TRUE]
                              \/ r = [rows[o] EXCEPT !.state = "REJECTED"]
      PROVE  Entry(o)!Next \/ UNCHANGED <<rows[o], truth[o]>>
  <2>1. job[e] \in Orders
    BY <1>0, <1>1 DEF Jobs
  <2>2. rows'[job[e]] = r /\ \A x \in Orders : x # job[e] => rows'[x] = rows[x]
    BY <1>0, <1>1, <2>1, WriteOne
  <2>3. CASE job[e] = o
    BY <1>1, <2>2, <2>3 DEF Entry!Next, Entry!Claim, Entry!RecordIntent, Entry!Refuse
  <2>4. CASE job[e] # o
    BY <1>1, <2>2, <2>4
  <2> QED BY <2>3, <2>4
<1>2. pc[e] # "idle" => job[e] \in Orders
  BY <1>0 DEF Jobs
<1>3. \A x \in Orders : /\ [rows[x] EXCEPT !.claimed = TRUE] \in Rows
                         /\ [rows[x] EXCEPT !.intent = TRUE] \in Rows
                         /\ [rows[x] EXCEPT !.state = "REJECTED"] \in Rows
  BY <1>0, RowTyped DEF States
<1>4. ASSUME e \in fresh, pc[e] # "toPost", job[e] = o PROVE Entry(o)!Unsent
  BY <1>0, <1>4 DEF TypeOK, Copies, Entry!Unsent
<1>5. CASE CommitReservation(e)
  <2>1. pc[e] = "commit" /\ e \in fresh /\ truth' = truth
    BY <1>0, <1>5 DEF CommitReservation, Begun
  <2>2. PICK E : Write(job[e], [rows[job[e]] EXCEPT !.claimed = TRUE], E)
    BY <1>5 DEF CommitReservation, Reserve
  <2> QED BY <1>1, <1>2, <1>3, <1>4, <2>1, <2>2
<1>6. CASE WriteIntent(e)
  <2>1. pc[e] = "intent" /\ e \in fresh /\ truth' = truth /\ rows[job[e]].claimed
    BY <1>0, <1>6 DEF WriteIntent, Jobs, Copies
  <2>2. Write(job[e], [rows[job[e]] EXCEPT !.intent = TRUE], {e})
    BY <1>6 DEF WriteIntent
  <2> QED BY <1>1, <1>2, <1>3, <1>4, <2>1, <2>2
<1>7. CASE Reject(e)
  <2>1. pc[e] \notin {"idle", "toPost"} /\ e \in fresh /\ truth' = truth
    BY <1>7 DEF Reject
  <2>2. Write(job[e], [rows[job[e]] EXCEPT !.state = "REJECTED"], {})
    BY <1>7 DEF Reject
  <2> QED BY <1>1, <1>2, <1>3, <1>4, <2>1, <2>2
<1>8. CASE PostOrder(e)
  <2>1. pc[e] = "toPost" /\ rows' = rows /\ truth' = [truth EXCEPT ![job[e]] = "working"]
    BY <1>8 DEF PostOrder, db
  <2>2. job[e] \in Orders /\ rows[job[e]].intent /\ truth[job[e]] = "none"
    BY <1>0, <1>2, <2>1 DEF Sends
  <2> QED BY <1>0, <2>1, <2>2 DEF TypeOK, Entry!Next, Entry!Post
<1>9. CASE rows' = rows /\ truth' = truth
  BY <1>9
<1> QED
  BY <1>5, <1>6, <1>7, <1>8, <1>9
  DEF Execute, ReadOrder, ReadSnapshot, Begin, Retry, CommitCheck, GiveUp, db

\* So is what the rest of the pipeline records of an order, what the broker makes
\* of it, and the sale of what it filled.
LEMMA RestIsEntry ==
  ASSUME IInv, NEW x \in Orders, Record(x) \/ RecordExit(x) \/ Broker(x), NEW o \in Orders
  PROVE  Entry(o)!Next \/ UNCHANGED <<rows[o], truth[o]>>
<1>0. TypeOK
  BY DEF IInv
<1>1. CASE Record(x)
  <2>1. PICK r \in Entry(x)!Recorded : Write(x, r, {})
    BY <1>1 DEF Record
  <2>2. r \in Rows
    BY <1>0, RecordedTyped
  <2>3. rows'[x] = r /\ \A y \in Orders : y # x => rows'[y] = rows[y]
    BY <1>0, <2>1, <2>2, WriteOne
  <2>4. rows[x].state \notin Terminal /\ truth' = truth
    BY <1>1 DEF Record
  <2>5. CASE o = x
    <3>1. Entry(o)!Record
      BY <2>1, <2>3, <2>4, <2>5 DEF Entry!Record, Entry!Terminal, Terminal
    <3> QED BY <3>1 DEF Entry!Next
  <2>6. CASE o # x
    BY <2>3, <2>4, <2>6
  <2> QED BY <2>5, <2>6
<1>2. CASE RecordExit(x)
  <2>1. /\ Owned(rows[x]) /\ rows'[x] = [rows[x] EXCEPT !.closed = TRUE] /\ truth'[x] = Entry(x)!Sold
        /\ \A y \in Orders : y # x => rows'[y] = rows[y] /\ truth'[y] = truth[y]
    BY <1>0, <1>2 DEF RecordExit, TypeOK
  <2>2. CASE o = x
    <3>1. Entry(o)!RecordExit
      BY <2>1, <2>2 DEF Entry!RecordExit, Entry!Owned, Owned, Filled
    <3> QED BY <3>1 DEF Entry!Next
  <2>3. CASE o # x
    BY <2>1, <2>3
  <2> QED BY <2>2, <2>3
<1>3. CASE Broker(x)
  <2>1. /\ rows' = rows /\ truth'[x] \in Entry(x)!Moves
        /\ \A y \in Orders : y # x => truth'[y] = truth[y]
    BY <1>0, <1>3 DEF Broker, TypeOK, db
  <2>2. CASE o = x
    <3>1. Entry(o)!Broker
      BY <2>1, <2>2 DEF Entry!Broker
    <3> QED BY <3>1 DEF Entry!Next
  <2>3. CASE o # x
    BY <2>1, <2>3
  <2> QED BY <2>2, <2>3
<1> QED BY <1>1, <1>2, <1>3

\* Every order of a member is, by itself, an order of BudgetedOrder, whatever the
\* other orders, the executors, the policy and the clock do.
THEOREM EntriesAreOrders == Spec => OrdersAreEntries
<1>1. ASSUME NEW o \in Orders \ Legacy
      PROVE  Spec => Entry(o)!Spec
  <2>1. Init => Entry(o)!Init
    BY DEF Init, NewOrder, Entry!Init
  <2>2. IInv /\ [Next]_vars => [Entry(o)!Next]_<<rows[o], truth[o]>>
    <3> SUFFICES ASSUME IInv, [Next]_vars
                 PROVE  Entry(o)!Next \/ UNCHANGED <<rows[o], truth[o]>>
      OBVIOUS
    <3>1. CASE \E e \in Executors : Execute(e)
      BY <3>1, CallIsEntry
    <3>2. CASE \E x \in Orders : Record(x) \/ RecordExit(x) \/ Broker(x)
      BY <3>2, RestIsEntry
    <3>3. CASE (\E x \in Orders : LeaseExpires(x)) \/ (\E c \in Caps : SavePolicy(c)) \/ UNCHANGED vars
      BY <3>3 DEF LeaseExpires, SavePolicy, vars, db
    <3> QED BY <3>1, <3>2, <3>3 DEF Next
  <2> QED BY <2>1, <2>2, Invariance, PTL DEF Spec, Entry!Spec
<1> QED BY <1>1 DEF OrdersAreEntries
=============================================================================
