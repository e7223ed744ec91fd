-------------------------- MODULE WorkerLockProofs --------------------------
(***************************************************************************)
(* Proofs about WorkerLock: its types, and that the lock keeps a worker to *)
(* one process as long as starts do not overlap and no live process falls  *)
(* silent, for any number of starts, crashes and attempts.                 *)
(***************************************************************************)
EXTENDS WorkerLock, TLAPS

\* A process that runs, or has not yet removed the file it holds.
Holds(p) == pc[p] \in {"own", "check", "unlock"}

\* The holder is the one the path names, its record and its heartbeat are there.
HolderNamed ==
  \A p \in Starts : Holds(p) => lock = p /\ written /\ p \in beats /\ p \notin late

\* Starts acquire one at a time.
OneAcquires ==
  \A p, q \in Starts : pc[p] \in Acquiring /\ pc[q] \in Acquiring => p = q

\* A start that is creating its file still has it; one that judges a record read
\* the path's, which only a release can have removed since; and one that retires
\* a file has found no holder.
Acquirer(p) ==
  /\ pc[p] \in {"write", "beat"} => lock = p
  /\ pc[p] = "beat" => written
  /\ pc[p] = "judge" => lock \in {seen[p], NoStart}
  /\ pc[p] \in {"retire", "tidy"} => \A q \in Starts : ~Holds(q)

Serial == HolderNamed /\ OneAcquires /\ \A p \in Starts : Acquirer(p)

\* An empty path has no record, and a start that does not run yet has no heartbeat.
Consistent ==
  /\ lock = NoStart => ~written
  /\ \A p \in Starts : pc[p] \in Acquiring \cup {"idle"} => p \notin beats

IInv == TypeOK /\ Consistent /\ (Quiet => Serial)

Step(p) ==
  Begin(p) \/ Works(p) \/ Beat(p) \/ StopSignal(p) \/ Age(p) \/ GrowLate(p) \/ Crash(p)

-----------------------------------------------------------------------------
(* Types.                                                                  *)

\* Moving a start keeps the program counters typed.
LEMMA GotoTyped ==
  ASSUME TypeOK, NEW p \in Starts, NEW l \in PCs, Goto(p, l)
  PROVE  pc' \in [Starts -> PCs]
BY DEF TypeOK, Goto

\* So does ending one.
LEMMA EndTyped ==
  ASSUME TypeOK, NEW p \in Starts, NEW l \in Ended, End(p, l)
  PROVE  /\ pc' \in [Starts -> PCs] /\ seen' \in [Starts -> Starts \cup {NoStart}]
         /\ tries' \in [Starts -> 0..(MaxAttempts - 1)]
<1>1. l \in PCs /\ 0 \in 0..(MaxAttempts - 1)
  BY AttemptBound DEF PCs
<1>2. pc' \in [Starts -> PCs]
  BY <1>1, GotoTyped DEF End
<1> QED BY <1>1, <1>2 DEF TypeOK, End

\* And the next attempt, which is within the bound.
LEMMA AgainTyped ==
  ASSUME TypeOK, NEW p \in Starts, Again(p)
  PROVE  /\ pc' \in [Starts -> PCs] /\ seen' \in [Starts -> Starts \cup {NoStart}]
         /\ tries' \in [Starts -> 0..(MaxAttempts - 1)]
<1>1. CASE tries[p] + 1 = MaxAttempts
  BY <1>1, EndTyped DEF Again, Ended
<1>2. CASE tries[p] + 1 # MaxAttempts
  <2>1. Goto(p, "create") /\ tries' = [tries EXCEPT ![p] = tries[p] + 1]
        /\ seen' = [seen EXCEPT ![p] = NoStart]
    BY <1>2 DEF Again
  <2>2. tries[p] \in 0..(MaxAttempts - 1)
    BY DEF TypeOK
  <2>3. tries[p] + 1 \in 0..(MaxAttempts - 1)
    BY <1>2, <2>2, AttemptBound
  <2>4. pc' \in [Starts -> PCs]
    BY <2>1, GotoTyped DEF PCs, Acquiring
  <2> QED BY <2>1, <2>3, <2>4 DEF TypeOK
<1> QED BY <1>1, <1>2

\* A silence is counted when it is a fault.
LEMMA SilentTyped ==
  ASSUME TypeOK, NEW p, NEW may, Silent(p, may)
  PROVE  stalled' \in BOOLEAN /\ faults' \in 0..MaxFaults
<1>1. CASE UNCHANGED <<stalled, faults>>
  BY <1>1 DEF TypeOK
<1>2. CASE Fault /\ stalled' = TRUE
  BY <1>2, FaultBound DEF TypeOK, Fault
<1> QED BY <1>1, <1>2 DEF Silent

\* Every step keeps TypeOK.
LEMMA StepTyped == ASSUME TypeOK, NEW p \in Starts, Step(p) PROVE TypeOK'
<1> USE DEF PCs, Acquiring, Releasing, Ended
<1>1. CASE Begin(p)
  BY <1>1, GotoTyped DEF Begin, TypeOK
<1>2. CASE Create(p)
  BY <1>2, GotoTyped DEF Create, TypeOK
<1>3. CASE WriteRecord(p)
  BY <1>3, GotoTyped DEF WriteRecord, TypeOK
<1>4. CASE WriteHeartbeat(p)
  BY <1>4, GotoTyped DEF WriteHeartbeat, TypeOK
<1>5. CASE Read(p)
  BY <1>5, GotoTyped DEF Read, ReadRecord, AfterRead, TypeOK
<1>6. CASE Judge(p)
  <2>1. CASE End(p, "gone")
    BY <1>6, <2>1, EndTyped DEF Judge, TypeOK
  <2>2. CASE Goto(p, "retire") /\ UNCHANGED <<seen, tries>>
    BY <1>6, <2>2, GotoTyped DEF Judge, TypeOK
  <2> QED BY <1>6, <2>1, <2>2 DEF Judge
<1>7. CASE Retire(p)
  <2>1. CASE Again(p)
    BY <1>7, <2>1, AgainTyped DEF Retire, TypeOK
  <2>2. CASE Goto(p, "tidy") /\ UNCHANGED <<seen, tries>>
    BY <1>7, <2>2, GotoTyped DEF Retire, TypeOK
  <2> QED BY <1>7, <2>1, <2>2 DEF Retire
<1>8. CASE Tidy(p)
  BY <1>8, AgainTyped DEF Tidy, TypeOK
<1>9. CASE Check(p)
  BY <1>9, GotoTyped DEF Check, TypeOK
<1>10. CASE Unlock(p)
  BY <1>10, GotoTyped DEF Unlock, TypeOK
<1>11. CASE Unbeat(p)
  BY <1>11, EndTyped DEF Unbeat, TypeOK
<1>12. CASE Beat(p)
  BY <1>12 DEF Beat, TypeOK
<1>13. CASE StopSignal(p)
  BY <1>13, GotoTyped DEF StopSignal, TypeOK
<1>14. CASE Age(p)
  BY <1>14, SilentTyped DEF Age, TypeOK
<1>15. CASE GrowLate(p)
  BY <1>15, SilentTyped DEF GrowLate, TypeOK
<1>16. CASE Crash(p)
  BY <1>16, EndTyped, FaultBound DEF Crash, Fault, TypeOK
<1> QED BY <1>1, <1>2, <1>3, <1>4, <1>5, <1>6, <1>7, <1>8, <1>9, <1>10, <1>11, <1>12, <1>13, <1>14, <1>15, <1>16
        DEF Step, Works, Acquire, Release

-----------------------------------------------------------------------------
(* The lock.                                                               *)

\* The next attempt starts over, or ends.
LEMMA AgainMoves ==
  ASSUME TypeOK, NEW p \in Starts, Again(p)
  PROVE  \E l \in {"create", "gone"} : pc' = [pc EXCEPT ![p] = l]
BY DEF Again, End, Goto

\* Every step keeps the files consistent.
LEMMA StepConsistent == ASSUME TypeOK, Consistent, NEW p \in Starts, Step(p) PROVE Consistent'
<1> USE NoStartDistinct DEF TypeOK, Consistent, Acquiring
<1>1. CASE Begin(p)
  BY <1>1 DEF Begin, Goto
<1>2. CASE Create(p)
  BY <1>2 DEF Create, Goto
<1>3. CASE WriteRecord(p)
  BY <1>3 DEF WriteRecord, Goto
<1>4. CASE WriteHeartbeat(p)
  BY <1>4 DEF WriteHeartbeat, Goto
<1>5. CASE Read(p)
  BY <1>5 DEF Read, AfterRead, Goto
<1>6. CASE Judge(p)
  BY <1>6 DEF Judge, End, Goto
<1>7. CASE Retire(p)
  <2>1. \E l \in {"create", "gone", "tidy"} : pc' = [pc EXCEPT ![p] = l]
    BY <1>7, AgainMoves DEF Retire, Goto
  <2> QED BY <1>7, <2>1 DEF Retire
<1>8. CASE Tidy(p)
  BY <1>8, AgainMoves DEF Tidy
<1>9. CASE Check(p)
  BY <1>9 DEF Check, Goto
<1>10. CASE Unlock(p)
  BY <1>10 DEF Unlock, Goto
<1>11. CASE Unbeat(p)
  BY <1>11 DEF Unbeat, End, Goto
<1>12. CASE Beat(p)
  BY <1>12 DEF Beat
<1>13. CASE StopSignal(p)
  BY <1>13 DEF StopSignal, Goto
<1>14. CASE Age(p)
  BY <1>14 DEF Age
<1>15. CASE GrowLate(p)
  BY <1>15 DEF GrowLate
<1>16. CASE Crash(p)
  BY <1>16 DEF Crash, End, Goto
<1> QED BY <1>1, <1>2, <1>3, <1>4, <1>5, <1>6, <1>7, <1>8, <1>9, <1>10, <1>11, <1>12, <1>13, <1>14, <1>15, <1>16
        DEF Step, Works, Acquire, Release

\* What has overlapped or stalled has done so for good.
LEMMA QuietBefore == ASSUME TypeOK, NEW p \in Starts, Step(p), Quiet' PROVE Quiet
<1> USE DEF TypeOK, Quiet
<1>1. CASE Begin(p)
  BY <1>1 DEF Begin
<1>2. CASE Acquire(p)
  BY <1>2 DEF Acquire, Create, WriteRecord, WriteHeartbeat, Read, Judge, Retire, Tidy
<1>3. CASE Release(p)
  BY <1>3 DEF Release, Check, Unlock, Unbeat
<1>4. CASE Beat(p) \/ StopSignal(p) \/ Crash(p)
  BY <1>4 DEF Beat, StopSignal, Crash
<1>5. CASE Age(p)
  BY <1>5 DEF Age, Silent
<1>6. CASE GrowLate(p)
  BY <1>6 DEF GrowLate, Silent
<1> QED BY <1>1, <1>2, <1>3, <1>4, <1>5, <1>6 DEF Step, Works

\* In quiet times every step keeps the holder named and the acquirer informed.
LEMMA StepSerial == ASSUME IInv, NEW p \in Starts, Step(p), Quiet' PROVE Serial'
<1>1. TypeOK /\ Consistent /\ Quiet /\ Serial
  BY QuietBefore DEF IInv
<1> USE <1>1, NoStartDistinct
    DEF TypeOK, Consistent, Serial, HolderNamed, OneAcquires, Acquirer, Holds, Acquiring
<1>2. CASE Begin(p)
  <2>1. \A q \in Starts : pc[q] \notin Acquiring
    BY <1>2 DEF Begin, Quiet
  <2>2. pc' = [pc EXCEPT ![p] = "create"]
        /\ UNCHANGED <<lock, written, beats, late, seen>>
    BY <1>2 DEF Begin, Goto
  <2>3. \A q \in Starts \ {p} : pc'[q] = pc[q]
    BY <2>2
  <2>4. pc'[p] = "create"
    BY <2>2
  <2>5. HolderNamed' /\ OneAcquires'
    BY <2>1, <2>2, <2>3, <2>4
  <2>6. ASSUME NEW q \in Starts PROVE Acquirer(q)'
    <3>1. pc'[q] \notin {"write", "beat", "judge", "retire", "tidy"}
      BY <2>1, <2>3, <2>4, <2>6
    <3> QED BY <3>1 DEF Acquirer
  <2> QED BY <2>5, <2>6
<1>3. CASE Create(p)
  BY <1>3 DEF Create, Goto
<1>4. CASE WriteRecord(p)
  <2>1. /\ pc[p] = "write" /\ pc' = [pc EXCEPT ![p] = "beat"]
        /\ UNCHANGED <<lock, beats, late, seen>>
    BY <1>4 DEF WriteRecord, Goto
  <2>2. lock = p
    BY <2>1
  <2>3. written' = TRUE
    BY <1>4, <2>2 DEF WriteRecord
  <2>4. pc'[p] = "beat" /\ \A q \in Starts \ {p} : pc'[q] = pc[q]
    BY <2>1
  <2>5. \A q \in Starts : Holds(q)' <=> Holds(q)
    BY <2>1, <2>4
  <2>6. HolderNamed'
    BY <2>1, <2>3, <2>5
  <2>7. OneAcquires'
    BY <2>1, <2>4
  <2>8. ASSUME NEW q \in Starts PROVE Acquirer(q)'
    <3>1. CASE q = p
      BY <2>1, <2>2, <2>3, <2>4, <3>1
    <3>2. CASE q # p
      <4>1. pc'[q] \notin Acquiring
        BY <2>1, <2>4, <2>8, <3>2
      <4> QED BY <4>1
    <3> QED BY <3>1, <3>2
  <2> QED BY <2>6, <2>7, <2>8
<1>5. CASE WriteHeartbeat(p)
  BY <1>5 DEF WriteHeartbeat, Goto
<1>6. CASE Read(p)
  <2>1. CASE written
    BY <1>6, <2>1 DEF Read, ReadRecord, AfterRead, Goto
  <2>2. CASE ~written
    BY <1>6, <2>2 DEF Read, ReadRecord, AfterRead, Goto
  <2> QED BY <2>1, <2>2
<1>7. CASE Judge(p)
  <2>1. CASE End(p, "gone")
    BY <1>7, <2>1 DEF Judge, End, Goto
  <2>2. CASE Goto(p, "retire") /\ UNCHANGED seen
    <3>1. PICK pidExists \in {TRUE, Alive(seen[p])} : ~(pidExists /\ Fresh(seen[p]))
      BY <1>7, <2>2 DEF Judge, End, Goto
    <3>2. \A q \in Starts : Holds(q) => Alive(q) /\ Fresh(q)
      BY DEF Alive, Fresh, Ended
    <3>3. \A q \in Starts : ~Holds(q)
      BY <1>7, <3>1, <3>2 DEF Judge
    <3> QED BY <1>7, <2>2, <3>3 DEF Judge, Goto
  <2> QED BY <1>7, <2>1, <2>2 DEF Judge
<1>8. CASE Retire(p)
  <2>1. PICK l \in {"create", "gone", "tidy"} : pc' = [pc EXCEPT ![p] = l]
    BY <1>8, AgainMoves DEF Retire, Goto
  <2>2. pc[p] = "retire" /\ lock' = NoStart /\ UNCHANGED <<beats, late>>
    BY <1>8 DEF Retire
  <2>3. \A q \in Starts : ~Holds(q)'
    BY <2>1, <2>2
  <2>4. \A q \in Starts \ {p} : pc'[q] \notin Acquiring
    BY <2>1, <2>2
  <2> QED BY <2>1, <2>3, <2>4
<1>9. CASE Tidy(p)
  <2>1. PICK l \in {"create", "gone"} : pc' = [pc EXCEPT ![p] = l]
    BY <1>9, AgainMoves DEF Tidy
  <2>2. pc[p] = "tidy"
    BY <1>9 DEF Tidy
  <2>3. \A q \in Starts : ~Holds(q)'
    BY <2>1, <2>2
  <2>4. \A q \in Starts \ {p} : pc'[q] \notin Acquiring
    BY <2>1, <2>2
  <2> QED BY <2>1, <2>3, <2>4
<1>10. CASE Check(p)
  BY <1>10 DEF Check, Goto
<1>11. CASE Unlock(p)
  BY <1>11 DEF Unlock, Goto
<1>12. CASE Unbeat(p)
  BY <1>12 DEF Unbeat, End, Goto
<1>13. CASE Beat(p)
  BY <1>13 DEF Beat
<1>14. CASE StopSignal(p)
  BY <1>14 DEF StopSignal, Goto
<1>15. CASE Age(p)
  BY <1>15 DEF Age
<1>16. CASE GrowLate(p)
  <2>1. ~Alive(p)
    BY <1>16 DEF GrowLate, Silent, Quiet
  <2>2. ~Holds(p)
    BY <2>1 DEF Alive, Ended
  <2> QED BY <1>16, <2>2 DEF GrowLate
<1>17. CASE Crash(p)
  BY <1>17 DEF Crash, End, Goto
<1> QED BY <1>2, <1>3, <1>4, <1>5, <1>6, <1>7, <1>8, <1>9, <1>10, <1>11, <1>12, <1>13, <1>14, <1>15, <1>16, <1>17
        DEF Step, Works, Acquire, Release

-----------------------------------------------------------------------------
(* The theorems.                                                           *)

\* Nothing has started: the invariant holds.
LEMMA InitInvariant == Init => IInv
<1> SUFFICES ASSUME Init PROVE IInv
  OBVIOUS
<1>1. TypeOK
  <2>1. pc \in [Starts -> PCs]
    BY DEF Init, PCs
  <2>2. seen \in [Starts -> Starts \cup {NoStart}] /\ tries \in [Starts -> 0..(MaxAttempts - 1)]
    BY AttemptBound DEF Init
  <2>3. faults \in 0..MaxFaults
    BY FaultBound DEF Init
  <2>4. written \in BOOLEAN /\ overlapped \in BOOLEAN
    BY DEF Init
  <2>5. stalled \in BOOLEAN
    BY DEF Init
  <2> QED BY <2>1, <2>2, <2>3, <2>4, <2>5 DEF Init, TypeOK
<1>2. Consistent /\ Serial
  BY DEF Init, Consistent, Serial, HolderNamed, OneAcquires, Acquirer, Holds, Acquiring
<1> QED BY <1>1, <1>2 DEF IInv

\* Every step keeps it.
LEMMA Consecution == IInv /\ [Next]_vars => IInv'
<1> SUFFICES ASSUME IInv, [Next]_vars PROVE IInv'
  OBVIOUS
<1>1. CASE \E p \in Starts : Step(p)
  <2>1. PICK p \in Starts : Step(p)
    BY <1>1
  <2>2. TypeOK' /\ Consistent'
    BY <2>1, StepTyped, StepConsistent DEF IInv
  <2>3. Quiet' => Serial'
    BY <2>1, StepSerial
  <2> QED BY <2>2, <2>3 DEF IInv
<1>2. CASE UNCHANGED vars
  BY <1>2 DEF vars, IInv, TypeOK, Consistent, Quiet, Serial, HolderNamed, OneAcquires, Acquirer, Holds
<1> QED BY <1>1, <1>2 DEF Next, Step

\* The inductive invariant holds of every behaviour.
THEOREM Invariance == Spec => []IInv
BY InitInvariant, Consecution, PTL DEF Spec

\* The files and the starts are well-typed; no start exceeds its attempts.
THEOREM TypeCorrect == Spec => []TypeOK
<1>1. IInv => TypeOK
  BY DEF IInv
<1> QED BY Invariance, <1>1, PTL

\* In quiet times the worker that runs is the one the lock file names and shows.
THEOREM LockIsHeld == Spec => []RunnerHoldsLock
<1>1. IInv => RunnerHoldsLock
  BY DEF IInv, Serial, HolderNamed, Holds, RunnerHoldsLock
<1> QED BY Invariance, <1>1, PTL

\* In quiet times one process runs at a time, whatever crashed and whenever.
THEOREM OneRuns == Spec => []Exclusive
<1>1. IInv => Exclusive
  BY DEF IInv, Serial, HolderNamed, Holds, Exclusive
<1> QED BY Invariance, <1>1, PTL
=============================================================================
