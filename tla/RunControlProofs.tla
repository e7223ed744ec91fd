-------------------------- MODULE RunControlProofs --------------------------
(***************************************************************************)
(* Proofs about RunControl: its types, that nothing trades LIVE            *)
(* unacknowledged however calls overlap, and that a stop stands as long as *)
(* they do not.                                                            *)
(***************************************************************************)
EXTENDS RunControl, TLAPS

-----------------------------------------------------------------------------
(* The inductive invariant.                                                *)

\* A policy trades LIVE only where the member acknowledged it.
Acknowledged(pol) == pol.on => LiveOf(pol) \subseteq acked

\* So does every copy a call may save, and a confirmation is an acknowledgement.
EveryCopyAcknowledged ==
  /\ Acknowledged(policy) /\ \A p \in Callers : Acknowledged(mine[p])
  /\ control.confirmed \subseteq acked /\ \A p \in Callers : ctl[p].confirmed \subseteq acked

\* A call decides once it has all it needs; an idle one has read nothing.
Informed ==
  \A p \in Callers : /\ pc[p] = "save" => got[p] = Needs(op[p])
                     /\ pc[p] = "idle" => got[p] = {}

\* What a call holds of a row nobody else writes.
Current(p) ==
  pc[p] \in {"reads", "save"} =>
    /\ "policy" \in got[p] => mine[p] = policy
    /\ "control" \in got[p] => ctl[p] \in {control, DefaultControl}

\* A call that has saved its stop finds it there when it records it.
Stopping(p) ==
  pc[p] \in {"label", "record"} =>
    /\ op[p] = "kill" => Stopped(policy)
    /\ op[p] = "emergency" => policy.emergencyStopped
    /\ op[p] = "loss" => halt # "stands"

\* A stop that stands, under a label that does not let the run switch restart it.
Halted ==
  halt = "stands" => Stopped(policy) /\ (policy.emergencyStopped \/ control.last # "AUTO_STOP")

\* One call at a time.
Alone == \A p, q \in Callers : pc[p] # "idle" /\ pc[q] # "idle" => p = q
Serial == Alone /\ Halted /\ \A p \in Callers : Current(p) /\ Stopping(p)

IInv == TypeOK /\ EveryCopyAcknowledged /\ Informed /\ (~overlapped => Serial)

-----------------------------------------------------------------------------
(* Types.                                                                  *)

CallsTyped ==
  /\ op \in [Callers -> MemberOps \cup {"none", "loss", "kill"}]
  /\ pc \in [Callers -> PCs]
  /\ got \in [Callers -> SUBSET {"policy", "control", "global"}]
  /\ mine \in [Callers -> Policies] /\ ctl \in [Callers -> Controls]

\* The policies the code saves and the records it writes are policies and records.
LEMMA PoliciesTyped ==
  /\ DefaultPolicy \in Policies /\ DefaultControl \in Controls
  /\ \A pol \in Policies, on \in BOOLEAN :
       /\ [pol EXCEPT !.on = on] \in Policies
       /\ [pol EXCEPT !.entriesStopped = TRUE] \in Policies
  /\ \A candidate, current \in Policies : KeepStops(candidate, current) \in Policies
BY DEF DefaultPolicy, DefaultControl, Policies, Controls, Labels, KeepStops

\* A call that ends or moves on leaves the calls well-typed.
LEMMA FinishTyped ==
  ASSUME TypeOK, NEW p \in Callers, Finish(p)
  PROVE  CallsTyped'
BY PoliciesTyped DEF TypeOK, CallsTyped, Finish, Goto, PCs

\* The same, for a move.
LEMMA GotoTyped ==
  ASSUME TypeOK, NEW p \in Callers, NEW l \in PCs, Goto(p, l)
  PROVE  pc' \in [Callers -> PCs]
BY DEF TypeOK, Goto

\* A parallel read that comes back.
LEMMA ReceivedTyped ==
  ASSUME TypeOK, NEW p \in Callers, NEW row \in {"policy", "control", "global"}, Received(p, row)
  PROVE  pc' \in [Callers -> PCs] /\ got' \in [Callers -> SUBSET {"policy", "control", "global"}]
<1>1. PICK l \in PCs : Goto(p, l)
  BY DEF Received, PCs
<1>2. got' \in [Callers -> SUBSET {"policy", "control", "global"}]
  BY DEF TypeOK, Received
<1> QED BY <1>1, <1>2, GotoTyped

\* Every step of a call keeps TypeOK.
LEMMA StepTyped == TypeOK /\ (\E p \in Callers : Step(p)) => TypeOK'
<1> SUFFICES ASSUME TypeOK, NEW p \in Callers, Step(p) PROVE TypeOK'
  OBVIOUS
<1> USE LiveMarkets, FaultBound DEF TypeOK, Callers, MemberOps, Labels, PCs, Policies, Controls, DefaultPolicy, DefaultControl
<1>1. CASE MemberCalls(p)
  BY <1>1 DEF MemberCalls, Begin, Goto
<1>2. CASE RiskFails(p)
  BY <1>2 DEF RiskFails, Begin, Goto
<1>3. CASE ReadPolicy(p)
  BY <1>3 DEF ReadPolicy, Pending, Received, Goto, Needs
<1>4. CASE ReadControl(p)
  BY <1>4 DEF ReadControl, Pending, Received, ControlRead, Goto, Needs
<1>5. CASE ReadGlobal(p)
  <2>1. CASE Received(p, "global") /\ ~global
    BY <1>5, <2>1, ReceivedTyped DEF ReadGlobal, Refuse
  <2>2. CASE Refuse(p)
    BY <2>2, FinishTyped DEF Refuse, CallsTyped
  <2> QED BY <1>5, <2>1, <2>2 DEF ReadGlobal
<1>6. CASE ReadLabel(p)
  BY <1>6 DEF ReadLabel, ControlRead, Goto
<1>7. CASE StartRefused(p)
  BY <1>7 DEF StartRefused, Deciding, Refuse, Finish, Goto
<1>8. CASE AlreadyRunning(p)
  BY <1>8 DEF AlreadyRunning, Deciding, Refuse, Finish, Goto
<1>9. CASE Start(p)
  BY <1>9 DEF Start, Deciding, SaveAndGoto, SavePolicy, Goto, Running, Unconfirmed, LiveOf
<1>10. CASE Stop(p)
  <2> HIDE DEF Policies, Controls, DefaultPolicy, DefaultControl
  <2>1. policy' \in Policies /\ mine' \in [Callers -> Policies]
    <3>1. [mine[p] EXCEPT !.on = FALSE] \in Policies /\ DefaultPolicy \in Policies
      BY PoliciesTyped
    <3> QED BY <1>10, <3>1 DEF Stop, SavePolicy
  <2> QED BY <1>10, <2>1, GotoTyped DEF Stop
<1>11. CASE EmergencyStop(p)
  BY <1>11 DEF EmergencyStop, Deciding, SaveAndGoto, SavePolicy, Goto, HaltSaved
<1>12. CASE Resume(p)
  BY <1>12 DEF Resume, Deciding, SaveAndGoto, SavePolicy, Goto
<1>13. CASE SaveSettings(p)
  <2> HIDE DEF Policies, Controls, DefaultPolicy, DefaultControl
  <2>1. PICK candidate \in Policies :
           /\ acked' = IF candidate.on THEN acked \cup LiveOf(candidate) ELSE acked
           /\ policy' = KeepStops(candidate, mine[p])
           /\ \/ Finish(p)
              \/ /\ mine' = [mine EXCEPT ![p] = KeepStops(candidate, mine[p])]
                 /\ Goto(p, "label")
                 /\ UNCHANGED <<op, got, ctl>>
    BY <1>13 DEF SaveSettings
  <2>2. policy' \in Policies /\ acked' \subseteq Live
    BY <2>1, PoliciesTyped DEF LiveOf
  <2>3. CallsTyped'
    <3>1. mine[p] \in Policies /\ "label" \in PCs
      OBVIOUS
    <3>2. CASE Finish(p)
      BY <3>2, FinishTyped
    <3>3. CASE Goto(p, "label") /\ mine' = [mine EXCEPT ![p] = KeepStops(candidate, mine[p])]
                                /\ UNCHANGED <<op, got, ctl>>
      <4>1. pc' \in [Callers -> PCs]
        BY <3>1, <3>3, GotoTyped
      <4>2. mine' \in [Callers -> Policies]
        BY <3>1, <3>3, PoliciesTyped
      <4> QED BY <3>3, <4>1, <4>2 DEF CallsTyped
    <3> QED BY <2>1, <3>2, <3>3
  <2> QED BY <1>13, <2>2, <2>3 DEF SaveSettings, CallsTyped
<1>14. CASE SettingsRefused(p)
  BY <1>14 DEF SettingsRefused, Deciding, Refuse, Finish, Goto
<1>15. CASE SaveCapital(p)
  BY <1>15 DEF SaveCapital, Deciding, Finish, Goto
<1>16. CASE LossStop(p)
  <2> HIDE DEF Policies, Controls, DefaultPolicy, DefaultControl
  <2>1. policy' \in Policies /\ mine' \in [Callers -> Policies]
    BY <1>16, PoliciesTyped DEF LossStop, SaveAndGoto, SavePolicy
  <2>2. pc' \in [Callers -> PCs]
    BY <1>16, GotoTyped DEF LossStop, SaveAndGoto
  <2> QED BY <1>16, <2>1, <2>2 DEF LossStop
<1>17. CASE LossStopFails(p)
  BY <1>17 DEF LossStopFails, Goto
<1>18. CASE TripNothing(p)
  BY <1>18 DEF TripNothing, Refuse, Finish, Goto
<1>19. CASE TripMember(p)
  BY <1>19 DEF TripMember, Goto
<1>20. CASE TripSystem(p)
  BY <1>20 DEF TripSystem, Finish, Goto
<1>21. CASE KillStop(p)
  BY <1>21 DEF KillStop, Deciding, SaveAndGoto, SavePolicy, Goto, HaltSaved
<1>22. CASE KillStopStands(p)
  BY <1>22 DEF KillStopStands, Deciding, Refuse, Finish, Goto
<1>23. CASE Record(p)
  <2> HIDE DEF Policies, Controls, DefaultPolicy, DefaultControl
  <2>1. CallsTyped'
    <3>1. CASE op[p] # "loss"
      BY <1>23, <3>1, FinishTyped DEF Record, AfterRecord
    <3>2. CASE op[p] = "loss"
      BY <1>23, <3>2, GotoTyped, PoliciesTyped DEF Record, AfterRecord, CallsTyped
    <3> QED BY <3>1, <3>2
  <2>2. halt' \in {"none", "saved", "stands"}
    BY <1>23 DEF Record, HaltStands
  <2>3. control' \in Controls
    BY <1>23 DEF Record, Recorded, LabelOf, LiveOf, Controls
  <2> QED BY <1>23, <2>1, <2>2, <2>3 DEF Record, CallsTyped
<1>24. CASE RecordLost(p)
  <2> HIDE DEF Policies, Controls, DefaultPolicy, DefaultControl
  <2>1. CallsTyped'
    <3>1. CASE op[p] # "loss"
      BY <1>24, <3>1, FinishTyped DEF RecordLost, AfterRecord
    <3>2. CASE op[p] = "loss"
      BY <1>24, <3>2, GotoTyped, PoliciesTyped DEF RecordLost, AfterRecord, CallsTyped
    <3> QED BY <3>1, <3>2
  <2>2. halt' \in {"none", "saved", "stands"}
    BY <1>24 DEF RecordLost, HaltStands
  <2> QED BY <1>24, <2>1, <2>2 DEF RecordLost, CallsTyped
<1>25. CASE Crash(p)
  BY <1>25 DEF Crash, Finish, Goto
<1> QED BY <1>1, <1>2, <1>3, <1>4, <1>5, <1>6, <1>7, <1>8, <1>9, <1>10, <1>11, <1>12, <1>13, <1>14, <1>15, <1>16, <1>17, <1>18, <1>19, <1>20, <1>21, <1>22, <1>23, <1>24, <1>25 DEF Step, Reads, Decides
-----------------------------------------------------------------------------
(* Acknowledgements.                                                       *)

\* What a call forgets leaves nothing unacknowledged behind.
LEMMA ForgottenAcknowledged ==
  ASSUME TypeOK, EveryCopyAcknowledged, NEW p \in Callers,
         mine' = mine \/ mine' = [mine EXCEPT ![p] = DefaultPolicy],
         ctl' = ctl \/ ctl' = [ctl EXCEPT ![p] = DefaultControl],
         Acknowledged(policy)', acked \subseteq acked', control'.confirmed \subseteq acked'
  PROVE  EveryCopyAcknowledged'
<1>1. ~DefaultPolicy.on /\ DefaultControl.confirmed = {}
  BY DEF DefaultPolicy, DefaultControl
<1>2. ASSUME NEW q \in Callers PROVE mine'[q] = mine[q] \/ mine'[q] = DefaultPolicy
  BY DEF TypeOK
<1>3. ASSUME NEW q \in Callers PROVE ctl'[q] = ctl[q] \/ ctl'[q] = DefaultControl
  BY DEF TypeOK
<1>4. ASSUME NEW q \in Callers PROVE Acknowledged(mine[q])' /\ ctl'[q].confirmed \subseteq acked'
  BY <1>1, <1>2, <1>3 DEF EveryCopyAcknowledged, Acknowledged
<1> QED BY <1>4 DEF EveryCopyAcknowledged

\* A call that ends keeps nothing unacknowledged.
LEMMA FinishAcknowledged ==
  ASSUME TypeOK, EveryCopyAcknowledged, NEW p \in Callers, Finish(p),
         Acknowledged(policy)', acked \subseteq acked', control'.confirmed \subseteq acked'
  PROVE  EveryCopyAcknowledged'
BY ForgottenAcknowledged DEF Finish

\* Whatever a call saves was acknowledged when it was read, or is now.
LEMMA StepAcknowledged ==
  ASSUME TypeOK, EveryCopyAcknowledged, NEW p \in Callers, Step(p)
  PROVE  EveryCopyAcknowledged'
<1> USE DEF TypeOK, EveryCopyAcknowledged, Acknowledged, LiveOf, Policies, Controls,
            DefaultPolicy, DefaultControl
<1>1. CASE MemberCalls(p)
  BY <1>1 DEF MemberCalls, Begin, Goto
<1>2. CASE RiskFails(p)
  BY <1>2 DEF RiskFails, Begin, Goto
<1>3. CASE ReadPolicy(p)
  BY <1>3 DEF ReadPolicy, Pending, Received, Goto
<1>4. CASE ReadControl(p)
  BY <1>4 DEF ReadControl, Pending, Received, ControlRead, Goto
<1>5. CASE ReadGlobal(p)
  <2>1. CASE Refuse(p)
    BY <2>1, FinishAcknowledged DEF Refuse
  <2>2. CASE Received(p, "global") /\ UNCHANGED <<policy, control, mine, ctl, acked>>
    BY <2>2
  <2> QED BY <1>5, <2>1, <2>2 DEF ReadGlobal
<1>6. CASE ReadLabel(p)
  BY <1>6 DEF ReadLabel, ControlRead, Goto
<1>7. CASE StartRefused(p)
  BY <1>7 DEF StartRefused, Deciding, Refuse, Finish, Goto
<1>8. CASE AlreadyRunning(p)
  BY <1>8 DEF AlreadyRunning, Deciding, Refuse, Finish, Goto
<1>9. CASE Start(p)
  BY <1>9 DEF Start, Deciding, SaveAndGoto, SavePolicy, Goto, Running, Unconfirmed, Resumable, MayStart
<1>10. CASE Stop(p)
  <2>1. mine' = [mine EXCEPT ![p] = DefaultPolicy] /\ UNCHANGED <<control, ctl, acked>>
    BY <1>10 DEF Stop, SavePolicy
  <2>2. Acknowledged(policy)'
    BY <1>10 DEF Stop, SavePolicy
  <2> QED BY <2>1, <2>2, ForgottenAcknowledged
<1>11. CASE EmergencyStop(p)
  BY <1>11 DEF EmergencyStop, Deciding, SaveAndGoto, SavePolicy, Goto, HaltSaved
<1>12. CASE Resume(p)
  BY <1>12 DEF Resume, Deciding, SaveAndGoto, SavePolicy, Goto
<1>13. CASE SaveSettings(p)
  <2>1. PICK candidate \in Policies :
           /\ acked' = IF candidate.on THEN acked \cup LiveOf(candidate) ELSE acked
           /\ policy' = KeepStops(candidate, mine[p])
           /\ \/ Finish(p)
              \/ /\ mine' = [mine EXCEPT ![p] = KeepStops(candidate, mine[p])]
                 /\ UNCHANGED ctl
    BY <1>13 DEF SaveSettings
  <2>2. Acknowledged(policy)' /\ acked \subseteq acked' /\ control' = control
    <3>1. KeepStops(candidate, mine[p]).on = candidate.on
          /\ KeepStops(candidate, mine[p]).markets = candidate.markets
      BY DEF KeepStops
    <3> QED BY <1>13, <2>1, <3>1 DEF SaveSettings
  <2>3. CASE Finish(p)
    BY <2>2, <2>3, FinishAcknowledged
  <2>4. CASE mine' = [mine EXCEPT ![p] = policy'] /\ UNCHANGED ctl
    BY <2>2, <2>4
  <2> QED BY <2>1, <2>3, <2>4
<1>14. CASE SettingsRefused(p)
  BY <1>14 DEF SettingsRefused, Deciding, Refuse, Finish, Goto
<1>15. CASE SaveCapital(p)
  BY <1>15 DEF SaveCapital, Deciding, Finish, Goto
<1>16. CASE LossStop(p)
  <2>1. mine' = [mine EXCEPT ![p] = DefaultPolicy] /\ UNCHANGED <<control, ctl, acked>>
    BY <1>16 DEF LossStop, SaveAndGoto, SavePolicy
  <2>2. policy' = policy \/ policy' = [mine[p] EXCEPT !.entriesStopped = TRUE]
    BY <1>16 DEF LossStop, SaveAndGoto, SavePolicy
  <2>3. Acknowledged(policy)'
    BY <2>1, <2>2
  <2> QED BY <2>1, <2>3, ForgottenAcknowledged
<1>17. CASE LossStopFails(p)
  BY <1>17 DEF LossStopFails, Goto
<1>18. CASE TripNothing(p)
  BY <1>18 DEF TripNothing, Refuse, Finish, Goto
<1>19. CASE TripMember(p)
  BY <1>19 DEF TripMember, Goto
<1>20. CASE TripSystem(p)
  BY <1>20 DEF TripSystem, Finish, Goto
<1>21. CASE KillStop(p)
  BY <1>21 DEF KillStop, Deciding, SaveAndGoto, SavePolicy, Goto, HaltSaved
<1>22. CASE KillStopStands(p)
  BY <1>22 DEF KillStopStands, Deciding, Refuse, Finish, Goto
<1>23. CASE Record(p)
  <2>1. control'.confirmed \subseteq acked /\ UNCHANGED <<policy, acked>>
    BY <1>23 DEF Record, Recorded, SwitchOn
  <2>2. CASE op[p] # "loss"
    BY <1>23, <2>1, <2>2, FinishAcknowledged DEF Record, AfterRecord
  <2>3. CASE op[p] = "loss"
    BY <1>23, <2>1, <2>3, ForgottenAcknowledged DEF Record, AfterRecord
  <2> QED BY <2>2, <2>3
<1>24. CASE RecordLost(p)
  <2>1. CASE op[p] # "loss"
    BY <1>24, <2>1, FinishAcknowledged DEF RecordLost, AfterRecord
  <2>2. CASE op[p] = "loss"
    BY <1>24, <2>2, ForgottenAcknowledged DEF RecordLost, AfterRecord
  <2> QED BY <2>1, <2>2
<1>25. CASE Crash(p)
  BY <1>25 DEF Crash, Finish, Goto
<1> QED BY <1>1, <1>2, <1>3, <1>4, <1>5, <1>6, <1>7, <1>8, <1>9, <1>10, <1>11, <1>12, <1>13, <1>14, <1>15, <1>16, <1>17, <1>18, <1>19, <1>20, <1>21, <1>22, <1>23, <1>24, <1>25 DEF Step, Reads, Decides

-----------------------------------------------------------------------------
(* Calls that do not overlap.                                              *)

\* A call decides when it is informed.
LEMMA StepInformed ==
  ASSUME TypeOK, Informed, NEW p \in Callers, Step(p)
  PROVE  Informed'
<1> USE DEF TypeOK, Informed
<1>1. CASE MemberCalls(p)
  BY <1>1 DEF MemberCalls, Begin, Goto
<1>2. CASE RiskFails(p)
  BY <1>2 DEF RiskFails, Begin, Goto
<1>3. CASE ReadPolicy(p)
  BY <1>3 DEF ReadPolicy, Pending, Received, Goto
<1>4. CASE ReadControl(p)
  BY <1>4 DEF ReadControl, Pending, Received, ControlRead, Goto
<1>5. CASE ReadGlobal(p)
  BY <1>5 DEF ReadGlobal, Pending, Received, Refuse, Finish, Goto
<1>6. CASE ReadLabel(p)
  BY <1>6 DEF ReadLabel, ControlRead, Goto
<1>7. CASE StartRefused(p)
  BY <1>7 DEF StartRefused, Deciding, Refuse, Finish, Goto
<1>8. CASE AlreadyRunning(p)
  BY <1>8 DEF AlreadyRunning, Deciding, Refuse, Finish, Goto
<1>9. CASE Start(p)
  BY <1>9 DEF Start, Deciding, SaveAndGoto, SavePolicy, Goto, Running, Unconfirmed, Resumable, MayStart
<1>10. CASE Stop(p)
  BY <1>10 DEF Stop, Deciding, SavePolicy, Goto
<1>11. CASE EmergencyStop(p)
  BY <1>11 DEF EmergencyStop, Deciding, SaveAndGoto, SavePolicy, Goto, HaltSaved
<1>12. CASE Resume(p)
  BY <1>12 DEF Resume, Deciding, SaveAndGoto, SavePolicy, Goto
<1>13. CASE SaveSettings(p)
  BY <1>13 DEF SaveSettings, Deciding, KeepStops, Finish, Goto
<1>14. CASE SettingsRefused(p)
  BY <1>14 DEF SettingsRefused, Deciding, Refuse, Finish, Goto
<1>15. CASE SaveCapital(p)
  BY <1>15 DEF SaveCapital, Deciding, Finish, Goto
<1>16. CASE LossStop(p)
  BY <1>16 DEF LossStop, Deciding, SaveAndGoto, SavePolicy, Goto
<1>17. CASE LossStopFails(p)
  BY <1>17 DEF LossStopFails, Goto
<1>18. CASE TripNothing(p)
  BY <1>18 DEF TripNothing, Refuse, Finish, Goto
<1>19. CASE TripMember(p)
  BY <1>19 DEF TripMember, Goto
<1>20. CASE TripSystem(p)
  BY <1>20 DEF TripSystem, Finish, Goto
<1>21. CASE KillStop(p)
  BY <1>21 DEF KillStop, Deciding, SaveAndGoto, SavePolicy, Goto, HaltSaved
<1>22. CASE KillStopStands(p)
  BY <1>22 DEF KillStopStands, Deciding, Refuse, Finish, Goto
<1>23. CASE Record(p)
  BY <1>23 DEF Record, Recorded, LabelOf, HaltStands, AfterRecord, Finish, Goto
<1>24. CASE RecordLost(p)
  BY <1>24 DEF RecordLost, HaltStands, AfterRecord, Finish, Goto
<1>25. CASE Crash(p)
  BY <1>25 DEF Crash, Finish, Goto
<1> QED BY <1>1, <1>2, <1>3, <1>4, <1>5, <1>6, <1>7, <1>8, <1>9, <1>10, <1>11, <1>12, <1>13, <1>14, <1>15, <1>16, <1>17, <1>18, <1>19, <1>20, <1>21, <1>22, <1>23, <1>24, <1>25 DEF Step, Reads, Decides

\* Calls that have overlapped have overlapped for good.
LEMMA OverlapStays == ASSUME NEW p \in Callers, Step(p), overlapped PROVE overlapped'
<1>1. CASE MemberCalls(p)
  BY <1>1 DEF MemberCalls, Begin, Goto
<1>2. CASE RiskFails(p)
  BY <1>2 DEF RiskFails, Begin, Goto
<1>3. CASE ReadPolicy(p)
  BY <1>3 DEF ReadPolicy, Refuse
<1>4. CASE ReadControl(p)
  BY <1>4 DEF ReadControl, Refuse
<1>5. CASE ReadGlobal(p)
  BY <1>5 DEF ReadGlobal, Refuse
<1>6. CASE ReadLabel(p)
  BY <1>6 DEF ReadLabel, Refuse
<1>7. CASE StartRefused(p)
  BY <1>7 DEF StartRefused, Refuse
<1>8. CASE AlreadyRunning(p)
  BY <1>8 DEF AlreadyRunning, Refuse
<1>9. CASE Start(p)
  BY <1>9 DEF Start, Refuse
<1>10. CASE Stop(p)
  BY <1>10 DEF Stop, Refuse
<1>11. CASE EmergencyStop(p)
  BY <1>11 DEF EmergencyStop, Refuse
<1>12. CASE Resume(p)
  BY <1>12 DEF Resume, Refuse
<1>13. CASE SaveSettings(p)
  BY <1>13 DEF SaveSettings, Refuse
<1>14. CASE SettingsRefused(p)
  BY <1>14 DEF SettingsRefused, Refuse
<1>15. CASE SaveCapital(p)
  BY <1>15 DEF SaveCapital, Refuse
<1>16. CASE LossStop(p)
  BY <1>16 DEF LossStop, Refuse
<1>17. CASE LossStopFails(p)
  BY <1>17 DEF LossStopFails, Refuse
<1>18. CASE TripNothing(p)
  BY <1>18 DEF TripNothing, Refuse
<1>19. CASE TripMember(p)
  BY <1>19 DEF TripMember, Refuse
<1>20. CASE TripSystem(p)
  BY <1>20 DEF TripSystem, Refuse
<1>21. CASE KillStop(p)
  BY <1>21 DEF KillStop, Refuse
<1>22. CASE KillStopStands(p)
  BY <1>22 DEF KillStopStands, Refuse
<1>23. CASE Record(p)
  BY <1>23 DEF Record, Refuse
<1>24. CASE RecordLost(p)
  BY <1>24 DEF RecordLost, Refuse
<1>25. CASE Crash(p)
  BY <1>25 DEF Crash, Refuse
<1> QED BY <1>1, <1>2, <1>3, <1>4, <1>5, <1>6, <1>7, <1>8, <1>9, <1>10, <1>11, <1>12, <1>13, <1>14, <1>15, <1>16, <1>17, <1>18, <1>19, <1>20, <1>21, <1>22, <1>23, <1>24, <1>25 DEF Step, Reads, Decides

\* While one call is under way, it is enough to look at that call.
LEMMA OnlyCall ==
  ASSUME TypeOK, Alone, NEW p \in Callers, pc[p] # "idle", NEW l \in PCs, Goto(p, l),
         Halted', Current(p)', Stopping(p)'
  PROVE  Serial'
<1>1. ASSUME NEW q \in Callers, q # p PROVE pc'[q] = "idle"
  BY <1>1 DEF TypeOK, Alone, Goto
<1>2. Alone'
  BY <1>1 DEF Alone
<1>3. ASSUME NEW q \in Callers PROVE Current(q)' /\ Stopping(q)'
  BY <1>1 DEF Current, Stopping
<1> QED BY <1>2, <1>3 DEF Serial

\* A call that ends leaves the rows to speak for themselves.
LEMMA OnlyCallEnds ==
  ASSUME TypeOK, Alone, NEW p \in Callers, pc[p] # "idle", Finish(p), Halted'
  PROVE  Serial'
<1>1. pc'[p] = "idle"
  BY DEF TypeOK, Finish, Goto
<1>2. Current(p)' /\ Stopping(p)'
  BY <1>1 DEF Current, Stopping
<1> QED BY <1>2, OnlyCall DEF Finish, PCs

\* A call begins when nobody else is under way.
LEMMA SerialBegin ==
  ASSUME TypeOK, Informed, Serial, NEW p \in Callers, NEW o, Begin(p, o), ~overlapped'
  PROVE  Serial'
<1>1. \A q \in Callers : pc[q] = "idle"
  BY DEF Begin
<1>2. /\ pc' = [pc EXCEPT ![p] = "reads"] /\ got'[p] = {}
      /\ UNCHANGED <<policy, control, halt>>
  BY DEF Begin, Goto, Informed
<1>3. Alone' /\ Halted'
  BY <1>1, <1>2 DEF TypeOK, Alone, Serial, Halted, Stopped
<1>4. ASSUME NEW q \in Callers PROVE Current(q)' /\ Stopping(q)'
  BY <1>1, <1>2 DEF TypeOK, Current, Stopping
<1> QED BY <1>3, <1>4 DEF Serial

\* A step of the only call keeps the stop, what the call holds and what it has saved.
LEMMA StepSerial ==
  ASSUME IInv, NEW p \in Callers, Step(p), ~overlapped'
  PROVE  Serial'
<1>1. TypeOK /\ Informed /\ Serial /\ Alone /\ Halted /\ Current(p) /\ Stopping(p)
  BY OverlapStays DEF IInv, Serial
<1>2. /\ mine[p] \in Policies /\ policy \in Policies
      /\ ctl[p] \in Controls /\ control \in Controls
      /\ pc[p] \in PCs
  BY <1>1 DEF TypeOK
<1>3. ASSUME pc[p] = "save" PROVE mine[p] = policy
  BY <1>1, <1>3 DEF Informed, Current, Needs
<1>4. ASSUME pc[p] = "save", op[p] = "start" PROVE ctl[p] = control \/ ctl[p].last = "none"
  BY <1>1, <1>4 DEF Informed, Current, Needs, DefaultControl
<1>5. ASSUME Refuse(p), pc[p] # "idle" PROVE Serial'
  BY <1>1, <1>5, OnlyCallEnds DEF Refuse, Halted, Stopped
<1>6. ASSUME NEW l \in PCs, Goto(p, l), pc[p] # "idle", Halted', l \in {"reads", "save"} => Current(p)',
             l \in {"label", "record"} => Stopping(p)'
      PROVE  Serial'
  <2>1. pc'[p] = l
    BY <1>1, <1>6 DEF TypeOK, Goto
  <2>2. Current(p)' /\ Stopping(p)'
    BY <1>6, <2>1 DEF Current, Stopping
  <2> QED BY <1>1, <1>6, <2>2, OnlyCall
<1>7. CASE MemberCalls(p)
  BY <1>1, <1>7, SerialBegin DEF MemberCalls
<1>8. CASE RiskFails(p)
  BY <1>1, <1>8, SerialBegin DEF RiskFails
<1>9. CASE ReadPolicy(p)
  <2>1. PICK l \in {"save", "reads"} : Goto(p, l)
    BY <1>9 DEF ReadPolicy, Received
  <2>2. pc[p] = "reads" /\ Halted'
    BY <1>1, <1>9 DEF ReadPolicy, Pending, Halted, Stopped
  <2>3. Current(p)'
    <3>1. mine'[p] = policy /\ got'[p] = got[p] \cup {"policy"}
          /\ UNCHANGED <<policy, control, ctl>>
      BY <1>1, <1>9 DEF ReadPolicy, Received, TypeOK
    <3> QED BY <1>1, <2>2, <3>1 DEF Current
  <2> QED BY <1>6, <2>1, <2>2, <2>3 DEF PCs
<1>10. CASE ReadControl(p)
  <2>1. PICK l \in {"save", "reads"} : Goto(p, l)
    BY <1>10 DEF ReadControl, Received
  <2>2. pc[p] = "reads" /\ Halted'
    BY <1>1, <1>10 DEF ReadControl, Pending, Halted, Stopped
  <2>3. Current(p)'
    <3>1. ctl'[p] \in {control, DefaultControl} /\ got'[p] = got[p] \cup {"control"}
          /\ UNCHANGED <<policy, control, mine>>
      BY <1>1, <1>10 DEF ReadControl, ControlRead, Received, TypeOK
    <3> QED BY <1>1, <2>2, <3>1 DEF Current
  <2> QED BY <1>6, <2>1, <2>2, <2>3 DEF PCs
<1>11. CASE ReadGlobal(p)
  <2>1. pc[p] = "reads"
    BY <1>11 DEF ReadGlobal, Pending
  <2>2. CASE Refuse(p)
    BY <1>5, <2>1, <2>2
  <2>3. CASE Received(p, "global") /\ UNCHANGED <<policy, control, mine, ctl, halt>>
    <3>1. PICK l \in {"save", "reads"} : Goto(p, l)
      BY <2>3 DEF Received
    <3>2. Halted'
      BY <1>1, <2>3 DEF Halted, Stopped
    <3>3. got'[p] = got[p] \cup {"global"}
      BY <1>1, <2>3 DEF Received, TypeOK
    <3>4. Current(p)'
      BY <1>1, <2>1, <2>3, <3>3 DEF Current
    <3> QED BY <1>6, <2>1, <3>1, <3>2, <3>4 DEF PCs
  <2> QED BY <1>11, <2>2, <2>3 DEF ReadGlobal
<1>12. CASE ReadLabel(p)
  <2>1. pc[p] = "label" /\ Goto(p, "record") /\ UNCHANGED <<policy, control, op, halt>>
    BY <1>12 DEF ReadLabel
  <2>2. Halted' /\ Stopping(p)'
    BY <1>1, <2>1 DEF Halted, Stopping, Stopped
  <2> QED BY <1>6, <2>1, <2>2 DEF PCs
<1>13. CASE StartRefused(p)
  BY <1>5, <1>13 DEF StartRefused, Deciding
<1>14. CASE AlreadyRunning(p)
  BY <1>5, <1>14 DEF AlreadyRunning, Deciding
<1>15. CASE Start(p)
  <2>1. pc[p] = "save" /\ op[p] = "start" /\ Goto(p, "record") /\ MayStart(policy, ctl[p])
        /\ UNCHANGED <<op, halt>>
    BY <1>3, <1>15 DEF Start, Deciding, SaveAndGoto
  <2>2. halt # "stands"
    BY <1>1, <1>4, <2>1 DEF Halted, MayStart, Resumable
  <2>3. Halted' /\ Stopping(p)'
    BY <2>1, <2>2 DEF Halted, Stopping
  <2> QED BY <1>6, <2>1, <2>3 DEF PCs
<1>16. CASE Stop(p)
  <2>1. pc[p] = "save" /\ op[p] = "stop" /\ Goto(p, "record") /\ UNCHANGED <<op, control, halt>>
    BY <1>16 DEF Stop, Deciding
  <2>2. policy' = policy \/ policy' = [policy EXCEPT !.on = FALSE]
    BY <1>3, <1>16, <2>1 DEF Stop, SavePolicy
  <2>3. Stopped(policy) = Stopped(policy') /\ policy'.emergencyStopped = policy.emergencyStopped
    BY <1>2, <2>2 DEF Policies, Stopped
  <2>4. Halted' /\ Stopping(p)'
    BY <1>1, <2>1, <2>3 DEF Halted, Stopping
  <2> QED BY <1>6, <2>1, <2>4 DEF PCs
<1>17. CASE EmergencyStop(p)
  <2>1. pc[p] = "save" /\ op[p] = "emergency" /\ Goto(p, "label") /\ UNCHANGED op
    BY <1>17 DEF EmergencyStop, Deciding, SaveAndGoto
  <2>2. policy'.emergencyStopped
    BY <1>2, <1>17 DEF EmergencyStop, SaveAndGoto, SavePolicy, Policies
  <2>3. Halted' /\ Stopping(p)'
    BY <2>1, <2>2 DEF Halted, Stopping, Stopped
  <2> QED BY <1>6, <2>1, <2>3 DEF PCs
<1>18. CASE Resume(p)
  <2>1. pc[p] = "save" /\ op[p] = "resume" /\ Goto(p, "label") /\ UNCHANGED op /\ halt' = "none"
    BY <1>18 DEF Resume, Deciding, SaveAndGoto
  <2>2. Halted' /\ Stopping(p)'
    BY <2>1 DEF Halted, Stopping
  <2> QED BY <1>6, <2>1, <2>2 DEF PCs
<1>19. CASE SaveSettings(p)
  <2>1. /\ pc[p] = "save" /\ op[p] = "settings" /\ UNCHANGED <<control, halt>>
        /\ Finish(p) \/ (Goto(p, "label") /\ UNCHANGED op)
    BY <1>19 DEF SaveSettings, Deciding
  <2>2. PICK candidate \in Policies : policy' = KeepStops(candidate, policy)
    BY <1>3, <1>19, <2>1 DEF SaveSettings
  <2>3. /\ Stopped(policy) => Stopped(policy')
        /\ policy.emergencyStopped => policy'.emergencyStopped
    BY <1>2, <2>2 DEF KeepStops, Policies, Stopped
  <2>4. Halted'
    BY <1>1, <2>1, <2>3 DEF Halted
  <2>5. CASE Finish(p)
    BY <1>1, <2>1, <2>4, <2>5, OnlyCallEnds
  <2>6. CASE Goto(p, "label") /\ UNCHANGED op
    <3>1. Stopping(p)'
      BY <2>1, <2>6 DEF Stopping
    <3> QED BY <1>6, <2>1, <2>4, <2>6, <3>1 DEF PCs
  <2> QED BY <2>1, <2>5, <2>6
<1>20. CASE SettingsRefused(p)
  BY <1>5, <1>20 DEF SettingsRefused, Deciding
<1>21. CASE SaveCapital(p)
  <2>1. pc[p] = "save" /\ Finish(p) /\ UNCHANGED <<control, halt>>
    BY <1>21 DEF SaveCapital, Deciding
  <2>2. PICK on \in BOOLEAN : policy' = [policy EXCEPT !.on = on]
    BY <1>2, <1>3, <1>21, <2>1 DEF SaveCapital, Policies
  <2>3. Stopped(policy) = Stopped(policy') /\ policy'.emergencyStopped = policy.emergencyStopped
    BY <1>2, <2>2 DEF Policies, Stopped
  <2>4. Halted'
    BY <1>1, <2>1, <2>3 DEF Halted
  <2> QED BY <1>1, <2>1, <2>4, OnlyCallEnds
<1>22. CASE LossStop(p)
  <2>1. pc[p] = "save" /\ op[p] = "loss" /\ UNCHANGED <<op, control, halt>>
    BY <1>22 DEF LossStop, Deciding
  <2>2. CASE SwitchOn(policy)
    <3>1. halt # "stands"
      BY <1>1, <2>2 DEF Halted, SwitchOn
    <3>2. Halted' /\ Stopping(p)'
      BY <2>1, <3>1 DEF Halted, Stopping
    <3> QED BY <1>3, <1>6, <1>22, <2>1, <2>2, <3>2 DEF LossStop, SaveAndGoto, PCs
  <2>3. CASE ~SwitchOn(policy)
    <3>1. Goto(p, "trip") /\ UNCHANGED policy
      BY <1>3, <1>22, <2>1, <2>3 DEF LossStop
    <3>2. Halted'
      BY <1>1, <2>1, <3>1 DEF Halted, Stopped
    <3> QED BY <1>6, <2>1, <3>1, <3>2 DEF PCs
  <2> QED BY <2>2, <2>3
<1>23. CASE LossStopFails(p)
  <2>1. pc[p] # "idle" /\ Goto(p, "trip") /\ UNCHANGED <<policy, control, halt>>
    BY <1>23 DEF LossStopFails
  <2>2. Halted'
    BY <1>1, <2>1 DEF Halted, Stopped
  <2> QED BY <1>6, <2>1, <2>2 DEF PCs
<1>24. CASE TripNothing(p)
  BY <1>5, <1>24 DEF TripNothing
<1>25. CASE TripMember(p)
  <2>1. pc[p] = "trip" /\ Goto(p, "reads") /\ UNCHANGED <<policy, control, halt>>
        /\ got' = [got EXCEPT ![p] = {}]
    BY <1>25 DEF TripMember
  <2>2. Halted' /\ Current(p)'
    BY <1>1, <2>1 DEF Halted, Current, Stopped, TypeOK
  <2> QED BY <1>6, <2>1, <2>2 DEF PCs
<1>26. CASE TripSystem(p)
  <2>1. Halted'
    BY <1>1, <1>26 DEF TripSystem, Halted, Stopped
  <2> QED BY <1>1, <1>26, <2>1, OnlyCallEnds DEF TripSystem
<1>27. CASE KillStop(p)
  <2>1. pc[p] = "save" /\ op[p] = "kill" /\ Goto(p, "label") /\ UNCHANGED op /\ ~Stopped(policy)
    BY <1>3, <1>27 DEF KillStop, Deciding, SaveAndGoto
  <2>2. Stopped(policy') /\ halt' # "stands"
    BY <1>1, <1>2, <1>27, <2>1 DEF KillStop, SaveAndGoto, SavePolicy, HaltSaved, Halted, Policies, Stopped
  <2>3. Halted' /\ Stopping(p)'
    BY <2>1, <2>2 DEF Halted, Stopping
  <2> QED BY <1>6, <2>1, <2>3 DEF PCs
<1>28. CASE KillStopStands(p)
  BY <1>5, <1>28 DEF KillStopStands, Deciding
<1>29. CASE Record(p)
  <2>1. pc[p] = "record" /\ UNCHANGED policy /\ control'.last = LabelOf(p)
        /\ (Finish(p) \/ Goto(p, "trip"))
    BY <1>29 DEF Record, Recorded, AfterRecord
  <2>2. ASSUME halt' = "stands" PROVE Stopped(policy) /\ (policy.emergencyStopped \/ LabelOf(p) # "AUTO_STOP")
    <3>1. CASE halt = "stands"
      BY <1>1, <2>1, <3>1 DEF Halted, Stopping, LabelOf
    <3>2. CASE halt = "saved" /\ op[p] \in {"emergency", "kill"}
      BY <1>1, <2>1, <3>2 DEF Stopping, Stopped, LabelOf
    <3> QED BY <1>29, <2>2, <3>1, <3>2 DEF Record, HaltStands
  <2>3. Halted'
    BY <2>1, <2>2 DEF Halted, Stopped
  <2> QED BY <1>1, <1>6, <2>1, <2>3, OnlyCallEnds DEF PCs
<1>30. CASE RecordLost(p)
  <2>1. pc[p] = "record" /\ UNCHANGED <<policy, control>> /\ (Finish(p) \/ Goto(p, "trip"))
    BY <1>30 DEF RecordLost, AfterRecord
  <2>2. Halted'
    BY <1>1, <1>30 DEF RecordLost, HaltStands, Halted, Stopping, Stopped
  <2> QED BY <1>1, <1>6, <1>30, <2>1, <2>2, OnlyCallEnds DEF PCs, RecordLost
<1>31. CASE Crash(p)
  <2>1. Halted'
    BY <1>1, <1>31 DEF Crash, Halted, Stopped
  <2> QED BY <1>1, <1>31, <2>1, OnlyCallEnds DEF Crash
<1> QED BY <1>7, <1>8, <1>9, <1>10, <1>11, <1>12, <1>13, <1>14, <1>15, <1>16, <1>17, <1>18, <1>19, <1>20, <1>21, <1>22, <1>23, <1>24, <1>25, <1>26, <1>27, <1>28, <1>29, <1>30, <1>31 DEF Step, Reads, Decides

-----------------------------------------------------------------------------
(* The theorems.                                                           *)

\* A step that leaves a member's rows, calls and histories alone.
LEMMA ElsewhereKeeps ==
  ASSUME IInv, global' \in BOOLEAN,
         UNCHANGED <<policy, control, op, pc, got, mine, ctl, halt, acked, overlapped, faults>>
  PROVE  IInv'
<1>1. TypeOK'
  BY DEF IInv, TypeOK
<1>2. EveryCopyAcknowledged' /\ Informed'
  BY DEF IInv, EveryCopyAcknowledged, Acknowledged, Informed, LiveOf
<1>3. ~overlapped' => Serial'
  BY DEF IInv, Serial, Alone, Halted, Current, Stopping, Stopped
<1> QED BY <1>1, <1>2, <1>3 DEF IInv

\* The invariant holds at the start: nothing is on, nothing is under way.
LEMMA InitInvariant == Init => IInv
<1> SUFFICES ASSUME Init PROVE IInv
  OBVIOUS
<1>1. TypeOK
  <2>1. op \in [Callers -> MemberOps \cup {"none", "loss", "kill"}] /\ pc \in [Callers -> PCs]
    BY DEF Init, PCs
  <2>2. mine \in [Callers -> Policies] /\ ctl \in [Callers -> Controls]
    BY PoliciesTyped DEF Init
  <2>3. policy \in Policies /\ control \in Controls
    BY PoliciesTyped DEF Init
  <2>4. got \in [Callers -> SUBSET {"policy", "control", "global"}]
    BY DEF Init
  <2>5. faults \in 0..MaxFaults /\ acked \subseteq Live
    BY FaultBound DEF Init
  <2>6. global \in BOOLEAN
    BY DEF Init
  <2>7. overlapped \in BOOLEAN
    BY DEF Init
  <2>8. halt \in {"none", "saved", "stands"}
    BY DEF Init
  <2> QED BY <2>1, <2>2, <2>3, <2>4, <2>5, <2>6, <2>7, <2>8 DEF TypeOK
<1>2. EveryCopyAcknowledged /\ Informed
  BY DEF Init, EveryCopyAcknowledged, Acknowledged, Informed, DefaultPolicy, DefaultControl
<1>3. Serial
  BY DEF Init, Serial, Alone, Halted, Current, Stopping
<1> QED BY <1>1, <1>2, <1>3 DEF IInv

\* Every step keeps it.
LEMMA Consecution == IInv /\ [Next]_vars => IInv'
<1> SUFFICES ASSUME IInv, [Next]_vars PROVE IInv'
  OBVIOUS
<1>1. CASE \E p \in Callers : Step(p)
  <2>1. PICK p \in Callers : Step(p)
    BY <1>1
  <2>2. TypeOK' /\ EveryCopyAcknowledged' /\ Informed'
    BY <2>1, StepTyped, StepAcknowledged, StepInformed DEF IInv
  <2>3. ~overlapped' => Serial'
    BY <2>1, StepSerial
  <2> QED BY <2>2, <2>3 DEF IInv
<1>2. CASE \E stopped \in BOOLEAN : SetGlobal(stopped)
  BY <1>2, ElsewhereKeeps DEF SetGlobal
<1>3. CASE UNCHANGED vars
  BY <1>3, ElsewhereKeeps DEF vars, IInv, TypeOK
<1> QED BY <1>1, <1>2, <1>3 DEF Next

\* The inductive invariant holds of every behaviour, for any number of callers,
\* markets and faults.
THEOREM Invariance == Spec => []IInv
BY InitInvariant, Consecution, PTL DEF Spec

\* The rows and the calls are well-typed.
THEOREM TypeCorrect == Spec => []TypeOK
<1>1. IInv => TypeOK
  BY DEF IInv
<1> QED BY Invariance, <1>1, PTL

\* As long as no two calls overlap, an answered or recorded stop stands until the
\* confirmed resume, whatever fails or crashes and however long the labels' history.
THEOREM StopStandsAlone == Spec => []SerialStopStands
<1>1. IInv => SerialStopStands
  BY DEF IInv, Serial, Halted, SerialStopStands, StopStands
<1> QED BY Invariance, <1>1, PTL

\* Whatever overlaps, fails or crashes, a running member trades LIVE only in
\* markets he acknowledged.
THEOREM LiveIsAcknowledged == Spec => []LiveAcknowledged
<1>1. IInv => LiveAcknowledged
  BY DEF IInv, EveryCopyAcknowledged, Acknowledged, LiveAcknowledged
<1> QED BY Invariance, <1>1, PTL

\* One step of a call takes a stop back only knowingly.
LEMMA StepClearsKnowingly ==
  ASSUME TypeOK, NEW p \in Callers, Step(p), Stopped(policy), ~Stopped(policy')
  PROVE  \/ op[p] = "resume" \/ ~Stopped(mine[p])
         \/ op[p] = "start" /\ Resumable(mine[p], ctl[p])
<1>1. mine[p] \in Policies /\ policy' # policy
  BY DEF TypeOK
<1>2. CASE Start(p)
  BY <1>2 DEF Start, Deciding, MayStart
<1>3. CASE Resume(p)
  BY <1>3 DEF Resume, Deciding
<1>4. CASE SaveSettings(p)
  <2>1. PICK candidate \in Policies : policy' = KeepStops(candidate, mine[p])
    BY <1>4 DEF SaveSettings
  <2> QED BY <1>1, <2>1 DEF KeepStops, Policies, Stopped
<1>5. CASE SaveCapital(p)
  <2>1. PICK on \in BOOLEAN : policy' = [mine[p] EXCEPT !.on = on]
    BY <1>1, <1>5 DEF SaveCapital, Policies
  <2> QED BY <1>1, <2>1 DEF Policies, Stopped
<1>6. CASE Stop(p)
  <2>1. policy' = [mine[p] EXCEPT !.on = FALSE]
    BY <1>1, <1>6 DEF Stop, SavePolicy
  <2> QED BY <1>1, <2>1 DEF Policies, Stopped
<1>7. CASE EmergencyStop(p)
  BY <1>1, <1>7 DEF EmergencyStop, SaveAndGoto, SavePolicy, Policies, Stopped
<1>8. CASE LossStop(p)
  BY <1>1, <1>8 DEF LossStop, SaveAndGoto, SavePolicy, Policies, Stopped
<1>9. CASE KillStop(p)
  BY <1>1, <1>9 DEF KillStop, SaveAndGoto, SavePolicy, Policies, Stopped
<1>10. CASE MemberCalls(p) \/ RiskFails(p) \/ Reads(p)
  BY <1>1, <1>10 DEF MemberCalls, RiskFails, Begin, Reads, ReadPolicy, ReadControl, ReadGlobal, ReadLabel, Refuse
<1>11. CASE \/ StartRefused(p) \/ AlreadyRunning(p) \/ SettingsRefused(p) \/ LossStopFails(p)
            \/ TripNothing(p) \/ TripMember(p) \/ TripSystem(p) \/ KillStopStands(p)
  BY <1>1, <1>11 DEF StartRefused, AlreadyRunning, SettingsRefused, LossStopFails, TripNothing,
                     TripMember, TripSystem, KillStopStands, Refuse
<1>12. CASE Record(p) \/ RecordLost(p) \/ Crash(p)
  BY <1>1, <1>12 DEF Record, RecordLost, Crash
<1> QED BY <1>2, <1>3, <1>4, <1>5, <1>6, <1>7, <1>8, <1>9, <1>10, <1>11, <1>12 DEF Step, Decides

\* The policy is written by a call that decides, and has decided then.
LEMMA WritersSave ==
  ASSUME TypeOK, NEW p \in Callers, Step(p), policy' # policy
  PROVE  Saves(p)
<1>1. pc[p] = "save" /\ \E l \in {"record", "label", "trip", "idle"} : Goto(p, l)
  <2>1. CASE Start(p) \/ Resume(p) \/ EmergencyStop(p) \/ KillStop(p)
    BY <2>1 DEF Start, Resume, EmergencyStop, KillStop, Deciding, SaveAndGoto
  <2>2. CASE SaveSettings(p)
    BY <2>2 DEF SaveSettings, Deciding, Finish
  <2>3. CASE SaveCapital(p)
    BY <2>3 DEF SaveCapital, Deciding, Finish
  <2>4. CASE Stop(p)
    BY <2>4 DEF Stop, Deciding
  <2>5. CASE LossStop(p)
    BY <2>5 DEF LossStop, Deciding, SaveAndGoto
  <2>6. CASE MemberCalls(p) \/ RiskFails(p) \/ Reads(p)
    BY <2>6 DEF MemberCalls, RiskFails, Begin, Reads, ReadPolicy, ReadControl, ReadGlobal, ReadLabel, Refuse
  <2>7. CASE \/ StartRefused(p) \/ AlreadyRunning(p) \/ SettingsRefused(p) \/ LossStopFails(p)
             \/ TripNothing(p) \/ TripMember(p) \/ TripSystem(p) \/ KillStopStands(p)
    BY <2>7 DEF StartRefused, AlreadyRunning, SettingsRefused, LossStopFails, TripNothing,
                TripMember, TripSystem, KillStopStands, Refuse
  <2>8. CASE Record(p) \/ RecordLost(p) \/ Crash(p)
    BY <2>8 DEF Record, RecordLost, Crash
  <2> QED BY <2>1, <2>2, <2>3, <2>4, <2>5, <2>6, <2>7, <2>8 DEF Step, Decides
<1> QED BY <1>1 DEF Goto, Saves, TypeOK

\* However calls overlap and fail, the call that writes a stop away is the confirmed
\* resume, a restart that saw a loss stop, or one that had itself read the policy
\* before the stop.
THEOREM StopsClearedKnowingly == Spec => StopClearedKnowingly
<1>1. TypeOK /\ [Next]_vars =>
        [ Stopped(policy) /\ ~Stopped(policy') =>
            \E p \in Callers :
              /\ Saves(p)
              /\ \/ op[p] = "resume"
                 \/ op[p] = "start" /\ Resumable(mine[p], ctl[p])
                 \/ ~Stopped(mine[p]) ]_vars
  <2> SUFFICES ASSUME TypeOK, Next, Stopped(policy), ~Stopped(policy')
               PROVE  \E p \in Callers :
                        /\ Saves(p)
                        /\ \/ op[p] = "resume"
                           \/ op[p] = "start" /\ Resumable(mine[p], ctl[p])
                           \/ ~Stopped(mine[p])
    OBVIOUS
  <2>1. PICK p \in Callers : Step(p)
    BY DEF Next, SetGlobal
  <2>2. policy' # policy
    OBVIOUS
  <2> QED BY <2>1, <2>2, StepClearsKnowingly, WritersSave
<1> QED BY <1>1, TypeCorrect, PTL DEF Spec, StopClearedKnowingly
=============================================================================
