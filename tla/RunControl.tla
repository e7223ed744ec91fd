----------------------------- MODULE RunControl -----------------------------
(***************************************************************************)
(* The run switch and the stops of one member's automatic trading          *)
(* (api-server/src/services/trade-automation-run-control.service.ts,       *)
(* trade-kill-switch.service.ts and the routes that save the policy).      *)
(*                                                                         *)
(* The policy, the run control (the label of the last change and the       *)
(* markets confirmed for LIVE) and the global stop are three rows.  A call *)
(* reads the policy, computes a whole new one from its copy and saves it   *)
(* over the row; nothing is compared.  One action is one database access.  *)
(***************************************************************************)
EXTENDS Integers

CONSTANTS
  Members,    \* calls the member makes: the run switch, the stop, the settings
  Guards,     \* risk failures of the member's plans and orders
  Markets,    \* asset classes a member may enable
  Live,       \* those the server gates route to a live provider
  MaxFaults   \* failed or crashed database accesses

ASSUME RolesDisjoint == Members \cap Guards = {}
ASSUME LiveMarkets == Live \subseteq Markets
ASSUME FaultBound == MaxFaults \in Nat

VARIABLES
  policy,     \* trade_automation_profiles: what the run switch and the stops are
  control,    \* trade_automation_run_controls
  global,     \* trade_system_controls, or TRADING_EMERGENCY_STOP
  op, pc,     \* the call in progress and its next access
  got,        \* which of its parallel reads a call has back
  mine, ctl,  \* the policy and the control a call works on
  halt,       \* history: how far the last stop came, until a resume is saved
  acked,      \* history: LIVE markets the member acknowledged
  overlapped, \* history: two calls of the member have overlapped
  faults
vars == <<policy, control, global, op, pc, got, mine, ctl, halt, acked, overlapped, faults>>

Callers == Members \cup Guards
MemberOps == {"start", "stop", "emergency", "resume", "settings", "capital"}
Labels == {"none", "RUN", "STOP", "AUTO_STOP", "KILL_SWITCH"}
PCs == {"idle", "reads", "save", "label", "record", "trip"}

\* `on` is mode = automatic with automaticEnabled: every save keeps the two together.
Policies == [on : BOOLEAN, markets : SUBSET Markets, entriesStopped : BOOLEAN, emergencyStopped : BOOLEAN]
Controls == [confirmed : SUBSET Markets, last : Labels]
DefaultPolicy == [on |-> FALSE, markets |-> {}, entriesStopped |-> FALSE, emergencyStopped |-> FALSE]
DefaultControl == [confirmed |-> {}, last |-> "none"]

TypeOK ==
  /\ policy \in Policies /\ control \in Controls /\ global \in BOOLEAN
  /\ op \in [Callers -> MemberOps \cup {"none", "loss", "kill"}]
  /\ pc \in [Callers -> PCs]
  /\ got \in [Callers -> SUBSET {"policy", "control", "global"}]
  /\ mine \in [Callers -> Policies] /\ ctl \in [Callers -> Controls]
  /\ halt \in {"none", "saved", "stands"} /\ overlapped \in BOOLEAN
  /\ acked \subseteq Live /\ faults \in 0..MaxFaults

Init ==
  /\ policy = DefaultPolicy /\ control = DefaultControl /\ global = FALSE
  /\ op = [p \in Callers |-> "none"] /\ pc = [p \in Callers |-> "idle"]
  /\ got = [p \in Callers |-> {}]
  /\ mine = [p \in Callers |-> DefaultPolicy] /\ ctl = [p \in Callers |-> DefaultControl]
  /\ halt = "none" /\ acked = {} /\ overlapped = FALSE /\ faults = 0

Stopped(pol) == pol.entriesStopped \/ pol.emergencyStopped
SwitchOn(pol) == pol.on /\ ~Stopped(pol)
LiveOf(pol) == pol.markets \cap Live

\* What a call reads before it decides; start and stop read in parallel.
Needs(o) == CASE o = "start" -> {"policy", "control", "global"}
              [] o = "stop" -> {"policy", "control"}
              [] OTHER -> {"policy"}

-----------------------------------------------------------------------------
(* Helpers: a call goes on, ends, or writes one of the rows.               *)

Goto(p, l) == pc' = [pc EXCEPT ![p] = l]
\* A call that is over remembers nothing.
Finish(p) ==
  /\ Goto(p, "idle")
  /\ op' = [op EXCEPT ![p] = "none"] /\ got' = [got EXCEPT ![p] = {}]
  /\ mine' = [mine EXCEPT ![p] = DefaultPolicy] /\ ctl' = [ctl EXCEPT ![p] = DefaultControl]
\* A stop is saved, and stands when its call has recorded it or answers.
HaltSaved == halt' = IF halt = "none" THEN "saved" ELSE halt
HaltStands(p, stops) == halt' = IF halt = "saved" /\ op[p] \in stops THEN "stands" ELSE halt
Refuse(p) == Finish(p) /\ UNCHANGED <<policy, control, global, halt, acked, overlapped, faults>>

\* savePolicy: the whole row is replaced.  What comes after looks at the policy
\* only in a settings save, which keeps what it wrote.
SavePolicy(p, pol) ==
  /\ policy' = pol
  /\ mine' = [mine EXCEPT ![p] = DefaultPolicy]

Begin(p, o) ==
  /\ pc[p] = "idle"
  /\ op' = [op EXCEPT ![p] = o]
  /\ Goto(p, "reads")
  /\ overlapped' = (overlapped \/ \E q \in Callers : pc[q] # "idle")
  /\ UNCHANGED <<policy, control, global, got, mine, ctl, halt, acked, faults>>

MemberCalls(p) == p \in Members /\ \E o \in MemberOps : Begin(p, o)
\* tripKillSwitchForRiskFailure: a loss code first auto-stops the run.
RiskFails(p) == p \in Guards /\ \E o \in {"loss", "kill"} : Begin(p, o)

-----------------------------------------------------------------------------
(* Reads.                                                                  *)

Pending(p, row) == pc[p] = "reads" /\ row \in Needs(op[p]) \ got[p]
Received(p, row) ==
  /\ got' = [got EXCEPT ![p] = @ \cup {row}]
  /\ Goto(p, IF got[p] \cup {row} = Needs(op[p]) THEN "save" ELSE "reads")

ReadPolicy(p) ==
  /\ Pending(p, "policy")
  /\ mine' = [mine EXCEPT ![p] = policy]
  /\ Received(p, "policy")
  /\ UNCHANGED <<policy, control, global, op, ctl, halt, acked, overlapped, faults>>

\* readAutoRunControl: a failed read counts as the default control.
ControlRead(p) ==
  \/ /\ ctl' = [ctl EXCEPT ![p] = control]
     /\ UNCHANGED faults
  \/ /\ faults < MaxFaults
     /\ faults' = faults + 1
     /\ ctl' = [ctl EXCEPT ![p] = DefaultControl]

ReadControl(p) ==
  /\ Pending(p, "control")
  /\ ControlRead(p)
  /\ Received(p, "control")
  /\ UNCHANGED <<policy, control, global, op, mine, halt, acked, overlapped>>

\* startAutoRun refuses while the global stop is on.
ReadGlobal(p) ==
  /\ Pending(p, "global")
  /\ \/ ~global /\ Received(p, "global")
        /\ UNCHANGED <<policy, control, global, op, mine, ctl, halt, acked, overlapped, faults>>
     \/ global /\ Refuse(p)

\* The calls that label their change read the control after they saved.
ReadLabel(p) ==
  /\ pc[p] = "label"
  /\ ControlRead(p)
  /\ Goto(p, "record")
  /\ UNCHANGED <<policy, control, global, op, got, mine, halt, acked, overlapped>>

-----------------------------------------------------------------------------
(* Decisions and saves.                                                    *)

Deciding(p, o) == pc[p] = "save" /\ op[p] = o
SaveAndGoto(p, pol, l) == SavePolicy(p, pol) /\ Goto(p, l)

\* A loss stop may be restarted; every other stop needs the confirmed resume.
\* Mutant of Resumable: the label not looked at.
AnyStopResumable(pol, c) == pol.entriesStopped /\ ~pol.emergencyStopped
Resumable(pol, c) == pol.entriesStopped /\ ~pol.emergencyStopped /\ c.last = "AUTO_STOP"
\* Mutant of Unconfirmed: the run switch asks for no confirmation.
NeverAsked(pol, c) == {}
Unconfirmed(pol, c) == LiveOf(pol) \ c.confirmed
MayStart(pol, c) == (~Stopped(pol) \/ Resumable(pol, c)) /\ pol.markets # {}
Running(pol, c) == [pol EXCEPT !.on = TRUE,
                               !.entriesStopped = IF Resumable(pol, c) THEN FALSE ELSE @]

\* startAutoRun.  It asks for LIVE markets that were never confirmed.
StartRefused(p) ==
  /\ Deciding(p, "start")
  /\ ~MayStart(mine[p], ctl[p]) \/ Unconfirmed(mine[p], ctl[p]) # {}
  /\ Refuse(p)

AlreadyRunning(p) ==
  /\ Deciding(p, "start")
  /\ SwitchOn(mine[p]) /\ MayStart(mine[p], ctl[p]) /\ Unconfirmed(mine[p], ctl[p]) = {}
  /\ Refuse(p)

Start(p) ==
  /\ Deciding(p, "start")
  /\ MayStart(mine[p], ctl[p])
  /\ ~(SwitchOn(mine[p]) /\ Unconfirmed(mine[p], ctl[p]) = {})
  /\ SaveAndGoto(p, Running(mine[p], ctl[p]), "record")
  /\ ctl' = [ctl EXCEPT ![p].confirmed = @ \cup LiveOf(mine[p])]
  /\ acked' = acked \cup Unconfirmed(mine[p], ctl[p])
  /\ UNCHANGED <<control, global, op, got, halt, overlapped, faults>>

\* stopAutoRun saves only if the switch was on, and records either way.
Stop(p) ==
  /\ Deciding(p, "stop")
  /\ IF mine[p].on THEN SavePolicy(p, [mine[p] EXCEPT !.on = FALSE])
                   ELSE mine' = [mine EXCEPT ![p] = DefaultPolicy] /\ UNCHANGED policy
  /\ Goto(p, "record")
  /\ UNCHANGED <<control, global, op, got, ctl, halt, acked, overlapped, faults>>

\* POST /emergency-stop.
EmergencyStop(p) ==
  /\ Deciding(p, "emergency")
  /\ SaveAndGoto(p, [mine[p] EXCEPT !.on = FALSE, !.markets = {}, !.emergencyStopped = TRUE], "label")
  /\ HaltSaved
  /\ UNCHANGED <<control, global, op, got, ctl, acked, overlapped, faults>>

\* POST /resume, resumeMemberTradingPolicy: no provider is left enabled.
Resume(p) ==
  /\ Deciding(p, "resume")
  /\ SaveAndGoto(p, DefaultPolicy, "label")
  /\ halt' = "none"
  /\ UNCHANGED <<control, global, op, got, ctl, acked, overlapped, faults>>

\* enforceMemberTradingPolicy: the settings keep the stops they were read with.
\* Mutant of KeepStops: the stop of new entries forgotten.
KeepEmergencyOnly(candidate, current) ==
  [candidate EXCEPT !.emergencyStopped = @ \/ current.emergencyStopped]
KeepStops(candidate, current) ==
  [candidate EXCEPT !.entriesStopped = @ \/ current.entriesStopped,
                    !.emergencyStopped = @ \/ current.emergencyStopped]

\* PUT /policy.  Turning anything on takes the standing acknowledgement and is
\* refused while a stop is read; markets need the automatic mode.
SaveSettings(p) ==
  /\ Deciding(p, "settings")
  /\ \E candidate \in Policies :
       LET enabling == candidate.on \/ candidate.markets # {}
           after == KeepStops(candidate, mine[p])
       IN /\ ~(enabling /\ Stopped(mine[p]))
          /\ acked' = IF candidate.on THEN acked \cup LiveOf(candidate) ELSE acked
          /\ policy' = after
          /\ IF SwitchOn(after) = SwitchOn(mine[p])
             THEN Finish(p)
             ELSE /\ mine' = [mine EXCEPT ![p] = after]
                  /\ Goto(p, "label")
                  /\ UNCHANGED <<op, got, ctl>>
  /\ UNCHANGED <<control, global, halt, overlapped, faults>>

SettingsRefused(p) == Deciding(p, "settings") /\ Refuse(p)

\* POST /admin/order-limit-1m and /admin/pilot-stage: a capital limit or the
\* pilot stage is changed in the copy; the latter turns the switch off.
SaveCapital(p) ==
  /\ Deciding(p, "capital")
  /\ \E on \in {FALSE, mine[p].on} : policy' = [mine[p] EXCEPT !.on = on]
  /\ Finish(p)
  /\ UNCHANGED <<control, global, halt, acked, overlapped, faults>>

\* autoStopRunForLossLimit: only a running member is stopped.
LossStop(p) ==
  /\ Deciding(p, "loss")
  /\ IF SwitchOn(mine[p])
     THEN SaveAndGoto(p, [mine[p] EXCEPT !.entriesStopped = TRUE], "label")
     ELSE Goto(p, "trip") /\ mine' = [mine EXCEPT ![p] = DefaultPolicy] /\ UNCHANGED policy
  /\ UNCHANGED <<control, global, op, got, ctl, halt, acked, overlapped, faults>>

\* It never throws: after a failure the kill codes are looked at all the same.
LossStopFails(p) ==
  /\ op[p] = "loss" /\ pc[p] \in {"reads", "save", "label"}
  /\ faults < MaxFaults /\ faults' = faults + 1
  /\ Goto(p, "trip")
  /\ mine' = [mine EXCEPT ![p] = DefaultPolicy]
  /\ UNCHANGED <<policy, control, global, op, got, ctl, halt, acked, overlapped>>

\* The codes besides the loss limit: none, a member's own or the system's.
TripNothing(p) == pc[p] = "trip" /\ Refuse(p)
TripMember(p) ==
  /\ pc[p] = "trip"
  /\ op' = [op EXCEPT ![p] = "kill"] /\ got' = [got EXCEPT ![p] = {}]
  /\ Goto(p, "reads")
  /\ UNCHANGED <<policy, control, global, mine, ctl, halt, acked, overlapped, faults>>
TripSystem(p) ==
  /\ pc[p] = "trip"
  /\ global' = TRUE /\ Finish(p)
  /\ UNCHANGED <<policy, control, halt, acked, overlapped, faults>>

\* killSwitchStopMemberEntries: an existing stop is kept as it is.
KillStop(p) ==
  /\ Deciding(p, "kill") /\ ~Stopped(mine[p])
  /\ SaveAndGoto(p, [mine[p] EXCEPT !.entriesStopped = TRUE], "label")
  /\ HaltSaved
  /\ UNCHANGED <<control, global, op, got, ctl, acked, overlapped, faults>>
KillStopStands(p) == Deciding(p, "kill") /\ Stopped(mine[p]) /\ Refuse(p)

-----------------------------------------------------------------------------
(* recordAutoRunChange: the label, written after the policy.               *)

LabelOf(p) == CASE op[p] = "start" -> "RUN"
                [] op[p] \in {"stop", "resume"} -> "STOP"
                [] op[p] \in {"emergency", "kill"} -> "KILL_SWITCH"
                [] op[p] = "loss" -> "AUTO_STOP"
                [] op[p] = "settings" /\ SwitchOn(mine[p]) -> "RUN"
                [] OTHER -> "STOP"
\* Mutant of Recorded: the operation's name stored for the action's.
RecordedByName(p) == [last |-> op[p], confirmed |-> ctl[p].confirmed]
Recorded(p) ==
  [last |-> LabelOf(p),
   confirmed |-> IF op[p] = "settings" /\ SwitchOn(mine[p])
                 THEN ctl[p].confirmed \cup LiveOf(mine[p]) ELSE ctl[p].confirmed]

\* After the record a call answers, except the loss stop, which goes on to the kill codes.
AfterRecord(p) ==
  IF op[p] # "loss" THEN Finish(p)
  ELSE Goto(p, "trip") /\ ctl' = [ctl EXCEPT ![p] = DefaultControl] /\ UNCHANGED <<op, got, mine>>

Record(p) ==
  /\ pc[p] = "record"
  /\ control' = Recorded(p)
  /\ HaltStands(p, {"emergency", "kill"})
  /\ AfterRecord(p)
  /\ UNCHANGED <<policy, global, acked, overlapped, faults>>

\* A failed write of the label is swallowed; an emergency stop is answered all the same.
RecordLost(p) ==
  /\ pc[p] = "record"
  /\ faults < MaxFaults /\ faults' = faults + 1
  /\ HaltStands(p, {"emergency"})
  /\ AfterRecord(p)
  /\ UNCHANGED <<policy, control, global, acked, overlapped>>

\* A crash, or an access that throws: the call ends where it is.
Crash(p) ==
  /\ pc[p] # "idle"
  /\ faults < MaxFaults /\ faults' = faults + 1
  /\ Finish(p)
  /\ UNCHANGED <<policy, control, global, halt, acked, overlapped>>

\* setGlobalEmergencyStop by an admin, or by a failure of a shared venue.
SetGlobal(stopped) ==
  /\ global # stopped /\ global' = stopped
  /\ UNCHANGED <<policy, control, op, pc, got, mine, ctl, halt, acked, overlapped, faults>>

-----------------------------------------------------------------------------
Reads(p) == ReadPolicy(p) \/ ReadControl(p) \/ ReadGlobal(p) \/ ReadLabel(p)
Decides(p) ==
  \/ StartRefused(p) \/ AlreadyRunning(p) \/ Start(p) \/ Stop(p)
  \/ EmergencyStop(p) \/ Resume(p)
  \/ SaveSettings(p) \/ SettingsRefused(p) \/ SaveCapital(p)
  \/ LossStop(p) \/ LossStopFails(p) \/ TripNothing(p) \/ TripMember(p) \/ TripSystem(p)
  \/ KillStop(p) \/ KillStopStands(p)
Step(p) ==
  \/ MemberCalls(p) \/ RiskFails(p) \/ Reads(p) \/ Decides(p)
  \/ Record(p) \/ RecordLost(p) \/ Crash(p)

Next == (\E p \in Callers : Step(p)) \/ \E stopped \in BOOLEAN : SetGlobal(stopped)
Spec == Init /\ [][Next]_vars

-----------------------------------------------------------------------------
(* Properties.                                                             *)

\* A stop that was answered (the member's emergency stop) or recorded (the kill
\* switch of a risk failure) stands until the confirmed resume: neither the run
\* switch nor the settings take it back.
StopStands == halt = "stands" => Stopped(policy)

\* The same, as long as no two calls about the member overlap: through any
\* sequence of calls, refusals, failed accesses and crashes, and although the
\* run switch may restart a loss stop by the label it finds.
SerialStopStands == ~overlapped => StopStands

\* However calls overlap, fail or die: while the run switch is on, every market
\* that trades LIVE is one the member acknowledged, by the run switch's question or
\* in the settings, and a confirmation that another call's record lost is asked for again.
LiveAcknowledged == policy.on => LiveOf(policy) \subseteq acked

\* The call that saves the policy, or ends without saving, in this step.
Saves(p) == pc[p] = "save" /\ pc'[p] # "save"

\* Whoever writes a stop away is the confirmed resume, the run switch that saw a loss
\* stop, or had itself read the policy while it was not stopped (policy-guard,
\* run-control, savePolicy).  A call that read the stop keeps it.
StopClearedKnowingly ==
  [][ Stopped(policy) /\ ~Stopped(policy') =>
        \E p \in Callers :
          /\ Saves(p)
          /\ \/ op[p] = "resume"
             \/ op[p] = "start" /\ Resumable(mine[p], ctl[p])
             \/ ~Stopped(mine[p]) ]_vars
=============================================================================
