------------------------- MODULE PolicyTeleopProofs -------------------------
(***************************************************************************)
(* Proofs about the bridge driven by a policy, for every number of         *)
(* requests, of packets that repeat one, of lost packets, of reflexes and  *)
(* of settling cycles: a request sends the arm home once and is kept until *)
(* then, and no action derived from before the last home route moves the   *)
(* arm unless the operator resumed too early.                              *)
(***************************************************************************)
EXTENDS PolicyTeleop, TLAPS

(* What TypeOK leaves out because no run needs it. *)
BridgeType ==
  homed \in Nat /\ reflex \in BOOLEAN

(* Where the requests are: sent, noted, being served, done; and how often  *)
(* the arm has been home.                                                  *)
RequestInv ==
  /\ donePolicy <= requestId
  /\ pendingPolicy <= policyAction.id /\ policyAction.id <= requestId
  /\ pendingPolicy # 0 => pendingPolicy > donePolicy
  /\ mpc \notin {"complete", "release"}
  /\ mpc \in {"control", "dispatch"} => job = NoJob
  /\ mpc = "dispatch" => stop \/ pendingPolicy # 0
  /\ mpc \in {"route", "openGripper"} =>
       /\ job.kind = "policy" /\ pendingPolicy = 0
       /\ donePolicy < job.id /\ job.id <= policyAction.id
  /\ mpc \in {"publishHome", "publishHold"} =>
       job.kind = "policy" /\ pendingPolicy = 0 /\ donePolicy = job.id
  /\ mpc = "openGripper" => homed <= donePolicy + 1
  /\ mpc \notin {"openGripper", "exited"} => homed <= donePolicy

(* The callback is in the middle of a cycle only while control runs. *)
CycleInv ==
  /\ rpc = "end" => mpc = "control"
  /\ rpc = "begin" => ~rtTarget.fresh
  /\ towards.some => mpc = "control"

(* What the runner holds when it is not paused, its filters included, and  *)
(* the actions it has left are of the arm as it is; so is a packet that    *)
(* enables motion.                                                         *)
RunnerInv ==
  /\ ~paused => /\ donePolicy = requestId /\ obs = homed /\ zi = homed
                /\ smoothed.some => smoothed.base = homed
  /\ chunk.some => donePolicy = requestId /\ chunk.base = homed
  /\ policyAction.enabled => policyAction.id <= donePolicy /\ policyAction.base = homed

(* A pose the planner works with is of the arm as it is, or the planner    *)
(* has yet to read the packet that took motion away.                       *)
Current(base) ==
  IF policyAction.enabled THEN base = homed ELSE "planner" \in unread

InTick == ppc \in {"loadCompleted", "input", "decide"}

(* The deadman switch of a policy is its packet. *)
DeadmanInv == ppc = "decide" /\ deadmanLatched => HasTarget

PlannerInv ==
  /\ InTick /\ tick.policy.enabled => Current(tick.policy.base)
  /\ ppc = "publish" /\ tick.out.fresh => Current(tick.out.stamp.base)
  /\ hasRecent /\ ppc # "exited" =>
       Current(lastTarget.base) \/ (InTick /\ ~tick.policy.enabled)

(* The iteration that was under way when the arm got home can still yield  *)
(* a target of before.                                                     *)
OldTick ==
  \/ /\ InTick /\ tick.policy.enabled
     /\ tick.policy.base # homed \/ (hasRecent /\ lastTarget.base # homed)
  \/ ppc = "publish" /\ tick.out.fresh /\ tick.out.stamp.base # homed

(* Such a target is published, at the latest, by the first iteration to    *)
(* end within the motion inhibit, and the second replaces it.              *)
StaleInv ==
  /\ OldTick => mpc \in {"openGripper", "exited"} \/ inhibit = Inhibited
  /\ planned.fresh /\ planned.stamp.base # homed =>
       mpc \in {"openGripper", "exited"} \/ inhibit >= 2
  /\ rtTarget.fresh /\ rtTarget.stamp.base # homed => inhibit # 0
  /\ towards.some => towards.base = homed

IInv ==
  /\ TypeOK /\ BridgeType /\ RequestInv /\ CycleInv /\ DeadmanInv
  /\ ~early => RunnerInv /\ PlannerInv /\ StaleInv

-----------------------------------------------------------------------------
(* The records the actions build are in their types. *)
LEMMA RecordType ==
  /\ NoStamp \in Stamp
  /\ \A b, c \in Nat : StampOf(b, c) \in Stamp
  /\ NoJob \in Job
  /\ \A kind \in {"xr", "policy"}, id \in Nat : [kind |-> kind, id |-> id] \in Job
  /\ \A at \in Nat, ok \in BOOLEAN : [at |-> at, ok |-> ok] \in RobotSnapshot
  /\ \A command \in GripperCommand, id \in Nat :
       [command |-> command, seen |-> id] \in [command : GripperCommand, seen : Nat]
  /\ \A active \in BOOLEAN : HoldTarget(active) \in PlannedTarget
  /\ \A stamp \in Stamp : FreshTarget(stamp) \in PlannedTarget
  /\ NoPoses \in Poses /\ \A base \in Nat : From(base) \in Poses
  BY DEF StampOf, Stamp, NoStamp, NoJob, Job, RobotSnapshot, HoldTarget, FreshTarget,
     Target, PlannedTarget, NoPoses, From, Poses

(* The locals of an iteration. *)
Tick == [snapshot : RobotSnapshot, policy : PolicyActionCommand,
         healthy : BOOLEAN, gripper : GripperCommand, out : PlannedTarget]

(* What the planner stores in its tick is a tick. *)
LEMMA TickType ==
  /\ NoTick \in Tick
  /\ \A out \in PlannedTarget : [NoTick EXCEPT !.out = out] \in Tick
  /\ \A snapshot \in RobotSnapshot, command \in PolicyActionCommand :
       [NoTick EXCEPT !.snapshot = snapshot, !.policy = command] \in Tick
  <1>1. NoPolicyAction \in PolicyActionCommand
    BY DEF NoPolicyAction, PolicyActionCommand, GripperCommand
  <1>2. NoTick \in Tick
    BY <1>1, RecordType DEF NoTick, Tick, RobotSnapshot, GripperCommand
  <1> QED BY <1>2 DEF Tick

(* The clutch automaton stays in its states and is active on a deadman only. *)
LEMMA UpdateType ==
  ASSUME NEW state \in TeleopState, NEW in \in StateInputs
  PROVE  /\ Update(state, in) \in TeleopState
         /\ Update(state, in) = "Active" => in.deadmanPressed
  BY DEF Update, TeleopState, StateInputs

(* A policy never asks for a re-home in the way of the XR controller. *)
LEMMA NoXrRehome == TypeOK => ~RehomeRequested
  BY DEF TypeOK, RehomeRequested

(* After PlannerDecide an active clutch has a packet that enables motion. *)
LEMMA DecideState ==
  ASSUME TypeOK, DeadmanInv, PlannerDecide
  PROVE  /\ teleopState' \in TeleopState
         /\ teleopState' = "Active" => HasTarget
  <1> DEFINE in == [xrStreamHealthy |-> tick.healthy, deadmanPressed |-> deadmanLatched',
                    robotOk |-> tick.snapshot.ok, faultRequested |-> FALSE,
                    clearFaultRequested |-> TRUE]
  <1>1. deadmanLatched' = (deadmanLatched /\ ~RehomeRequested) /\ ppc = "decide"
    BY DEF PlannerDecide
  <1>2. deadmanLatched' \in BOOLEAN
    BY <1>1, Zenon
  <1>3. in \in StateInputs /\ teleopState \in TeleopState
    BY <1>2 DEF TypeOK, RobotSnapshot, StateInputs
  <1>4. teleopState' = Update(teleopState, in)
    BY DEF PlannerDecide
  <1>5. teleopState' = "Active" => deadmanLatched'
    BY <1>3, <1>4, UpdateType
  <1> QED BY <1>1, <1>3, <1>4, <1>5, UpdateType DEF DeadmanInv

(* What an iteration decides on: nothing, or its packet enables motion, and*)
(* the target is of the packet, a hold, or the last target again.          *)
StampOfPacket == StampOf(tick.policy.base, tick.policy.id)

Decided ==
  \/ /\ tick' = [NoTick EXCEPT !.out = HoldTarget(FALSE)]
     /\ hasRecent' = FALSE /\ lastTarget' = lastTarget
  \/ /\ tick.policy.enabled
     /\ \/ /\ tick' = [NoTick EXCEPT !.out = FreshTarget(StampOfPacket)]
           /\ hasRecent' = TRUE /\ lastTarget' = StampOfPacket
        \/ /\ tick' = [NoTick EXCEPT !.out = HoldTarget(TRUE)]
           /\ hasRecent' \in {FALSE, hasRecent} /\ lastTarget' = lastTarget
        \/ /\ tick' = [NoTick EXCEPT !.out = FreshTarget(lastTarget)]
           /\ hasRecent /\ hasRecent' = hasRecent /\ lastTarget' = lastTarget

(* PlannerDecide in its outcomes: what becomes of the tick and of the last target. *)
LEMMA DecideFact ==
  ASSUME TypeOK, DeadmanInv, PlannerDecide
  PROVE  Decided /\ anchor' = NoStamp
  <1> USE PolicyAssumption
  <1>1. CASE teleopState' = "Active"
    <2>1. HasTarget /\ tick.policy.enabled /\ DecideActive
      BY <1>1, DecideState, NoXrRehome DEF PlannerDecide, HasTarget
    <2>2. PICK outcome \in {"target", "unsafe", "ikFailed"}, inGrace \in BOOLEAN :
            /\ tick' = [NoTick EXCEPT !.out =
                          CASE outcome = "target" -> FreshTarget(TargetStamp)
                            [] outcome = "unsafe" -> HoldTarget(TRUE)
                            [] OTHER              -> ReuseOrHold(inGrace)]
            /\ hasRecent' = CASE outcome = "target" -> TRUE
                              [] outcome = "unsafe" -> FALSE
                              [] OTHER              -> hasRecent
            /\ lastTarget' = IF outcome = "target" THEN TargetStamp ELSE lastTarget
            /\ anchor' = IF outcome = "noTarget" THEN StampOfSnapshot ELSE anchor
      BY <2>1 DEF DecideActive
    <2>3. TargetStamp = StampOfPacket /\ anchor' = NoStamp
      BY <2>2 DEF TargetStamp, StampOfPacket, TypeOK
    <2>4. CASE outcome = "target"
      BY <2>1, <2>2, <2>3, <2>4 DEF Decided
    <2>5. CASE outcome = "unsafe"
      BY <2>1, <2>2, <2>3, <2>5 DEF Decided
    <2>6. CASE outcome = "ikFailed"
      <3>1. /\ tick' = [NoTick EXCEPT !.out = ReuseOrHold(inGrace)]
            /\ hasRecent' = hasRecent /\ lastTarget' = lastTarget
        BY <2>2, <2>6
      <3>2. CASE hasRecent /\ inGrace
        BY <2>1, <2>3, <3>1, <3>2 DEF Decided, ReuseOrHold
      <3>3. CASE ~(hasRecent /\ inGrace)
        BY <2>1, <2>3, <3>1, <3>3 DEF Decided, ReuseOrHold
      <3> QED BY <3>2, <3>3
    <2> QED BY <2>4, <2>5, <2>6
  <1>2. CASE teleopState' # "Active"
    <2>1. DecideInactive
      BY <1>2 DEF PlannerDecide
    <2> QED BY <2>1 DEF DecideInactive, Decided
  <1> QED BY <1>1, <1>2

-----------------------------------------------------------------------------
(* Type correctness.  The steps of the bridge's threads come first. *)

Typed == TypeOK /\ BridgeType

(* Typed, step by step: at the start, then for each part that takes a step. *)
LEMMA InitTyped == PolicyInit => Typed
  <1> SUFFICES ASSUME PolicyInit PROVE Typed
    OBVIOUS
  <1> USE BridgeAssumption, PolicyAssumption
  <1>1. /\ tick \in Tick /\ planned \in PlannedTarget /\ rtTarget \in PlannedTarget
        /\ job \in Job /\ lastTarget \in Stamp /\ towards \in Stamp
        /\ chunk \in Poses /\ smoothed \in Poses /\ zi \in Nat
    BY RecordType, TickType DEF PolicyInit, Init
  <1>2. policyAction \in PolicyActionCommand
    BY DEF PolicyInit, Init, NoPolicyAction, PolicyActionCommand, GripperCommand
  <1>3. {paused, rehomePause, early} \subseteq BOOLEAN /\ reflex \in BOOLEAN
    BY DEF PolicyInit, Init
  <1>4. /\ settled \in 0..SettleCycles /\ inhibit \in 0..Inhibited
        /\ requestId \in 0..MaxRequests /\ retries \in 0..Repeat /\ obs \in 0..homed
        /\ homed \in Nat
    BY DEF PolicyInit, Init, Inhibited
  <1>5. /\ robotState \in RobotSnapshot
        /\ desiredGripper \in [command : GripperCommand, seen : Nat]
        /\ ppc \in PlannerPC /\ rpc \in RtPC /\ mpc \in MainPC
        /\ teleopState \in TeleopState /\ anchor = NoStamp
        /\ pendingPolicy \in Nat /\ donePolicy \in Nat
    BY DEF PolicyInit, Init, RobotSnapshot, GripperCommand, PlannerPC, RtPC, MainPC, TeleopState
  <1>6. requested = 0 /\ completed = 0 /\ ~inProgress /\ seen = 0 /\ pending = 0
    BY DEF PolicyInit, Init
  <1> QED BY <1>1, <1>2, <1>3, <1>4, <1>5, <1>6 DEF Typed, TypeOK, BridgeType, Tick

(* Typed: a step of the planner. *)
LEMMA PlannerTyped ==
  ASSUME Typed, DeadmanInv, Planner, UNCHANGED <<runner, lost, early>>
  PROVE  Typed'
  <1> USE PolicyAssumption DEF Typed, TypeOK, BridgeType, shared, runner, rt, main, arm
  <1>1. CASE PlannerRead
    <2>1. tick' \in Tick
      BY <1>1, TickType DEF PlannerRead
    <2> QED BY <1>1, <2>1 DEF PlannerRead, PlannerPC, Tick
  <1>2. CASE PlannerLoadCompleted
    BY <1>2 DEF PlannerLoadCompleted, PlannerPC
  <1>3. CASE PlannerInput
    <2>1. PICK healthy \in BOOLEAN :
            tick' = [tick EXCEPT !.healthy = healthy, !.gripper = tick.policy.gripper]
      BY <1>3 DEF PlannerInput, PlannerInputPolicy
    <2>2. tick' \in Tick
      BY <2>1 DEF Tick, PolicyActionCommand
    <2> QED BY <1>3, <2>2 DEF PlannerInput, PlannerInputPolicy, PlannerPC, Tick
  <1>4. CASE PlannerDecide
    <2>1. Decided /\ anchor' = NoStamp /\ teleopState' \in TeleopState
      BY <1>4, DecideFact, DecideState
    <2>2. StampOfPacket \in Stamp
      BY RecordType DEF StampOfPacket, PolicyActionCommand
    <2>3. tick' \in Tick /\ lastTarget' \in Stamp
      <3>1. \A out \in {HoldTarget(FALSE), HoldTarget(TRUE), FreshTarget(StampOfPacket),
                        FreshTarget(lastTarget)} : [NoTick EXCEPT !.out = out] \in Tick
        BY <2>2, RecordType, TickType
      <3>2. lastTarget \in Stamp
        OBVIOUS
      <3> QED BY ONLY <2>1, <2>2, <3>1, <3>2 DEF Decided
    <2>4. desiredGripper' \in [command : GripperCommand, seen : Nat]
      BY <1>4 DEF PlannerDecide
    <2>5. ppc' \in PlannerPC
      BY <1>4 DEF PlannerDecide, PlannerPC
    <2> QED BY <1>4, <2>1, <2>3, <2>4, <2>5 DEF PlannerDecide, Tick
  <1>5. CASE PlannerPublish
    <2>1. inhibit' \in 0..Inhibited
      BY <1>5, BridgeAssumption DEF PlannerPublish, Inhibited
    <2> QED BY <1>5, <2>1, TickType DEF PlannerPublish, PlannerPC, Tick
  <1>6. CASE PlannerExit
    BY <1>6 DEF PlannerExit, PlannerPC
  <1> QED BY <1>1, <1>2, <1>3, <1>4, <1>5, <1>6 DEF Planner

(* Typed: a step of the callback. *)
LEMMA RtTyped ==
  ASSUME Typed, RtCallback, UNCHANGED <<runner, lost, early>>
  PROVE  Typed'
  <1> USE PolicyAssumption DEF Typed, TypeOK, BridgeType, shared, runner, planner, main, arm
  <1>1. CASE RtBegin
    <2>1. robotState' \in RobotSnapshot
      BY <1>1, RecordType DEF RtBegin
    <2>2. pendingPolicy' \in Nat
      BY <1>1 DEF RtBegin, LatchedPolicy, PolicyActionCommand
    <2> QED BY <1>1, <2>1, <2>2 DEF RtBegin, RtPC
  <1>2. CASE RtEnd
    <2>1. towards' \in Stamp /\ rtTarget' \in PlannedTarget
      BY <1>2, RecordType DEF RtEnd, PlannedTarget
    <2>2. settled' \in 0..SettleCycles
      <3>1. SettledCycles \in Nat /\ (SettledCycles # 0 => RehomePending)
        BY DEF SettledCycles
      <3>2. CASE ControlEnds
        BY <1>2, <3>2, BridgeAssumption DEF RtEnd
      <3>3. CASE ~ControlEnds
        <4>1. settled' = SettledCycles
          BY <1>2, <3>3 DEF RtEnd
        <4>2. SettledCycles < SettleCycles \/ SettledCycles = 0
          BY <3>1, <3>3, BridgeAssumption DEF ControlEnds
        <4> QED BY <3>1, <4>1, <4>2, BridgeAssumption
      <3> QED BY <3>2, <3>3
    <2>3. pending' = 0
      BY <1>2 DEF RtEnd, LatchedPending
    <2>4. mpc' \in MainPC /\ rpc' \in RtPC
      BY <1>2 DEF RtEnd, MainPC, RtPC
    <2> QED BY <1>2, <2>1, <2>2, <2>3, <2>4 DEF RtEnd
  <1> QED BY <1>1, <1>2 DEF RtCallback

(* Typed: a step of the main thread. *)
LEMMA MainTyped ==
  ASSUME Typed, RequestInv, MainThread, UNCHANGED <<runner, lost, early>>
  PROVE  Typed'
  <1> USE PolicyAssumption DEF Typed, TypeOK, BridgeType, shared, runner, planner, rt, arm
  <1>1. Inhibited \in 0..Inhibited /\ 0 \in 0..SettleCycles
    BY BridgeAssumption DEF Inhibited
  <1>2. CASE StartRehome
    <2>1. job' \in Job /\ mpc' \in MainPC
      BY <1>2, RecordType DEF StartRehome, MainPC
    <2>2. pendingPolicy # 0 /\ inProgress' = inProgress /\ pendingPolicy' = 0
      BY <1>2 DEF StartRehome, RequestInv
    <2> QED BY <1>2, <2>1, <2>2 DEF StartRehome
  <1>3. CASE FinishRoute
    BY <1>3 DEF FinishRoute, MainPC
  <1>4. CASE AbandonRoute
    <2>1. inProgress' = inProgress
      BY <1>4 DEF AbandonRoute, RequestInv
    <2> QED BY <1>4, <2>1 DEF AbandonRoute, MainPC
  <1>5. CASE OpenGripper
    <2>1. /\ desiredGripper' \in [command : GripperCommand, seen : Nat]
          /\ donePolicy' \in Nat /\ inhibit' \in 0..Inhibited
      BY <1>1, <1>5, RecordType DEF OpenGripper, DonePolicy, GripperCommand, Job
    <2> QED BY <1>5, <2>1 DEF OpenGripper, MainPC
  <1>6. CASE PublishHome
    <2>1. robotState' \in RobotSnapshot
      BY <1>6, RecordType DEF PublishHome
    <2> QED BY <1>6, <2>1 DEF PublishHome, MainPC
  <1>7. CASE PublishHold
    <2>1. planned' \in PlannedTarget /\ job' \in Job /\ pending' = 0
          /\ mpc' \in MainPC /\ settled' \in 0..SettleCycles
      BY <1>1, <1>7, RecordType DEF PublishHold, Reenter, RequestInv, MainPC
    <2> QED BY <1>7, <2>1 DEF PublishHold
  <1>8. CASE RecoverReflex
    <2>1. job' \in Job /\ pending' = 0 /\ mpc' \in MainPC /\ settled' \in 0..SettleCycles
      BY <1>1, <1>8, RecordType DEF RecoverReflex, Reenter, MainPC
    <2> QED BY <1>1, <1>8, <2>1, RecordType DEF RecoverReflex
  <1>9. CASE ExitLoop
    BY <1>9 DEF ExitLoop, MainPC
  <1>10. ~CompleteRehome /\ ~ReleaseArm
    BY DEF CompleteRehome, ReleaseArm, RequestInv
  <1> QED BY <1>2, <1>3, <1>4, <1>5, <1>6, <1>7, <1>8, <1>9, <1>10 DEF MainThread

(* Typed: a reflex, a stop, an inhibit that expires. *)
LEMMA EnvironmentTyped ==
  ASSUME Typed, Environment, UNCHANGED <<runner, lost, early>>
  PROVE  Typed'
  <1> USE DEF Typed, TypeOK, BridgeType, shared, runner, planner, rt, main, arm
  <1>1. CASE ReflexTrips
    BY <1>1 DEF ReflexTrips
  <1>2. CASE InhibitExpires
    BY <1>2, BridgeAssumption DEF InhibitExpires, Inhibited
  <1>3. CASE PlannerThrows
    <2>1. tick' \in Tick /\ ppc' \in PlannerPC
      BY <1>3, TickType DEF PlannerThrows, PlannerPC
    <2> QED BY <1>3, <2>1 DEF PlannerThrows, Tick
  <1>4. CASE FatalException
    BY <1>4, RecordType DEF FatalException, MainPC
  <1>5. CASE RequestStop
    BY <1>5 DEF RequestStop
  <1> QED BY <1>1, <1>2, <1>3, <1>4, <1>5 DEF Environment

(* The filters put out an observation of those they hold and are fed. *)
LEMMA FilterSound ==
  ASSUME zi \in Nat, NEW base \in Nat, NEW held \in Filtered(base)
  PROVE  held \in Nat /\ (zi = base => held = base)
  BY DEF Filtered

(* What the runner sends is a packet, and an action it holds is of an      *)
(* observation.                                                            *)
LEMMA PacketType ==
  ASSUME Typed, NEW action \in NextAction
  PROVE  /\ action.base \in Nat /\ action.chunk \in Poses
         /\ Smooth(action.base) \in Nat
         /\ \A base \in Nat : Packet(action, base) \in PolicyActionCommand
  <1> USE DEF Typed, TypeOK, BridgeType
  <1>1. obs \in Nat /\ (chunk.base \in Nat) /\ smoothed.base \in Nat
    BY DEF Poses
  <1>2. /\ action.base \in Nat /\ action.chunk \in Poses
        /\ action.gripper \in GripperCommand
    <2>1. PausedGrippers \subseteq GripperCommand
      BY PolicyAssumption DEF PausedGrippers, GripperCommand
    <2>2. CASE paused
      BY <1>1, <2>1, <2>2 DEF NextAction
    <2>3. CASE ~paused
      <3>1. PICK c \in {From(obs)} \cup (IF chunk.some THEN {chunk} ELSE {}), g \in Grippers :
              action = [base |-> c.base, gripper |-> g, chunk |-> c]
        BY <2>3 DEF NextAction
      <3>2. c \in Poses
        BY <1>1, <3>1, RecordType
      <3> QED BY <3>1, <3>2, PolicyAssumption DEF Poses
    <2> QED BY <2>2, <2>3
  <1>3. Smooth(action.base) \in Nat
    BY <1>1, <1>2 DEF Smooth
  <1>4. requestId \in Nat /\ (retries > 0) \in BOOLEAN /\ (~paused /\ retries = 0) \in BOOLEAN
    BY PolicyAssumption
  <1> QED BY <1>2, <1>3, <1>4 DEF Packet, PolicyActionCommand

(* Typed: a step of the policy runner. *)
LEMMA RunnerTyped == Typed /\ Runner => Typed'
  <1> SUFFICES ASSUME Typed, Runner PROVE Typed'
    OBVIOUS
  <1> USE PolicyAssumption
      DEF Typed, TypeOK, BridgeType, vars, shared, planner, rt, main, arm, book
  <1>1. CASE PressPause
    BY <1>1, RecordType DEF PressPause
  <1>2. CASE PressRehome
    <2>1. requestId' \in 0..MaxRequests /\ retries' \in 0..Repeat
      BY <1>2 DEF PressRehome
    <2> QED BY <1>2, <2>1, RecordType DEF PressRehome
  <1>3. CASE PressResume
    <2>1. early' \in BOOLEAN
      BY <1>3, Zenon DEF PressResume, RehomeOver
    <2>2. paused' \in BOOLEAN /\ rehomePause' \in BOOLEAN
      BY <1>3, Zenon DEF PressResume
    <2> QED BY <1>3, <2>1, <2>2 DEF PressResume
  <1>4. CASE ObservationArrives
    BY <1>4 DEF ObservationArrives
  <1>5. CASE SendPacket
    <2>1. PICK action \in NextAction :
            /\ chunk' = action.chunk /\ smoothed' = From(Smooth(action.base))
            /\ zi' \in Filtered(Smooth(action.base))
            /\ policyAction' \in {policyAction, Packet(action, zi')}
      BY <1>5 DEF SendPacket, Deliver, Lose
    <2>2. zi' \in Nat
      BY <2>1, PacketType, FilterSound
    <2>3. chunk' \in Poses /\ smoothed' \in Poses /\ policyAction' \in PolicyActionCommand
      BY <2>1, <2>2, PacketType, RecordType
    <2>4. retries' \in 0..Repeat
      BY <1>5 DEF SendPacket, RetriesLeft
    <2> QED BY <1>5, <2>2, <2>3, <2>4 DEF SendPacket
  <1> QED BY <1>1, <1>2, <1>3, <1>4, <1>5 DEF Runner

(* Typed is kept by every step. *)
LEMMA TypedStep ==
  ASSUME Typed, DeadmanInv, RequestInv, [PolicyNext]_pvars
  PROVE  Typed'
  <1>1. CASE BridgeStep
    BY <1>1, PlannerTyped, RtTyped, MainTyped, EnvironmentTyped DEF BridgeStep
  <1>2. CASE UNCHANGED pvars
    BY <1>2 DEF pvars, vars, shared, planner, rt, main, arm, runner, book,
       Typed, TypeOK, BridgeType
  <1> QED BY <1>1, <1>2, RunnerTyped DEF PolicyNext

-----------------------------------------------------------------------------
(* Requests.  What the requests are about only the callback, the main      *)
(* thread and the runner change.                                           *)
LEMMA RequestStep ==
  ASSUME Typed, RequestInv, CycleInv, [PolicyNext]_pvars
  PROVE  RequestInv'
  <1>1. /\ donePolicy \in Nat /\ pendingPolicy \in Nat /\ requestId \in Nat
        /\ policyAction.id \in Nat /\ job.id \in Nat /\ homed \in Nat
    BY PolicyAssumption DEF Typed, TypeOK, BridgeType, PolicyActionCommand, Job
  <1> USE DEF shared, planner, rt, main, arm, runner
  <1>2. CASE /\ UNCHANGED <<donePolicy, requestId, pendingPolicy, policyAction, mpc, job, homed>>
             /\ stop => stop'
    BY <1>2 DEF RequestInv
  <1>3. CASE BridgeStep /\ Planner
    <2>1. UNCHANGED <<donePolicy, requestId, pendingPolicy, policyAction, mpc, job, homed, stop>>
      BY <1>3 DEF BridgeStep, Planner, PlannerRead, PlannerLoadCompleted, PlannerInput,
         PlannerInputXr, PlannerInputPolicy, PlannerDecide, PlannerPublish, PlannerExit
    <2> QED BY <1>2, <2>1
  <1>4. CASE BridgeStep /\ RtBegin
    <2>1. /\ UNCHANGED <<donePolicy, requestId, policyAction, mpc, job, homed, stop>>
          /\ mpc = "control" /\ pendingPolicy' = LatchedPolicy
      BY <1>4 DEF BridgeStep, RtBegin, Running
    <2>2. /\ pendingPolicy' <= policyAction.id
          /\ pendingPolicy' # 0 => pendingPolicy' > donePolicy
      BY <1>1, <2>1 DEF LatchedPolicy, NewPolicyRequest, RequestInv
    <2> QED BY <2>1, <2>2 DEF RequestInv
  <1>5. CASE BridgeStep /\ RtEnd
    <2>1. /\ UNCHANGED <<donePolicy, requestId, policyAction, pendingPolicy, job, homed, stop>>
          /\ mpc = "control" /\ mpc' = IF ControlEnds THEN "dispatch" ELSE "control"
      BY <1>5 DEF BridgeStep, RtEnd, Running
    <2>2. ControlEnds => stop \/ pendingPolicy # 0
      BY DEF ControlEnds, RehomePending, LatchedPending, Typed, TypeOK
    <2> QED BY <2>1, <2>2 DEF RequestInv
  <1>6. CASE BridgeStep /\ StartRehome
    <2>1. /\ UNCHANGED <<donePolicy, requestId, policyAction, homed>>
          /\ mpc = "dispatch" /\ mpc' = "route" /\ pendingPolicy # 0 /\ pendingPolicy' = 0
          /\ job' = [kind |-> "policy", id |-> pendingPolicy]
      BY <1>6 DEF BridgeStep, StartRehome, RequestInv
    <2> QED BY <1>1, <2>1 DEF RequestInv
  <1>7. CASE BridgeStep /\ FinishRoute
    <2>1. /\ UNCHANGED <<donePolicy, requestId, policyAction, pendingPolicy, job>>
          /\ mpc = "route" /\ mpc' = "openGripper" /\ homed' = homed + 1
      BY <1>7 DEF BridgeStep, FinishRoute
    <2> QED BY <1>1, <2>1 DEF RequestInv
  <1>8. CASE BridgeStep /\ (AbandonRoute \/ ExitLoop \/ FatalException)
    BY <1>8 DEF BridgeStep, AbandonRoute, ExitLoop, FatalException, RequestInv
  <1>9. CASE BridgeStep /\ OpenGripper
    <2>1. /\ UNCHANGED <<requestId, policyAction, pendingPolicy, job, homed>>
          /\ mpc = "openGripper" /\ mpc' = "publishHome" /\ donePolicy' = job.id
      BY <1>9 DEF BridgeStep, OpenGripper, DonePolicy, RequestInv
    <2> QED BY <1>1, <2>1 DEF RequestInv
  <1>10. CASE BridgeStep /\ PublishHome
    BY <1>10 DEF BridgeStep, PublishHome, RequestInv
  <1>11. CASE BridgeStep /\ (PublishHold \/ RecoverReflex)
    <2>1. /\ UNCHANGED <<donePolicy, requestId, policyAction, pendingPolicy, homed>>
          /\ mpc \in {"control", "route", "publishHold"}
          /\ mpc' \in {"control", "exited"} /\ job' = NoJob
      BY <1>11 DEF BridgeStep, PublishHold, RecoverReflex, Reenter, RequestInv
    <2> QED BY <2>1 DEF RequestInv
  <1>12. CASE BridgeStep /\ (CompleteRehome \/ ReleaseArm)
    BY <1>12 DEF CompleteRehome, ReleaseArm, RequestInv
  <1>13. CASE BridgeStep /\ (ReflexTrips \/ InhibitExpires \/ PlannerThrows \/ RequestStop)
    BY <1>2, <1>13 DEF BridgeStep, ReflexTrips, InhibitExpires, PlannerThrows, RequestStop
  <1>14. CASE PressPause \/ PressResume \/ ObservationArrives
    BY <1>2, <1>14 DEF PressPause, PressResume, ObservationArrives, vars
  <1>15. CASE PressRehome
    <2>1. UNCHANGED <<donePolicy, pendingPolicy, policyAction, mpc, job, homed, stop>>
          /\ requestId' = requestId + 1
      BY <1>15 DEF PressRehome, vars
    <2> QED BY <1>1, <2>1 DEF RequestInv
  <1>16. CASE SendPacket
    <2>1. /\ UNCHANGED <<donePolicy, requestId, pendingPolicy, mpc, job, homed, stop>>
          /\ policyAction'.id \in {policyAction.id, requestId}
      BY <1>16 DEF SendPacket, Deliver, Lose, Packet
    <2>2. policyAction.id <= policyAction'.id /\ policyAction'.id <= requestId
      BY <1>1, <2>1 DEF RequestInv
    <2>3. policyAction'.id \in Nat
      BY <1>1, <2>1
    <2>4. UNCHANGED <<donePolicy, requestId, pendingPolicy, mpc, job, homed, stop>>
      BY <2>1
    <2> QED BY <1>1, <2>2, <2>3, <2>4 DEF RequestInv
  <1>17. CASE UNCHANGED pvars
    BY <1>2, <1>17 DEF pvars, vars
  <1> QED
    BY <1>3, <1>4, <1>5, <1>6, <1>7, <1>8, <1>9, <1>10, <1>11, <1>12, <1>13, <1>14, <1>15,
       <1>16, <1>17
       DEF PolicyNext, BridgeStep, RtCallback, MainThread, Environment, Runner

(* CycleInv: the callback runs inside control() only. *)
LEMMA CycleStep ==
  ASSUME Typed, RequestInv, CycleInv, [PolicyNext]_pvars
  PROVE  CycleInv'
  <1> USE DEF shared, planner, rt, main, arm
  <1>1. rpc \in RtPC
    BY DEF Typed, TypeOK
  <1>2. CASE UNCHANGED <<rpc, rtTarget, towards, mpc>>
    BY <1>2 DEF CycleInv
  <1>3. CASE RtBegin
    BY <1>3 DEF RtBegin, Running, CycleInv
  <1>4. CASE RtEnd
    <2>1. /\ rpc' = "begin" /\ rtTarget' = HoldTarget(FALSE)
          /\ mpc' = IF ControlEnds THEN "dispatch" ELSE "control"
          /\ towards'.some => ~ControlEnds
      BY <1>4 DEF RtEnd, NoStamp
    <2> QED BY <2>1 DEF CycleInv, HoldTarget, Target
  <1>5. CASE \/ StartRehome \/ FinishRoute \/ AbandonRoute \/ OpenGripper \/ PublishHome
             \/ ExitLoop
    BY <1>1, <1>5 DEF StartRehome, FinishRoute, AbandonRoute, OpenGripper, PublishHome,
       ExitLoop, CycleInv, RtPC
  <1>6. CASE PublishHold \/ RecoverReflex \/ FatalException
    <2>1. /\ UNCHANGED <<rpc, rtTarget>> /\ rpc = "begin"
          /\ ~towards'.some
      <3>1. CASE PublishHold
        BY <1>1, <3>1 DEF PublishHold, CycleInv, RtPC
      <3>2. CASE RecoverReflex \/ FatalException
        BY <3>2 DEF RecoverReflex, FatalException, NoStamp
      <3> QED BY <1>6, <3>1, <3>2
    <2> QED BY <2>1 DEF CycleInv
  <1>7. CASE CompleteRehome \/ ReleaseArm
    BY <1>7 DEF CompleteRehome, ReleaseArm, RequestInv
  <1>8. CASE Planner
    BY <1>2, <1>8 DEF Planner, PlannerRead, PlannerLoadCompleted, PlannerInput,
       PlannerInputXr, PlannerInputPolicy, PlannerDecide, PlannerPublish, PlannerExit
  <1>9. CASE ReflexTrips \/ InhibitExpires \/ PlannerThrows \/ RequestStop
    BY <1>2, <1>9 DEF ReflexTrips, InhibitExpires, PlannerThrows, RequestStop
  <1>10. CASE Runner \/ UNCHANGED pvars
    BY <1>2, <1>10 DEF Runner, PressPause, PressRehome, PressResume, ObservationArrives,
       SendPacket, pvars, vars
  <1> QED
    BY <1>3, <1>4, <1>5, <1>6, <1>7, <1>8, <1>9, <1>10
       DEF PolicyNext, BridgeStep, RtCallback, MainThread, Environment

(* DeadmanInv: the latch of a policy is its packet. *)
LEMMA DeadmanStep ==
  ASSUME Typed, DeadmanInv, [PolicyNext]_pvars
  PROVE  DeadmanInv'
  <1> USE PolicyAssumption DEF shared, planner, rt, main, arm
  <1>1. CASE UNCHANGED <<ppc, deadmanLatched, tick>>
    BY <1>1 DEF DeadmanInv, HasTarget
  <1>2. CASE PlannerInput
    <2>1. PICK healthy \in BOOLEAN :
            /\ tick' = [tick EXCEPT !.healthy = healthy, !.gripper = tick.policy.gripper]
            /\ deadmanLatched' = (healthy /\ tick.policy.enabled /\ ~tick.policy.rehome)
      BY <1>2 DEF PlannerInput, PlannerInputPolicy
    <2>2. tick'.healthy = healthy /\ tick'.policy = tick.policy
      BY <2>1 DEF Typed, TypeOK
    <2>3. deadmanLatched' => HasTarget'
      BY <2>1, <2>2, Zenon DEF HasTarget
    <2> QED BY <2>3 DEF DeadmanInv
  <1>3. CASE \/ PlannerRead \/ PlannerLoadCompleted \/ PlannerDecide \/ PlannerPublish
             \/ PlannerExit \/ PlannerThrows
    BY <1>3 DEF PlannerRead, PlannerLoadCompleted, PlannerDecide, PlannerPublish,
       PlannerExit, PlannerThrows, DeadmanInv
  <1>4. CASE RtCallback \/ MainThread
    BY <1>1, <1>4 DEF RtCallback, RtBegin, RtEnd, MainThread, StartRehome, FinishRoute,
       AbandonRoute, OpenGripper, PublishHome, CompleteRehome, PublishHold, ReleaseArm,
       RecoverReflex, ExitLoop
  <1>5. CASE ReflexTrips \/ InhibitExpires \/ FatalException \/ RequestStop
    BY <1>1, <1>5 DEF ReflexTrips, InhibitExpires, FatalException, RequestStop
  <1>6. CASE Runner \/ UNCHANGED pvars
    BY <1>1, <1>6 DEF Runner, PressPause, PressRehome, PressResume, ObservationArrives,
       SendPacket, pvars, vars
  <1> QED BY <1>2, <1>3, <1>4, <1>5, <1>6 DEF PolicyNext, BridgeStep, Planner, Environment

-----------------------------------------------------------------------------
(* Staleness.  The arm is home again only after a packet that took motion  *)
(* away.                                                                   *)
LEMMA RouteDisables ==
  ASSUME Typed, RequestInv, RunnerInv, mpc \in {"route", "openGripper"}
  PROVE  /\ ~policyAction.enabled /\ donePolicy # requestId
         /\ paused /\ ~chunk.some
  <1>1. /\ donePolicy \in Nat /\ requestId \in Nat /\ policyAction.id \in Nat /\ job.id \in Nat
    BY PolicyAssumption DEF Typed, TypeOK, PolicyActionCommand, Job
  <1>2. /\ donePolicy < job.id /\ job.id <= policyAction.id /\ policyAction.id <= requestId
    BY DEF RequestInv
  <1> QED BY <1>1, <1>2 DEF RunnerInv

(* The bridge reads packets and changes nothing of the runner. *)
LEMMA BridgeKeepsRunner ==
  ASSUME BridgeStep
  PROVE  UNCHANGED <<policyAction, runner, early>>
  BY DEF BridgeStep, Planner, PlannerRead, PlannerLoadCompleted, PlannerInput,
     PlannerInputXr, PlannerInputPolicy, PlannerDecide, PlannerPublish, PlannerExit,
     RtCallback, RtBegin, RtEnd, MainThread, StartRehome, FinishRoute, AbandonRoute,
     OpenGripper, PublishHome, CompleteRehome, PublishHold, ReleaseArm, RecoverReflex,
     ExitLoop, Environment, ReflexTrips, InhibitExpires, PlannerThrows, FatalException,
     RequestStop, shared

(* Only a finished route counts homed, only OpenGripper a completion. *)
LEMMA HomedStep ==
  ASSUME [PolicyNext]_pvars
  PROVE  /\ homed' = homed \/ (FinishRoute /\ BridgeStep)
         /\ donePolicy' = donePolicy \/ (OpenGripper /\ BridgeStep)
  <1> USE DEF rt, main, arm, vars
  <1>1. CASE BridgeStep
    BY <1>1 DEF BridgeStep, Planner, PlannerRead, PlannerLoadCompleted, PlannerInput,
       PlannerInputXr, PlannerInputPolicy, PlannerDecide, PlannerPublish, PlannerExit,
       RtCallback, RtBegin, RtEnd, MainThread, StartRehome, FinishRoute, AbandonRoute,
       OpenGripper, PublishHome, CompleteRehome, PublishHold, ReleaseArm, RecoverReflex,
       ExitLoop, Environment, ReflexTrips, InhibitExpires, PlannerThrows, FatalException,
       RequestStop
  <1>2. CASE Runner \/ UNCHANGED pvars
    BY <1>2 DEF Runner, PressPause, PressRehome, PressResume, ObservationArrives,
       SendPacket, pvars
  <1> QED BY <1>1, <1>2 DEF PolicyNext

(* Nothing but a packet of the runner makes the planner's last one old,    *)
(* and no packet follows another before the planner has read it.           *)
LEMMA UnreadStep ==
  ASSUME BridgeStep, "planner" \in unread, ~PlannerRead
  PROVE  "planner" \in unread'
  <1>1. CASE ppc = "read" /\ ppc' = "loadCompleted"
    BY <1>1 DEF BridgeStep, Planner, PlannerRead, PlannerLoadCompleted, PlannerInput,
       PlannerInputXr, PlannerInputPolicy, PlannerDecide, PlannerPublish, PlannerExit,
       RtCallback, RtBegin, RtEnd, MainThread, StartRehome, FinishRoute, AbandonRoute,
       OpenGripper, PublishHome, CompleteRehome, PublishHold, ReleaseArm, RecoverReflex,
       ExitLoop, Environment, ReflexTrips, InhibitExpires, PlannerThrows, FatalException,
       RequestStop, planner
  <1>2. CASE ~(ppc = "read" /\ ppc' = "loadCompleted")
    BY <1>2 DEF BridgeStep
  <1> QED BY <1>1, <1>2

(* A packet that enables motion is sent only while the arm is as the       *)
(* runner has seen it.                                                     *)
LEMMA PacketCurrent ==
  ASSUME Typed, RunnerInv, NEW action \in NextAction
  PROVE  /\ ~paused => /\ action.chunk.some /\ action.chunk.base = homed
                       /\ Smooth(action.base) = homed
         /\ paused => action.chunk = chunk
         /\ \A base \in Nat :
              LET packet == Packet(action, base)
              IN  (packet.enabled => ~paused) /\ packet.id = requestId /\ packet.base = base
  <1>1. CASE paused
    <2>1. action.chunk = chunk
      BY <1>1 DEF NextAction
    <2> QED BY <1>1, <2>1 DEF Packet
  <1>2. CASE ~paused
    <2>1. PICK c \in {From(obs)} \cup (IF chunk.some THEN {chunk} ELSE {}), g \in Grippers :
            action = [base |-> c.base, gripper |-> g, chunk |-> c]
      BY <1>2 DEF NextAction
    <2>2. c.some /\ c.base = homed
      BY <1>2, <2>1 DEF From, RunnerInv
    <2>3. Smooth(action.base) = homed
      BY <1>2, <2>1, <2>2 DEF Smooth, RunnerInv, Typed, BridgeType
    <2> QED BY <1>2, <2>1, <2>2, <2>3 DEF Packet
  <1> QED BY <1>1, <1>2

(* RunnerInv: what an unpaused runner holds is of the arm as it is. *)
LEMMA RunnerStep ==
  ASSUME Typed, RequestInv, RunnerInv, [PolicyNext]_pvars, ~early'
  PROVE  RunnerInv'
  <1>1. CASE BridgeStep
    <2>1. UNCHANGED <<policyAction, runner>>
      BY <1>1, BridgeKeepsRunner
    <2>2. CASE homed' = homed /\ donePolicy' = donePolicy
      BY <2>1, <2>2 DEF RunnerInv, runner
    <2>3. CASE FinishRoute
      <3>1. mpc = "route" /\ donePolicy' = donePolicy
        BY <2>3 DEF FinishRoute, main
      <3> QED BY <2>1, <3>1, RouteDisables DEF RunnerInv, runner
    <2>4. CASE OpenGripper
      <3>1. mpc = "openGripper"
        BY <2>4 DEF OpenGripper
      <3> QED BY <2>1, <3>1, RouteDisables DEF RunnerInv, runner
    <2> QED BY <2>2, <2>3, <2>4, HomedStep
  <1>2. CASE Runner
    <2>1. homed' = homed /\ donePolicy' = donePolicy
      BY <1>2 DEF Runner, PressPause, PressRehome, PressResume, ObservationArrives,
         SendPacket, vars, main, arm
    <2>2. CASE PressPause
      BY <2>1, <2>2 DEF PressPause, RunnerInv, NoPoses, vars, shared
    <2>3. CASE PressRehome
      BY <2>1, <2>3 DEF PressRehome, RunnerInv, NoPoses, vars, shared
    <2>4. CASE PressResume
      <3>1. RehomeOver
        BY <2>4, Zenon DEF PressResume
      <3> QED BY <2>1, <2>4, <3>1 DEF PressResume, RehomeOver, RunnerInv, vars, shared
    <2>5. CASE ObservationArrives
      BY <2>1, <2>5 DEF ObservationArrives, RunnerInv, vars, shared
    <2>6. CASE SendPacket
      <3>1. PICK action \in NextAction :
              /\ chunk' = action.chunk /\ smoothed' = From(Smooth(action.base))
              /\ zi' \in Filtered(Smooth(action.base))
              /\ policyAction' \in {policyAction, Packet(action, zi')}
        BY <2>6 DEF SendPacket, Deliver, Lose
      <3>2. UNCHANGED <<paused, requestId, obs>>
        BY <2>6 DEF SendPacket
      <3>3. chunk'.some => donePolicy = requestId /\ chunk'.base = homed
        BY <3>1, PacketCurrent DEF RunnerInv
      <3>4. ~paused => smoothed'.base = homed
        BY <3>1, PacketCurrent DEF From
      <3>5. zi' \in Nat
        BY <3>1, PacketType, FilterSound DEF Typed, TypeOK
      <3>6. ~paused => zi' = homed
        BY <3>1, PacketCurrent, PacketType, FilterSound DEF RunnerInv, Typed, TypeOK
      <3>7. policyAction'.enabled => policyAction'.id <= donePolicy /\ policyAction'.base = homed
        <4>1. requestId <= requestId
          BY PolicyAssumption DEF Typed, TypeOK
        <4>2. CASE policyAction' = policyAction
          BY <4>2 DEF RunnerInv
        <4>3. CASE policyAction' = Packet(action, zi')
          BY <3>5, <3>6, <4>1, <4>3, PacketCurrent DEF RunnerInv
        <4> QED BY <3>1, <4>2, <4>3
      <3> QED BY <2>1, <3>2, <3>3, <3>4, <3>6, <3>7 DEF RunnerInv
    <2> QED BY <1>2, <2>2, <2>3, <2>4, <2>5, <2>6 DEF Runner
  <1>3. CASE UNCHANGED pvars
    BY <1>3 DEF pvars, vars, shared, main, arm, runner, RunnerInv
  <1> QED BY <1>1, <1>2, <1>3 DEF PolicyNext

(* What is current stays so until the planner reads.                       *)
CurrentNext(base) ==
  IF policyAction'.enabled THEN base = homed' ELSE "planner" \in unread'

(* A base that is current stays so unless the planner reads a packet. *)
LEMMA CurrentStep ==
  ASSUME Typed, RequestInv, RunnerInv, [PolicyNext]_pvars, ~PlannerRead
  PROVE  \A base \in Nat : Current(base) => CurrentNext(base)
  <1>1. CASE BridgeStep
    <2>1. policyAction' = policyAction
      BY <1>1, BridgeKeepsRunner
    <2>2. CASE policyAction.enabled
      <3>1. ~FinishRoute
        BY <2>2, RouteDisables DEF FinishRoute
      <3> QED BY <2>1, <2>2, <3>1, HomedStep DEF Current, CurrentNext
    <2>3. CASE ~policyAction.enabled
      BY <1>1, <2>1, <2>3, UnreadStep DEF Current, CurrentNext
    <2> QED BY <2>2, <2>3
  <1>2. CASE PressPause \/ PressRehome \/ PressResume \/ ObservationArrives \/ UNCHANGED pvars
    <2>1. UNCHANGED <<policyAction, unread, homed>>
      BY <1>2 DEF PressPause, PressRehome, PressResume, ObservationArrives, pvars, vars,
         shared, arm, book
    <2> QED BY <2>1 DEF Current, CurrentNext
  <1>3. CASE SendPacket
    <2>1. homed' = homed /\ "planner" \notin unread
      BY <1>3 DEF SendPacket, PacketDue, arm
    <2>2. \/ "planner" \in unread'
          \/ policyAction' = policyAction
      BY <1>3 DEF SendPacket, Deliver, Lose
    <2> QED BY <2>1, <2>2 DEF Current, CurrentNext
  <1> QED BY <1>1, <1>2, <1>3 DEF PolicyNext, Runner

(* The stamps the planner works with are numbers. *)
LEMMA StampTypes ==
  Typed => /\ tick.policy.base \in Nat /\ tick.policy.id \in Nat
           /\ tick.out.stamp.base \in Nat /\ lastTarget.base \in Nat
           /\ tick \in Tick /\ StampOfPacket.base = tick.policy.base
  BY DEF Typed, TypeOK, PolicyActionCommand, PlannedTarget, Stamp, Tick, StampOfPacket, StampOf

(* What a decision leaves behind. *)
LEMMA DecidedFact ==
  ASSUME Typed, Decided
  PROVE  /\ tick'.out.fresh => /\ tick.policy.enabled
                               /\ \/ tick'.out.stamp.base = tick.policy.base
                                  \/ hasRecent /\ tick'.out.stamp.base = lastTarget.base
         /\ hasRecent' => /\ tick.policy.enabled
                          /\ \/ lastTarget'.base = tick.policy.base
                             \/ hasRecent /\ lastTarget' = lastTarget
  <1>1. \A out : [NoTick EXCEPT !.out = out].out = out
    BY DEF NoTick
  <1>2. CASE /\ tick' = [NoTick EXCEPT !.out = HoldTarget(FALSE)]
             /\ hasRecent' = FALSE /\ lastTarget' = lastTarget
    BY <1>1, <1>2 DEF HoldTarget, Target
  <1>3. CASE /\ tick.policy.enabled
             /\ tick' = [NoTick EXCEPT !.out = FreshTarget(StampOfPacket)]
             /\ hasRecent' = TRUE /\ lastTarget' = StampOfPacket
    BY <1>1, <1>3, StampTypes DEF FreshTarget, Target
  <1>4. CASE /\ tick.policy.enabled
             /\ tick' = [NoTick EXCEPT !.out = HoldTarget(TRUE)]
             /\ hasRecent' \in {FALSE, hasRecent} /\ lastTarget' = lastTarget
    <2>1. ~tick'.out.fresh
      BY <1>1, <1>4 DEF HoldTarget, Target
    <2>2. CASE hasRecent' = FALSE
      BY <1>4, <2>1, <2>2
    <2>3. CASE hasRecent' = hasRecent
      BY <1>4, <2>1, <2>3, Zenon
    <2> QED BY <1>4, <2>2, <2>3
  <1>5. CASE /\ tick.policy.enabled
             /\ tick' = [NoTick EXCEPT !.out = FreshTarget(lastTarget)]
             /\ hasRecent /\ hasRecent' = hasRecent /\ lastTarget' = lastTarget
    BY <1>1, <1>5 DEF FreshTarget, Target
  <1> QED BY <1>2, <1>3, <1>4, <1>5 DEF Decided

(* PlannerInv: what the planner works with is current. *)
LEMMA PlannerStep ==
  ASSUME Typed, RequestInv, RunnerInv, DeadmanInv, PlannerInv, [PolicyNext]_pvars
  PROVE  PlannerInv'
  <1> USE PolicyAssumption DEF shared, planner, rt, main, arm
  <1>1. CASE PlannerRead /\ BridgeStep
    <2>1. /\ UNCHANGED <<policyAction, homed, hasRecent, lastTarget>>
          /\ ppc = "read" /\ ppc' = "loadCompleted"
          /\ tick'.policy = policyAction
      BY <1>1 DEF PlannerRead, NoTick
    <2>2. policyAction.enabled => policyAction.base = homed
      BY DEF RunnerInv
    <2>3. hasRecent => Current(lastTarget.base)
      BY <2>1 DEF PlannerInv, InTick
    <2> QED BY <2>1, <2>2, <2>3 DEF PlannerInv, InTick, Current
  <1> DEFINE Kept == \A base \in Nat : Current(base) => CurrentNext(base)
  <1>2. ~PlannerRead => Kept
    BY CurrentStep
  <1>3. /\ tick.policy.base \in Nat /\ tick.out.stamp.base \in Nat /\ lastTarget.base \in Nat
        /\ tick \in Tick
    BY StampTypes
  <1>4. CASE UNCHANGED <<ppc, tick, hasRecent, lastTarget>> /\ ~PlannerRead
    <2> HIDE DEF Kept
    <2>1. Kept
      BY <1>2, <1>4
    <2> QED BY <1>3, <1>4, <2>1 DEF Kept, PlannerInv, InTick, Current, CurrentNext
  <1>5. CASE PlannerLoadCompleted \/ PlannerInput
    <2>1. Kept
      BY <1>2, <1>5 DEF PlannerLoadCompleted, PlannerInput, PlannerInputPolicy, PlannerRead
    <2>2. UNCHANGED <<hasRecent, lastTarget>> /\ tick'.policy = tick.policy
      <3>1. CASE PlannerLoadCompleted
        BY <3>1 DEF PlannerLoadCompleted, Typed, TypeOK
      <3>2. CASE PlannerInput
        BY <1>3, <3>2 DEF PlannerInput, PlannerInputPolicy, Tick
      <3> QED BY <1>5, <3>1, <3>2
    <2>3. InTick /\ InTick' /\ ppc' # "publish" /\ ppc # "exited"
      BY <1>5 DEF PlannerLoadCompleted, PlannerInput, PlannerInputPolicy, InTick
    <2> QED BY <1>3, <2>1, <2>2, <2>3 DEF PlannerInv, Current, CurrentNext
  <1>6. CASE PlannerDecide
    <2>1. Kept
      BY <1>2, <1>6 DEF PlannerDecide, PlannerRead
    <2>2. ppc = "decide" /\ ppc' = "publish" /\ Decided
      BY <1>6, DecideFact DEF PlannerDecide, Typed
    <2>3. /\ tick.policy.enabled => CurrentNext(tick.policy.base)
          /\ tick.policy.enabled /\ hasRecent => CurrentNext(lastTarget.base)
      BY <1>3, <2>1, <2>2 DEF PlannerInv, InTick
    <2>4. /\ tick'.out.fresh => CurrentNext(tick'.out.stamp.base)
          /\ hasRecent' => CurrentNext(lastTarget'.base)
      BY <2>2, <2>3, DecidedFact
    <2> QED BY <2>2, <2>4 DEF PlannerInv, InTick, Current, CurrentNext
  <1>7. CASE PlannerPublish
    <2>1. Kept /\ ppc = "publish" /\ ppc' = "read" /\ UNCHANGED <<hasRecent, lastTarget>>
      BY <1>2, <1>7 DEF PlannerPublish, PlannerRead
    <2> QED BY <1>3, <2>1 DEF PlannerInv, InTick, Current, CurrentNext
  <1>8. CASE PlannerExit \/ PlannerThrows
    BY <1>8 DEF PlannerExit, PlannerThrows, PlannerInv, InTick
  <1>9. CASE RtCallback \/ MainThread
    BY <1>4, <1>9 DEF RtCallback, RtBegin, RtEnd, MainThread, StartRehome, FinishRoute,
       AbandonRoute, OpenGripper, PublishHome, CompleteRehome, PublishHold, ReleaseArm,
       RecoverReflex, ExitLoop, PlannerRead
  <1>10. CASE ReflexTrips \/ InhibitExpires \/ FatalException \/ RequestStop
    BY <1>4, <1>10 DEF ReflexTrips, InhibitExpires, FatalException, RequestStop, PlannerRead
  <1>11. CASE Runner \/ UNCHANGED pvars
    <2>1. UNCHANGED <<ppc, tick, hasRecent, lastTarget>>
      BY <1>11 DEF Runner, PressPause, PressRehome, PressResume, ObservationArrives,
         SendPacket, pvars, vars
    <2>2. ~PlannerRead
      BY <2>1 DEF PlannerRead
    <2> QED BY <1>4, <2>1, <2>2
  <1> QED
    BY <1>1, <1>5, <1>6, <1>7, <1>8, <1>9, <1>10, <1>11
       DEF PolicyNext, BridgeStep, Planner, Environment

(* StaleInv: a target of before is gone when the inhibit is. *)
LEMMA StaleStep ==
  ASSUME Typed, RequestInv, CycleInv, RunnerInv, DeadmanInv, PlannerInv, StaleInv,
         [PolicyNext]_pvars
  PROVE  StaleInv'
  <1> USE PolicyAssumption DEF shared, planner, rt, main, arm
  <1>1. /\ InhibitTicks \in Nat /\ InhibitTicks >= 2 /\ Inhibited = InhibitTicks + 1
        /\ inhibit \in Nat /\ rpc \in RtPC
    BY BridgeAssumption, InhibitAssumption DEF Inhibited, Typed, TypeOK
  <1>2. CASE UNCHANGED <<ppc, tick, hasRecent, lastTarget, homed, inhibit, planned, rtTarget,
                         towards>> /\ (mpc' = mpc \/ mpc \notin {"openGripper", "exited"})
    BY <1>2 DEF StaleInv, OldTick, InTick
  <1>3. CASE PlannerRead
    <2>1. /\ UNCHANGED <<homed, hasRecent, lastTarget, mpc, inhibit, planned, rtTarget, towards>>
          /\ ppc = "read" /\ ppc' = "loadCompleted"
          /\ tick'.policy = policyAction
      BY <1>3 DEF PlannerRead, NoTick
    <2>2. ~OldTick'
      <3>1. policyAction.enabled => policyAction.base = homed
        BY DEF RunnerInv
      <3>2. policyAction.enabled /\ hasRecent => lastTarget.base = homed
        BY <2>1 DEF PlannerInv, InTick, Current
      <3> QED BY <2>1, <3>1, <3>2 DEF OldTick, InTick
    <2> QED BY <2>1, <2>2 DEF StaleInv
  <1>4. CASE PlannerLoadCompleted \/ PlannerInput
    <2>1. UNCHANGED <<homed, hasRecent, lastTarget, mpc, inhibit, planned, rtTarget, towards>>
          /\ tick'.policy = tick.policy
      <3>1. CASE PlannerLoadCompleted
        BY <3>1 DEF PlannerLoadCompleted, Typed, TypeOK
      <3>2. CASE PlannerInput
        BY <3>2, StampTypes DEF PlannerInput, PlannerInputPolicy, Tick
      <3> QED BY <1>4, <3>1, <3>2
    <2>2. InTick /\ InTick' /\ ppc' # "publish"
      BY <1>4 DEF PlannerLoadCompleted, PlannerInput, PlannerInputPolicy, InTick
    <2>3. OldTick' => OldTick
      BY <2>1, <2>2 DEF OldTick
    <2> QED BY <2>1, <2>3 DEF StaleInv
  <1>5. CASE PlannerDecide
    <2>1. ppc = "decide" /\ ppc' = "publish" /\ Decided
          /\ UNCHANGED <<homed, mpc, inhibit, planned, rtTarget, towards>>
      BY <1>5, DecideFact DEF PlannerDecide, Typed
    <2>2. OldTick' => OldTick
      <3>1. OldTick' => tick'.out.fresh /\ tick'.out.stamp.base # homed
        BY <2>1 DEF OldTick, InTick
      <3>2. tick'.out.fresh =>
              /\ tick.policy.enabled
              /\ \/ tick'.out.stamp.base = tick.policy.base
                 \/ hasRecent /\ tick'.out.stamp.base = lastTarget.base
        BY <2>1, DecidedFact
      <3> QED BY <2>1, <3>1, <3>2 DEF OldTick, InTick
    <2> QED BY <2>1, <2>2 DEF StaleInv
  <1>6. CASE PlannerPublish
    <2>1. /\ ppc = "publish" /\ ppc' = "read" /\ planned' = tick.out
          /\ inhibit' = IF inhibit > 1 THEN inhibit - 1 ELSE inhibit
          /\ UNCHANGED <<homed, mpc, rtTarget, towards>>
      BY <1>6 DEF PlannerPublish
    <2>2. ~OldTick'
      BY <2>1 DEF OldTick, InTick
    <2>3. planned'.fresh /\ planned'.stamp.base # homed =>
            mpc \in {"openGripper", "exited"} \/ inhibit = Inhibited
      BY <2>1 DEF StaleInv, OldTick
    <2>4. (inhibit = Inhibited => inhibit' >= 2) /\ (inhibit # 0 => inhibit' # 0)
      BY <1>1, <2>1
    <2> QED BY <2>1, <2>2, <2>3, <2>4 DEF StaleInv
  <1>7. CASE PlannerExit \/ PlannerThrows
    <2>1. ~OldTick'
      BY <1>7 DEF PlannerExit, PlannerThrows, OldTick, InTick
    <2> QED BY <1>7, <2>1 DEF PlannerExit, PlannerThrows, StaleInv
  <1>8. CASE RtBegin
    <2>1. /\ UNCHANGED <<ppc, tick, hasRecent, lastTarget, homed, inhibit, planned, mpc, towards>>
          /\ rtTarget' = planned /\ mpc = "control"
      BY <1>8 DEF RtBegin, Running
    <2>2. inhibit >= 2 => inhibit # 0
      BY <1>1
    <2> QED BY <2>1, <2>2 DEF StaleInv, OldTick, InTick
  <1>9. CASE RtEnd
    <2>1. /\ UNCHANGED <<ppc, tick, hasRecent, lastTarget, homed, inhibit, planned>>
          /\ rtTarget' = HoldTarget(FALSE) /\ mpc = "control"
      BY <1>9 DEF RtEnd, Running
    <2>2. PICK obstructed \in BOOLEAN :
            towards' = IF ApplyMotion(obstructed) /\ ~ControlEnds THEN rtTarget.stamp ELSE NoStamp
      BY <1>9 DEF RtEnd
    <2>3. towards'.some => towards'.base = homed
      BY <2>2 DEF ApplyMotion, NoStamp, StaleInv
    <2> QED BY <2>1, <2>3 DEF StaleInv, OldTick, InTick, HoldTarget, Target
  <1>10. CASE StartRehome \/ PublishHome
    BY <1>2, <1>10 DEF StartRehome, PublishHome
  <1>11. CASE FinishRoute
    <2>1. /\ mpc = "route" /\ mpc' = "openGripper"
          /\ UNCHANGED <<rpc, rtTarget, towards>>
      BY <1>11 DEF FinishRoute
    <2>2. ~rtTarget.fresh /\ ~towards.some
      BY <1>1, <2>1 DEF CycleInv, RtPC
    <2> QED BY <2>1, <2>2 DEF StaleInv
  <1>12. CASE AbandonRoute \/ ExitLoop
    BY <1>12 DEF AbandonRoute, ExitLoop, StaleInv
  <1>13. CASE OpenGripper
    <2>1. /\ inhibit' = Inhibited
          /\ UNCHANGED <<homed, planned, rtTarget, towards>>
      BY <1>13 DEF OpenGripper, RequestInv
    <2> QED BY <1>1, <2>1 DEF StaleInv
  <1>14. CASE PublishHold
    <2>1. /\ UNCHANGED <<ppc, tick, hasRecent, lastTarget, homed, inhibit, rtTarget, towards>>
          /\ planned' = HoldTarget(FALSE) /\ mpc = "publishHold"
      BY <1>14 DEF PublishHold
    <2> QED BY <2>1 DEF StaleInv, OldTick, InTick, HoldTarget, Target
  <1>15. CASE RecoverReflex
    <2>1. /\ inhibit' = Inhibited /\ towards' = NoStamp
          /\ UNCHANGED <<homed, planned, rtTarget>>
      BY <1>15 DEF RecoverReflex
    <2> QED BY <1>1, <2>1 DEF StaleInv, NoStamp
  <1>16. CASE FatalException
    <2>1. /\ mpc' = "exited" /\ towards' = NoStamp
          /\ UNCHANGED <<homed, inhibit, rtTarget>>
      BY <1>16 DEF FatalException
    <2> QED BY <2>1 DEF StaleInv, NoStamp
  <1>17. CASE InhibitExpires
    <2>1. /\ UNCHANGED <<ppc, tick, hasRecent, lastTarget, homed, planned, rtTarget, towards, mpc>>
          /\ mpc = "control" /\ rpc = "begin" /\ inhibit = 1
      BY <1>17 DEF InhibitExpires, Running
    <2>2. ~rtTarget.fresh
      BY <2>1 DEF CycleInv
    <2>3. ~OldTick /\ ~(planned.fresh /\ planned.stamp.base # homed)
      BY <1>1, <2>1 DEF StaleInv
    <2> QED BY <2>1, <2>2, <2>3 DEF StaleInv, OldTick, InTick
  <1>18. CASE ReflexTrips \/ RequestStop
    BY <1>2, <1>18 DEF ReflexTrips, RequestStop
  <1>19. CASE CompleteRehome \/ ReleaseArm
    BY <1>19 DEF CompleteRehome, ReleaseArm, RequestInv
  <1>20. CASE Runner \/ UNCHANGED pvars
    BY <1>2, <1>20 DEF Runner, PressPause, PressRehome, PressResume, ObservationArrives,
       SendPacket, pvars, vars
  <1> QED
    BY <1>3, <1>4, <1>5, <1>6, <1>7, <1>8, <1>9, <1>10, <1>11, <1>12, <1>13, <1>14, <1>15,
       <1>16, <1>17, <1>18, <1>19, <1>20
       DEF PolicyNext, BridgeStep, Planner, RtCallback, MainThread, Environment

-----------------------------------------------------------------------------
(* The invariant holds at the start. *)
LEMMA InitIInv == PolicyInit => IInv
  <1> SUFFICES ASSUME PolicyInit PROVE IInv
    OBVIOUS
  <1>1. Typed
    BY InitTyped
  <1>2. RequestInv /\ CycleInv /\ DeadmanInv
    BY DEF PolicyInit, Init, RequestInv, CycleInv, DeadmanInv, NoPolicyAction, HoldTarget,
       Target, NoStamp
  <1>3. RunnerInv /\ PlannerInv /\ StaleInv
    <2>1. ppc = "read" /\ ~hasRecent /\ ~planned.fresh /\ ~rtTarget.fresh /\ ~towards.some
      BY DEF PolicyInit, Init, HoldTarget, Target, NoStamp
    <2>2. RunnerInv
      BY DEF PolicyInit, Init, RunnerInv, NoPoses, NoPolicyAction
    <2> QED BY <2>1, <2>2 DEF PlannerInv, StaleInv, OldTick, InTick
  <1> QED BY <1>1, <1>2, <1>3 DEF Typed, IInv

(* Once the operator has resumed early, so it stays. *)
LEMMA EarlyStays == [PolicyNext]_pvars /\ early => early'
  BY DEF PolicyNext, BridgeStep, Runner, PressPause, PressRehome, PressResume,
     ObservationArrives, SendPacket, book, pvars

(* The inductive invariant: requests, runner, planner and callback together. *)
THEOREM Invariance == PolicySpec => []IInv
  <1>1. IInv /\ [PolicyNext]_pvars => IInv'
    <2> SUFFICES ASSUME IInv, [PolicyNext]_pvars PROVE IInv'
      OBVIOUS
    <2>1. Typed /\ RequestInv /\ CycleInv /\ DeadmanInv
      BY DEF IInv, Typed
    <2>2. Typed' /\ RequestInv' /\ CycleInv' /\ DeadmanInv'
      BY <2>1, TypedStep, RequestStep, CycleStep, DeadmanStep
    <2>3. ASSUME ~early' PROVE RunnerInv' /\ PlannerInv' /\ StaleInv'
      <3>1. RunnerInv /\ PlannerInv /\ StaleInv
        BY <2>3, EarlyStays DEF IInv
      <3> QED BY <2>1, <2>3, <3>1, RunnerStep, PlannerStep, StaleStep
    <2> QED BY <2>2, <2>3 DEF IInv, Typed
  <1> QED BY InitIInv, <1>1, PTL DEF PolicySpec

(* Every variable of the bridge and the runner keeps its type, and nothing *)
(* of the XR controller's protocol is ever in use.                         *)
THEOREM TypeCorrect == PolicySpec => []TypeOK
  <1>1. IInv => TypeOK
    BY DEF IInv
  <1> QED BY Invariance, <1>1, PTL

(* However many packets repeat a request, it sends the arm home once.      *)
THEOREM RoutesMatchRequests == PolicySpec => []OneRoutePerRequest
  <1>1. IInv => OneRoutePerRequest
    BY DEF IInv, RequestInv, OneRoutePerRequest, TypeOK, Job
  <1> QED BY Invariance, <1>1, PTL

(* No target of before the last home route moves the arm. *)
THEOREM NothingStale == PolicySpec => []NoStaleAction
  <1>1. IInv => NoStaleAction
    BY DEF IInv, StaleInv, NoStaleAction
  <1> QED BY Invariance, <1>1, PTL

(* A request that is noted is kept until it is served, but for a reflex on *)
(* the way home and the end of the bridge.                                 *)
THEOREM RequestIsKept == PolicySpec => RequestKept
  <1>1. IInv /\ [PolicyNext]_pvars =>
          [Owed > donePolicy =>
             \/ Owed' >= Owed
             \/ donePolicy' >= Owed
             \/ mpc' = "exited"
             \/ mpc = "route" /\ reflex]_pvars
    <2> SUFFICES ASSUME IInv, PolicyNext, Owed > donePolicy, mpc' # "exited",
                        ~(mpc = "route" /\ reflex)
                 PROVE  Owed' >= Owed \/ donePolicy' >= Owed
      OBVIOUS
    <2>1. Typed /\ RequestInv
      BY DEF IInv, Typed
    <2>2. /\ donePolicy \in Nat /\ pendingPolicy \in Nat /\ job.id \in Nat
          /\ policyAction.id \in Nat /\ Owed \in Nat
      BY <2>1 DEF Typed, TypeOK, PolicyActionCommand, Job, Owed
    <2> USE DEF shared, planner, rt, main, arm
    <2>3. CASE UNCHANGED <<mpc, job, pendingPolicy>>
      BY <2>2, <2>3 DEF Owed
    <2>4. CASE RtBegin
      <3>1. pendingPolicy' >= pendingPolicy /\ mpc = "control" /\ mpc' = "control"
        BY <2>1, <2>2, <2>4 DEF RtBegin, Running, LatchedPolicy, RequestInv
      <3> QED BY <3>1 DEF Owed
    <2>5. CASE RtEnd
      BY <2>1, <2>2, <2>5 DEF RtEnd, Running, Owed, RequestInv, NoJob
    <2>6. CASE StartRehome
      <3>1. /\ mpc = "dispatch" /\ mpc' = "route" /\ job = NoJob
            /\ job' = [kind |-> "policy", id |-> pendingPolicy]
        BY <2>1, <2>6 DEF StartRehome, RequestInv
      <3> QED BY <2>2, <3>1 DEF Owed, NoJob
    <2>7. CASE FinishRoute \/ PublishHome
      <3>1. /\ UNCHANGED <<job, pendingPolicy>> /\ job.kind = "policy"
            /\ mpc # "control" /\ mpc' # "control"
        BY <2>1, <2>7 DEF FinishRoute, PublishHome, RequestInv
      <3> QED BY <2>2, <3>1 DEF Owed
    <2>8. CASE OpenGripper
      BY <2>1, <2>2, <2>8 DEF OpenGripper, DonePolicy, Owed, RequestInv
    <2>9. CASE PublishHold
      BY <2>1, <2>2, <2>9 DEF PublishHold, Owed, RequestInv
    <2>10. CASE RecoverReflex
      <3>1. mpc = "control" /\ job' = NoJob /\ pendingPolicy' = pendingPolicy
        BY <2>10 DEF RecoverReflex, Reenter
      <3> QED BY <2>2, <3>1 DEF Owed, NoJob
    <2>11. CASE CompleteRehome \/ ReleaseArm
      BY <2>1, <2>11 DEF CompleteRehome, ReleaseArm, RequestInv
    <2>12. CASE Planner
      BY <2>3, <2>12 DEF Planner, PlannerRead, PlannerLoadCompleted, PlannerInput,
         PlannerInputXr, PlannerInputPolicy, PlannerDecide, PlannerPublish, PlannerExit
    <2>13. CASE ReflexTrips \/ InhibitExpires \/ PlannerThrows \/ RequestStop
      BY <2>3, <2>13 DEF ReflexTrips, InhibitExpires, PlannerThrows, RequestStop
    <2>14. CASE Runner
      BY <2>3, <2>14 DEF Runner, PressPause, PressRehome, PressResume, ObservationArrives,
         SendPacket, vars
    <2>15. CASE AbandonRoute \/ ExitLoop \/ FatalException
      BY <2>15 DEF AbandonRoute, ExitLoop, FatalException
    <2> QED
      BY <2>4, <2>5, <2>6, <2>7, <2>8, <2>9, <2>10, <2>11, <2>12, <2>13, <2>14, <2>15
         DEF PolicyNext, BridgeStep, RtCallback, MainThread, Environment
  <1> QED BY Invariance, <1>1, PTL DEF PolicySpec, RequestKept
=============================================================================
