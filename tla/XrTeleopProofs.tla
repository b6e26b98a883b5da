--------------------------- MODULE XrTeleopProofs ---------------------------
(***************************************************************************)
(* Proofs that the bridge driven by the XR controller keeps the properties *)
(* of XrTeleop, for every bound, every settling time and both gripper      *)
(* modes.  None of the properties is inductive; IInv below is.             *)
(***************************************************************************)
EXTENDS XrTeleop, TLAPS

(* The request counters, what the main thread is doing with them, and how  *)
(* often the arm has been home.                                            *)
HandshakeInv ==
  /\ completed <= requested /\ requested <= completed + 1
  /\ mpc \in {"route", "openGripper", "publishHome", "complete"} =>
       /\ job = [kind |-> "xr", id |-> requested]
       /\ requested = completed + 1
       /\ inProgress
  /\ mpc \in {"publishHold", "release"} => job.kind = "xr" /\ inProgress
  /\ mpc = "dispatch" => stop \/ pending # 0
  /\ mpc \in {"control", "dispatch"} /\ pending # 0 =>
       pending = requested /\ requested = completed + 1
  /\ mpc \in {"openGripper", "publishHome", "complete"} => homed = completed + 1
  /\ mpc \in {"control", "dispatch", "route", "publishHold", "release"} => homed = completed

(* What the planner keeps between ticks was derived under the completion   *)
(* it has seen; while a request is outstanding it keeps no anchor and      *)
(* computes no target, except in the tick that made the request.           *)
PlannerInv ==
  /\ seen <= completed
  /\ lastTarget.some => lastTarget.seen = seen
  /\ hasRecent => lastTarget.some
  /\ anchor.some => anchor.seen = seen
  /\ requested > seen /\ ppc \notin {"decide", "exited"} => ~anchor.some
  /\ ppc = "publish" /\ tick.out.fresh =>
       tick.out.stamp.seen = seen /\ requested <= seen

(* The clutch is never engaged without an anchor. *)
AnchorInv == teleopState \in {"Armed", "Active"} => anchor.some

(* A fresh target on its way to the arm was computed under the current     *)
(* completion, but for the moment before PublishHold removes it.           *)
TargetInv ==
  /\ rpc = "end" => mpc = "control"
  /\ rpc = "begin" => ~rtTarget.fresh
  /\ planned.fresh /\ mpc \notin {"publishHold", "exited"} =>
       planned.stamp.seen = completed
  /\ rtTarget.fresh => rtTarget.stamp.seen = completed
  /\ towards.some => mpc = "control" /\ towards.seen = completed

(* The open command of a re-home stands until its completion is stored.    *)
GripperInv ==
  /\ desiredGripper.command = "Close" => desiredGripper.seen = completed
  /\ mpc \in {"publishHome", "complete"} => desiredGripper.command = "Open"

IInv == TypeOK /\ HandshakeInv /\ PlannerInv /\ AnchorInv /\ TargetInv /\ GripperInv

-----------------------------------------------------------------------------
(* The pure operators the planner is built from stay in their types.       *)

(* The records the actions build are in their types. *)
LEMMA RecordType ==
  /\ NoStamp \in Stamp
  /\ \A b, c \in Nat : StampOf(b, c) \in Stamp
  /\ NoJob \in Job
  /\ \A kind \in {"xr", "policy"}, id \in Nat : [kind |-> kind, id |-> id] \in Job
  /\ \A at \in Nat, ok \in BOOLEAN : [at |-> at, ok |-> ok] \in RobotSnapshot
  /\ \A command \in GripperCommand, id \in Nat :
       [command |-> command, seen |-> id] \in [command : GripperCommand, seen : Nat]
  BY DEF StampOf, Stamp, NoStamp, NoJob, Job, RobotSnapshot

(* The hold targets, and a fresh target with any stamp, are planned targets.*)
LEMMA TargetType ==
  /\ \A active \in BOOLEAN : HoldTarget(active) \in PlannedTarget
  /\ \A stamp \in Stamp : FreshTarget(stamp) \in PlannedTarget
  BY DEF HoldTarget, FreshTarget, Target, PlannedTarget, NoStamp, Stamp

(* The locals of an iteration that has decided nothing, with any target. *)
LEMMA NoTickType ==
  /\ NoTick \in Tick
  /\ \A out \in PlannedTarget : [NoTick EXCEPT !.out = out] \in Tick
  /\ \A snapshot \in RobotSnapshot :
       [NoTick EXCEPT !.snapshot = snapshot, !.policy = NoPolicyAction] \in Tick
  BY TargetType DEF NoTick, Tick, RobotSnapshot, GripperCommand

(* Reset and UpdateDesiredState of the gripper controller yield controllers*)
(* whatever was measured and whatever the trigger does.                    *)
LEMMA ControllerType ==
  /\ \A m : Reset(m) \in Controller
  /\ \A g \in Controller, band \in TriggerBand, elapsed \in BOOLEAN :
       UpdateDesiredState(g, band, elapsed) \in Controller
  BY DEF Reset, UpdateDesiredState, Opposite, Controller, GripperCommand

(* So do the outcomes of a tick's trigger. *)
LEMMA TriggerType ==
  ASSUME gripper \in Controller, NEW trigger \in TriggerOutcomes
  PROVE  trigger.controller \in Controller /\ trigger.wanted \in GripperCommand
  <1>1. CASE GripperMode = "binary"
    <2>1. PICK g \in Controller : trigger = [controller |-> g, wanted |-> g.current]
      BY <1>1, ControllerType DEF TriggerOutcomes
    <2> QED BY <2>1 DEF Controller
  <1>2. CASE GripperMode # "binary"
    BY <1>2 DEF TriggerOutcomes
  <1> QED BY <1>1, <1>2

(* The clutch automaton stays among its five states. *)
LEMMA UpdateType ==
  ASSUME NEW state \in TeleopState, NEW in \in StateInputs
  PROVE  Update(state, in) \in TeleopState
  BY DEF Update, TeleopState, StateInputs

-----------------------------------------------------------------------------
(* Type correctness. *)

(* The initial states are typed. *)
LEMMA InitTypeOK == Init => TypeOK
  <1> SUFFICES ASSUME Init PROVE TypeOK
    OBVIOUS
  <1>1. gripper \in Controller
    BY ControllerType DEF Init
  <1>2. /\ planned \in PlannedTarget /\ rtTarget \in PlannedTarget /\ tick \in Tick
    BY TargetType, NoTickType DEF Init
  <1> QED
    BY <1>1, <1>2 DEF Init, TypeOK, RobotSnapshot, GripperCommand, PlannerPC,
       TeleopState, Stamp, NoStamp, RtPC, MainPC, Job, NoJob

(* Deciding a tick yields typed planner variables. *)
LEMMA DecideTypeOK == TypeOK /\ PlannerDecide => TypeOK'
  <1> SUFFICES ASSUME TypeOK, PlannerDecide PROVE TypeOK'
    OBVIOUS
  <1> USE XrAssumption
  <1>1. deadmanLatched' \in BOOLEAN /\ teleopState' \in TeleopState
    <2>1. deadmanLatched' \in BOOLEAN
      BY DEF TypeOK, PlannerDecide
    <2>2. [xrStreamHealthy |-> tick.healthy, deadmanPressed |-> deadmanLatched',
           robotOk |-> tick.snapshot.ok, faultRequested |-> FALSE,
           clearFaultRequested |-> TRUE] \in StateInputs
      BY <2>1 DEF TypeOK, Tick, RobotSnapshot, StateInputs
    <2> QED
      BY <2>1, <2>2, UpdateType DEF PlannerDecide, TypeOK
  <1>2. desiredGripper' \in [command : GripperCommand, seen : Nat]
    BY DEF TypeOK, PlannerDecide, Tick
  <1>3. StampOfSnapshot \in Stamp /\ NoStamp \in Stamp
    BY RecordType DEF StampOfSnapshot, TypeOK, Tick, RobotSnapshot
  <1>4. tick' \in Tick /\ hasRecent' \in BOOLEAN /\ anchor' \in Stamp /\ lastTarget' \in Stamp
    <2>1. CASE DecideActive
      <3>1. PICK outcome \in {"target", "unsafe", "ikFailed", "noTarget"},
                 inGrace \in BOOLEAN :
              /\ tick' = [NoTick EXCEPT !.out =
                            CASE outcome = "target" -> FreshTarget(TargetStamp)
                              [] outcome = "unsafe" -> HoldTarget(TRUE)
                              [] OTHER              -> ReuseOrHold(inGrace)]
              /\ hasRecent' = CASE outcome = "target" -> TRUE
                                [] outcome = "unsafe" -> FALSE
                                [] OTHER              -> hasRecent
              /\ lastTarget' = IF outcome = "target" THEN TargetStamp ELSE lastTarget
              /\ anchor' = IF outcome = "noTarget" THEN StampOfSnapshot ELSE anchor
        BY <2>1 DEF DecideActive
      <3>2. TargetStamp \in Stamp
        BY DEF TargetStamp, TypeOK
      <3>3. /\ FreshTarget(TargetStamp) \in PlannedTarget
            /\ HoldTarget(TRUE) \in PlannedTarget
            /\ ReuseOrHold(inGrace) \in PlannedTarget
        BY <3>2, TargetType DEF ReuseOrHold, TypeOK
      <3>4. tick' \in Tick
        BY <3>1, <3>3, NoTickType
      <3> QED
        BY <3>1, <3>2, <3>4, <1>3 DEF TypeOK
    <2>2. CASE DecideInactive
      BY <2>2, <1>3, TargetType, NoTickType DEF DecideInactive, TypeOK
    <2> QED
      BY <2>1, <2>2 DEF PlannerDecide
  <1> QED
    BY <1>1, <1>2, <1>4 DEF TypeOK, PlannerDecide, PlannerPC, rt, main, arm

(* Every step of the bridge preserves the types. *)
LEMMA NextTypeOK == TypeOK /\ [Next]_vars => TypeOK'
  <1> SUFFICES ASSUME TypeOK, [Next]_vars PROVE TypeOK'
    OBVIOUS
  <1> USE XrAssumption DEF TypeOK, shared, planner, rt, main, arm
  <1>1. CASE PlannerRead
    <2>1. tick' \in Tick
      BY <1>1, NoTickType DEF PlannerRead
    <2> QED BY <1>1, <2>1 DEF PlannerRead, PlannerPC
  <1>2. CASE PlannerLoadCompleted
    BY <1>2, ControllerType, RecordType DEF PlannerLoadCompleted, PlannerPC
  <1>3. CASE PlannerInputXr
    <2>1. PICK cmd \in XRCommand, healthy \in BOOLEAN, trigger \in TriggerOutcomes :
            /\ gripper' = trigger.controller
            /\ tick' = [tick EXCEPT !.healthy = healthy, !.gripper = trigger.wanted]
            /\ deadmanLatched' = LatchDeadman(deadmanLatched, healthy, cmd.control)
            /\ lastButtonB' = (healthy /\ cmd.buttonB)
            /\ requested' = RequestRehome((healthy /\ cmd.buttonB) /\ ~lastButtonB)
      BY <1>3 DEF PlannerInputXr
    <2>2. gripper' \in Controller /\ tick' \in Tick
      BY <2>1, TriggerType DEF Tick
    <2>3. deadmanLatched' \in BOOLEAN /\ lastButtonB' \in BOOLEAN /\ requested' \in Nat
      BY <2>1 DEF LatchDeadman, RequestRehome, XRCommand
    <2> QED BY <1>3, <2>2, <2>3 DEF PlannerInputXr, PlannerPC
  <1>4. CASE PlannerInputPolicy
    BY <1>4 DEF PlannerInputPolicy
  <1>5. CASE PlannerDecide
    BY <1>5, DecideTypeOK
  <1>6. CASE PlannerPublish
    <2>1. inhibit' \in Nat /\ planned' \in PlannedTarget
      BY <1>6 DEF PlannerPublish, Tick
    <2> QED BY <1>6, <2>1, NoTickType DEF PlannerPublish, PlannerPC
  <1>7. CASE PlannerExit
    BY <1>7 DEF PlannerExit, PlannerPC
  <1>25. CASE PlannerThrows
    BY <1>25, NoTickType DEF PlannerThrows, PlannerPC
  <1>8. CASE RtBegin
    <2>1. robotState' \in RobotSnapshot
      BY <1>8, RecordType DEF RtBegin
    <2>2. pendingPolicy' = 0
      BY <1>8 DEF RtBegin, LatchedPolicy, NewPolicyRequest
    <2> QED BY <1>8, <2>1, <2>2 DEF RtBegin, RtPC
  <1>9. CASE RtEnd
    <2>1. still' \in BOOLEAN /\ disturbances' \in Nat
      <3>1. PICK obstructed \in BOOLEAN : ArmResponds(ApplyMotion(obstructed))
        BY <1>9 DEF RtEnd
      <3>2. \/ still' = ~ApplyMotion(obstructed) /\ disturbances' = disturbances
            \/ still' = FALSE /\ disturbances' = disturbances + 1
        BY <3>1 DEF ArmResponds
      <3>3. still' = ~ApplyMotion(obstructed) \/ still' = FALSE
        BY <3>2
      <3>4. still' \in BOOLEAN
        BY ONLY <3>3, Zenon
      <3> QED BY <3>2, <3>4
    <2>2. towards' \in Stamp
      BY <1>9, RecordType DEF RtEnd, PlannedTarget
    <2>3. settled' \in Nat
      BY <1>9 DEF RtEnd, SettledCycles
    <2>4. pending' \in Nat
      BY <1>9 DEF RtEnd, LatchedPending
    <2>5. mpc' \in MainPC
      BY <1>9 DEF RtEnd, MainPC
    <2>6. rtTarget' \in PlannedTarget
      BY <1>9, TargetType DEF RtEnd
    <2> QED BY <1>9, <2>1, <2>2, <2>3, <2>4, <2>5, <2>6 DEF RtEnd, RtPC
  <1>10. CASE StartRehome
    <2>1. job' \in Job /\ job'.kind # "policy"
      BY <1>10, RecordType DEF StartRehome
    <2> QED BY <1>10, <2>1 DEF StartRehome, MainPC
  <1>11. CASE FinishRoute
    BY <1>11 DEF FinishRoute, MainPC
  <1>12. CASE AbandonRoute
    BY <1>12 DEF AbandonRoute, MainPC
  <1>13. CASE OpenGripper
    <2>1. desiredGripper' \in [command : GripperCommand, seen : Nat]
      BY <1>13, RecordType DEF OpenGripper, GripperCommand
    <2>2. donePolicy' = 0 /\ inhibit' \in Nat
      BY <1>13 DEF OpenGripper, DonePolicy
    <2> QED BY <1>13, <2>1, <2>2 DEF OpenGripper, MainPC
  <1>14. CASE PublishHome
    <2>1. robotState' \in RobotSnapshot
      BY <1>14, RecordType DEF PublishHome
    <2> QED BY <1>14, <2>1 DEF PublishHome, MainPC
  <1>15. CASE CompleteRehome
    <2>1. job.id \in Nat /\ Inhibited \in Nat
      BY BridgeAssumption DEF Job, Inhibited
    <2> QED BY <1>15, <2>1 DEF CompleteRehome, MainPC
  <1>16. CASE PublishHold
    <2>1. planned' \in PlannedTarget
      BY <1>16, TargetType DEF PublishHold
    <2>2. /\ mpc' \in MainPC /\ job' \in Job /\ job'.kind # "policy"
          /\ pending' \in Nat /\ settled' \in Nat
      BY <1>16, RecordType DEF PublishHold, Reenter, MainPC, NoJob
    <2> QED BY <1>16, <2>1, <2>2 DEF PublishHold
  <1>17. CASE ReleaseArm
    BY <1>17, RecordType DEF ReleaseArm, Reenter, MainPC, NoJob
  <1>18. CASE RecoverReflex
    <2>1. Inhibited \in Nat
      BY BridgeAssumption DEF Inhibited
    <2>2. mpc' \in MainPC /\ job' \in Job /\ job'.kind # "policy"
      BY <1>18, RecordType DEF RecoverReflex, Reenter, MainPC, NoJob
    <2> QED BY <1>18, <2>1, <2>2, RecordType DEF RecoverReflex, Reenter
  <1>19. CASE ExitLoop
    BY <1>19 DEF ExitLoop, MainPC
  <1>20. CASE FatalException
    BY <1>20, RecordType DEF FatalException, MainPC
  <1>21. CASE ReflexTrips
    BY <1>21 DEF ReflexTrips
  <1>22. CASE InhibitExpires
    BY <1>22 DEF InhibitExpires
  <1>23. CASE RequestStop
    BY <1>23 DEF RequestStop
  <1>24. CASE UNCHANGED vars
    BY <1>24 DEF vars
  <1> QED
    BY <1>1, <1>2, <1>3, <1>4, <1>5, <1>6, <1>7, <1>8, <1>9, <1>10, <1>11, <1>12,
       <1>13, <1>14, <1>15, <1>16, <1>17, <1>18, <1>19, <1>20, <1>21, <1>22, <1>23, <1>24, <1>25
       DEF Next, Planner, PlannerInput, RtCallback, MainThread, Environment

(* Every variable of the bridge keeps its type, in every behavior. *)
THEOREM TypeCorrect == Spec => []TypeOK
  BY InitTypeOK, NextTypeOK, PTL DEF Spec

-----------------------------------------------------------------------------
(* The inductive invariant.  One lemma per part, each from the parts it    *)
(* rests on.                                                               *)

(* The bridge starts in the invariant. *)
LEMMA InitIInv == Init => IInv
  <1> SUFFICES ASSUME Init PROVE IInv
    OBVIOUS
  <1>1. TypeOK
    BY InitTypeOK
  <1>2. HandshakeInv /\ AnchorInv /\ GripperInv
    BY DEF Init, HandshakeInv, AnchorInv, GripperInv
  <1>3. PlannerInv /\ TargetInv
    BY DEF Init, PlannerInv, TargetInv, NoStamp, HoldTarget, Target
  <1> QED
    BY <1>1, <1>2, <1>3 DEF IInv

(* The counters and the main thread stay in step: a request is made only   *)
(* when none is outstanding, and only the served request is completed.     *)
LEMMA HandshakeStep == TypeOK /\ HandshakeInv /\ [Next]_vars => HandshakeInv'
  <1> SUFFICES ASSUME TypeOK, HandshakeInv, [Next]_vars PROVE HandshakeInv'
    OBVIOUS
  <1> USE DEF shared, planner, rt, main, arm
  <1>1. /\ requested \in Nat /\ completed \in Nat /\ pending \in Nat /\ homed \in Nat
        /\ pendingPolicy = 0 /\ job.kind # "policy"
    BY DEF TypeOK
  <1>2. CASE /\ UNCHANGED <<requested, completed, inProgress, pending, mpc, job, homed>>
             /\ stop => stop'
    BY <1>2 DEF HandshakeInv
  <1>3. CASE PlannerInputXr
    <2>1. \/ requested' = requested
          \/ requested <= completed /\ requested' = completed + 1
      <3>1. PICK edge \in BOOLEAN : requested' = RequestRehome(edge)
        BY <1>3 DEF PlannerInputXr
      <3> QED BY <3>1, <1>1 DEF RequestRehome
    <2>2. UNCHANGED <<completed, inProgress, pending, mpc, job, homed, stop>>
      BY <1>3 DEF PlannerInputXr
    <2> QED BY <1>1, <2>1, <2>2 DEF HandshakeInv
  <1>4. CASE RtEnd
    <2>1. /\ mpc = "control"
          /\ pending' = LatchedPending
          /\ mpc' = IF ControlEnds THEN "dispatch" ELSE "control"
          /\ UNCHANGED <<requested, completed, inProgress, job, homed, stop>>
      BY <1>4 DEF RtEnd, Running
    <2>2. ControlEnds => stop \/ LatchedPending # 0
      BY <1>1 DEF ControlEnds, RehomePending
    <2> QED BY <1>1, <2>1, <2>2 DEF HandshakeInv, LatchedPending
  <1>5. CASE StartRehome
    BY <1>1, <1>5 DEF HandshakeInv, StartRehome
  <1>6. CASE FinishRoute \/ AbandonRoute
    BY <1>1, <1>6 DEF HandshakeInv, FinishRoute, AbandonRoute
  <1>7. CASE OpenGripper \/ PublishHome \/ CompleteRehome
    BY <1>1, <1>7 DEF HandshakeInv, OpenGripper, PublishHome, CompleteRehome
  <1>8. CASE PublishHold \/ ReleaseArm \/ RecoverReflex
    BY <1>1, <1>8 DEF HandshakeInv, PublishHold, ReleaseArm, RecoverReflex, Reenter
  <1>9. CASE ExitLoop \/ FatalException
    BY <1>1, <1>9 DEF HandshakeInv, ExitLoop, FatalException
  <1>10. CASE \/ PlannerRead \/ PlannerLoadCompleted \/ PlannerInputPolicy
              \/ PlannerDecide \/ PlannerPublish \/ PlannerExit
    BY <1>2, <1>10 DEF PlannerRead, PlannerLoadCompleted, PlannerInputPolicy,
       PlannerDecide, PlannerPublish, PlannerExit
  <1>11. CASE \/ RtBegin \/ ReflexTrips \/ InhibitExpires
              \/ PlannerThrows \/ RequestStop \/ UNCHANGED vars
    BY <1>2, <1>11 DEF RtBegin, ReflexTrips, InhibitExpires, PlannerThrows,
       RequestStop, vars
  <1> QED
    BY <1>3, <1>4, <1>5, <1>6, <1>7, <1>8, <1>9, <1>10, <1>11
       DEF Next, Planner, PlannerInput, RtCallback, MainThread, Environment

(* What the planner derived before a completion does not outlive the tick  *)
(* in which it sees the completion.                                        *)
LEMMA PlannerStep ==
  TypeOK /\ HandshakeInv /\ PlannerInv /\ [Next]_vars => PlannerInv'
  <1> SUFFICES ASSUME TypeOK, HandshakeInv, PlannerInv, [Next]_vars PROVE PlannerInv'
    OBVIOUS
  <1> USE XrAssumption DEF shared, planner, rt, main, arm
  <1>1. /\ requested \in Nat /\ completed \in Nat /\ seen \in Nat
        /\ completed <= requested
    BY DEF TypeOK, HandshakeInv
  <1>2. CASE UNCHANGED <<requested, completed, ppc, tick, seen, anchor, lastTarget, hasRecent>>
    BY <1>2 DEF PlannerInv
  <1>3. CASE PlannerRead \/ PlannerExit
    BY <1>3 DEF PlannerRead, PlannerExit, PlannerInv
  <1>4. CASE PlannerLoadCompleted
    BY <1>1, <1>4 DEF PlannerLoadCompleted, PlannerInv, NoStamp
  <1>5. CASE PlannerInputXr
    BY <1>1, <1>5 DEF PlannerInputXr, PlannerInv
  <1>6. CASE PlannerDecide
    <2>1. /\ ppc' = "publish" /\ UNCHANGED <<seen, completed, requested>>
      BY <1>6 DEF PlannerDecide
    <2>2. CASE DecideInactive
      <3>1. tick'.out = HoldTarget(FALSE)
        BY <2>2, NoTickType DEF DecideInactive, Tick
      <3>2. ~tick'.out.fresh
        BY <3>1 DEF HoldTarget, Target
      <3>3. /\ ~hasRecent' /\ lastTarget' = lastTarget
            /\ anchor' \in {lastTarget, StampOfSnapshot, NoStamp}
            /\ requested > seen => anchor' = NoStamp
        BY <2>2 DEF DecideInactive, RehomeRequested
      <3>4. anchor'.some => anchor'.seen = seen
        BY <3>3 DEF PlannerInv, StampOfSnapshot, StampOf, NoStamp
      <3> QED
        BY <2>1, <3>2, <3>3, <3>4 DEF PlannerInv, NoStamp
    <2>3. CASE DecideActive /\ ~RehomeRequested
      <3>1. requested <= seen
        BY <1>1, <2>3 DEF RehomeRequested
      <3>2. PICK outcome \in IF HasTarget THEN {"target", "unsafe", "ikFailed"} ELSE {"noTarget"},
                 inGrace \in BOOLEAN :
              /\ tick' = [NoTick EXCEPT !.out =
                            CASE outcome = "target" -> FreshTarget(TargetStamp)
                              [] outcome = "unsafe" -> HoldTarget(TRUE)
                              [] OTHER              -> ReuseOrHold(inGrace)]
              /\ hasRecent' = CASE outcome = "target" -> TRUE
                                [] outcome = "unsafe" -> FALSE
                                [] OTHER              -> hasRecent
              /\ lastTarget' = IF outcome = "target" THEN TargetStamp ELSE lastTarget
              /\ anchor' = IF outcome = "noTarget" THEN StampOfSnapshot ELSE anchor
        BY <2>3 DEF DecideActive
      <3>3. outcome = "target" => TargetStamp = anchor /\ anchor.some /\ anchor.seen = seen
        BY <3>2 DEF HasTarget, TargetStamp, PlannerInv
      <3>4. /\ lastTarget'.some => lastTarget'.seen = seen
            /\ hasRecent' => lastTarget'.some
            /\ anchor'.some => anchor'.seen = seen
        BY <3>2, <3>3 DEF PlannerInv, StampOfSnapshot, StampOf
      <3>5. CASE outcome = "target"
        <4>1. tick'.out = FreshTarget(TargetStamp)
          BY <3>2, <3>5, NoTickType DEF Tick
        <4>2. tick'.out.stamp.seen = seen
          BY <3>3, <3>5, <4>1 DEF FreshTarget, Target
        <4> QED
          BY <1>1, <2>1, <3>1, <3>4, <4>2 DEF PlannerInv
      <3>6. CASE outcome = "unsafe"
        <4>1. tick'.out = HoldTarget(TRUE)
          BY <3>2, <3>6, NoTickType DEF Tick
        <4>2. ~tick'.out.fresh
          BY <4>1 DEF HoldTarget, Target
        <4> QED
          BY <1>1, <2>1, <3>1, <3>4, <4>2 DEF PlannerInv
      <3>7. CASE outcome \in {"ikFailed", "noTarget"}
        <4>1. tick'.out = ReuseOrHold(inGrace)
          BY <3>2, <3>7, NoTickType DEF Tick
        <4>2. tick'.out.fresh => tick'.out.stamp.seen = seen
          BY <4>1 DEF ReuseOrHold, FreshTarget, HoldTarget, Target, PlannerInv
        <4> QED
          BY <1>1, <2>1, <3>1, <3>4, <4>2 DEF PlannerInv
      <3> QED
        BY <3>2, <3>5, <3>6, <3>7
    <2> QED
      BY <1>6, <2>2, <2>3 DEF PlannerDecide
  <1>7. CASE PlannerPublish
    BY <1>7 DEF PlannerPublish, PlannerInv
  <1>8. CASE CompleteRehome
    BY <1>1, <1>8 DEF CompleteRehome, PlannerInv, HandshakeInv
  <1>9. CASE MainThread /\ ~CompleteRehome
    BY <1>2, <1>9 DEF MainThread, StartRehome, FinishRoute, AbandonRoute, OpenGripper,
       PublishHome, PublishHold, ReleaseArm, RecoverReflex, ExitLoop
  <1>10. CASE RtCallback \/ (Environment /\ ~PlannerThrows) \/ UNCHANGED vars
    BY <1>2, <1>10 DEF RtCallback, RtBegin, RtEnd, Environment, ReflexTrips,
       InhibitExpires, FatalException, RequestStop, vars
  <1>11. CASE PlannerThrows
    BY <1>11 DEF PlannerThrows, PlannerInv
  <1>12. CASE PlannerInputPolicy
    BY <1>12 DEF PlannerInputPolicy
  <1> QED
    BY <1>3, <1>4, <1>5, <1>6, <1>7, <1>8, <1>9, <1>10, <1>11, <1>12
       DEF Next, Planner, PlannerInput

(* How a tick that engages the clutch finds it: the deadman counts only    *)
(* without a re-home, and activation comes only after arming.              *)
LEMMA DecideEngages ==
  ASSUME TypeOK, PlannerDecide
  PROVE  /\ teleopState' \in {"Armed", "Active"} => tick.healthy /\ ~RehomeRequested
         /\ teleopState' = "Active" => teleopState \in {"Armed", "Active"}
  <1> DEFINE in == [xrStreamHealthy |-> tick.healthy, deadmanPressed |-> deadmanLatched',
                    robotOk |-> tick.snapshot.ok, faultRequested |-> FALSE,
                    clearFaultRequested |-> TRUE]
  <1>1. teleopState' = Update(teleopState, in) /\ teleopState \in TeleopState
    BY DEF PlannerDecide, TypeOK
  <1>2. deadmanLatched' => ~RehomeRequested
    BY DEF PlannerDecide
  <1>3. teleopState' \in {"Armed", "Active"} =>
          in.xrStreamHealthy /\ in.deadmanPressed
    BY <1>1 DEF Update
  <1>4. teleopState' = "Active" => teleopState \in {"Armed", "Active"}
    BY <1>1 DEF Update, TeleopState
  <1> QED BY <1>2, <1>3, <1>4

(* The clutch engages only on an anchor, and keeps it. *)
LEMMA AnchorStep == TypeOK /\ PlannerInv /\ AnchorInv /\ [Next]_vars => AnchorInv'
  <1> SUFFICES ASSUME TypeOK, PlannerInv, AnchorInv, [Next]_vars PROVE AnchorInv'
    OBVIOUS
  <1> USE XrAssumption DEF shared, planner, rt, main, arm
  <1>1. CASE UNCHANGED <<teleopState, anchor>>
    BY <1>1 DEF AnchorInv
  <1>2. CASE PlannerDecide
    <2>1. CASE teleopState' = "Active"
      <3>1. anchor.some /\ DecideActive
        BY <1>2, <2>1, DecideEngages DEF PlannerDecide, AnchorInv
      <3>2. anchor' = anchor \/ anchor' = StampOfSnapshot
        BY <3>1 DEF DecideActive
      <3> QED BY <3>1, <3>2 DEF AnchorInv, StampOfSnapshot, StampOf
    <2>2. CASE teleopState' = "Armed"
      <3>1. tick.healthy /\ ~RehomeRequested /\ DecideInactive
        BY <1>2, <2>2, DecideEngages DEF PlannerDecide
      <3>2. anchor' = IF lastTarget.some THEN lastTarget ELSE StampOfSnapshot
        BY <3>1 DEF DecideInactive
      <3> QED BY <3>2 DEF AnchorInv, StampOfSnapshot, StampOf
    <2> QED BY <2>1, <2>2 DEF AnchorInv
  <1>3. CASE \/ PlannerRead \/ PlannerLoadCompleted \/ PlannerInputXr
             \/ PlannerPublish \/ PlannerExit
    BY <1>1, <1>3 DEF PlannerRead, PlannerLoadCompleted, PlannerInputXr, PlannerPublish,
       PlannerExit
  <1>4. CASE MainThread
    BY <1>1, <1>4 DEF MainThread, StartRehome, FinishRoute, AbandonRoute, OpenGripper,
       PublishHome, CompleteRehome, PublishHold, ReleaseArm, RecoverReflex, ExitLoop
  <1>5. CASE RtCallback \/ Environment \/ UNCHANGED vars
    BY <1>1, <1>5 DEF RtCallback, RtBegin, RtEnd, Environment, ReflexTrips,
       InhibitExpires, PlannerThrows, FatalException, RequestStop, vars
  <1>6. CASE PlannerInputPolicy
    BY <1>6 DEF PlannerInputPolicy
  <1> QED BY <1>2, <1>3, <1>4, <1>5, <1>6 DEF Next, Planner, PlannerInput

(* Only targets of the current completion are published, copied by the     *)
(* callback and followed.                                                  *)
LEMMA TargetStep ==
  TypeOK /\ HandshakeInv /\ PlannerInv /\ TargetInv /\ [Next]_vars => TargetInv'
  <1> SUFFICES ASSUME TypeOK, HandshakeInv, PlannerInv, TargetInv, [Next]_vars
               PROVE  TargetInv'
    OBVIOUS
  <1> USE DEF shared, planner, rt, main, arm
  <1>1. /\ requested \in Nat /\ completed \in Nat /\ seen \in Nat
        /\ seen <= completed /\ completed <= requested
        /\ rpc \in RtPC /\ job.kind # "policy"
    BY DEF TypeOK, HandshakeInv, PlannerInv
  <1>2. CASE UNCHANGED <<rpc, mpc, rtTarget, planned, completed, towards>>
    BY <1>2 DEF TargetInv
  <1>3. CASE PlannerPublish
    <2>1. planned' = tick.out /\ ppc = "publish"
          /\ UNCHANGED <<rpc, mpc, rtTarget, completed, towards>>
      BY <1>3 DEF PlannerPublish
    <2>2. planned'.fresh => planned'.stamp.seen = completed
      BY <1>1, <2>1 DEF PlannerInv
    <2> QED BY <2>1, <2>2 DEF TargetInv
  <1>4. CASE RtBegin
    BY <1>4 DEF RtBegin, Running, TargetInv
  <1>5. CASE RtEnd
    <2>1. /\ rpc' = "begin" /\ rtTarget' = HoldTarget(FALSE)
          /\ UNCHANGED <<planned, completed>>
          /\ mpc = "control" /\ mpc' = IF ControlEnds THEN "dispatch" ELSE "control"
      BY <1>5 DEF RtEnd, Running
    <2>2. PICK obstructed \in BOOLEAN :
            towards' = IF ApplyMotion(obstructed) /\ ~ControlEnds
                         THEN rtTarget.stamp ELSE NoStamp
      BY <1>5 DEF RtEnd
    <2>3. towards'.some => ~ControlEnds /\ towards'.seen = completed
      BY <2>2 DEF ApplyMotion, NoStamp, TargetInv
    <2> QED BY <2>1, <2>3 DEF TargetInv, HoldTarget, Target
  <1>6. CASE StartRehome \/ FinishRoute \/ AbandonRoute \/ OpenGripper \/ PublishHome
    BY <1>1, <1>6 DEF StartRehome, FinishRoute, AbandonRoute, OpenGripper, PublishHome,
       TargetInv, RtPC
  <1>7. CASE CompleteRehome
    BY <1>1, <1>7 DEF CompleteRehome, TargetInv, RtPC
  <1>8. CASE PublishHold
    BY <1>1, <1>8 DEF PublishHold, TargetInv, HoldTarget, Target, HandshakeInv, RtPC
  <1>9. CASE ReleaseArm \/ RecoverReflex
    BY <1>1, <1>9 DEF ReleaseArm, RecoverReflex, Reenter, TargetInv, NoStamp, RtPC
  <1>10. CASE ExitLoop \/ FatalException
    BY <1>1, <1>10 DEF ExitLoop, FatalException, TargetInv, NoStamp, RtPC
  <1>11. CASE \/ PlannerRead \/ PlannerLoadCompleted \/ PlannerInputXr
              \/ PlannerInputPolicy \/ PlannerDecide \/ PlannerExit
    BY <1>2, <1>11 DEF PlannerRead, PlannerLoadCompleted, PlannerInputXr,
       PlannerInputPolicy, PlannerDecide, PlannerExit
  <1>12. CASE \/ ReflexTrips \/ InhibitExpires
              \/ PlannerThrows \/ RequestStop \/ UNCHANGED vars
    BY <1>2, <1>12 DEF ReflexTrips, InhibitExpires, PlannerThrows,
       RequestStop, vars
  <1> QED
    BY <1>3, <1>4, <1>5, <1>6, <1>7, <1>8, <1>9, <1>10, <1>11, <1>12
       DEF Next, Planner, PlannerInput, RtCallback, MainThread, Environment

(* While a request is served the planner stores no gripper command, so the *)
(* open command is still there when the request is completed.              *)
LEMMA GripperStep ==
  TypeOK /\ HandshakeInv /\ PlannerInv /\ GripperInv /\ [Next]_vars => GripperInv'
  <1> SUFFICES ASSUME TypeOK, HandshakeInv, PlannerInv, GripperInv, [Next]_vars
               PROVE  GripperInv'
    OBVIOUS
  <1> USE DEF shared, planner, rt, main, arm
  <1>1. /\ requested \in Nat /\ completed \in Nat /\ seen \in Nat
        /\ seen <= completed /\ completed <= requested /\ job.kind # "policy"
    BY DEF TypeOK, HandshakeInv, PlannerInv
  <1>2. CASE UNCHANGED <<desiredGripper, completed, mpc>>
    BY <1>2 DEF GripperInv
  <1>3. CASE PlannerDecide
    <2>1. UNCHANGED <<completed, mpc>>
      BY <1>3 DEF PlannerDecide
    <2>2. CASE RehomeRequested
      BY <1>3, <2>1, <2>2 DEF PlannerDecide, GripperInv
    <2>3. CASE ~RehomeRequested
      <3>1. requested <= seen /\ ~inProgress
        BY <1>1, <2>3 DEF RehomeRequested
      <3>2. desiredGripper' = [command |-> tick.gripper, seen |-> seen]
        BY <1>3, <2>3 DEF PlannerDecide
      <3> QED
        BY <1>1, <2>1, <3>1, <3>2 DEF GripperInv, HandshakeInv
    <2> QED BY <2>2, <2>3
  <1>4. CASE RtEnd
    BY <1>4 DEF RtEnd, GripperInv
  <1>5. CASE StartRehome \/ FinishRoute \/ AbandonRoute
    BY <1>5 DEF StartRehome, FinishRoute, AbandonRoute, GripperInv
  <1>6. CASE OpenGripper \/ PublishHome \/ CompleteRehome
    BY <1>1, <1>6 DEF OpenGripper, PublishHome, CompleteRehome, GripperInv
  <1>7. CASE PublishHold \/ ReleaseArm \/ RecoverReflex
    BY <1>1, <1>7 DEF PublishHold, ReleaseArm, RecoverReflex, Reenter, GripperInv
  <1>8. CASE ExitLoop \/ FatalException
    BY <1>8 DEF ExitLoop, FatalException, GripperInv
  <1>9. CASE \/ PlannerRead \/ PlannerLoadCompleted \/ PlannerInputXr
             \/ PlannerInputPolicy \/ PlannerPublish \/ PlannerExit
    BY <1>2, <1>9 DEF PlannerRead, PlannerLoadCompleted, PlannerInputXr,
       PlannerInputPolicy, PlannerPublish, PlannerExit
  <1>10. CASE \/ RtBegin \/ ReflexTrips \/ InhibitExpires
              \/ PlannerThrows \/ RequestStop \/ UNCHANGED vars
    BY <1>2, <1>10 DEF RtBegin, ReflexTrips, InhibitExpires, PlannerThrows,
       RequestStop, vars
  <1> QED
    BY <1>3, <1>4, <1>5, <1>6, <1>7, <1>8, <1>9, <1>10
       DEF Next, Planner, PlannerInput, RtCallback, MainThread, Environment

-----------------------------------------------------------------------------
(* The invariant holds in every behavior. *)
THEOREM Invariance == Spec => []IInv
  <1>1. IInv /\ [Next]_vars => IInv'
    BY NextTypeOK, HandshakeStep, PlannerStep, AnchorStep, TargetStep, GripperStep DEF IInv
  <1> QED
    BY InitIInv, <1>1, PTL DEF Spec

(* Each re-home the operator asks for sends the arm home exactly once.     *)
THEOREM RoutesMatchRequests == Spec => []OneRoutePerRequest
  <1>1. IInv => OneRoutePerRequest
    BY DEF IInv, HandshakeInv, OneRoutePerRequest
  <1> QED BY Invariance, <1>1, PTL

(* Neither a target nor a close command computed before a re-home acts     *)
(* after it.                                                               *)
THEOREM NothingStale == Spec => []NothingOutlivesRehome
  <1>1. IInv => NoTargetOutlivesRehome
    BY DEF IInv, TargetInv, NoTargetOutlivesRehome
  <1>2. IInv => NoCloseOutlivesRehome
    BY DEF IInv, GripperInv, NoCloseOutlivesRehome
  <1>3. IInv => NothingOutlivesRehome
    BY <1>1, <1>2 DEF NothingOutlivesRehome
  <1> QED BY Invariance, <1>3, PTL

(* An active tick always finds the mapper anchored. *)
THEOREM ActiveAnchored == Spec => ActiveTickIsAnchored
  <1>1. IInv /\ [Next]_vars =>
          [ppc = "decide" /\ teleopState' = "Active" => HasTarget]_vars
    <2> SUFFICES ASSUME IInv, Next, ppc = "decide", teleopState' = "Active"
                 PROVE  HasTarget \/ UNCHANGED vars
      OBVIOUS
    <2>1. CASE PlannerDecide
      BY <2>1, DecideEngages, XrAssumption DEF IInv, AnchorInv, HasTarget
    <2>2. CASE teleopState' = teleopState
      BY <2>2, XrAssumption DEF IInv, AnchorInv, HasTarget
    <2> QED
      BY <2>1, <2>2 DEF Next, Planner, PlannerInput, PlannerRead, PlannerLoadCompleted,
         PlannerInputXr,
         PlannerInputPolicy, PlannerPublish, PlannerExit, MainThread, StartRehome,
         FinishRoute, AbandonRoute, OpenGripper, PublishHome, CompleteRehome, PublishHold,
         ReleaseArm, RecoverReflex, ExitLoop, RtCallback, RtBegin, RtEnd, Environment,
         ReflexTrips, InhibitExpires, PlannerThrows, FatalException, RequestStop, planner
  <1> QED BY Invariance, <1>1, PTL DEF Spec, ActiveTickIsAnchored

-----------------------------------------------------------------------------
(* The bridge implements the service that button B offers.  One lemma per  *)
(* part of the bridge that serves a request or obeys the operator.         *)

(* An iteration asks for a re-home when none is outstanding. *)
LEMMA AskStep ==
  ASSUME IInv, PlannerInputXr
  PROVE  Service!Ask \/ UNCHANGED Service!vars
  <1>1. UNCHANGED <<completed, homed, towards, desiredGripper>>
    BY DEF PlannerInputXr, arm
  <1>2. PICK edge \in BOOLEAN : requested' = RequestRehome(edge)
    BY DEF PlannerInputXr
  <1>3. /\ requested \in Nat /\ completed \in Nat
        /\ completed <= requested /\ requested <= completed + 1
    BY DEF IInv, TypeOK, HandshakeInv
  <1>4. CASE edge /\ requested <= completed
    <2>1. requested = completed /\ requested' = requested + 1
      BY <1>2, <1>3, <1>4 DEF RequestRehome
    <2> QED BY <1>1, <2>1 DEF Service!Ask, Service!Idle
  <1>5. CASE ~(edge /\ requested <= completed)
    BY <1>1, <1>2, <1>5 DEF RequestRehome, Service!vars
  <1> QED BY <1>4, <1>5

(* An iteration gives the gripper a command only while no request is       *)
(* outstanding.                                                            *)
LEMMA GripStep ==
  ASSUME IInv, PlannerDecide
  PROVE  Service!Grip \/ UNCHANGED Service!vars
  <1>1. UNCHANGED <<requested, completed, homed, towards>>
    BY DEF PlannerDecide, arm
  <1>2. CASE RehomeRequested
    BY <1>1, <1>2 DEF PlannerDecide, Service!vars
  <1>3. CASE ~RehomeRequested
    <2>1. requested = completed /\ seen = completed
      BY <1>3 DEF IInv, TypeOK, HandshakeInv, PlannerInv, RehomeRequested
    <2>2. desiredGripper' = [command |-> tick.gripper, seen |-> seen]
      BY <1>3 DEF PlannerDecide
    <2> QED BY <1>1, <2>1, <2>2 DEF Service!Grip, Service!Idle
  <1> QED BY <1>2, <1>3

(* A cycle of the callback moves the arm towards a target of the operator's*)
(* only while no request is outstanding.                                   *)
LEMMA FollowStep ==
  ASSUME IInv, RtEnd
  PROVE  Service!Follow \/ Service!Halt
  <1>1. UNCHANGED <<requested, completed, homed, desiredGripper>>
    BY DEF RtEnd, shared
  <1>2. PICK obstructed \in BOOLEAN :
          towards' = IF ApplyMotion(obstructed) /\ ~ControlEnds
                       THEN rtTarget.stamp ELSE NoStamp
    BY DEF RtEnd
  <1>3. CASE towards'.some
    <2>1. ApplyMotion(obstructed) /\ towards' = rtTarget.stamp
      BY <1>2, <1>3 DEF NoStamp
    <2>2. rtTarget.fresh /\ LatchedPending = 0
      BY <2>1 DEF ApplyMotion, RehomePending
    <2>3. towards'.seen = completed
      BY <2>1, <2>2 DEF IInv, TargetInv
    <2>4. requested = completed
      BY <2>2 DEF LatchedPending, IInv, TypeOK, HandshakeInv
    <2> QED BY <1>1, <1>3, <2>3, <2>4 DEF Service!Follow, Service!Idle
  <1>4. CASE ~towards'.some
    BY <1>1, <1>4 DEF Service!Halt
  <1> QED BY <1>3, <1>4

(* The main thread drives the arm home, has the gripper opened and answers,*)
(* in this order; a reflex or an exception only halts the arm.             *)
LEMMA ServeStep ==
  ASSUME IInv, MainThread \/ FatalException
  PROVE  [Service!Next]_(Service!vars)
  <1> USE DEF shared, planner, rt, arm
  <1>1. /\ requested \in Nat /\ completed \in Nat /\ homed \in Nat
        /\ towards.some => mpc = "control"
        /\ job.kind # "policy"
    BY DEF IInv, TypeOK, TargetInv
  <1>2. CASE FinishRoute
    <2>1. /\ requested = completed + 1 /\ homed = completed /\ ~towards.some
          /\ homed' = homed + 1
          /\ UNCHANGED <<requested, completed, towards, desiredGripper>>
      BY <1>1, <1>2 DEF FinishRoute, IInv, HandshakeInv
    <2>2. Service!GoHome
      BY <1>1, <2>1 DEF Service!GoHome, Service!Idle
    <2> QED BY <2>2 DEF Service!Next
  <1>3. CASE OpenGripper
    <2>1. /\ homed = completed + 1 /\ desiredGripper' = [command |-> "Open", seen |-> completed]
          /\ UNCHANGED <<requested, completed, homed, towards>>
      BY <1>1, <1>3 DEF OpenGripper, IInv, HandshakeInv
    <2>2. Service!Open
      BY <1>1, <2>1 DEF Service!Open
    <2> QED BY <2>2 DEF Service!Next
  <1>4. CASE CompleteRehome
    <2>1. /\ requested = completed + 1 /\ homed = requested
          /\ desiredGripper.command # "Close"
          /\ completed' = requested
          /\ UNCHANGED <<requested, homed, towards, desiredGripper>>
      BY <1>1, <1>4 DEF CompleteRehome, IInv, HandshakeInv, GripperInv
    <2>2. Service!Answer
      BY <1>1, <2>1 DEF Service!Answer, Service!Idle
    <2> QED BY <2>2 DEF Service!Next
  <1>5. CASE RecoverReflex \/ FatalException
    <2>1. towards' = NoStamp /\ UNCHANGED <<requested, completed, homed, desiredGripper>>
      BY <1>5 DEF RecoverReflex, FatalException
    <2>2. Service!Halt
      BY <2>1 DEF Service!Halt, NoStamp
    <2> QED BY <2>2 DEF Service!Next
  <1>6. CASE \/ StartRehome \/ AbandonRoute \/ PublishHome \/ PublishHold
             \/ ReleaseArm \/ ExitLoop
    BY <1>6 DEF StartRehome, AbandonRoute, PublishHome, PublishHold, ReleaseArm,
       ExitLoop, Service!vars
  <1> QED BY <1>2, <1>3, <1>4, <1>5, <1>6 DEF MainThread

(* The bridge implements the service: requests are asked by the planner    *)
(* and answered by the main thread, commands obeyed by planner and         *)
(* callback, and all other steps are invisible.                            *)
THEOREM Refinement == Spec => ImplementsService
  <1>1. Init => Service!Init
    BY DEF Init, Service!Init, NoStamp
  <1>2. IInv /\ [Next]_vars => [Service!Next]_(Service!vars)
    <2> SUFFICES ASSUME IInv, [Next]_vars PROVE [Service!Next]_(Service!vars)
      OBVIOUS
    <2>1. CASE PlannerInputXr
      BY <2>1, AskStep DEF Service!Next
    <2>2. CASE PlannerDecide
      BY <2>2, GripStep DEF Service!Next
    <2>3. CASE RtEnd
      BY <2>3, FollowStep DEF Service!Next
    <2>4. CASE MainThread \/ FatalException
      BY <2>4, ServeStep
    <2>5. CASE UNCHANGED <<requested, completed, homed, towards, desiredGripper>>
      BY <2>5 DEF Service!vars
    <2>6. CASE \/ PlannerRead \/ PlannerLoadCompleted \/ PlannerInputPolicy
               \/ PlannerPublish \/ PlannerExit \/ RtBegin
      BY <2>5, <2>6 DEF PlannerRead, PlannerLoadCompleted, PlannerInputPolicy,
         PlannerPublish, PlannerExit, RtBegin, shared, arm
    <2>7. CASE \/ ReflexTrips \/ InhibitExpires \/ PlannerThrows \/ RequestStop
               \/ UNCHANGED vars
      BY <2>5, <2>7 DEF ReflexTrips, InhibitExpires, PlannerThrows, RequestStop,
         vars, shared, arm
    <2> QED
      BY <2>1, <2>2, <2>3, <2>4, <2>6, <2>7
         DEF Next, Planner, PlannerInput, RtCallback, Environment
  <1> QED BY <1>1, <1>2, Invariance, PTL DEF Spec, ImplementsService, Service!Spec
=============================================================================
