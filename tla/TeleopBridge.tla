---------------------------- MODULE TeleopBridge ----------------------------
(***************************************************************************)
(* The three actors of the teleop bridge that share the arm:               *)
(*                                                                         *)
(*   - the planner thread (PlannerLoop of franka_controller.cpp), which    *)
(*     turns operator input into planned targets at 100 Hz;                *)
(*   - the real-time callback libfranka runs once per millisecond inside   *)
(*     robot.control(), which turns the latest planned target into motion; *)
(*   - the main thread (FrankaTeleopController::Run), which owns the robot *)
(*     between two calls of robot.control() and then drives the arm home.  *)
(*                                                                         *)
(* They share three latest-value buffers and a handful of atomics, and no  *)
(* lock.  Each action below is what a thread does from one access of       *)
(* shared memory whose outcome another thread can change to the next one,  *)
(* so every order of those accesses is a behavior.                         *)
(*                                                                         *)
(* Poses are abstracted to where they come from.  `homed' counts the home  *)
(* routes the arm has finished, and a snapshot, an anchor or a target      *)
(* carries the value of `homed' it was derived from: a target is stale     *)
(* when its stamp is behind the arm.                                       *)
(***************************************************************************)
EXTENDS Naturals, TeleopStateMachine, GripperToggle

CONSTANTS
  ControlSource,   \* config control_source: "xr" or "policy"
  GripperMode,     \* config gripper.command_mode: "binary" or "analog"
  MaxRehomes,      \* bound: XR re-home requests the operator makes
  MaxReflexes,     \* bound: reflexes of the arm
  MayStop,         \* bound: whether the bridge is ever stopped, or fails
  MaxDisturbances, \* bound: cycles in which a held arm moves
  SettleCycles,    \* kRehomeStopSettledCycles
  InhibitTicks     \* planner iterations sure to end within a motion inhibit

ASSUME BridgeAssumption ==
  /\ ControlSource \in {"xr", "policy"}
  /\ GripperMode \in {"binary", "analog"}
  /\ MaxRehomes \in Nat
  /\ MaxReflexes \in Nat
  /\ MayStop \in BOOLEAN
  /\ MaxDisturbances \in Nat
  /\ SettleCycles \in Nat \ {0}
  /\ InhibitTicks \in Nat

VARIABLES
  \* shared between the threads
  robotState,     \* robot_state_buffer
  planned,        \* planned_target_buffer
  policyAction,   \* policy_action_buffer
  requested,      \* requested_rehome_request_id
  completed,      \* completed_rehome_request_id
  inProgress,     \* rehome_in_progress
  desiredGripper, \* desired_gripper_state, and who stored it
  stop,           \* stop_requested
  \* planner thread
  ppc,            \* what the planner does next
  tick,           \* the locals of one iteration
  seen,           \* last_seen_completed_rehome_request_id
  deadmanLatched, \* deadman_latched
  lastButtonB,    \* last_button_b
  teleopState,    \* state_machine
  gripper,        \* gripper_controller
  anchor,         \* mapper: anchor_initialized_, anchor_robot_pose_
  lastTarget,     \* last_valid_target_ns # 0, last_valid_desired_pose
  hasRecent,      \* has_recent_target
  \* real-time callback and main thread
  rpc,            \* what the callback does next
  rtTarget,       \* the callback's copy of the planned target
  pending,        \* pending_rehome_request_id
  pendingPolicy,  \* pending_policy_rehome_request_id
  donePolicy,     \* last_completed_policy_rehome_request_id
  settled,        \* rehome_settled_cycles
  inhibit,        \* 0 when now >= motion_inhibit_until_ns, see Inhibited
  mpc,            \* what the main thread does next
  job,            \* the request the main thread is serving: [kind, id]
  \* the arm
  homed,          \* home routes finished
  towards,        \* stamp of the target the arm is moving towards
  still,          \* joint velocities within the settle tolerance
  reflex,         \* robot_mode is kReflex
  reflexes,       \* how much of MaxReflexes is used
  disturbances    \* how much of MaxDisturbances is used

shared  == <<robotState, planned, policyAction, requested, completed,
             inProgress, desiredGripper, stop>>
planner == <<ppc, tick, seen, deadmanLatched, lastButtonB, teleopState,
             gripper, anchor, lastTarget, hasRecent>>
rt      == <<rpc, rtTarget, pending, pendingPolicy, settled>>
main    == <<mpc, job, donePolicy, inhibit>>
arm     == <<homed, towards, still, reflex, reflexes, disturbances>>
vars    == <<shared, planner, rt, main, arm>>

-----------------------------------------------------------------------------
(* Data.                                                                   *)

(* Where a pose comes from: `base' is the value of homed it was derived    *)
(* from, `seen' the re-home completion the planner had observed by then,   *)
(* or the request id of the policy packet it was taken from.               *)
Stamp == [some : BOOLEAN, base : Nat, seen : Nat]
NoStamp == [some |-> FALSE, base |-> 0, seen |-> 0]
StampOf(base, completion) == [some |-> TRUE, base |-> base, seen |-> completion]

(* struct PlannedTarget; `hold' is control_mode = kHold. *)
Target(active, fresh, hold, stamp) ==
  [active |-> active, fresh |-> fresh, hold |-> hold, stamp |-> stamp]
HoldTarget(active)  == Target(active, FALSE, TRUE, NoStamp)
FreshTarget(stamp)  == Target(TRUE, TRUE, FALSE, stamp)
PlannedTarget ==
  [active : BOOLEAN, fresh : BOOLEAN, hold : BOOLEAN, stamp : Stamp]

(* struct RobotSnapshot: the arm's stamp, and robot_ok. *)
RobotSnapshot == [at : Nat, ok : BOOLEAN]

(* struct PolicyActionCommand; `valid' is timestamp_ns # 0. *)
PolicyActionCommand ==
  [valid : BOOLEAN, enabled : BOOLEAN, rehome : BOOLEAN, id : Nat,
   gripper : GripperCommand, base : Nat]
NoPolicyAction ==
  [valid |-> FALSE, enabled |-> FALSE, rehome |-> FALSE, id |-> 0,
   gripper |-> "Open", base |-> 0]

(* The part of struct XRCommand the planner branches on.  The control      *)
(* trigger is in one of three bands: at or below the release threshold, at *)
(* or above the engage threshold, or between them.  The gripper trigger is *)
(* in TriggerOutcomes.                                                     *)
XRCommand == [control : {"low", "between", "high"}, buttonB : BOOLEAN]

NoTick == [snapshot |-> [at |-> 0, ok |-> TRUE], policy |-> NoPolicyAction,
           healthy |-> FALSE, gripper |-> "Open", out |-> HoldTarget(FALSE)]

Job == [kind : {"none", "xr", "policy"}, id : Nat]
NoJob == [kind |-> "none", id |-> 0]

PlannerPC == {"read", "loadCompleted", "input", "decide", "publish", "exited"}
RtPC      == {"begin", "end"}
MainPC    == {"control", "dispatch", "route", "openGripper", "publishHome",
              "complete", "publishHold", "release", "exited"}

-----------------------------------------------------------------------------
(* Startup: the arm has been driven home, its snapshot and a hold target   *)
(* are published before any thread starts.  The gripper was measured, and  *)
(* the planner takes over what was measured.                               *)
Init ==
  /\ robotState = [at |-> 0, ok |-> TRUE]
  /\ planned = HoldTarget(FALSE)
  /\ policyAction = NoPolicyAction
  /\ requested = 0 /\ completed = 0 /\ inProgress = FALSE
  /\ desiredGripper = [command |-> "Open", seen |-> 0]
  /\ stop = FALSE
  /\ ppc = "read" /\ tick = NoTick /\ seen = 0
  /\ deadmanLatched = FALSE /\ lastButtonB = FALSE
  /\ teleopState = "Disconnected"
  /\ \E measured \in {"Open", "Close", "Fault"} : gripper = Reset(measured)
  /\ anchor = NoStamp /\ lastTarget = NoStamp /\ hasRecent = FALSE
  /\ rpc = "begin" /\ rtTarget = HoldTarget(FALSE)
  /\ pending = 0 /\ pendingPolicy = 0 /\ donePolicy = 0 /\ settled = 0
  /\ inhibit = 0
  /\ mpc = "control" /\ job = NoJob
  /\ homed = 0 /\ towards = NoStamp /\ still = TRUE /\ reflex = FALSE
  /\ reflexes = 0 /\ disturbances = 0

-----------------------------------------------------------------------------
(* The motion inhibit lasts 400 ms, a planner iteration is due every 10 ms.*)
(* While the inhibit is on, `inhibit' is one more than the iterations that *)
(* have still to end before it can expire.                                 *)
Inhibited == InhibitTicks + 1

(* The planner thread.  One iteration is five steps.                       *)

(* Read the input and the robot snapshot.  The XR command is chosen in     *)
(* PlannerInput, its first use: nothing else reads that buffer.            *)
PlannerRead ==
  /\ ppc = "read" /\ ~stop
  /\ tick' = [NoTick EXCEPT !.snapshot = robotState, !.policy = policyAction]
  /\ ppc' = "loadCompleted"
  /\ UNCHANGED <<shared, seen, deadmanLatched, lastButtonB, teleopState, gripper,
                 anchor, lastTarget, hasRecent, rt, main, arm>>

(* Load the completed id; on a change drop what was cached before the      *)
(* re-home.                                                                *)
PlannerLoadCompleted ==
  /\ ppc = "loadCompleted"
  /\ seen' = completed
  /\ IF completed # seen
       THEN /\ gripper' = Reset("Open")
            /\ hasRecent' = FALSE
            /\ lastTarget' = NoStamp
       ELSE UNCHANGED <<gripper, hasRecent, lastTarget>>
  /\ ppc' = "input"
  /\ UNCHANGED <<shared, tick, deadmanLatched, lastButtonB, teleopState, anchor,
                 rt, main, arm>>

(* The latch with hysteresis on the control trigger. *)
LatchDeadman(latched, healthy, control) ==
  healthy /\ (control = "high" \/ (control = "between" /\ latched))

(* A rising edge of B asks for one re-home unless one is outstanding. *)
RequestRehome(edge) ==
  IF edge /\ requested <= completed THEN completed + 1 ELSE requested

(* What the trigger can do to the toggle controller, and the gripper state *)
(* this tick then wants.  In analog mode the trigger is mapped to a width, *)
(* a close at or below the midpoint, and the controller is not used.       *)
TriggerOutcomes ==
  IF GripperMode = "binary"
    THEN {[controller |-> g, wanted |-> g.current] :
            g \in {UpdateDesiredState(gripper, band, elapsed) :
                     band \in TriggerBand, elapsed \in BOOLEAN}}
    ELSE {[controller |-> gripper, wanted |-> command] : command \in GripperCommand}

(* Evaluate stream health, gripper trigger, deadman and button B.  Health  *)
(* is a free choice: the packet may be of any age.  Both thresholds of     *)
(* time (packet age, gripper debounce) are free for the same reason.       *)
PlannerInputXr ==
  /\ ControlSource = "xr" /\ ppc = "input"
  /\ \E cmd \in XRCommand, healthy \in BOOLEAN, trigger \in TriggerOutcomes :
       LET buttonB == healthy /\ cmd.buttonB
           edge    == buttonB /\ ~lastButtonB
       IN  /\ RequestRehome(edge) <= MaxRehomes
           /\ gripper' = trigger.controller
           /\ tick' = [tick EXCEPT !.healthy = healthy, !.gripper = trigger.wanted]
           /\ deadmanLatched' = LatchDeadman(deadmanLatched, healthy, cmd.control)
           /\ lastButtonB' = buttonB
           /\ requested' = RequestRehome(edge)
  /\ ppc' = "decide"
  /\ UNCHANGED <<robotState, planned, policyAction, completed, inProgress,
                 desiredGripper, stop, seen, teleopState, anchor, lastTarget,
                 hasRecent, rt, main, arm>>

PlannerInputPolicy ==
  /\ ControlSource = "policy" /\ ppc = "input"
  /\ \E healthy \in BOOLEAN :
       /\ healthy => tick.policy.valid
       /\ tick' = [tick EXCEPT !.healthy = healthy, !.gripper = tick.policy.gripper]
       /\ deadmanLatched' = (healthy /\ tick.policy.enabled /\ ~tick.policy.rehome)
  /\ ppc' = "decide"
  /\ UNCHANGED <<shared, seen, lastButtonB, teleopState, gripper, anchor,
                 lastTarget, hasRecent, rt, main, arm>>

PlannerInput ==
  IF ControlSource = "xr" THEN PlannerInputXr ELSE PlannerInputPolicy

(* Mutation: only the main thread's flag counts. *)
RehomeUnderWay == inProgress

(* A re-home is outstanding as this tick sees it: against the completed id *)
(* loaded at the start of the tick, and the main thread's own flag.        *)
RehomeRequested == requested > seen \/ inProgress

StampOfSnapshot == StampOf(tick.snapshot.at, seen)

(* The tick has nothing to execute: hold, and prepare the next anchor.     *)
(* Without a re-home the anchor is the last valid target if there is one.  *)
DecideInactive ==
  /\ tick' = [NoTick EXCEPT !.out = HoldTarget(FALSE)]
  /\ hasRecent' = FALSE
  /\ anchor' = IF ~RehomeRequested /\ ControlSource = "xr" /\ tick.healthy
                 THEN IF lastTarget.some THEN lastTarget ELSE StampOfSnapshot
                 ELSE NoStamp
  /\ UNCHANGED lastTarget

(* Without a target of its own a tick reuses the last one for as long as   *)
(* the grace period lasts.                                                 *)
ReuseOrHold(inGrace) ==
  IF hasRecent /\ inGrace THEN FreshTarget(lastTarget) ELSE HoldTarget(TRUE)

(* The provenance of the pose this tick computes. *)
TargetStamp ==
  IF ControlSource = "policy"
    THEN StampOf(tick.policy.base, tick.policy.id)
    ELSE anchor

(* ComputeTargetPose has a target once the mapper is anchored, a policy    *)
(* tick while the packet is enabled.                                       *)
HasTarget ==
  IF ControlSource = "policy"
    THEN tick.healthy /\ tick.policy.enabled /\ ~tick.policy.rehome
    ELSE anchor.some

(* The tick executes: map, filter for safety, solve the kinematics.  Each  *)
(* of the three can fail.                                                  *)
DecideActive ==
  \E outcome \in IF HasTarget THEN {"target", "unsafe", "ikFailed"} ELSE {"noTarget"},
     inGrace \in BOOLEAN :
    /\ tick' = [NoTick EXCEPT !.out =
                  CASE outcome = "target" -> FreshTarget(TargetStamp)
                    [] outcome = "unsafe" -> HoldTarget(TRUE)
                    [] OTHER              -> ReuseOrHold(inGrace)]
    /\ hasRecent' = CASE outcome = "target" -> TRUE
                      [] outcome = "unsafe" -> FALSE
                      [] OTHER              -> hasRecent
    /\ lastTarget' = IF outcome = "target" THEN TargetStamp ELSE lastTarget
    /\ anchor' = IF outcome = "noTarget" THEN StampOfSnapshot ELSE anchor

(* Decide whether a re-home preempts the tick, publish the gripper state   *)
(* (never during a re-home), step the clutch automaton, compute the target.*)
(* Of the iteration's locals only the target is used after this.           *)
PlannerDecide ==
  /\ ppc = "decide"
  /\ deadmanLatched' = (deadmanLatched /\ ~RehomeRequested)
  /\ desiredGripper' = IF RehomeRequested THEN desiredGripper
                       ELSE [command |-> tick.gripper, seen |-> seen]
  /\ teleopState' = Update(teleopState,
                      [xrStreamHealthy |-> tick.healthy,
                       deadmanPressed |-> deadmanLatched',
                       robotOk |-> tick.snapshot.ok,
                       faultRequested |-> FALSE,
                       clearFaultRequested |-> TRUE])
  /\ IF teleopState' = "Active" /\ ~RehomeRequested THEN DecideActive ELSE DecideInactive
  /\ ppc' = "publish"
  /\ UNCHANGED <<robotState, planned, policyAction, requested, completed,
                 inProgress, stop, seen, lastButtonB, gripper, rt, main, arm>>

(* Publish the target and sleep; the iteration's locals are gone. *)
PlannerPublish ==
  /\ ppc = "publish"
  /\ planned' = tick.out
  /\ tick' = NoTick
  /\ inhibit' = IF inhibit > 1 THEN inhibit - 1 ELSE inhibit
  /\ ppc' = "read"
  /\ UNCHANGED <<robotState, policyAction, requested, completed, inProgress,
                 desiredGripper, stop, seen, deadmanLatched, lastButtonB,
                 teleopState, gripper, anchor, lastTarget, hasRecent, rt, mpc,
                 job, donePolicy, arm>>

PlannerExit ==
  /\ ppc = "read" /\ stop
  /\ ppc' = "exited"
  /\ UNCHANGED <<shared, tick, seen, deadmanLatched, lastButtonB, teleopState,
                 gripper, anchor, lastTarget, hasRecent, rt, main, arm>>

(* An exception anywhere in an iteration ends the planner and stops the    *)
(* bridge.                                                                 *)
PlannerThrows ==
  /\ MayStop /\ ppc # "exited"
  /\ ppc' = "exited" /\ tick' = NoTick
  /\ stop' = TRUE
  /\ UNCHANGED <<robotState, planned, policyAction, requested, completed,
                 inProgress, desiredGripper, seen, deadmanLatched, lastButtonB,
                 teleopState, gripper, anchor, lastTarget, hasRecent, rt, main,
                 arm>>

-----------------------------------------------------------------------------
(* The real-time callback.  It runs only inside robot.control().           *)

Running == mpc = "control"

(* Mutation: an id already served counts as new. *)
RepeatedPolicyRequest ==
  ControlSource = "policy" /\ policyAction.rehome /\ policyAction.id >= donePolicy

(* The newest packet asks for a re-home that has not been served. *)
NewPolicyRequest ==
  /\ ControlSource = "policy"
  /\ policyAction.rehome /\ policyAction.id # 0 /\ policyAction.id > donePolicy

LatchedPolicy == IF NewPolicyRequest THEN policyAction.id ELSE pendingPolicy

(* Publish the robot snapshot, note a new policy re-home request, read the *)
(* planned target.                                                         *)
RtBegin ==
  /\ Running /\ rpc = "begin"
  /\ robotState' = [at |-> homed, ok |-> ~reflex]
  /\ pendingPolicy' = LatchedPolicy
  /\ rtTarget' = planned
  /\ rpc' = "end"
  /\ UNCHANGED <<planned, policyAction, requested, completed, inProgress,
                 desiredGripper, stop, planner, pending, settled, main, arm>>

(* Mutation: a request already completed is latched. *)
LatchedServed ==
  IF pending = 0 /\ requested >= completed THEN requested ELSE pending

(* The XR request this control loop serves, latched when first seen. *)
LatchedPending ==
  IF pending = 0 /\ requested > completed THEN requested ELSE pending

RehomePending == LatchedPending # 0 \/ pendingPolicy # 0

(* Mutation: motion is not inhibited after a re-home or a reflex. *)
ApplyUninhibited(obstructed) ==
  /\ ~RehomePending
  /\ rtTarget.active /\ rtTarget.fresh /\ ~rtTarget.hold
  /\ ~obstructed

(* Mutation: a pending re-home does not keep the arm from moving. *)
ApplyDuringRehome(obstructed) ==
  /\ rtTarget.active /\ rtTarget.fresh /\ ~rtTarget.hold
  /\ ~obstructed
  /\ inhibit = 0

(* Whether this cycle moves the arm towards the target.  `obstructed' is a *)
(* collision, a sustained contact or the policy tracking inhibit.          *)
ApplyMotion(obstructed) ==
  /\ ~RehomePending
  /\ rtTarget.active /\ rtTarget.fresh /\ ~rtTarget.hold
  /\ ~obstructed
  /\ inhibit = 0

(* Mutation: the count starts over in every cycle. *)
SettledAfresh == IF ~RehomePending \/ ~still THEN 0 ELSE 1

SettledCycles == IF ~RehomePending \/ ~still THEN 0 ELSE settled + 1

(* Applied motion sets the arm moving; held, it comes to rest, except in   *)
(* the cycles, MaxDisturbances in all, in which it is still coasting or is *)
(* pushed.                                                                 *)
ArmResponds(apply) ==
  \/ still' = ~apply /\ UNCHANGED disturbances
  \/ /\ ~apply /\ disturbances < MaxDisturbances
     /\ still' = FALSE
     /\ disturbances' = disturbances + 1

(* Mutation: a stop does not end control. *)
ControlEndsSettled == RehomePending /\ SettledCycles >= SettleCycles

(* This cycle is the last: a pending re-home has found the arm at rest for *)
(* long enough, or a stop is requested.                                    *)
ControlEnds == (RehomePending /\ SettledCycles >= SettleCycles) \/ stop

(* Load the re-home ids, move or hold, count settled cycles, and end       *)
(* control when there is nothing more to do in it.                         *)
RtEnd ==
  /\ Running /\ rpc = "end"
  /\ \E obstructed \in BOOLEAN :
       LET apply == ApplyMotion(obstructed)
       IN  /\ ArmResponds(apply)
           /\ towards' = IF apply /\ ~ControlEnds THEN rtTarget.stamp ELSE NoStamp
  /\ settled' = IF ControlEnds THEN 0 ELSE SettledCycles
  /\ mpc' = IF ControlEnds THEN "dispatch" ELSE "control"
  /\ pending' = LatchedPending
  /\ rtTarget' = HoldTarget(FALSE)
  /\ rpc' = "begin"
  /\ UNCHANGED <<shared, planner, pendingPolicy, job, donePolicy, inhibit, homed,
                 reflex, reflexes>>

(* The callback reads the clock once, as it begins. *)
InhibitExpires ==
  /\ Running /\ rpc = "begin" /\ inhibit = 1
  /\ inhibit' = 0
  /\ UNCHANGED <<shared, planner, rt, mpc, job, donePolicy, arm>>

-----------------------------------------------------------------------------
(* The main thread, between two calls of robot.control().                  *)

(* The main loop goes round, unless stop is set; a new call of             *)
(* robot.control() starts with fresh locals.                               *)
Reenter ==
  /\ mpc' = IF stop THEN "exited" ELSE "control"
  /\ pending' = 0 /\ settled' = 0 /\ job' = NoJob

(* Control has ended: take up the pending request, policy before XR.  The  *)
(* policy request is consumed here, before it is served.                   *)
StartRehome ==
  /\ mpc = "dispatch" /\ ~stop
  /\ mpc' = "route"
  /\ IF pendingPolicy # 0
       THEN /\ job' = [kind |-> "policy", id |-> pendingPolicy]
            /\ pendingPolicy' = 0
            /\ UNCHANGED inProgress
       ELSE /\ job' = [kind |-> "xr", id |-> pending]
            /\ inProgress' = TRUE
            /\ UNCHANGED pendingPolicy
  /\ UNCHANGED <<robotState, planned, policyAction, requested, completed,
                 desiredGripper, stop, planner, rpc, rtTarget, pending, settled,
                 donePolicy, inhibit, arm>>

(* MoveToSafeHomeRoute runs to its end: lift, nullspace pose, start pose.  *)
FinishRoute ==
  /\ mpc = "route" /\ ~reflex /\ ~stop
  /\ homed' = homed + 1
  /\ mpc' = "openGripper"
  /\ UNCHANGED <<shared, planner, rt, job, donePolicy, inhibit, towards, still,
                 reflex, reflexes, disturbances>>

(* A stop ends the route; both loops leave. *)
AbandonRoute ==
  /\ mpc = "route" /\ ~reflex /\ stop
  /\ inProgress' = IF job.kind = "xr" THEN FALSE ELSE inProgress
  /\ mpc' = "exited"
  /\ UNCHANGED <<robotState, planned, policyAction, requested, completed,
                 desiredGripper, stop, planner, rt, job, donePolicy, inhibit, arm>>

(* Mutation: a served policy request is not booked. *)
DonePolicyUnbooked == donePolicy

DonePolicy == IF job.kind = "policy" THEN job.id ELSE donePolicy

(* The gripper is told to open; the policy path also books the request and *)
(* inhibits motion here.                                                   *)
OpenGripper ==
  /\ mpc = "openGripper"
  /\ desiredGripper' = [command |-> "Open", seen |-> completed]
  /\ donePolicy' = DonePolicy
  /\ inhibit' = IF job.kind = "policy" THEN Inhibited ELSE inhibit
  /\ mpc' = "publishHome"
  /\ UNCHANGED <<robotState, planned, policyAction, requested, completed,
                 inProgress, stop, planner, rt, job, arm>>

PublishHome ==
  /\ mpc = "publishHome"
  /\ robotState' = [at |-> homed, ok |-> ~reflex]
  /\ mpc' = IF job.kind = "xr" THEN "complete" ELSE "publishHold"
  /\ UNCHANGED <<planned, policyAction, requested, completed, inProgress,
                 desiredGripper, stop, planner, rt, job, donePolicy, inhibit, arm>>

CompleteRehome ==
  /\ mpc = "complete"
  /\ completed' = job.id
  /\ inhibit' = Inhibited
  /\ mpc' = "publishHold"
  /\ UNCHANGED <<robotState, planned, policyAction, requested, inProgress,
                 desiredGripper, stop, planner, rt, job, donePolicy, arm>>

(* Overwrite the planned target with a hold.  The policy path continues    *)
(* the control loop from here.                                             *)
PublishHold ==
  /\ mpc = "publishHold"
  /\ planned' = HoldTarget(FALSE)
  /\ IF job.kind = "xr" THEN mpc' = "release" /\ UNCHANGED <<pending, settled, job>>
                        ELSE Reenter
  /\ UNCHANGED <<robotState, policyAction, requested, completed, inProgress,
                 desiredGripper, stop, planner, rpc, rtTarget, pendingPolicy,
                 donePolicy, inhibit, arm>>

ReleaseArm ==
  /\ mpc = "release"
  /\ inProgress' = FALSE
  /\ Reenter
  /\ UNCHANGED <<robotState, planned, policyAction, requested, completed,
                 desiredGripper, stop, planner, rpc, rtTarget, pendingPolicy,
                 donePolicy, inhibit, arm>>

(* robot.control(), or the route, threw a reflex: recover and re-enter the *)
(* control loop with motion inhibited.  What the iteration held in locals  *)
(* is lost, the request being served among it.                             *)
RecoverReflex ==
  /\ mpc \in {"control", "route"} /\ rpc = "begin" /\ reflex
  /\ reflex' = FALSE
  /\ inhibit' = Inhibited
  /\ towards' = NoStamp
  /\ Reenter
  /\ UNCHANGED <<shared, planner, rpc, rtTarget, pendingPolicy, donePolicy, homed,
                 still, reflexes, disturbances>>

(* Control has returned because of a stop. *)
ExitLoop ==
  /\ mpc = "dispatch" /\ stop
  /\ mpc' = "exited"
  /\ UNCHANGED <<shared, planner, rt, job, donePolicy, inhibit, arm>>

(* Any other exception, or a recovery that fails, ends Run, which stops    *)
(* the threads.                                                            *)
FatalException ==
  /\ MayStop /\ mpc # "exited" /\ rpc = "begin"
  /\ mpc' = "exited"
  /\ stop' = TRUE
  /\ towards' = NoStamp
  /\ UNCHANGED <<robotState, planned, policyAction, requested, completed,
                 inProgress, desiredGripper, planner, rt, job, donePolicy, inhibit,
                 homed, still, reflex, reflexes, disturbances>>

-----------------------------------------------------------------------------
(* The environment: reflexes of the arm, exceptions, the stop signal.  The *)
(* policy packets come from PolicyTeleop.                                  *)

ReflexTrips ==
  /\ mpc \in {"control", "route"} /\ ~reflex /\ reflexes < MaxReflexes
  /\ reflex' = TRUE
  /\ still' = TRUE
  /\ reflexes' = reflexes + 1
  /\ UNCHANGED <<shared, planner, rt, main, homed, towards, disturbances>>

RequestStop ==
  /\ MayStop /\ ~stop
  /\ stop' = TRUE
  /\ UNCHANGED <<robotState, planned, policyAction, requested, completed,
                 inProgress, desiredGripper, planner, rt, main, arm>>

-----------------------------------------------------------------------------
Planner ==
  \/ PlannerRead \/ PlannerLoadCompleted \/ PlannerInput
  \/ PlannerDecide \/ PlannerPublish \/ PlannerExit

RtCallback == RtBegin \/ RtEnd

MainThread ==
  \/ StartRehome \/ FinishRoute \/ AbandonRoute \/ OpenGripper \/ PublishHome
  \/ CompleteRehome \/ PublishHold \/ ReleaseArm \/ RecoverReflex \/ ExitLoop

Environment ==
  \/ ReflexTrips \/ InhibitExpires
  \/ PlannerThrows \/ FatalException \/ RequestStop

Next == Planner \/ RtCallback \/ MainThread \/ Environment

Spec == Init /\ [][Next]_vars
=============================================================================
