------------------------------ MODULE ArmMotion ------------------------------
(***************************************************************************)
(* How a target of the planner becomes motion of the arm: what the planner *)
(* can ask for, the generator of JointTrajectory that the callback runs in *)
(* every cycle, and the route of a re-home, after which the generator must *)
(* start from where the arm is.  TeleopBridge has the decisions (when to   *)
(* move, when to go home); here are the positions.                         *)
(*                                                                         *)
(* The robot takes up every commanded position (libfranka's rate limiter   *)
(* and filter change nothing), each joint is an axis of its own (kinematics*)
(* are left out), and collisions, contacts, tracking faults and the wait   *)
(* after a recovery are one flag.                                          *)
(***************************************************************************)
EXTENDS JointTrajectory

CONSTANTS
  Margin,           \* kJointLimitMarginRad, which is taken off the limits
  IkReach,          \* how far inverse kinematics may go: planner_substeps steps
  MaxJointDelta,    \* max_joint_delta_rad
  NullspaceHome, StartHome,  \* the two goals of the route, as configured
  ArrivalTolerance, \* kStartupHomeArrivalToleranceRad
  Slow,             \* claim: what the velocity falls below without motion
  CoastTime         \* claim: and the cycles that takes at the most

ASSUME MotionAssumption ==
  /\ Margin \in Nat
  /\ IkReach \in Nat /\ MaxJointDelta \in Nat /\ ArrivalTolerance \in Nat
  /\ NullspaceHome \in [Joints -> Int] /\ StartHome \in [Joints -> Int]
  /\ Slow \in Nat /\ CoastTime \in Nat

(* What the damping takes off a joint that is as fast as Slow. *)
SlowBrake ==
  LET asked == (HoldDamping * Slow) \div CyclesPerSecond
  IN  IF asked < MaxAcceleration THEN asked ELSE MaxAcceleration

(* The damping is weak for a cycle (12 against 1000), its demand changes   *)
(* by no more than a jerk in a cycle (12 * 6 <= 80 as configured), and it  *)
(* still slows down a joint that is as fast as Slow.  CoastTime allows for *)
(* a joint that decelerates when motion is taken away and swings on in the *)
(* other direction: the acceleration is used up three times by the jerk    *)
(* limit, and twice the full velocity by SlowBrake.                        *)
ASSUME CoastAssumption ==
  /\ HoldDamping < CyclesPerSecond
  /\ HoldDamping * MaxAcceleration <= MaxJerk * CyclesPerSecond
  /\ HoldDamping * Slow >= CyclesPerSecond
  /\ 3 * MaxAcceleration * SlowBrake + 2 * MaxVelocity * MaxJerk + MaxJerk * SlowBrake
       <= CoastTime * (MaxJerk * SlowBrake)

VARIABLES
  posture,   \* q_d: the joint positions commanded last
  gen,       \* trajectory_generator
  velocity,  \* what the last cycle made of the joints' velocities
  planned,   \* the target buffer
  inhibited, \* the callback may not move, for another reason than a re-home
  rehoming,  \* a re-home is pending
  stage,     \* what the main thread runs: the control loop or the route
  coasted    \* history: cycles without motion, up to CoastTime

vars == <<posture, gen, velocity, planned, inhibited, rehoming, stage, coasted>>

(* Where the arm can be: in the margin only when it was not sent there. *)
Reachable(j) == (Lower[j] - Margin)..(Upper[j] + Margin)
Postures == {q \in [Joints -> UNION {Reachable(j) : j \in Joints}] :
               \A j \in Joints : q[j] \in Reachable(j)}

InLimits(q) == \A j \in Joints : Lower[j] <= q[j] /\ q[j] <= Upper[j]

Standstill == [j \in Joints |-> 0]

Hold(q) == [target |-> q, moves |-> FALSE]

Init ==
  /\ posture = ClampToJointLimits(StartHome)
  /\ gen = Reset /\ velocity = Standstill
  /\ planned = Hold(posture)
  /\ inhibited = FALSE /\ rehoming = FALSE
  /\ stage = "control" /\ coasted = 0

-----------------------------------------------------------------------------
(* The planner. *)

Within(q, reach) ==
  {ClampToJointLimits(p) : p \in {p \in Postures : \A j \in Joints : Abs(p[j] - q[j]) <= reach}}

(* What inverse kinematics may find: every substep moves each joint by at  *)
(* most a step and ends within the limits; the direction is left open.     *)
SolveIkStep(q) == Within(ClampToJointLimits(q), IkReach)

(* What a policy may ask for; the limits on the distance of all joints     *)
(* together and on the pose only reject more.                              *)
ValidatePolicyJointTarget(q) ==
  {p \in Postures : InLimits(p) /\ \A j \in Joints : Abs(p[j] - q[j]) <= MaxJointDelta}

(* The planner's snapshot of the arm may be of any time before. *)
Targets == UNION {SolveIkStep(q) \cup ValidatePolicyJointTarget(q) : q \in Postures}

Moving == planned.moves /\ ~inhibited /\ ~rehoming

Plan ==
  /\ planned' \in {Hold(posture)} \cup [target : Targets, moves : {TRUE}]
  /\ UNCHANGED <<posture, gen, velocity, inhibited, rehoming, stage, coasted>>

-----------------------------------------------------------------------------
(* The callback and the main thread. *)

Inhibit ==
  /\ inhibited' = ~inhibited
  /\ UNCHANGED <<posture, gen, velocity, planned, rehoming, stage, coasted>>

RequestRehome ==
  /\ stage = "control" /\ ~rehoming
  /\ rehoming' = TRUE
  /\ UNCHANGED <<posture, gen, velocity, planned, inhibited, stage, coasted>>

Cycle ==
  /\ stage = "control" /\ ~rehoming
  /\ gen' = Update(gen, planned.target, posture, Moving)
  /\ posture' = Commanded(gen')
  /\ velocity' = [j \in Joints |-> gen'.ref[j].dq]
  /\ coasted' = IF Moving THEN 0 ELSE IF coasted < CoastTime THEN coasted + 1 ELSE coasted
  /\ UNCHANGED <<planned, inhibited, rehoming, stage>>

(* While a re-home is pending a cycle commands q_d again, at once, and     *)
(* leaves the generator alone.                                             *)
RepeatPosture ==
  /\ stage = "control" /\ rehoming
  /\ velocity' = Standstill
  /\ UNCHANGED <<posture, gen, planned, inhibited, rehoming, stage, coasted>>

(* Mutation: the generator goes on where it was. *)
ResetForgotten == gen

AfterReset == Reset

(* The arm rests: the control loop ends, and the route begins with a lift  *)
(* in Cartesian space.                                                     *)
MoveToLiftPose ==
  /\ stage = "control" /\ rehoming /\ velocity = Standstill
  /\ stage' = "nullspace"
  /\ posture' \in Postures
  /\ gen' = AfterReset /\ coasted' = 0
  /\ UNCHANGED <<velocity, planned, inhibited, rehoming>>

(* A goal that is near enough is not gone to. *)
MoveToHomePose(goal) ==
  LET clamped == ClampToJointLimits(goal)
  IN  posture' = IF \A j \in Joints : Abs(clamped[j] - posture[j]) < ArrivalTolerance
                 THEN posture ELSE clamped

MoveToNullspace ==
  /\ stage = "nullspace"
  /\ MoveToHomePose(NullspaceHome)
  /\ stage' = "start"
  /\ UNCHANGED <<gen, velocity, planned, inhibited, rehoming, coasted>>

MoveToStart ==
  /\ stage = "start"
  /\ MoveToHomePose(StartHome)
  /\ planned' = Hold(posture')
  /\ inhibited' = TRUE /\ rehoming' = FALSE
  /\ stage' = "control"
  /\ UNCHANGED <<gen, velocity, coasted>>

(* A reflex, in the control loop or on the route: the arm may be anywhere  *)
(* when it has been recovered, and the re-home is still pending.           *)
Reflex ==
  /\ posture' \in Postures
  /\ gen' = AfterReset /\ velocity' = Standstill
  /\ inhibited' = TRUE /\ stage' = "control" /\ coasted' = 0
  /\ UNCHANGED <<planned, rehoming>>

Next == \/ Plan \/ Inhibit \/ RequestRehome \/ Cycle \/ RepeatPosture
        \/ MoveToLiftPose \/ MoveToNullspace \/ MoveToStart \/ Reflex

Spec == Init /\ [][Next]_vars

-----------------------------------------------------------------------------
(* The references stay within the limits of velocity and acceleration. *)
TypeOK ==
  /\ posture \in [Joints -> Int]
  /\ velocity \in [Joints -> -MaxVelocity..MaxVelocity]
  /\ planned \in [target : [Joints -> Int], moves : BOOLEAN]
  /\ inhibited \in BOOLEAN /\ rehoming \in BOOLEAN
  /\ stage \in {"control", "nullspace", "start"} /\ coasted \in 0..CoastTime
  /\ gen \in [initialized : BOOLEAN, hold : BOOLEAN, ref : [Joints -> References]]

(* The step limit bounds what a cycle commands relative to where the arm   *)
(* is: also in the first cycle after a re-home or a recovery, when the     *)
(* generator still holds the reference of before.  (An arm that was left   *)
(* in the margin of a limit is another matter: it is sent back to the      *)
(* limit at once.)                                                         *)
NoJump ==
  [][Cycle /\ InLimits(posture) =>
       \A j \in Joints : Abs(posture'[j] - posture[j]) <= StepLimit]_vars

(* The callback never takes a joint out of its limits, nor farther out     *)
(* than it found it.                                                       *)
LimitsKept ==
  [][Cycle => \A j \in Joints :
       \/ Lower[j] <= posture'[j] /\ posture'[j] <= Upper[j]
       \/ posture'[j] = posture[j]]_vars

(* While the arm holds, the reference is at rest, so that the hold band    *)
(* never cuts off a velocity on its way through.                           *)
HoldIsAtRest == gen.hold => \A j \in Joints : gen.ref[j].dq = 0 /\ gen.ref[j].ddq = 0

(* Every cycle changes the velocity by no more than the acceleration limit,*)
(* while the arm follows a target and when motion is taken away at full    *)
(* speed by a release, a contact or a collision: but for a joint that      *)
(* meets its limit or would pass its target, which stop there, for one     *)
(* that is slow enough to be held, and for a re-home that becomes pending, *)
(* which stops the whole arm within one cycle, from any velocity.          *)
ChangesGently ==
  [][Cycle \/ RepeatPosture => \A j \in Joints :
       \/ Abs(velocity'[j] - velocity[j]) <= MaxAcceleration
       \/ gen'.ref[j].q \in {Lower[j], Upper[j]}
       \/ Moving /\ gen'.ref[j].q = planned.target[j] /\ posture[j] # planned.target[j]
       \/ Moving /\ gen'.hold /\ Abs(velocity[j]) <= HoldVelocity
       \/ rehoming /\ velocity'[j] = 0]_vars

(* When no motion has been applied for CoastTime cycles every joint is     *)
(* slow and remains so, whatever it was doing before: the damping wears    *)
(* the velocity down although it is weak, although jerk and acceleration   *)
(* limits delay it, and although the joint may swing on once.              *)
SlowsDown == coasted = CoastTime => \A j \in Joints : Abs(gen.ref[j].dq) < Slow
=============================================================================
