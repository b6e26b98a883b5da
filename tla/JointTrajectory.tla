--------------------------- MODULE JointTrajectory ---------------------------
(***************************************************************************)
(* JointPositionTrajectoryGenerator of franka_controller.cpp: the position *)
(* it commands to each joint in every cycle of the 1 kHz callback, limited *)
(* in step, velocity, acceleration and jerk.  Positions are whole numbers  *)
(* of a unit that may be as small as one likes; velocities, accelerations  *)
(* and jerks are per cycle, all cycles being of one length.  The gains are *)
(* those of the code, per second, and what they ask for is brought to      *)
(* cycles and rounded towards zero.  hold_target_q_ and motion_active_,    *)
(* which no command depends on, are left out.                              *)
(***************************************************************************)
EXTENDS Integers

CONSTANTS
  Joints,
  Lower, Upper,    \* the joints' limits, the margin taken off
  MaxVelocity, MaxAcceleration, MaxJerk,
  MaxStep,         \* max_joint_step_rad; 0 is no limit
  Deadzone,
  CyclesPerSecond, \* 1 / dt
  ServoKp, ServoKd, HoldDamping, \* 1/s^2, 1/s and 1/s
  HoldPosition, HoldVelocity, HoldRelease

ASSUME LimitsAssumption ==
  /\ Lower \in [Joints -> Int] /\ Upper \in [Joints -> Int]
  /\ \A j \in Joints : Lower[j] <= Upper[j]

ASSUME TrajectoryAssumption ==
  /\ MaxVelocity \in Nat \ {0} /\ MaxAcceleration \in Nat \ {0} /\ MaxJerk \in Nat \ {0}
  /\ MaxStep \in Nat /\ Deadzone \in Nat
  /\ CyclesPerSecond \in Nat \ {0}
  /\ ServoKp \in Nat \ {0} /\ ServoKd \in Nat /\ HoldDamping \in Nat
  /\ HoldPosition \in Nat /\ HoldVelocity \in Nat
  /\ HoldRelease \in Nat /\ HoldRelease >= HoldPosition

Abs(x) == IF x < 0 THEN -x ELSE x

Clamp(x, low, high) == IF x < low THEN low ELSE IF x > high THEN high ELSE x

Opposite(x, y) == (x > 0 /\ y < 0) \/ (x < 0 /\ y > 0)

Rounded(x, unit) == IF x < 0 THEN -((-x) \div unit) ELSE x \div unit

ClampToJointLimits(q) == [j \in Joints |-> Clamp(q[j], Lower[j], Upper[j])]

-----------------------------------------------------------------------------
(* One joint: position, velocity and acceleration of its reference. *)

References == [q : Int, dq : -MaxVelocity..MaxVelocity,
               ddq : -MaxAcceleration..MaxAcceleration]

AtRest(q) == [q |-> q, dq |-> 0, ddq |-> 0]

StepLimit == IF MaxStep > 0 /\ MaxStep < MaxVelocity THEN MaxStep ELSE MaxVelocity

Accelerate(r, desired) ==
  LET wanted == Clamp(desired, -MaxAcceleration, MaxAcceleration)
  IN  Clamp(r.ddq + Clamp(wanted - r.ddq, -MaxJerk, MaxJerk),
            -MaxAcceleration, MaxAcceleration)

(* Mutation: the velocity is not limited. *)
SpeedUnlimited(r, ddq) == r.dq + ddq

Speed(r, ddq) == Clamp(r.dq + ddq, -MaxVelocity, MaxVelocity)

(* Mutation: the joint's limits are left to the robot. *)
StepAnywhere(j, r, dq, ddq) ==
  [q |-> r.q + Clamp(dq, -StepLimit, StepLimit), dq |-> dq, ddq |-> ddq]

Step(j, r, dq, ddq) ==
  LET q      == r.q + Clamp(dq, -StepLimit, StepLimit)
      inside == Clamp(q, Lower[j], Upper[j])
  IN  IF inside = q THEN [q |-> q, dq |-> dq, ddq |-> ddq] ELSE AtRest(inside)

(* Mutation: the velocity is not damped. *)
CoastUndamped(j, r) ==
  LET ddq == Accelerate(r, 0)
  IN  Step(j, r, Speed(r, ddq), ddq)

(* Without motion the velocity that is left is damped, not reversed. *)
Coast(j, r) ==
  LET ddq == Accelerate(r, Rounded(-HoldDamping * r.dq, CyclesPerSecond))
  IN  IF Opposite(r.dq, Speed(r, ddq)) THEN Step(j, r, 0, 0)
                                       ELSE Step(j, r, Speed(r, ddq), ddq)

(* A joint that would pass its target stops there. *)
Servo(j, r, target) ==
  LET error == IF Abs(target - r.q) < Deadzone THEN 0 ELSE target - r.q
      ddq   == Accelerate(r, Rounded(ServoKp * error - ServoKd * r.dq * CyclesPerSecond,
                                     CyclesPerSecond * CyclesPerSecond))
      next  == Step(j, r, Speed(r, ddq), ddq)
  IN  IF Opposite(error, target - next.q) THEN AtRest(target) ELSE next

-----------------------------------------------------------------------------
(* The generator: the references of all joints. *)

Reset == [initialized |-> FALSE, hold |-> FALSE, ref |-> [j \in Joints |-> AtRest(0)]]

Initialized(g, reference) ==
  IF g.initialized THEN g
  ELSE [initialized |-> TRUE, hold |-> g.hold,
        ref |-> [j \in Joints |-> AtRest(reference[j])]]

Near(g, target, distance) == \A j \in Joints : Abs(target[j] - g.ref[j].q) <= distance

(* Mutation: it is enough that the joints are near their targets. *)
HoldsAtAnySpeed(g, target) == Near(g, target, IF g.hold THEN HoldRelease ELSE HoldPosition)

(* The arm holds when all joints are at their targets and slow, until one  *)
(* of the targets is farther off than that.                                *)
Holds(g, target) ==
  \/ g.hold /\ Near(g, target, HoldRelease)
  \/ Near(g, target, HoldPosition) /\ \A j \in Joints : Abs(g.ref[j].dq) <= HoldVelocity

Held(g) == [g EXCEPT !.hold = TRUE, !.ref = [j \in Joints |-> AtRest(g.ref[j].q)]]

Coasted(g) == [g EXCEPT !.ref = [j \in Joints |-> Coast(j, g.ref[j])]]

Servoed(g, target) ==
  [g EXCEPT !.hold = FALSE,
            !.ref = [j \in Joints |-> Servo(j, g.ref[j], target[j])]]

Update(g, target, reference, applyMotion) ==
  LET h == Initialized(g, reference)
  IN  CASE ~applyMotion                     -> Coasted(h)
        [] applyMotion /\ Holds(h, target)  -> Held(h)
        [] applyMotion /\ ~Holds(h, target) -> Servoed(h, target)

Commanded(g) == [j \in Joints |-> g.ref[j].q]
=============================================================================
