---------------------------- MODULE MotionProofs ----------------------------
(***************************************************************************)
(* What the trajectory generator promises, for every number of joints and  *)
(* all limits and gains: the invariant of ArmMotion and what a cycle may   *)
(* do to the arm.  The lemmas are about one joint at a time; the theorems  *)
(* put them together with the invariant, which says that the generator's   *)
(* reference is where the arm is whenever the generator runs, and that a   *)
(* coasting joint has cycles enough left to slow down.                     *)
(*                                                                         *)
(* And what the gripper thread promises, with time-outs, failed reads,     *)
(* failed stop()s and calls that never return.                             *)
(***************************************************************************)
EXTENDS ArmMotion, GripperLoop, TLAPS

(* What a step of one joint's reference r to s promises. *)
Sound(j, r, s) ==
  /\ s \in References
  /\ Lower[j] <= s.q /\ s.q <= Upper[j]
  /\ Lower[j] <= r.q /\ r.q <= Upper[j] => Abs(s.q - r.q) <= StepLimit

Gentle(j, r, s) ==
  Abs(s.dq - r.dq) <= MaxAcceleration \/ s.q \in {Lower[j], Upper[j]}

(* The longest step of a cycle is a natural number. *)
LEMMA StepLimitPositive == StepLimit \in Nat
  BY TrajectoryAssumption DEF StepLimit

(* Acceleration changes the velocity by a bounded amount. *)
LEMMA AccelerateBounded ==
  ASSUME NEW r \in References, NEW wish \in Int
  PROVE  Accelerate(r, wish) \in -MaxAcceleration..MaxAcceleration
  BY TrajectoryAssumption DEF Accelerate, Clamp, References

(* A velocity stays within its limit. *)
LEMMA SpeedBounded ==
  ASSUME NEW r \in References, NEW ddq \in -MaxAcceleration..MaxAcceleration
  PROVE  /\ Speed(r, ddq) \in -MaxVelocity..MaxVelocity
         /\ Abs(Speed(r, ddq) - r.dq) <= MaxAcceleration
         /\ Opposite(r.dq, Speed(r, ddq)) => Abs(r.dq) <= MaxAcceleration
  BY TrajectoryAssumption DEF Speed, Clamp, Abs, Opposite, References

(* A step lands inside the joint limits and is no longer than allowed. *)
LEMMA StepSound ==
  ASSUME NEW j \in Joints, NEW r \in References,
         NEW dq \in -MaxVelocity..MaxVelocity,
         NEW ddq \in -MaxAcceleration..MaxAcceleration
  PROVE  /\ Sound(j, r, Step(j, r, dq, ddq))
         /\ Step(j, r, dq, ddq).dq = dq \/ Step(j, r, dq, ddq).q \in {Lower[j], Upper[j]}
  <1> DEFINE q == r.q + Clamp(dq, -StepLimit, StepLimit)
             inside == Clamp(q, Lower[j], Upper[j])
  <1>1. q \in Int /\ Abs(q - r.q) <= StepLimit
    BY StepLimitPositive, TrajectoryAssumption DEF Clamp, Abs, References
  <1>2. Lower[j] \in Int /\ Upper[j] \in Int /\ Lower[j] <= Upper[j] /\ r.q \in Int
    BY LimitsAssumption DEF References
  <1>3. /\ inside \in Int /\ Lower[j] <= inside /\ inside <= Upper[j]
        /\ Lower[j] <= r.q /\ r.q <= Upper[j] => Abs(inside - r.q) <= StepLimit
        /\ inside = q \/ inside \in {Lower[j], Upper[j]}
    <2> HIDE DEF q
    <2> QED BY <1>1, <1>2, StepLimitPositive DEF Clamp, Abs
  <1>4. AtRest(inside) \in References /\ AtRest(inside).q = inside
    BY <1>3, TrajectoryAssumption DEF AtRest, References
  <1>5. CASE inside = q
    <2>1. Step(j, r, dq, ddq) = [q |-> q, dq |-> dq, ddq |-> ddq]
      BY <1>5 DEF Step
    <2> HIDE DEF q, inside
    <2> QED BY <1>1, <1>3, <1>5, <2>1 DEF Sound, References
  <1>6. CASE inside # q
    <2>1. Step(j, r, dq, ddq) = AtRest(inside)
      BY <1>6 DEF Step
    <2> HIDE DEF q, inside
    <2> QED BY <1>3, <1>4, <1>6, <2>1 DEF Sound
  <1> QED BY <1>5, <1>6

(* Rounding gives a whole number, and leaves zero alone. *)
LEMMA RoundedType ==
  ASSUME NEW x \in Int, NEW unit \in Nat \ {0}
  PROVE  Rounded(x, unit) \in Int /\ (x = 0 => Rounded(x, unit) = 0)
  BY DEF Rounded

(* Coasting is sound for a joint that stands where the arm is. *)
LEMMA CoastSound ==
  ASSUME NEW j \in Joints, NEW r \in References
  PROVE  /\ Sound(j, r, Coast(j, r)) /\ Gentle(j, r, Coast(j, r))
         /\ r.dq = 0 /\ r.ddq = 0 => Coast(j, r).dq = 0 /\ Coast(j, r).ddq = 0
  <1> DEFINE wish == Rounded(-HoldDamping * r.dq, CyclesPerSecond)
             ddq  == Accelerate(r, wish)
             dq   == Speed(r, ddq)
  <1>1. r.dq \in Int /\ wish \in Int /\ (r.dq = 0 => wish = 0)
    <2>1. r.dq \in Int /\ -HoldDamping * r.dq \in Int
      BY TrajectoryAssumption DEF References
    <2>2. r.dq = 0 => -HoldDamping * r.dq = 0
      BY TrajectoryAssumption
    <2> QED BY <2>1, <2>2, RoundedType, TrajectoryAssumption
  <1> HIDE DEF wish
  <1>2. ddq \in -MaxAcceleration..MaxAcceleration
    BY <1>1, AccelerateBounded
  <1>3. /\ dq \in -MaxVelocity..MaxVelocity
        /\ Abs(dq - r.dq) <= MaxAcceleration
        /\ Opposite(r.dq, dq) => Abs(r.dq) <= MaxAcceleration
    <2> HIDE DEF ddq
    <2> QED BY <1>2, SpeedBounded
  <1>4. Coast(j, r) = IF Opposite(r.dq, dq) THEN Step(j, r, 0, 0) ELSE Step(j, r, dq, ddq)
    BY DEF Coast, wish
  <1>5. /\ 0 \in -MaxVelocity..MaxVelocity /\ 0 \in -MaxAcceleration..MaxAcceleration
        /\ Abs(0 - r.dq) = Abs(r.dq)
    BY <1>1, TrajectoryAssumption DEF Abs
  <1>6. r.dq = 0 /\ r.ddq = 0 => dq = 0 /\ ddq = 0
    <2>1. ASSUME r.dq = 0, r.ddq = 0 PROVE ddq = 0
      <3>1. wish = 0
        BY <1>1, <2>1
      <3> QED BY <2>1, <3>1, TrajectoryAssumption DEF Accelerate, Clamp
    <2> HIDE DEF ddq
    <2> QED BY <2>1, TrajectoryAssumption DEF Speed, Clamp
  <1> HIDE DEF ddq, dq
  <1>7. r.dq = 0 /\ r.ddq = 0 => Coast(j, r).dq = 0 /\ Coast(j, r).ddq = 0
    BY <1>4, <1>6 DEF Step, AtRest
  <1>8. CASE Opposite(r.dq, dq)
    BY <1>3, <1>4, <1>5, <1>7, <1>8, StepSound DEF Gentle
  <1>9. CASE ~Opposite(r.dq, dq)
    BY <1>2, <1>3, <1>4, <1>7, <1>9, StepSound DEF Gentle
  <1> QED BY <1>8, <1>9

(* Servoing is sound for a joint that stands where the arm is. *)
LEMMA ServoSound ==
  ASSUME NEW j \in Joints, NEW r \in References, NEW goal \in Int,
         Lower[j] <= goal, goal <= Upper[j]
  PROVE  /\ Sound(j, r, Servo(j, r, goal))
         /\ \/ Gentle(j, r, Servo(j, r, goal))
            \/ Servo(j, r, goal).q = goal /\ r.q # goal
  <1> DEFINE error == IF Abs(goal - r.q) < Deadzone THEN 0 ELSE goal - r.q
             wish  == Rounded(ServoKp * error - ServoKd * r.dq * CyclesPerSecond,
                              CyclesPerSecond * CyclesPerSecond)
             ddq   == Accelerate(r, wish)
             dq    == Speed(r, ddq)
             next  == Step(j, r, dq, ddq)
  <1>1. r.q \in Int /\ r.dq \in Int /\ error \in Int /\ (error = 0 \/ error = goal - r.q)
    BY TrajectoryAssumption DEF References, Abs
  <1>2. wish \in Int
    <2>1. ServoKp * error - ServoKd * r.dq * CyclesPerSecond \in Int
      <3> HIDE DEF error
      <3> QED BY <1>1, TrajectoryAssumption
    <2>2. CyclesPerSecond * CyclesPerSecond \in Nat \ {0}
      BY TrajectoryAssumption
    <2> HIDE DEF error
    <2> QED BY <2>1, <2>2, RoundedType
  <1>3. ddq \in -MaxAcceleration..MaxAcceleration
    <2> HIDE DEF wish
    <2> QED BY <1>2, AccelerateBounded
  <1>4. dq \in -MaxVelocity..MaxVelocity /\ Abs(dq - r.dq) <= MaxAcceleration
    <2> HIDE DEF ddq
    <2> QED BY <1>3, SpeedBounded
  <1>5. Sound(j, r, next) /\ (next.dq = dq \/ next.q \in {Lower[j], Upper[j]})
    <2> HIDE DEF ddq, dq
    <2> QED BY <1>3, <1>4, StepSound
  <1>6. Servo(j, r, goal) = IF Opposite(error, goal - next.q) THEN AtRest(goal) ELSE next
    BY DEF Servo
  <1>7. next.q \in Int
    BY <1>5 DEF Sound, References
  <1> HIDE DEF error, ddq, dq, next
  <1>8. CASE Opposite(error, goal - next.q)
    <2>1. /\ r.q # goal
          /\ Abs(goal - r.q) <= Abs(next.q - r.q)
      BY <1>1, <1>7, <1>8 DEF Opposite, Abs
    <2>2. AtRest(goal) \in References /\ AtRest(goal).q = goal
      BY TrajectoryAssumption DEF AtRest, References
    <2>3. Lower[j] <= r.q /\ r.q <= Upper[j] => Abs(goal - r.q) <= StepLimit
      BY <1>1, <1>5, <1>7, <2>1, StepLimitPositive DEF Sound, Abs
    <2> QED BY <1>6, <1>8, <2>1, <2>2, <2>3 DEF Sound
  <1>9. CASE ~Opposite(error, goal - next.q)
    BY <1>4, <1>5, <1>6, <1>9 DEF Gentle
  <1> QED BY <1>8, <1>9

-----------------------------------------------------------------------------
(* How a joint slows down.  It is looked at in the direction it moves in:  *)
(* its pace, the acceleration along that direction, and the acceleration   *)
(* that the damping asks for.                                              *)

Pace(r) == Abs(r.dq)
Lean(r) == IF r.dq < 0 THEN -r.ddq ELSE r.ddq
Brake(x) ==
  Clamp(-((HoldDamping * x) \div CyclesPerSecond), -MaxAcceleration, MaxAcceleration)

(* What is left to do in units of MaxJerk * SlowBrake, of which a cycle    *)
(* does one.  A joint that follows the damping loses SlowBrake of its pace *)
(* until it is slow; before that, one that accelerates loses MaxJerk of    *)
(* its acceleration; and one that decelerates by more than the damping     *)
(* asks for gives MaxJerk of it back, and may stop and swing on.           *)
Swing == 2 * SlowBrake * MaxAcceleration + MaxJerk * SlowBrake + MaxJerk * MaxVelocity

ToSlow(r) ==
  CASE r.dq = 0 /\ r.ddq = 0 -> 0
    [] r.dq = 0 /\ r.ddq # 0 -> Swing
    [] r.dq # 0 /\ Lean(r) < Brake(Pace(r)) - MaxJerk ->
         Swing + SlowBrake * (-Lean(r)) + MaxJerk * MaxVelocity
    [] r.dq # 0 /\ Lean(r) \in (Brake(Pace(r)) - MaxJerk)..Brake(Pace(r)) ->
         IF Pace(r) < Slow THEN 0 ELSE MaxJerk * Pace(r)
    [] r.dq # 0 /\ Lean(r) > Brake(Pace(r)) ->
         SlowBrake * (Lean(r) + MaxAcceleration) + MaxJerk * SlowBrake + MaxJerk * MaxVelocity

(* The joint is slow for good after that many cycles of coasting. *)
Settles(r, cycles) == ToSlow(r) <= cycles * (MaxJerk * SlowBrake)

(* A quotient is the whole number below. *)
LEMMA QuotientSound ==
  ASSUME NEW p \in Nat, NEW c \in Nat \ {0}
  PROVE  /\ p \div c \in Nat
         /\ c * (p \div c) <= p /\ p < c * (p \div c) + c
  OBVIOUS

(* Products of natural numbers grow with their factors. *)
LEMMA ProductGrows ==
  ASSUME NEW d \in Nat, NEW p \in Int, NEW q \in Int, p <= q
  PROVE  d * p <= d * q /\ d * p \in Int /\ d * q \in Int
  <1>1. d * (q - p) \in Nat
    BY q - p \in Nat
  <1>2. d * q = d * p + d * (q - p)
    OBVIOUS
  <1> DEFINE e == d * (q - p)
             u == d * p
             v == d * q
  <1>3. u \in Int /\ v \in Int /\ e \in Nat /\ v = u + e
    BY <1>1, <1>2
  <1> HIDE DEF e, u, v
  <1>4. u <= v
    BY <1>3
  <1> QED BY <1>3, <1>4 DEF u, v

(* Quotients of numbers at most j units apart are at most j apart. *)
LEMMA QuotientsNear ==
  ASSUME NEW p \in Nat, NEW q \in Nat, NEW c \in Nat \ {0}, NEW j \in Nat, p <= q + j * c
  PROVE  p \div c <= q \div c + j
  <1> DEFINE d == p \div c
             e == q \div c
  <1>1. d \in Nat /\ e \in Nat /\ c * d <= p /\ q < c * e + c
    BY QuotientSound
  <1> HIDE DEF d, e
  <1> SUFFICES ASSUME d > e + j PROVE FALSE
    BY <1>1 DEF d, e
  <1>2. c * (e + j + 1) <= c * d
    BY <1>1, ProductGrows, e + j + 1 \in Int, e + j + 1 <= d
  <1>3. c * (e + j + 1) = c * e + j * c + c
    BY <1>1
  <1> DEFINE u == c * e
             v == j * c
             w == c * d
  <1>4. u \in Int /\ v \in Int /\ w \in Int /\ u + v + c <= w /\ w <= p /\ q < u + c /\ p <= q + v
    BY <1>1, <1>2, <1>3
  <1> HIDE DEF u, v, w
  <1> QED BY <1>4

(* A slow joint is still braked. *)
LEMMA SlowBrakePositive == SlowBrake \in 1..MaxAcceleration /\ Slow \in Nat \ {0}
  <1> DEFINE p == HoldDamping * Slow
  <1>1. p \in Nat /\ CyclesPerSecond \in Nat \ {0} /\ p >= CyclesPerSecond
    BY TrajectoryAssumption, MotionAssumption, CoastAssumption
  <1>2. Slow # 0
    BY <1>1, TrajectoryAssumption
  <1> HIDE DEF p
  <1>3. p \div CyclesPerSecond \in Nat \ {0}
    <2>1. p < CyclesPerSecond * (p \div CyclesPerSecond) + CyclesPerSecond
      BY <1>1, QuotientSound
    <2>2. p \div CyclesPerSecond = 0 => CyclesPerSecond * (p \div CyclesPerSecond) = 0
      BY <1>1
    <2> QED BY <1>1, <2>1, <2>2, QuotientSound
  <1>4. SlowBrake = LET asked == p \div CyclesPerSecond
                    IN  IF asked < MaxAcceleration THEN asked ELSE MaxAcceleration
    BY DEF SlowBrake, p
  <1> QED BY <1>2, <1>3, <1>4, TrajectoryAssumption, MotionAssumption

(* The damping is against the motion and never as strong as to stop it; it *)
(* is stronger the faster the joint is, by a jerk at the most between one  *)
(* cycle and the next, and a joint that is not slow feels SlowBrake.       *)
LEMMA BrakeSound ==
  ASSUME NEW x \in Nat \ {0}
  PROVE  /\ Brake(x) \in -MaxAcceleration..0 /\ x + Brake(x) >= 1
         /\ \A y \in 0..x :
              /\ Brake(y) \in -MaxAcceleration..0 /\ Brake(x) <= Brake(y)
              /\ x - y <= MaxAcceleration => Brake(y) <= Brake(x) + MaxJerk
         /\ x >= Slow => Brake(x) <= -SlowBrake
  <1> DEFINE asked(y) == (HoldDamping * y) \div CyclesPerSecond
  <1>1. /\ HoldDamping \in Nat /\ CyclesPerSecond \in Nat \ {0}
        /\ MaxJerk \in Nat \ {0} /\ MaxAcceleration \in Nat \ {0}
    BY TrajectoryAssumption
  <1>2. ASSUME NEW y \in Nat
        PROVE  /\ HoldDamping * y \in Nat /\ asked(y) \in Nat
               /\ Brake(y) = IF asked(y) > MaxAcceleration THEN -MaxAcceleration ELSE -asked(y)
    <2>1. HoldDamping * y \in Nat
      BY <1>1
    <2>2. asked(y) \in Nat
      BY <1>1, <2>1, QuotientSound
    <2>3. Brake(y) = Clamp(-asked(y), -MaxAcceleration, MaxAcceleration)
      BY DEF Brake
    <2> HIDE DEF asked
    <2> QED BY <1>1, <2>1, <2>2, <2>3 DEF Clamp
  <1>3. ASSUME NEW y \in Nat, NEW z \in Nat, y <= z
        PROVE  /\ asked(y) <= asked(z)
               /\ z - y <= MaxAcceleration => asked(z) <= asked(y) + MaxJerk
    <2> DEFINE p == HoldDamping * y
               o == HoldDamping * z
    <2>1. p \in Nat /\ o \in Nat /\ p <= o
      BY <1>1, <1>3, ProductGrows
    <2>2. 0 * CyclesPerSecond = 0
      BY <1>1
    <2>3. p \div CyclesPerSecond <= o \div CyclesPerSecond
      <3> HIDE DEF p, o
      <3>1. p <= o + 0 * CyclesPerSecond
        BY <2>1, <2>2
      <3>2. p \div CyclesPerSecond <= o \div CyclesPerSecond + 0
        BY <1>1, <2>1, <3>1, QuotientsNear
      <3> QED BY <1>1, <2>1, <3>2, QuotientSound
    <2>4. ASSUME z - y <= MaxAcceleration PROVE o <= p + MaxJerk * CyclesPerSecond
      <3>1. o = p + HoldDamping * (z - y)
        BY <1>1
      <3>2. HoldDamping * (z - y) <= HoldDamping * MaxAcceleration
        BY <1>1, <1>3, <2>4, ProductGrows
      <3> DEFINE u == HoldDamping * (z - y)
                 v == HoldDamping * MaxAcceleration
                 t == MaxJerk * CyclesPerSecond
      <3>3. u \in Int /\ v \in Int /\ t \in Int /\ u <= v /\ v <= t /\ o = p + u
        BY <1>1, <3>1, <3>2, CoastAssumption
      <3> HIDE DEF u, v, t, p, o
      <3>4. o <= p + t
        BY <2>1, <3>3
      <3> QED BY <3>4 DEF t
    <2>5. z - y <= MaxAcceleration =>
            o \div CyclesPerSecond <= p \div CyclesPerSecond + MaxJerk
      <3> HIDE DEF p, o
      <3> QED BY <1>1, <2>1, <2>4, QuotientsNear
    <2> QED BY <2>3, <2>5
  <1>4. asked(x) < x
    <2> DEFINE d == asked(x)
               p == HoldDamping * x
    <2>1. d \in Nat /\ CyclesPerSecond * d <= p /\ p \in Nat
      BY <1>1, <1>2, QuotientSound
    <2>2. HoldDamping * x + x <= CyclesPerSecond * x
      <3>1. x * (HoldDamping + 1) <= x * CyclesPerSecond
        BY <1>1, CoastAssumption, ProductGrows
      <3>2. x * (HoldDamping + 1) = HoldDamping * x + x /\ x * CyclesPerSecond = CyclesPerSecond * x
        BY <1>1
      <3> QED BY <3>1, <3>2
    <2> HIDE DEF d
    <2> SUFFICES ASSUME x <= d PROVE FALSE
      BY <2>1 DEF d
    <2>3. CyclesPerSecond * x <= CyclesPerSecond * d
      BY <1>1, <2>1, ProductGrows
    <2> DEFINE u == CyclesPerSecond * x
               v == CyclesPerSecond * d
    <2>4. u \in Int /\ v \in Int /\ u <= v /\ v <= p /\ p + x <= u
      BY <1>1, <2>1, <2>2, <2>3
    <2> HIDE DEF u, v, p
    <2> QED BY <2>1, <2>4
  <1>5. SlowBrake = IF asked(Slow) < MaxAcceleration THEN asked(Slow) ELSE MaxAcceleration
    BY DEF SlowBrake
  <1>6. x >= Slow => asked(Slow) <= asked(x)
    BY <1>3, MotionAssumption
  <1>7. Slow \in Nat /\ asked(Slow) \in Nat /\ asked(x) \in Nat
    BY <1>2, MotionAssumption
  <1> HIDE DEF asked
  <1>8. Brake(x) \in -MaxAcceleration..0 /\ x + Brake(x) >= 1
    BY <1>1, <1>2, <1>4, <1>7
  <1>9. x >= Slow => Brake(x) <= -SlowBrake
    BY <1>1, <1>2, <1>5, <1>6, <1>7
  <1>10. ASSUME NEW y \in 0..x
         PROVE  /\ Brake(y) \in -MaxAcceleration..0 /\ Brake(x) <= Brake(y)
                /\ x - y <= MaxAcceleration => Brake(y) <= Brake(x) + MaxJerk
    <2>1. y \in Nat /\ y <= x
      OBVIOUS
    <2>2. asked(y) \in Nat /\ asked(y) <= asked(x)
      BY <1>2, <1>3, <2>1
    <2>3. x - y <= MaxAcceleration => asked(x) <= asked(y) + MaxJerk
      BY <1>3, <2>1
    <2>4. Brake(y) = IF asked(y) > MaxAcceleration THEN -MaxAcceleration ELSE -asked(y)
      BY <1>2, <2>1
    <2>5. Brake(x) = IF asked(x) > MaxAcceleration THEN -MaxAcceleration ELSE -asked(x)
      BY <1>2
    <2> QED BY <1>1, <1>7, <2>2, <2>3, <2>4, <2>5
  <1> QED BY <1>8, <1>9, <1>10

(* The acceleration that a coasting joint has next, along its motion. *)
Leaning(x, a) ==
  Clamp(a + Clamp(Brake(x) - a, -MaxJerk, MaxJerk), -MaxAcceleration, MaxAcceleration)

(* It comes nearer to what the damping asks for by a jerk, and no nearer.  *)
LEMMA LeaningSound ==
  ASSUME NEW x \in Nat \ {0}, NEW a \in -MaxAcceleration..MaxAcceleration,
         NEW b, b = Leaning(x, a)
  PROVE  /\ b \in -MaxAcceleration..MaxAcceleration
         /\ a < Brake(x) - MaxJerk => b = a + MaxJerk
         /\ a \in (Brake(x) - MaxJerk)..Brake(x) => b = Brake(x)
         /\ a > Brake(x) => b >= Brake(x) /\ (b = a - MaxJerk \/ b = Brake(x))
  <1> DEFINE w == Brake(x)
  <1>1. w \in -MaxAcceleration..0
    BY BrakeSound
  <1>2. b = Clamp(a + Clamp(w - a, -MaxJerk, MaxJerk), -MaxAcceleration, MaxAcceleration)
    BY DEF Leaning
  <1> HIDE DEF w
  <1>3. /\ b \in -MaxAcceleration..MaxAcceleration
        /\ a < w - MaxJerk => b = a + MaxJerk
        /\ a \in (w - MaxJerk)..w => b = w
        /\ a > w => b >= w /\ (b = a - MaxJerk \/ b = w)
    BY <1>1, <1>2, TrajectoryAssumption DEF Clamp
  <1> QED BY <1>3 DEF w

(* Its velocity is changed by that acceleration, until it would turn. *)
LEMMA CoastPace ==
  ASSUME NEW j \in Joints, NEW r \in References, r.dq # 0,
         NEW b, b = Leaning(Pace(r), Lean(r)), NEW s, s = Coast(j, r)
  PROVE  \/ s.dq = 0 /\ s.ddq = 0
         \/ Pace(r) + b <= 0 /\ s.dq = 0
         \/ /\ Pace(r) + b > 0 /\ s.dq # 0 /\ Lean(s) = b
            /\ Pace(s) \in 1..MaxVelocity /\ (b <= 0 => Pace(s) = Pace(r) + b)
  <1> DEFINE wish == Rounded(-HoldDamping * r.dq, CyclesPerSecond)
             ddq  == Accelerate(r, wish)
             dq   == Speed(r, ddq)
             w    == Brake(Pace(r))
  <1>1. w \in -MaxAcceleration..0
    BY BrakeSound DEF Pace, Abs, References
  <1>2. wish \in Int /\ Clamp(wish, -MaxAcceleration, MaxAcceleration) = IF r.dq < 0 THEN -w ELSE w
    <2> DEFINE k == HoldDamping * Pace(r)
               d == k \div CyclesPerSecond
    <2>1. /\ k \in Nat /\ HoldDamping \in Nat \ {0} /\ Pace(r) \in Nat \ {0}
          /\ -HoldDamping * r.dq = IF r.dq < 0 THEN k ELSE -k
      <3>1. HoldDamping # 0
        BY CoastAssumption, TrajectoryAssumption, MotionAssumption
      <3> QED BY <3>1, TrajectoryAssumption DEF Pace, Abs, References
    <2>2. k > 0
      BY <2>1
    <2>3. d \in Nat
      BY <2>1, QuotientSound, TrajectoryAssumption
    <2>4. wish = IF r.dq < 0 THEN d ELSE -d
      <3> HIDE DEF k
      <3> QED BY <2>1, <2>2 DEF Rounded
    <2>5. w = Clamp(-d, -MaxAcceleration, MaxAcceleration)
      BY DEF Brake
    <2> HIDE DEF d, wish, w
    <2> QED BY <2>3, <2>4, <2>5, TrajectoryAssumption DEF Clamp
  <1> HIDE DEF w, wish
  <1>3. ddq = (IF r.dq < 0 THEN -b ELSE b) /\ b \in Int
    <2>1. b = Clamp(Lean(r) + Clamp(w - Lean(r), -MaxJerk, MaxJerk),
                    -MaxAcceleration, MaxAcceleration)
      BY DEF Leaning, w
    <2>2. ddq = LET asked == IF r.dq < 0 THEN -w ELSE w
                IN  Clamp(r.ddq + Clamp(asked - r.ddq, -MaxJerk, MaxJerk),
                          -MaxAcceleration, MaxAcceleration)
      BY <1>2 DEF Accelerate
    <2> HIDE DEF ddq
    <2> QED BY <1>1, <2>1, <2>2, TrajectoryAssumption DEF Clamp, Lean, References
  <1> HIDE DEF ddq
  <1>4. s = IF Opposite(r.dq, dq) THEN Step(j, r, 0, 0) ELSE Step(j, r, dq, ddq)
    BY DEF Coast, ddq, wish
  <1>5. \/ s.dq = 0 /\ s.ddq = 0
        \/ ~Opposite(r.dq, dq) /\ s.dq = dq /\ s.ddq = ddq
    BY <1>4 DEF Step, AtRest
  <1>6. dq = Clamp(r.dq + ddq, -MaxVelocity, MaxVelocity)
    BY DEF Speed
  <1> HIDE DEF dq
  <1>7. ASSUME ~Opposite(r.dq, dq), s.dq = dq, s.ddq = ddq
        PROVE  \/ Pace(r) + b <= 0 /\ s.dq = 0
               \/ /\ Pace(r) + b > 0 /\ s.dq # 0 /\ Lean(s) = b
                  /\ Pace(s) \in 1..MaxVelocity /\ (b <= 0 => Pace(s) = Pace(r) + b)
    BY <1>3, <1>6, <1>7, TrajectoryAssumption
       DEF Opposite, Clamp, Pace, Lean, Abs, References
  <1> QED BY <1>5, <1>7

(* A joint that has stopped with an acceleration left swings on, if that   *)
(* is more than a jerk.                                                    *)
LEMMA CoastSwing ==
  ASSUME NEW j \in Joints, NEW r \in References, r.dq = 0,
         NEW s, s = Coast(j, r), NEW a, a = Abs(r.ddq) - MaxJerk
  PROVE  \/ s.dq = 0 /\ s.ddq = 0
         \/ a > 0 /\ s.dq # 0 /\ Lean(s) = a /\ Pace(s) \in 1..MaxVelocity
  <1> DEFINE wish == Rounded(-HoldDamping * r.dq, CyclesPerSecond)
             ddq  == Accelerate(r, wish)
             dq   == Speed(r, ddq)
  <1>1. wish = 0
    <2>1. -HoldDamping * r.dq = 0
      BY TrajectoryAssumption
    <2>2. -HoldDamping * r.dq \in Int /\ CyclesPerSecond \in Nat \ {0}
      BY <2>1, TrajectoryAssumption
    <2> QED BY <2>1, <2>2, RoundedType
  <1>2. ddq = Clamp(r.ddq + Clamp(-r.ddq, -MaxJerk, MaxJerk), -MaxAcceleration, MaxAcceleration)
    BY <1>1, TrajectoryAssumption DEF Accelerate, Clamp, References
  <1> HIDE DEF ddq
  <1>3. s = IF Opposite(r.dq, dq) THEN Step(j, r, 0, 0) ELSE Step(j, r, dq, ddq)
    BY DEF Coast, ddq
  <1>4. \/ s.dq = 0 /\ s.ddq = 0
        \/ s.dq = dq /\ s.ddq = ddq
    BY <1>3 DEF Step, AtRest
  <1>5. dq = Clamp(ddq, -MaxVelocity, MaxVelocity)
    BY <1>2, TrajectoryAssumption DEF Speed, Clamp, References
  <1> HIDE DEF dq
  <1> QED BY <1>2, <1>4, <1>5, TrajectoryAssumption DEF Clamp, Pace, Lean, Abs, References

-----------------------------------------------------------------------------
(* ToSlow, in its cases. *)

(* A joint at rest, or slow with the damping in charge, is done; the others*)
(* have the work of their case to do.                                      *)
LEMMA ToSlowCases ==
  ASSUME NEW r
  PROVE  LET a == Lean(r)
             x == Pace(r)
             w == Brake(Pace(r))
         IN  /\ r.dq = 0 /\ r.ddq = 0 => ToSlow(r) = 0
             /\ r.dq = 0 /\ r.ddq # 0 => ToSlow(r) = Swing
             /\ r.dq # 0 /\ a \in Int /\ w \in Int =>
                  /\ a < w - MaxJerk =>
                       ToSlow(r) = Swing + SlowBrake * (-a) + MaxJerk * MaxVelocity
                  /\ w - MaxJerk <= a /\ a <= w =>
                       ToSlow(r) = IF x < Slow THEN 0 ELSE MaxJerk * x
                  /\ a > w =>
                       ToSlow(r) = SlowBrake * (a + MaxAcceleration)
                                     + MaxJerk * SlowBrake + MaxJerk * MaxVelocity
  BY TrajectoryAssumption DEF ToSlow

(* The products that ToSlow is made of. *)
LEMMA WorkSound ==
  /\ SlowBrake \in Nat \ {0} /\ MaxJerk \in Nat \ {0} /\ MaxAcceleration \in Nat \ {0}
  /\ MaxVelocity \in Nat \ {0} /\ Slow \in Nat \ {0}
  /\ SlowBrake * MaxAcceleration \in Nat \ {0} /\ MaxJerk * SlowBrake \in Nat \ {0}
  /\ MaxJerk * MaxVelocity \in Nat \ {0}
  /\ Swing = 2 * (SlowBrake * MaxAcceleration) + MaxJerk * SlowBrake + MaxJerk * MaxVelocity
  <1>1. /\ SlowBrake \in Nat \ {0} /\ MaxJerk \in Nat \ {0} /\ MaxAcceleration \in Nat \ {0}
        /\ MaxVelocity \in Nat \ {0} /\ Slow \in Nat \ {0}
    BY SlowBrakePositive, TrajectoryAssumption
  <1>2. ASSUME NEW m \in Nat \ {0}, NEW n \in Nat \ {0} PROVE m * n \in Nat \ {0}
    OBVIOUS
  <1>3. Swing = 2 * (SlowBrake * MaxAcceleration) + MaxJerk * SlowBrake + MaxJerk * MaxVelocity
    BY <1>1 DEF Swing
  <1> QED BY <1>1, <1>2, <1>3

(* What is left is a number of its own, and no more than what a joint has  *)
(* left that is at full speed and decelerates as hard as it may.           *)
LEMMA ToSlowBounded ==
  ASSUME NEW r \in References
  PROVE  /\ ToSlow(r) \in Nat /\ (ToSlow(r) = 0 => Abs(r.dq) < Slow)
         /\ ToSlow(r) <= Swing + SlowBrake * MaxAcceleration + MaxJerk * MaxVelocity
  <1> DEFINE a  == Lean(r)
             x  == Pace(r)
             w  == Brake(x)
             da == SlowBrake * MaxAcceleration
             jd == MaxJerk * SlowBrake
             jv == MaxJerk * MaxVelocity
  <1>1. a \in -MaxAcceleration..MaxAcceleration /\ x \in 0..MaxVelocity
    BY TrajectoryAssumption DEF Lean, Pace, Abs, References
  <1>2. da \in Nat \ {0} /\ jd \in Nat \ {0} /\ jv \in Nat \ {0} /\ Swing = 2 * da + jd + jv
    BY WorkSound
  <1>3. r.dq = 0 => Abs(r.dq) < Slow
    BY WorkSound DEF Abs
  <1>4. CASE r.dq = 0
    <2> HIDE DEF da, jd, jv
    <2>1. ToSlow(r) \in {0, Swing}
      BY <1>4, ToSlowCases
    <2>2. ToSlow(r) \in Nat /\ ToSlow(r) <= Swing + da + jv
      BY <1>2, <2>1
    <2> QED BY <1>3, <1>4, <2>2 DEF da, jv
  <1>5. CASE r.dq # 0
    <2>1. w \in -MaxAcceleration..0 /\ x \in 1..MaxVelocity
      BY <1>1, <1>5, BrakeSound DEF Pace, Abs, References
    <2>2. a \in Int /\ w \in Int /\ MaxJerk \in Int
      BY <1>1, <2>1, TrajectoryAssumption
    <2>3. CASE a < w - MaxJerk
      <3> DEFINE u == SlowBrake * (-a)
      <3>1. ToSlow(r) = Swing + u + jv
        BY <1>5, <2>2, <2>3, ToSlowCases
      <3>2. u \in Int /\ 0 <= u /\ u <= da
        <4>1. SlowBrake * 0 <= SlowBrake * (-a) /\ SlowBrake * (-a) <= SlowBrake * MaxAcceleration
          BY <1>1, <2>1, <2>3, WorkSound, ProductGrows
        <4>2. u \in Int
          BY <1>1, WorkSound
        <4> QED BY <4>1, <4>2, WorkSound
      <3> HIDE DEF u, da, jd, jv
      <3>3. ToSlow(r) \in Nat \ {0} /\ ToSlow(r) <= Swing + da + jv
        BY <1>2, <3>1, <3>2
      <3> QED BY <3>3 DEF da, jv
    <2>4. CASE w - MaxJerk <= a /\ a <= w
      <3> DEFINE u == MaxJerk * x
      <3>1. ToSlow(r) = IF x < Slow THEN 0 ELSE u
        BY <1>5, <2>2, <2>4, ToSlowCases
      <3>2. u \in Nat \ {0} /\ u <= jv
        <4>1. MaxJerk * x <= MaxJerk * MaxVelocity
          BY <2>1, WorkSound, ProductGrows
        <4>2. x \in Nat \ {0}
          BY <2>1
        <4> HIDE DEF x
        <4> QED BY <4>1, <4>2, WorkSound
      <3> HIDE DEF u, da, jd, jv, x
      <3>3. ToSlow(r) \in Nat /\ ToSlow(r) <= Swing + da + jv /\ (ToSlow(r) = 0 => x < Slow)
        BY <1>2, <3>1, <3>2
      <3> QED BY <3>3 DEF da, jv, x, Pace
    <2>5. CASE a > w
      <3> DEFINE u == SlowBrake * (a + MaxAcceleration)
      <3>1. ToSlow(r) = u + jd + jv
        BY <1>5, <2>2, <2>5, ToSlowCases
      <3>2. u \in Int /\ 0 <= u /\ u <= 2 * da
        <4>1. /\ SlowBrake * 0 <= SlowBrake * (a + MaxAcceleration)
              /\ SlowBrake * (a + MaxAcceleration) <= SlowBrake * (2 * MaxAcceleration)
          BY <1>1, WorkSound, ProductGrows
        <4>2. SlowBrake * (2 * MaxAcceleration) = 2 * da /\ SlowBrake * 0 = 0
          BY WorkSound
        <4>3. u \in Int
          BY <1>1, WorkSound
        <4> QED BY <4>1, <4>2, <4>3
      <3> HIDE DEF u, da, jd, jv
      <3>3. ToSlow(r) \in Nat \ {0} /\ ToSlow(r) <= Swing + da + jv
        BY <1>2, <3>1, <3>2
      <3> QED BY <3>3 DEF da, jv
    <2> QED BY <2>2, <2>3, <2>4, <2>5
  <1> QED BY <1>4, <1>5

(* A joint that decelerates by more than the damping asks for gives a jerk *)
(* of that back, unless it stops or the damping takes charge.              *)
LEMMA HardNearer ==
  ASSUME NEW j \in Joints, NEW r \in References, r.dq # 0,
         Lean(r) < Brake(Pace(r)) - MaxJerk,
         NEW s \in References, s = Coast(j, r)
  PROVE  ToSlow(s) + MaxJerk * SlowBrake <= ToSlow(r)
  <1> DEFINE a  == Lean(r)
             x  == Pace(r)
             w  == Brake(x)
             b  == Leaning(x, a)
             y  == Pace(s)
             da == SlowBrake * MaxAcceleration
             jd == MaxJerk * SlowBrake
             jv == MaxJerk * MaxVelocity
             u  == SlowBrake * (-a)
  <1>1. a \in -MaxAcceleration..MaxAcceleration /\ x \in Nat \ {0} /\ x \in 1..MaxVelocity
    BY TrajectoryAssumption DEF Lean, Pace, Abs, References
  <1>2. da \in Nat \ {0} /\ jd \in Nat \ {0} /\ jv \in Nat \ {0} /\ Swing = 2 * da + jd + jv
    BY WorkSound
  <1>3. w \in -MaxAcceleration..0
    BY <1>1, BrakeSound
  <1>4. ToSlow(r) = Swing + u + jv
    BY <1>1, <1>3, ToSlowCases
  <1>5. b = a + MaxJerk /\ b < w /\ b \in Int
    BY <1>1, <1>3, LeaningSound, WorkSound
  <1>6. u \in Int /\ jd <= u /\ SlowBrake * (-b) = u - jd
    <2>1. SlowBrake * MaxJerk <= SlowBrake * (-a) /\ SlowBrake * MaxJerk = MaxJerk * SlowBrake
      BY <1>1, <1>3, WorkSound, ProductGrows
    <2>2. SlowBrake * (-b) = SlowBrake * (-a) - MaxJerk * SlowBrake
      BY <1>1, <1>5, WorkSound
    <2>3. u \in Int
      BY <1>1, WorkSound
    <2> QED BY <2>1, <2>2, <2>3
  <1>7. \/ s.dq = 0
        \/ s.dq # 0 /\ Lean(s) = b /\ y = x + b /\ y \in 1..MaxVelocity
    BY <1>1, <1>3, <1>5, CoastPace
  <1>8. CASE s.dq = 0
    <2>1. ToSlow(s) \in {0, Swing}
      BY <1>8, ToSlowCases
    <2> HIDE DEF da, jd, jv, u
    <2>2. ToSlow(s) + jd <= ToSlow(r)
      BY <1>2, <1>4, <1>6, <2>1
    <2> QED BY <2>2 DEF jd
  <1>9. CASE s.dq # 0 /\ Lean(s) = b /\ y = x + b /\ y \in 1..MaxVelocity
    <2>1. Brake(y) \in -MaxAcceleration..0 /\ w <= Brake(y)
      <3>1. y \in 0..x
        BY <1>1, <1>3, <1>5, <1>9
      <3> HIDE DEF y
      <3> QED BY <1>1, <3>1, BrakeSound
    <2>2. /\ b < Brake(y) - MaxJerk => ToSlow(s) = Swing + SlowBrake * (-b) + jv
          /\ Brake(y) - MaxJerk <= b => ToSlow(s) = IF y < Slow THEN 0 ELSE MaxJerk * y
      BY <1>5, <1>9, <2>1, <1>3, ToSlowCases
    <2>3. MaxJerk * y \in Int /\ MaxJerk * y <= jv
      <3> HIDE DEF y
      <3> QED BY <1>9, WorkSound, ProductGrows
    <2> DEFINE v == MaxJerk * y
               t == SlowBrake * (-b)
    <2>4. \/ ToSlow(s) = Swing + t + jv
          \/ ToSlow(s) = 0
          \/ ToSlow(s) = v
      <3> HIDE DEF v, t, jv, b, y
      <3>1. b \in Int /\ Brake(y) - MaxJerk \in Int
        BY <1>5, <2>1, WorkSound
      <3> QED BY <2>2, <3>1 DEF v, t
    <2>5. v \in Int /\ v <= jv /\ t = u - jd
      BY <1>6, <2>3
    <2> HIDE DEF da, jd, jv, u, v, t, b, y
    <2>6. ToSlow(s) + jd <= ToSlow(r)
      BY <1>2, <1>4, <1>6, <2>4, <2>5
    <2> QED BY <2>6 DEF jd
  <1> QED BY <1>7, <1>8, <1>9

(* A joint that follows the damping goes on to follow it, and is slow or   *)
(* loses SlowBrake of its pace.                                            *)
LEMMA TrackNearer ==
  ASSUME NEW j \in Joints, NEW r \in References, r.dq # 0,
         Brake(Pace(r)) - MaxJerk <= Lean(r), Lean(r) <= Brake(Pace(r)),
         NEW s \in References, s = Coast(j, r)
  PROVE  ToSlow(s) = 0 \/ ToSlow(s) + MaxJerk * SlowBrake <= ToSlow(r)
  <1> DEFINE a  == Lean(r)
             x  == Pace(r)
             w  == Brake(x)
             b  == Leaning(x, a)
             y  == Pace(s)
  <1>1. a \in -MaxAcceleration..MaxAcceleration /\ x \in Nat \ {0} /\ x \in 1..MaxVelocity
    BY TrajectoryAssumption DEF Lean, Pace, Abs, References
  <1>2. w \in -MaxAcceleration..0 /\ x + w >= 1
    BY <1>1, BrakeSound
  <1>3. b = w
    BY <1>1, <1>2, LeaningSound, WorkSound
  <1>4. \/ s.dq = 0 /\ s.ddq = 0
        \/ s.dq # 0 /\ Lean(s) = w /\ y = x + w /\ y \in 1..MaxVelocity
    <2>1. ~(x + b <= 0)
      BY <1>1, <1>2, <1>3
    <2> QED BY <1>1, <1>2, <1>3, <2>1, CoastPace
  <1>5. CASE s.dq = 0 /\ s.ddq = 0
    BY <1>5, ToSlowCases
  <1>6. CASE s.dq # 0 /\ Lean(s) = w /\ y = x + w /\ y \in 1..MaxVelocity
    <2>1. Brake(y) \in -MaxAcceleration..0 /\ w <= Brake(y) /\ Brake(y) <= w + MaxJerk
      <3>1. y \in 0..x /\ x - y <= MaxAcceleration
        BY <1>1, <1>2, <1>6, WorkSound
      <3> HIDE DEF y
      <3> QED BY <1>1, <3>1, BrakeSound
    <2>2. ToSlow(s) = IF y < Slow THEN 0 ELSE MaxJerk * y
      <3>1. Brake(y) - MaxJerk <= Lean(s) /\ Lean(s) <= Brake(y) /\ Lean(s) \in Int
        BY <1>2, <1>6, <2>1, WorkSound
      <3> QED BY <1>6, <2>1, <3>1, ToSlowCases
    <2>3. ASSUME y >= Slow PROVE MaxJerk * y + MaxJerk * SlowBrake <= ToSlow(r)
      <3>1. x >= Slow
        BY <1>1, <1>2, <1>6, <2>3, WorkSound
      <3>2. ToSlow(r) = MaxJerk * x
        <4>1. ToSlow(r) = IF x < Slow THEN 0 ELSE MaxJerk * x
          BY <1>1, <1>2, ToSlowCases
        <4> QED BY <1>1, <3>1, <4>1, WorkSound
      <3>3. SlowBrake <= -w
        BY <1>1, <1>2, <3>1, BrakeSound, WorkSound
      <3> HIDE DEF w, x, y
      <3>4. MaxJerk * SlowBrake <= MaxJerk * (-w)
        BY <1>2, <3>3, WorkSound, ProductGrows
      <3>5. MaxJerk * y = MaxJerk * x - MaxJerk * (-w)
        BY <1>1, <1>2, <1>6, WorkSound
      <3> DEFINE c == MaxJerk * SlowBrake
                 d == MaxJerk * (-w)
                 e == MaxJerk * x
                 f == MaxJerk * y
      <3>6. c \in Int /\ d \in Int /\ e \in Int /\ f = e - d /\ c <= d
        BY <1>1, <1>2, <3>4, <3>5, WorkSound
      <3> HIDE DEF c, d, e, f
      <3>7. f + c <= e
        BY <3>6
      <3> QED BY <3>2, <3>7 DEF c, e, f
    <2> HIDE DEF y
    <2> QED BY <1>6, <2>2, <2>3, WorkSound
  <1> QED BY <1>4, <1>5, <1>6

(* A joint that accelerates against the damping loses a jerk of that, or   *)
(* the damping takes charge.                                               *)
LEMMA SoftNearer ==
  ASSUME NEW j \in Joints, NEW r \in References, r.dq # 0, Lean(r) > Brake(Pace(r)),
         NEW s \in References, s = Coast(j, r)
  PROVE  ToSlow(s) = 0 \/ ToSlow(s) + MaxJerk * SlowBrake <= ToSlow(r)
  <1> DEFINE a  == Lean(r)
             x  == Pace(r)
             w  == Brake(x)
             b  == Leaning(x, a)
             y  == Pace(s)
             jd == MaxJerk * SlowBrake
             jv == MaxJerk * MaxVelocity
             u  == SlowBrake * (a + MaxAcceleration)
  <1>1. a \in -MaxAcceleration..MaxAcceleration /\ x \in Nat \ {0} /\ x \in 1..MaxVelocity
    BY TrajectoryAssumption DEF Lean, Pace, Abs, References
  <1>2. w \in -MaxAcceleration..0 /\ x + w >= 1
    BY <1>1, BrakeSound
  <1>3. /\ b \in -MaxAcceleration..MaxAcceleration /\ b >= w
        /\ b = a - MaxJerk \/ b = w
    BY <1>1, <1>2, LeaningSound
  <1>4. ToSlow(r) = u + jd + jv
    BY <1>1, <1>2, ToSlowCases
  <1>5. jd \in Nat \ {0} /\ jv \in Nat \ {0} /\ u \in Nat
    <2>1. SlowBrake * 0 <= SlowBrake * (a + MaxAcceleration) /\ SlowBrake * 0 = 0
      BY <1>1, WorkSound, ProductGrows
    <2>2. u \in Int
      BY <1>1, WorkSound
    <2> QED BY <2>1, <2>2, WorkSound
  <1>6. b = a - MaxJerk => SlowBrake * (b + MaxAcceleration) = u - jd
    BY <1>1, WorkSound
  <1>7. \/ s.dq = 0 /\ s.ddq = 0
        \/ /\ s.dq # 0 /\ Lean(s) = b /\ y \in 1..MaxVelocity /\ y \in Nat \ {0}
           /\ b <= 0 => y = x + b
    <2>1. ~(x + b <= 0)
      BY <1>1, <1>2, <1>3, WorkSound
    <2> QED BY <2>1, CoastPace, WorkSound
  <1>8. CASE s.dq = 0 /\ s.ddq = 0
    BY <1>8, ToSlowCases
  <1>9. CASE /\ s.dq # 0 /\ Lean(s) = b /\ y \in 1..MaxVelocity /\ y \in Nat \ {0}
             /\ b <= 0 => y = x + b
    <2>1. Brake(y) \in -MaxAcceleration..0
      <3> HIDE DEF y
      <3> QED BY <1>9, BrakeSound
    <2>2. ASSUME b > Brake(y), b = a - MaxJerk PROVE ToSlow(s) + jd <= ToSlow(r)
      <3>1. ToSlow(s) = SlowBrake * (b + MaxAcceleration) + jd + jv
        BY <1>3, <1>9, <2>1, <2>2, ToSlowCases
      <3> DEFINE t == SlowBrake * (b + MaxAcceleration)
      <3>2. ToSlow(s) = t + jd + jv /\ t = u - jd
        BY <1>6, <2>2, <3>1
      <3> HIDE DEF t, u, jd, jv
      <3> QED BY <1>4, <1>5, <3>2
    <2>3. b > 0 => b > Brake(y) /\ b = a - MaxJerk
      <3> HIDE DEF b, y, w, a, x
      <3> QED BY <1>2, <1>3, <2>1
    <2>4. ASSUME b <= 0
          PROVE  w <= Brake(y) /\ Brake(y) <= w + MaxJerk
      <3>1. y \in 0..x /\ x - y <= MaxAcceleration
        BY <1>1, <1>2, <1>3, <1>9, <2>4, WorkSound
      <3> HIDE DEF y
      <3> QED BY <1>1, <3>1, BrakeSound
    <2>5. b <= 0 /\ b > Brake(y) => b = a - MaxJerk
      <3> HIDE DEF b, y, w, a, x
      <3> QED BY <1>2, <1>3, <2>1, <2>4
    <2>6. ASSUME b <= 0, b <= Brake(y) PROVE ToSlow(s) = 0 \/ ToSlow(s) + jd <= ToSlow(r)
      <3>1. Brake(y) - MaxJerk <= b
        <4> HIDE DEF b, y, w, a, x
        <4> QED BY <1>2, <1>3, <2>1, <2>4, <2>6, WorkSound
      <3>2. ToSlow(s) = IF y < Slow THEN 0 ELSE MaxJerk * y
        BY <1>3, <1>9, <2>1, <2>6, <3>1, ToSlowCases
      <3> DEFINE v == MaxJerk * y
      <3>3. v \in Int /\ v <= jv
        <4> HIDE DEF y
        <4> QED BY <1>9, WorkSound, ProductGrows
      <3>4. ToSlow(s) = 0 \/ ToSlow(s) = v
        BY <3>2
      <3> HIDE DEF v, u, jd, jv
      <3> QED BY <1>4, <1>5, <3>3, <3>4
    <2> HIDE DEF b, y, jd
    <2>7. ToSlow(s) = 0 \/ ToSlow(s) + jd <= ToSlow(r)
      <3>1. b \in Int
        BY <1>3, WorkSound
      <3> QED BY <2>1, <2>2, <2>3, <2>5, <2>6, <3>1
    <2> QED BY <2>7 DEF jd
  <1> QED BY <1>7, <1>8, <1>9

(* A joint that has stopped with an acceleration left swings on with less. *)
LEMMA SwingNearer ==
  ASSUME NEW j \in Joints, NEW r \in References, r.dq = 0,
         NEW s \in References, s = Coast(j, r)
  PROVE  ToSlow(s) = 0 \/ ToSlow(s) + MaxJerk * SlowBrake <= ToSlow(r)
  <1> DEFINE a  == Abs(r.ddq) - MaxJerk
             da == SlowBrake * MaxAcceleration
             jd == MaxJerk * SlowBrake
             jv == MaxJerk * MaxVelocity
             t  == SlowBrake * (a + MaxAcceleration)
  <1>1. a \in Int /\ a <= MaxAcceleration - MaxJerk /\ (a > 0 => r.ddq # 0)
    BY TrajectoryAssumption DEF Abs, References
  <1>2. da \in Nat \ {0} /\ jd \in Nat \ {0} /\ jv \in Nat \ {0} /\ Swing = 2 * da + jd + jv
    BY WorkSound
  <1>3. \/ s.dq = 0 /\ s.ddq = 0
        \/ a > 0 /\ s.dq # 0 /\ Lean(s) = a /\ Pace(s) \in 1..MaxVelocity
    BY CoastSwing
  <1>4. CASE s.dq = 0 /\ s.ddq = 0
    BY <1>4, ToSlowCases
  <1>5. CASE a > 0 /\ s.dq # 0 /\ Lean(s) = a /\ Pace(s) \in 1..MaxVelocity
    <2>1. ToSlow(r) = Swing
      BY <1>1, <1>5, ToSlowCases
    <2>2. Brake(Pace(s)) \in -MaxAcceleration..0
      <3>1. Pace(s) \in Nat \ {0}
        BY <1>5
      <3> QED BY <3>1, BrakeSound
    <2>3. ToSlow(s) = t + jd + jv
      <3> HIDE DEF a
      <3>1. a > Brake(Pace(s)) /\ Lean(s) \in Int /\ Brake(Pace(s)) \in Int
        BY <1>1, <1>5, <2>2
      <3> QED BY <1>5, <3>1, ToSlowCases
    <2>4. t \in Int /\ t <= 2 * da - jd
      <3> HIDE DEF a
      <3>1. SlowBrake * (a + MaxAcceleration) <= SlowBrake * (2 * MaxAcceleration - MaxJerk)
        <4>1. a + MaxAcceleration \in Int /\ 2 * MaxAcceleration - MaxJerk \in Int
              /\ a + MaxAcceleration <= 2 * MaxAcceleration - MaxJerk
          BY <1>1, WorkSound
        <4> QED BY <4>1, WorkSound, ProductGrows
      <3>2. SlowBrake * (2 * MaxAcceleration - MaxJerk) = 2 * da - jd
        BY WorkSound
      <3>3. t \in Int
        BY <1>1, WorkSound
      <3> QED BY <3>1, <3>2, <3>3
    <2> HIDE DEF t, da, jd, jv, a
    <2>5. ToSlow(s) + jd <= ToSlow(r)
      BY <1>2, <2>1, <2>3, <2>4
    <2> QED BY <2>5 DEF jd
  <1> QED BY <1>3, <1>4, <1>5

(* In every cycle of coasting a joint becomes slow, or comes nearer to it. *)
LEMMA CoastSettles ==
  ASSUME NEW j \in Joints, NEW r \in References, NEW cycles \in Nat, Settles(r, cycles)
  PROVE  Settles(Coast(j, r), IF cycles = 0 THEN 0 ELSE cycles - 1)
  <1> DEFINE s  == Coast(j, r)
             jd == MaxJerk * SlowBrake
             n  == IF cycles = 0 THEN 0 ELSE cycles - 1
  <1>1. s \in References
    BY CoastSound DEF Sound
  <1> HIDE DEF s
  <1>2. ToSlow(s) = 0 \/ ToSlow(s) + jd <= ToSlow(r)
    <2>1. CASE r.dq = 0
      BY <1>1, <2>1, SwingNearer DEF s
    <2>2. CASE r.dq # 0
      <3>1. Lean(r) \in Int /\ Pace(r) \in Nat \ {0}
        BY <2>2, TrajectoryAssumption DEF Lean, Pace, Abs, References
      <3>2. Brake(Pace(r)) \in Int /\ MaxJerk \in Int
        BY <3>1, BrakeSound, WorkSound
      <3>3. CASE Lean(r) < Brake(Pace(r)) - MaxJerk
        BY <1>1, <2>2, <3>3, HardNearer DEF s
      <3>4. CASE Brake(Pace(r)) - MaxJerk <= Lean(r) /\ Lean(r) <= Brake(Pace(r))
        BY <1>1, <2>2, <3>4, TrackNearer DEF s
      <3>5. CASE Lean(r) > Brake(Pace(r))
        BY <1>1, <2>2, <3>5, SoftNearer DEF s
      <3> QED BY <3>1, <3>2, <3>3, <3>4, <3>5
    <2> QED BY <2>1, <2>2
  <1>3. jd \in Nat \ {0} /\ ToSlow(r) \in Nat /\ ToSlow(s) \in Nat
    BY <1>1, WorkSound, ToSlowBounded
  <1>4. ToSlow(r) <= cycles * jd
    BY DEF Settles
  <1> HIDE DEF jd
  <1>5. CASE cycles = 0
    <2>1. cycles * jd = 0 /\ n * jd = 0
      BY <1>3, <1>5
    <2>2. ToSlow(s) <= n * jd
      BY <1>2, <1>3, <1>4, <2>1
    <2> QED BY <2>2 DEF Settles, s, jd
  <1>6. CASE cycles # 0
    <2>1. cycles * jd = n * jd + jd /\ n * jd \in Nat
      <3>1. n \in Nat /\ cycles = n + 1
        BY <1>6
      <3> HIDE DEF n
      <3> QED BY <1>3, <3>1
    <2> DEFINE m == n * jd
               o == cycles * jd
    <2>2. m \in Nat /\ o = m + jd /\ ToSlow(r) <= o
      BY <1>4, <2>1
    <2> HIDE DEF m, o, n
    <2>3. ToSlow(s) <= m
      BY <1>2, <1>3, <2>2
    <2> QED BY <2>3 DEF Settles, s, jd, m, n
  <1> QED BY <1>5, <1>6

(* CoastTime is enough for every reference. *)
LEMMA CoastTimeIsEnough ==
  ASSUME NEW r \in References
  PROVE  Settles(r, CoastTime)
  <1> DEFINE da == SlowBrake * MaxAcceleration
             jd == MaxJerk * SlowBrake
             jv == MaxJerk * MaxVelocity
             o  == CoastTime * jd
  <1>1. ToSlow(r) \in Nat /\ ToSlow(r) <= Swing + da + jv
    BY ToSlowBounded
  <1>2. da \in Nat /\ jd \in Nat /\ jv \in Nat /\ Swing = 2 * da + jd + jv
    BY WorkSound
  <1>3. 3 * da + 2 * jv + jd <= o
    <2>1. /\ 3 * MaxAcceleration * SlowBrake = 3 * (SlowBrake * MaxAcceleration)
          /\ 2 * MaxVelocity * MaxJerk = 2 * (MaxJerk * MaxVelocity)
      BY WorkSound
    <2> QED BY <2>1, CoastAssumption
  <1>4. o \in Int
    BY <1>2, MotionAssumption
  <1> HIDE DEF da, jd, jv, o
  <1>5. ToSlow(r) <= o
    BY <1>1, <1>2, <1>3, <1>4
  <1> QED BY <1>5 DEF Settles, o, jd

(* A joint at rest is settled, whatever time is left. *)
LEMMA RestSettles ==
  ASSUME NEW r, r.dq = 0, r.ddq = 0, NEW cycles \in Nat
  PROVE  Settles(r, cycles)
  <1>1. ToSlow(r) = 0
    BY ToSlowCases
  <1>2. 0 <= cycles * (MaxJerk * SlowBrake)
    BY WorkSound
  <1> QED BY <1>1, <1>2 DEF Settles

-----------------------------------------------------------------------------
(* The positions. *)

(* A clamped value is within the limits. *)
LEMMA ClampLands ==
  ASSUME NEW q \in [Joints -> Int]
  PROVE  ClampToJointLimits(q) \in [Joints -> Int] /\ InLimits(ClampToJointLimits(q))
  BY LimitsAssumption DEF ClampToJointLimits, Clamp, InLimits

(* Postures are positions of the joints. *)
LEMMA PosturesType == Postures \subseteq [Joints -> Int]
  <1>1. ASSUME NEW j \in Joints PROVE Reachable(j) \subseteq Int
    <2>1. Lower[j] - Margin \in Int /\ Upper[j] + Margin \in Int
      BY LimitsAssumption, MotionAssumption
    <2> QED BY <2>1 DEF Reachable
  <1> QED BY <1>1 DEF Postures

(* Every target the planner can come to is within the joint limits. *)
LEMMA TargetsInLimits == \A t \in Targets : t \in [Joints -> Int] /\ InLimits(t)
  <1> SUFFICES ASSUME NEW q \in Postures,
                      NEW t \in SolveIkStep(q) \cup ValidatePolicyJointTarget(q)
               PROVE  t \in [Joints -> Int] /\ InLimits(t)
    BY DEF Targets
  <1>1. CASE t \in SolveIkStep(q)
    BY <1>1, PosturesType, ClampLands DEF SolveIkStep, Within
  <1>2. CASE t \in ValidatePolicyJointTarget(q)
    BY <1>2, PosturesType DEF ValidatePolicyJointTarget
  <1> QED BY <1>1, <1>2

(* A reset generator is a generator. *)
LEMMA ResetType ==
  /\ Reset \in [initialized : BOOLEAN, hold : BOOLEAN, ref : [Joints -> References]]
  /\ ~Reset.initialized /\ ~Reset.hold
  /\ \A j \in Joints : Reset.ref[j].dq = 0 /\ Reset.ref[j].ddq = 0
  BY TrajectoryAssumption DEF Reset, AtRest, References

(* The joints at a standstill have velocities. *)
LEMMA StandstillType ==
  /\ Standstill \in [Joints -> -MaxVelocity..MaxVelocity]
  /\ \A j \in Joints : Standstill[j] = 0
  BY TrajectoryAssumption DEF Standstill

-----------------------------------------------------------------------------
(* The invariant: the generator runs from where the arm is, and starts     *)
(* afresh after a route; the velocity is the generator's, but while a      *)
(* re-home is pending; the target of a motion is within the limits; and    *)
(* the time left of CoastTime is enough for every joint to slow down.      *)

Anchored == /\ gen.initialized => \A j \in Joints : gen.ref[j].q = posture[j]
            /\ ~gen.initialized => gen = Reset
Fresh == stage # "control" => ~gen.initialized
Paced == /\ ~rehoming => stage = "control" /\ \A j \in Joints : velocity[j] = gen.ref[j].dq
         /\ stage # "control" => velocity = Standstill
TargetKept == planned.moves => InLimits(planned.target)
Damped == \A j \in Joints : Settles(gen.ref[j], CoastTime - coasted)

IInv == TypeOK /\ Anchored /\ Fresh /\ Paced /\ TargetKept /\ HoldIsAtRest /\ Damped

(* The generator when the callback is about to move the joints. *)
LEMMA Begins ==
  ASSUME IInv
  PROVE  LET h == Initialized(gen, posture)
         IN  /\ h.initialized /\ h.hold = gen.hold /\ h.hold \in BOOLEAN
             /\ h = [initialized |-> h.initialized, hold |-> h.hold, ref |-> h.ref]
             /\ h.ref \in [Joints -> References]
             /\ \A j \in Joints : /\ h.ref[j].q = posture[j]
                                  /\ h.ref[j].dq = gen.ref[j].dq
                                  /\ h.ref[j].ddq = gen.ref[j].ddq
  <1>1. CASE gen.initialized
    BY <1>1 DEF IInv, TypeOK, Anchored, Initialized
  <1>2. CASE ~gen.initialized
    <2>1. gen = Reset
      BY <1>2 DEF IInv, Anchored
    <2>2. \A j \in Joints : AtRest(posture[j]) \in References
      BY TrajectoryAssumption DEF IInv, TypeOK, AtRest, References
    <2> QED BY <1>2, <2>1, <2>2 DEF Initialized, Reset, AtRest
  <1> QED BY <1>1, <1>2

(* What a cycle does to one joint, by the mode of the generator. *)
LEMMA CycleSound ==
  ASSUME IInv, Cycle
  PROVE  /\ gen' \in [initialized : BOOLEAN, hold : BOOLEAN, ref : [Joints -> References]]
         /\ gen'.initialized
         /\ HoldIsAtRest'
         /\ posture' \in [Joints -> Int]
         /\ \A j \in Joints :
              /\ posture'[j] = gen'.ref[j].q
              /\ \/ Lower[j] <= posture'[j] /\ posture'[j] <= Upper[j]
                 \/ posture'[j] = posture[j]
              /\ Lower[j] <= posture[j] /\ posture[j] <= Upper[j] =>
                   Abs(posture'[j] - posture[j]) <= StepLimit
              /\ \/ Abs(gen'.ref[j].dq - gen.ref[j].dq) <= MaxAcceleration
                 \/ gen'.ref[j].q \in {Lower[j], Upper[j]}
                 \/ /\ Moving /\ gen'.ref[j].q = planned.target[j]
                    /\ posture[j] # planned.target[j]
                 \/ Moving /\ gen'.hold /\ Abs(gen.ref[j].dq) <= HoldVelocity
  <1> DEFINE h == Initialized(gen, posture)
  <1>1. /\ h.initialized /\ h.hold = gen.hold /\ h.hold \in BOOLEAN
        /\ h = [initialized |-> h.initialized, hold |-> h.hold, ref |-> h.ref]
        /\ h.ref \in [Joints -> References]
        /\ \A j \in Joints : /\ h.ref[j].q = posture[j]
                             /\ h.ref[j].dq = gen.ref[j].dq
                             /\ h.ref[j].ddq = gen.ref[j].ddq
    BY Begins
  <1>2. gen' = Update(gen, planned.target, posture, Moving) /\ posture' = Commanded(gen')
    BY DEF Cycle
  <1>3. \A j \in Joints : Abs(posture[j] - posture[j]) <= StepLimit
    BY StepLimitPositive DEF IInv, TypeOK, Abs
  <1>4. HoldIsAtRest
    BY DEF IInv
  <1>5. Update(gen, planned.target, posture, Moving) =
          CASE ~Moving                              -> Coasted(h)
            [] Moving /\ Holds(h, planned.target)   -> Held(h)
            [] Moving /\ ~Holds(h, planned.target)  -> Servoed(h, planned.target)
    BY DEF Update
  <1> HIDE DEF h
  <1>6. CASE ~Moving
    <2>1. gen' = [h EXCEPT !.ref = [j \in Joints |-> Coast(j, h.ref[j])]]
      BY <1>2, <1>5, <1>6 DEF Coasted
    <2>2. /\ gen'.initialized /\ gen'.hold = gen.hold
          /\ \A j \in Joints : gen'.ref[j] = Coast(j, h.ref[j])
          /\ gen'.ref = [j \in Joints |-> Coast(j, h.ref[j])]
          /\ gen' = [initialized |-> TRUE, hold |-> gen'.hold, ref |-> gen'.ref]
      BY <1>1, <2>1
    <2>3. ASSUME NEW j \in Joints
          PROVE  /\ Sound(j, h.ref[j], gen'.ref[j]) /\ Gentle(j, h.ref[j], gen'.ref[j])
                 /\ gen.hold => gen'.ref[j].dq = 0 /\ gen'.ref[j].ddq = 0
      BY <1>1, <1>4, <2>2, CoastSound DEF HoldIsAtRest
    <2>4. gen'.ref \in [Joints -> References]
      BY <2>2, <2>3 DEF Sound
    <2>5. posture' \in [Joints -> Int] /\ \A j \in Joints : posture'[j] = gen'.ref[j].q
      BY <1>2, <2>4 DEF Commanded, References
    <2> QED BY <1>1, <2>2, <2>3, <2>4, <2>5 DEF HoldIsAtRest, Gentle, Sound
  <1>7. CASE Moving /\ Holds(h, planned.target)
    <2>1. gen' = [h EXCEPT !.hold = TRUE, !.ref = [j \in Joints |-> AtRest(h.ref[j].q)]]
      BY <1>2, <1>5, <1>7 DEF Held
    <2>2. /\ gen'.initialized /\ gen'.hold
          /\ \A j \in Joints : gen'.ref[j] = AtRest(h.ref[j].q)
          /\ gen'.ref = [j \in Joints |-> AtRest(h.ref[j].q)]
          /\ gen' = [initialized |-> TRUE, hold |-> gen'.hold, ref |-> gen'.ref]
      BY <1>1, <2>1
    <2>3. ASSUME NEW j \in Joints
          PROVE  /\ gen'.ref[j] \in References /\ gen'.ref[j].q = posture[j]
                 /\ gen'.ref[j].dq = 0 /\ gen'.ref[j].ddq = 0
                 /\ \/ Abs(0 - gen.ref[j].dq) <= MaxAcceleration
                    \/ Abs(gen.ref[j].dq) <= HoldVelocity
      <3>1. /\ gen'.ref[j] \in References /\ gen'.ref[j].q = posture[j]
            /\ gen'.ref[j].dq = 0 /\ gen'.ref[j].ddq = 0
        BY <1>1, <2>2, TrajectoryAssumption DEF AtRest, References
      <3>2. gen.hold \/ Abs(gen.ref[j].dq) <= HoldVelocity
        BY <1>1, <1>7 DEF Holds
      <3>3. gen.hold => Abs(0 - gen.ref[j].dq) <= MaxAcceleration
        BY <1>4, TrajectoryAssumption DEF HoldIsAtRest, Abs
      <3> QED BY <3>1, <3>2, <3>3
    <2>4. gen'.ref \in [Joints -> References]
      BY <2>2, <2>3
    <2>5. posture' \in [Joints -> Int] /\ \A j \in Joints : posture'[j] = gen'.ref[j].q
      BY <1>2, <2>4 DEF Commanded, References
    <2> QED BY <1>3, <1>7, <2>2, <2>3, <2>4, <2>5 DEF HoldIsAtRest
  <1>8. CASE Moving /\ ~Holds(h, planned.target)
    <2>1. gen' = [h EXCEPT !.hold = FALSE,
                           !.ref = [j \in Joints |-> Servo(j, h.ref[j], planned.target[j])]]
      BY <1>2, <1>5, <1>8 DEF Servoed
    <2>2. /\ gen'.initialized /\ ~gen'.hold /\ gen'.hold \in BOOLEAN
          /\ \A j \in Joints : gen'.ref[j] = Servo(j, h.ref[j], planned.target[j])
          /\ gen'.ref = [j \in Joints |-> Servo(j, h.ref[j], planned.target[j])]
          /\ gen' = [initialized |-> TRUE, hold |-> gen'.hold, ref |-> gen'.ref]
      BY <1>1, <2>1
    <2>3. /\ planned.target \in [Joints -> Int]
          /\ \A j \in Joints : Lower[j] <= planned.target[j] /\ planned.target[j] <= Upper[j]
      BY <1>8 DEF IInv, TypeOK, TargetKept, Moving, InLimits
    <2>4. ASSUME NEW j \in Joints
          PROVE  /\ Sound(j, h.ref[j], gen'.ref[j])
                 /\ \/ Gentle(j, h.ref[j], gen'.ref[j])
                    \/ gen'.ref[j].q = planned.target[j] /\ posture[j] # planned.target[j]
      BY <1>1, <2>2, <2>3, ServoSound
    <2>5. gen'.ref \in [Joints -> References]
      BY <2>2, <2>4 DEF Sound
    <2>6. posture' \in [Joints -> Int] /\ \A j \in Joints : posture'[j] = gen'.ref[j].q
      BY <1>2, <2>5 DEF Commanded, References
    <2> QED BY <1>1, <1>8, <2>2, <2>4, <2>5, <2>6 DEF HoldIsAtRest, Gentle, Sound
  <1> QED BY <1>6, <1>7, <1>8

(* Every cycle without motion uses up one of the cycles that are left. *)
LEMMA CycleSettles ==
  ASSUME IInv, Cycle
  PROVE  Damped'
  <1> DEFINE h == Initialized(gen, posture)
  <1>1. /\ h.ref \in [Joints -> References]
        /\ \A j \in Joints : h.ref[j].dq = gen.ref[j].dq /\ h.ref[j].ddq = gen.ref[j].ddq
    BY Begins
  <1>2. CASE Moving
    <2>1. coasted' = 0 /\ CoastTime - 0 = CoastTime
      BY <1>2, MotionAssumption DEF Cycle
    <2>2. \A j \in Joints : gen'.ref[j] \in References
      BY CycleSound
    <2> QED BY <2>1, <2>2, CoastTimeIsEnough DEF Damped
  <1>3. CASE ~Moving
    <2>1. gen' = [h EXCEPT !.ref = [j \in Joints |-> Coast(j, h.ref[j])]]
      BY <1>3 DEF Cycle, Update, Coasted
    <2>2. h = [initialized |-> h.initialized, hold |-> h.hold, ref |-> h.ref]
      BY Begins
    <2> DEFINE cycles == CoastTime - coasted
    <2>3. cycles \in Nat
      BY MotionAssumption DEF IInv, TypeOK
    <2>4. CoastTime - coasted' = IF cycles = 0 THEN 0 ELSE cycles - 1
      BY <1>3, MotionAssumption DEF Cycle, IInv, TypeOK
    <2> HIDE DEF h, cycles
    <2>5. \A j \in Joints : gen'.ref[j] = Coast(j, h.ref[j])
      BY <2>1, <2>2
    <2>6. ASSUME NEW j \in Joints PROVE Settles(h.ref[j], cycles)
      <3>1. Settles(gen.ref[j], cycles)
        BY DEF IInv, Damped, cycles
      <3>2. h.ref[j].dq = gen.ref[j].dq /\ h.ref[j].ddq = gen.ref[j].ddq
        BY <1>1
      <3> QED BY <3>1, <3>2 DEF Settles, ToSlow, Pace, Lean
    <2>7. \A j \in Joints :
            Settles(Coast(j, h.ref[j]), IF cycles = 0 THEN 0 ELSE cycles - 1)
      BY <1>1, <2>3, <2>6, CoastSettles
    <2> QED BY <2>4, <2>5, <2>7 DEF Damped
  <1> QED BY <1>2, <1>3

(* A generator that has been reset rests, whatever time is left. *)
LEMMA ResetSettles ==
  \A j \in Joints : Settles(Reset.ref[j], CoastTime - 0)
  <1>1. CoastTime - 0 \in Nat
    BY MotionAssumption
  <1> QED BY <1>1, ResetType, RestSettles

-----------------------------------------------------------------------------
(* The invariant holds at the start. *)
LEMMA InitInvariant == Init => IInv
  <1> SUFFICES ASSUME Init PROVE IInv
    OBVIOUS
  <1>1. posture \in [Joints -> Int]
    BY MotionAssumption, ClampLands DEF Init
  <1>2. planned \in [target : [Joints -> Int], moves : BOOLEAN]
    BY <1>1 DEF Init, Hold
  <1>3. 0 \in 0..CoastTime
    BY MotionAssumption
  <1>4. TypeOK
    BY <1>1, <1>2, <1>3, ResetType, StandstillType DEF Init, TypeOK
  <1> QED BY <1>4, ResetType, StandstillType, ResetSettles
          DEF Init, IInv, Anchored, Fresh, Paced, TargetKept, HoldIsAtRest, Hold, Damped

(* The invariant is kept by every step. *)
LEMMA NextInvariant ==
  ASSUME IInv, [Next]_vars
  PROVE  IInv'
  <1> USE DEF IInv
  <1>1. CASE Plan
    <2>1. /\ planned' \in [target : [Joints -> Int], moves : BOOLEAN]
          /\ planned'.moves => InLimits(planned'.target)
      <3>1. CASE planned' = Hold(posture)
        BY <3>1 DEF TypeOK, Hold
      <3>2. CASE planned' \in [target : Targets, moves : {TRUE}]
        BY <3>2, TargetsInLimits
      <3> QED BY <1>1, <3>1, <3>2 DEF Plan
    <2> QED BY <1>1, <2>1 DEF Plan, TypeOK, Anchored, Fresh, Paced, TargetKept, HoldIsAtRest, Damped
  <1>2. CASE Inhibit
    BY <1>2 DEF Inhibit, TypeOK, Anchored, Fresh, Paced, TargetKept, HoldIsAtRest, Damped
  <1>3. CASE RequestRehome
    BY <1>3 DEF RequestRehome, TypeOK, Anchored, Fresh, Paced, TargetKept, HoldIsAtRest, Damped
  <1>4. CASE Cycle
    <2>1. coasted' \in 0..CoastTime
      BY <1>4, MotionAssumption DEF Cycle, TypeOK
    <2>2. /\ velocity' \in [Joints -> -MaxVelocity..MaxVelocity]
          /\ \A j \in Joints : velocity'[j] = gen'.ref[j].dq
      BY <1>4, CycleSound DEF Cycle, References
    <2> QED BY <1>4, <2>1, <2>2, CycleSound, CycleSettles
        DEF Cycle, TypeOK, Anchored, Fresh, Paced, TargetKept
  <1>11. CASE RepeatPosture
    BY <1>11, StandstillType
       DEF RepeatPosture, TypeOK, Anchored, Fresh, Paced, TargetKept, HoldIsAtRest, Damped
  <1>5. CASE MoveToLiftPose
    BY <1>5, ResetType, ResetSettles, PosturesType, MotionAssumption
       DEF MoveToLiftPose, AfterReset, TypeOK, Anchored, Fresh, Paced, TargetKept, HoldIsAtRest, Damped
  <1>6. ASSUME NEW goal \in [Joints -> Int], MoveToHomePose(goal)
        PROVE  posture' \in [Joints -> Int]
    BY <1>6, ClampLands DEF MoveToHomePose, TypeOK
  <1>7. CASE MoveToNullspace
    <2>1. posture' \in [Joints -> Int]
      BY <1>6, <1>7, MotionAssumption DEF MoveToNullspace
    <2> QED BY <1>7, <2>1
        DEF MoveToNullspace, TypeOK, Anchored, Fresh, Paced, TargetKept, HoldIsAtRest, Damped
  <1>8. CASE MoveToStart
    <2>1. posture' \in [Joints -> Int]
      BY <1>6, <1>8, MotionAssumption DEF MoveToStart
    <2>2. \A j \in Joints : velocity[j] = 0 /\ gen.ref[j].dq = 0
      BY <1>8, ResetType DEF MoveToStart, Anchored, Fresh, Paced, Standstill
    <2> QED BY <1>8, <2>1, <2>2
        DEF MoveToStart, Hold, TypeOK, Anchored, Fresh, Paced, TargetKept, HoldIsAtRest, Damped
  <1>9. CASE Reflex
    BY <1>9, ResetType, StandstillType, ResetSettles, PosturesType, MotionAssumption
       DEF Reflex, AfterReset, TypeOK, Anchored, Fresh, Paced, TargetKept, HoldIsAtRest, Damped
  <1>10. CASE UNCHANGED vars
    BY <1>10 DEF vars, TypeOK, Anchored, Fresh, Paced, TargetKept, HoldIsAtRest, Damped
  <1> QED BY <1>1, <1>2, <1>3, <1>4, <1>5, <1>7, <1>8, <1>9, <1>10, <1>11 DEF Next

(* The inductive invariant: generator, arm and target together. *)
THEOREM Invariance == Spec => []IInv
  BY InitInvariant, NextInvariant, PTL DEF Spec

(* The references stay within the limits of velocity and acceleration,     *)
(* whatever targets the planner publishes and when motion is taken away.   *)
THEOREM TypeCorrect == Spec => []TypeOK
  BY Invariance, PTL DEF IInv

(* The hold band never cuts off a velocity. *)
THEOREM HoldRests == Spec => []HoldIsAtRest
  BY Invariance, PTL DEF IInv

(* No cycle commands more than a step, also the first one after a re-home  *)
(* or a recovery.                                                          *)
THEOREM NeverJumps == Spec => NoJump
  <1>1. ASSUME IInv, [Next]_vars
        PROVE  [Cycle /\ InLimits(posture) =>
                  \A j \in Joints : Abs(posture'[j] - posture[j]) <= StepLimit]_vars
    BY <1>1, CycleSound DEF InLimits
  <1> QED BY <1>1, Invariance, PTL DEF Spec, NoJump

(* No cycle takes a joint out of its limits. *)
THEOREM KeepsLimits == Spec => LimitsKept
  <1>1. ASSUME IInv, [Next]_vars
        PROVE  [Cycle => \A j \in Joints :
                  \/ Lower[j] <= posture'[j] /\ posture'[j] <= Upper[j]
                  \/ posture'[j] = posture[j]]_vars
    BY <1>1, CycleSound
  <1> QED BY <1>1, Invariance, PTL DEF Spec, LimitsKept

(* The velocity of a joint changes by no more than the acceleration limit, *)
(* but where it meets its limit, its target or the hold band, or where a   *)
(* re-home becomes pending, which stops the joint at once.                 *)
THEOREM Smooth == Spec => ChangesGently
  <1>1. ASSUME IInv, [Next]_vars
        PROVE  [Cycle \/ RepeatPosture => \A j \in Joints :
                  \/ Abs(velocity'[j] - velocity[j]) <= MaxAcceleration
                  \/ gen'.ref[j].q \in {Lower[j], Upper[j]}
                  \/ Moving /\ gen'.ref[j].q = planned.target[j] /\ posture[j] # planned.target[j]
                  \/ Moving /\ gen'.hold /\ Abs(velocity[j]) <= HoldVelocity
                  \/ rehoming /\ velocity'[j] = 0]_vars
    <2>1. ASSUME Cycle, NEW j \in Joints
          PROVE  velocity[j] = gen.ref[j].dq /\ velocity'[j] = gen'.ref[j].dq
      BY <1>1, <2>1 DEF IInv, Paced, Cycle
    <2>2. RepeatPosture => rehoming /\ \A j \in Joints : velocity'[j] = 0
      BY StandstillType DEF RepeatPosture
    <2> QED BY <1>1, <2>1, <2>2, CycleSound
  <1> QED BY <1>1, Invariance, PTL DEF Spec, ChangesGently

(* Every joint is slow when no motion has been applied for CoastTime       *)
(* cycles, from whatever velocities and accelerations, with a damping that *)
(* is weak for a cycle and never stops a joint by itself.                  *)
THEOREM AlwaysSlowsDown == Spec => []SlowsDown
  <1>1. IInv => SlowsDown
    <2> SUFFICES ASSUME IInv, coasted = CoastTime, NEW j \in Joints
                 PROVE  Abs(gen.ref[j].dq) < Slow
      BY DEF SlowsDown
    <2>1. Settles(gen.ref[j], 0)
      BY MotionAssumption DEF IInv, Damped
    <2>2. 0 * (MaxJerk * SlowBrake) = 0
      BY WorkSound
    <2>3. gen.ref[j] \in References
      BY DEF IInv, TypeOK
    <2>4. ToSlow(gen.ref[j]) \in Nat /\ ToSlow(gen.ref[j]) <= 0
      BY <2>1, <2>2, <2>3, ToSlowBounded DEF Settles
    <2> QED BY <2>3, <2>4, ToSlowBounded
  <1> QED BY <1>1, Invariance, PTL

-----------------------------------------------------------------------------
(* The gripper thread. *)

(* A call that has not returned is the one in progress; the loop is left   *)
(* only on a stop, and the thread ends only after its last call.           *)
CallInv ==
  /\ running # 0 => inProgress
  /\ pc \in {"first", "ended"} => ~inProgress
  /\ pc \in {"lastStop", "lastDrain", "ended"} => stop

GripperInv == GripperTypeOK /\ CallInv

-----------------------------------------------------------------------------
(* The initial states are in the invariant. *)
LEMMA GripperInitInv == GripperInit => GripperInv
  <1> SUFFICES ASSUME GripperInit PROVE GripperInv
    OBVIOUS
  <1>1. ~inProgress /\ ~stop /\ ~late
    BY Zenon DEF GripperInit
  <1>2. inProgress \in BOOLEAN /\ stop \in BOOLEAN /\ late \in BOOLEAN
    BY Zenon DEF GripperInit
  <1>3. /\ desired \in States /\ wanted \in States
        /\ active \in States /\ target \in States
    BY DEF GripperInit, States
  <1>4. pc = "first" /\ running = 0 /\ aborted = "no"
    BY DEF GripperInit
  <1> QED BY <1>1, <1>2, <1>3, <1>4 DEF GripperInv, GripperTypeOK, CallInv

(* The environment keeps the invariant. *)
LEMMA EnvironmentStep ==
  GripperInv /\ (ChangeDesired \/ RequestStop \/ CallReturns \/ TimeIsUp) => GripperInv'
  <1> SUFFICES ASSUME GripperInv, ChangeDesired \/ RequestStop \/ CallReturns \/ TimeIsUp
               PROVE  GripperInv'
    OBVIOUS
  <1> USE DEF GripperInv, GripperTypeOK, CallInv, loop, call
  <1>1. CASE ChangeDesired
    BY <1>1 DEF ChangeDesired
  <1>2. CASE RequestStop
    BY <1>2 DEF RequestStop
  <1>3. CASE CallReturns
    BY <1>3 DEF CallReturns
  <1>4. CASE TimeIsUp
    BY <1>4 DEF TimeIsUp
  <1> QED BY <1>1, <1>2, <1>3, <1>4

(* The thread keeps the invariant. *)
LEMMA LoopStep == GripperInv /\ Loop => GripperInv'
  <1> SUFFICES ASSUME GripperInv, Loop PROVE GripperInv'
    OBVIOUS
  <1> USE DEF GripperInv, GripperTypeOK, CallInv, call, Goto, Keep
  <1>1. CASE FirstRead
    BY <1>1 DEF FirstRead
  <1>2. CASE Iterate
    BY <1>2 DEF Iterate, AfterLoop
  <1>3. CASE ReadFails \/ ReadSucceeds
    BY <1>3 DEF ReadFails, ReadSucceeds
  <1>4. CASE Finish
    BY <1>4, Zenon DEF Finish, Over, EndAction
  <1>5. CASE GiveUp
    BY <1>5 DEF GiveUp
  <1>6. CASE Dispatch
    <2>1. ~inProgress /\ running = 0
      BY <1>6, Zenon DEF Dispatch, MayDispatch
    <2>2. running' = 1
      BY <1>6, <2>1 DEF Dispatch
    <2>3. inProgress' \in BOOLEAN /\ inProgress' /\ late' \in BOOLEAN
      BY <1>6, Zenon DEF Dispatch
    <2>4. /\ pc' = "top" /\ aborted' = "no" /\ target' = wanted
          /\ UNCHANGED <<desired, stop, wanted, active>>
      BY <1>6, Zenon DEF Dispatch
    <2> QED BY <2>2, <2>3, <2>4
  <1>7. CASE Pass
    BY <1>7 DEF Pass
  <1>8. CASE CallStop
    BY <1>8 DEF CallStop
  <1>9. CASE Drain
    BY <1>9, Zenon DEF Drain, EndAction
  <1>10. CASE LastDrain
    BY <1>10, Zenon DEF LastDrain
  <1> QED
    BY <1>1, <1>2, <1>3, <1>4, <1>5, <1>6, <1>7, <1>8, <1>9, <1>10 DEF Loop

(* The invariant holds in every reachable state. *)
THEOREM GripperInvariance == GripperSpec => []GripperInv
  <1>1. GripperInv /\ [GripperNext]_gripperVars => GripperInv'
    <2>1. GripperInv /\ UNCHANGED gripperVars => GripperInv'
      BY DEF GripperInv, GripperTypeOK, CallInv, gripperVars, loop, call
    <2> QED BY <2>1, EnvironmentStep, LoopStep DEF GripperNext, Ended
  <1> QED BY GripperInitInv, <1>1, PTL DEF GripperSpec

(* grasp() and move() are never called while a call has not returned, and  *)
(* every field has its type.                                               *)
THEOREM GripperTypeCorrect == GripperSpec => []GripperTypeOK
  BY GripperInvariance, PTL DEF GripperInv

(* The thread ends with no call outstanding, and not without a stop. *)
THEOREM EndsAtRest == GripperSpec => []AtRestWhenEnded
  <1>1. GripperInv => AtRestWhenEnded
    BY DEF GripperInv, GripperTypeOK, CallInv, AtRestWhenEnded
  <1> QED BY <1>1, GripperInvariance, PTL

(* The published state changes only to the target of a call that is over.  *)
THEOREM ActiveIsReached == GripperSpec => ActiveFollowsCall
  <1>1. GripperInv /\ [GripperNext]_gripperVars => [active' # active => running = 0 /\ active' = target]_active
    <2> SUFFICES ASSUME GripperInv, [GripperNext]_gripperVars, active' # active
                 PROVE  running = 0 /\ active' = target
      OBVIOUS
    <2>1. Finish \/ Drain
      BY DEF GripperNext, gripperVars, loop, call, ChangeDesired, RequestStop, CallReturns,
             TimeIsUp, Loop, Ended, FirstRead, Iterate, ReadFails, ReadSucceeds,
             GiveUp, Dispatch, Pass, CallStop, LastDrain, Keep
    <2> QED BY <2>1 DEF Finish, Drain, Over, EndAction
  <1> QED BY <1>1, GripperInvariance, PTL DEF GripperSpec, ActiveFollowsCall
=============================================================================
