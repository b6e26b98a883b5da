--------------------------- MODULE XrInputProofs ----------------------------
(***************************************************************************)
(* Proofs about the way from the headset to the target: the age of         *)
(* commands, for every time-out, grace period and planner schedule, and    *)
(* the mapping of the hand, for all thresholds and limits.                 *)
(***************************************************************************)
EXTENDS CommandFreshness, XrMapping, TLAPS

(* Stamps are of the past, in the order of the packets, and no target is   *)
(* older than the planner's schedule allows.                               *)
TimeInv ==
  /\ now <= planned.at + Refresh /\ planned.at <= now
  /\ stamp <= now /\ arrived <= now /\ clock <= now
  /\ cmd.at <= packet.at /\ packet.at <= now
  /\ stamp # 0 => packet.at <= stamp
  /\ ppc # "sleep" => planned.at <= clock

(* What the iteration works on is the newest packet, but for those that    *)
(* have come since it read the clock.                                      *)
ReadInv == ppc = "decide" /\ arrived < clock => cmd = packet

(* A target moves the arm on a command that was healthy when the target,   *)
(* or the one it repeats, was computed.                                    *)
AgeInv ==
  /\ recent => last.at <= last.from + Timeout
  /\ planned.target.moves => planned.at <= planned.target.from + Timeout + Grace

IInv == TypeOK /\ TimeInv /\ ReadInv /\ AgeInv /\ ReleaseObeyed /\ LostStreamDisengages

-----------------------------------------------------------------------------
(* The clutch automaton stays in its states and is active on a deadman only. *)
LEMMA UpdateType ==
  ASSUME NEW state \in TeleopState, NEW in \in StateInputs
  PROVE  /\ Update(state, in) \in TeleopState
         /\ Update(state, in) = "Active" => in.deadmanPressed
  BY DEF Update, TeleopState, StateInputs

(* The age of a packet is a number. *)
LEMMA AgeType == TypeOK => Age \in Nat
  BY FreshnessAssumption DEF TypeOK, Age

(* What an iteration finds out about its packet. *)
LEMMA HealthyFact ==
  TypeOK /\ Healthy => cmd.at # 0 /\ clock > cmd.at /\ clock <= cmd.at + Timeout
  BY FreshnessAssumption DEF TypeOK, Healthy, Age

(* The deadman switch is pressed on a healthy stream only. *)
LEMMA DeadmanFact == Deadman \in BOOLEAN /\ (Deadman => Healthy /\ ~Released)
  <1>1. Deadman \in BOOLEAN
    BY Zenon DEF Deadman
  <1>2. Deadman => Healthy
    BY Zenon DEF Deadman
  <1>3. cmd.grip = "pressed" => ~Released
    BY DEF Released
  <1>4. Deadman => ~Released
    BY <1>3, Zenon DEF Deadman
  <1> QED BY <1>1, <1>2, <1>4

(* The invariant holds at the start. *)
LEMMA InitIInv == Init => IInv
  <1> SUFFICES ASSUME Init PROVE IInv
    OBVIOUS
  <1>1. deadmanLatched = FALSE /\ recent = FALSE /\ teleopState = "Disconnected"
    BY Zenon DEF Init
  <1>2. /\ planned = [at |-> 1, age |-> Never, target |-> [moves |-> FALSE, from |-> 0]]
        /\ last = [at |-> 0, from |-> 0]
        /\ cmd = [at |-> 0, grip |-> "released"] /\ packet = cmd
    BY Zenon DEF Init, Hold, NoPacket
  <1>3. now = 1 /\ stamp = 0 /\ arrived = 0 /\ clock = 0 /\ ppc = "sleep"
    BY Zenon DEF Init
  <1> USE <1>1, <1>2, <1>3, FreshnessAssumption
  <1>4. TypeOK
    BY DEF TypeOK, Grips, TeleopState
  <1>5. TimeInv /\ ReadInv /\ AgeInv
    BY DEF TimeInv, ReadInv, AgeInv
  <1>6. ReleaseObeyed /\ LostStreamDisengages
    BY DEF ReleaseObeyed, LostStreamDisengages
  <1> QED BY <1>4, <1>5, <1>6 DEF IInv

(* Time, the source and the two reads of an iteration. *)
LEMMA SourceStep ==
  IInv /\ (Tick \/ Receive \/ PublishPacket \/ ReadClock \/ ReadPacket) => IInv'
  <1> SUFFICES ASSUME IInv, Tick \/ Receive \/ PublishPacket \/ ReadClock \/ ReadPacket
               PROVE  IInv'
    OBVIOUS
  <1> USE FreshnessAssumption DEF IInv, TypeOK, TimeInv, ReadInv, AgeInv, ReleaseObeyed,
          LostStreamDisengages, source, planner
  <1>1. CASE Tick
    BY <1>1 DEF Tick, PlannerDue
  <1>2. CASE Receive
    BY <1>2 DEF Receive
  <1>3. CASE PublishPacket
    BY <1>3 DEF PublishPacket
  <1>4. CASE ReadClock
    BY <1>4 DEF ReadClock
  <1>5. CASE ReadPacket
    BY <1>5 DEF ReadPacket
  <1> QED BY <1>1, <1>2, <1>3, <1>4, <1>5

(* The end of an iteration. *)
LEMMA PublishStep == IInv /\ PublishTarget => IInv'
  <1> SUFFICES ASSUME IInv, PublishTarget PROVE IInv'
    OBVIOUS
  <1> USE DEF IInv
  <1>1. /\ ppc = "decide" /\ ppc' = "sleep" /\ clock' = 0 /\ cmd' = NoPacket
        /\ UNCHANGED <<now, stamp, packet, arrived>>
        /\ deadmanLatched' = Deadman
    BY DEF PublishTarget, source
  <1>2. PICK robotOk \in BOOLEAN :
          teleopState' = Update(teleopState,
                                [xrStreamHealthy |-> Healthy, deadmanPressed |-> Deadman,
                                 robotOk |-> robotOk, faultRequested |-> FALSE,
                                 clearFaultRequested |-> TRUE])
    BY DEF PublishTarget
  <1>3. teleopState' \in TeleopState /\ (teleopState' = "Active" => Deadman)
    <2> DEFINE in == [xrStreamHealthy |-> Healthy, deadmanPressed |-> Deadman,
                      robotOk |-> robotOk, faultRequested |-> FALSE,
                      clearFaultRequested |-> TRUE]
    <2>1. Healthy \in BOOLEAN
      BY Zenon DEF Healthy
    <2>2. in \in StateInputs
      BY <2>1, DeadmanFact, Zenon DEF StateInputs
    <2>3. in.deadmanPressed = Deadman
      OBVIOUS
    <2>4. teleopState \in TeleopState
      BY DEF TypeOK
    <2> HIDE DEF in
    <2>5. teleopState' = Update(teleopState, in)
      BY <1>2 DEF in
    <2> QED BY <2>2, <2>3, <2>4, <2>5, UpdateType, Zenon
  <1>4. /\ planned'.at = clock /\ planned'.age = Age
        /\ planned'.target \in [moves : BOOLEAN, from : Nat]
        /\ planned' \in [at : Nat, age : Nat, target : [moves : BOOLEAN, from : Nat]]
        /\ recent' \in BOOLEAN /\ last' \in [at : Nat, from : Nat]
        /\ recent' => last'.at <= last'.from + Timeout
        /\ planned'.target.moves =>
             Deadman /\ clock <= planned'.target.from + Timeout + Grace
    <2> USE FreshnessAssumption, AgeType, HealthyFact, DeadmanFact DEF TypeOK, AgeInv, Hold
    <2>1. CASE FailTarget /\ Deadman
      BY <2>1 DEF FailTarget, Reusable
    <2>2. CASE RejectTarget
      BY <2>2 DEF RejectTarget
    <2>3. CASE NewTarget /\ Deadman
      BY <2>3 DEF NewTarget
    <2> QED BY <1>3, <2>1, <2>2, <2>3, Zenon DEF PublishTarget
  <1>5. TypeOK'
    BY <1>1, <1>3, <1>4, DeadmanFact DEF TypeOK, NoPacket, Grips
  <1>6. TimeInv'
    BY <1>1, <1>4, FreshnessAssumption DEF TimeInv, TypeOK, NoPacket
  <1>7. ReadInv'
    BY <1>1 DEF ReadInv
  <1>8. AgeInv'
    BY <1>1, <1>4 DEF AgeInv
  <1>9. ReleaseObeyed'
    <2> SUFFICES ASSUME packet.grip = "released", arrived < clock PROVE ~planned'.target.moves
      BY <1>1, <1>4 DEF ReleaseObeyed
    <2>1. cmd = packet
      BY <1>1 DEF ReadInv
    <2>2. Released
      BY <2>1 DEF Released
    <2> QED BY <2>2, <1>4, DeadmanFact
  <1>10. LostStreamDisengages'
    <2> SUFFICES ASSUME packet.at + Timeout < clock PROVE ~planned'.target.moves /\ ~Deadman
      BY <1>1, <1>4 DEF LostStreamDisengages
    <2>1. ~Healthy
      BY HealthyFact, FreshnessAssumption DEF TimeInv, TypeOK
    <2> QED BY <2>1, <1>4, DeadmanFact
  <1> QED BY <1>5, <1>6, <1>7, <1>8, <1>9, <1>10

-----------------------------------------------------------------------------
(* The invariant of which the properties are parts or consequences. *)
THEOREM Invariance == Spec => []IInv
  <1>1. IInv /\ [Next]_vars => IInv'
    <2>1. IInv /\ Next => IInv'
      BY SourceStep, PublishStep DEF Next
    <2>2. IInv /\ UNCHANGED vars => IInv'
      BY DEF vars, source, planner, IInv, TypeOK, TimeInv, ReadInv, AgeInv,
         ReleaseObeyed, LostStreamDisengages
    <2> QED BY <2>1, <2>2
  <1> QED BY InitIInv, <1>1, PTL DEF Spec

(* Every variable keeps its type: no age is ever negative. *)
THEOREM TypeCorrect == Spec => []TypeOK
  <1>1. IInv => TypeOK
    BY DEF IInv
  <1> QED BY Invariance, <1>1, PTL

(* The arm never moves on a command older than the time-out, the grace     *)
(* period and the life of a target together.                               *)
THEOREM AgeIsBounded == Spec => []CommandAgeBounded
  <1>1. IInv => CommandAgeBounded
    BY FreshnessAssumption DEF IInv, TypeOK, TimeInv, AgeInv, CommandAgeBounded
  <1> QED BY Invariance, <1>1, PTL

(* The first iteration after a release has arrived obeys it, and a lost    *)
(* stream stops the arm and lets go of the clutch.                         *)
THEOREM LettingGoStopsArm == Spec => []LettingGoStops
  <1>1. IInv => LettingGoStops
    BY DEF IInv, LettingGoStops
  <1> QED BY Invariance, <1>1, PTL

-----------------------------------------------------------------------------
(* The mapping of the hand.  The drift is what each freeze leaves behind;  *)
(* and unless something else moves the arm, both where it is and where its *)
(* momentum takes it are within a step and a coast of the last valid       *)
(* target, at which the mapper is anchored next.                           *)
CacheInv ==
  /\ lastValid = None \/ \E p \in Int : lastValid = Some(p)
  /\ lastValid.some /\ ~disturbed =>
       /\ Abs(lastValid.pose - robot) <= MaxStep + MaxCoast
       /\ Abs(lastValid.pose - (robot + momentum)) <= MaxStep + MaxCoast

MappingInv == MappingTypeOK /\ CacheInv /\ DriftBounded

(* The low pass, and the arm on its way, stay between two points. *)
LEMMA SpanBetween ==
  ASSUME NEW p \in Int, NEW q \in Int, NEW x \in Span(p, q)
  PROVE  x \in Int /\ ((p <= x /\ x <= q) \/ (q <= x /\ x <= p))
  <1>1. Min({p, q}) = IF p <= q THEN p ELSE q
    BY DEF Min
  <1>2. Max({p, q}) = IF p <= q THEN q ELSE p
    BY DEF Max
  <1> QED BY <1>1, <1>2 DEF Span

(* The deadband takes at most its width off, and never stretches a motion. *)
LEMMA DeadbandSound ==
  ASSUME NEW v \in Int, NEW w \in Int
  PROVE  /\ ApplyVectorDeadband(v) \in Int
         /\ Abs(ApplyVectorDeadband(v) - v) <= Deadband
         /\ Abs(ApplyVectorDeadband(v)) <= Abs(v)
         /\ Abs(ApplyVectorDeadband(v) - ApplyVectorDeadband(w)) <= Abs(v - w)
  BY MappingAssumption DEF ApplyVectorDeadband, Abs

(* A mapped pose is a position. *)
LEMMA MappedType ==
  ASSUME NEW m \in Mapper, NEW f \in Int
  PROVE  ComputeMappedPose(m, f) \in Int /\ MappedPose(m) \in Int
  <1>1. m.anchorRobot \in Int /\ m.anchorXr \in Int /\ m.filtered \in Int
    BY DEF Mapper
  <1>2. \A v \in Int : ApplyVectorDeadband(v) \in Int
    BY MappingAssumption DEF ApplyVectorDeadband
  <1>3. \A g \in Int : ComputeMappedPose(m, g) \in Int
    BY <1>1, <1>2 DEF ComputeMappedPose
  <1> QED BY <1>1, <1>3 DEF MappedPose

(* What the low pass returns is a position. *)
LEMMA FilterType ==
  ASSUME MappingTypeOK, NEW f \in FilterXrPose(mapper)
  PROVE  f \in Int
  <1>1. hand \in Int /\ mapper.filtered \in Int
    BY MappingAssumption DEF MappingTypeOK, Mapper
  <1> QED BY <1>1, SpanBetween DEF FilterXrPose

(* The safety filter's answer is a pose within a step of the arm. *)
LEMMA FilterSafe ==
  ASSUME NEW current \in Int, NEW goal \in Int
  PROVE  LET safe == FilterTargetPose(current, goal)
         IN  safe.some => /\ safe.pose \in Int /\ safe = Some(safe.pose)
                          /\ Abs(safe.pose - current) <= MaxStep
  <1> DEFINE inside == Clamp(goal, WorkspaceMin, WorkspaceMax)
             to == current + Clamp(inside - current, -MaxStep, MaxStep)
  <1>1. inside \in Int
    BY MappingAssumption DEF Clamp
  <1>2. to \in Int /\ Abs(to - current) <= MaxStep
    <2> HIDE DEF inside
    <2> QED BY <1>1, MappingAssumption DEF Clamp, Abs
  <1>3. FilterTargetPose(current, goal) \in {None, Some(to)}
    BY DEF FilterTargetPose
  <1> HIDE DEF to
  <1> QED BY <1>2, <1>3 DEF None, Some

(* What one sample does to the mapper: it lets go, goes on or freezes, and *)
(* only a freeze touches the anchors.                                      *)
LEMMA WatchSound ==
  ASSUME MappingTypeOK, NEW f \in Int, NEW turns \in BOOLEAN
  PROVE  LET m == ComputeTargetPose(mapper, f, turns)
         IN  /\ m \in Mapper /\ m.filtered = f /\ m.anchored = mapper.anchored
             /\ \/ /\ ~m.frozen \/ mapper.frozen
                   /\ m.anchorRobot = mapper.anchorRobot
                   /\ m.anchorXr = mapper.anchorXr
                \/ /\ m.frozen /\ ~mapper.frozen
                   /\ m.anchorRobot = ComputeMappedPose(mapper, f)
                   /\ m.anchorXr = f
  <1> DEFINE still == IF mapper.stillFor = NotStill THEN 0 ELSE mapper.stillFor + unseen
             w == Watch(mapper, f, turns)
  <1>1. mapper \in Mapper /\ unseen \in 0..Dwell /\ Dwell \in Nat \ {0}
    BY MappingAssumption DEF MappingTypeOK
  <1>2. still \in Nat /\ (~StillEnough(still) => still \in NotStill..(Dwell - 1))
    BY <1>1 DEF Mapper, NotStill, StillEnough
  <1>3. NotStill \in NotStill..(Dwell - 1)
    BY <1>1 DEF NotStill
  <1>4. ComputeMappedPose(mapper, f) \in Int
    BY <1>1, MappedType
  <1>5. \/ /\ mapper.frozen
           /\ \/ w = [mapper EXCEPT !.lastMotion = f, !.frozen = FALSE, !.stillFor = NotStill]
              \/ w = [mapper EXCEPT !.lastMotion = f]
        \/ /\ ~mapper.frozen
           /\ w = [mapper EXCEPT !.lastMotion = f, !.stillFor = NotStill]
        \/ /\ ~mapper.frozen
           /\ \/ w = Freeze(mapper, f)
              \/ /\ ~StillEnough(still)
                 /\ w = [mapper EXCEPT !.lastMotion = f, !.stillFor = still]
    BY <1>1 DEF Watch, Mapper
  <1>6. /\ w \in Mapper /\ w.anchored = mapper.anchored
        /\ \/ /\ ~w.frozen \/ mapper.frozen
              /\ w.anchorRobot = mapper.anchorRobot
              /\ w.anchorXr = mapper.anchorXr
           \/ /\ w.frozen /\ ~mapper.frozen
              /\ w.anchorRobot = ComputeMappedPose(mapper, f)
              /\ w.anchorXr = f
    <2> HIDE DEF still, w
    <2>1. CASE w = Freeze(mapper, f)
      BY <1>1, <1>3, <1>4, <1>5, <2>1 DEF Mapper, Freeze
    <2>2. CASE w # Freeze(mapper, f)
      BY <1>1, <1>2, <1>3, <1>5, <2>2 DEF Mapper
    <2> QED BY <2>1, <2>2
  <1>7. ComputeTargetPose(mapper, f, turns) =
          [(IF unseen > 0 THEN w ELSE mapper) EXCEPT !.filtered = f]
    BY DEF ComputeTargetPose
  <1> HIDE DEF still, w
  <1>8. CASE unseen > 0
    BY <1>6, <1>7, <1>8 DEF Mapper
  <1>9. CASE ~(unseen > 0)
    BY <1>1, <1>7, <1>9 DEF Mapper
  <1> QED BY <1>8, <1>9

-----------------------------------------------------------------------------
(* The cache after a step that leaves it alone, or takes a safe target. *)
LEMMA CacheStep ==
  ASSUME CacheInv, robot \in Int, robot' = robot,
         momentum \in -MaxCoast..MaxCoast, momentum' = momentum,
         \/ UNCHANGED <<lastValid, disturbed>>
         \/ \E goal \in Int : LET safe == FilterTargetPose(robot, goal)
                              IN  safe.some /\ lastValid' = safe
  PROVE  CacheInv'
  <1>1. CASE UNCHANGED <<lastValid, disturbed>>
    BY <1>1 DEF CacheInv
  <1>2. CASE \E goal \in Int : LET safe == FilterTargetPose(robot, goal)
                               IN  safe.some /\ lastValid' = safe
    <2>1. PICK goal \in Int : LET safe == FilterTargetPose(robot, goal)
                              IN  safe.some /\ lastValid' = safe
      BY <1>2
    <2>2. /\ lastValid'.pose \in Int /\ lastValid' = Some(lastValid'.pose)
          /\ Abs(lastValid'.pose - robot) <= MaxStep
      BY <2>1, FilterSafe
    <2>3. /\ Abs(lastValid'.pose - robot) <= MaxStep + MaxCoast
          /\ Abs(lastValid'.pose - (robot + momentum)) <= MaxStep + MaxCoast
      BY <2>2, MappingAssumption DEF Abs
    <2> QED BY <2>2, <2>3 DEF CacheInv
  <1> QED BY <1>1, <1>2

(* An iteration with the clutch closed: a freeze adds at most a deadband   *)
(* to the drift.                                                           *)
LEMMA ActiveStep == MappingInv /\ TickActive => MappingInv'
  <1> SUFFICES ASSUME MappingInv, TickActive PROVE MappingInv'
    OBVIOUS
  <1>1. PICK f \in FilterXrPose(mapper), turns \in BOOLEAN :
          mapper' = ComputeTargetPose(mapper, f, turns)
    BY DEF TickActive
  <1>2. MappingTypeOK /\ CacheInv /\ DriftBounded /\ mapper \in Mapper /\ f \in Int
    BY FilterType DEF MappingInv, MappingTypeOK
  <1>3. /\ mapper' \in Mapper /\ mapper'.filtered = f
        /\ \/ /\ ~mapper'.frozen \/ mapper.frozen
              /\ mapper'.anchorRobot = mapper.anchorRobot
              /\ mapper'.anchorXr = mapper.anchorXr
           \/ /\ mapper'.frozen /\ ~mapper.frozen
              /\ mapper'.anchorRobot = ComputeMappedPose(mapper, f)
              /\ mapper'.anchorXr = f
    BY <1>1, <1>2, WatchSound
  <1>4. /\ freezes' = freezes + (IF mapper'.frozen /\ ~mapper.frozen THEN 1 ELSE 0)
        /\ freezes' <= MaxFreezes
        /\ UNCHANGED <<hand, robot, momentum, offset>> /\ unseen' = 0 /\ mapper.anchored
    BY DEF TickActive, arm
  <1>5. CacheInv'
    <2>1. MappedPose(mapper') \in Int /\ robot \in Int /\ momentum \in -MaxCoast..MaxCoast
      BY <1>2, <1>3, MappedType DEF MappingTypeOK
    <2>2. \/ UNCHANGED <<lastValid, disturbed>>
          \/ LET safe == FilterTargetPose(robot, MappedPose(mapper'))
             IN  safe.some /\ lastValid' = safe
      BY DEF TickActive
    <2> QED BY <1>2, <1>4, <2>1, <2>2, CacheStep
  <1>6. MappingTypeOK'
    <2>1. disturbed' \in BOOLEAN /\ following' \in BOOLEAN /\ (following' => lastValid'.some)
      <3>1. following \in BOOLEAN /\ disturbed \in BOOLEAN /\ (following => lastValid.some)
        BY <1>2, Zenon DEF MappingTypeOK
      <3>2. \E safe \in {FilterTargetPose(robot, MappedPose(mapper'))} :
              \/ safe.some /\ lastValid' = safe /\ disturbed' = FALSE /\ following' = TRUE
              \/ /\ following' \in {FALSE, safe.some /\ following}
                 /\ UNCHANGED <<lastValid, disturbed>>
        BY DEF TickActive
      <3> QED BY <3>1, <3>2
    <2>2. lastValid' = None \/ lastValid'.pose \in Int
      BY <1>5 DEF CacheInv, Some
    <2>3. freezes' \in 0..MaxFreezes
      BY <1>2, <1>4, MappingAssumption DEF MappingTypeOK
    <2> QED BY <1>2, <1>3, <1>4, <2>1, <2>2, <2>3, MappingAssumption DEF MappingTypeOK
  <1>7. DriftBounded'
    <2>1. /\ Abs(mapper.anchorRobot - mapper.anchorXr - offset) <= freezes * Deadband
          /\ {mapper.anchorRobot, mapper.anchorXr, offset} \subseteq Int
          /\ freezes \in Nat /\ Deadband \in Nat
      BY <1>2, <1>4, MappingAssumption DEF DriftBounded, MappingTypeOK, Mapper
    <2>2. CASE /\ mapper'.frozen /\ ~mapper.frozen
               /\ mapper'.anchorRobot = ComputeMappedPose(mapper, f)
               /\ mapper'.anchorXr = f
      <3> DEFINE v == f - mapper.anchorXr
      <3>1. v \in Int
        BY <1>2, <2>1
      <3>2. ApplyVectorDeadband(v) \in Int /\ Abs(ApplyVectorDeadband(v) - v) <= Deadband
        BY <3>1, DeadbandSound
      <3>3. mapper'.anchorRobot - mapper'.anchorXr - offset =
              (mapper.anchorRobot - mapper.anchorXr - offset) + (ApplyVectorDeadband(v) - v)
        BY <1>2, <2>1, <2>2, <3>2 DEF ComputeMappedPose
      <3>4. /\ freezes * Deadband \in Nat /\ freezes' = freezes + 1
            /\ freezes' * Deadband = freezes * Deadband + Deadband
        BY <1>4, <2>1, <2>2
      <3> QED BY <1>4, <2>1, <3>1, <3>2, <3>3, <3>4 DEF DriftBounded, Abs
    <2>3. CASE /\ ~mapper'.frozen \/ mapper.frozen
               /\ mapper'.anchorRobot = mapper.anchorRobot
               /\ mapper'.anchorXr = mapper.anchorXr
      <3>1. freezes' = freezes
        BY <1>4, <2>1, <2>3
      <3> QED BY <1>4, <2>1, <2>3, <3>1 DEF DriftBounded
    <2> QED BY <1>3, <2>2, <2>3
  <1> QED BY <1>5, <1>6, <1>7 DEF MappingInv

(* Anchored afresh, the mapper has no drift and starts from the cache. *)
LEMMA InactiveStep ==
  ASSUME MappingInv, TickInactive
  PROVE  /\ MappingInv'
         /\ mapper'.anchorRobot = IF lastValid.some THEN lastValid.pose ELSE robot
  <1> DEFINE goal == IF lastValid.some THEN lastValid.pose ELSE robot
  <1>1. PICK f \in FilterXrPose(mapper) : mapper' = Reanchor(mapper, goal, f)
    BY DEF TickInactive
  <1>2. MappingTypeOK /\ CacheInv /\ mapper \in Mapper /\ f \in Int
    BY FilterType DEF MappingInv, MappingTypeOK
  <1>3. goal \in Int
    BY <1>2 DEF CacheInv, MappingTypeOK, None, Some
  <1> HIDE DEF goal
  <1>4. mapper' \in Mapper /\ mapper'.anchorRobot = goal /\ mapper'.anchorXr = f
    <2>1. NotStill \in NotStill..(Dwell - 1)
      BY MappingAssumption DEF NotStill
    <2> QED BY <1>1, <1>2, <1>3, <2>1 DEF Mapper, Reanchor
  <1>5. /\ freezes' = 0 /\ unseen' = 0 /\ offset' = mapper'.anchorRobot - mapper'.anchorXr
        /\ following' = FALSE
        /\ UNCHANGED <<hand, robot, momentum, lastValid, disturbed>>
    BY DEF TickInactive, arm
  <1>6. MappingTypeOK'
    <2>1. following' \in BOOLEAN /\ ~following' /\ disturbed' \in BOOLEAN
      BY <1>2, <1>5, Zenon DEF MappingTypeOK
    <2>2. freezes' \in 0..MaxFreezes /\ offset' \in Int /\ unseen' \in 0..Dwell
      BY <1>3, <1>4, <1>5, MappingAssumption DEF Mapper
    <2> QED BY <1>2, <1>4, <1>5, <2>1, <2>2 DEF MappingTypeOK
  <1>7. DriftBounded'
    BY <1>2, <1>3, <1>4, <1>5, MappingAssumption DEF DriftBounded, Abs
  <1> QED BY <1>2, <1>4, <1>5, <1>6, <1>7 DEF MappingInv, CacheInv, goal

(* MappingInv is kept by every step. *)
LEMMA MappingStep == MappingInv /\ [MappingNext]_mappingVars => MappingInv'
  <1> SUFFICES ASSUME MappingInv, [MappingNext]_mappingVars PROVE MappingInv'
    OBVIOUS
  <1>1. MappingTypeOK /\ CacheInv /\ DriftBounded
    BY DEF MappingInv
  <1>2. Reset \in Mapper /\ ~Reset.anchored
    BY MappingAssumption DEF Reset, Mapper, NotStill
  <1>3. CASE Sample
    <2>1. /\ UNCHANGED <<mapper, robot, momentum, following, lastValid, disturbed, freezes, offset>>
          /\ hand' \in HandSpace /\ unseen' \in 0..Dwell
      BY <1>1, <1>3, MappingAssumption DEF Sample, MappingTypeOK, arm
    <2> QED BY <1>1, <2>1 DEF MappingInv, MappingTypeOK, CacheInv, DriftBounded
  <1>4. CASE ArmFollows \/ ArmCoasts
    <2>1. /\ UNCHANGED <<hand, unseen, mapper, following, lastValid, disturbed, freezes, offset>>
      BY <1>4 DEF ArmFollows, ArmCoasts
    <2>2. robot \in Int /\ momentum \in -MaxCoast..MaxCoast /\ MaxCoast \in Nat
      BY <1>1, MappingAssumption DEF MappingTypeOK
    <2>3. /\ robot' \in Int /\ momentum' \in -MaxCoast..MaxCoast
          /\ lastValid.some /\ ~disturbed =>
               /\ Abs(lastValid.pose - robot') <= MaxStep + MaxCoast
               /\ Abs(lastValid.pose - (robot' + momentum')) <= MaxStep + MaxCoast
      <3>1. CASE ArmFollows
        <4>1. lastValid.some /\ lastValid.pose \in Int
          BY <1>1, <3>1 DEF ArmFollows, MappingTypeOK, CacheInv, None, Some
        <4>2. robot' \in Int /\ \/ robot <= robot' /\ robot' <= lastValid.pose
                                \/ lastValid.pose <= robot' /\ robot' <= robot
          BY <2>2, <3>1, <4>1, SpanBetween DEF ArmFollows
        <4>3. /\ momentum' \in -MaxCoast..MaxCoast
              /\ \/ momentum' = 0
                 \/ momentum' > 0 /\ robot <= lastValid.pose
                 \/ momentum' < 0 /\ robot >= lastValid.pose
          BY <3>1 DEF ArmFollows
        <4>4. ~disturbed => Abs(lastValid.pose - robot) <= MaxStep + MaxCoast
          BY <1>1, <4>1 DEF CacheInv
        <4> DEFINE p == lastValid.pose
        <4>5. p \in Int /\ MaxStep \in Nat
          BY <4>1, MappingAssumption
        <4> HIDE DEF p
        <4>6. ~disturbed => Abs(p - robot') <= MaxStep + MaxCoast
          BY <2>2, <4>2, <4>4, <4>5 DEF Abs, p
        <4>7. ~disturbed => Abs(p - (robot' + momentum')) <= MaxStep + MaxCoast
          <5>1. CASE momentum' = 0
            BY <2>2, <4>2, <4>6, <5>1
          <5>2. CASE momentum' > 0 /\ robot <= p
            BY <2>2, <4>2, <4>3, <4>4, <4>5, <5>2 DEF Abs, p
          <5>3. CASE momentum' < 0 /\ robot >= p
            BY <2>2, <4>2, <4>3, <4>4, <4>5, <5>3 DEF Abs, p
          <5> QED BY <4>3, <5>1, <5>2, <5>3 DEF p
        <4> QED BY <4>2, <4>3, <4>6, <4>7 DEF p
      <3>2. CASE ArmCoasts
        <4>1. PICK left \in Int :
                /\ momentum' = left /\ robot' = robot + (momentum - left)
                /\ (0 <= left /\ left <= momentum) \/ (momentum <= left /\ left <= 0)
          <5>1. PICK left \in Span(0, momentum) :
                  momentum' = left /\ robot' = robot + (momentum - left)
            BY <3>2 DEF ArmCoasts
          <5>2. 0 \in Int /\ momentum \in Int
            BY <2>2
          <5>3. left \in Int /\ ((0 <= left /\ left <= momentum) \/ (momentum <= left /\ left <= 0))
            BY <5>2, SpanBetween
          <5> QED BY <5>1, <5>3
        <4>2. /\ robot' \in Int /\ momentum' \in -MaxCoast..MaxCoast
              /\ robot' + momentum' = robot + momentum
              /\ \/ robot <= robot' /\ robot' <= robot + momentum
                 \/ robot + momentum <= robot' /\ robot' <= robot
          BY <2>2, <4>1
        <4>3. ASSUME lastValid.some, ~disturbed
              PROVE  /\ Abs(lastValid.pose - robot') <= MaxStep + MaxCoast
                     /\ Abs(lastValid.pose - (robot' + momentum')) <= MaxStep + MaxCoast
          <5> DEFINE p == lastValid.pose
          <5>1. p \in Int /\ MaxStep \in Nat
            BY <1>1, <4>3, MappingAssumption DEF CacheInv, None, Some
          <5>2. /\ Abs(p - robot) <= MaxStep + MaxCoast
                /\ Abs(p - (robot + momentum)) <= MaxStep + MaxCoast
            BY <1>1, <4>3 DEF CacheInv
          <5> HIDE DEF p
          <5>3. Abs(p - robot') <= MaxStep + MaxCoast
            <6>1. \A x, y, z, d \in Int :
                    /\ (y <= z /\ z <= y + x) \/ (y + x <= z /\ z <= y)
                    /\ Abs(p - y) <= d /\ Abs(p - (y + x)) <= d
                    => Abs(p - z) <= d
              BY <5>1 DEF Abs
            <6>2. MaxStep + MaxCoast \in Int /\ robot \in Int /\ robot' \in Int /\ momentum \in Int
              BY <2>2, <4>2, <5>1
            <6> QED BY <4>2, <5>2, <6>1, <6>2
          <5> QED BY <4>2, <5>2, <5>3 DEF p
        <4> QED BY <4>2, <4>3
      <3> QED BY <1>4, <3>1, <3>2
    <2>4. MappingTypeOK'
      BY <1>1, <2>1, <2>3 DEF MappingTypeOK
    <2>5. CacheInv'
      BY <1>1, <2>1, <2>3 DEF CacheInv
    <2> QED BY <1>1, <2>1, <2>4, <2>5 DEF MappingInv, DriftBounded
  <1>5. CASE ArmIsMoved
    BY <1>1, <1>5, MappingAssumption
       DEF ArmIsMoved, MappingInv, MappingTypeOK, CacheInv, DriftBounded
  <1>6. CASE TickUnhealthy
    <2>1. /\ mapper' = Reset /\ freezes' = 0 /\ offset' = 0 /\ following' = FALSE
          /\ UNCHANGED <<hand, unseen, robot, momentum, lastValid, disturbed>>
      BY <1>6 DEF TickUnhealthy, arm
    <2>2. following' \in BOOLEAN /\ ~following'
      BY <2>1, Zenon
    <2>3. freezes' \in 0..MaxFreezes /\ offset' \in Int
      BY <2>1, MappingAssumption
    <2>4. MappingTypeOK'
      BY <1>1, <1>2, <2>1, <2>2, <2>3 DEF MappingTypeOK
    <2> QED BY <1>1, <1>2, <2>1, <2>4 DEF MappingInv, CacheInv, DriftBounded
  <1>7. CASE Rehome
    <2>1. mapper' \in Mapper /\ ~mapper'.anchored
      BY <1>2, <1>7 DEF Rehome
    <2>2. /\ freezes' = 0 /\ offset' = 0 /\ UNCHANGED <<hand, unseen>>
          /\ robot' \in Int /\ momentum' \in -MaxCoast..MaxCoast
          /\ lastValid' = None /\ ~lastValid'.some
      BY <1>7, MappingAssumption DEF Rehome, CacheAfterRehome, None
    <2>3. disturbed' \in BOOLEAN /\ following' \in BOOLEAN /\ ~following'
      BY <1>7, Zenon DEF Rehome
    <2>4. freezes' \in 0..MaxFreezes /\ offset' \in Int
      BY <2>2, MappingAssumption
    <2>5. MappingTypeOK'
      BY <1>1, <2>1, <2>2, <2>4, <2>3 DEF MappingTypeOK
    <2> QED BY <2>1, <2>2, <2>5 DEF MappingInv, CacheInv, DriftBounded
  <1>8. CASE UNCHANGED mappingVars
    BY <1>1, <1>8 DEF mappingVars, arm, MappingInv, MappingTypeOK, CacheInv, DriftBounded
  <1> QED BY <1>3, <1>4, <1>5, <1>6, <1>7, <1>8, ActiveStep, InactiveStep DEF MappingNext

(* The inductive invariant of the mapping: types, the cached target, the drift. *)
THEOREM MappingInvariance == MappingSpec => []MappingInv
  <1>1. MappingInit => MappingInv
    <2> SUFFICES ASSUME MappingInit PROVE MappingInv
      OBVIOUS
    <2>1. Reset \in Mapper /\ ~Reset.anchored
      BY MappingAssumption DEF Reset, Mapper, NotStill
    <2>2. /\ mapper \in Mapper /\ ~mapper.anchored /\ robot \in Int
          /\ momentum \in -MaxCoast..MaxCoast
          /\ lastValid = None /\ ~lastValid.some
      BY <2>1, MappingAssumption DEF MappingInit, None
    <2>3. disturbed \in BOOLEAN /\ following \in BOOLEAN /\ ~following
      BY Zenon DEF MappingInit
    <2>4. /\ hand \in HandSpace /\ unseen \in 0..Dwell
          /\ freezes \in 0..MaxFreezes /\ offset \in Int
      BY MappingAssumption DEF MappingInit
    <2>5. MappingTypeOK
      BY ONLY <2>2, <2>4, <2>3 DEF MappingTypeOK
    <2> QED BY <2>2, <2>5 DEF MappingInv, CacheInv, DriftBounded
  <1> QED BY <1>1, MappingStep, PTL DEF MappingSpec

(* Poses are poses, and a hand that is still for the dwell time freezes:   *)
(* the time it has been still never reaches it.                            *)
THEOREM MappingTypeCorrect == MappingSpec => []MappingTypeOK
  <1>1. MappingInv => MappingTypeOK
    BY DEF MappingInv
  <1> QED BY MappingInvariance, <1>1, PTL

(* A freeze costs the operator at most a deadband. *)
THEOREM FreezesDriftLittle == MappingSpec => []DriftBounded
  <1>1. MappingInv => DriftBounded
    BY DEF MappingInv
  <1> QED BY MappingInvariance, <1>1, PTL

(* The target never leaps: not when the mapper freezes, not when it lets   *)
(* go.                                                                     *)
THEOREM TargetNeverLeaps == MappingSpec => NoLeap
  <1>1. MappingInv =>
          (TickActive =>
             Abs(MappedPose(mapper') - MappedPose(mapper)) <=
               Abs(mapper'.filtered - IF mapper.frozen THEN mapper.anchorXr
                                                       ELSE mapper.filtered))
    <2> SUFFICES ASSUME MappingInv, TickActive
                 PROVE  Abs(MappedPose(mapper') - MappedPose(mapper)) <=
                          Abs(mapper'.filtered - IF mapper.frozen THEN mapper.anchorXr
                                                                  ELSE mapper.filtered)
      OBVIOUS
    <2>1. PICK f \in FilterXrPose(mapper), turns \in BOOLEAN :
            mapper' = ComputeTargetPose(mapper, f, turns)
      BY DEF TickActive
    <2>2. MappingTypeOK /\ mapper \in Mapper /\ f \in Int
      BY FilterType DEF MappingInv, MappingTypeOK
    <2>3. /\ mapper' \in Mapper /\ mapper'.filtered = f
          /\ \/ /\ ~mapper'.frozen \/ mapper.frozen
                /\ mapper'.anchorRobot = mapper.anchorRobot
                /\ mapper'.anchorXr = mapper.anchorXr
             \/ /\ mapper'.frozen /\ ~mapper.frozen
                /\ mapper'.anchorRobot = ComputeMappedPose(mapper, f)
                /\ mapper'.anchorXr = f
      BY <2>1, <2>2, WatchSound
    <2> DEFINE v == f - mapper.anchorXr
               w == mapper.filtered - mapper.anchorXr
    <2>4. /\ {f, mapper.filtered, mapper.anchorXr, mapper.anchorRobot, v, w} \subseteq Int
          /\ v - w = f - mapper.filtered
      BY <2>2 DEF Mapper
    <2>5. /\ ApplyVectorDeadband(v) \in Int /\ ApplyVectorDeadband(w) \in Int
          /\ Abs(ApplyVectorDeadband(v)) <= Abs(v)
          /\ Abs(ApplyVectorDeadband(v) - ApplyVectorDeadband(w)) <= Abs(f - mapper.filtered)
      BY <2>4, DeadbandSound
    <2>6. MappedPose(mapper) = mapper.anchorRobot +
            (IF mapper.frozen THEN 0 ELSE ApplyVectorDeadband(w))
      BY <2>4 DEF MappedPose, ComputeMappedPose
    <2>7. \/ MappedPose(mapper') = mapper.anchorRobot + ApplyVectorDeadband(v)
          \/ mapper.frozen /\ MappedPose(mapper') = mapper.anchorRobot
      BY <2>3 DEF MappedPose, ComputeMappedPose
    <2> HIDE DEF w
    <2> QED BY <2>3, <2>4, <2>5, <2>6, <2>7 DEF Abs
  <1> QED BY MappingInvariance, <1>1, PTL DEF MappingSpec, NoLeap

(* The target that an engagement starts from is near the arm, although it  *)
(* is the last valid one, and although the arm coasts when it is let go.   *)
THEOREM EngagesNearArm == MappingSpec => RejoinsNearArm
  <1>1. MappingInv =>
          (TickInactive /\ ~disturbed =>
             Abs(mapper'.anchorRobot - robot) <= MaxStep + MaxCoast)
    <2> SUFFICES ASSUME MappingInv, TickInactive, ~disturbed
                 PROVE  Abs(mapper'.anchorRobot - robot) <= MaxStep + MaxCoast
      OBVIOUS
    <2>1. mapper'.anchorRobot = IF lastValid.some THEN lastValid.pose ELSE robot
      BY InactiveStep
    <2> QED BY <2>1, MappingAssumption DEF MappingInv, MappingTypeOK, CacheInv, Abs
  <1> QED BY MappingInvariance, <1>1, PTL DEF MappingSpec, RejoinsNearArm
=============================================================================
