------------------------------ MODULE XrMapping ------------------------------
(***************************************************************************)
(* How the hand becomes a target: TeleopMapper (smoothing, anchors,        *)
(* deadband, and the freeze that keeps a hand that is held still from      *)
(* moving the arm), SafetyFilter, and the planner's cache of the last      *)
(* valid target, at which the mapper is anchored again while the clutch is *)
(* open.  CommandFreshness and TeleopBridge have the times and the clutch. *)
(*                                                                         *)
(* Positions are whole numbers on one axis, scale_factor is 1 and the axes *)
(* of hand and robot agree; the rotation, which is mapped in the same way, *)
(* is left out but for its say in when the mapper freezes.  The unit of    *)
(* time is the period of the XR samples.  Of the arm's motion, which       *)
(* JointTrajectory has, there is what matters here: it goes towards a      *)
(* target it is given, and goes on by its momentum when that is taken away *)
(* or lies behind it.                                                      *)
(***************************************************************************)
EXTENDS Integers, FiniteSetsExt

CONSTANTS
  HandSpace, HandSpeed,  \* bounds: where the hand moves, and how far in a sample
  ArmSpace,              \* bound: where something else may move the arm
  MaxCoast,              \* how far it goes on from full speed
  Deadband,              \* xr_translation_deadband_m
  StillThreshold, ReleaseThreshold,  \* of the hold; the second is a multiple
  Dwell,                 \* xr_hold_dwell_s, in samples
  WorkspaceMin, WorkspaceMax, JumpReject, MaxStep,  \* SafetyLimits
  MaxFreezes             \* bound: freezes in one engagement

ASSUME MappingAssumption ==
  /\ HandSpace \subseteq Int /\ ArmSpace \subseteq Int /\ HandSpeed \in Nat
  /\ Deadband \in Nat /\ StillThreshold \in Nat \ {0} /\ Dwell \in Nat \ {0}
  /\ ReleaseThreshold \in Nat /\ ReleaseThreshold >= StillThreshold
  /\ WorkspaceMin \in Int /\ WorkspaceMax \in Int /\ WorkspaceMin <= WorkspaceMax
  /\ MaxCoast \in Nat /\ JumpReject \in Nat /\ MaxStep \in Nat \ {0} /\ MaxFreezes \in Nat

VARIABLES
  hand,      \* right_controller_pose of the newest packet
  unseen,    \* packets since the one of last_xr_sequence_id_
  mapper,    \* the TeleopMapper
  robot,     \* tcp_pose of the newest snapshot
  momentum,  \* how far, and which way, the arm still goes by itself
  following, \* the planner's target is fresh: the arm may follow it
  lastValid, \* last_valid_desired_pose, if there is a last_valid_target_ns
  disturbed, \* history: the arm was moved by something else since lastValid
  freezes,   \* history: freezes since the mapper was anchored ...
  offset     \* ... and the distance of its two anchors then

arm == <<robot, momentum>>

mappingVars == <<hand, unseen, mapper, arm, following, lastValid, disturbed, freezes, offset>>

None == [some |-> FALSE]
Some(p) == [some |-> TRUE, pose |-> p]

Abs(x) == IF x < 0 THEN -x ELSE x

Clamp(x, low, high) == IF x < low THEN low ELSE IF x > high THEN high ELSE x

Span(p, q) == Min({p, q})..Max({p, q})

NotStill == -1

(* frozen_target_pose_ is the robot's anchor; xr_motion_initialized_ is    *)
(* set whenever there are anchors.                                         *)
Mapper == [anchored : BOOLEAN, smoothing : BOOLEAN, filtered : Int,
           anchorRobot : Int, anchorXr : Int, lastMotion : Int,
           frozen : BOOLEAN, stillFor : NotStill..(Dwell - 1)]

-----------------------------------------------------------------------------
(* The mapper. *)

(* What is not initialized is not read; it is 0 here. *)
Reset == [anchored |-> FALSE, smoothing |-> FALSE, filtered |-> 0,
          anchorRobot |-> 0, anchorXr |-> 0, lastMotion |-> 0,
          frozen |-> FALSE, stillFor |-> NotStill]

(* A low pass, of any weight. *)
FilterXrPose(m) ==
  IF m.smoothing THEN Span(m.filtered, hand) ELSE {hand}

Reanchor(m, target, f) ==
  [m EXCEPT !.anchored = TRUE, !.smoothing = TRUE, !.filtered = f,
            !.anchorRobot = target, !.anchorXr = f, !.lastMotion = f,
            !.frozen = FALSE, !.stillFor = NotStill]

ApplyVectorDeadband(v) ==
  IF Abs(v) <= Deadband THEN 0 ELSE IF v > 0 THEN v - Deadband ELSE v + Deadband

ComputeMappedPose(m, f) == m.anchorRobot + ApplyVectorDeadband(f - m.anchorXr)

MappedPose(m) == IF m.frozen THEN m.anchorRobot ELSE ComputeMappedPose(m, m.filtered)

(* Mutation: the anchor of the robot is kept. *)
FreezeAtOldTarget(m, f) ==
  [m EXCEPT !.frozen = TRUE, !.stillFor = NotStill, !.lastMotion = f, !.anchorXr = f]

(* The mapper anchors afresh where it stands. *)
Freeze(m, f) ==
  [m EXCEPT !.frozen = TRUE, !.stillFor = NotStill, !.lastMotion = f,
            !.anchorRobot = ComputeMappedPose(m, f), !.anchorXr = f]

(* Mutation: a hand that is still for long does not freeze. *)
NeverStillEnough(stillFor) == FALSE

StillEnough(stillFor) == stillFor >= Dwell

(* A new sample: a frozen mapper lets go when the hand is far from where   *)
(* it froze (turns: or turned); another one freezes when it has been still *)
(* from sample to sample for the dwell time.                               *)
Watch(m, f, turns) ==
  LET still == IF m.stillFor = NotStill THEN 0 ELSE m.stillFor + unseen
      moved == [m EXCEPT !.lastMotion = f]
  IN  CASE m.frozen ->
             IF Abs(f - m.anchorXr) >= ReleaseThreshold \/ turns
             THEN [moved EXCEPT !.frozen = FALSE, !.stillFor = NotStill]
             ELSE moved
        [] ~m.frozen /\ (Abs(f - m.lastMotion) > StillThreshold \/ turns) ->
             [moved EXCEPT !.stillFor = NotStill]
        [] OTHER ->
             IF StillEnough(still) THEN Freeze(m, f) ELSE [moved EXCEPT !.stillFor = still]

ComputeTargetPose(m, f, turns) ==
  [(IF unseen > 0 THEN Watch(m, f, turns) ELSE m) EXCEPT !.filtered = f]

-----------------------------------------------------------------------------
(* The safety filter, of a target that is in time. *)
FilterTargetPose(current, desired) ==
  LET inside == Clamp(desired, WorkspaceMin, WorkspaceMax)
  IN  IF Abs(inside - current) > JumpReject THEN None
      ELSE Some(current + Clamp(inside - current, -MaxStep, MaxStep))

-----------------------------------------------------------------------------
MappingInit ==
  /\ hand \in HandSpace /\ unseen = 0
  /\ mapper = Reset
  /\ robot \in WorkspaceMin..WorkspaceMax /\ momentum = 0 /\ following = FALSE
  /\ lastValid = None /\ disturbed = FALSE
  /\ freezes = 0 /\ offset = 0

(* A packet of the headset.  The planner iterates before there are more    *)
(* packets than the dwell time has (a bound).                              *)
Sample ==
  /\ unseen < Dwell
  /\ unseen' = unseen + 1
  /\ \E h \in HandSpace : Abs(h - hand) <= HandSpeed /\ hand' = h
  /\ UNCHANGED <<mapper, arm, following, lastValid, disturbed, freezes, offset>>

(* The arm goes towards its target, which it does not pass, and gathers    *)
(* momentum in that direction.                                             *)
ArmFollows ==
  /\ following
  /\ robot' \in Span(robot, lastValid.pose)
  /\ momentum' \in {d \in -MaxCoast..MaxCoast :
                      \/ d = 0
                      \/ d > 0 /\ robot <= lastValid.pose
                      \/ d < 0 /\ robot >= lastValid.pose}
  /\ UNCHANGED <<hand, unseen, mapper, following, lastValid, disturbed, freezes, offset>>

(* It goes on by its momentum, past its target or away from it: its motion *)
(* was taken away, or it has not turned to a new target yet.               *)
ArmCoasts ==
  /\ momentum' \in Span(0, momentum)
  /\ robot' = robot + (momentum - momentum')
  /\ UNCHANGED <<hand, unseen, mapper, following, lastValid, disturbed, freezes, offset>>

(* It is moved by something else: by hand, or in a reflex. *)
ArmIsMoved ==
  /\ robot' \in ArmSpace /\ momentum' \in -MaxCoast..MaxCoast
  /\ disturbed' = TRUE
  /\ UNCHANGED <<hand, unseen, mapper, following, lastValid, freezes, offset>>

(* The planner's iteration while the clutch is open. *)
TickInactive ==
  /\ \E f \in FilterXrPose(mapper) :
       mapper' = Reanchor(mapper, IF lastValid.some THEN lastValid.pose ELSE robot, f)
  /\ unseen' = 0
  /\ freezes' = 0
  /\ offset' = mapper'.anchorRobot - mapper'.anchorXr
  /\ following' = FALSE
  /\ UNCHANGED <<hand, arm, lastValid, disturbed>>

(* And while the stream is down. *)
TickUnhealthy ==
  /\ mapper' = Reset
  /\ freezes' = 0 /\ offset' = 0
  /\ following' = FALSE
  /\ UNCHANGED <<hand, unseen, arm, lastValid, disturbed>>

(* And while it is closed: never before it was open with a healthy stream, *)
(* as the clutch automaton arms first.  Inverse kinematics may fail: then, *)
(* for a while, the last valid target is followed on.                      *)
TickActive ==
  /\ mapper.anchored
  /\ \E f \in FilterXrPose(mapper), turns \in BOOLEAN :
       mapper' = ComputeTargetPose(mapper, f, turns)
  /\ unseen' = 0
  /\ freezes' = freezes + IF mapper'.frozen /\ ~mapper.frozen THEN 1 ELSE 0
  /\ freezes' <= MaxFreezes
  /\ LET safe == FilterTargetPose(robot, MappedPose(mapper'))
     IN  \/ safe.some /\ lastValid' = safe /\ disturbed' = FALSE /\ following' = TRUE
         \/ /\ following' \in {FALSE, safe.some /\ following}
            /\ UNCHANGED <<lastValid, disturbed>>
  /\ UNCHANGED <<hand, arm, offset>>

(* Mutation: the cache outlives the re-home. *)
CacheKept == lastValid

CacheAfterRehome == None

(* A re-home, from its request to its completion. *)
Rehome ==
  /\ mapper' = Reset
  /\ freezes' = 0 /\ offset' = 0
  /\ robot' \in WorkspaceMin..WorkspaceMax /\ momentum' = 0 /\ following' = FALSE
  /\ lastValid' = CacheAfterRehome /\ disturbed' = FALSE
  /\ UNCHANGED <<hand, unseen>>

MappingNext == \/ Sample \/ ArmFollows \/ ArmCoasts \/ ArmIsMoved
               \/ TickInactive \/ TickUnhealthy \/ TickActive \/ Rehome

MappingSpec == MappingInit /\ [][MappingNext]_mappingVars

-----------------------------------------------------------------------------
(* A hand that is still freezes when the dwell time is over. *)
MappingTypeOK ==
  /\ hand \in HandSpace /\ unseen \in 0..Dwell
  /\ mapper \in Mapper
  /\ robot \in Int /\ momentum \in -MaxCoast..MaxCoast
  /\ following \in BOOLEAN /\ (following => lastValid.some)
  /\ lastValid = None \/ lastValid.pose \in Int
  /\ disturbed \in BOOLEAN
  /\ freezes \in 0..MaxFreezes /\ offset \in Int

(* Closing the clutch, freezing and letting go never make the target leap: *)
(* it moves no farther than the smoothed hand did since the last iteration *)
(* or, for a frozen mapper, since it froze.                                *)
NoLeap ==
  [][TickActive =>
       Abs(MappedPose(mapper') - MappedPose(mapper)) <=
         Abs(mapper'.filtered - IF mapper.frozen THEN mapper.anchorXr ELSE mapper.filtered)]_mappingVars

(* Every freeze costs the operator at most a deadband: within one          *)
(* engagement the target keeps its distance to the hand, as if there had   *)
(* been no freeze, up to one deadband for each.                            *)
DriftBounded ==
  mapper.anchored =>
    Abs(mapper.anchorRobot - mapper.anchorXr - offset) <= freezes * Deadband

(* A clutch that is closed again goes on from the last valid target (and   *)
(* not, as QUEST3_REAL_TESTING.md:135 says, from where the robot is), and  *)
(* the arm has moved since: it may not have arrived, and it coasts when it *)
(* is let go.  Unless something else moved it, the target that the         *)
(* engagement starts from is still no farther from the arm than a step and *)
(* the way it coasts: also after targets that were rejected, after         *)
(* dropouts and after a re-home.                                           *)
RejoinsNearArm ==
  [][TickInactive /\ ~disturbed =>
       Abs(mapper'.anchorRobot - robot) <= MaxStep + MaxCoast]_mappingVars
=============================================================================
