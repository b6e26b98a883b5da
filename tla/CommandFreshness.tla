-------------------------- MODULE CommandFreshness --------------------------
(***************************************************************************)
(* How old the operator's command may be that moves the arm.  The callback *)
(* of the XR SDK stamps a packet and publishes it; the planner thread      *)
(* reads the clock, then the packet, decides whether the stream is healthy *)
(* and the clutch held, and publishes a target; the real-time callback     *)
(* moves while the target in the buffer says so.  TeleopBridge leaves the  *)
(* age of a packet open; here there is a clock.  Re-homes are left out.    *)
(*                                                                         *)
(* A target carries the time its iteration began and the stamp of the      *)
(* packet it was computed from.                                            *)
(***************************************************************************)
EXTENDS Integers, TeleopStateMachine

CONSTANTS
  Timeout,  \* packet_timeout_s
  Grace,    \* kPlannerTargetGraceNs
  Refresh,  \* the longest a target stays in the buffer, from the time it carries
  Never,    \* the greatest uint64_t, the age of what never came
  MaxTime   \* bound: the last instant

ASSUME FreshnessAssumption ==
  /\ Timeout \in Nat /\ Grace \in Nat /\ Refresh \in Nat /\ MaxTime \in Nat
  /\ Never \in Nat /\ Never > Timeout /\ Never > MaxTime

VARIABLES
  now,     \* the monotonic clock
  \* the SDK's thread
  stamp,   \* receive_ns of the packet at hand, or 0
  packet,  \* the command buffer
  arrived, \* history: when that packet came into the buffer
  \* the planner thread
  ppc,     \* where it is
  clock,   \* now_ns
  cmd,     \* xr_cmd
  deadmanLatched, teleopState,
  recent,  \* has_recent_target
  last,    \* the last valid target: last_valid_target_ns, and its packet's stamp
  planned  \* the target buffer

source  == <<stamp, packet, arrived>>
planner == <<ppc, clock, cmd, deadmanLatched, teleopState, recent, last, planned>>
vars    == <<now, source, planner>>

Grips    == {"released", "between", "pressed"}
NoPacket == [at |-> 0, grip |-> "released"]
Hold     == [moves |-> FALSE, from |-> 0]

Init ==
  /\ now = 1
  /\ stamp = 0 /\ packet = NoPacket /\ arrived = 0
  /\ ppc = "sleep" /\ clock = 0 /\ cmd = NoPacket
  /\ deadmanLatched = FALSE /\ teleopState = "Disconnected"
  /\ recent = FALSE /\ last = [at |-> 0, from |-> 0]
  /\ planned = [at |-> 1, age |-> Never, target |-> Hold]

-----------------------------------------------------------------------------
(* Assumption: the planner thread is scheduled so that it replaces every   *)
(* target in time.                                                         *)
PlannerDue == now < planned.at + Refresh

Tick ==
  /\ now < MaxTime /\ PlannerDue
  /\ now' = now + 1
  /\ UNCHANGED <<source, planner>>

(* A packet comes; one that cannot be parsed changes nothing. *)
Receive ==
  /\ stamp = 0
  /\ stamp' = now
  /\ UNCHANGED <<now, packet, arrived, planner>>

PublishPacket ==
  /\ stamp # 0
  /\ \E grip \in Grips : packet' = [at |-> stamp, grip |-> grip]
  /\ arrived' = now
  /\ stamp' = 0
  /\ UNCHANGED <<now, planner>>

ReadClock ==
  /\ ppc = "sleep"
  /\ clock' = now
  /\ ppc' = "read"
  /\ UNCHANGED <<now, source, cmd, deadmanLatched, teleopState, recent, last, planned>>

ReadPacket ==
  /\ ppc = "read"
  /\ cmd' = packet
  /\ ppc' = "decide"
  /\ UNCHANGED <<now, source, clock, deadmanLatched, teleopState, recent, last, planned>>

(* Mutation: a packet newer than the clock is not told apart. *)
AgeUnchecked == IF cmd.at # 0 THEN clock - cmd.at ELSE Never

Age == IF cmd.at # 0 /\ clock > cmd.at THEN clock - cmd.at ELSE Never

Healthy == cmd.at # 0 /\ Age <= Timeout

(* Mutation: the clutch is released only by a lost stream. *)
ReleasedNever == FALSE

Released == cmd.grip = "released"

(* Mutation: a lost stream leaves the clutch as it is. *)
DeadmanKept ==
  IF deadmanLatched THEN ~Released ELSE Healthy /\ cmd.grip = "pressed"

(* The clutch latches at one threshold and lets go at a lower one. *)
Deadman ==
  /\ Healthy
  /\ IF deadmanLatched THEN ~Released ELSE cmd.grip = "pressed"

(* Mutation: a target is good for ever. *)
RecentForEver == recent

Reusable == recent /\ clock > last.at /\ clock - last.at <= Grace

(* Mapping or inverse kinematics fail: the last target is used again for   *)
(* as long as the grace period lasts.                                      *)
FailTarget ==
  /\ planned' = [at |-> clock, age |-> Age, target |->
                 IF Reusable THEN [moves |-> TRUE, from |-> last.from] ELSE Hold]
  /\ UNCHANGED <<recent, last>>

RejectTarget ==
  /\ planned' = [at |-> clock, age |-> Age, target |-> Hold]
  /\ recent' = FALSE
  /\ UNCHANGED last

NewTarget ==
  /\ planned' = [at |-> clock, age |-> Age, target |-> [moves |-> TRUE, from |-> cmd.at]]
  /\ recent' = TRUE
  /\ last' = [at |-> clock, from |-> cmd.at]

(* The locals of an iteration are gone when it has published. *)
PublishTarget ==
  /\ ppc = "decide"
  /\ deadmanLatched' = Deadman
  /\ \E robotOk \in BOOLEAN :
       teleopState' = Update(teleopState,
                             [xrStreamHealthy |-> Healthy, deadmanPressed |-> Deadman,
                              robotOk |-> robotOk, faultRequested |-> FALSE,
                              clearFaultRequested |-> TRUE])
  /\ IF teleopState' = "Active" THEN FailTarget \/ RejectTarget \/ NewTarget
                                ELSE RejectTarget
  /\ ppc' = "sleep" /\ clock' = 0 /\ cmd' = NoPacket
  /\ UNCHANGED <<now, source>>

Next == Tick \/ Receive \/ PublishPacket \/ ReadClock \/ ReadPacket \/ PublishTarget

Spec == Init /\ [][Next]_vars

-----------------------------------------------------------------------------
TypeOK ==
  /\ now \in Nat /\ stamp \in Nat /\ arrived \in Nat /\ clock \in Nat
  /\ packet \in [at : Nat, grip : Grips] /\ cmd \in [at : Nat, grip : Grips]
  /\ ppc \in {"sleep", "read", "decide"}
  /\ deadmanLatched \in BOOLEAN /\ teleopState \in TeleopState /\ recent \in BOOLEAN
  /\ last \in [at : Nat, from : Nat]
  /\ planned \in [at : Nat, age : Nat, target : [moves : BOOLEAN, from : Nat]]

(* The arm never moves on a command older than the time-out, the grace     *)
(* period and the life of a target together: neither a packet that stays   *)
(* in its buffer when the stream breaks off, nor a target used again and   *)
(* again while inverse kinematics fail, drives it for longer.              *)
CommandAgeBounded ==
  planned.target.moves => now <= planned.target.from + Timeout + Grace + Refresh

(* Letting go of the clutch is obeyed by the first iteration that begins   *)
(* after the packet has arrived, though it may use an older target again.  *)
ReleaseObeyed ==
  packet.grip = "released" /\ arrived < planned.at => ~planned.target.moves

(* A lost stream disengages: if the newest packet is older than the        *)
(* time-out when an iteration begins, its target does not move the arm,    *)
(* and the clutch must be pressed, not merely held, to move it again.      *)
LostStreamDisengages ==
  packet.at + Timeout < planned.at => ~planned.target.moves /\ ~deadmanLatched

(* Letting go stops the arm, whether the release arrives or the stream is  *)
(* lost, and whatever the planner has cached.                              *)
LettingGoStops == ReleaseObeyed /\ LostStreamDisengages
=============================================================================
