---------------------------- MODULE PolicyTeleop ----------------------------
(***************************************************************************)
(* The bridge driven by a policy: run_vla_policy.py sends one joint-target *)
(* packet per period over UDP, and its operator pauses, re-homes and       *)
(* resumes from the keyboard.  The policy is the synchronous one           *)
(* (select_action), which executes a chunk of actions inferred from one    *)
(* observation before it looks again.                                      *)
(*                                                                         *)
(* A re-home is asked for by Repeat packets in a row that carry the same   *)
(* request id, because any one of them can be lost; the bridge must serve  *)
(* the request once, whatever arrives.                                     *)
(***************************************************************************)
EXTENDS TeleopBridge, Integers

CONSTANTS
  Grippers,    \* the gripper commands the policy gives
  Repeat,      \* REHOME_REQUEST_REPEAT_PACKETS
  MaxRequests, \* bound: how often the operator presses `h'
  MaxLost      \* bound: packets the network loses

ASSUME PolicyAssumption ==
  /\ ControlSource = "policy"
  /\ Grippers \subseteq GripperCommand
  /\ Repeat \in Nat \ {0} /\ MaxRequests \in Nat /\ MaxLost \in Nat

(* A motion inhibit outlasts an iteration of the planner that was under    *)
(* way and the one after it: 400 ms against periods of 10 ms.              *)
ASSUME InhibitAssumption == InhibitTicks >= 2

VARIABLES
  paused,      \* operator_paused
  rehomePause, \* operator_rehome_pause
  requestId,   \* operator_request_id
  retries,     \* rehome_request_retries_remaining
  obs,         \* the latest observation: the value of homed it shows
  chunk,       \* the actions the policy still holds: their observation
  smoothed,    \* ema_prev_joints: the oldest observation mixed into it
  zi,          \* the state of the joint filters: the oldest observation it holds
  \* bookkeeping of the model
  unread,      \* bridge threads that have not read the newest packet
  lost,        \* how much of MaxLost is used
  early        \* the operator has resumed before the re-home was over

runner == <<paused, rehomePause, requestId, retries, obs, chunk, smoothed,
            zi>>
book   == <<unread, lost, early>>
pvars  == <<vars, runner, book>>

Poses == [some : BOOLEAN, base : Nat]
NoPoses == [some |-> FALSE, base |-> 0]
From(base) == [some |-> TRUE, base |-> base]

(* The gripper toggle is not used; one of its two initial states is enough.*)
(* The filters start from the first action, which no home route precedes.  *)
PolicyInit ==
  /\ Init /\ gripper = Reset("Open")
  /\ paused = FALSE /\ rehomePause = FALSE /\ requestId = 0 /\ retries = 0
  /\ obs = 0 /\ chunk = NoPoses /\ smoothed = NoPoses /\ zi = 0
  /\ unread = {} /\ lost = 0 /\ early = FALSE

-----------------------------------------------------------------------------
(* The keys.                                                               *)

PressPause ==
  /\ ~paused \/ rehomePause
  /\ paused' = TRUE /\ rehomePause' = FALSE
  /\ smoothed' = NoPoses
  /\ UNCHANGED <<vars, requestId, retries, obs, chunk, zi, book>>

(* Pause, drop what the policy has inferred, and ask for a re-home. *)
PressRehome ==
  /\ requestId < MaxRequests
  /\ paused' = TRUE /\ rehomePause' = TRUE
  /\ chunk' = NoPoses /\ smoothed' = NoPoses
  /\ requestId' = requestId + 1
  /\ retries' = Repeat
  /\ UNCHANGED <<vars, obs, zi, book>>

(* The re-home is over, the runner holds the pose it ended in, and what the*)
(* filters hold of before has faded.                                       *)
RehomeOver ==
  /\ Running /\ donePolicy = requestId
  /\ obs = homed /\ (smoothed.some => smoothed.base = homed) /\ zi = homed

(* Nothing keeps the operator from resuming before the re-home is over, or *)
(* tells when the filters have followed the arm.                           *)
PressResume ==
  /\ paused
  /\ paused' = FALSE /\ rehomePause' = FALSE
  /\ early' = (early \/ ~RehomeOver)
  /\ UNCHANGED <<vars, requestId, retries, obs, chunk, smoothed, zi, unread, lost>>

(* An observation of the bridge arrives.  New ones are published by the    *)
(* control loop only; between two loops the last one is sent again.        *)
ObservationArrives ==
  /\ Running
  /\ obs' = homed
  /\ UNCHANGED <<vars, paused, rehomePause, requestId, retries, chunk,
                 smoothed, zi, book>>

-----------------------------------------------------------------------------
(* One period of the runner's loop.                                        *)

(* What a paused runner tells the gripper: after `h' to open, otherwise to *)
(* stay as observed.                                                       *)
PausedGrippers == IF rehomePause THEN {"Open"} ELSE Grippers

(* The action of this period: paused, to hold the observed joints, with    *)
(* the gripper as PausedGrippers says; otherwise the next one of the chunk,*)
(* or of a new chunk when the policy wants one.                            *)
NextAction ==
  IF paused
    THEN {[base |-> obs, gripper |-> g, chunk |-> chunk] :
            g \in PausedGrippers}
    ELSE {[base |-> c.base, gripper |-> g, chunk |-> c] :
            c \in {From(obs)} \cup (IF chunk.some THEN {chunk} ELSE {}),
            g \in Grippers}

(* Unless paused, an action is a weighted mean with the one sent before.   *)
Smooth(base) ==
  IF ~paused /\ smoothed.some /\ smoothed.base < base THEN smoothed.base ELSE base

(* With --butter-lowpass every action, also a paused one, then goes through*)
(* filters whose state nothing resets, neither a pause nor `h' nor `r': what*)
(* they are fed keeps a part in what they put out until it has faded.      *)
(* Without the option nothing is held, as if it faded at once.             *)
Filtered(base) == (IF zi < base THEN zi ELSE base)..base

Packet(action, base) ==
  [valid |-> TRUE, enabled |-> ~paused /\ retries = 0, rehome |-> retries > 0,
   id |-> requestId, gripper |-> action.gripper, base |-> base]

(* A packet period is many planner and control periods long: the threads   *)
(* that are running have read one packet before the next one comes.        *)
PacketDue == unread \subseteq {"rt"} /\ (Running => unread = {})

Deliver(cmd) ==
  /\ policyAction' = cmd
  /\ unread' = {"planner", "rt"}
  /\ UNCHANGED lost

Lose ==
  /\ lost < MaxLost
  /\ lost' = lost + 1
  /\ UNCHANGED <<policyAction, unread>>

RetriesLeft == IF retries > 0 THEN retries - 1 ELSE 0

SendPacket ==
  /\ PacketDue
  /\ \E action \in NextAction :
       /\ chunk' = action.chunk
       /\ smoothed' = From(Smooth(action.base))
       /\ zi' \in Filtered(Smooth(action.base))
       /\ Deliver(Packet(action, zi')) \/ Lose
  /\ retries' = RetriesLeft
  /\ UNCHANGED <<robotState, planned, requested, completed, inProgress,
                 desiredGripper, stop, planner, rt, main, arm,
                 paused, rehomePause, requestId, obs, early>>

-----------------------------------------------------------------------------
(* The bridge's threads note which of them has read the newest packet.     *)
BridgeStep ==
  /\ Planner \/ RtCallback \/ MainThread \/ Environment
  /\ unread' = CASE ppc = "read" /\ ppc' = "loadCompleted" -> unread \ {"planner"}
                 [] rpc = "begin" /\ rpc' = "end"          -> unread \ {"rt"}
                 [] OTHER                                  -> unread
  /\ UNCHANGED <<runner, lost, early>>

(* Once the bridge stops nothing the runner does has an effect on it. *)
Runner ==
  /\ ~stop
  /\ PressPause \/ PressRehome \/ PressResume \/ ObservationArrives \/ SendPacket

PolicyNext == BridgeStep \/ Runner

PolicySpec == PolicyInit /\ [][PolicyNext]_pvars

-----------------------------------------------------------------------------
TypeOK ==
  /\ robotState \in RobotSnapshot
  /\ planned \in PlannedTarget /\ rtTarget \in PlannedTarget
  /\ policyAction \in PolicyActionCommand
  /\ requested = 0 /\ completed = 0 /\ ~inProgress /\ seen = 0 /\ pending = 0
  /\ desiredGripper \in [command : GripperCommand, seen : Nat]
  /\ ppc \in PlannerPC /\ rpc \in RtPC /\ mpc \in MainPC
  /\ tick \in [snapshot : RobotSnapshot, policy : PolicyActionCommand,
               healthy : BOOLEAN, gripper : GripperCommand, out : PlannedTarget]
  /\ teleopState \in TeleopState
  /\ anchor = NoStamp \/ ControlSource = "xr"
  /\ lastTarget \in Stamp /\ towards \in Stamp
  /\ pendingPolicy \in Nat /\ donePolicy \in Nat /\ job \in Job
  /\ settled \in 0..SettleCycles /\ inhibit \in 0..Inhibited
  /\ {paused, rehomePause, early} \subseteq BOOLEAN
  /\ requestId \in 0..MaxRequests /\ retries \in 0..Repeat
  /\ obs \in 0..homed /\ chunk \in Poses /\ smoothed \in Poses
  /\ zi \in Nat

(* The packets that repeat a request send the arm home once: every route   *)
(* that finishes belongs to a request id above all those served before, so *)
(* there are never more routes than times the operator pressed `h', and a  *)
(* repeated packet that is still in the buffer when control resumes does   *)
(* not start another.                                                      *)
OneRoutePerRequest ==
  /\ donePolicy <= requestId
  /\ mpc \in {"route", "openGripper"} => job.id > donePolicy
  /\ mpc \notin {"openGripper", "exited"} => homed <= donePolicy

(* As long as the operator resumes only after the re-home is over and the  *)
(* low-pass filters, if they are used, have faded to the pose it ended in, *)
(* the arm never moves towards a target that the policy, the smoothing or  *)
(* the filtering of its actions derived from an observation of before the  *)
(* last home route.  The code keeps nobody from resuming earlier, and what *)
(* the filters hold then is sent: `early' is where the property stops.     *)
NoStaleAction == towards.some /\ ~early => towards.base = homed

(* A request the bridge has taken note of is not forgotten: it stays noted *)
(* or being served until the arm is home and it is booked as done.  Only a *)
(* reflex on the way home (or the end of the bridge) loses it, which is    *)
(* why the operator may have to press `h' again.                           *)
Owed == IF mpc # "control" /\ job.kind = "policy" THEN job.id ELSE pendingPolicy

RequestKept ==
  [][Owed > donePolicy =>
       \/ Owed' >= Owed
       \/ donePolicy' >= Owed
       \/ mpc' = "exited"
       \/ mpc = "route" /\ reflex]_pvars
=============================================================================
