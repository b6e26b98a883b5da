------------------------------ MODULE XrTeleop ------------------------------
(***************************************************************************)
(* What the bridge must guarantee when an operator teleoperates with the   *)
(* XR controller and re-homes the arm with button B.                       *)
(***************************************************************************)
EXTENDS TeleopBridge

ASSUME XrAssumption == ControlSource = "xr"

Tick == [snapshot : RobotSnapshot, policy : {NoPolicyAction},
         healthy : BOOLEAN, gripper : GripperCommand, out : PlannedTarget]

TypeOK ==
  /\ robotState \in RobotSnapshot
  /\ planned \in PlannedTarget
  /\ policyAction = NoPolicyAction
  /\ requested \in Nat /\ completed \in Nat
  /\ inProgress \in BOOLEAN
  /\ desiredGripper \in [command : GripperCommand, seen : Nat]
  /\ stop \in BOOLEAN
  /\ ppc \in PlannerPC
  /\ tick \in Tick
  /\ seen \in Nat
  /\ deadmanLatched \in BOOLEAN /\ lastButtonB \in BOOLEAN
  /\ teleopState \in TeleopState
  /\ gripper \in Controller
  /\ anchor \in Stamp /\ lastTarget \in Stamp
  /\ hasRecent \in BOOLEAN
  /\ rpc \in RtPC
  /\ rtTarget \in PlannedTarget
  /\ pending \in Nat /\ pendingPolicy = 0 /\ donePolicy = 0
  /\ settled \in Nat
  /\ inhibit \in Nat
  /\ mpc \in MainPC
  /\ job \in Job /\ job.kind # "policy"
  /\ homed \in Nat
  /\ towards \in Stamp
  /\ still \in BOOLEAN /\ reflex \in BOOLEAN
  /\ reflexes \in Nat /\ disturbances \in Nat

(* Every press of B that is taken up sends the arm home exactly once: at   *)
(* most one request is outstanding, and the home routes finished are the   *)
(* requests completed, plus the one whose route is over and whose          *)
(* completion is not yet stored.  Reflexes that interrupt a route, and     *)
(* presses of B during one, neither repeat nor lose it.                    *)
OneRoutePerRequest ==
  /\ completed <= requested /\ requested <= completed + 1
  /\ mpc \in {"openGripper", "publishHome", "complete"} => homed = completed + 1
  /\ mpc \in {"control", "dispatch", "route", "publishHold", "release"} => homed = completed

(* The arm never moves towards a target computed before the last re-home   *)
(* as the planner saw it: however slowly the planner runs, no target of a  *)
(* tick that had not observed the completion reaches the arm after it.     *)
NoTargetOutlivesRehome == towards.some => towards.seen = completed

(* A close command the planner derived from the trigger before a re-home   *)
(* never stands after it: the gripper that the re-home opened stays open   *)
(* until the planner has seen the completion and a new press.              *)
NoCloseOutlivesRehome ==
  desiredGripper.command = "Close" => desiredGripper.seen = completed

(* Nothing the planner computed before a re-home acts after it.            *)
NothingOutlivesRehome == NoTargetOutlivesRehome /\ NoCloseOutlivesRehome

(* An active tick maps the hand relative to an anchor that an earlier tick *)
(* prepared: the mapper's fallback for an unanchored call, which would     *)
(* take the pose of that instant for the operator's, is never reached,     *)
(* through dropouts, faults and re-homes.                                  *)
ActiveTickIsAnchored ==
  [][ppc = "decide" /\ teleopState' = "Active" => HasTarget]_vars

-----------------------------------------------------------------------------
(* What button B promises, through three threads that share no lock: from  *)
(* the press to the completion no new command of the operator's reaches    *)
(* arm or gripper, the arm goes home once and not while it follows the     *)
(* hand, and the completion comes after that and after the gripper was     *)
(* told to open.  A command is known by the completion it has seen.        *)
Service == INSTANCE RehomeService WITH
  asked     <- requested,
  answered  <- completed,
  trips     <- homed,
  following <- IF towards.some THEN {towards.seen} ELSE {},
  closing   <- IF desiredGripper.command = "Close" THEN {desiredGripper.seen} ELSE {}

ImplementsService == Service!Spec

-----------------------------------------------------------------------------
(* Every thread keeps running: each is a loop that the scheduler does not  *)
(* stop.  Nothing is assumed of the operator, of reflexes or of exceptions.*)
Fairness ==
  /\ WF_vars(Planner)
  /\ WF_vars(RtCallback)
  /\ WF_vars(MainThread)

FairSpec == Spec /\ Fairness

(* A re-home the operator asked for is eventually completed, through       *)
(* reflexes and however often B is pressed meanwhile, unless the bridge    *)
(* stops.                                                                  *)
RehomeCompletes == requested > completed ~> (requested = completed \/ stop)

(* Once stop is set both threads leave their loops. *)
StopEndsThreads == stop ~> (mpc = "exited" /\ ppc = "exited")
=============================================================================
