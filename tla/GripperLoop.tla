----------------------------- MODULE GripperLoop -----------------------------
(***************************************************************************)
(* The gripper thread in binary mode: GripperLoop of                       *)
(* franka_controller.cpp.  grasp() and move() block until the fingers      *)
(* rest, so the loop runs them on a thread of their own (std::async), and  *)
(* goes on reading the gripper every 10 ms until the call is over or 5     *)
(* seconds old.  The planner thread, which sets the desired state, and the *)
(* gripper itself, whose calls may fail or never end, are the environment. *)
(***************************************************************************)
EXTENDS Naturals

VARIABLES
  desired,    \* desired_gripper_state, set by the planner thread
  stop,       \* stop_requested
  pc,         \* where the gripper thread is
  wanted,     \* desired_state: what the iteration has loaded of desired
  active,     \* current_state, and active_gripper_state, which repeats it
  inProgress, \* action_in_progress
  target,     \* action_target
  running,    \* calls of grasp() or move() that have not returned
  late,       \* the call is kCloseSafetyTimeoutS old
  aborted     \* what the loop's stop() has done to the call

loop == <<pc, wanted, active, inProgress, target>>
call == <<running, late, aborted>>
gripperVars == <<desired, stop, loop, call>>

States == {"Open", "Close"}

GripperInit ==
  /\ desired = "Open" /\ stop = FALSE
  /\ pc = "first"
  /\ active \in States /\ wanted = active /\ target = active
  /\ inProgress = FALSE
  /\ running = 0 /\ late = FALSE /\ aborted = "no"

Goto(p) == pc' = p
Keep    == UNCHANGED <<desired, stop, wanted, active, inProgress, target, call>>

-----------------------------------------------------------------------------
(* The environment. *)

ChangeDesired ==
  /\ ~stop
  /\ desired' \in States \ {desired}
  /\ UNCHANGED <<stop, loop, call>>

RequestStop == stop' = TRUE /\ ~stop /\ UNCHANGED <<desired, loop, call>>

CallReturns ==
  /\ running > 0
  /\ running' = running - 1
  /\ UNCHANGED <<desired, stop, loop, late, aborted>>

TimeIsUp ==
  /\ inProgress /\ ~late
  /\ late' = TRUE
  /\ UNCHANGED <<desired, stop, loop, running, aborted>>

-----------------------------------------------------------------------------
(* Before the loop, and one iteration of it. *)

FirstRead ==
  /\ pc = "first"
  /\ \/ Goto("top") /\ UNCHANGED stop
     \/ Goto("ended") /\ stop' = TRUE
  /\ UNCHANGED <<desired, wanted, active, inProgress, target, call>>

AfterLoop == IF inProgress THEN "lastStop" ELSE "ended"

Iterate ==
  /\ pc = "top"
  /\ IF stop THEN Goto(AfterLoop) /\ UNCHANGED wanted
             ELSE Goto("read") /\ wanted' = desired
  /\ UNCHANGED <<desired, stop, active, inProgress, target, call>>

ReadFails    == pc = "read" /\ Goto("top") /\ Keep
ReadSucceeds == pc = "read" /\ Goto("act") /\ Keep

(* Mutations: a call that is late counts as over; no call is ever late; a  *)
(* new call does not wait for the outstanding one.                         *)
OverOrLate  == running = 0 \/ late
NeverLate   == FALSE
MayPreempt  == wanted # active

Over        == running = 0
TooLate     == late
MayDispatch == ~inProgress /\ wanted # active

EndAction ==
  /\ inProgress' = FALSE
  /\ active' = target
  /\ Goto("top")
  /\ UNCHANGED <<desired, stop, wanted, target, call>>

Finish == pc = "act" /\ inProgress /\ Over /\ EndAction

GiveUp ==
  /\ pc = "act" /\ inProgress /\ ~Over /\ TooLate
  /\ Goto("stop")
  /\ Keep

Dispatch ==
  /\ pc = "act" /\ MayDispatch
  /\ target' = wanted
  /\ inProgress' = TRUE
  /\ running' = running + 1 /\ late' = FALSE /\ aborted' = "no"
  /\ Goto("top")
  /\ UNCHANGED <<desired, stop, wanted, active>>

Pass ==
  /\ pc = "act" /\ ~MayDispatch
  /\ inProgress => ~Over /\ ~TooLate
  /\ Goto("top")
  /\ Keep

(* stop() throws or ends the fingers' motion; get() waits for the call in  *)
(* either case.                                                            *)
CallStop ==
  /\ \/ pc = "stop" /\ Goto("drain")
     \/ pc = "lastStop" /\ Goto("lastDrain")
  /\ aborted' \in {"failed", "done"}
  /\ UNCHANGED <<desired, stop, wanted, active, inProgress, target, running, late>>

Drain == pc = "drain" /\ running = 0 /\ EndAction

LastDrain ==
  /\ pc = "lastDrain" /\ running = 0
  /\ inProgress' = FALSE
  /\ Goto("ended")
  /\ UNCHANGED <<desired, stop, wanted, active, target, call>>

-----------------------------------------------------------------------------
Loop == \/ FirstRead \/ Iterate \/ ReadFails \/ ReadSucceeds
        \/ Finish \/ GiveUp \/ Dispatch \/ Pass
        \/ CallStop \/ Drain \/ LastDrain

Ended == pc = "ended" /\ stop /\ running = 0 /\ UNCHANGED gripperVars

GripperNext == ChangeDesired \/ RequestStop \/ CallReturns \/ TimeIsUp \/ Loop \/ Ended

(* The thread is scheduled, time passes, reads do not fail for ever, and a *)
(* call whose motion has been stopped returns.  Other calls need not.      *)
GripperFairness ==
  /\ WF_gripperVars(Loop) /\ WF_gripperVars(TimeIsUp)
  /\ SF_gripperVars(ReadSucceeds)
  /\ WF_gripperVars(aborted = "done" /\ CallReturns)

GripperSpec     == GripperInit /\ [][GripperNext]_gripperVars
GripperFairSpec == GripperSpec /\ GripperFairness

-----------------------------------------------------------------------------
(* The types, which exclude a second call beside one that has not returned *)
(* (start_close and start_open are reached only with none in progress).    *)
GripperTypeOK ==
  /\ desired \in States /\ wanted \in States
  /\ active \in States /\ target \in States
  /\ stop \in BOOLEAN /\ inProgress \in BOOLEAN /\ late \in BOOLEAN
  /\ pc \in {"first", "top", "read", "act", "stop", "drain", "lastStop",
             "lastDrain", "ended"}
  /\ running \in {0, 1}
  /\ aborted \in {"no", "failed", "done"}

(* The published state, which the recorder and the toggle of GripperToggle *)
(* take for the fingers', changes only when the fingers are no longer      *)
(* driven, and to what they were last driven to.                           *)
ActiveFollowsCall == [][active' # active => running = 0 /\ active' = target]_active

(* When the thread is joined, nothing drives the fingers, and the threads  *)
(* beside it have been told to stop.                                       *)
AtRestWhenEnded == pc = "ended" => running = 0 /\ stop

StopFailed == aborted = "failed" /\ running > 0

(* A desired state that lasts is reached, even if the call of a moment ago *)
(* was for the other state and never returns: unless stop() fails as well. *)
DesiredIsReached ==
  \A s \in States :
    desired = s ~> \/ active = s \/ desired # s
                   \/ stop \/ StopFailed
=============================================================================
