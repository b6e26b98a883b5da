------------------------- MODULE TeleopStateMachine -------------------------
(***************************************************************************)
(* The clutch automaton of teleop_state_machine.cpp as a pure operator:    *)
(* Update maps the current state and one tick's inputs to the next state.  *)
(* TeleopBridge calls it once per planner tick.                            *)
(***************************************************************************)

TeleopState == {"Disconnected", "ConnectedIdle", "Armed", "Active", "Fault"}

(* The inputs of one tick: struct StateInputs. *)
StateInputs ==
  [xrStreamHealthy : BOOLEAN, deadmanPressed : BOOLEAN, robotOk : BOOLEAN,
   faultRequested : BOOLEAN, clearFaultRequested : BOOLEAN]

(* Mutation: a held deadman activates at once. *)
UpdateUnarmed(state, in) ==
  IF state = "Fault" \/ ~in.robotOk THEN "Fault"
  ELSE IF ~in.xrStreamHealthy THEN "Disconnected"
  ELSE IF in.deadmanPressed THEN "Active" ELSE "ConnectedIdle"

(* TeleopStateMachine::Update.  The order of the branches is the order of  *)
(* the early returns: a fault outranks a lost stream, which outranks the   *)
(* deadman, and a held deadman arms before it activates.                   *)
Update(state, in) ==
  CASE state = "Fault" ->
         IF in.clearFaultRequested /\ in.xrStreamHealthy /\ in.robotOk
           THEN "ConnectedIdle" ELSE "Fault"
    [] state # "Fault" /\ (in.faultRequested \/ ~in.robotOk) -> "Fault"
    [] OTHER ->
         IF ~in.xrStreamHealthy THEN "Disconnected"
         ELSE IF ~in.deadmanPressed THEN "ConnectedIdle"
         ELSE IF state \in {"ConnectedIdle", "Disconnected"} THEN "Armed"
         ELSE "Active"
=============================================================================
