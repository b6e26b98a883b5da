---------------------------- MODULE GripperToggle ----------------------------
(***************************************************************************)
(* GripperController of gripper.cpp: the press-to-toggle logic the planner *)
(* runs on the trigger value, as pure operators on a controller record.    *)
(* The trigger value is abstracted to the three bands that the two         *)
(* thresholds separate.                                                    *)
(***************************************************************************)

GripperCommand == {"Open", "Close"}

(* Below open_threshold, between the thresholds, above close_threshold. *)
TriggerBand == {"released", "between", "pressed"}

(* current_, trigger_pressed_, and last_toggle_time_ns_ # 0. *)
Controller == [current : GripperCommand, triggerPressed : BOOLEAN, toggled : BOOLEAN]

(* Reset: what is not Open (a measured Close, or a Fault) counts as Close. *)
Reset(initial) ==
  [current |-> IF initial = "Open" THEN "Open" ELSE "Close",
   triggerPressed |-> FALSE,
   toggled |-> FALSE]

Opposite(command) == IF command = "Open" THEN "Close" ELSE "Open"

(* UpdateDesiredState in binary mode.  A press counts once per visit below *)
(* the release threshold; `elapsed' says the debounce time has passed      *)
(* since the last toggle, and without a toggle on record it always has.    *)
UpdateDesiredState(g, band, elapsed) ==
  LET held    == IF band = "released" THEN FALSE ELSE g.triggerPressed
      press   == band = "pressed" /\ ~held
      toggles == press /\ (elapsed \/ ~g.toggled)
  IN  [current        |-> IF toggles THEN Opposite(g.current) ELSE g.current,
       triggerPressed |-> held \/ press,
       toggled        |-> g.toggled \/ toggles]
=============================================================================
