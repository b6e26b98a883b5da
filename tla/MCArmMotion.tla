----------------------------- MODULE MCArmMotion -----------------------------
(* Values for the constants of ArmMotion that are functions.  The second   *)
(* joint has the room to gather full speed and then to coast for CoastTime *)
(* cycles without meeting a limit.                                         *)
EXTENDS ArmMotion, FiniteSets

MCLower == <<1, 1>>
MCUpper == <<2, 10>>
MCNullspace == <<2, 5>>
MCStart == <<3, 9>>

(* The planner can ask for other postures than those in the margin, and    *)
(* for no others than the arm can be in.                                   *)
ASSUME Cardinality(Targets) > 1 /\ Cardinality(Targets) < Cardinality(Postures)
=============================================================================
