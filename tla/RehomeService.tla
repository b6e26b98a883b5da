---------------------------- MODULE RehomeService ----------------------------
(***************************************************************************)
(* What button B promises the operator of the XR controller.  A request is *)
(* answered once the arm has been driven home and the gripper told to      *)
(* open, each for this request; from the request to its answer neither the *)
(* arm nor the gripper takes a new command of the operator's, and the arm  *)
(* is not driven home while it still follows the hand.                     *)
(*                                                                         *)
(* A command of the operator's is represented by the answer the operator   *)
(* had seen when giving it, and a set of at most one of them says whether  *)
(* there is one at all.                                                    *)
(***************************************************************************)
EXTENDS Naturals

VARIABLES
  asked,     \* requests made
  answered,  \* requests answered
  trips,     \* times the arm has been driven home
  following, \* the command the arm follows
  closing    \* the command that keeps the gripper closed

vars == <<asked, answered, trips, following, closing>>

Init ==
  /\ asked = 0 /\ answered = 0 /\ trips = 0
  /\ following = {} /\ closing = {}

Idle == asked = answered

Ask ==
  /\ Idle
  /\ asked' = asked + 1
  /\ UNCHANGED <<answered, trips, following, closing>>

Follow ==
  /\ Idle
  /\ following' = {answered}
  /\ UNCHANGED <<asked, answered, trips, closing>>

Halt ==
  /\ following' = {}
  /\ UNCHANGED <<asked, answered, trips, closing>>

Grip ==
  /\ Idle
  /\ closing' \in {{}, {answered}}
  /\ UNCHANGED <<asked, answered, trips, following>>

GoHome ==
  /\ ~Idle /\ trips = answered /\ following = {}
  /\ trips' = trips + 1
  /\ UNCHANGED <<asked, answered, following, closing>>

Open ==
  /\ trips > answered
  /\ closing' = {}
  /\ UNCHANGED <<asked, answered, trips, following>>

Answer ==
  /\ ~Idle /\ trips = asked /\ closing = {}
  /\ answered' = asked
  /\ UNCHANGED <<asked, trips, following, closing>>

Next == Ask \/ Follow \/ Halt \/ Grip \/ GoHome \/ Open \/ Answer

Spec == Init /\ [][Next]_vars
=============================================================================
