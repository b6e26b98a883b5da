----------------------------- MODULE TargetBuffer -----------------------------
(***************************************************************************)
(* planned_target_buffer of franka_controller.cpp, the latest-value buffer *)
(* that has two writers: the planner publishes a target in every iteration,*)
(* and the main thread publishes a hold target when it has come home.      *)
(* Nothing keeps them apart: both may choose the same slot, mix their      *)
(* words in it, write into the slot that is published, and put the index   *)
(* back to an older target.  The callback, which runs only while the main  *)
(* thread is in control(), does not move the arm for some time after that. *)
(*                                                                         *)
(* The planner is the writer of LatestValueBuffer; the words of the main   *)
(* thread's hold targets are 0.  What such a target keeps of the one that  *)
(* was in the buffer is only reported, and left out.                       *)
(***************************************************************************)
EXTENDS LatestValueBuffer

CONSTANTS
  InhibitTicks, \* planner iterations that are sure to end in the time that
                \* is left of kPostRehomeMotionInhibitNs
  MaxRoutes     \* bound: home routes

ASSUME TargetBufferAssumption == InhibitTicks \in Nat /\ InhibitTicks >= 2

VARIABLES
  stage,       \* the main thread: in control(), on the way home, publishing
  routes,      \* home routes begun
  holdSlot,    \* the slot of its publish
  holdToWrite, \* the words it has still to copy
  ticks,       \* planner iterations ended since then, up to InhibitTicks
  moves,       \* which readers may move the arm in the cycle they are in
  current      \* history: the planner's last target when they looked

planner == <<count, writing, next, toWrite>>
main    == <<stage, routes, holdSlot, holdToWrite>>
cycle   == <<moves, current>>

targetVars == <<vars, main, ticks, cycle>>

TargetInit ==
  /\ Init
  /\ stage = "control" /\ routes = 0
  /\ holdSlot = 0 /\ holdToWrite = {}
  /\ ticks = InhibitTicks
  /\ moves = [r \in Readers |-> FALSE]
  /\ current = [r \in Readers |-> 0]

-----------------------------------------------------------------------------
(* The planner. *)

PlannerPublishes ==
  /\ BeginPublish \/ \E w \in Words : WriteWord(w)
  /\ UNCHANGED <<main, ticks, cycle>>

PlannerEnds ==
  /\ StoreIndex
  /\ ticks' = IF ticks < InhibitTicks THEN ticks + 1 ELSE ticks
  /\ UNCHANGED <<main, cycle>>

-----------------------------------------------------------------------------
(* The callback: it looks at the clock, then at the target. *)

(* Mutation: one iteration of the planner is waited for. *)
MayMoveEarly == ticks > 0

MayMove == ticks = InhibitTicks

LastPlanned == IF writing THEN count - 1 ELSE count

LookAtTarget(r) ==
  /\ stage = "control"
  /\ BeginRead(r)
  /\ moves' = [moves EXCEPT ![r] = MayMove]
  /\ current' = [current EXCEPT ![r] = LastPlanned]
  /\ UNCHANGED <<main, ticks>>

EndLook(r) ==
  /\ EndRead(r) \/ \E w \in Words : ReadWord(r, w)
  /\ UNCHANGED <<main, ticks, cycle>>

-----------------------------------------------------------------------------
(* The main thread. *)

EndControl ==
  /\ stage = "control" /\ routes < MaxRoutes
  /\ \A r \in Readers : ~reading[r]
  /\ stage' = "route"
  /\ routes' = routes + 1
  /\ UNCHANGED <<vars, holdSlot, holdToWrite, ticks, cycle>>

(* A reflex or an exception: no target is published. *)
RouteFails ==
  /\ stage = "route"
  /\ stage' = "control"
  /\ UNCHANGED <<vars, routes, holdSlot, holdToWrite, ticks, cycle>>

BeginHold ==
  /\ stage = "route"
  /\ stage' = "publish"
  /\ holdSlot' = NextSlot /\ holdToWrite' = Words
  /\ UNCHANGED <<vars, routes, ticks, cycle>>

WriteHold(w) ==
  /\ stage = "publish" /\ w \in holdToWrite
  /\ slots' = [slots EXCEPT ![holdSlot][w] = 0]
  /\ holdToWrite' = holdToWrite \ {w}
  /\ UNCHANGED <<published, planner, reader, stage, routes, holdSlot, ticks, cycle>>

StoreHold ==
  /\ stage = "publish" /\ holdToWrite = {}
  /\ published' = holdSlot
  /\ stage' = "control" /\ ticks' = 0
  /\ UNCHANGED <<slots, planner, reader, routes, holdSlot, holdToWrite, cycle>>

TargetNext ==
  \/ PlannerPublishes \/ PlannerEnds
  \/ \E r \in Readers : LookAtTarget(r) \/ EndLook(r)
  \/ EndControl \/ RouteFails \/ BeginHold \/ StoreHold
  \/ \E w \in Words : WriteHold(w)

TargetSpec == TargetInit /\ [][TargetNext]_targetVars

-----------------------------------------------------------------------------
TargetTypeOK ==
  /\ slots \in [Slot -> Value]
  /\ published \in Slot /\ next \in Slot /\ holdSlot \in Slot
  /\ count \in Nat
  /\ writing \in BOOLEAN /\ toWrite \subseteq Words /\ holdToWrite \subseteq Words
  /\ reading \in [Readers -> BOOLEAN] /\ moves \in [Readers -> BOOLEAN]
  /\ idx \in [Readers -> Slot]
  /\ toRead \in [Readers -> SUBSET Words]
  /\ copy \in [Readers -> Value] /\ current \in [Readers -> Int]
  /\ stage \in {"control", "route", "publish"}
  /\ routes \in Nat /\ ticks \in 0..InhibitTicks

(* The arm moves towards a whole target, the one that the planner published*)
(* last when the callback looked: not towards a mixture of a target and a  *)
(* hold target, nor towards one that the main thread brought back.         *)
MovesOnLastPlanned ==
  \A r \in Readers :
    reading[r] /\ moves[r] /\ toRead[r] = {} => \A w \in Words : copy[r][w] = current[r]

(* For a callback that may move the arm the buffer is what every thread    *)
(* takes it for, a register of the planner's targets: it takes what was    *)
(* published last, never misses a target and never goes back to one, also  *)
(* after the main thread has put the index back.  Of a callback that may   *)
(* not move the arm nothing is claimed: it is mapped to the history.       *)
TargetRegister ==
  INSTANCE LatestValue WITH
    value <- LastPlanned,
    taken <- [r \in Readers |->
                IF ~moves[r] THEN current[r]
                ELSE IF reading[r] THEN slots[idx[r]][AnyWord] ELSE copy[r][AnyWord]]

MovesByRegister == TargetRegister!Spec
===============================================================================
