# TLA+ models of the VLA / XR teleoperation bridge

This directory holds a verification development of the program in `src/`: TLA+
modules translated from the source, TLC runs that check them on small
instances, and TLAPS proofs of the properties that matter most for every value
of the constants. `PROJECT.json` lists components, runs, the source lines each
definition models, hazards and theorems.

Sources below are relative to `src/franka_xr_teleop/`; the C++ files are in
`cpp/teleop_bridge/`.

## 1. Inventory

The system drives a Franka arm either from a Quest 3 controller (XR) or from a
learned policy, and records the demonstrations.

| component | state | operations | hard behaviour | what makes it correct |
|---|---|---|---|---|
| planner thread, 100 Hz (`franka_controller.cpp` `PlannerLoop`) | clutch state, deadman latch, mapper anchor, last valid target, last seen re-home | one iteration: read input and robot, latch, decide, publish a target | reads shared state in five separate accesses while the others write | no target, anchor or gripper command of before a re-home is used after it |
| real-time callback, 1 kHz (inside `Run`) | pending request, settled cycles, motion inhibits | publish snapshot, latch requests, move or hold, end control | never blocks; sees any mixture of the others' writes | never moves towards a stale target; ends control when at rest |
| main thread (`Run`) | request being served | home route, completion, reflex recovery, stop | a route can be interrupted by a reflex, a stop, an exception | one route per request, none lost |
| gripper thread (`GripperLoop`, `GripperLoopAnalog`) | current state, call in progress | dispatch `grasp`/`move` on another thread, await, time out | calls that hang or fail, reads that fail, shutdown during a call | one call at a time, published state is reached, joins at rest |
| clutch automaton, gripper toggle | small automata | pure steps called by the planner | boundaries, dropouts | arming before activation |
| mapper, safety filter, cached target | anchors, low pass, freeze, last valid target | one pose per iteration | freezes and releases, rejected targets, dropouts, re-homes | the target never leaps, and starts near the arm |
| trajectory generator, home route | reference of every joint, hold flag | one step per cycle; lift, null-space and start pose | motion taken away at full speed, resets, limits applied in turn | bounded steps from where the arm is, joint limits, no lasting motion without a command |
| latest-value buffers (`common_types.h`) | two slots and an index | `Publish`, `ReadLatest` | lock-free, copied while written; one has two writers | reads are whole and never go back |
| XR source, policy source | latest command, counters | SDK callback, UDP receive thread | loss, reordering, staleness | a stale command never counts as fresh |
| policy runner (`tools/run_vla_policy.py`) | pause, request id, retries, chunk, smoothing | keys `p` `h` `r` `q`, one packet per period | loss of packets, a slow policy, resume before the arm is home | one re-home per request, no action of before it |
| RTC action producer (same file) | generation, refill request, action queue | background inference | chunk inferred during a pause or re-home | no chunk of an older generation is merged |
| trace recorder (`trace_logger`) | two SPSC queues, a writer thread | push, write, stop | full queues, stop with samples queued | rows + drops = samples, in order |
| observation publisher and lifecycle (`main.cpp`, `observation_pub.cpp`) | sources, threads, sockets | start, stop, signal | order of stops, failures of start | every thread is joined, nothing is used after it is gone |
| recorders, session launcher, aligner (`tools/record_*.py`, `align_*.py`) | episode files, processes | start and end episodes, align by time | markers lost or doubled, processes that die | one file per episode, rows of that episode only |
| configuration, offline validator, plots, sanity checks | - | - | sequential | limits and defaults |

Interaction: sources write command buffers read by the planner; planner and
callback exchange `robot_state_buffer` and `planned_target_buffer`; planner and
main thread exchange `requested_/completed_rehome_request_id`,
`rehome_in_progress` and `desired_gripper_state`; the gripper thread reads the
last and publishes `active_gripper_state`; the callback publishes observations,
sent over UDP to recorder and policy runner, which answers with action packets.
`stop_requested` ends every loop.

The hazards, with their lines, are in `PROJECT.json`.

## 2. Modules

| module | models | built on |
|---|---|---|
| `TeleopStateMachine` | `TeleopStateMachine::Update` as a pure operator | - |
| `GripperToggle` | `GripperController::Reset`, `UpdateDesiredState` as pure operators | - |
| `TeleopBridge` | planner thread, real-time callback, main thread and the arm | the two above |
| `RehomeService` | abstract service of button B | - |
| `XrTeleop` | the bridge under XR control: properties, fairness; refines `RehomeService` | `TeleopBridge` |
| `PolicyTeleop` | the bridge composed with the policy runner and its UDP path | `TeleopBridge` |
| `LatestValue` | abstract register | - |
| `LatestValueBuffer` | the two-slot buffer, word by word; refines `LatestValue` | - |
| `TargetBuffer` | `planned_target_buffer` with both its writers and the callback; refines `LatestValue` | `LatestValueBuffer` |
| `XrMapping` | mapper, safety filter and the cache of the last valid target | - |
| `JointTrajectory` | the trajectory generator as pure operators | - |
| `ArmMotion` | what a target becomes in the callback: targets, generator, inhibits, home route | `JointTrajectory` |
| `MCArmMotion` | values for the constants of `ArmMotion` that are functions | `ArmMotion` |
| `BridgeLifecycle` | `main()` and `Run`: what is started, stopped and joined, in which order | - |
| `GripperLoop` | the gripper thread in binary mode and its asynchronous calls | - |
| `BoundedLog` | abstract log with a bounded queue | - |
| `TraceRecorder` | the trace queues, their producers, the writer thread and the stop; refines `BoundedLog` | - |
| `RtcProducer` | the policy runner's background inference with its main loop and keys | - |
| `CommandFreshness` | the clock, the ages of packets and targets, the time limits | `TeleopStateMachine` |
| `DataSession` | the session launcher with its robot, RealSense and ZED recorders | - |
| `XrTeleopProofs`, `PolicyTeleopProofs`, `TraceRecorderProofs`, `RtcProducerProofs` | theorems | the modules of that name |
| `LatestValueBufferProofs` | theorems | `TargetBuffer` and with it `LatestValueBuffer` |
| `MotionProofs` | theorems | `ArmMotion`, `GripperLoop` |
| `XrInputProofs` | theorems | `CommandFreshness`, `XrMapping` |
| `ProcessProofs` | theorems | `DataSession`, `BridgeLifecycle` |

The four last are about two modules each; `TargetBuffer`, `GripperLoop`,
`XrMapping` and `BridgeLifecycle` therefore call their specification
`TargetSpec`, `GripperSpec`, `MappingSpec` and `BridgeSpec`, their type
invariant `GripperTypeOK` and so on, where the other modules have `Spec` and
`TypeOK`.

### TeleopBridge

Each action is what a thread does from one access of shared memory whose
outcome another thread can change to the next. A planner iteration is
`PlannerRead` (snapshot), `PlannerLoadCompleted`, `PlannerInput*` (health,
trigger, deadman, button B), `PlannerDecide`, `PlannerPublish`. One callback
cycle is `RtBegin` (publish, latch policy request, read target) and `RtEnd`
(latch XR request, move or hold, settle, end). The main thread goes
`control -> dispatch -> route -> openGripper -> publishHome -> complete ->
publishHold -> release -> control`. `RecoverReflex`, `AbandonRoute`, `ExitLoop`,
`PlannerThrows` and `FatalException` are the other ways out.

Poses are abstracted to where they come from: `homed` counts finished home
routes, and every snapshot, anchor and target carries the `homed` it was derived
from (`base`) and the completion the planner had seen (`seen`). Stream health,
packet age, debounce time, outcomes of mapping, safety filter and inverse
kinematics, contact and tracking faults are free choices, so every timing of
them is covered.

Assumptions: `allow_motion` is true (otherwise nothing moves); libfranka calls
the callback only inside `robot.control()`; at start the arm has been homed and
the gripper opened; the buffers are atomic (see `LatestValueBuffer`, which says
when they are); `planned_target_buffer`, which both planner and main thread
write, is written in single steps (`TargetBuffer` says when that may be
assumed).

### RehomeService

What the bridge promises who presses B. `asked`, `answered` and `trips` count
requests, answers and home routes; `following` and `closing` are the operator's
commands that arm and gripper obey, each known by the answer the operator had
seen when giving it. `Follow` and `Grip` are possible only while no request is
outstanding, `GoHome` only when the arm follows nothing, `Answer` only after one
trip for this request and with the gripper told to open. `XrTeleop!Service` maps
it to the bridge: a request is asked at the planner's store of
`requested_rehome_request_id` and answered at the main thread's store of
`completed_rehome_request_id`.

### PolicyTeleop

The runner's keys, its re-home packets repeated `Repeat` times, chunks, the EMA
smoothing, the joint filters, and delivery or loss of each packet. `zi` is what
the state of the Butterworth filters still holds of the past: no key resets it,
and a filter that is fed with newer joints keeps it until it has faded, which is
left open (`Filtered`). A packet is as old as what it holds through chunk,
smoothing and filters. `early` says that the operator has resumed before the
re-home was over, the observation and the smoothing were of the arm as it is, or
the filters had faded; the last the operator cannot see. Timing assumptions,
both named in the module: the running threads of the bridge read one packet
before the next is sent (a packet period is several planner periods;
`PacketDue`), and at least `InhibitTicks` planner iterations end within a 400 ms
motion inhibit (`Inhibited`, 40 are due); `InhibitAssumption` asks for two.
Reading of the clock by the callback happens once per cycle, so an inhibit
expires only between cycles.

### LatestValueBuffer

Values of several words, copied in any order by `Publish` and `ReadLatest`. The
constant `Overtaking` says whether a publish may start on the slot a reader is
copying from. With FALSE the buffer implements the register `LatestValue` (a
read takes effect at the load of the index, a publish at its store); with TRUE
it does not. The run is of `TargetBuffer`, whose planner and callback take these
very actions; that the buffer with one writer implements the register, for any
number of readers, is proved.

### TargetBuffer

`planned_target_buffer` is written by the planner in every iteration and by the
main thread at the end of a home route, without anything between them. The
planner is the writer of `LatestValueBuffer`; `BeginHold`, `WriteHold` and
`StoreHold` are the main thread's publish, of either way to end a route, in steps
of their own. So both may mix their words in one slot, write into the slot that
is published, and put the index back. The callback runs only inside `control()`
(`EndControl`, `RouteFails`) and looks at the clock before it looks at the
target: `moves` says that the motion inhibit was over then. `MovesByRegister`
maps such a callback to a reader of `LatestValue`, and the planner to its
publisher. As in `PolicyTeleop`
the inhibit is counted in planner iterations, of which 40 are due and two are
asked for. That the callback reports such a mixture in its observations
meanwhile is left open.

### GripperLoop

`desired` is changed by the planner at will; calls of `grasp()`/`move()` return
whenever they like or never; `readOnce()` and `stop()` may fail.

### TraceRecorder

A step is one access to an atomic or to a slot of a ring: a producer's
`BeginPush` (both indices read, `Full` tested), `WriteSlot`, `StoreHead`; the
writer's `Pop` or `PopFails`, `CopySlot`, `StoreTail`, `WriteRow`; and
`CheckStop`, `CheckEmpty` for the condition of its loop. A push reads an index
that only its own thread writes and one that only grows, so reading both in one
step loses nothing: an older `tail` only refuses more, and `Drop` is possible at
every step where the queue is full. `Launch`, `Leave`, `RequestTraceStop`,
`EndTrace` are what `Run` does before, in and after `control()`: the real-time
callback runs on its thread, so it is at rest when `Leave` happens, and the
planner is joined before the recorder is stopped. A sample is the tick at which
it was taken. `accepted` is a history variable, what `Push` said yes to; it is
the abstract log's state and no guard reads it.

### RtcProducer

An action carries the generation (calls of `set_active`) of the oldest
observation that went into it, through the blending with what was left of the
last chunk too. `BeginInference` is one step because it holds the lock;
`EndInference`/`InferenceFails` come at any time after it, `Merge`/`SkipMerge`
under the lock again, `Finally` clears `_busy` separately. The main loop polls
keys, and when it is not paused looks for an error, pops, compares the length
with the threshold and asks for more in separate steps. lerobot's `ActionQueue`
is external: `merge` drops the steps that have passed and replaces the rest.

### CommandFreshness

`TeleopBridge` leaves the health of the stream open, so that every timing of it
is covered; this module has a clock instead and asks how old the command is that
moves the arm. `Receive` stamps a packet, `PublishPacket` puts it into the
buffer, `ReadClock` and `ReadPacket` are the planner's two looks, in this order,
`PublishTarget` the rest of its iteration: age, health, clutch, clutch automaton,
and one of a new target, a rejected one, or one used again within the grace
period. Each target carries the stamp of the packet it stems from. Assumption
`PlannerDue`: the planner replaces a target within `Refresh`; nothing in the
callback checks the age of a target, so without it the bound does not exist.

### DataSession

A recorder goes from `boot` (no signal handler yet) over `open` into its loop,
writes each item file by file, and ends with `ok`, `failed`, `signalled` or
`killed`; it may fail or hang everywhere, since nothing makes it take a step.
Rows, depth and episode events are on their way to the disk once they are
written; a video can be played only once its writer is `released`, on the way
out of a recorder that ends by itself or, of a RealSense, in its `finally`
(`cleanup`). `KillLate` only sends the signal: the launcher does not wait for
the process to be gone (`Die`). The launcher goes through its processes in the
order of a dictionary (`Following`, one fixed choice). Its phases are `launch`,
`watch`, `ask`, `await`, `done`; `Interrupt` is Control-C, which reaches all
processes, `Terminate` a SIGTERM to the launcher.

### JointTrajectory and ArmMotion

`JointTrajectory` is the generator operation by operation: `Update` initializes
it from the arm, then coasts (no motion), holds (all joints near their targets
and slow) or servos; `Step` applies velocity, step and joint limit in the code's
order. Positions are whole numbers of a unit as small as one likes; velocities
and accelerations are per cycle, and the gains are the code's, per second, so
that what they ask for is divided by `CyclesPerSecond` (1 / `dt`) or its square
and rounded towards zero: the damping of 12 per second takes 0.012 of the
velocity in a cycle of a millisecond. Rounding is the one thing the model adds;
it weakens a demand by less than a unit. `hold_target_q_` and `motion_active_`
are left out: no command depends on them.

In `ArmMotion`, `Plan` publishes a hold or any target that the planner can come
to: what inverse kinematics reach in their substeps from any posture
(`SolveIkStep`) or what a policy's joint target may ask for
(`ValidatePolicyJointTarget`). `Cycle` is the callback; while a re-home is
pending it commands `q_d` again and leaves the generator alone
(`RepeatPosture`). `velocity` is what the last cycle made of the joints.
`MoveToLiftPose`, `MoveToNullspace` and `MoveToStart` are the route, `Reflex` a
reflex with its recovery, after which the arm may be anywhere. Collisions,
contacts, tracking faults and the wait after a recovery are one flag,
`inhibited`. Assumptions: the robot takes up every commanded position, and each
joint is an axis of its own.

### XrMapping

The arm has momentum: it gathers it on its way to a target (`ArmFollows`) and
goes on by it when motion is taken away or the target lies behind it, past the
target or away from it, by up to `MaxCoast` (`ArmCoasts`). One axis, scale 1,
time in XR samples. `Sample` is a packet; `TickInactive`, `TickUnhealthy` and
`TickActive` are what a planner iteration does to mapper and cache in the three
states of the clutch, `Rehome` what it does on a re-home. `FilterXrPose` may
return anything between the filtered pose and the hand, so every weight of the
low pass is covered. Rotation is left out except that it may keep the mapper
from freezing or make it let go (`turns`). The planner iterates before `Dwell`
packets have come (it runs faster than they do).

### BridgeLifecycle

`main` is the main thread's program counter, `threads` says of each thread
whether it has been started, has ended, has been joined. `actions` is the socket
of the policy source and `receiving` says that its thread has passed the test of
its loop on the way to `recvfrom`; `CloseSource` comes between the flag and the
join. A thread ends when it sees a reason to (`MayEnd`); the planner and the
gripper thread may also throw. A signal may come at any time. `Throw` covers the
handlers of `Run`: it destroys the locals, and `join_threads` comes after that.

## 3. Runs

| run | instance | shows |
|---|---|---|
| `xr_teleop` | 2 re-homes, 1 reflex, stop and exceptions, 1 disturbance, 2 settle cycles | no request lost or served twice; no target or close command of before a re-home acts after it; active ticks are anchored; the service of button B is implemented (4.99 million states) |
| `xr_liveness` | 1 re-home, 1 reflex, stop, 2 settle cycles, fair threads | re-homes complete, stops end both threads |
| `policy_teleop` | 1 request sent twice, 1 reflex, no stop; deadlock checked | one route per request, no stale action once the filters have faded, a noted request is kept |
| `target_buffer` | targets of 2 words, 6 publishes, 2 home routes, 2 iterations in an inhibit (142,480 states) | the arm moves only towards whole targets of the planner, although two threads write them; for a callback that may move it, a refinement of the register |
| `xr_mapping` | hand at 0 and 2, workspace 1..4, arm moved to 0, coasts by 1, dwell 1, 2 freezes in an engagement (1.21 million states) | no leap of the target, drift bounded by a deadband per freeze, a clutch that closes no farther from the arm than a step and the way it coasts |
| `arm_motion` | 2 joints with limits 1..2 and 1..10, velocity 2, acceleration, jerk and step 1, damping 1 in 2 cycles (215,536 states) | steps relative to the arm bounded, joint limits kept, velocity changes gently but for named stops, every joint slows down without motion |
| `lifecycle` | everything (9,872 states; nothing is bounded) | nothing used after it is gone but for two stated exceptions; a stop ends the process |
| `gripper_loop` | everything (648 states; nothing is bounded) | one call at a time, honest published state, a lasting desired state is reached; never stuck (deadlock is checked) |
| `trace_recorder` | queues of 1 and 2, every and every second tick traced, 5 ticks each (85,524 states) | all samples accounted for, refinement of the log (rows in order), a stop that ends |
| `rtc_producer` | chunks of 4, inferences of 0, 2 or 4 periods, horizon 1, 4 keys (16,200 states) | no action of before the last key, no reset during an inference, resumes served, failures noticed |
| `command_freshness` | time-out, grace and life of a target 2 each, 8 instants (1.44 million states) | age of the command bounded, release and lost stream obeyed |
| `data_session` | a robot, a RealSense and a ZED recorder, 1 item each (2.18 million states) | no recorder left, good sessions complete, rows name frames of finished videos, with two named exceptions, sessions end |

Bounds. `MaxRehomes = 2` lets a second request arrive at every point of the
first; the proofs show that nothing new happens with more. `MaxReflexes = 1`
interrupts any one control loop or route. `SettleCycles = 2` stands for 60: it
distinguishes a first, an intermediate and a last cycle. `InhibitTicks = 0` in
the XR runs lets the inhibit expire at once, the weakest assumption; the policy
run needs 2 of the 40 iterations that are due. `Repeat = 2` of 10 packets, one
of them read in control and one left in the buffer. In the policy run nothing is
lost (`MaxLost = 0`): losing a packet of a request is the same as sending it
later, and the runner's repetition is covered by `Repeat`. `Grippers =
{"Close"}`: the run has no property of the gripper, so one command is enough.
Deadlock is off where the program may stop. `PlannerCapacity = 1`, `RtCapacity =
2` and five ticks wrap both rings and fill them; decimations 1 and 2 give ticks
that are traced and ticks that are not. A chunk of 4 with inferences of 0, 2 and
4 periods gives a delay rounded up to 1, one within a chunk and one that uses it
up; `MaxKeys = 4` lets a pause and a resume come twice in one inference.
`Explicit = 0` is the default, a threshold that follows the delay.
`CommandFreshness` starts at instant 1, where a bound of 6 is first reached at 7
and first exceeded at 8 by the mutants; limits of 2 tell before, at and after
apart. One item per recorder, of two files of the robot and three of a camera
(the two views of a ZED are one), lets it be interrupted after each file and
before its videos are released, and two recorders besides it fail, hang or end
at any time meanwhile. In `arm_motion` the first joint meets both limits all the
time and the second has room to reach full velocity, to coast for `CoastTime`
cycles and to leave the hold band; the step limit lies below the velocity, so
that it binds; the margin and the configured goals lie partly outside the
limits. `CoastTime = 8` is what `CoastAssumption` asks for, which bounds the
claim and is not tight. Six publishes and two routes of `target_buffer` let the
second route begin before and after the slots of the first are mended. In
`xr_mapping` a hand that moves by 2 exceeds the still threshold and reaches the
release threshold, while the low pass also gives steps of 1 that do neither; the
workspace leaves out the place 0, where the hand can be and the arm can be moved
to, and an arm there has targets beyond the jump limit. In `xr_liveness` nothing
disturbs the settling (`MaxDisturbances = 0`), so that the restart of its count
is exercised in `xr_teleop` only.

Fairness. `XrTeleop!Fairness`: weak fairness of each of the three loops, which
the operating system schedules; nothing is assumed of the operator, of reflexes
or exceptions. `GripperLoop!GripperFairness`: the thread is scheduled, time
passes, reads succeed infinitely often (strong fairness: a gripper that never
answers again cannot be driven), and a call whose motion `stop()` has ended
returns. When `stop()` itself fails the property has its exception
(`StopFailed`). `TraceRecorder!Fairness`: the writer, the thread of `Run` once
it is leaving, and the planner are scheduled; strong fairness for the planner's
look at the flag, which it takes before every iteration however often it goes
round, and which `MaxTicks` alone must not be what ends it.
`RtcProducer!Fairness`: both threads are scheduled and an inference ends, by a
result or an exception; the operator presses what and when he likes.
`BridgeLifecycle!BridgeFairness`: the main thread and the threads are scheduled,
and what they wait in returns (libfranka's control loop, the SDK, `recvfrom`
after its 100 ms); nothing is assumed of signals, exceptions and failures.
`SlowsDown` needs no fairness: it counts cycles. `DataSession!Fairness`: the
launcher is scheduled, its five seconds pass, and SIGKILL takes effect; nothing
else is assumed of recorders and devices.

No run expects a violation: the properties say what the code keeps to, with its
exceptions. Met while modelling, and worth knowing where a comment or a document
says more than the code does:

- Reads of the lock-free buffers are whole only if no two publishes fall into
  one read (QUEST3_REAL_TESTING.md:215 has no such condition):
  `LatestValueBuffer` with `Overtaking = TRUE` tears. Publishers are paced and
  reads are short.
- Planner and main thread publish to one buffer (`franka_controller.cpp:1857`):
  with only one planner iteration in the motion inhibit the callback may follow
  a target mixed of both.
- The XR anchor can be older than the re-home (`franka_controller.cpp:789`): the
  snapshot is read before the completed id, so one iteration may take both.
- `stop()` may be called while `grasp()` is in progress (comment at
  `franka_controller.cpp:1287`): on the safety time-out and when the loop ends.
- A re-engaged clutch continues at the last valid target
  (`franka_controller.cpp:982`), not at the robot's current pose
  (QUEST3_REAL_TESTING.md:135), from which the arm coasts away after a release:
  `RejoinsNearArm` says how far, unless something else has moved the arm. After
  a push farther than the jump limit every target is rejected until the hand has
  made up for it or the arm is homed.
- Without motion the velocity decays (`franka_controller.cpp:553`) and the arm
  does not stop at once: `SlowsDown` bounds the time to a velocity, not to rest.
- The stop at a target is bypassed inside the dead zone, so that with the
  shipped gains a joint may pass its target; the arm oscillates into the hold
  band.
- An arm inside the margin of a joint limit is sent back to the limit in one
  cycle (`NoJump` names the exception). A re-home that becomes pending stops the
  whole arm in one cycle, from any velocity, without the generator
  (`franka_controller.cpp:1709`; `ChangesGently` names the exception).
- An exception destroys the locals of `Run` before the handlers join the threads
  that use them (`franka_controller.cpp:1914`; `UsedWhileAlive` names it). An
  exception in the planner or the gripper thread ends the bridge with exit code
  0. The publisher's failure to start is ignored. `return 5` and `return 6` of
  the control loop cannot be reached.
- The policy source closes its socket before it joins the thread that reads it
  (`policy_action_source.cpp:175`): the thread may receive on it once more
  (`UsedWhileAlive` names it).
- The stream of packets is held up by an inference for up to two seconds when
  `h` is pressed (`run_vla_policy.py:1803`, against `src/README.md:119`). `h`
  pressed during a route can be lost; a policy request is lost by a reflex on
  the way home (`RequestKept` names the exception).
- A packet that arrives between the planner's look at the clock and at the
  buffer counts as infinitely old (`franka_controller.cpp:881`). The callback
  reports the age of a target but does not test it
  (`franka_controller.cpp:1694`). A policy packet's `timestamp_ns` is the
  sender's (`policy_action_source.cpp:62`).
- The Butterworth filters are never reset on a pause, re-home or resume
  (`run_vla_policy.py:1915`): one who resumes at once sends joints that hold a
  part of those before the re-home, and nothing shows when it has faded
  (`NoStaleAction` has the exception, `early`). A failed close is never retried
  (`franka_controller.cpp:1382`).
- A recorder that is killed leaves rows that name frames of a video that was
  never finished (`record_zed_camera.py:571`, `record_realsense_camera.py:540`),
  and so may a ZED recorder that fails, having no `finally`
  (`RowsNameFinishedVideos` names both). After a stop the session launcher
  returns 0 even if a recorder failed or was killed, which it does not wait for
  (`record_data_collection_session.py:332`), and it has no `#!` line though
  DATA_COLLECTION.md runs it directly.

## 4. Proofs

Every theorem holds for all values of the constants that satisfy the named
assumptions. None of the safety properties is inductive by itself; each proof
rests on an invariant, named below, that joins it to what makes it true. A
module has one lemma per action or per part of the program that takes the step,
then the theorems.

`XrTeleopProofs` (XR control): `IInv` is the conjunction of
`TypeOK`; `HandshakeInv` (request, completion, pending id and finished routes at
each point of the main thread); `PlannerInv` (what the planner keeps is stamped
with the completion it has seen); `AnchorInv` (an engaged clutch has an anchor);
`TargetInv` (a fresh target in the buffer, in the callback or followed by the
arm is of the current completion, except between the store of the completion
and the hold target that replaces it, when the arm does not move); and
`GripperInv`. A stale target is harmless only because of where the main thread
is. Theorems: `Invariance`, `TypeCorrect`, `RoutesMatchRequests`,
`NothingStale`, `ActiveAnchored`, and `Refinement`: `AskStep` (the planner asks
only when idle), `GripStep` and `FollowStep` (planner and callback obey only
when idle: the callback reads the ids after the target), `ServeStep` (the main
thread goes home, opens, answers, in this order); every other step is a stutter.
Assumptions: `BridgeAssumption`, `XrAssumption`.

`PolicyTeleopProofs` (any number of requests, packets per request, lost packets,
reflexes, settling cycles): `RequestInv` (a request is sent, noted, served and
booked in this order; `homed` never gets ahead of what is booked by more than
the route just over), `CycleInv` (the callback is inside a cycle, and the arm
moves, only in `control()`), `DeadmanInv` (an active tick has a packet that
enables motion). From the operator's resuming too early on nothing more is
promised; until then `RunnerInv` (what an unpaused runner holds, in its
smoothing and in its filters, and an enabling packet, is of the arm as it is),
`PlannerInv` (a pose the planner works with is `Current`, or the planner has yet
to read the packet that took motion away) and `StaleInv`. The last says why the
motion inhibit is enough: when the arm gets home, one iteration may be under way
that still yields a target of before (`OldTick`); it can end within the inhibit,
and the next one replaces what it published. Hence `InhibitTicks >= 2`, and with
less it is false. Theorems: `Invariance`, `TypeCorrect`, `RoutesMatchRequests`,
`NothingStale`, `RequestIsKept`. Assumptions: `BridgeAssumption`,
`PolicyAssumption`, `InhibitAssumption`. The invariant was first checked by TLC
with two requests and a lost packet too (17 million states), with a stop, and on
the instance of the run.

`LatestValueBufferProofs` (any readers, words, publishes): `WriterInv` says what
each slot holds while a publish is under way, `ReaderInv` that a reader has
copied words of its slot, which does not change. `WholeReads` and `Refinement`
assume `~Overtaking`; `TypeCorrect` does not. For the target buffer (any number
of publishes and routes) no such thing can be said while the main thread
publishes, nor of the planner's publish that was under way then, which may end
in a mixed slot. `TwoWriterInv` says what mends it: a publish that begins later
takes the slot that is not published and is alone in it; when it ends, the
published slot is the planner's last. `LookInv` ties a callback that may move to
such a slot. `TargetInvariance`, `MovesOnWhole` and `TargetRefinement` (a look
of the callback takes the register's value, the end of a planner iteration
publishes the next one, and the main thread is not seen), under `~Overtaking`
and `TargetBufferAssumption` (`InhibitTicks >= 2`; with less it is false), and
`TargetTypeCorrect`.

`TraceRecorderProofs` (any capacities and decimations): `PhaseInv` (where each
thread may be while the thread of `Run` is where it is: no producer pushes once
the writer may leave), `RingInv` (the slots between `tail` and `head` hold the
newest accepted samples, and the one being written is none of them), `RowInv`
(the rows are the prefix of `accepted` that `tail` and the writer's sample
determine), `TimeInv` (accepted samples grow and are in the past) and `CountInv`
(accepted and dropped add up to the samples due). `TypeCorrect`, `Ordered`,
`Accounted`, and `Refinement`: every step is a step of `BoundedLog` or a
stutter. Assumption: `TraceAssumption`.

`RtcProducerProofs` (any chunk length, inference time, threshold and number of
keys): `QueueInv` (whatever is queued is of the present generation),
`InferenceInv` (a producer that infers for the present generation infers from it
alone; it is busy from the inference to its end) and `ResetInv` (from the key to
the end of the reset nothing makes it active, so an idle producer stays idle).
`TypeCorrect`, `OnlyNewActions`, `ResetIsExclusive`. Assumption:
`RtcAssumption`.

`MotionProofs`, arm (any joints, limits and gains): lemmas about one joint follow
a reference through acceleration, speed and step, then through `Coast` and
`Servo`. The invariant joins them to the arm: `TypeOK`; `Anchored` (a generator
that is initialized, while no route runs, stands where the arm was last
commanded, which is why every way that moves the arm otherwise must reset it);
`Fresh` (on a route the generator is reset); `TargetKept` (a target that moves
the arm is within the joint limits); `HoldIsAtRest`; `Paced` (the velocity of the
arm is the generator's, but while a re-home is pending); and `Damped` (every
joint becomes slow within the cycles that are left of `CoastTime`). Theorems:
`Invariance`, `TypeCorrect`, `HoldRests`, `NeverJumps`, `KeepsLimits`, `Smooth`,
`AlwaysSlowsDown`. Assumptions: `LimitsAssumption`, `TrajectoryAssumption`,
`MotionAssumption`, `CoastAssumption`.

The argument for `Damped`. The damping asks for a deceleration (`Brake`) that is
a fraction of the velocity, so the velocity decays and never has to become zero;
and the acceleration follows what is asked for by no more than a jerk in a
cycle, so that a joint may still gain velocity at first, or decelerate harder
than the damping asks for, stop, and swing on in the other direction. A measure
of the work left, `ToSlow`, falls by `MaxJerk * SlowBrake` in every cycle
without motion until the joint is slow, and then remains zero. There is a lemma
for each case: the acceleration lies above what is asked for and falls by a jerk
(`SoftNearer`); it is what is asked for and the velocity falls by `SlowBrake` at
least (`TrackNearer`); it lies more than a jerk below (`HardNearer`), which may
end in a stop, and the joint swings on once (`SwingNearer`), as after that its
acceleration is on the side of its velocity. A joint that tracks cannot
overshoot, because the damping is weak for a cycle and its demand changes by no
more than a jerk (`BrakeSound`, `LeaningSound`). `CoastSettles` puts the cases
together and `CoastTimeIsEnough` starts it. Hence `CoastAssumption`: the damping
is less than 1 per cycle, `HoldDamping * MaxAcceleration` within a jerk per
cycle, the damping does something at the velocity `Slow` (no rounding to zero),
and `CoastTime` allows for three times the acceleration limit and twice the
velocity. In the units of the program: 12 per second
(`franka_controller.cpp:709`) is below 1000, 12 * 6 = 72 is within the
configured 80 rad/s^3 (`configs/teleop.yaml`), and for a `Slow` of 0.02 rad/s
the bound is some 13 s, where the velocity really decays within half a second:
the proof is about that it must, not how fast. With the limits the code has when
none are configured, an acceleration of 1.5 and a jerk of 12, the second
condition does not hold, and nothing is claimed.

`MotionProofs`, gripper: `CallInv` ties an unreturned call to
`action_in_progress` and the end of the thread to both. `GripperTypeCorrect`,
`EndsAtRest`, `ActiveIsReached`. No assumption.

`XrInputProofs`, freshness (all time limits): `TimeInv` (stamps and clocks are
never ahead of now, and a target is replaced in time), `ReadInv` (an iteration
works on the newest packet but for those that have come since it read the clock)
and `AgeInv` (the last valid target stems from a packet that was healthy then, so
that a target used again is older by at most the grace period). `TypeCorrect`,
`AgeIsBounded`, `LettingGoStopsArm`. Assumption: `FreshnessAssumption`.

`XrInputProofs`, mapping (all positions, thresholds and any weight of the low
pass): `DeadbandSound` (the deadband shortens by at most itself and never spreads
two positions further apart), `FilterSafe` (a safe target is within a step of the
arm), `WatchSound` (what a look at a new sample does to the mapper). `MappingInv`
is the type invariant, `CacheInv` (both where an arm that nothing else has moved
is, and where its momentum takes it, are within a step and a coast of the cached
target) and `DriftBounded`. `MappingTypeCorrect`,
`FreezesDriftLittle`, `TargetNeverLeaps`, `EngagesNearArm`. Assumption:
`MappingAssumption`.

`ProcessProofs`, session (any recorders): `LauncherInv` (what each phase has
dealt with), `ProcessInv` (asked processes know or have ended, awaited ones have
ended or been killed), `StopInv` (why a recorder stops), `VideoInv` (which
recorders have written nothing yet, and which have released their videos by the
time they end) and `ResultInv` (a good result stays
true). `TypeCorrect`, `NoOrphan`, `GoodIsComplete`, `RowsFollowVideos`.
Assumption: `SessionAssumption`.

`ProcessProofs`, lifecycle: `StartInv` (which threads cannot have been started
yet at each point of the main thread, and when the locals of `Run` exist),
`EndInv` (which have ended and are joined on the way out) and `SourceInv` (when
the policy source's socket is open, and that both flags are down once it is
closed). `BridgeTypeCorrect`,
`NothingUsedGone`. No assumption: every way of starting, failing and stopping is
a behavior.

Proved for all constants and no longer run, as stronger or deeper properties of
the same runs stand for them: `TypeOK` of `XrTeleop`, `PolicyTeleop`,
`LatestValueBuffer`, `TraceRecorder`, `RtcProducer` and `DataSession`,
`TargetTypeOK`, `NoTornRead`, `ImplementsRegister`, `AtRestWhenEnded`,
`RowsInOrder`, `HoldIsAtRest`.

Only model-checked: the liveness properties `RehomeCompletes`, `StopEndsThreads`,
`DesiredIsReached`, `TraceEnds`, `StopEndsProcess`, `ResumeIsServed`,
`ProgramEnds` and `SessionEnds`: fairness, and with it ENABLED, is out of the
proof system's reach.

All other properties of the runs are proved. No module has a recursive operator,
and nothing is proved by induction over data.

## 5. Not modelled, and the plan

Not modelled: pixels and device settings of the camera recorders, plots, the
dry run's display (device and display I/O); floating point, kinematics, rotations
and the Cartesian deltas of a policy; formatting; what observations report of a
target during a motion inhibit; liveness of the policy's re-home (state space); the
stand-alone sanity checks, which share no state with the bridge.

Plan, in order:

1. `Episodes`: markers from the buttons over planner, observation and a lossy UDP
   path to the recorder's event file; the aligner as a function.
2. `GripperLoop` in analog mode; the policy source's clock in `CommandFreshness`.
3. Configuration and offline validator as functions.
