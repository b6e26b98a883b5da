--------------------------- MODULE ProcessProofs ----------------------------
(***************************************************************************)
(* Proofs about what is started and must end: the recorders of a session,  *)
(* for any recorders of the three kinds and any number of items, and the   *)
(* threads of the bridge process.                                          *)
(***************************************************************************)
EXTENDS DataSession, BridgeLifecycle, TLAPS

(* How far the launcher is determines what it has dealt with. *)
LauncherInv ==
  /\ lpc \in {"launch", "watch"} => asked = {} /\ result = "none"
  /\ lpc = "watch" => launched = Recorders
  /\ lpc \in {"await", "done"} => asked = launched
  /\ awaited # {} => lpc \in {"await", "done"}
  /\ lpc = "done" => awaited = launched
  /\ killed # {} => late

(* A process exists once it is launched; one that was asked to stop either *)
(* has ended or knows; one that was awaited has ended or is about to be    *)
(* gone.                                                                   *)
ProcessInv ==
  \A r \in Recorders :
    /\ pc[r] = "none" <=> r \notin launched
    /\ r \in asked => pc[r] = "gone" \/ (Runs(r) /\ pc[r] # "boot" /\ stop[r])
    /\ r \in awaited => pc[r] = "gone" \/ r \in killed
    /\ code[r] = "killed" => r \in killed
    /\ code[r] # "none" <=> pc[r] = "gone"

(* Why a recorder stops, and what it leaves behind when it ends well. *)
StopInv ==
  \A r \in Recorders :
    /\ code[r] = "killed" => stop[r]
    /\ stop[r] => stopRequested \/ r \in asked
    /\ pc[r] = "close" \/ code[r] = "ok" => (stop[r] \/ timed) /\ file[r] = 0
    /\ pc[r] \in {"none", "boot", "open", "loop", "grab"} => file[r] = 0

Nothing(r) == item[r] = 0 /\ file[r] = 0

(* There is nothing before the loop; after it the videos are finished, or  *)
(* it is one of the exceptions.                                            *)
VideoInv ==
  \A r \in Recorders :
    /\ pc[r] \in {"none", "boot", "open"} \/ code[r] = "signalled" => Nothing(r)
    /\ code[r] = "ok" /\ r \in Cameras => released[r]
    /\ r \in Cameras /\ pc[r] = "gone" =>
         \/ released[r] \/ Nothing(r)
         \/ code[r] = "killed" \/ (r \in Zeds /\ code[r] = "failed")

(* What the launcher has concluded remains so. *)
ResultInv ==
  result = "0" /\ ~stopRequested =>
    \A r \in Recorders : pc[r] = "gone" /\ code[r] = "ok" /\ file[r] = 0 /\ timed

IInv ==
  TypeOK /\ LauncherInv /\ ProcessInv /\ StopInv /\ VideoInv /\ ResultInv

-----------------------------------------------------------------------------
(* The next in the dictionary is one of those that are left. *)
LEMMA FollowingIsOne ==
  ASSUME NEW S, S # {}
  PROVE  Following(S) \in S
  BY DEF Following

(* The invariant holds at the start. *)
LEMMA InitIInv == Init => IInv
<1>1. SUFFICES ASSUME Init PROVE IInv
  OBVIOUS
<1>2. stopRequested \in BOOLEAN /\ late \in BOOLEAN /\ timed \in BOOLEAN
  BY <1>1, Zenon DEF Init
<1>3. \A r \in Recorders : stop[r] = FALSE /\ released[r] = FALSE
  BY <1>1, Zenon DEF Init
<1>4. stop \in [Recorders -> BOOLEAN] /\ released \in [Recorders -> BOOLEAN]
  BY <1>1 DEF Init
<1>5. QED
  BY <1>1, <1>2, <1>3, <1>4
  DEF Init, IInv, TypeOK, LauncherInv, ProcessInv, StopInv, VideoInv, ResultInv,
      Runs, Nothing

(* A step of a recorder. *)
LEMMA RecorderStep ==
  ASSUME IInv, NEW r \in Recorders, RecorderNext(r)
  PROVE  IInv'
<1> USE DEF IInv, TypeOK, LauncherInv, ProcessInv, StopInv, VideoInv, ResultInv,
            Runs, Nothing, launcher, recorders
<1>1. CASE Boot(r) BY <1>1 DEF Boot
<1>2. CASE OpenRobot(r) BY <1>2 DEF OpenRobot
<1>3. CASE OpenRealsense(r) BY <1>3 DEF OpenRealsense
<1>4. CASE OpenZed(r) BY <1>4 DEF OpenZed
<1>5. CASE FailToOpen(r) BY <1>5 DEF FailToOpen
<1>6. CASE Loop(r) BY <1>6 DEF Loop
<1>7. CASE LeaveLoop(r) BY <1>7 DEF LeaveLoop
<1>8. CASE GrabNothing(r) BY <1>8 DEF GrabNothing
<1>9. CASE Grab(r) BY <1>9 DEF Grab
<1>10. CASE WriteFile(r) BY <1>10 DEF WriteFile
<1>11. CASE EndItem(r) BY <1>11 DEF EndItem
<1>12. CASE Release(r) BY <1>12 DEF Release
<1>13. CASE Close(r) BY <1>13 DEF Close
<1>14. CASE FailToRecord(r) BY <1>14 DEF FailToRecord, AfterFailure, Cameras
<1>15. CASE CleanedUp(r) BY <1>15 DEF CleanedUp
<1>16. CASE Die(r) BY <1>16 DEF Die
<1>17. QED
  BY <1>1, <1>2, <1>3, <1>4, <1>5, <1>6, <1>7, <1>8, <1>9, <1>10, <1>11, <1>12,
     <1>13, <1>14, <1>15, <1>16 DEF RecorderNext, Record

(* A step of the operator or of the launcher. *)
LEMMA OtherStep ==
  ASSUME IInv, Interrupt \/ Terminate \/ LauncherNext
  PROVE  IInv'
<1> USE DEF IInv, TypeOK, LauncherInv, ProcessInv, StopInv, VideoInv, ResultInv,
            Runs, Nothing, launcher, recorders
<1>1. CASE Interrupt BY <1>1 DEF Interrupt, Signal
<1>2. CASE Terminate BY <1>2 DEF Terminate
<1>3. CASE Launch
  <2>1. PICK q \in Recorders \ launched :
          launched' = launched \union {q} /\ pc' = [pc EXCEPT ![q] = "boot"]
    <3>1. Recorders \ launched # {}
      BY <1>3 DEF Launch
    <3>2. Following(Recorders \ launched) \in Recorders \ launched
      BY <3>1, FollowingIsOne
    <3> QED BY <1>3, <3>2, Zenon DEF Launch
  <2> QED BY <1>3, <2>1 DEF Launch
<1>4. CASE LaunchFails BY <1>4 DEF LaunchFails
<1>5. CASE AllLaunched BY <1>5 DEF AllLaunched
<1>6. CASE WatchStopped BY <1>6 DEF WatchStopped
<1>7. CASE WatchFailed BY <1>7 DEF WatchFailed
<1>8. CASE WatchExited
  <2>1. \A r \in Recorders : r \in launched /\ pc[r] = "gone" /\ code[r] = "ok"
    BY <1>8 DEF WatchExited, SeenFailing, SeenExited, Failed
  <2>2. \A r \in Recorders : ~stopRequested => timed /\ file[r] = 0
    BY <1>8, <2>1 DEF WatchExited
  <2>3. QED
    BY <1>8, <2>1, <2>2 DEF WatchExited
<1>9. CASE AskOne
  <2>1. PICK q \in launched \ asked : asked' = asked \union {q} /\ Signal({q})
    <3>1. launched \ asked # {}
      BY <1>9 DEF AskOne
    <3>2. Following(launched \ asked) \in launched \ asked
      BY <3>1, FollowingIsOne
    <3> QED BY <1>9, <3>2, Zenon DEF AskOne, Ask
  <2>2. UNCHANGED <<lpc, launched, awaited, killed, stopRequested, late, result, timed, item,
                    file, released>>
    BY <1>9 DEF AskOne
  <2>3. /\ pc' = [r \in Recorders |-> IF r = q /\ pc[q] = "boot" THEN "gone" ELSE pc[r]]
        /\ code' = [r \in Recorders |->
                     IF r = q /\ pc[q] = "boot" THEN "signalled" ELSE code[r]]
    BY <2>1 DEF Signal
  <2>4. /\ stop' \in [Recorders -> BOOLEAN]
        /\ \A r \in Recorders :
             stop'[r] <=> stop[r] \/ (r = q /\ Runs(q) /\ pc[q] # "boot")
    BY <2>1 DEF Signal
  <2>5. TypeOK' /\ LauncherInv'
    BY <1>9, <2>1, <2>2, <2>3, <2>4 DEF AskOne
  <2>6. ProcessInv'
    BY <2>1, <2>2, <2>3, <2>4
  <2>7. StopInv' /\ VideoInv' /\ ResultInv'
    BY <1>9, <2>1, <2>2, <2>3, <2>4 DEF AskOne
  <2>8. QED
    BY <2>5, <2>6, <2>7
<1>10. CASE AllAsked BY <1>10 DEF AllAsked, EveryoneAsked
<1>11. CASE Deadline BY <1>11 DEF Deadline
<1>12. CASE AwaitEnded
  <2>1. PICK q \in launched \ awaited : pc[q] = "gone" /\ awaited' = awaited \union {q}
    <3>1. launched \ awaited # {}
      BY <1>12 DEF AwaitEnded
    <3>2. Following(launched \ awaited) \in launched \ awaited
      BY <3>1, FollowingIsOne
    <3> QED BY <1>12, <3>2, Zenon DEF AwaitEnded
  <2> QED BY <1>12, <2>1 DEF AwaitEnded
<1>13. CASE AwaitLate
  <2>1. PICK q \in launched \ awaited :
          pc[q] # "gone" /\ awaited' = awaited \union {q} /\ killed' = killed \union {q}
    <3>1. launched \ awaited # {}
      BY <1>13 DEF AwaitLate
    <3>2. Following(launched \ awaited) \in launched \ awaited
      BY <3>1, FollowingIsOne
    <3> QED BY <1>13, <3>2, Zenon DEF AwaitLate, KillLate
  <2> QED BY <1>13, <2>1 DEF AwaitLate
<1>14. CASE AllAwaited BY <1>14 DEF AllAwaited
<1>15. QED
  BY <1>1, <1>2, <1>3, <1>4, <1>5, <1>6, <1>7, <1>8, <1>9, <1>10, <1>11, <1>12,
     <1>13, <1>14 DEF LauncherNext

(* The invariant of recording sessions. *)
THEOREM Invariance == Spec => []IInv
<1>1. IInv /\ UNCHANGED vars => IInv'
  BY DEF IInv, TypeOK, LauncherInv, ProcessInv, StopInv, VideoInv, ResultInv,
         Runs, Nothing, vars, launcher, recorders
<1>2. IInv /\ [Next]_vars => IInv'
  BY <1>1, RecorderStep, OtherStep DEF Next
<1>3. QED
  BY InitIInv, <1>2, PTL DEF Spec

(* Every variable keeps its type: in particular a process is asked before  *)
(* it is awaited, and launched before it is asked.                         *)
THEOREM TypeCorrect == Spec => []TypeOK
<1>1. IInv => TypeOK
  BY DEF IInv
<1>2. QED
  BY Invariance, <1>1, PTL

(* No recorder survives the launcher but one that is about to be gone, and *)
(* none is killed unasked or before the five seconds are over.             *)
THEOREM NoOrphan == Spec => []NoRecorderLeft
<1>1. IInv => NoRecorderLeft
  BY DEF IInv, TypeOK, LauncherInv, ProcessInv, StopInv, NoRecorderLeft, Runs
<1>2. QED
  BY Invariance, <1>1, PTL

(* A session that ends well unstopped is complete. *)
THEOREM GoodIsComplete == Spec => []GoodSessionIsComplete
<1>1. IInv => GoodSessionIsComplete
  BY DEF IInv, VideoInv, ResultInv, GoodSessionIsComplete
<1>2. QED
  BY Invariance, <1>1, PTL

(* A camera's rows name frames of finished videos, unless it was killed or *)
(* is a ZED that failed.                                                   *)
THEOREM RowsFollowVideos == Spec => []RowsNameFinishedVideos
<1>1. IInv => RowsNameFinishedVideos
  <2>1. ASSUME TypeOK, NEW r \in Cameras, Nothing(r) PROVE ~HasRow(r)
    BY <2>1 DEF TypeOK, Nothing, HasRow
  <2>2. QED
    BY <2>1 DEF IInv, VideoInv, RowsNameFinishedVideos, Recorders
<1>2. QED
  BY Invariance, <1>1, PTL

-----------------------------------------------------------------------------
(* The bridge process. *)

Robot == {"planner", "gripper"}

Gone(t) == threads[t] \in {"none", "joined"}

(* What there is while the main thread is where it is. *)
StartInv ==
  /\ main \in {"config", "source"} => \A t \in Threads : threads[t] = "none"
  /\ main \in {"publisher", "dryRun", "trace"} =>
       \A t \in {"planner", "gripper", "writer"} : threads[t] = "none"
  /\ main = "connect" => ~options.dryRun /\ \A t \in Robot : threads[t] = "none"
  /\ main \in {"trace", "control"} => ~options.dryRun
  /\ main \in {"connect", "control", "join", "joining", "stopTrace"} =>
       recorder = options.trace
  /\ main = "control" => locals
  /\ main \in {"join", "joining"} => locals \/ rc \in ExceptionCodes

(* What main() does last. *)
Leaving == {"stopSource", "closeSource", "joinSource", "joinPublisher", "returned"}

(* What has ended and is joined on the way out. *)
EndInv ==
  /\ main \in {"stopTrace", "joinWriter", "closing"} \union Leaving =>
       \A t \in Robot : Gone(t)
  /\ main \in {"closing"} \union Leaving => Gone("writer")
  /\ main \in {"joinPublisher", "returned"} => Gone("source")
  /\ main = "returned" => Gone("publisher")
  /\ socket = "closed" => main = "returned"
  /\ main \in {"join", "joining", "stopTrace", "joinWriter", "closing"} \union Leaving =>
       rc # NoCode

(* The socket of the policy source is open from its start until it is      *)
(* closed, by when both flags keep its thread from another iteration.      *)
SourceInv ==
  /\ main \in {"config", "source"} => ~running /\ ~receiving /\ actions = "none"
  /\ options.source = "policy"
       /\ main \notin {"config", "source", "joinSource", "joinPublisher", "returned"} =>
         actions = "open"
  /\ main \in Leaving \ {"returned"} => stopping
  /\ main \in Leaving \ {"stopSource"} => ~running
  /\ actions = "closed" =>
       main \in {"joinSource", "joinPublisher", "returned"} /\ stopping /\ ~running
  /\ receiving => /\ options.source = "policy" /\ threads["source"] = "runs"
                  /\ actions = "open" \/ main = "joinSource"

BridgeInv == BridgeTypeOK /\ StartInv /\ EndInv /\ SourceInv

-----------------------------------------------------------------------------
(* The invariant of the lifecycle holds at the start. *)
LEMMA BridgeInitInv == BridgeInit => BridgeInv
  BY DEF BridgeInit, BridgeInv, BridgeTypeOK, StartInv, EndInv, SourceInv, Leaving, source, Options, Threads, NoCode, Robot, Gone

(* The main thread, up to the block of Run. *)
LEMMA BridgeStartStep ==
  ASSUME BridgeInv,
         LoadConfig \/ SourceFails \/ StartXrSource \/ StartPolicySource
           \/ StartPublisher \/ DryRunEnds \/ StartTrace \/ HomeInterrupted
           \/ SpawnThreads
  PROVE  BridgeInv'
  <1> USE DEF BridgeInv, BridgeTypeOK, StartInv, EndInv, SourceInv, Leaving, source, Options, Threads, NoCode, ExceptionCodes,
              Robot, Gone, Started
  <1>1. CASE LoadConfig
    BY <1>1 DEF LoadConfig
  <1>2. CASE SourceFails
    BY <1>2 DEF SourceFails
  <1>3. ASSUME NEW kind \in {"xr", "policy"}, StartSource(kind) PROVE BridgeInv'
    <2>1. \A t \in Threads : threads'[t] = IF t = "source" THEN "runs" ELSE "none"
      BY <1>3 DEF StartSource
    <2> QED BY <1>3, <2>1 DEF StartSource
  <1>4. CASE StartPublisher
    BY <1>4 DEF StartPublisher
  <1>5. CASE DryRunEnds
    BY <1>5 DEF DryRunEnds
  <1>6. CASE StartTrace
    BY <1>6 DEF StartTrace
  <1>7. CASE HomeInterrupted
    BY <1>7 DEF HomeInterrupted
  <1>8. CASE SpawnThreads
    BY <1>8 DEF SpawnThreads
  <1> QED
    BY <1>1, <1>2, <1>3, <1>4, <1>5, <1>6, <1>7, <1>8 DEF StartXrSource, StartPolicySource

(* The main thread, on its way out. *)
LEMMA BridgeLeaveStep ==
  ASSUME BridgeInv,
         ControlEnds \/ Throw \/ BeginJoin \/ JoinThreads \/ StopTrace \/ JoinWriter
           \/ StopThreads \/ StopXrSource \/ StopPolicySource \/ CloseSource
           \/ JoinSource \/ JoinPublisher
  PROVE  BridgeInv'
  <1> USE DEF BridgeInv, BridgeTypeOK, StartInv, EndInv, SourceInv, Leaving, source, Options, Threads, NoCode, ExceptionCodes,
              Robot, Gone, Joined, Over
  <1>1. CASE ControlEnds
    BY <1>1 DEF ControlEnds, AfterControl
  <1>2. CASE Throw
    <2>1. rc' \in {2, 3, 4, 7}
      BY <1>2 DEF Throw
    <2>2. rc' \in 0..8 /\ rc' # -1
      BY <2>1
    <2> QED BY <1>2, <2>1, <2>2 DEF Throw
  <1>3. CASE BeginJoin
    BY <1>3 DEF BeginJoin
  <1>4. CASE JoinThreads
    BY <1>4 DEF JoinThreads
  <1>5. CASE StopTrace
    BY <1>5 DEF StopTrace
  <1>6. CASE JoinWriter
    <2>1. locals' \in BOOLEAN /\ running' \in BOOLEAN /\ receiving' \in BOOLEAN
      BY <1>6, Zenon DEF JoinWriter
    <2>2. threads' \in [Threads -> {"none", "runs", "ended", "joined"}]
      BY <1>6 DEF JoinWriter
    <2>3. Gone("writer")' /\ \A t \in Threads \ {"writer"} : threads'[t] = threads[t]
      BY <1>6 DEF JoinWriter
    <2>4. main' = "closing" /\ UNCHANGED <<options, stopping, source, recorder, socket, rc>>
      BY <1>6 DEF JoinWriter
    <2>5. main = "joinWriter"
      BY <1>6 DEF JoinWriter
    <2> QED BY <2>1, <2>2, <2>3, <2>4, <2>5
  <1>7. CASE StopThreads
    BY <1>7 DEF StopThreads, StopAll
  <1>8. CASE StopXrSource
    <2>1. running' \in BOOLEAN /\ ~running' /\ ~receiving
      BY <1>8, Zenon DEF StopXrSource
    <2> QED BY <1>8, <2>1 DEF StopXrSource
  <1>9. CASE StopPolicySource
    <2>1. running' \in BOOLEAN /\ ~running'
      BY <1>9, Zenon DEF StopPolicySource
    <2> QED BY <1>9, <2>1 DEF StopPolicySource
  <1>10. CASE CloseSource
    BY <1>10 DEF CloseSource
  <1>11. CASE JoinSource
    BY <1>11 DEF JoinSource
  <1>12. CASE JoinPublisher
    BY <1>12 DEF JoinPublisher
  <1> QED BY <1>1, <1>2, <1>3, <1>4, <1>5, <1>6, <1>7, <1>8, <1>9, <1>10, <1>11, <1>12

(* The threads and the operator. *)
LEMMA BridgeThreadStep ==
  ASSUME BridgeInv,
         HandleSignal \/ BeginReceive \/ EndReceive \/ \E t \in Threads : Ends(t) \/ Fails(t)
  PROVE  BridgeInv'
  <1> USE DEF BridgeInv, BridgeTypeOK, StartInv, EndInv, SourceInv, Leaving, source, Options, Threads, Robot, Gone
  <1>1. CASE HandleSignal
    BY <1>1 DEF HandleSignal
  <1>2. ASSUME NEW t \in Threads, Ends(t) PROVE BridgeInv'
    <2>1. t = "source" => ~receiving
      BY <1>2 DEF Ends, MayEnd
    <2>2. receiving' \in BOOLEAN
      BY <1>2, Zenon DEF Ends
    <2>3. threads' = [threads EXCEPT ![t] = "ended"] /\ threads[t] = "runs"
      BY <1>2 DEF Ends
    <2>4. UNCHANGED <<options, stopping, main, source, locals, recorder, socket, rc>>
      BY <1>2 DEF Ends
    <2> QED BY <2>1, <2>2, <2>3, <2>4
  <1>3. ASSUME NEW t \in Threads, Fails(t) PROVE BridgeInv'
    BY <1>3 DEF Fails
  <1>4. CASE BeginReceive
    BY <1>4 DEF BeginReceive
  <1>5. CASE EndReceive
    <2>1. receiving' \in BOOLEAN /\ ~receiving'
      BY <1>5, Zenon DEF EndReceive
    <2> QED BY <1>5, <2>1 DEF EndReceive
  <1> QED BY <1>1, <1>2, <1>3, <1>4, <1>5

(* The inductive invariant of the lifecycle: what is started, what is gone. *)
THEOREM BridgeInvariance == BridgeSpec => []BridgeInv
  <1>1. BridgeInv /\ [BridgeNext]_bridgeVars => BridgeInv'
    <2>1. BridgeInv /\ UNCHANGED bridgeVars => BridgeInv'
      BY DEF BridgeInv, BridgeTypeOK, StartInv, EndInv, SourceInv, Leaving, source, Gone, bridgeVars
    <2> QED BY <2>1, BridgeStartStep, BridgeLeaveStep, BridgeThreadStep DEF BridgeNext, MainThread
  <1> QED BY BridgeInitInv, <1>1, PTL DEF BridgeSpec

(* Only what was started is joined, the gripper thread is started only     *)
(* with a gripper and a robot, and main() returns a code.                  *)
THEOREM BridgeTypeCorrect == BridgeSpec => []BridgeTypeOK
  BY BridgeInvariance, PTL DEF BridgeInv

(* On every way out nothing that a thread uses goes before the thread, but *)
(* for two: the locals of Run in an exception, and the policy source's     *)
(* socket, which the one call its thread is about to make or in may find   *)
(* closed.                                                                 *)
THEOREM NothingUsedGone == BridgeSpec => []UsedWhileAlive
  <1>1. BridgeInv => UsedWhileAlive
    BY DEF BridgeInv, BridgeTypeOK, StartInv, EndInv, SourceInv, Leaving, source, UsedWhileAlive, Threads, Robot, Gone
  <1> QED BY <1>1, BridgeInvariance, PTL
=============================================================================
