--------------------------- MODULE BridgeLifecycle ---------------------------
(***************************************************************************)
(* The life of the bridge process: what main() and Run start and stop, and *)
(* in which order, when the operator stops it, a part cannot be started, a *)
(* thread fails or the robot throws an exception.  What the threads do     *)
(* while they run is in the other modules; here they run until they see a  *)
(* reason to end, and main waits for them.                                 *)
(*                                                                         *)
(* RecoverRobotIfNeeded never returns false, and a route is interrupted by *)
(* a stop only, so that Run does not return early once its threads run.    *)
(***************************************************************************)
EXTENDS Integers, FiniteSets

VARIABLES
  options,  \* of the command line and the configuration
  stopping, \* g_stop_requested
  main,     \* what the main thread does next
  threads,  \* of each thread: "none", "runs", "ended" or "joined"
  running,  \* running_ of the source
  actions,  \* sock_ of the policy source: "none", "open" or "closed"
  receiving,\* its thread has passed the test of its loop, on the way to recvfrom
  locals,   \* the buffers, the model and the gripper of Run exist
  recorder, \* trace_recorder exists and is not stopped
  socket,   \* of the observation publisher: "none", "open" or "closed"
  rc        \* the exit code, once it is known

source == <<running, actions, receiving>>

bridgeVars == <<options, stopping, main, threads, source, locals, recorder, socket, rc>>

Options == [source : {"xr", "policy"}, dryRun : BOOLEAN, trace : BOOLEAN, gripper : BOOLEAN]

Threads == {"source", "publisher", "planner", "gripper", "writer"}

NoCode == -1
ExceptionCodes == {2, 3, 4, 7}

BridgeInit ==
  /\ options \in Options
  /\ stopping = FALSE
  /\ main = "config"
  /\ threads = [t \in Threads |-> "none"]
  /\ running = FALSE /\ actions = "none" /\ receiving = FALSE
  /\ locals = FALSE /\ recorder = FALSE
  /\ socket = "none"
  /\ rc = NoCode

Started(ts) == [t \in Threads |-> IF t \in ts THEN "runs" ELSE threads[t]]

Over(t) == threads[t] \in {"none", "ended"}

(* Mutation: a thread that was not started is joined too. *)
JoinedAnyway(ts) == [t \in Threads |-> IF t \in ts THEN "joined" ELSE threads[t]]

(* Only what is joinable. *)
Joined(ts) ==
  [t \in Threads |-> IF t \in ts /\ threads[t] = "ended" THEN "joined" ELSE threads[t]]

-----------------------------------------------------------------------------
(* main(), up to Run. *)

(* Wrong arguments or configuration, or the home position is saved only. *)
LoadConfig ==
  /\ main = "config"
  /\ \/ main' = "source" /\ rc' = NoCode
     \/ main' = "returned" /\ rc' \in {0, 1, 3}
  /\ UNCHANGED <<options, stopping, threads, source, locals, recorder, socket>>

SourceFails ==
  /\ main = "source"
  /\ main' = "returned" /\ rc' = 2
  /\ UNCHANGED <<options, stopping, threads, source, locals, recorder, socket>>

StartSource(kind) ==
  /\ main = "source" /\ options.source = kind
  /\ running' = TRUE /\ receiving' = FALSE
  /\ actions' = IF kind = "policy" THEN "open" ELSE "none"
  /\ threads' = Started({"source"})
  /\ main' = "publisher"
  /\ UNCHANGED <<options, stopping, locals, recorder, socket, rc>>

(* The SDK starts a thread that calls back; the policy source its own. *)
StartXrSource == StartSource("xr")
StartPolicySource == StartSource("policy")

(* Without a socket the bridge goes on and publishes nothing. *)
StartPublisher ==
  /\ main = "publisher"
  /\ socket' \in {"none", "open"}
  /\ threads' = Started({"publisher"})
  /\ main' = IF options.dryRun THEN "dryRun" ELSE "trace"
  /\ UNCHANGED <<options, stopping, source, locals, recorder, rc>>

DryRunEnds ==
  /\ main = "dryRun" /\ stopping
  /\ main' = "closing" /\ rc' = 0
  /\ UNCHANGED <<options, stopping, threads, source, locals, recorder, socket>>

-----------------------------------------------------------------------------
(* Run. *)

StartTrace ==
  /\ main = "trace"
  /\ \/ /\ main' = "connect"
        /\ recorder' = options.trace
        /\ threads' = IF options.trace THEN Started({"writer"}) ELSE threads
        /\ UNCHANGED rc
     \/ /\ options.trace
        /\ main' = "closing" /\ rc' = 8
        /\ UNCHANGED <<recorder, threads>>
  /\ UNCHANGED <<options, stopping, source, locals, socket>>

(* The arm goes home before there are threads; a stop interrupts it. *)
HomeInterrupted ==
  /\ main = "connect" /\ stopping
  /\ main' = "stopTrace" /\ rc' = 6
  /\ UNCHANGED <<options, stopping, threads, source, locals, recorder, socket>>

(* A gripper that does not answer is done without. *)
SpawnThreads ==
  /\ main = "connect"
  /\ locals' = TRUE
  /\ \E answers \in BOOLEAN :
       threads' = Started({"planner"} \cup
                          IF options.gripper /\ answers THEN {"gripper"} ELSE {})
  /\ main' = "control"
  /\ UNCHANGED <<options, stopping, source, recorder, socket, rc>>

(* Mutation: the trace is stopped before the threads that write it. *)
TraceFirst == "stopTrace"

AfterControl == "join"

ControlEnds ==
  /\ main = "control" /\ stopping
  /\ main' = AfterControl /\ rc' = 0
  /\ UNCHANGED <<options, stopping, threads, source, locals, recorder, socket>>

(* An exception leaves the block, whose locals are gone in the handler. *)
Throw ==
  /\ main \in {"connect", "control"}
  /\ locals' = FALSE
  /\ main' = "join" /\ rc' \in ExceptionCodes
  /\ UNCHANGED <<options, stopping, threads, source, recorder, socket>>

(* join_threads sets the flag, and waits. *)
BeginJoin ==
  /\ main = "join"
  /\ stopping' = TRUE
  /\ main' = "joining"
  /\ UNCHANGED <<options, threads, source, locals, recorder, socket, rc>>

JoinThreads ==
  /\ main = "joining" /\ Over("planner") /\ Over("gripper")
  /\ threads' = Joined({"planner", "gripper"})
  /\ main' = "stopTrace"
  /\ UNCHANGED <<options, stopping, source, locals, recorder, socket, rc>>

StopTrace ==
  /\ main = "stopTrace"
  /\ recorder' = FALSE
  /\ main' = "joinWriter"
  /\ UNCHANGED <<options, stopping, threads, source, locals, socket, rc>>

JoinWriter ==
  /\ main = "joinWriter" /\ Over("writer")
  /\ threads' = Joined({"writer"})
  /\ locals' = FALSE
  /\ main' = "closing"
  /\ UNCHANGED <<options, stopping, source, recorder, socket, rc>>

-----------------------------------------------------------------------------
(* main(), after Run. *)

(* Mutation: the threads are only told to stop by whoever stopped Run. *)
StopIfStopped == stopping

StopAll == TRUE

StopThreads ==
  /\ main = "closing"
  /\ stopping' = StopAll
  /\ main' = "stopSource"
  /\ UNCHANGED <<options, threads, source, locals, recorder, socket, rc>>

(* PXREADeinit ends the SDK's thread. *)
StopXrSource ==
  /\ main = "stopSource" /\ options.source = "xr"
  /\ running' = FALSE
  /\ threads' = [threads EXCEPT !["source"] = "joined"]
  /\ main' = "joinPublisher"
  /\ UNCHANGED <<options, stopping, actions, receiving, locals, recorder, socket, rc>>

(* The socket is closed before the thread that receives on it is joined.   *)
StopPolicySource ==
  /\ main = "stopSource" /\ options.source = "policy"
  /\ running' = FALSE
  /\ main' = "closeSource"
  /\ UNCHANGED <<options, stopping, threads, actions, receiving, locals, recorder, socket, rc>>

CloseSource ==
  /\ main = "closeSource"
  /\ actions' = "closed"
  /\ main' = "joinSource"
  /\ UNCHANGED <<options, stopping, threads, running, receiving, locals, recorder, socket, rc>>

JoinSource ==
  /\ main = "joinSource" /\ Over("source")
  /\ threads' = Joined({"source"})
  /\ main' = "joinPublisher"
  /\ UNCHANGED <<options, stopping, source, locals, recorder, socket, rc>>

JoinPublisher ==
  /\ main = "joinPublisher" /\ Over("publisher")
  /\ threads' = Joined({"publisher"})
  /\ socket' = IF socket = "open" THEN "closed" ELSE socket
  /\ main' = "returned"
  /\ UNCHANGED <<options, stopping, source, locals, recorder, rc>>

-----------------------------------------------------------------------------
(* The threads, and the operator. *)

MayEnd(t) ==
  CASE t \in {"publisher", "planner", "gripper"} -> stopping
    [] t = "source" -> options.source = "policy" /\ (stopping \/ ~running) /\ ~receiving
    [] t = "writer" -> ~recorder

Ends(t) ==
  /\ threads[t] = "runs" /\ MayEnd(t)
  /\ threads' = [threads EXCEPT ![t] = "ended"]
  /\ UNCHANGED <<options, stopping, main, source, locals, recorder, socket, rc>>

(* An iteration of the policy source's thread: the test of both flags, and *)
(* the call of recvfrom, which may find the socket closed.                 *)
BeginReceive ==
  /\ threads["source"] = "runs" /\ options.source = "policy"
  /\ running /\ ~stopping /\ ~receiving
  /\ receiving' = TRUE
  /\ UNCHANGED <<options, stopping, main, threads, running, actions, locals, recorder, socket, rc>>

EndReceive ==
  /\ receiving
  /\ receiving' = FALSE
  /\ UNCHANGED <<options, stopping, main, threads, running, actions, locals, recorder, socket, rc>>

(* An exception in the planner or the gripper thread stops the bridge. *)
Fails(t) ==
  /\ t \in {"planner", "gripper"} /\ threads[t] = "runs"
  /\ threads' = [threads EXCEPT ![t] = "ended"]
  /\ stopping' = TRUE
  /\ UNCHANGED <<options, main, source, locals, recorder, socket, rc>>

HandleSignal ==
  /\ main \notin {"config", "returned"}
  /\ stopping' = TRUE
  /\ UNCHANGED <<options, main, threads, source, locals, recorder, socket, rc>>

MainThread ==
  \/ LoadConfig \/ SourceFails \/ StartXrSource \/ StartPolicySource \/ StartPublisher
  \/ DryRunEnds \/ StartTrace \/ HomeInterrupted \/ SpawnThreads \/ ControlEnds \/ Throw
  \/ BeginJoin \/ JoinThreads \/ StopTrace \/ JoinWriter
  \/ StopThreads \/ StopXrSource \/ StopPolicySource \/ CloseSource
  \/ JoinSource \/ JoinPublisher

BridgeNext == MainThread \/ HandleSignal \/ BeginReceive \/ EndReceive
              \/ \E t \in Threads : Ends(t) \/ Fails(t)

BridgeSpec == BridgeInit /\ [][BridgeNext]_bridgeVars

(* The main thread and the threads are scheduled; libfranka, the SDK and   *)
(* the sockets return (recvfrom after 100 ms).                             *)
BridgeFairness == /\ WF_bridgeVars(MainThread) /\ WF_bridgeVars(EndReceive)
                  /\ \A t \in Threads : WF_bridgeVars(Ends(t))

BridgeFairSpec == BridgeSpec /\ BridgeFairness

-----------------------------------------------------------------------------
(* Threads are joined only if they were started, and main returns a code.  *)
BridgeTypeOK ==
  /\ options \in Options /\ stopping \in BOOLEAN
  /\ main \in {"config", "source", "publisher", "dryRun", "trace", "connect", "control",
               "join", "joining", "stopTrace", "joinWriter", "closing", "stopSource",
               "closeSource", "joinSource", "joinPublisher", "returned"}
  /\ threads \in [Threads -> {"none", "runs", "ended", "joined"}]
  /\ options.dryRun \/ ~options.gripper => threads["gripper"] = "none"
  /\ running \in BOOLEAN /\ receiving \in BOOLEAN /\ actions \in {"none", "open", "closed"}
  /\ locals \in BOOLEAN /\ recorder \in BOOLEAN
  /\ socket \in {"none", "open", "closed"}
  /\ rc \in {NoCode} \cup 0..8 /\ (main = "returned" => rc # NoCode)

(* What a thread uses exists while it runs, on every way out: the command  *)
(* buffers of main(), the sockets of the publisher and of the policy       *)
(* source, the trace recorder and the locals of Run.  There are two        *)
(* exceptions.  The handlers join the threads only after an exception has  *)
(* destroyed the locals; and Stop closes the policy source's socket before *)
(* it joins the thread, which may be about to receive on it or receiving:  *)
(* once, as both of its flags are against another iteration by then.       *)
UsedWhileAlive ==
  /\ main = "returned" => \A t \in Threads : threads[t] \in {"none", "joined"}
  /\ threads["publisher"] = "runs" => socket # "closed"
  /\ receiving => threads["source"] = "runs" /\ (actions = "open" \/ main = "joinSource")
  /\ actions = "closed" => stopping /\ ~running
  /\ \A t \in {"planner", "gripper"} :
       threads[t] = "runs" =>
         /\ options.trace /\ t = "planner" => recorder
         /\ locals \/ rc \in ExceptionCodes

(* Once the bridge has been told to stop, by the operator or a thread, or  *)
(* cannot go on, it ends, whatever it was about to start.                  *)
StopEndsProcess == (stopping \/ rc # NoCode) ~> main = "returned"
=============================================================================
