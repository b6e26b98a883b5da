----------------------------- MODULE DataSession -----------------------------
(***************************************************************************)
(* A recording session: the launcher starts one process per recorder,      *)
(* watches them, and at the end asks those that still run to stop, waits,  *)
(* and kills what is left.  A recorder takes items, a packet of the robot  *)
(* or a frame of a camera, and writes each to its files in a fixed order.  *)
(* Rows and depth are on their way to the disk when they are written; a    *)
(* video can be played only once its writer has been released.             *)
(*                                                                         *)
(* The launcher treats its processes in the order of a dictionary.  What   *)
(* an item holds is left out, and so are the command lines.                *)
(***************************************************************************)
EXTENDS Naturals, Sequences

CONSTANTS
  Robots, Realsenses, Zeds,  \* the recorders enabled, by kind
  MaxItems                   \* bound: the items one recorder takes

Cameras   == Realsenses \union Zeds
Recorders == Robots \union Cameras

ASSUME SessionAssumption ==
  /\ MaxItems \in Nat
  /\ Recorders # {}
  /\ Robots \intersect Realsenses = {}
  /\ Robots \intersect Zeds = {} /\ Realsenses \intersect Zeds = {}

VARIABLES
  \* the launcher
  lpc,            \* where it is
  launched, asked, awaited,  \* the processes each loop has dealt with
  killed,         \* those it has sent SIGKILL, and does not wait for
  stopRequested,  \* STOP_REQUESTED
  late,           \* whether the deadline of the stop is over
  result,         \* what main returns
  \* the recorders
  timed,          \* whether --duration-s is given
  pc,             \* where each is
  stop,           \* its own STOP_REQUESTED
  item,           \* the items it has written
  file,           \* the files it has written the present item to
  released,       \* whether it has released its video writers
  code            \* how it has ended

launcher  == <<lpc, launched, asked, awaited, killed, stopRequested, late, result>>
recorders == <<timed, pc, stop, item, file, released, code>>
vars      == <<launcher, recorders>>

Init ==
  /\ lpc = "launch" /\ launched = {} /\ asked = {} /\ awaited = {} /\ killed = {}
  /\ stopRequested = FALSE /\ late = FALSE /\ result = "none"
  /\ timed \in BOOLEAN
  /\ pc = [r \in Recorders |-> "none"]
  /\ stop = [r \in Recorders |-> FALSE]
  /\ item = [r \in Recorders |-> 0]
  /\ file = [r \in Recorders |-> 0]
  /\ released = [r \in Recorders |-> FALSE]
  /\ code = [r \in Recorders |-> "none"]

Runs(r)   == pc[r] \notin {"none", "gone"}
Failed(r) == pc[r] = "gone" /\ code[r] # "ok"

-----------------------------------------------------------------------------
(* A recorder.                                                             *)

(* The files an item is written to, in this order: of the robot the row,   *)
(* and what it says of an episode; of a camera, depth on, the picture, the *)
(* depth and the row.  The two views of a ZED have a file each, written    *)
(* and released one right after the other.                                 *)
RobotFiles  == <<"row", "event">>
CameraFiles == <<"video", "depth", "row">>

Files(r) == IF r \in Robots THEN RobotFiles ELSE CameraFiles

(* Signals are handled from here on. *)
Boot(r) ==
  /\ pc[r] = "boot"
  /\ pc' = [pc EXCEPT ![r] = "open"]
  /\ UNCHANGED <<launcher, timed, stop, item, file, released, code>>

OpenRobot(r) ==
  /\ r \in Robots /\ pc[r] = "open"
  /\ pc' = [pc EXCEPT ![r] = "loop"]
  /\ UNCHANGED <<launcher, timed, stop, item, file, released, code>>

OpenRealsense(r) ==
  /\ r \in Realsenses /\ pc[r] = "open"
  /\ pc' = [pc EXCEPT ![r] = "loop"]
  /\ UNCHANGED <<launcher, timed, stop, item, file, released, code>>

(* The first frame, from which the size is taken, is written before the    *)
(* recorder looks whether it is to stop.                                   *)
OpenZed(r) ==
  /\ r \in Zeds /\ pc[r] = "open"
  /\ pc' = [pc EXCEPT ![r] = "write"]
  /\ UNCHANGED <<launcher, timed, stop, item, file, released, code>>

(* Another item is wanted if nothing asks the recorder to stop. *)
Loop(r) ==
  /\ pc[r] = "loop" /\ ~stop[r]
  /\ pc' = [pc EXCEPT ![r] = "grab"]
  /\ UNCHANGED <<launcher, timed, stop, item, file, released, code>>

LeaveLoop(r) ==
  /\ pc[r] = "loop" /\ (stop[r] \/ timed)
  /\ pc' = [pc EXCEPT ![r] = "close"]
  /\ UNCHANGED <<launcher, timed, stop, item, file, released, code>>

(* Nothing has come, or it could not be used. *)
GrabNothing(r) ==
  /\ pc[r] = "grab"
  /\ pc' = [pc EXCEPT ![r] = "loop"]
  /\ UNCHANGED <<launcher, timed, stop, item, file, released, code>>

Grab(r) ==
  /\ pc[r] = "grab" /\ item[r] < MaxItems
  /\ pc' = [pc EXCEPT ![r] = "write"]
  /\ UNCHANGED <<launcher, timed, stop, item, file, released, code>>

WriteFile(r) ==
  /\ pc[r] = "write" /\ file[r] < Len(Files(r))
  /\ file' = [file EXCEPT ![r] = @ + 1]
  /\ UNCHANGED <<launcher, timed, pc, stop, item, released, code>>

EndItem(r) ==
  /\ pc[r] = "write" /\ file[r] = Len(Files(r))
  /\ item' = [item EXCEPT ![r] = @ + 1]
  /\ file' = [file EXCEPT ![r] = 0]
  /\ pc' = [pc EXCEPT ![r] = "loop"]
  /\ UNCHANGED <<launcher, timed, stop, released, code>>

Release(r) ==
  /\ r \in Cameras /\ pc[r] \in {"close", "cleanup"} /\ ~released[r]
  /\ released' = [released EXCEPT ![r] = TRUE]
  /\ UNCHANGED <<launcher, timed, pc, stop, item, file, code>>

Close(r) ==
  /\ pc[r] = "close" /\ (r \in Cameras => released[r])
  /\ pc' = [pc EXCEPT ![r] = "gone"]
  /\ code' = [code EXCEPT ![r] = "ok"]
  /\ UNCHANGED <<launcher, timed, stop, item, file, released>>

(* A missing module or device, an exposure it does not take. *)
FailToOpen(r) ==
  /\ pc[r] \in {"boot", "open"}
  /\ pc' = [pc EXCEPT ![r] = "gone"]
  /\ code' = [code EXCEPT ![r] = "failed"]
  /\ UNCHANGED <<launcher, timed, stop, item, file, released>>

(* Mutation: the writer is released on the good way out only. *)
AfterFailureAtOnce(r) == "gone"

(* The RealSense recorder has a finally. *)
AfterFailure(r) == IF r \in Realsenses THEN "cleanup" ELSE "gone"

(* A frame that does not come in time, depth that cannot be saved.  The    *)
(* writers of the ZED are left to the interpreter, which may release them. *)
FailToRecord(r) ==
  /\ pc[r] \in {"grab", "write", "close"}
  /\ pc' = [pc EXCEPT ![r] = AfterFailure(r)]
  /\ code' = [code EXCEPT ![r] = IF AfterFailure(r) = "gone" THEN "failed" ELSE @]
  /\ \E b \in BOOLEAN :
       released' = [released EXCEPT ![r] = @ \/ (r \in Zeds /\ b)]
  /\ UNCHANGED <<launcher, timed, stop, item, file>>

CleanedUp(r) ==
  /\ pc[r] = "cleanup" /\ released[r]
  /\ pc' = [pc EXCEPT ![r] = "gone"]
  /\ code' = [code EXCEPT ![r] = "failed"]
  /\ UNCHANGED <<launcher, timed, stop, item, file, released>>

(* What a process does by itself. *)
Record(r) ==
  \/ Boot(r) \/ OpenRobot(r) \/ OpenRealsense(r) \/ OpenZed(r) \/ FailToOpen(r)
  \/ Loop(r) \/ LeaveLoop(r) \/ GrabNothing(r) \/ Grab(r)
  \/ WriteFile(r) \/ EndItem(r) \/ Release(r) \/ Close(r) \/ FailToRecord(r) \/ CleanedUp(r)

(* SIGKILL takes effect later, and the process goes on till then. *)
Die(r) ==
  /\ r \in killed /\ Runs(r)
  /\ pc' = [pc EXCEPT ![r] = "gone"]
  /\ code' = [code EXCEPT ![r] = "killed"]
  /\ UNCHANGED <<launcher, timed, stop, item, file, released>>

RecorderNext(r) == Record(r) \/ Die(r)

(* SIGTERM and SIGINT end a process that does not handle them yet. *)
Signal(rs) ==
  LET young == {r \in rs : pc[r] = "boot"}
      grown == {r \in rs : Runs(r)} \ young
  IN  /\ pc' = [r \in Recorders |-> IF r \in young THEN "gone" ELSE pc[r]]
      /\ code' = [r \in Recorders |-> IF r \in young THEN "signalled" ELSE code[r]]
      /\ stop' = [r \in Recorders |-> stop[r] \/ r \in grown]

-----------------------------------------------------------------------------
(* The operator.                                                           *)

(* Control-C goes to the launcher and to all its processes. *)
Interrupt ==
  /\ lpc # "done" /\ ~stopRequested
  /\ stopRequested' = TRUE
  /\ Signal(Recorders)
  /\ UNCHANGED <<lpc, launched, asked, awaited, killed, late, result, timed, item, file, released>>

Terminate ==
  /\ lpc # "done" /\ ~stopRequested
  /\ stopRequested' = TRUE
  /\ UNCHANGED <<lpc, launched, asked, awaited, killed, late, result, recorders>>

-----------------------------------------------------------------------------
(* The launcher.                                                           *)

(* Of the recorders not dealt with yet, the first in the dictionary. *)
Following(rs) == CHOOSE r \in rs : TRUE

Launch ==
  /\ lpc = "launch" /\ launched # Recorders
  /\ LET r == Following(Recorders \ launched)
     IN  /\ launched' = launched \union {r}
         /\ pc' = [pc EXCEPT ![r] = "boot"]
  /\ UNCHANGED <<lpc, asked, awaited, killed, stopRequested, late, result, timed, stop, item, file,
                 released, code>>

(* Popen raises: the processes launched so far are stopped. *)
LaunchFails ==
  /\ lpc = "launch" /\ launched # Recorders
  /\ lpc' = "ask" /\ result' = "raised"
  /\ UNCHANGED <<launched, asked, awaited, killed, stopRequested, late, recorders>>

AllLaunched ==
  /\ lpc = "launch" /\ launched = Recorders
  /\ lpc' = "watch"
  /\ UNCHANGED <<launched, asked, awaited, killed, stopRequested, late, result, recorders>>

WatchStopped ==
  /\ lpc = "watch" /\ stopRequested
  /\ lpc' = "ask" /\ result' = "0"
  /\ UNCHANGED <<launched, asked, awaited, killed, stopRequested, late, recorders>>

(* Mutations: a recorder that is gone counts as a good one; one recorder   *)
(* that is gone counts as all.                                             *)
SeenFailingNever == FALSE
SeenExitedFirst  == \E r \in launched : pc[r] = "gone"

SeenFailing == \E r \in launched : Failed(r)
SeenExited  == \A r \in launched : pc[r] = "gone"

(* The processes are polled one by one; a process that ends meanwhile and  *)
(* is not seen is seen in the next round, so that one look at all of them  *)
(* is the same.                                                            *)
WatchFailed ==
  /\ lpc = "watch" /\ ~stopRequested /\ SeenFailing
  /\ lpc' = "ask" /\ result' = "1"
  /\ UNCHANGED <<launched, asked, awaited, killed, stopRequested, late, recorders>>

WatchExited ==
  /\ lpc = "watch" /\ ~stopRequested /\ ~SeenFailing /\ SeenExited
  /\ lpc' = "ask" /\ result' = "0"
  /\ UNCHANGED <<launched, asked, awaited, killed, stopRequested, late, recorders>>

(* Mutation: the recorders are expected to stop when their time is over. *)
AskUnlessTimed(r) == IF timed THEN {} ELSE {r}

Ask(r) == {r}

AskOne ==
  /\ lpc = "ask" /\ asked # launched
  /\ LET r == Following(launched \ asked)
     IN  asked' = asked \union {r} /\ Signal(Ask(r))
  /\ UNCHANGED <<lpc, launched, awaited, killed, stopRequested, late, result, timed, item, file, released>>

EveryoneAsked == asked = launched

AllAsked ==
  /\ lpc = "ask" /\ EveryoneAsked
  /\ lpc' = "await"
  /\ UNCHANGED <<launched, asked, awaited, killed, stopRequested, late, result, recorders>>

(* Five seconds are over. *)
Deadline ==
  /\ lpc = "await" /\ ~late
  /\ late' = TRUE
  /\ UNCHANGED <<lpc, launched, asked, awaited, killed, stopRequested, result, recorders>>

AwaitEnded ==
  /\ lpc = "await" /\ awaited # launched
  /\ LET r == Following(launched \ awaited)
     IN  pc[r] = "gone" /\ awaited' = awaited \union {r}
  /\ UNCHANGED <<lpc, launched, asked, killed, stopRequested, late, result, recorders>>

(* kill() and no second wait. *)
KillLate(r) == killed' = killed \union {r}

AwaitLate ==
  /\ lpc = "await" /\ late /\ awaited # launched
  /\ LET r == Following(launched \ awaited)
     IN  pc[r] # "gone" /\ awaited' = awaited \union {r} /\ KillLate(r)
  /\ UNCHANGED <<lpc, launched, asked, stopRequested, late, result, recorders>>

AllAwaited ==
  /\ lpc = "await" /\ awaited = launched
  /\ lpc' = "done"
  /\ UNCHANGED <<launched, asked, awaited, killed, stopRequested, late, result, recorders>>

LauncherNext ==
  \/ Launch \/ LaunchFails \/ AllLaunched \/ WatchStopped \/ WatchFailed \/ WatchExited
  \/ AskOne \/ AllAsked \/ Deadline \/ AwaitEnded \/ AwaitLate \/ AllAwaited

Next ==
  \/ \E r \in Recorders : RecorderNext(r)
  \/ Interrupt \/ Terminate
  \/ LauncherNext

Spec == Init /\ [][Next]_vars

(* The launcher is scheduled and its clock runs, and SIGKILL takes effect. *)
(* Else nothing is assumed of the recorders: their devices may hang.       *)
Fairness == WF_vars(LauncherNext) /\ \A r \in Recorders : WF_vars(Die(r))

FairSpec == Spec /\ Fairness

-----------------------------------------------------------------------------
TypeOK ==
  /\ lpc \in {"launch", "watch", "ask", "await", "done"}
  /\ launched \subseteq Recorders /\ asked \subseteq launched /\ awaited \subseteq asked
  /\ killed \subseteq awaited
  /\ stopRequested \in BOOLEAN /\ late \in BOOLEAN /\ timed \in BOOLEAN
  /\ result \in {"none", "raised", "0", "1"}
  /\ pc \in [Recorders -> {"none", "boot", "open", "loop", "grab", "write", "close", "cleanup", "gone"}]
  /\ stop \in [Recorders -> BOOLEAN]
  /\ item \in [Recorders -> Nat] /\ file \in [Recorders -> Nat]
  /\ released \in [Recorders -> BOOLEAN]
  /\ code \in [Recorders -> {"none", "ok", "failed", "signalled", "killed"}]

(* Whatever ends the session, a stop, a failure, an exception while it is  *)
(* still launching, no recorder survives the launcher but one that is      *)
(* about to be gone; and one is killed only if it had been asked to stop   *)
(* and did not answer.                                                     *)
NoRecorderLeft ==
  \A r \in Recorders :
    /\ lpc = "done" /\ Runs(r) => r \in killed
    /\ code[r] = "killed" => stop[r] /\ late

(* A session that nobody stopped and that ends well is complete: every     *)
(* recorder ran to its end, all its files are equally long, and its videos *)
(* can be played.                                                          *)
GoodSessionIsComplete ==
  lpc = "done" /\ result = "0" /\ ~stopRequested =>
    \A r \in Recorders : code[r] = "ok" /\ file[r] = 0 /\ timed /\ (r \in Cameras => released[r])

HasRow(r) == item[r] > 0 \/ \E i \in 1 .. file[r] : Files(r)[i] = "row"

(* The rows of a camera, which are there at once, name frames of videos    *)
(* that can be played, however the recorder ended: by itself, because it   *)
(* was asked, or in an exception.  There are two exceptions.  A recorder   *)
(* that is killed leaves rows of videos that are not finished; and so may  *)
(* one of a ZED that fails.                                                *)
RowsNameFinishedVideos ==
  \A r \in Cameras :
    pc[r] = "gone" /\ HasRow(r) =>
      released[r] \/ code[r] = "killed" \/ (r \in Zeds /\ code[r] = "failed")

(* When the operator stops the session or a recorder fails the session     *)
(* ends, even if a recorder never answers, and then no recorder is left.   *)
SessionEnds ==
  (stopRequested \/ \E r \in Recorders : Failed(r)) ~>
    lpc = "done" /\ \A r \in Recorders : ~Runs(r)
=============================================================================
