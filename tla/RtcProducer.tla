----------------------------- MODULE RtcProducer -----------------------------
(***************************************************************************)
(* Real-time chunking in run_vla_policy.py: RTCActionProducer infers the   *)
(* next chunk of actions on a thread of its own, from the newest           *)
(* observation and what is left of the last chunk, while the main loop     *)
(* pops and sends one action per period.  The operator pauses, re-homes    *)
(* and resumes at any moment, also in the middle of an inference, which    *)
(* nothing can interrupt.                                                  *)
(*                                                                         *)
(* A generation is the time from one call of set_active to the next.  An   *)
(* action is stamped with the generation of the oldest observation that    *)
(* went into it.  ActionQueue is lerobot's; merge replaces what is left by *)
(* the new chunk without the steps that have passed during its inference.  *)
(* The producer polls, so that its wake event only saves time and is left  *)
(* out; an observation is there before the producer is started.            *)
(***************************************************************************)
EXTENDS Integers

CONSTANTS
  Chunk,    \* actions of a chunk
  Elapsed,  \* what an inference may take, in periods
  Horizon,  \* execution_horizon
  Explicit, \* the refill threshold asked for, or 0
  MaxKeys   \* bound: how often the operator presses a key

ASSUME RtcAssumption ==
  /\ Chunk \in Nat \ {0} /\ Elapsed \subseteq Nat
  /\ Horizon \in Nat \ {0} /\ Explicit \in Nat /\ MaxKeys \in Nat

VARIABLES
  \* the main loop
  main,       \* where it is
  paused,     \* operator_paused
  sent,       \* the stamp of the action popped last
  \* shared, most of it under the producer's lock
  active,     \* _active
  generation, \* _generation
  refill,     \* _requested_refill_reason is not None
  busy,       \* _busy
  failed,     \* _last_error_traceback is not None
  stop,       \* _stop
  queue,      \* ActionQueue: how many actions are left, and their stamp
  delay,      \* _current_delay_steps
  \* the producer's thread
  producer,   \* where it is
  base,       \* the generation it infers for
  oldest      \* the stamp of the chunk it infers

loop   == <<main, paused, sent>>
shared == <<active, generation, refill, busy, failed, stop, queue, delay>>
thread == <<producer, base, oldest>>
vars   == <<loop, shared, thread>>

MergeDelay(periods) == IF periods < 1 THEN 1 ELSE periods

(* The first delay is measured, and rounded, like the later ones. *)
Init ==
  /\ main = "keys" /\ paused = FALSE /\ sent = 0
  /\ active = TRUE /\ generation = 0 /\ refill = TRUE /\ busy = FALSE
  /\ failed = FALSE /\ stop = FALSE
  /\ queue = [left |-> 0, stamp |-> 0]
  /\ delay \in {MergeDelay(periods) : periods \in Elapsed}
  /\ producer = "wait" /\ base = 0 /\ oldest = 0

Threshold == IF Explicit > 0 THEN Explicit ELSE delay + Horizon

-----------------------------------------------------------------------------
(* The keys. *)

SetActive(on) ==
  /\ active' = on
  /\ generation' = generation + 1
  /\ queue' = [queue EXCEPT !.left = 0]
  /\ refill' = on
  /\ UNCHANGED <<busy, failed, stop, delay>>

Press == main = "keys" /\ generation < MaxKeys

PressPause ==
  /\ Press
  /\ paused' = TRUE
  /\ SetActive(FALSE)
  /\ UNCHANGED <<main, sent, thread>>

PressRehome ==
  /\ Press
  /\ paused' = TRUE
  /\ SetActive(FALSE)
  /\ main' = "waitIdle"
  /\ UNCHANGED <<sent, thread>>

PressResume ==
  /\ Press
  /\ paused' = FALSE
  /\ SetActive(TRUE)
  /\ UNCHANGED <<main, sent, thread>>

(* Mutation: once it is told to pause, the producer counts as idle. *)
Deactivated == ~active

Idle == ~busy

FoundIdle ==
  /\ main = "waitIdle" /\ Idle
  /\ main' = "reset"
  /\ UNCHANGED <<paused, sent, shared, thread>>

(* After two seconds policy.reset() is skipped. *)
WaitTimesOut ==
  /\ main = "waitIdle" /\ ~Idle
  /\ main' = "keys"
  /\ UNCHANGED <<paused, sent, shared, thread>>

PolicyIsReset ==
  /\ main = "reset"
  /\ main' = "keys"
  /\ UNCHANGED <<paused, sent, shared, thread>>

(* `q', an interrupt, or an exception of the main loop. *)
Quit ==
  /\ main \notin {"join", "ended"}
  /\ main' = "join"
  /\ stop' = TRUE
  /\ UNCHANGED <<paused, sent, active, generation, refill, busy, failed, queue,
                 delay, thread>>

Join ==
  /\ main = "join" /\ producer = "ended"
  /\ main' = "ended"
  /\ UNCHANGED <<paused, sent, shared, thread>>

Operator == PressPause \/ PressRehome \/ PressResume \/ Quit

-----------------------------------------------------------------------------
(* One period of the main loop; a paused one sends the observed joints. *)

(* Mutation: the producer's error is not looked at. *)
NeverRaise == FALSE

MustRaise == failed

BeginPeriod ==
  /\ main = "keys" /\ ~paused /\ ~MustRaise
  /\ main' = "pop"
  /\ UNCHANGED <<paused, sent, shared, thread>>

RaiseIfFailed ==
  /\ main = "keys" /\ ~paused /\ MustRaise
  /\ main' = "join"
  /\ stop' = TRUE
  /\ UNCHANGED <<paused, sent, active, generation, refill, busy, failed, queue,
                 delay, thread>>

PopAction ==
  /\ main = "pop" /\ queue.left > 0
  /\ queue' = [queue EXCEPT !.left = queue.left - 1]
  /\ sent' = queue.stamp
  /\ main' = "check"
  /\ UNCHANGED <<paused, active, generation, refill, busy, failed, stop, delay, thread>>

PopNothing ==
  /\ main = "pop" /\ queue.left = 0
  /\ main' = "request"
  /\ UNCHANGED <<paused, sent, shared, thread>>

CheckLow ==
  /\ main = "check"
  /\ main' = IF queue.left <= Threshold THEN "request" ELSE "keys"
  /\ UNCHANGED <<paused, sent, shared, thread>>

(* request_inference and notify_queue_underrun. *)
RequestInference ==
  /\ main = "request"
  /\ refill' = (refill \/ active)
  /\ main' = "keys"
  /\ UNCHANGED <<paused, sent, active, generation, busy, failed, stop, queue, delay,
                 thread>>

MainLoop == \/ FoundIdle \/ WaitTimesOut \/ PolicyIsReset \/ Join
            \/ BeginPeriod \/ RaiseIfFailed \/ PopAction \/ PopNothing
            \/ CheckLow \/ RequestInference

-----------------------------------------------------------------------------
(* The producer's loop. *)

(* Mutations: the stop flag counts only when paused; a paused producer     *)
(* leaves its loop; a chunk is merged whenever the producer is active.     *)
StopsIfPaused    == stop /\ ~active
WhenInactiveEnds == "ended"
MergeIfActive    == active /\ ~stop

MustEnd      == stop
WhenInactive == "wait"

Wake ==
  /\ producer = "wait"
  /\ producer' = IF MustEnd THEN "ended" ELSE "look"
  /\ UNCHANGED <<loop, shared, base, oldest>>

Wanted == refill \/ queue.left <= Threshold

LookInactive ==
  /\ producer = "look" /\ ~active
  /\ producer' = WhenInactive
  /\ UNCHANGED <<loop, shared, base, oldest>>

LookUnwanted ==
  /\ producer = "look" /\ active /\ ~Wanted
  /\ producer' = "wait"
  /\ UNCHANGED <<loop, shared, base, oldest>>

BeginInference ==
  /\ producer = "look" /\ active /\ Wanted
  /\ producer' = "infer"
  /\ base' = generation
  /\ oldest' = IF queue.left > 0 THEN queue.stamp ELSE generation
  /\ refill' = FALSE
  /\ busy' = TRUE
  /\ UNCHANGED <<loop, active, generation, failed, stop, queue, delay>>

EndInference ==
  /\ producer = "infer"
  /\ producer' = "merge"
  /\ UNCHANGED <<loop, shared, base, oldest>>

MayMerge            == active /\ generation = base /\ ~stop
MergedLength(steps) == IF steps < Chunk THEN Chunk - steps ELSE 0

Merge ==
  /\ producer = "merge" /\ MayMerge
  /\ \E periods \in Elapsed :
       /\ delay' = MergeDelay(periods)
       /\ queue' = [left |-> MergedLength(MergeDelay(periods)), stamp |-> oldest]
  /\ refill' = FALSE
  /\ producer' = "finally"
  /\ UNCHANGED <<loop, active, generation, busy, failed, stop, base, oldest>>

SkipMerge ==
  /\ producer = "merge" /\ ~MayMerge
  /\ producer' = "finally"
  /\ UNCHANGED <<loop, shared, base, oldest>>

InferenceFails ==
  /\ producer = "infer"
  /\ failed' = TRUE
  /\ producer' = "failed"
  /\ UNCHANGED <<loop, active, generation, refill, busy, stop, queue, delay, base, oldest>>

StopFailed ==
  /\ producer = "failed"
  /\ stop' = TRUE
  /\ producer' = "finally"
  /\ UNCHANGED <<loop, active, generation, refill, busy, failed, queue, delay, base, oldest>>

Finally ==
  /\ producer = "finally"
  /\ busy' = FALSE
  /\ producer' = "wait"
  /\ UNCHANGED <<loop, active, generation, refill, failed, stop, queue, delay, base, oldest>>

Producer == \/ Wake \/ LookInactive \/ LookUnwanted \/ BeginInference \/ EndInference
            \/ Merge \/ SkipMerge \/ InferenceFails \/ StopFailed \/ Finally

-----------------------------------------------------------------------------
Next == Operator \/ MainLoop \/ Producer

(* Both threads are scheduled and an inference ends, one way or the other. *)
Fairness == WF_vars(MainLoop) /\ WF_vars(Producer)

Spec     == Init /\ [][Next]_vars
FairSpec == Spec /\ Fairness

-----------------------------------------------------------------------------
TypeOK ==
  /\ main \in {"keys", "waitIdle", "reset", "pop", "check", "request", "join", "ended"}
  /\ paused \in BOOLEAN /\ active \in BOOLEAN /\ refill \in BOOLEAN
  /\ busy \in BOOLEAN /\ failed \in BOOLEAN /\ stop \in BOOLEAN
  /\ sent \in Nat /\ generation \in Nat /\ base \in Nat /\ oldest \in Nat
  /\ queue \in [left : 0 .. Chunk, stamp : Nat]
  /\ delay \in Nat \ {0}
  /\ producer \in {"wait", "look", "infer", "merge", "failed", "finally", "ended"}

(* An action goes to the robot only if all that went into it was observed  *)
(* after the operator's last key: neither a chunk whose inference a pause  *)
(* or a re-home overtook, nor what such a chunk was blended with.          *)
NoOldAction == main = "check" => sent = generation

(* The policy is not reset in the middle of an inference of another thread.*)
NoResetDuringInference == main = "reset" => producer \notin {"infer", "merge"}

(* After a resume a chunk of the new generation is inferred and merged.    *)
Served(g) == generation # g \/ failed \/ stop \/ (producer = "finally" /\ base = g)

ResumeIsServed ==
  \A g \in 0 .. MaxKeys : active /\ generation = g ~> Served(g)

(* A failed inference ends the program, unless the operator has paused it. *)
FailureIsNoticed == producer = "failed" ~> main = "ended" \/ paused

(* The end of the main loop leads to the end of the program: the producer  *)
(* is joined.                                                              *)
QuitEnds == main = "join" ~> main = "ended"

(* Neither a failed inference nor a quit leaves the program hanging.       *)
ProgramEnds == FailureIsNoticed /\ QuitEnds
=============================================================================
