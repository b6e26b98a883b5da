-------------------------- MODULE RtcProducerProofs --------------------------
(***************************************************************************)
(* Proofs about real-time chunking, for every chunk length, threshold and  *)
(* inference time: no action of an older generation is sent, and the       *)
(* policy is not reset in the middle of an inference.                      *)
(***************************************************************************)
EXTENDS RtcProducer, TLAPS

(* What is queued, and what was popped last, is of this generation. *)
QueueInv ==
  /\ queue.left > 0 => queue.stamp = generation
  /\ main = "check" => sent = generation

(* A chunk is as old as the generation it is inferred for, unless that is  *)
(* over; the producer is busy from the inference to its end.               *)
InferenceInv ==
  /\ producer \in {"infer", "merge"} => (base = generation => oldest = generation)
  /\ producer \in {"infer", "merge"} => base <= generation
  /\ busy <=> producer \in {"infer", "merge", "failed", "finally"}

(* From the key of a re-home to the end of the reset nothing makes the     *)
(* producer active, so that an idle one stays idle.                        *)
ResetInv ==
  /\ main \in {"waitIdle", "reset"} => ~active
  /\ main = "reset" => producer \notin {"infer", "merge"}

IInv == TypeOK /\ QueueInv /\ InferenceInv /\ ResetInv

-----------------------------------------------------------------------------
LEMMA DelayIsPositive == \A periods \in Elapsed : MergeDelay(periods) \in Nat \ {0}
  BY RtcAssumption DEF MergeDelay

LEMMA InitIInv == Init => IInv
  <1> SUFFICES ASSUME Init PROVE IInv
    OBVIOUS
  <1>1. /\ paused \in BOOLEAN /\ active \in BOOLEAN /\ refill \in BOOLEAN
        /\ busy \in BOOLEAN /\ failed \in BOOLEAN /\ stop \in BOOLEAN
    BY Zenon DEF Init
  <1>2. ~busy /\ main = "keys" /\ producer = "wait" /\ sent = 0 /\ generation = 0
        /\ base = 0 /\ oldest = 0 /\ queue = [left |-> 0, stamp |-> 0]
    BY Zenon DEF Init
  <1>3. delay \in Nat \ {0}
    BY DelayIsPositive DEF Init
  <1> QED
    BY <1>1, <1>2, <1>3, RtcAssumption DEF IInv, TypeOK, QueueInv, InferenceInv, ResetInv

(* The keys keep the invariant: a new generation starts with no queue. *)
LEMMA OperatorStep == IInv /\ Operator => IInv'
  <1> SUFFICES ASSUME IInv, Operator PROVE IInv'
    OBVIOUS
  <1> USE RtcAssumption DEF IInv, TypeOK, QueueInv, InferenceInv, ResetInv, thread, Press,
          SetActive
  <1>1. CASE PressPause
    <2>1. paused' \in BOOLEAN /\ active' \in BOOLEAN /\ ~active' /\ refill' \in BOOLEAN
      BY <1>1, Zenon DEF PressPause
    <2> QED BY <1>1, <2>1 DEF PressPause
  <1>2. CASE PressRehome
    <2>1. paused' \in BOOLEAN /\ active' \in BOOLEAN /\ ~active' /\ refill' \in BOOLEAN
      BY <1>2, Zenon DEF PressRehome
    <2> QED BY <1>2, <2>1 DEF PressRehome
  <1>3. CASE PressResume
    <2>1. paused' \in BOOLEAN /\ active' \in BOOLEAN /\ refill' \in BOOLEAN
      BY <1>3, Zenon DEF PressResume
    <2> QED BY <1>3, <2>1 DEF PressResume
  <1>4. CASE Quit
    BY <1>4 DEF Quit
  <1> QED BY <1>1, <1>2, <1>3, <1>4 DEF Operator

(* The main loop keeps the invariant. *)
LEMMA MainLoopStep == IInv /\ MainLoop => IInv'
  <1> SUFFICES ASSUME IInv, MainLoop PROVE IInv'
    OBVIOUS
  <1> USE RtcAssumption DEF IInv, TypeOK, QueueInv, InferenceInv, ResetInv, shared, thread
  <1>1. CASE FoundIdle \/ WaitTimesOut \/ PolicyIsReset \/ Join
    BY <1>1 DEF FoundIdle, WaitTimesOut, PolicyIsReset, Join, Idle
  <1>2. CASE BeginPeriod
    BY <1>2 DEF BeginPeriod
  <1>6. CASE RaiseIfFailed
    BY <1>6 DEF RaiseIfFailed
  <1>3. CASE PopAction
    BY <1>3 DEF PopAction
  <1>4. CASE PopNothing \/ CheckLow
    BY <1>4 DEF PopNothing, CheckLow
  <1>5. CASE RequestInference
    BY <1>5 DEF RequestInference
  <1> QED BY <1>1, <1>2, <1>3, <1>4, <1>5, <1>6 DEF MainLoop

(* The producer keeps the invariant. *)
LEMMA ProducerStep == IInv /\ Producer => IInv'
  <1> SUFFICES ASSUME IInv, Producer PROVE IInv'
    OBVIOUS
  <1> USE RtcAssumption DEF IInv, TypeOK, QueueInv, InferenceInv, ResetInv, loop, shared
  <1>1. CASE Wake \/ LookInactive \/ LookUnwanted
    BY <1>1 DEF Wake, LookInactive, LookUnwanted, WhenInactive
  <1>2. CASE BeginInference
    <2>1. busy' \in BOOLEAN /\ busy' /\ refill' \in BOOLEAN
      BY <1>2, Zenon DEF BeginInference
    <2> QED BY <1>2, <2>1 DEF BeginInference
  <1>3. CASE EndInference \/ SkipMerge
    BY <1>3 DEF EndInference, SkipMerge
  <1>4. CASE Merge
    <2>1. refill' \in BOOLEAN
      BY <1>4, Zenon DEF Merge
    <2>2. PICK periods \in Elapsed :
            /\ delay' = MergeDelay(periods)
            /\ queue' = [left |-> MergedLength(MergeDelay(periods)), stamp |-> oldest]
      BY <1>4 DEF Merge
    <2>3. delay' \in Nat \ {0}
      BY <2>2, DelayIsPositive
    <2>4. queue' \in [left : 0 .. Chunk, stamp : Nat] /\ queue'.stamp = oldest
      BY <2>2, DelayIsPositive DEF MergedLength
    <2>5. oldest = generation
      BY <1>4 DEF Merge, MayMerge
    <2> QED BY <1>4, <2>1, <2>3, <2>4, <2>5 DEF Merge
  <1>5. CASE InferenceFails
    BY <1>5 DEF InferenceFails
  <1>6. CASE StopFailed
    BY <1>6 DEF StopFailed
  <1>7. CASE Finally
    BY <1>7 DEF Finally
  <1> QED BY <1>1, <1>2, <1>3, <1>4, <1>5, <1>6, <1>7 DEF Producer

(* The invariant holds in every reachable state. *)
THEOREM Invariance == Spec => []IInv
  <1>1. IInv /\ [Next]_vars => IInv'
    <2>1. IInv /\ UNCHANGED vars => IInv'
      BY DEF IInv, TypeOK, QueueInv, InferenceInv, ResetInv, vars, loop, shared, thread
    <2> QED BY <2>1, OperatorStep, MainLoopStep, ProducerStep DEF Next
  <1> QED BY InitIInv, <1>1, PTL DEF Spec

(* Every field has its type; the merge delay is never zero. *)
THEOREM TypeCorrect == Spec => []TypeOK
  BY Invariance, PTL DEF IInv

(* No action of an older generation is sent. *)
THEOREM OnlyNewActions == Spec => []NoOldAction
  <1>1. IInv => NoOldAction
    BY DEF IInv, QueueInv, NoOldAction
  <1> QED BY <1>1, Invariance, PTL

(* The policy is reset only while no other thread is inferring with it. *)
THEOREM ResetIsExclusive == Spec => []NoResetDuringInference
  <1>1. IInv => NoResetDuringInference
    BY DEF IInv, ResetInv, NoResetDuringInference
  <1> QED BY <1>1, Invariance, PTL
=============================================================================
