---------------------------- MODULE TraceRecorder ----------------------------
(***************************************************************************)
(* TraceRecorder of trace_logger.cpp with the threads that use it.  The    *)
(* planner thread and the real-time callback push every n-th sample into a *)
(* ring of their own, without a lock; a writer thread pops the samples and *)
(* writes them to two files.  Run starts the recorder before the others,   *)
(* and stops it when they are gone.                                        *)
(*                                                                         *)
(* A step is one access to an atomic or to a slot of a ring.  A sample is  *)
(* the number of its producer's tick; formatting and errors of the files,  *)
(* which the code ignores, are left out.                                   *)
(***************************************************************************)
EXTENDS Integers, Sequences

CONSTANTS
  PlannerCapacity, RtCapacity,     \* of the queues: 8192 and 32768 in the code
  PlannerDecimation, RtDecimation, \* every n-th tick is traced
  MaxTicks                         \* bound: ticks of each producer

ASSUME TraceAssumption ==
  /\ PlannerCapacity \in Nat \ {0} /\ RtCapacity \in Nat \ {0}
  /\ PlannerDecimation \in Nat \ {0} /\ RtDecimation \in Nat \ {0}
  /\ MaxTicks \in Nat

Producers  == {"planner", "rt"}
Capacity   == [p \in Producers |-> IF p = "rt" THEN RtCapacity ELSE PlannerCapacity]
Decimation == [p \in Producers |-> IF p = "rt" THEN RtDecimation ELSE PlannerDecimation]

VARIABLES
  main,          \* where the thread of Run is
  stop,          \* stop_requested of the bridge
  started,       \* started_
  stopRequested, \* stop_requested_ of the recorder
  pc,            \* where the producers are
  ticks,         \* planner_trace_counter and rt_trace_counter
  ring,          \* values_ of planner_queue_ and rt_queue_
  head, tail,    \* head_ and tail_
  dropped,       \* dropped_planner_ and dropped_rt_
  accepted,      \* history: the samples for which Push returned true
  writer,        \* where the writer thread is
  source,        \* the queue it looks at
  out,           \* the sample it has popped
  rows           \* the rows of the two files

runs     == <<main, stop, started, stopRequested>>
produces == <<pc, ticks, ring, head, dropped, accepted>>
writes   == <<tail, writer, source, out, rows>>
vars     == <<runs, produces, writes>>

NoSample == 0 \* a value-initialised sample

Init ==
  /\ main = "start" /\ stop = FALSE
  /\ started = FALSE /\ stopRequested = FALSE
  /\ pc = [p \in Producers |-> "off"]
  /\ ticks = [p \in Producers |-> 0]
  /\ ring = [p \in Producers |-> [i \in 0 .. Capacity[p] - 1 |-> NoSample]]
  /\ head = [p \in Producers |-> 0] /\ tail = [p \in Producers |-> 0]
  /\ dropped = [p \in Producers |-> 0]
  /\ accepted = [p \in Producers |-> <<>>]
  /\ writer = "off" /\ source = "planner" /\ out = NoSample
  /\ rows = [p \in Producers |-> <<>>]

Slot(p, index) == index % Capacity[p]

-----------------------------------------------------------------------------
(* The thread of Run; control() runs the real-time callback on it. *)

Start ==
  /\ main = "start"
  /\ main' = "started"
  /\ started' = TRUE /\ stopRequested' = FALSE
  /\ writer' = "check"
  /\ UNCHANGED <<stop, produces, tail, source, out, rows>>

StartFails == main = "start" /\ main' = "failed"
              /\ UNCHANGED <<stop, started, stopRequested, produces, writes>>

Launch ==
  /\ main = "started"
  /\ main' = "control"
  /\ pc' = [p \in Producers |-> "idle"]
  /\ UNCHANGED <<stop, started, stopRequested, ticks, ring, head, dropped,
                 accepted, writes>>

RequestStop == ~stop /\ stop' = TRUE
               /\ UNCHANGED <<main, started, stopRequested, produces, writes>>

(* On a stop, or an exception of the robot before or in control(). *)
Leave ==
  /\ main \in {"started", "control"}
  /\ pc["rt"] \in {"off", "idle"}
  /\ main' = "join" /\ stop' = TRUE
  /\ pc' = [pc EXCEPT !["rt"] = "off"]
  /\ UNCHANGED <<started, stopRequested, ticks, ring, head, dropped, accepted, writes>>

RequestTraceStop ==
  /\ main = "join" /\ pc["planner"] = "off"
  /\ main' = "joinWriter"
  /\ stopRequested' = TRUE
  /\ UNCHANGED <<stop, started, produces, writes>>

EndTrace ==
  /\ main = "joinWriter" /\ writer = "ended"
  /\ main' = "done"
  /\ started' = FALSE
  /\ UNCHANGED <<stop, stopRequested, produces, writes>>

Main == Start \/ StartFails \/ Launch \/ Leave \/ RequestTraceStop \/ EndTrace

-----------------------------------------------------------------------------
(* The producers: PushPlanner and PushRt, and Push of the queue. *)

PlannerEnds ==
  /\ pc["planner"] = "idle" /\ stop
  /\ pc' = [pc EXCEPT !["planner"] = "off"]
  /\ UNCHANGED <<runs, ticks, ring, head, dropped, accepted, writes>>

Traced(p) == ticks[p] % Decimation[p] = 0

Full(p) == head[p] - tail[p] >= Capacity[p]

BeginTick(p) ==
  /\ pc[p] = "idle" /\ ticks[p] < MaxTicks
  /\ ticks' = [ticks EXCEPT ![p] = ticks[p] + 1]

Skip(p) ==
  /\ BeginTick(p) /\ ~(Traced(p) /\ started)
  /\ UNCHANGED <<runs, pc, ring, head, dropped, accepted, writes>>

Drop(p) ==
  /\ BeginTick(p) /\ Traced(p) /\ started /\ Full(p)
  /\ dropped' = [dropped EXCEPT ![p] = dropped[p] + 1]
  /\ UNCHANGED <<runs, pc, ring, head, accepted, writes>>

BeginPush(p) ==
  /\ BeginTick(p) /\ Traced(p) /\ started /\ ~Full(p)
  /\ pc' = [pc EXCEPT ![p] = "write"]
  /\ UNCHANGED <<runs, ring, head, dropped, accepted, writes>>

WriteSlot(p) ==
  /\ pc[p] = "write"
  /\ ring' = [ring EXCEPT ![p][Slot(p, head[p])] = ticks[p]]
  /\ pc' = [pc EXCEPT ![p] = "store"]
  /\ UNCHANGED <<runs, ticks, head, dropped, accepted, writes>>

StoreHead(p) ==
  /\ pc[p] = "store"
  /\ head' = [head EXCEPT ![p] = head[p] + 1]
  /\ accepted' = [accepted EXCEPT ![p] = Append(accepted[p], ticks[p])]
  /\ pc' = [pc EXCEPT ![p] = "idle"]
  /\ UNCHANGED <<runs, ticks, ring, dropped, writes>>

Produce(p) == Skip(p) \/ Drop(p) \/ BeginPush(p) \/ WriteSlot(p) \/ StoreHead(p)

-----------------------------------------------------------------------------
(* The writer: WriterLoop, and Empty and Pop of the queues. *)

(* Mutations: the writer looks at the flag of the bridge, or at started_,  *)
(* which Stop clears last.                                                 *)
BridgeStops     == stop
NoLongerStarted == ~started

IsEmpty(p) == head[p] = tail[p]
MustEnd    == stopRequested

CheckStop ==
  /\ writer = "check"
  /\ writer' = IF MustEnd THEN "empty" ELSE "pop"
  /\ source' = "planner"
  /\ UNCHANGED <<runs, produces, tail, out, rows>>

CheckEmpty ==
  /\ writer = "empty" /\ IsEmpty(source)
  /\ source' = "rt"
  /\ writer' = IF source = "rt" THEN "ended" ELSE "empty"
  /\ UNCHANGED <<runs, produces, tail, out, rows>>

CheckNotEmpty ==
  /\ writer = "empty" /\ ~IsEmpty(source)
  /\ writer' = "pop" /\ source' = "planner"
  /\ UNCHANGED <<runs, produces, tail, out, rows>>

PopFails ==
  /\ writer = "pop" /\ IsEmpty(source)
  /\ writer' = IF source = "rt" THEN "check" ELSE "pop"
  /\ source' = "rt"
  /\ UNCHANGED <<runs, produces, tail, out, rows>>

Pop ==
  /\ writer = "pop" /\ ~IsEmpty(source)
  /\ writer' = "copy"
  /\ UNCHANGED <<runs, produces, tail, source, out, rows>>

CopySlot ==
  /\ writer = "copy"
  /\ out' = ring[source][Slot(source, tail[source])]
  /\ writer' = "free"
  /\ UNCHANGED <<runs, produces, tail, source, rows>>

(* Mutation: all that is queued is freed. *)
StoreHeadAsTail ==
  /\ writer = "free"
  /\ tail' = [tail EXCEPT ![source] = head[source]]
  /\ writer' = "row"
  /\ UNCHANGED <<runs, produces, source, out, rows>>

StoreTail ==
  /\ writer = "free"
  /\ tail' = [tail EXCEPT ![source] = tail[source] + 1]
  /\ writer' = "row"
  /\ UNCHANGED <<runs, produces, source, out, rows>>

WriteRow ==
  /\ writer = "row"
  /\ rows' = [rows EXCEPT ![source] = Append(rows[source], out)]
  /\ writer' = "pop"
  /\ UNCHANGED <<runs, produces, tail, source, out>>

WriterLoop == CheckStop \/ CheckEmpty \/ CheckNotEmpty \/ PopFails \/ Pop
              \/ CopySlot \/ StoreTail \/ WriteRow

-----------------------------------------------------------------------------
Next == \/ Main \/ RequestStop \/ PlannerEnds \/ WriterLoop
        \/ \E p \in Producers : Produce(p)

(* Threads are scheduled, and the planner, however many iterations it has  *)
(* still to do, looks at the stop flag before each.                        *)
Fairness == /\ WF_vars(WriterLoop)
            /\ WF_vars(RequestTraceStop \/ EndTrace)
            /\ WF_vars(Produce("planner")) /\ SF_vars(PlannerEnds)

Spec     == Init /\ [][Next]_vars
FairSpec == Spec /\ Fairness

-----------------------------------------------------------------------------
(* The types, and that a queue never holds more than its capacity. *)
TypeOK ==
  /\ main \in {"start", "failed", "started", "control", "join", "joinWriter", "done"}
  /\ stop \in BOOLEAN /\ started \in BOOLEAN /\ stopRequested \in BOOLEAN
  /\ pc \in [Producers -> {"off", "idle", "write", "store"}]
  /\ ticks \in [Producers -> Nat] /\ dropped \in [Producers -> Nat]
  /\ head \in [Producers -> Nat] /\ tail \in [Producers -> Nat]
  /\ \A p \in Producers : head[p] - tail[p] \in 0 .. Capacity[p]
  /\ DOMAIN ring = Producers
  /\ \A p \in Producers : ring[p] \in [0 .. Capacity[p] - 1 -> Nat]
  /\ accepted \in [Producers -> Seq(Nat)] /\ rows \in [Producers -> Seq(Nat)]
  /\ writer \in {"off", "check", "empty", "pop", "copy", "free", "row", "ended"}
  /\ source \in Producers /\ out \in Nat

(* A file holds samples in the order they were taken, none twice, and none *)
(* that was never pushed: the writer never reads a slot that is being      *)
(* written, and never reads one again.                                     *)
RowsInOrder ==
  \A p \in Producers : \A i, j \in DOMAIN rows[p] :
    i < j => rows[p][i] < rows[p][j]

(* When Run reports its counts, every sample due at a tick is in the file  *)
(* or counted as dropped: the writer has drained both queues, and no       *)
(* producer was still at work when it was told to end.                     *)
Due(p) == (ticks[p] + Decimation[p] - 1) \div Decimation[p]

AllAccounted ==
  main = "done" => \A p \in Producers : Len(rows[p]) + dropped[p] = Due(p)

(* The recorder implements a bounded log of each producer's samples. *)
Log == INSTANCE BoundedLog WITH Samples <- 1 .. MaxTicks
ImplementsLog == Log!Spec

(* The end of control leads to the end of the recorder: Stop does not wait *)
(* for ever, however many samples are queued when it is called.            *)
TraceEnds == main = "join" ~> main = "done"
=============================================================================
