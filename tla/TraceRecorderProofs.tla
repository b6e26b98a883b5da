------------------------- MODULE TraceRecorderProofs -------------------------
(***************************************************************************)
(* Proofs about the trace recorder for every capacity and decimation: its  *)
(* files hold the samples in order, all that were due are written or       *)
(* counted when it has stopped, and it implements a bounded log.           *)
(***************************************************************************)
EXTENDS TraceRecorder, TLAPS

Pushing(p) == pc[p] \in {"write", "store"}

(* The threads follow each other: the recorder is started before the       *)
(* producers and stopped after them, and the writer is over when both      *)
(* queues were seen empty after that.                                      *)
PhaseInv ==
  /\ started <=> main \in {"started", "control", "join", "joinWriter"}
  /\ stopRequested <=> main \in {"joinWriter", "done"}
  /\ writer = "off" <=> main \in {"start", "failed"}
  /\ main = "done" => writer = "ended"
  /\ \A p \in Producers : pc[p] # "off" => main \in {"control", "join"}
  /\ main = "join" => pc["rt"] = "off"
  /\ writer \in {"empty", "ended"} => stopRequested
  /\ writer = "empty" /\ source = "rt" => IsEmpty("planner")
  /\ writer = "ended" => \A p \in Producers : IsEmpty(p)

(* The ring holds the accepted samples that are not popped. *)
RingInv(p) ==
  /\ Len(accepted[p]) = head[p]
  /\ Pushing(p) => head[p] - tail[p] < Capacity[p]
  /\ pc[p] = "store" => ring[p][Slot(p, head[p])] = ticks[p]
  /\ \A k \in tail[p] .. head[p] - 1 : ring[p][Slot(p, k)] = accepted[p][k + 1]

(* The rows are the popped samples, but for the one in the writer's hand.  *)
RowInv(p) ==
  /\ Len(rows[p]) = tail[p] - (IF writer = "row" /\ source = p THEN 1 ELSE 0)
  /\ \A i \in 1 .. Len(rows[p]) : rows[p][i] = accepted[p][i]
  /\ source = p =>
       /\ writer \in {"copy", "free"} => tail[p] < head[p]
       /\ writer = "free" => out = accepted[p][tail[p] + 1]
       /\ writer = "row" => tail[p] > 0 /\ out = accepted[p][tail[p]]

(* Samples are accepted in the order of time. *)
TimeInv(p) ==
  /\ ticks[p] <= MaxTicks
  /\ Pushing(p) => ticks[p] > 0
  /\ \A i \in 1 .. head[p] :
       /\ accepted[p][i] \in 1 .. ticks[p]
       /\ Pushing(p) => accepted[p][i] < ticks[p]
  /\ \A i, j \in 1 .. head[p] : i < j => accepted[p][i] < accepted[p][j]

(* A sample that was due is accepted, dropped or being pushed. *)
CountInv(p) == head[p] + dropped[p] + (IF Pushing(p) THEN 1 ELSE 0) = Due(p)

IInv ==
  /\ TypeOK /\ PhaseInv
  /\ \A p \in Producers : RingInv(p) /\ RowInv(p) /\ TimeInv(p) /\ CountInv(p)

-----------------------------------------------------------------------------
(* Division. *)

LEMMA Remainder ==
  ASSUME NEW a \in Nat, NEW c \in Nat \ {0}
  PROVE  a % c = a - c * (a \div c)
  BY SMT

LEMMA NextMultiple ==
  ASSUME NEW c \in Nat \ {0}, NEW x \in Int, NEW y \in Int, x < y
  PROVE  c * x + c <= c * y
  BY SMT

(* Indices that are less than the capacity apart have different slots. *)
LEMMA DistinctSlots ==
  ASSUME NEW a \in Nat, NEW b \in Nat, NEW c \in Nat \ {0}, a < b, b - a < c
  PROVE  a % c # b % c
  <1> DEFINE x == a \div c
             y == b \div c
  <1>1. x \in Int /\ y \in Int /\ a % c \in Int
    OBVIOUS
  <1>2. a % c = a - c * x /\ b % c = b - c * y
    BY Remainder
  <1> SUFFICES ASSUME a % c = b % c PROVE FALSE
    OBVIOUS
  <1>3. c * x \in Int /\ c * y \in Int
    BY <1>1
  <1> HIDE DEF x, y
  <1>4. CASE x < y
    BY <1>1, <1>2, <1>3, <1>4, NextMultiple
  <1>5. CASE y < x
    BY <1>1, <1>2, <1>3, <1>5, NextMultiple
  <1>6. CASE x = y
    BY <1>1, <1>2, <1>3, <1>6
  <1> QED BY <1>1, <1>4, <1>5, <1>6

(* Another sample becomes due at the ticks that are traced. *)
LEMMA DueStep ==
  ASSUME NEW t \in Nat, NEW d \in Nat \ {0}
  PROVE  (t + 1 + d - 1) \div d = (t + d - 1) \div d + (IF t % d = 0 THEN 1 ELSE 0)
  BY SMT

LEMMA NoneDue == ASSUME NEW d \in Nat \ {0} PROVE (0 + d - 1) \div d = 0
  BY SMT

-----------------------------------------------------------------------------
(* The queues. *)

LEMMA QueueFacts ==
  ASSUME NEW p \in Producers
  PROVE  /\ Capacity[p] \in Nat \ {0} /\ Decimation[p] \in Nat \ {0}
         /\ \A k \in Nat : Slot(p, k) \in 0 .. Capacity[p] - 1
         /\ \A a, b \in Nat : a < b /\ b - a < Capacity[p] => Slot(p, a) # Slot(p, b)
  <1>1. Capacity[p] \in Nat \ {0} /\ Decimation[p] \in Nat \ {0}
    BY TraceAssumption DEF Producers, Capacity, Decimation
  <1>2. \A k \in Nat : Slot(p, k) \in 0 .. Capacity[p] - 1
    BY <1>1 DEF Slot
  <1>3. \A a, b \in Nat : a < b /\ b - a < Capacity[p] => Slot(p, a) # Slot(p, b)
    BY <1>1, DistinctSlots DEF Slot
  <1> QED BY <1>1, <1>2, <1>3

LEMMA InitIInv == Init => IInv
  <1> SUFFICES ASSUME Init PROVE IInv
    OBVIOUS
  <1> USE DEF Init
  <1>1. TypeOK
    <2>1. \A p \in Producers : /\ head[p] - tail[p] \in 0 .. Capacity[p]
                              /\ ring[p] \in [0 .. Capacity[p] - 1 -> Nat]
      BY QueueFacts DEF NoSample
    <2>2. stop \in BOOLEAN /\ started \in BOOLEAN /\ stopRequested \in BOOLEAN
      BY Zenon
    <2>3. /\ main = "start" /\ writer = "off" /\ source \in Producers /\ out \in Nat
          /\ pc \in [Producers -> {"off", "idle", "write", "store"}]
      BY DEF Producers, NoSample
    <2>4. /\ ticks \in [Producers -> Nat] /\ dropped \in [Producers -> Nat]
          /\ head \in [Producers -> Nat] /\ tail \in [Producers -> Nat]
          /\ accepted \in [Producers -> Seq(Nat)] /\ rows \in [Producers -> Seq(Nat)]
          /\ DOMAIN ring = Producers
      OBVIOUS
    <2> HIDE DEF Init
    <2> QED BY <2>1, <2>2, <2>3, <2>4 DEF TypeOK
  <1>2. PhaseInv
    BY DEF PhaseInv
  <1>3. ASSUME NEW p \in Producers
        PROVE  RingInv(p) /\ RowInv(p) /\ TimeInv(p) /\ CountInv(p)
    <2>1. RingInv(p)
      BY DEF RingInv, Pushing
    <2>2. RowInv(p)
      BY DEF RowInv
    <2>3. TimeInv(p)
      BY TraceAssumption DEF TimeInv, Pushing
    <2>4. CountInv(p)
      BY QueueFacts, NoneDue DEF CountInv, Due, Pushing
    <2> QED BY <2>1, <2>2, <2>3, <2>4
  <1> QED BY <1>1, <1>2, <1>3 DEF IInv

-----------------------------------------------------------------------------
(* The thread of Run, and the planner's end. *)

LEMMA RunStep == IInv /\ (Main \/ RequestStop \/ PlannerEnds) => IInv'
  <1> SUFFICES ASSUME IInv, Main \/ RequestStop \/ PlannerEnds PROVE IInv'
    OBVIOUS
  <1> USE DEF runs, produces, writes
  <1>1. /\ UNCHANGED <<ticks, ring, head, dropped, accepted, tail, source, out, rows>>
        /\ pc' \in [Producers -> {"off", "idle", "write", "store"}]
        /\ \A p \in Producers : pc'[p] = pc[p] \/ (~Pushing(p) /\ pc'[p] \in {"off", "idle"})
        /\ writer' = writer \/ (writer = "off" /\ writer' = "check")
    <2>0. /\ pc \in [Producers -> {"off", "idle", "write", "store"}]
          /\ main = "start" => writer = "off"
          /\ main = "started" => \A p \in Producers : pc[p] = "off"
      BY DEF IInv, TypeOK, PhaseInv
    <2>1. UNCHANGED <<ticks, ring, head, dropped, accepted, tail, source, out, rows>>
      BY DEF Main, Start, StartFails, Launch, RequestStop, Leave, RequestTraceStop, EndTrace,
             PlannerEnds
    <2>2. writer' = writer \/ (writer = "off" /\ writer' = "check")
      BY <2>0 DEF Main, Start, StartFails, Launch, RequestStop, Leave, RequestTraceStop,
             EndTrace, PlannerEnds
    <2>3. \/ pc' = pc
          \/ pc' = [p \in Producers |-> "idle"] /\ \A p \in Producers : pc[p] = "off"
          \/ pc' = [pc EXCEPT !["rt"] = "off"] /\ pc["rt"] \in {"off", "idle"}
          \/ pc' = [pc EXCEPT !["planner"] = "off"] /\ pc["planner"] = "idle"
      BY <2>0, Zenon DEF Main, Start, StartFails, Launch, RequestStop, Leave, RequestTraceStop,
             EndTrace, PlannerEnds
    <2>4. /\ pc' \in [Producers -> {"off", "idle", "write", "store"}]
          /\ \A p \in Producers : pc'[p] = pc[p] \/ (~Pushing(p) /\ pc'[p] \in {"off", "idle"})
      BY <2>0, <2>3 DEF Producers, Pushing
    <2> QED BY <2>1, <2>2, <2>4
  <1>2. TypeOK' /\ PhaseInv'
    <2>1. TypeOK'
      <3>1. /\ main' \in {"start", "failed", "started", "control", "join", "joinWriter", "done"}
            /\ stop' \in BOOLEAN /\ started' \in BOOLEAN /\ stopRequested' \in BOOLEAN
        BY DEF IInv, TypeOK, Main, Start, StartFails, Launch, RequestStop, Leave,
               RequestTraceStop, EndTrace, PlannerEnds
      <3> QED BY <1>1, <3>1 DEF IInv, TypeOK
    <2>2. CASE Start
      BY <2>2 DEF IInv, TypeOK, PhaseInv, Start, IsEmpty
    <2>3. CASE StartFails
      BY <2>3 DEF IInv, TypeOK, PhaseInv, StartFails, IsEmpty
    <2>4. CASE Launch
      BY <2>4 DEF IInv, TypeOK, PhaseInv, Launch, IsEmpty
    <2>5. CASE RequestStop
      BY <2>5 DEF IInv, TypeOK, PhaseInv, RequestStop, IsEmpty
    <2>6. CASE Leave
      BY <2>6 DEF IInv, TypeOK, PhaseInv, Leave, IsEmpty, Producers
    <2>7. CASE RequestTraceStop
      BY <2>7 DEF IInv, TypeOK, PhaseInv, RequestTraceStop, IsEmpty, Producers
    <2>8. CASE EndTrace
      BY <2>8 DEF IInv, TypeOK, PhaseInv, EndTrace, IsEmpty
    <2>9. CASE PlannerEnds
      BY <2>9 DEF IInv, TypeOK, PhaseInv, PlannerEnds, IsEmpty, Producers
    <2> QED BY <2>1, <2>2, <2>3, <2>4, <2>5, <2>6, <2>7, <2>8, <2>9 DEF Main
  <1>3. ASSUME NEW p \in Producers
        PROVE  RingInv(p)' /\ RowInv(p)' /\ TimeInv(p)' /\ CountInv(p)'
    <2>1. RingInv(p) /\ RowInv(p) /\ TimeInv(p) /\ CountInv(p)
      BY DEF IInv
    <2>2. Pushing(p)' = Pushing(p) /\ (pc'[p] = "store" => pc[p] = "store")
      BY <1>1 DEF Pushing
    <2>3. RingInv(p)'
      BY <1>1, <2>1, <2>2 DEF RingInv, Slot
    <2>4. RowInv(p)'
      BY <1>1, <2>1 DEF RowInv
    <2>5. TimeInv(p)'
      BY <1>1, <2>1, <2>2 DEF TimeInv
    <2>6. CountInv(p)'
      BY <1>1, <2>1, <2>2 DEF CountInv, Due
    <2> QED BY <2>3, <2>4, <2>5, <2>6
  <1> QED BY <1>2, <1>3 DEF IInv

-----------------------------------------------------------------------------
(* The writer. *)

LEMMA WriterStep == IInv /\ WriterLoop => IInv'
  <1> SUFFICES ASSUME IInv, WriterLoop PROVE IInv'
    OBVIOUS
  <1> USE DEF runs, produces, writes
  <1>1. UNCHANGED <<main, stop, started, stopRequested, pc, ticks, ring, head, dropped,
                    accepted>>
    BY DEF WriterLoop, CheckStop, CheckEmpty, CheckNotEmpty, PopFails, Pop, CopySlot,
           StoreTail, WriteRow
  <1>2. source \in Producers /\ tail[source] \in Nat /\ head[source] \in Nat
    BY DEF IInv, TypeOK
  <1>3. TypeOK' /\ PhaseInv' /\ \A p \in Producers : RingInv(p)' /\ RowInv(p)'
    <2>1. CASE CheckStop \/ CheckEmpty \/ CheckNotEmpty \/ PopFails \/ Pop
      <3>1. UNCHANGED <<tail, out, rows>> /\ source' \in Producers
        BY <2>1 DEF CheckStop, CheckEmpty, CheckNotEmpty, PopFails, Pop, Producers, IInv, TypeOK
      <3>2. /\ writer' \in {"empty", "pop", "ended", "check", "copy"}
            /\ writer # "row"
        BY <2>1 DEF CheckStop, CheckEmpty, CheckNotEmpty, PopFails, Pop
      <3> writer' = "copy" => tail[source] < head[source] /\ source' = source
        <4> SUFFICES ASSUME writer' = "copy" PROVE tail[source] < head[source] /\ source' = source
          OBVIOUS
        <4>1. head[source] # tail[source] /\ source' = source
          BY <2>1 DEF CheckStop, CheckEmpty, CheckNotEmpty, PopFails, Pop, IsEmpty
        <4>2. head[source] - tail[source] \in 0 .. Capacity[source] /\ Capacity[source] \in Nat
          BY <1>2, QueueFacts DEF IInv, TypeOK
        <4> QED BY <1>2, <4>1, <4>2
      <3>3. TypeOK'
        BY <1>1, <3>1, <3>2 DEF IInv, TypeOK
      <3>4. PhaseInv'
        BY <1>1, <2>1, <3>1 DEF CheckStop, CheckEmpty, CheckNotEmpty, PopFails, Pop, IInv, TypeOK,
           PhaseInv, IsEmpty, MustEnd, Producers
      <3>5. ASSUME NEW p \in Producers PROVE RingInv(p)' /\ RowInv(p)'
        BY <1>1, <3>1, <3>2 DEF IInv, RingInv, RowInv, Slot, Pushing
      <3> QED BY <3>3, <3>4, <3>5
    <2>2. CASE CopySlot
      <3>1. /\ writer = "copy" /\ writer' = "free"
            /\ out' = ring[source][Slot(source, tail[source])]
            /\ UNCHANGED <<tail, source, rows>>
        BY <2>2 DEF CopySlot
      <3>2. tail[source] < head[source]
        BY <1>2, <3>1 DEF IInv, RowInv
      <3>3. out' = accepted[source][tail[source] + 1]
        BY <1>2, <3>1, <3>2 DEF IInv, RingInv
      <3>4. out' \in Nat
        BY <1>2, <3>1, QueueFacts DEF IInv, TypeOK
      <3>5. TypeOK' /\ PhaseInv'
        BY <1>1, <3>1, <3>4 DEF IInv, TypeOK, PhaseInv, IsEmpty
      <3>6. ASSUME NEW p \in Producers PROVE RingInv(p)' /\ RowInv(p)'
        BY <1>1, <3>1, <3>2, <3>3 DEF IInv, RingInv, RowInv, Slot, Pushing
      <3> QED BY <3>5, <3>6
    <2>3. CASE StoreTail
      <3>1. /\ writer = "free" /\ writer' = "row"
            /\ tail' = [tail EXCEPT ![source] = tail[source] + 1]
            /\ UNCHANGED <<source, out, rows>>
        BY <2>3 DEF StoreTail
      <3>2. tail[source] < head[source] /\ out = accepted[source][tail[source] + 1]
        BY <1>2, <3>1 DEF IInv, RowInv
      <3>3. /\ tail' \in [Producers -> Nat]
            /\ tail'[source] = tail[source] + 1
            /\ \A p \in Producers : p # source => tail'[p] = tail[p]
        BY <1>2, <3>1 DEF IInv, TypeOK
      <3>4. TypeOK'
        <4>1. \A p \in Producers : head'[p] - tail'[p] \in 0 .. Capacity[p]
          <5> TAKE p \in Producers
          <5>1. /\ head[p] - tail[p] \in 0 .. Capacity[p] /\ Capacity[p] \in Nat
                /\ head'[p] = head[p] /\ head[p] \in Nat /\ tail[p] \in Nat
            BY <1>1, QueueFacts DEF IInv, TypeOK
          <5>2. CASE p = source
            BY <3>2, <3>3, <5>1, <5>2
          <5>3. CASE p # source
            BY <3>3, <5>1, <5>3
          <5> QED BY <5>2, <5>3
        <4> QED BY <1>1, <3>1, <3>3, <4>1 DEF IInv, TypeOK
      <3>5. PhaseInv'
        BY <1>1, <3>1 DEF IInv, TypeOK, PhaseInv
      <3>6. ASSUME NEW p \in Producers PROVE RingInv(p)'
        <4>1. RingInv(p) /\ tail[p] \in Nat /\ tail'[p] \in Nat /\ head[p] \in Nat
              /\ Capacity[p] \in Nat
          BY <3>3, QueueFacts DEF IInv, TypeOK
        <4>2. CASE p = source
          <5>1. tail'[p] = tail[p] + 1
            BY <3>3, <4>2
          <5> QED BY <1>1, <4>1, <5>1 DEF RingInv, Slot, Pushing
        <4>3. CASE p # source
          <5>1. tail'[p] = tail[p]
            BY <3>3, <4>3
          <5> QED BY <1>1, <4>1, <5>1 DEF RingInv, Slot, Pushing
        <4> QED BY <4>2, <4>3
      <3>7. ASSUME NEW p \in Producers PROVE RowInv(p)'
        <4>1. RowInv(p)
          BY DEF IInv
        <4>2. CASE p = source
          BY <1>1, <1>2, <3>1, <3>2, <3>3, <4>1, <4>2 DEF RowInv
        <4>3. CASE p # source
          BY <1>1, <1>2, <3>1, <3>3, <4>1, <4>3 DEF RowInv
        <4> QED BY <4>2, <4>3
      <3> QED BY <3>4, <3>5, <3>6, <3>7
    <2>4. CASE WriteRow
      <3>1. /\ writer = "row" /\ writer' = "pop"
            /\ rows' = [rows EXCEPT ![source] = Append(rows[source], out)]
            /\ UNCHANGED <<tail, source, out>>
        BY <2>4 DEF WriteRow
      <3>2. /\ rows[source] \in Seq(Nat) /\ out \in Nat
            /\ tail[source] > 0 /\ out = accepted[source][tail[source]]
            /\ Len(rows[source]) = tail[source] - 1
        BY <1>2, <3>1 DEF IInv, TypeOK, RowInv
      <3>3. /\ rows' \in [Producers -> Seq(Nat)]
            /\ rows'[source] = Append(rows[source], out)
            /\ \A p \in Producers : p # source => rows'[p] = rows[p]
        BY <1>2, <3>1, <3>2 DEF IInv, TypeOK
      <3>4. TypeOK'
        BY <1>1, <3>1, <3>3 DEF IInv, TypeOK
      <3>5. PhaseInv'
        BY <1>1, <3>1 DEF IInv, TypeOK, PhaseInv
      <3>6. ASSUME NEW p \in Producers PROVE RingInv(p)'
        BY <1>1, <3>1 DEF IInv, RingInv, Slot, Pushing
      <3>7. ASSUME NEW p \in Producers PROVE RowInv(p)'
        <4>1. RowInv(p)
          BY DEF IInv
        <4>2. CASE p = source
          BY <1>1, <1>2, <3>1, <3>2, <3>3, <4>1, <4>2 DEF RowInv
        <4>3. CASE p # source
          BY <1>1, <1>2, <3>1, <3>3, <4>1, <4>3 DEF RowInv
        <4> QED BY <4>2, <4>3
      <3> QED BY <3>4, <3>5, <3>6, <3>7
    <2> QED BY <2>1, <2>2, <2>3, <2>4 DEF WriterLoop
  <1>4. ASSUME NEW p \in Producers PROVE TimeInv(p)' /\ CountInv(p)'
    BY <1>1 DEF IInv, TimeInv, CountInv, Due, Pushing
  <1> QED BY <1>3, <1>4 DEF IInv

-----------------------------------------------------------------------------
(* The producers. *)

LEMMA ProducerStep == ASSUME NEW q \in Producers PROVE IInv /\ Produce(q) => IInv'
  <1> SUFFICES ASSUME IInv, Produce(q) PROVE IInv'
    OBVIOUS
  <1> USE DEF runs, produces, writes
  <1>1. UNCHANGED <<main, stop, started, stopRequested, tail, writer, source, out, rows>>
    BY DEF Produce, BeginTick, Skip, Drop, BeginPush, WriteSlot, StoreHead
  <1>2. /\ ticks[q] \in Nat /\ dropped[q] \in Nat /\ head[q] \in Nat /\ tail[q] \in Nat
        /\ Capacity[q] \in Nat \ {0} /\ Decimation[q] \in Nat \ {0}
        /\ RingInv(q) /\ RowInv(q) /\ TimeInv(q) /\ CountInv(q)
    BY QueueFacts DEF IInv, TypeOK
  <1>3. pc[q] # "off" /\ started /\ ~stopRequested
    BY DEF Produce, BeginTick, Skip, Drop, BeginPush, WriteSlot, StoreHead, IInv, PhaseInv
  <1>4. ASSUME NEW x \in {"idle", "write", "store"}, pc' = [pc EXCEPT ![q] = x]
        PROVE  PhaseInv' /\ pc' \in [Producers -> {"off", "idle", "write", "store"}]
    <2>1. /\ pc' \in [Producers -> {"off", "idle", "write", "store"}]
          /\ \A p \in Producers : pc'[p] = "off" <=> pc[p] = "off"
      BY <1>3, <1>4 DEF IInv, TypeOK
    <2>2. writer \notin {"empty", "ended"}
      BY <1>3 DEF IInv, PhaseInv
    <2> QED BY <1>1, <2>1, <2>2 DEF IInv, PhaseInv, Producers
  <1>5. ASSUME NEW p \in Producers, p # q,
               UNCHANGED <<ticks[p], ring[p], head[p], dropped[p], accepted[p], pc[p]>>
        PROVE  RingInv(p)' /\ RowInv(p)' /\ TimeInv(p)' /\ CountInv(p)'
    BY <1>1, <1>5 DEF IInv, RingInv, RowInv, TimeInv, CountInv, Due, Slot, Pushing
  <1>6. CASE Skip(q)
    <2>1. pc[q] = "idle" /\ ~Traced(q) /\ ticks[q] < MaxTicks
      BY <1>3, <1>6 DEF Skip, BeginTick
    <2>2. /\ ticks' = [ticks EXCEPT ![q] = ticks[q] + 1]
          /\ UNCHANGED <<pc, ring, head, dropped, accepted>>
      BY <1>6 DEF Skip, BeginTick
    <2>3. ticks' \in [Producers -> Nat] /\ ticks'[q] = ticks[q] + 1
      BY <1>2, <2>2 DEF IInv, TypeOK
    <2>4. TypeOK' /\ PhaseInv'
      BY <1>1, <2>2, <2>3 DEF IInv, TypeOK, PhaseInv, IsEmpty
    <2>5. ~Pushing(q) /\ ~Pushing(q)'
      BY <2>1, <2>2 DEF Pushing
    <2>6. RingInv(q)' /\ RowInv(q)'
      BY <1>1, <1>2, <2>1, <2>2, <2>5 DEF RingInv, RowInv, Slot
    <2>7. TimeInv(q)'
      BY <1>2, <2>1, <2>2, <2>3, <2>5, TraceAssumption DEF TimeInv
    <2>8. CountInv(q)'
      <3>1. Due(q)' = Due(q)
        BY <1>2, <2>1, <2>3, DueStep DEF Due, Traced
      <3> QED BY <1>2, <2>2, <2>5, <3>1 DEF CountInv
    <2>9. ASSUME NEW p \in Producers, p # q
          PROVE  RingInv(p)' /\ RowInv(p)' /\ TimeInv(p)' /\ CountInv(p)'
      BY <1>5, <2>2, <2>9 DEF IInv, TypeOK
    <2> QED BY <2>4, <2>6, <2>7, <2>8, <2>9 DEF IInv
  <1>7. CASE Drop(q)
    <2>1. pc[q] = "idle" /\ Traced(q) /\ ticks[q] < MaxTicks
      BY <1>7 DEF Drop, BeginTick
    <2>2. /\ ticks' = [ticks EXCEPT ![q] = ticks[q] + 1]
          /\ dropped' = [dropped EXCEPT ![q] = dropped[q] + 1]
          /\ UNCHANGED <<pc, ring, head, accepted>>
      BY <1>7 DEF Drop, BeginTick
    <2>3. /\ ticks' \in [Producers -> Nat] /\ ticks'[q] = ticks[q] + 1
          /\ dropped' \in [Producers -> Nat] /\ dropped'[q] = dropped[q] + 1
      <3>1. ticks \in [Producers -> Nat] /\ dropped \in [Producers -> Nat]
        BY DEF IInv, TypeOK
      <3> QED BY <3>1, <2>2
    <2>4. TypeOK' /\ PhaseInv'
      BY <1>1, <2>2, <2>3 DEF IInv, TypeOK, PhaseInv, IsEmpty
    <2>5. ~Pushing(q) /\ ~Pushing(q)'
      BY <2>1, <2>2 DEF Pushing
    <2>6. RingInv(q)' /\ RowInv(q)'
      BY <1>1, <1>2, <2>1, <2>2, <2>5 DEF RingInv, RowInv, Slot
    <2>7. TimeInv(q)'
      BY <1>2, <2>1, <2>2, <2>3, <2>5, TraceAssumption DEF TimeInv
    <2>8. CountInv(q)'
      <3>1. Due(q)' = Due(q) + 1
        BY <1>2, <2>1, <2>3, DueStep DEF Due, Traced
      <3> QED BY <1>2, <2>2, <2>3, <2>5, <3>1 DEF CountInv
    <2>9. ASSUME NEW p \in Producers, p # q
          PROVE  RingInv(p)' /\ RowInv(p)' /\ TimeInv(p)' /\ CountInv(p)'
      BY <1>5, <2>2, <2>9 DEF IInv, TypeOK
    <2> QED BY <2>4, <2>6, <2>7, <2>8, <2>9 DEF IInv
  <1>8. CASE BeginPush(q)
    <2>1. pc[q] = "idle" /\ Traced(q) /\ ticks[q] < MaxTicks /\ ~Full(q)
      BY <1>8 DEF BeginPush, BeginTick
    <2>2. /\ ticks' = [ticks EXCEPT ![q] = ticks[q] + 1]
          /\ pc' = [pc EXCEPT ![q] = "write"]
          /\ UNCHANGED <<dropped, ring, head, accepted>>
      BY <1>8 DEF BeginPush, BeginTick
    <2>3. /\ ticks' \in [Producers -> Nat] /\ ticks'[q] = ticks[q] + 1
          /\ pc'[q] = "write" /\ ~Pushing(q) /\ Pushing(q)'
      BY <1>2, <2>1, <2>2 DEF IInv, TypeOK, Pushing
    <2>4. TypeOK' /\ PhaseInv'
      BY <1>1, <1>4, <2>2, <2>3 DEF IInv, TypeOK
    <2>5. head[q] - tail[q] < Capacity[q]
      BY <1>2, <2>1 DEF Full
    <2>6. RingInv(q)' /\ RowInv(q)'
      BY <1>1, <1>2, <2>2, <2>3, <2>5 DEF RingInv, RowInv, Slot
    <2>7. TimeInv(q)'
      BY <1>2, <2>1, <2>2, <2>3, TraceAssumption DEF TimeInv
    <2>8. CountInv(q)'
      <3>1. Due(q)' = Due(q) + 1
        BY <1>2, <2>1, <2>3, DueStep DEF Due, Traced
      <3> QED BY <1>2, <2>2, <2>3, <3>1 DEF CountInv
    <2>9. ASSUME NEW p \in Producers, p # q
          PROVE  RingInv(p)' /\ RowInv(p)' /\ TimeInv(p)' /\ CountInv(p)'
      BY <1>5, <2>2, <2>9 DEF IInv, TypeOK
    <2> QED BY <2>4, <2>6, <2>7, <2>8, <2>9 DEF IInv
  <1>9. CASE WriteSlot(q)
    <2>1. pc[q] = "write" /\ Pushing(q)
      BY <1>9 DEF WriteSlot, Pushing
    <2>2. /\ ring' = [ring EXCEPT ![q][Slot(q, head[q])] = ticks[q]]
          /\ pc' = [pc EXCEPT ![q] = "store"]
          /\ UNCHANGED <<ticks, head, dropped, accepted>>
      BY <1>9 DEF WriteSlot
    <2>3. pc'[q] = "store" /\ Pushing(q)'
      BY <2>2 DEF IInv, TypeOK, Pushing
    <2>4. /\ ring'[q] = [ring[q] EXCEPT ![Slot(q, head[q])] = ticks[q]]
          /\ \A p \in Producers : p # q => ring'[p] = ring[p]
          /\ ring'[q] \in [0 .. Capacity[q] - 1 -> Nat]
          /\ DOMAIN ring' = Producers
      <3>1. /\ ring[q] \in [0 .. Capacity[q] - 1 -> Nat]
            /\ DOMAIN ring = Producers /\ Slot(q, head[q]) \in 0 .. Capacity[q] - 1
        BY <1>2, QueueFacts DEF IInv, TypeOK
      <3>2. ring'[q] = [ring[q] EXCEPT ![Slot(q, head[q])] = ticks[q]]
        BY <2>2, <3>1
      <3>3. \A p \in Producers : p # q => ring'[p] = ring[p]
        BY <2>2 DEF IInv, TypeOK
      <3>4. ring'[q] \in [0 .. Capacity[q] - 1 -> Nat]
        BY <1>2, <3>1, <3>2
      <3> QED BY <2>2, <3>1, <3>2, <3>3, <3>4
    <2>5. TypeOK' /\ PhaseInv'
      BY <1>1, <1>4, <2>2, <2>4 DEF IInv, TypeOK
    <2>6. RingInv(q)'
      <3>1. ring'[q][Slot(q, head[q])] = ticks[q]
        BY <1>2, <2>4, QueueFacts DEF IInv, TypeOK
      <3>2. ASSUME NEW k \in tail[q] .. head[q] - 1
            PROVE  ring'[q][Slot(q, k)] = accepted[q][k + 1]
        <4>1. head[q] - tail[q] < Capacity[q] /\ ring[q][Slot(q, k)] = accepted[q][k + 1]
          BY <1>2, <2>1 DEF RingInv
        <4>2. k \in Nat /\ k < head[q] /\ head[q] - k < Capacity[q]
          BY <1>2, <4>1
        <4>3. Slot(q, k) # Slot(q, head[q]) /\ Slot(q, k) \in 0 .. Capacity[q] - 1
          BY <1>2, <4>2, QueueFacts
        <4> QED BY <2>4, <4>1, <4>3 DEF IInv, TypeOK
      <3> QED BY <1>1, <1>2, <2>1, <2>2, <2>3, <3>1, <3>2 DEF RingInv, Slot
    <2>7. RowInv(q)' /\ TimeInv(q)' /\ CountInv(q)'
      BY <1>1, <1>2, <2>1, <2>2, <2>3 DEF RowInv, TimeInv, CountInv, Due
    <2>8. ASSUME NEW p \in Producers, p # q
          PROVE  RingInv(p)' /\ RowInv(p)' /\ TimeInv(p)' /\ CountInv(p)'
      BY <1>5, <2>2, <2>4, <2>8 DEF IInv, TypeOK
    <2> QED BY <2>5, <2>6, <2>7, <2>8 DEF IInv
  <1>10. CASE StoreHead(q)
    <2>1. pc[q] = "store" /\ Pushing(q)
      BY <1>10 DEF StoreHead, Pushing
    <2>2. /\ head' = [head EXCEPT ![q] = head[q] + 1]
          /\ accepted' = [accepted EXCEPT ![q] = Append(accepted[q], ticks[q])]
          /\ pc' = [pc EXCEPT ![q] = "idle"]
          /\ UNCHANGED <<ticks, ring, dropped>>
      BY <1>10 DEF StoreHead
    <2>3. head' \in [Producers -> Nat] /\ head'[q] = head[q] + 1
      <3>1. head \in [Producers -> Nat]
        BY DEF IInv, TypeOK
      <3> QED BY <2>2, <3>1
    <2>4. /\ accepted[q] \in Seq(Nat) /\ Len(accepted[q]) = head[q]
          /\ accepted' \in [Producers -> Seq(Nat)]
          /\ accepted'[q] = Append(accepted[q], ticks[q])
      BY <1>2, <2>2 DEF IInv, TypeOK, RingInv
    <2>5. /\ Len(accepted'[q]) = head[q] + 1 /\ accepted'[q][head[q] + 1] = ticks[q]
          /\ \A i \in 1 .. head[q] : accepted'[q][i] = accepted[q][i]
      BY <1>2, <2>4
    <2>6. pc'[q] = "idle" /\ ~Pushing(q)'
      BY <2>2 DEF IInv, TypeOK, Pushing
    <2>7. head[q] - tail[q] < Capacity[q] /\ head[q] - tail[q] \in 0 .. Capacity[q]
      BY <1>2, <2>1 DEF RingInv, IInv, TypeOK
    <2>8. TypeOK' /\ PhaseInv'
      <3>1. \A p \in Producers : head'[p] - tail'[p] \in 0 .. Capacity[p]
        <4> TAKE p \in Producers
        <4>1. CASE p = q
          BY <1>1, <1>2, <2>3, <2>7, <4>1
        <4>2. CASE p # q
          BY <1>1, <2>2, <4>2 DEF IInv, TypeOK
        <4> QED BY <4>1, <4>2
      <3>2. pc' \in [Producers -> {"off", "idle", "write", "store"}] /\ PhaseInv'
        BY <1>4, <2>2
      <3> QED BY <1>1, <2>2, <2>3, <2>4, <3>1, <3>2 DEF IInv, TypeOK
    <2>9. RingInv(q)'
      <3>1. ASSUME NEW k \in tail[q] .. head[q]
            PROVE  ring[q][Slot(q, k)] = accepted'[q][k + 1]
        <4>1. CASE k = head[q]
          BY <1>2, <2>1, <2>5, <4>1 DEF RingInv
        <4>2. CASE k # head[q]
          <5>1. k \in tail[q] .. head[q] - 1 /\ k + 1 \in 1 .. head[q]
            BY <1>2, <4>2
          <5> QED BY <1>2, <2>5, <5>1 DEF RingInv
        <4> QED BY <4>1, <4>2
      <3> QED BY <1>1, <1>2, <2>2, <2>3, <2>5, <2>6, <3>1 DEF RingInv, Slot
    <2>10. RowInv(q)'
      <3>1. RowInv(q) /\ tail[q] <= head[q]
        BY <1>2, <2>7
      <3>2. \A i \in 1 .. Len(rows[q]) : rows[q][i] = accepted'[q][i]
        BY <1>2, <2>5, <3>1 DEF RowInv
      <3>3. source = q => /\ writer = "free" => out = accepted'[q][tail[q] + 1]
                          /\ writer = "row" => tail[q] > 0 /\ out = accepted'[q][tail[q]]
        <4>1. CASE source = q /\ writer = "free"
          <5>1. tail[q] + 1 \in 1 .. head[q]
            BY <1>2, <3>1, <4>1 DEF RowInv
          <5> QED BY <2>5, <3>1, <4>1, <5>1 DEF RowInv
        <4>2. CASE source = q /\ writer = "row"
          <5>1. tail[q] \in 1 .. head[q]
            BY <1>2, <2>7, <3>1, <4>2 DEF RowInv
          <5> QED BY <2>5, <3>1, <4>2, <5>1 DEF RowInv
        <4> QED BY <4>1, <4>2
      <3>4. source = q /\ writer \in {"copy", "free"} => tail[q] < head'[q]
        BY <1>2, <2>3, <3>1 DEF RowInv
      <3> QED BY <1>1, <1>2, <2>3, <3>1, <3>2, <3>3, <3>4 DEF RowInv
    <2>11. TimeInv(q)'
      <3>1. \A i \in 1 .. head[q] : accepted[q][i] \in 1 .. ticks[q] /\ accepted[q][i] < ticks[q]
        BY <1>2, <2>1 DEF TimeInv
      <3>2. ticks[q] > 0 /\ ticks[q] <= MaxTicks
        BY <1>2, <2>1 DEF TimeInv
      <3>3. ASSUME NEW i \in 1 .. head[q] + 1
            PROVE  accepted'[q][i] \in 1 .. ticks[q]
        <4>1. CASE i = head[q] + 1
          BY <1>2, <2>5, <3>2, <4>1
        <4>2. CASE i # head[q] + 1
          <5>1. i \in 1 .. head[q]
            BY <1>2, <4>2
          <5> QED BY <2>5, <3>1, <5>1
        <4> QED BY <4>1, <4>2
      <3>4. ASSUME NEW i \in 1 .. head[q] + 1, NEW j \in 1 .. head[q] + 1, i < j
            PROVE  accepted'[q][i] < accepted'[q][j]
        <4>1. i \in 1 .. head[q]
          BY <1>2, <3>4
        <4>2. CASE j = head[q] + 1
          BY <2>5, <3>1, <4>1, <4>2
        <4>3. CASE j # head[q] + 1
          <5>1. j \in 1 .. head[q]
            BY <1>2, <4>3
          <5> QED BY <1>2, <2>5, <3>4, <4>1, <5>1 DEF TimeInv
        <4> QED BY <4>2, <4>3
      <3> QED BY <2>2, <2>3, <2>6, <3>2, <3>3, <3>4 DEF TimeInv
    <2>12. CountInv(q)'
      <3>1. Due(q)' = Due(q) /\ dropped'[q] = dropped[q]
        BY <2>2 DEF Due
      <3>2. head[q] + dropped[q] + 1 = Due(q)
        BY <1>2, <2>1 DEF CountInv
      <3>3. head'[q] + dropped'[q] + 0 = Due(q)'
        BY <1>2, <2>3, <3>1, <3>2
      <3> QED BY <2>6, <3>3 DEF CountInv
    <2>13. ASSUME NEW p \in Producers, p # q
           PROVE  RingInv(p)' /\ RowInv(p)' /\ TimeInv(p)' /\ CountInv(p)'
      BY <1>5, <2>2, <2>13 DEF IInv, TypeOK
    <2> QED BY <2>8, <2>9, <2>10, <2>11, <2>12, <2>13 DEF IInv
  <1> QED BY <1>6, <1>7, <1>8, <1>9, <1>10 DEF Produce

-----------------------------------------------------------------------------
(* The invariant holds in every reachable state. *)
THEOREM Invariance == Spec => []IInv
  <1>1. IInv /\ [Next]_vars => IInv'
    <2>1. IInv /\ UNCHANGED vars => IInv'
      <3> SUFFICES ASSUME IInv, UNCHANGED vars PROVE IInv'
        OBVIOUS
      <3> USE DEF vars, runs, produces, writes
      <3>1. TypeOK'
        BY DEF IInv, TypeOK
      <3>2. PhaseInv'
        BY DEF IInv, PhaseInv, IsEmpty
      <3>3. ASSUME NEW p \in Producers
            PROVE  RingInv(p)' /\ RowInv(p)' /\ TimeInv(p)' /\ CountInv(p)'
        BY DEF IInv, RingInv, RowInv, TimeInv, CountInv, Due, Slot, Pushing
      <3> QED BY <3>1, <3>2, <3>3 DEF IInv
    <2> QED BY <2>1, RunStep, WriterStep, ProducerStep DEF Next
  <1> QED BY InitIInv, <1>1, PTL DEF Spec

(* Every field has its type, and no queue ever holds more than it can. *)
THEOREM TypeCorrect == Spec => []TypeOK
  BY Invariance, PTL DEF IInv

(* The files are in the order of time, without repetition. *)
THEOREM Ordered == Spec => []RowsInOrder
  <1>1. IInv => RowsInOrder
    <2> SUFFICES ASSUME IInv, NEW p \in Producers, NEW i \in DOMAIN rows[p],
                        NEW j \in DOMAIN rows[p], i < j
                 PROVE  rows[p][i] < rows[p][j]
      BY DEF RowsInOrder
    <2>1. /\ rows[p] \in Seq(Nat) /\ head[p] \in Nat /\ tail[p] \in Nat
          /\ head[p] - tail[p] \in 0 .. Capacity[p] /\ Capacity[p] \in Nat
          /\ RowInv(p) /\ TimeInv(p)
      BY QueueFacts DEF IInv, TypeOK
    <2>2. Len(rows[p]) <= head[p] /\ DOMAIN rows[p] = 1 .. Len(rows[p])
      BY <2>1 DEF RowInv
    <2>3. i \in 1 .. head[p] /\ j \in 1 .. head[p]
      BY <2>1, <2>2
    <2> QED BY <2>1, <2>2, <2>3 DEF RowInv, TimeInv
  <1> QED BY <1>1, Invariance, PTL

(* When Run reports, every sample that was due is written or counted. *)
THEOREM Accounted == Spec => []AllAccounted
  <1>1. IInv => AllAccounted
    <2> SUFFICES ASSUME IInv, main = "done", NEW p \in Producers
                 PROVE  Len(rows[p]) + dropped[p] = Due(p)
      BY DEF AllAccounted
    <2>1. writer = "ended" /\ head[p] = tail[p] /\ ~Pushing(p)
      BY DEF IInv, PhaseInv, IsEmpty, Pushing
    <2>2. RowInv(p) /\ CountInv(p) /\ head[p] \in Nat /\ dropped[p] \in Nat
      BY DEF IInv, TypeOK
    <2> QED BY <2>1, <2>2 DEF RowInv, CountInv
  <1> QED BY <1>1, Invariance, PTL

(* The recorder implements the bounded log: pushes are accepted when head_ *)
(* is stored and refused when the queue is seen full, rows are logged when *)
(* they are written, and all other steps are invisible.                    *)
THEOREM Refinement == Spec => ImplementsLog
  <1>1. Init => Log!Init
    BY DEF Init, Log!Init
  <1>2. IInv /\ IInv' /\ [Next]_vars => [Log!Next]_(Log!vars)
    <2> SUFFICES ASSUME IInv, IInv', [Next]_vars PROVE [Log!Next]_(Log!vars)
      OBVIOUS
    <2> USE DEF runs, produces, writes
    <2>1. CASE UNCHANGED vars
      BY <2>1 DEF vars, Log!vars
    <2>2. CASE Main \/ RequestStop \/ PlannerEnds
      BY <2>2 DEF Main, Start, StartFails, Launch, RequestStop, Leave, RequestTraceStop,
                  EndTrace, PlannerEnds, Log!vars
    <2>3. CASE WriterLoop
      <3>1. CASE WriteRow
        <4>1. /\ source \in Producers /\ rows[source] \in Seq(Nat)
              /\ tail[source] \in Nat /\ head[source] \in Nat
              /\ head[source] - tail[source] \in 0 .. Capacity[source]
              /\ Capacity[source] \in Nat
          BY QueueFacts DEF IInv, TypeOK
        <4>2. /\ Len(rows[source]) = tail[source] - 1 /\ tail[source] > 0
              /\ out = accepted[source][tail[source]] /\ Len(accepted[source]) = head[source]
          BY <3>1, <4>1 DEF IInv, RowInv, RingInv, WriteRow
        <4>3. /\ Log!Waiting(source) > 0
              /\ out = accepted[source][Len(rows[source]) + 1]
          BY <4>1, <4>2 DEF Log!Waiting
        <4>4. Log!Log(source)
          BY <3>1, <4>3 DEF WriteRow, Log!Log
        <4> QED BY <4>1, <4>4 DEF Log!Next
      <3>2. CASE ~WriteRow
        BY <2>3, <3>2 DEF WriterLoop, CheckStop, CheckEmpty, CheckNotEmpty, PopFails, Pop,
                          CopySlot, StoreTail, Log!vars
      <3> QED BY <3>1, <3>2
    <2>4. ASSUME NEW p \in Producers, Produce(p) PROVE [Log!Next]_(Log!vars)
      <3>1. /\ rows[p] \in Seq(Nat) /\ accepted[p] \in Seq(Nat)
            /\ tail[p] \in Nat /\ head[p] \in Nat /\ ticks[p] \in Nat
            /\ Capacity[p] \in Nat
            /\ Len(rows[p]) \in Nat /\ Len(rows[p]) <= tail[p] /\ Len(accepted[p]) = head[p]
        <4>1. /\ rows[p] \in Seq(Nat) /\ accepted[p] \in Seq(Nat)
              /\ tail[p] \in Nat /\ head[p] \in Nat /\ ticks[p] \in Nat
              /\ Capacity[p] \in Nat /\ RowInv(p) /\ RingInv(p)
          BY QueueFacts DEF IInv, TypeOK
        <4> QED BY <4>1 DEF RowInv, RingInv
      <3>2. CASE Drop(p)
        <4>1. Log!Waiting(p) >= Capacity[p]
          BY <3>1, <3>2 DEF Drop, Full, Log!Waiting
        <4>2. Log!Refuse(p)
          BY <3>2, <4>1 DEF Drop, Log!Refuse
        <4> QED BY <4>2 DEF Log!Next
      <3>3. CASE StoreHead(p)
        <4>1. Pushing(p)
          BY <3>3 DEF StoreHead, Pushing
        <4>2. \A i \in DOMAIN accepted[p] : accepted[p][i] < ticks[p]
          BY <3>1, <4>1 DEF IInv, TimeInv
        <4>3. ticks[p] \in 1 .. MaxTicks
          BY <3>1, <4>1, TraceAssumption DEF IInv, TimeInv
        <4>4. Log!Accept(p, ticks[p])
          BY <3>3, <4>2 DEF StoreHead, Log!Accept
        <4> QED BY <4>3, <4>4 DEF Log!Next
      <3>4. CASE Skip(p) \/ BeginPush(p) \/ WriteSlot(p)
        BY <3>4 DEF Skip, BeginPush, WriteSlot, BeginTick, Log!vars
      <3> QED BY <2>4, <3>2, <3>3, <3>4 DEF Produce
    <2> QED BY <2>1, <2>2, <2>3, <2>4 DEF Next
  <1> QED BY <1>1, <1>2, Invariance, PTL DEF Spec, ImplementsLog, Log!Spec
=============================================================================
