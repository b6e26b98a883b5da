----------------------- MODULE LatestValueBufferProofs -----------------------
(***************************************************************************)
(* Proofs that, as long as no publish overtakes a read, the two-slot       *)
(* buffer returns whole values and implements the register LatestValue,    *)
(* for any number of readers, words and publishes; and that the buffer     *)
(* with two writers, TargetBuffer, is such a buffer again by the time that *)
(* the callback may move the arm.                                          *)
(***************************************************************************)
EXTENDS TargetBuffer, TLAPS

Uniform(value) == \A v, w \in Words : value[v] = value[w]

(* The published slot holds the last whole value, the other one whatever   *)
(* the publish has copied; a slot that is being read is not written.       *)
WriterInv ==
  /\ writing => next = 1 - published /\ count > 0
  /\ ~writing => toWrite = {}
  /\ \A w \in Words :
       slots[published][w] = IF writing THEN count - 1 ELSE count
  /\ writing => \A w \in Words \ toWrite : slots[next][w] = count
  /\ ~writing => \A s \in Slot : Uniform(slots[s])

(* A reader has copied the words it has not still to copy, and they are    *)
(* the words of its slot.                                                  *)
ReaderInv ==
  \A r \in Readers :
    /\ reading[r] /\ writing => idx[r] = published
    /\ reading[r] => \A w \in Words \ toRead[r] : copy[r][w] = slots[idx[r]][w]
    /\ ~reading[r] => toRead[r] = {} /\ Uniform(copy[r])

IInv == TypeOK /\ WriterInv /\ ReaderInv

-----------------------------------------------------------------------------
(* The initial states are in the invariant. *)
LEMMA InitIInv == Init => IInv
  <1> SUFFICES ASSUME Init PROVE IInv
    OBVIOUS
  <1>1. TypeOK
    BY DEF Init, TypeOK, Value, Slot
  <1>2. WriterInv
    BY DEF Init, WriterInv, Uniform, Slot
  <1>3. ReaderInv
    BY DEF Init, ReaderInv, Uniform
  <1> QED BY <1>1, <1>2, <1>3 DEF IInv

(* Every step preserves the types. *)
LEMMA NextTypeOK == TypeOK /\ [Next]_vars => TypeOK'
  <1> SUFFICES ASSUME TypeOK, [Next]_vars PROVE TypeOK'
    OBVIOUS
  <1> USE DEF TypeOK, writer, reader
  <1>1. CASE BeginPublish
    BY <1>1 DEF BeginPublish, NextSlot, Slot
  <1>2. ASSUME NEW w \in Words, WriteWord(w) PROVE TypeOK'
    <2>1. slots' \in [Slot -> Value]
      BY <1>2 DEF WriteWord, Value
    <2> QED BY <1>2, <2>1 DEF WriteWord
  <1>3. CASE StoreIndex
    BY <1>3 DEF StoreIndex
  <1>4. ASSUME NEW r \in Readers, BeginRead(r) PROVE TypeOK'
    BY <1>4 DEF BeginRead
  <1>5. ASSUME NEW r \in Readers, NEW w \in Words, ReadWord(r, w) PROVE TypeOK'
    <2>1. slots[idx[r]][w] \in Nat
      BY DEF Value
    <2>2. copy' \in [Readers -> Value]
      BY <1>5, <2>1 DEF ReadWord, Value
    <2>3. toRead' \in [Readers -> SUBSET Words]
      BY <1>5 DEF ReadWord
    <2> QED BY <1>5, <2>2, <2>3 DEF ReadWord
  <1>6. ASSUME NEW r \in Readers, EndRead(r) PROVE TypeOK'
    BY <1>6 DEF EndRead
  <1>7. CASE UNCHANGED vars
    BY <1>7 DEF vars
  <1> QED BY <1>1, <1>2, <1>3, <1>4, <1>5, <1>6, <1>7 DEF Next

(* A publish leaves the published slot whole, and its own slot is whole    *)
(* when the index is stored.                                               *)
LEMMA WriterStep == TypeOK /\ WriterInv /\ [Next]_vars => WriterInv'
  <1> SUFFICES ASSUME TypeOK, WriterInv, [Next]_vars PROVE WriterInv'
    OBVIOUS
  <1> USE DEF writer, reader
  <1>1. CASE BeginPublish
    BY <1>1 DEF BeginPublish, NextSlot, WriterInv, TypeOK
  <1>2. ASSUME NEW w \in Words, WriteWord(w) PROVE WriterInv'
    <2>1. /\ writing /\ next = 1 - published /\ next \in Slot /\ published \in Slot
          /\ next # published
      BY <1>2 DEF WriteWord, WriterInv, TypeOK, Slot
    <2>2. /\ slots'[published] = slots[published]
          /\ slots'[next] = [slots[next] EXCEPT ![w] = count]
      BY <1>2, <2>1 DEF WriteWord, TypeOK
    <2>3. \A v \in Words : slots'[next][v] = IF v = w THEN count ELSE slots[next][v]
      BY <2>1, <2>2 DEF TypeOK, Value
    <2> QED
      BY <1>2, <2>1, <2>2, <2>3 DEF WriteWord, WriterInv
  <1>3. CASE StoreIndex
    <2>1. \A w \in Words : slots[next][w] = count /\ slots[published][w] = count - 1
      BY <1>3 DEF StoreIndex, WriterInv
    <2>2. Slot = {published, next}
      BY <1>3 DEF StoreIndex, WriterInv, TypeOK, Slot
    <2>3. \A s \in Slot : Uniform(slots[s])
      BY <2>1, <2>2 DEF Uniform
    <2> QED
      BY <1>3, <2>1, <2>3 DEF StoreIndex, WriterInv, Uniform
  <1>4. CASE UNCHANGED writer
    BY <1>4 DEF WriterInv, Uniform
  <1>5. CASE \E r \in Readers : \/ BeginRead(r) \/ EndRead(r)
                                \/ \E w \in Words : ReadWord(r, w)
    BY <1>4, <1>5 DEF BeginRead, EndRead, ReadWord
  <1>6. CASE UNCHANGED vars
    BY <1>4, <1>6 DEF vars
  <1> QED BY <1>1, <1>2, <1>3, <1>5, <1>6 DEF Next

(* Without overtaking, the slot a reader copies from does not change.      *)
LEMMA ReaderStep ==
  ASSUME ~Overtaking
  PROVE  TypeOK /\ WriterInv /\ ReaderInv /\ [Next]_vars => ReaderInv'
  <1> SUFFICES ASSUME TypeOK, WriterInv, ReaderInv, [Next]_vars PROVE ReaderInv'
    OBVIOUS
  <1> USE DEF writer, reader
  <1>1. CASE BeginPublish
    <2>1. \A r \in Readers : reading[r] => idx[r] = published
      BY <1>1 DEF BeginPublish, SlotFree, NextSlot, TypeOK, Slot
    <2> QED BY <1>1, <2>1 DEF BeginPublish, ReaderInv, Uniform
  <1>2. ASSUME NEW w \in Words, WriteWord(w) PROVE ReaderInv'
    <2>1. writing /\ next # published
      BY <1>2 DEF WriteWord, WriterInv, TypeOK, Slot
    <2>2. slots'[published] = slots[published]
      BY <1>2, <2>1 DEF WriteWord, TypeOK
    <2> QED BY <1>2, <2>1, <2>2 DEF WriteWord, ReaderInv, Uniform
  <1>3. CASE StoreIndex
    BY <1>3 DEF StoreIndex, ReaderInv, Uniform
  <1>4. ASSUME NEW r \in Readers, BeginRead(r) PROVE ReaderInv'
    <2>1. /\ reading'[r] /\ idx'[r] = published /\ toRead'[r] = Words
          /\ \A q \in Readers \ {r} : /\ reading'[q] = reading[q] /\ idx'[q] = idx[q]
                                      /\ toRead'[q] = toRead[q]
      BY <1>4 DEF BeginRead, TypeOK
    <2> QED BY <1>4, <2>1 DEF BeginRead, ReaderInv, Uniform
  <1>5. ASSUME NEW r \in Readers, NEW w \in Words, ReadWord(r, w) PROVE ReaderInv'
    <2>1. toRead[r] # {} /\ reading[r]
      BY <1>5 DEF ReadWord, ReaderInv
    <2>2. /\ toRead'[r] = toRead[r] \ {w}
          /\ \A v \in Words : copy'[r][v] = IF v = w THEN slots[idx[r]][w] ELSE copy[r][v]
          /\ \A q \in Readers \ {r} : toRead'[q] = toRead[q] /\ copy'[q] = copy[q]
      BY <1>5 DEF ReadWord, TypeOK, Value
    <2> QED BY <1>5, <2>1, <2>2 DEF ReadWord, ReaderInv, Uniform
  <1>6. ASSUME NEW r \in Readers, EndRead(r) PROVE ReaderInv'
    <2>1. Uniform(slots[idx[r]])
      <3>1. idx[r] \in Slot
        BY DEF TypeOK
      <3>2. CASE writing
        BY <1>6, <3>2 DEF EndRead, ReaderInv, WriterInv, Uniform
      <3> QED BY <3>1, <3>2 DEF WriterInv
    <2>2. Uniform(copy[r])
      BY <1>6, <2>1 DEF EndRead, ReaderInv, Uniform
    <2>3. ~reading'[r] /\ \A q \in Readers \ {r} : reading'[q] = reading[q]
      BY <1>6 DEF EndRead, TypeOK
    <2> QED BY <1>6, <2>2, <2>3 DEF EndRead, ReaderInv, Uniform
  <1>7. CASE UNCHANGED vars
    BY <1>7 DEF vars, ReaderInv, Uniform
  <1> QED BY <1>1, <1>2, <1>3, <1>4, <1>5, <1>6, <1>7 DEF Next

(* The invariant holds in every reachable state, if nothing overtakes.     *)
THEOREM Invariance == ASSUME ~Overtaking PROVE Spec => []IInv
  <1>1. IInv /\ [Next]_vars => IInv'
    BY NextTypeOK, WriterStep, ReaderStep DEF IInv
  <1> QED BY InitIInv, <1>1, PTL DEF Spec

(* The buffer's fields have their types in every reachable state: in       *)
(* particular the index never leaves the two slots.  The LEMMA above does  *)
(* not need the absence of overtaking, so neither does this.               *)
THEOREM TypeCorrect == Spec => []TypeOK
  <1>1. Init => TypeOK
    BY InitIInv DEF IInv
  <1> QED BY <1>1, NextTypeOK, PTL DEF Spec

-----------------------------------------------------------------------------
(* ReadLatest returns only whole published values, however many threads    *)
(* read and however large the value is, if no publish overtakes a read.    *)
THEOREM WholeReads == ASSUME ~Overtaking PROVE Spec => []NoTornRead
  <1>1. IInv => NoTornRead
    <2> SUFFICES ASSUME IInv, NEW r \in Readers, toRead[r] = {}
                 PROVE  Uniform(copy[r])
      BY DEF NoTornRead, Uniform
    <2>1. CASE ~reading[r]
      BY <2>1 DEF IInv, ReaderInv
    <2>2. CASE reading[r]
      <3>1. Uniform(slots[idx[r]])
        <4>1. idx[r] \in Slot
          BY DEF IInv, TypeOK
        <4>2. CASE writing
          BY <2>2, <4>2 DEF IInv, ReaderInv, WriterInv, Uniform
        <4> QED BY <4>1, <4>2 DEF IInv, WriterInv
      <3> QED BY <2>2, <3>1 DEF IInv, ReaderInv, Uniform
    <2> QED BY <2>1, <2>2
  <1> QED BY <1>1, Invariance, PTL

(* The refinement: BeginRead takes the register's value, StoreIndex        *)
(* publishes the next one, and every other step stutters.                  *)
THEOREM Refinement == ASSUME ~Overtaking PROVE Spec => ImplementsRegister
  <1> DEFINE value == slots[published][AnyWord]
             taken == [r \in Readers |-> IF reading[r] THEN slots[idx[r]][AnyWord]
                                                       ELSE copy[r][AnyWord]]
  <1>0. AnyWord \in Words
    BY BufferAssumption DEF AnyWord
  <1>1. Init => Register!Init
    BY <1>0 DEF Init, Register!Init, Slot
  <1>2. IInv /\ IInv' /\ [Next]_vars => [Register!Next]_<<value, taken>>
    <2> SUFFICES ASSUME IInv, IInv', [Next]_vars
                 PROVE  Register!Next \/ UNCHANGED <<value, taken>>
      OBVIOUS
    <2> USE <1>0 DEF writer, reader
    <2>1. CASE BeginPublish
      BY <2>1 DEF BeginPublish
    <2>2. ASSUME NEW w \in Words, WriteWord(w) PROVE UNCHANGED <<value, taken>>
      <3>1. next # published /\ writing
        BY <2>2 DEF WriteWord, IInv, TypeOK, Slot, WriterInv
      <3>2. slots'[published] = slots[published]
        BY <2>2, <3>1 DEF WriteWord, IInv, TypeOK
      <3>3. \A r \in Readers : reading[r] => idx[r] = published
        BY <3>1 DEF IInv, ReaderInv
      <3>4. taken' = taken
        BY <2>2, <3>2, <3>3 DEF WriteWord
      <3> QED BY <2>2, <3>2, <3>4 DEF WriteWord
    <2>3. CASE StoreIndex
      <3>1. slots[next][AnyWord] = slots[published][AnyWord] + 1
        BY <2>3 DEF StoreIndex, IInv, TypeOK, WriterInv
      <3>2. value' = value + 1 /\ taken' = taken
        BY <2>3, <3>1 DEF StoreIndex
      <3> QED BY <3>2 DEF Register!Next, Register!Publish
    <2>4. ASSUME NEW r \in Readers, BeginRead(r) PROVE Register!Next
      <3>1. taken' = [taken EXCEPT ![r] = value]
        BY <2>4 DEF BeginRead, IInv, TypeOK
      <3>2. value' = value
        BY <2>4 DEF BeginRead
      <3> QED BY <3>1, <3>2 DEF Register!Next, Register!Take
    <2>5. ASSUME NEW r \in Readers, NEW w \in Words, ReadWord(r, w)
          PROVE  UNCHANGED <<value, taken>>
      <3>1. reading[r]
        BY <2>5 DEF ReadWord, IInv, ReaderInv
      <3>2. \A q \in Readers \ {r} : copy'[q] = copy[q]
        BY <2>5 DEF ReadWord, IInv, TypeOK
      <3>3. taken' = taken
        BY <2>5, <3>1, <3>2 DEF ReadWord
      <3> QED BY <2>5, <3>3 DEF ReadWord
    <2>6. ASSUME NEW r \in Readers, EndRead(r) PROVE UNCHANGED <<value, taken>>
      <3>1. copy[r][AnyWord] = slots[idx[r]][AnyWord]
        BY <2>6 DEF EndRead, IInv, ReaderInv
      <3>2. ~reading'[r] /\ \A q \in Readers \ {r} : reading'[q] = reading[q]
        BY <2>6 DEF EndRead, IInv, TypeOK
      <3>3. taken' = taken
        BY <2>6, <3>1, <3>2 DEF EndRead
      <3> QED BY <2>6, <3>3 DEF EndRead
    <2>7. CASE UNCHANGED vars
      BY <2>7 DEF vars
    <2> QED BY <2>1, <2>2, <2>3, <2>4, <2>5, <2>6, <2>7 DEF Next
  <1> QED BY <1>1, <1>2, Invariance, PTL DEF Spec, Register!Spec, ImplementsRegister

-----------------------------------------------------------------------------
(* The target buffer. *)

(* Once the planner has ended the iteration that was under way when the    *)
(* main thread published, it writes the slot that is not published, and    *)
(* alone; once it has ended the next one too, that slot is published.      *)
TwoWriterInv ==
  /\ ~writing => toWrite = {}
  /\ ticks >= 1 /\ stage # "publish" /\ writing =>
       next = 1 - published /\ \A w \in Words \ toWrite : slots[next][w] = count
  /\ ticks >= 2 /\ stage # "publish" =>
       \A w \in Words : slots[published][w] = LastPlanned

(* A callback that may move the arm reads a slot that holds the planner's  *)
(* last target, and that nobody writes.                                    *)
LookInv ==
  \A r \in Readers :
    /\ reading[r] => stage = "control"
    /\ ~reading[r] => toRead[r] = {}
    /\ reading[r] /\ moves[r] => /\ writing => next # idx[r]
                                 /\ \A w \in Words : slots[idx[r]][w] = current[r]
    /\ moves[r] => \A w \in Words \ toRead[r] : copy[r][w] = current[r]

TargetInv == TargetTypeOK /\ TwoWriterInv /\ LookInv

(* The initial states are in the invariant. *)
LEMMA InitTargetInv == TargetInit => TargetInv
  <1> SUFFICES ASSUME TargetInit PROVE TargetInv
    OBVIOUS
  <1> USE DEF TargetInit, Init
  <1>1. TargetTypeOK
    <2>1. ticks \in 0..InhibitTicks
      BY TargetBufferAssumption
    <2>2. slots \in [Slot -> Value] /\ copy \in [Readers -> Value]
      BY DEF Value
    <2>3. /\ published \in Slot /\ next \in Slot /\ holdSlot \in Slot
          /\ count \in Nat /\ routes \in Nat
          /\ toWrite \subseteq Words /\ holdToWrite \subseteq Words
          /\ stage \in {"control", "route", "publish"}
      BY DEF Slot
    <2>4. /\ writing \in BOOLEAN
          /\ reading \in [Readers -> BOOLEAN] /\ moves \in [Readers -> BOOLEAN]
      OBVIOUS
    <2>5. /\ idx \in [Readers -> Slot] /\ current \in [Readers -> Int]
          /\ toRead \in [Readers -> SUBSET Words]
      BY DEF Slot
    <2> QED BY <2>1, <2>2, <2>3, <2>4, <2>5, Zenon DEF TargetTypeOK
  <1>2. TwoWriterInv
    BY DEF TwoWriterInv, LastPlanned, Slot
  <1>3. LookInv
    BY DEF LookInv
  <1> QED BY <1>1, <1>2, <1>3 DEF TargetInv

(* Every step preserves the types. *)
LEMMA TargetTypeStep == TargetTypeOK /\ [TargetNext]_targetVars => TargetTypeOK'
  <1> SUFFICES ASSUME TargetTypeOK, [TargetNext]_targetVars PROVE TargetTypeOK'
    OBVIOUS
  <1> USE TargetBufferAssumption
      DEF TargetTypeOK, vars, writer, reader, planner, main, cycle
  <1>1. ASSUME NEW s \in Slot, NEW w \in Words, NEW n \in Nat
        PROVE  [slots EXCEPT ![s][w] = n] \in [Slot -> Value]
    BY DEF Value
  <1>2. CASE PlannerPublishes
    <2>1. CASE BeginPublish
      BY <1>2, <2>1 DEF PlannerPublishes, BeginPublish, NextSlot, Slot
    <2>2. ASSUME NEW w \in Words, WriteWord(w) PROVE TargetTypeOK'
      BY <1>1, <1>2, <2>2 DEF PlannerPublishes, WriteWord
    <2> QED BY <1>2, <2>1, <2>2 DEF PlannerPublishes
  <1>3. CASE PlannerEnds
    <2>1. ticks' \in 0..InhibitTicks
      BY <1>3 DEF PlannerEnds
    <2>2. /\ published' \in Slot /\ writing' \in BOOLEAN
          /\ UNCHANGED <<slots, count, next, toWrite, reader, main, cycle>>
      BY <1>3 DEF PlannerEnds, StoreIndex
    <2> QED BY <2>1, <2>2
  <1>4. ASSUME NEW r \in Readers, LookAtTarget(r) PROVE TargetTypeOK'
    <2>1. LastPlanned \in Int /\ MayMove \in BOOLEAN
      BY DEF LastPlanned, MayMove
    <2> QED BY <1>4, <2>1 DEF LookAtTarget, BeginRead
  <1>5. ASSUME NEW r \in Readers, EndLook(r) PROVE TargetTypeOK'
    <2>1. CASE EndRead(r)
      BY <1>5, <2>1 DEF EndLook, EndRead
    <2>2. ASSUME NEW w \in Words, ReadWord(r, w) PROVE TargetTypeOK'
      <3>1. slots[idx[r]][w] \in Nat
        BY DEF Value
      <3>2. copy' \in [Readers -> Value]
        BY <2>2, <3>1 DEF ReadWord, Value
      <3> QED BY <1>5, <2>2, <3>2 DEF EndLook, ReadWord
    <2> QED BY <1>5, <2>1, <2>2 DEF EndLook
  <1>6. CASE EndControl
    BY <1>6 DEF EndControl
  <1>7. CASE RouteFails
    BY <1>7 DEF RouteFails
  <1>8. CASE BeginHold
    BY <1>8 DEF BeginHold, NextSlot, Slot
  <1>9. CASE StoreHold
    BY <1>9 DEF StoreHold
  <1>10. ASSUME NEW w \in Words, WriteHold(w) PROVE TargetTypeOK'
    BY <1>1, <1>10 DEF WriteHold
  <1>11. CASE UNCHANGED targetVars
    BY <1>11 DEF targetVars
  <1> QED BY <1>2, <1>3, <1>4, <1>5, <1>6, <1>7, <1>8, <1>9, <1>10, <1>11 DEF TargetNext

(* The main thread writes only while it is not in control(), and then the  *)
(* planner has to end two iterations before anything is said of the slots. *)
LEMMA TwoWriterStep == TargetInv /\ [TargetNext]_targetVars => TwoWriterInv'
  <1> SUFFICES ASSUME TargetInv, [TargetNext]_targetVars PROVE TwoWriterInv'
    OBVIOUS
  <1> USE TargetBufferAssumption
      DEF TargetInv, vars, writer, reader, planner, main, cycle
  <1>1. CASE PlannerPublishes
    <2>1. CASE BeginPublish
      BY <1>1, <2>1
      DEF PlannerPublishes, BeginPublish, NextSlot, TwoWriterInv, LastPlanned, TargetTypeOK
    <2>2. ASSUME NEW w \in Words, WriteWord(w) PROVE TwoWriterInv'
      <3>0. /\ \A t \in Slot \ {next} : slots'[t] = slots[t]
            /\ slots'[next] = [slots[next] EXCEPT ![w] = count]
        BY <2>2 DEF WriteWord, TargetTypeOK
      <3>1. \A v \in Words : slots'[next][v] = IF v = w THEN count ELSE slots[next][v]
        BY <3>0 DEF TargetTypeOK, Value
      <3>2. writing /\ next \in Slot /\ published \in Slot
        BY <2>2 DEF WriteWord, TwoWriterInv, TargetTypeOK
      <3>3. next = 1 - published => published \in Slot \ {next}
        BY <3>2 DEF Slot
      <3>4. ticks >= 2 => ticks >= 1
        BY DEF TargetTypeOK
      <3> QED BY <1>1, <2>2, <3>0, <3>1, <3>2, <3>3, <3>4
          DEF PlannerPublishes, WriteWord, TwoWriterInv, LastPlanned
    <2> QED BY <1>1, <2>1, <2>2 DEF PlannerPublishes
  <1>2. CASE PlannerEnds
    <2>1. ~writing' /\ toWrite' = {} /\ LastPlanned' = count /\ slots' = slots
      BY <1>2 DEF PlannerEnds, StoreIndex, LastPlanned
    <2>2. ASSUME ticks' >= 2, stage' # "publish"
          PROVE  \A w \in Words : slots[next][w] = count
      <3>1. ticks >= 1 /\ stage # "publish"
        BY <1>2, <2>2 DEF PlannerEnds, TargetTypeOK
      <3> QED BY <1>2, <3>1 DEF PlannerEnds, StoreIndex, TwoWriterInv
    <2> QED BY <1>2, <2>1, <2>2 DEF PlannerEnds, StoreIndex, TwoWriterInv
  <1>3. CASE UNCHANGED <<writer, stage, ticks>>
    BY <1>3 DEF TwoWriterInv, LastPlanned
  <1>4. ASSUME NEW r \in Readers, LookAtTarget(r) \/ EndLook(r) PROVE TwoWriterInv'
    BY <1>3, <1>4 DEF LookAtTarget, BeginRead, EndLook, EndRead, ReadWord
  <1>5. CASE EndControl \/ RouteFails \/ BeginHold
    BY <1>5 DEF EndControl, RouteFails, BeginHold, TwoWriterInv, LastPlanned
  <1>6. CASE StoreHold
    BY <1>6 DEF StoreHold, TwoWriterInv
  <1>7. ASSUME NEW w \in Words, WriteHold(w) PROVE TwoWriterInv'
    BY <1>7 DEF WriteHold, TwoWriterInv
  <1>8. CASE UNCHANGED targetVars
    BY <1>3, <1>8 DEF targetVars
  <1> QED BY <1>1, <1>2, <1>4, <1>5, <1>6, <1>7, <1>8 DEF TargetNext

(* Without overtaking, nobody writes the slot that a callback which may    *)
(* move the arm reads.                                                     *)
LEMMA LookStep ==
  ASSUME ~Overtaking
  PROVE  TargetInv /\ [TargetNext]_targetVars => LookInv'
  <1> SUFFICES ASSUME TargetInv, [TargetNext]_targetVars PROVE LookInv'
    OBVIOUS
  <1> USE TargetBufferAssumption
      DEF TargetInv, vars, writer, reader, planner, main, cycle
  <1>1. CASE PlannerPublishes
    <2>1. CASE BeginPublish
      BY <1>1, <2>1 DEF PlannerPublishes, BeginPublish, SlotFree, LookInv
    <2>2. ASSUME NEW w \in Words, WriteWord(w) PROVE LookInv'
      <3>1. \A t \in Slot \ {next} : slots'[t] = slots[t]
        BY <2>2 DEF WriteWord, TargetTypeOK
      <3>2. writing /\ \A r \in Readers : idx[r] \in Slot
        BY <2>2 DEF WriteWord, TwoWriterInv, TargetTypeOK
      <3> QED BY <1>1, <2>2, <3>1, <3>2 DEF PlannerPublishes, WriteWord, LookInv
    <2> QED BY <1>1, <2>1, <2>2 DEF PlannerPublishes
  <1>2. CASE PlannerEnds
    BY <1>2 DEF PlannerEnds, StoreIndex, LookInv
  <1>3. ASSUME NEW r \in Readers, LookAtTarget(r) PROVE LookInv'
    <2>1. /\ reading'[r] /\ idx'[r] = published /\ toRead'[r] = Words
          /\ moves'[r] = MayMove /\ current'[r] = LastPlanned
          /\ \A q \in Readers \ {r} :
               /\ reading'[q] = reading[q] /\ idx'[q] = idx[q] /\ toRead'[q] = toRead[q]
               /\ moves'[q] = moves[q] /\ current'[q] = current[q]
      BY <1>3 DEF LookAtTarget, BeginRead, TargetTypeOK
    <2>2. stage = "control" /\ UNCHANGED <<stage, slots, copy, writing, next>>
      BY <1>3 DEF LookAtTarget, BeginRead
    <2>3. MayMove => /\ writing => next # published
                     /\ \A w \in Words : slots[published][w] = LastPlanned
      BY <2>2 DEF MayMove, TwoWriterInv, TargetTypeOK, Slot
    <2>4. ASSUME NEW q \in Readers \ {r}
          PROVE  /\ reading'[q] => stage' = "control"
                 /\ ~reading'[q] => toRead'[q] = {}
                 /\ reading'[q] /\ moves'[q] =>
                      /\ writing' => next' # idx'[q]
                      /\ \A w \in Words : slots'[idx'[q]][w] = current'[q]
                 /\ moves'[q] => \A w \in Words \ toRead'[q] : copy'[q][w] = current'[q]
      BY <2>1, <2>2 DEF LookInv
    <2> QED BY <2>1, <2>2, <2>3, <2>4 DEF LookInv
  <1>4. ASSUME NEW r \in Readers, EndLook(r) PROVE LookInv'
    <2>1. CASE EndRead(r)
      <3>1. ~reading'[r] /\ \A q \in Readers \ {r} : reading'[q] = reading[q]
        BY <2>1 DEF EndRead, TargetTypeOK
      <3> QED BY <1>4, <2>1, <3>1 DEF EndLook, EndRead, LookInv
    <2>2. ASSUME NEW w \in Words, ReadWord(r, w) PROVE LookInv'
      <3>1. /\ toRead'[r] = toRead[r] \ {w}
            /\ \A v \in Words : copy'[r][v] = IF v = w THEN slots[idx[r]][w] ELSE copy[r][v]
            /\ \A q \in Readers \ {r} : toRead'[q] = toRead[q] /\ copy'[q] = copy[q]
        BY <2>2 DEF ReadWord, TargetTypeOK, Value
      <3> QED BY <1>4, <2>2, <3>1 DEF EndLook, ReadWord, LookInv
    <2> QED BY <1>4, <2>1, <2>2 DEF EndLook
  <1>5. CASE EndControl
    BY <1>5 DEF EndControl, LookInv
  <1>6. CASE RouteFails \/ BeginHold
    BY <1>6 DEF RouteFails, BeginHold, LookInv
  <1>7. CASE StoreHold
    BY <1>7 DEF StoreHold, LookInv
  <1>8. ASSUME NEW w \in Words, WriteHold(w) PROVE LookInv'
    BY <1>8 DEF WriteHold, LookInv
  <1>9. CASE UNCHANGED targetVars
    BY <1>9 DEF targetVars, LookInv
  <1> QED BY <1>1, <1>2, <1>3, <1>4, <1>5, <1>6, <1>7, <1>8, <1>9 DEF TargetNext

(* The invariant of the target buffer: whatever the two writers do to its  *)
(* slots, it is mended before it counts.                                   *)
THEOREM TargetInvariance == ASSUME ~Overtaking PROVE TargetSpec => []TargetInv
  <1>1. TargetInv /\ [TargetNext]_targetVars => TargetInv'
    BY TargetTypeStep, TwoWriterStep, LookStep DEF TargetInv
  <1> QED BY InitTargetInv, <1>1, PTL DEF TargetSpec

(* The slots and the index keep their types, whoever writes them. *)
THEOREM TargetTypeCorrect == TargetSpec => []TargetTypeOK
  <1>1. TargetInit => TargetTypeOK
    BY InitTargetInv DEF TargetInv
  <1> QED BY <1>1, TargetTypeStep, PTL DEF TargetSpec

(* The arm moves only towards a whole target, the last one of the planner, *)
(* if two planner iterations end within the motion inhibit, for targets of *)
(* any size, and any number of publishes and home routes.                  *)
THEOREM MovesOnWhole == ASSUME ~Overtaking PROVE TargetSpec => []MovesOnLastPlanned
  <1>1. TargetInv => MovesOnLastPlanned
    BY DEF TargetInv, LookInv, MovesOnLastPlanned
  <1> QED BY <1>1, TargetInvariance, PTL

(* The refinement: a look of the callback takes the register's value, the  *)
(* end of a planner iteration publishes the next one, and the main thread  *)
(* is not seen.                                                            *)
THEOREM TargetRefinement == ASSUME ~Overtaking PROVE TargetSpec => MovesByRegister
  <1> DEFINE taken == [r \in Readers |->
                         IF ~moves[r] THEN current[r]
                         ELSE IF reading[r] THEN slots[idx[r]][AnyWord] ELSE copy[r][AnyWord]]
  <1>1. AnyWord \in Words
    BY BufferAssumption DEF AnyWord
  <1>2. TargetInv => taken = current
    BY <1>1 DEF TargetInv, TargetTypeOK, LookInv
  <1>3. TargetInit => TargetRegister!Init
    BY DEF TargetInit, Init, TargetRegister!Init, LastPlanned
  <1>4. TargetInv /\ TargetInv' /\ [TargetNext]_targetVars
          => [TargetRegister!Next]_<<LastPlanned, taken>>
    <2> SUFFICES ASSUME TargetInv, TargetInv', [TargetNext]_targetVars
                 PROVE  TargetRegister!Next \/ UNCHANGED <<LastPlanned, taken>>
      OBVIOUS
    <2>1. taken = current /\ taken' = current'
      <3>1. TargetInv' => taken' = current'
        BY <1>1 DEF TargetInv, TargetTypeOK, LookInv
      <3> QED BY <1>2, <3>1
    <2> HIDE DEF taken
    <2> USE DEF vars, writer, reader, planner, main, cycle
    <2>2. CASE PlannerPublishes
      <3>1. CASE BeginPublish
        BY <2>1, <2>2, <3>1
        DEF PlannerPublishes, BeginPublish, LastPlanned, TargetInv, TargetTypeOK
      <3>2. ASSUME NEW w \in Words, WriteWord(w) PROVE UNCHANGED <<LastPlanned, taken>>
        BY <2>1, <2>2, <3>2 DEF PlannerPublishes, WriteWord, LastPlanned
      <3> QED BY <2>2, <3>1, <3>2 DEF PlannerPublishes
    <2>3. CASE PlannerEnds
      <3>1. LastPlanned' = LastPlanned + 1 /\ current' = current
        BY <2>3 DEF PlannerEnds, StoreIndex, LastPlanned, TargetInv, TargetTypeOK
      <3> QED BY <2>1, <3>1 DEF TargetRegister!Next, TargetRegister!Publish, taken
    <2>4. ASSUME NEW r \in Readers, LookAtTarget(r) PROVE TargetRegister!Next
      <3>1. current' = [current EXCEPT ![r] = LastPlanned] /\ LastPlanned' = LastPlanned
        BY <2>4 DEF LookAtTarget, BeginRead, LastPlanned
      <3>2. TargetRegister!Take(r)
        BY <2>1, <3>1 DEF TargetRegister!Take, taken
      <3> QED BY <3>2 DEF TargetRegister!Next
    <2>5. ASSUME NEW r \in Readers, EndLook(r) PROVE UNCHANGED <<LastPlanned, taken>>
      BY <2>1, <2>5 DEF EndLook, EndRead, ReadWord, LastPlanned
    <2>6. CASE EndControl \/ RouteFails \/ BeginHold \/ StoreHold
      BY <2>1, <2>6 DEF EndControl, RouteFails, BeginHold, StoreHold, LastPlanned
    <2>7. ASSUME NEW w \in Words, WriteHold(w) PROVE UNCHANGED <<LastPlanned, taken>>
      BY <2>1, <2>7 DEF WriteHold, LastPlanned
    <2>8. CASE UNCHANGED targetVars
      BY <2>1, <2>8 DEF targetVars, LastPlanned
    <2> QED BY <2>2, <2>3, <2>4, <2>5, <2>6, <2>7, <2>8 DEF TargetNext
  <1> QED BY <1>3, <1>4, TargetInvariance, PTL
          DEF TargetSpec, TargetRegister!Spec, MovesByRegister
=============================================================================
