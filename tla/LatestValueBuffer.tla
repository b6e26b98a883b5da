-------------------------- MODULE LatestValueBuffer --------------------------
(***************************************************************************)
(* LatestValueBuffer of common_types.h: two slots and the atomic index of  *)
(* the published one.  All state the threads of the bridge exchange goes   *)
(* through such buffers.  A value is a struct of many words, copied word   *)
(* by word in no particular order, by the publisher into the slot that is  *)
(* not published and by a reader out of the slot that was published when   *)
(* the read began.  Nothing keeps a second publish, which writes that very *)
(* slot, from starting before the read is over: Overtaking says whether    *)
(* one does.                                                               *)
(***************************************************************************)
EXTENDS Integers

CONSTANTS
  Readers,
  Words,        \* the words of a value
  MaxPublishes, \* bound: publishes
  Overtaking    \* a publish may start to write a slot that is being read

ASSUME BufferAssumption ==
  /\ Words # {}
  /\ MaxPublishes \in Nat
  /\ Overtaking \in BOOLEAN

VARIABLES
  slots,     \* slots_
  published, \* published_index_
  count,     \* publishes begun: the value being, or last, published
  writing,   \* a publish is under way
  next,      \* its slot
  toWrite,   \* the words it has still to copy
  reading,   \* which readers are in ReadLatest
  idx,       \* the slots they copy from
  toRead,    \* the words they have still to copy
  copy       \* what they have copied

writer == <<slots, published, count, writing, next, toWrite>>
reader == <<reading, idx, toRead, copy>>
vars   == <<writer, reader>>

Slot  == {0, 1}
Value == [Words -> Nat]

Init ==
  /\ slots = [s \in Slot |-> [w \in Words |-> 0]]
  /\ published = 0 /\ count = 0
  /\ writing = FALSE /\ next = 0 /\ toWrite = {}
  /\ reading = [r \in Readers |-> FALSE]
  /\ idx = [r \in Readers |-> 0]
  /\ toRead = [r \in Readers |-> {}]
  /\ copy = [r \in Readers |-> [w \in Words |-> 0]]

-----------------------------------------------------------------------------
(* Publish. *)

NextSlot == 1 - published

SlotFree == Overtaking \/ \A r \in Readers : reading[r] => idx[r] # NextSlot

BeginPublish ==
  /\ ~writing /\ count < MaxPublishes /\ SlotFree
  /\ writing' = TRUE
  /\ count' = count + 1
  /\ next' = NextSlot
  /\ toWrite' = Words
  /\ UNCHANGED <<slots, published, reader>>

WriteWord(w) ==
  /\ w \in toWrite
  /\ slots' = [slots EXCEPT ![next][w] = count]
  /\ toWrite' = toWrite \ {w}
  /\ UNCHANGED <<published, count, writing, next, reader>>

(* Mutation: the index is stored while words are still being copied. *)
StoreIndexEarly ==
  /\ writing /\ toWrite # Words
  /\ published' = next
  /\ writing' = FALSE /\ toWrite' = {}
  /\ UNCHANGED <<slots, count, next, reader>>

StoreIndex ==
  /\ writing /\ toWrite = {}
  /\ published' = next
  /\ writing' = FALSE
  /\ UNCHANGED <<slots, count, next, toWrite, reader>>

-----------------------------------------------------------------------------
(* ReadLatest. *)

BeginRead(r) ==
  /\ ~reading[r]
  /\ reading' = [reading EXCEPT ![r] = TRUE]
  /\ idx' = [idx EXCEPT ![r] = published]
  /\ toRead' = [toRead EXCEPT ![r] = Words]
  /\ UNCHANGED <<writer, copy>>

ReadWord(r, w) ==
  /\ w \in toRead[r]
  /\ copy' = [copy EXCEPT ![r][w] = slots[idx[r]][w]]
  /\ toRead' = [toRead EXCEPT ![r] = toRead[r] \ {w}]
  /\ UNCHANGED <<writer, reading, idx>>

EndRead(r) ==
  /\ reading[r] /\ toRead[r] = {}
  /\ reading' = [reading EXCEPT ![r] = FALSE]
  /\ UNCHANGED <<writer, idx, toRead, copy>>

Next ==
  \/ BeginPublish \/ StoreIndex
  \/ \E w \in Words : WriteWord(w)
  \/ \E r \in Readers : BeginRead(r) \/ EndRead(r)
  \/ \E r \in Readers, w \in Words : ReadWord(r, w)

Spec == Init /\ [][Next]_vars

-----------------------------------------------------------------------------
TypeOK ==
  /\ slots \in [Slot -> Value]
  /\ published \in Slot /\ next \in Slot
  /\ count \in Nat
  /\ writing \in BOOLEAN /\ toWrite \subseteq Words
  /\ reading \in [Readers -> BOOLEAN]
  /\ idx \in [Readers -> Slot]
  /\ toRead \in [Readers -> SUBSET Words]
  /\ copy \in [Readers -> Value]

(* What ReadLatest returns is a value somebody published, not words of two *)
(* values: QUEST3_REAL_TESTING.md:215 promises `no partial reads'.         *)
NoTornRead ==
  \A r \in Readers : toRead[r] = {} => \A v, w \in Words : copy[r][v] = copy[r][w]

(* The buffer implements the register: the published slot holds its value, *)
(* and a read takes effect when it loads the index.  It follows that reads *)
(* never go back in time and never miss a publish that ended before them.  *)
AnyWord == CHOOSE w \in Words : TRUE

Register ==
  INSTANCE LatestValue WITH
    value <- slots[published][AnyWord],
    taken <- [r \in Readers |-> IF reading[r] THEN slots[idx[r]][AnyWord]
                                              ELSE copy[r][AnyWord]]

ImplementsRegister == Register!Spec
=============================================================================
