--------------------------- MODULE CircularBuffer ---------------------------
(***************************************************************************)
(* The CircularBuffer class of src/src/utils/circular_buffer.cpp as        *)
(* operators on a record that holds the fields of the object.  The bytes   *)
(* the void* buffer points to are a function from slots to elements: one   *)
(* slot stands for the elementSize bytes at slot * elementSize.            *)
(***************************************************************************)
EXTENDS Integers, Sequences

CONSTANTS
  Element,            \* the messages a buffer may hold
  Zero,               \* the zero bytes Dequeue writes when it finds nothing
  Unwritten,          \* the content of malloc'ed memory nobody wrote to
  DefaultBufferSize   \* defaultBufferSize, the first size of a growing buffer

ASSUME BufferAssumption ==
  /\ DefaultBufferSize \in Nat \ {0}
  /\ Unwritten \notin Element

Cell == Element \cup {Unwritten}

(***************************************************************************)
(* A new buffer.  maxBufferSize = 0 is the one that "can grow              *)
(* undefinitely".                                                          *)
(***************************************************************************)
Allocate(size) ==
  LET allocated == IF size = 0 THEN DefaultBufferSize ELSE size
  IN  [ occupation    |-> 0,
        maxBufferSize |-> size,
        bufferSize    |-> allocated,
        startOfBuffer |-> 0,
        endOfBuffer   |-> 0,
        buffer        |-> [i \in 0 .. allocated - 1 |-> Unwritten] ]

IsFull(cb)  == cb.occupation = cb.bufferSize
IsEmpty(cb) == cb.occupation = 0

(***************************************************************************)
(* ++index; if (index == bufferSize) index = 0; the slip is to compare     *)
(* before the increment.                                                   *)
(***************************************************************************)
AdvanceLate(index, size) == IF index = size THEN 0 ELSE index + 1

Advance(index, size) == IF index + 1 = size THEN 0 ELSE index + 1

(***************************************************************************)
(* The slot of the i-th oldest element, i counted from 0.                  *)
(***************************************************************************)
Slot(cb, i) ==
  IF cb.startOfBuffer + i < cb.bufferSize
    THEN cb.startOfBuffer + i
    ELSE (cb.startOfBuffer + i) - cb.bufferSize

(***************************************************************************)
(* A slip in the reallocation: one copy of the whole old memory, which     *)
(* forgets that the oldest element need not be in slot 0.                  *)
(***************************************************************************)
GrowWithOneCopy(cb) ==
  [ occupation    |-> cb.occupation,
    maxBufferSize |-> cb.maxBufferSize,
    bufferSize    |-> 2 * cb.bufferSize,
    startOfBuffer |-> 0,
    endOfBuffer   |-> cb.bufferSize,
    buffer        |-> [ i \in 0 .. 2 * cb.bufferSize - 1 |->
                          IF i < cb.bufferSize THEN cb.buffer[i]
                                               ELSE Unwritten ] ]

(***************************************************************************)
(* The reallocation of a full unbounded buffer: the part from              *)
(* startOfBuffer on is copied first and the wrapped part behind it, so     *)
(* that the oldest element ends up in slot 0 (with startOfBuffer = 0 the   *)
(* two copies are the single memcpy of the else branch).                   *)
(***************************************************************************)
Grow(cb) ==
  [ occupation    |-> cb.occupation,
    maxBufferSize |-> cb.maxBufferSize,
    bufferSize    |-> 2 * cb.bufferSize,
    startOfBuffer |-> 0,
    endOfBuffer   |-> cb.bufferSize,
    buffer        |-> [ i \in 0 .. 2 * cb.bufferSize - 1 |->
                          IF i < cb.bufferSize THEN cb.buffer[Slot(cb, i)]
                                               ELSE Unwritten ] ]

(***************************************************************************)
(* Enqueue returns 1 and changes nothing when a bounded buffer is full.    *)
(***************************************************************************)
CanEnqueue(cb) == ~IsFull(cb) \/ cb.maxBufferSize = 0

Store(cb, e) ==
  [ occupation    |-> cb.occupation + 1,
    maxBufferSize |-> cb.maxBufferSize,
    bufferSize    |-> cb.bufferSize,
    startOfBuffer |-> cb.startOfBuffer,
    endOfBuffer   |-> Advance(cb.endOfBuffer, cb.bufferSize),
    buffer        |-> [cb.buffer EXCEPT ![cb.endOfBuffer] = e] ]

Enqueue(cb, e) ==
  IF ~CanEnqueue(cb) THEN cb
  ELSE IF IsFull(cb) THEN Store(Grow(cb), e)
  ELSE Store(cb, e)

(***************************************************************************)
(* Dequeue hands out the element at startOfBuffer, or zeroes when empty.   *)
(***************************************************************************)
Oldest(cb) == IF IsEmpty(cb) THEN Zero ELSE cb.buffer[cb.startOfBuffer]

WithRange(cb, occupation, start) ==
  [ occupation    |-> occupation,
    maxBufferSize |-> cb.maxBufferSize,
    bufferSize    |-> cb.bufferSize,
    startOfBuffer |-> start,
    endOfBuffer   |-> cb.endOfBuffer,
    buffer        |-> cb.buffer ]

Dequeue(cb) ==
  IF IsEmpty(cb) THEN cb
  ELSE WithRange(cb, cb.occupation - 1, Advance(cb.startOfBuffer, cb.bufferSize))

(***************************************************************************)
(* Flush moves startOfBuffer up to endOfBuffer; the slip is to move it     *)
(* back to 0.                                                              *)
(***************************************************************************)
FlushToZero(cb) == WithRange(cb, 0, 0)

Flush(cb) == WithRange(cb, 0, cb.endOfBuffer)

(***************************************************************************)
(* The queue a buffer represents, oldest element first.                    *)
(***************************************************************************)
Contents(cb) == [ i \in 1 .. cb.occupation |-> cb.buffer[Slot(cb, i - 1)] ]

(***************************************************************************)
(* What the three indices and the memory have to do with each other.  The  *)
(* last conjunct says that no occupied slot is memory nobody wrote to.     *)
(***************************************************************************)
WellFormed(cb) ==
  /\ cb \in [ occupation    : 0 .. cb.bufferSize,
               maxBufferSize : Nat,
               bufferSize    : Nat \ {0},
               startOfBuffer : 0 .. cb.bufferSize - 1,
               endOfBuffer   : 0 .. cb.bufferSize - 1,
               buffer        : [0 .. cb.bufferSize - 1 -> Cell] ]
  /\ cb.maxBufferSize # 0 => cb.bufferSize = cb.maxBufferSize
  /\ cb.endOfBuffer = Slot(cb, cb.occupation)
  /\ \A i \in 0 .. cb.occupation - 1 : cb.buffer[Slot(cb, i)] \in Element
=============================================================================
