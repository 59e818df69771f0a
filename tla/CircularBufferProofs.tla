------------------------ MODULE CircularBufferProofs ------------------------
(***************************************************************************)
(* What the operations of CircularBuffer do to the queue a buffer stands   *)
(* for, for every element type, size and sequence of wraps.                *)
(***************************************************************************)
EXTENDS CircularBuffer, TLAPS

(***************************************************************************)
(* The type of a buffer's fields, spelled out for the provers.             *)
(***************************************************************************)
LEMMA Fields ==
  ASSUME NEW cb, WellFormed(cb)
  PROVE  /\ cb.bufferSize \in Nat \ {0}
         /\ cb.occupation \in 0 .. cb.bufferSize
         /\ cb.maxBufferSize \in Nat
         /\ cb.startOfBuffer \in 0 .. cb.bufferSize - 1
         /\ cb.endOfBuffer \in 0 .. cb.bufferSize - 1
         /\ cb.buffer \in [0 .. cb.bufferSize - 1 -> Cell]
         /\ \A i \in 0 .. cb.bufferSize - 1 : Slot(cb, i) \in 0 .. cb.bufferSize - 1
  BY DEF WellFormed, Slot

(***************************************************************************)
(* A buffer is a record with these six fields and no other.                *)
(***************************************************************************)
LEMMA IsRecord ==
  ASSUME NEW cb, WellFormed(cb)
  PROVE  cb = [ occupation    |-> cb.occupation,
                maxBufferSize |-> cb.maxBufferSize,
                bufferSize    |-> cb.bufferSize,
                startOfBuffer |-> cb.startOfBuffer,
                endOfBuffer   |-> cb.endOfBuffer,
                buffer        |-> cb.buffer ]
  BY DEF WellFormed

(***************************************************************************)
(* The contents of a buffer are a sequence of elements.                    *)
(***************************************************************************)
LEMMA ContentsType ==
  ASSUME NEW cb, WellFormed(cb)
  PROVE  /\ Contents(cb) \in Seq(Element)
         /\ Len(Contents(cb)) = cb.occupation
         /\ \A i \in 1 .. cb.occupation : Contents(cb)[i] = cb.buffer[Slot(cb, i - 1)]
<1>1. cb.occupation \in Nat
  BY Fields
<1>2. \A i \in 1 .. cb.occupation : cb.buffer[Slot(cb, i - 1)] \in Element
  <2> TAKE i \in 1 .. cb.occupation
  <2>1. i - 1 \in 0 .. cb.occupation - 1
    BY <1>1
  <2> QED BY <2>1 DEF WellFormed
<1>3. Contents(cb) \in [1 .. cb.occupation -> Element]
  BY <1>2 DEF Contents
<1>4. Contents(cb) \in Seq(Element) /\ Len(Contents(cb)) = cb.occupation
  BY <1>1, <1>3
<1>5. \A i \in 1 .. cb.occupation : Contents(cb)[i] = cb.buffer[Slot(cb, i - 1)]
  BY DEF Contents
<1> QED BY <1>4, <1>5

(***************************************************************************)
(* Two sequences of the same length with the same elements are equal.      *)
(***************************************************************************)
LEMMA SameElements ==
  ASSUME NEW s \in Seq(Element), NEW t \in Seq(Element), Len(s) = Len(t),
         \A i \in 1 .. Len(s) : s[i] = t[i]
  PROVE  s = t
  OBVIOUS

(***************************************************************************)
(* Allocate makes an empty queue.                                          *)
(***************************************************************************)
LEMMA AllocateEmpty ==
  ASSUME NEW size \in Nat
  PROVE  /\ WellFormed(Allocate(size))
         /\ Contents(Allocate(size)) = <<>>
         /\ Allocate(size).maxBufferSize = size
  BY BufferAssumption DEF Allocate, WellFormed, Contents, Slot, Cell

(***************************************************************************)
(* A buffer has room, in the eyes of Enqueue, exactly when the queue it    *)
(* stands for accepts an element.                                          *)
(***************************************************************************)
LEMMA RoomIsCapacity ==
  ASSUME NEW cb, WellFormed(cb)
  PROVE  CanEnqueue(cb) <=> \/ cb.maxBufferSize = 0
                            \/ Len(Contents(cb)) < cb.maxBufferSize
<1>1. Len(Contents(cb)) = cb.occupation
  BY ContentsType
<1>2. cb.maxBufferSize # 0 => cb.bufferSize = cb.maxBufferSize
  BY DEF WellFormed
<1> QED BY <1>1, <1>2, Fields DEF CanEnqueue, IsFull

(***************************************************************************)
(* Growing keeps the queue and makes room.                                 *)
(***************************************************************************)
LEMMA GrowKeeps ==
  ASSUME NEW cb, WellFormed(cb), IsFull(cb), cb.maxBufferSize = 0
  PROVE  /\ WellFormed(Grow(cb))
         /\ ~IsFull(Grow(cb))
         /\ Contents(Grow(cb)) = Contents(cb)
         /\ Grow(cb).maxBufferSize = 0
<1> DEFINE g == Grow(cb)
<1> USE Fields
<1>1. g = [ occupation    |-> cb.occupation,
            maxBufferSize |-> 0,
            bufferSize    |-> 2 * cb.bufferSize,
            startOfBuffer |-> 0,
            endOfBuffer   |-> cb.bufferSize,
            buffer        |-> [ i \in 0 .. 2 * cb.bufferSize - 1 |->
                                  IF i < cb.bufferSize THEN cb.buffer[Slot(cb, i)]
                                                       ELSE Unwritten ] ]
  BY DEF Grow
<1> HIDE DEF g
<1>2. cb.occupation = cb.bufferSize
  BY DEF IsFull
<1>3. \A i \in 0 .. cb.bufferSize - 1 : Slot(g, i) = i
  BY <1>1 DEF Slot
<1>4. \A i \in 0 .. cb.bufferSize - 1 : g.buffer[Slot(g, i)] = cb.buffer[Slot(cb, i)]
  <2> TAKE i \in 0 .. cb.bufferSize - 1
  <2>1. i \in 0 .. 2 * cb.bufferSize - 1 /\ i < cb.bufferSize
    OBVIOUS
  <2>2. g.buffer[i] = cb.buffer[Slot(cb, i)]
    BY <1>1, <2>1
  <2> QED BY <1>3, <2>2
<1>5. g.buffer \in [0 .. 2 * cb.bufferSize - 1 -> Cell]
  <2>1. \A i \in 0 .. cb.bufferSize - 1 : cb.buffer[Slot(cb, i)] \in Cell
    OBVIOUS
  <2> QED BY <1>1, <2>1 DEF Cell
<1>6. WellFormed(g)
  <2>1. \A i \in 0 .. g.occupation - 1 : g.buffer[Slot(g, i)] \in Element
    BY <1>1, <1>2, <1>4 DEF WellFormed
  <2>2. g.endOfBuffer = Slot(g, g.occupation)
    BY <1>1, <1>2 DEF Slot
  <2>3. g \in [ occupation    : 0 .. g.bufferSize,
                maxBufferSize : Nat,
                bufferSize    : Nat \ {0},
                startOfBuffer : 0 .. g.bufferSize - 1,
                endOfBuffer   : 0 .. g.bufferSize - 1,
                buffer        : [0 .. g.bufferSize - 1 -> Cell] ]
    <3>1. g.bufferSize = 2 * cb.bufferSize /\ g.buffer \in [0 .. g.bufferSize - 1 -> Cell]
      BY <1>1, <1>5
    <3>2. /\ g.occupation \in 0 .. g.bufferSize
          /\ g.maxBufferSize \in Nat
          /\ g.bufferSize \in Nat \ {0}
          /\ g.startOfBuffer \in 0 .. g.bufferSize - 1
          /\ g.endOfBuffer \in 0 .. g.bufferSize - 1
      BY <1>1, <1>2
    <3>3. g = [ occupation    |-> g.occupation,
                maxBufferSize |-> g.maxBufferSize,
                bufferSize    |-> g.bufferSize,
                startOfBuffer |-> g.startOfBuffer,
                endOfBuffer   |-> g.endOfBuffer,
                buffer        |-> g.buffer ]
      BY <1>1
    <3> QED BY <3>1, <3>2, <3>3
  <2> QED BY <1>1, <2>1, <2>2, <2>3 DEF WellFormed
<1>7. ~IsFull(g) /\ g.maxBufferSize = 0
  BY <1>1, <1>2 DEF IsFull
<1>8. Contents(g) = Contents(cb)
  <2>1. g.occupation = cb.occupation
    BY <1>1
  <2>2. \A i \in 1 .. cb.occupation : g.buffer[Slot(g, i - 1)] = cb.buffer[Slot(cb, i - 1)]
    BY <1>2, <1>4
  <2> QED BY <2>1, <2>2 DEF Contents
<1> QED BY <1>6, <1>7, <1>8 DEF g

(***************************************************************************)
(* Storing into a buffer that is not full appends to its queue.            *)
(***************************************************************************)
LEMMA StoreAppends ==
  ASSUME NEW cb, WellFormed(cb), ~IsFull(cb), NEW e \in Element,
         NEW g, g = Store(cb, e)
  PROVE  /\ WellFormed(g)
         /\ Contents(g) = Append(Contents(cb), e)
         /\ g.maxBufferSize = cb.maxBufferSize
<1>0. /\ cb.bufferSize \in Nat \ {0}
      /\ cb.occupation \in 0 .. cb.bufferSize
      /\ cb.maxBufferSize \in Nat
      /\ cb.startOfBuffer \in 0 .. cb.bufferSize - 1
      /\ cb.endOfBuffer \in 0 .. cb.bufferSize - 1
  BY Fields
<1>m. cb.buffer \in [0 .. cb.bufferSize - 1 -> Cell]
  BY Fields
<1>s. \A i \in 0 .. cb.bufferSize - 1 : Slot(cb, i) \in 0 .. cb.bufferSize - 1
  BY Fields
<1>1. g = [ occupation    |-> cb.occupation + 1,
            maxBufferSize |-> cb.maxBufferSize,
            bufferSize    |-> cb.bufferSize,
            startOfBuffer |-> cb.startOfBuffer,
            endOfBuffer   |-> Advance(cb.endOfBuffer, cb.bufferSize),
            buffer        |-> [cb.buffer EXCEPT ![cb.endOfBuffer] = e] ]
  BY DEF Store
<1>f. /\ g.occupation = cb.occupation + 1
      /\ g.maxBufferSize = cb.maxBufferSize
      /\ g.bufferSize = cb.bufferSize
      /\ g.startOfBuffer = cb.startOfBuffer
      /\ g.endOfBuffer = Advance(cb.endOfBuffer, cb.bufferSize)
  BY <1>1
<1>g. g.buffer = [cb.buffer EXCEPT ![cb.endOfBuffer] = e]
  BY <1>1
<1>2. cb.occupation < cb.bufferSize /\ cb.endOfBuffer = Slot(cb, cb.occupation)
  BY <1>0 DEF IsFull, WellFormed
<1>3. \A i \in 0 .. cb.bufferSize - 1 : Slot(g, i) = Slot(cb, i)
  BY <1>f DEF Slot
<1>4. \A i \in 0 .. cb.occupation - 1 : g.buffer[Slot(g, i)] = cb.buffer[Slot(cb, i)]
  <2> TAKE i \in 0 .. cb.occupation - 1
  <2>1. i \in 0 .. cb.bufferSize - 1 /\ Slot(cb, i) # cb.endOfBuffer
    BY <1>0, <1>2 DEF Slot
  <2> QED BY <1>m, <1>s, <1>g, <1>3, <2>1
<1>5. g.buffer[Slot(g, cb.occupation)] = e
  <2>1. cb.occupation \in 0 .. cb.bufferSize - 1
    BY <1>0, <1>2
  <2>2. Slot(g, cb.occupation) = cb.endOfBuffer
    BY <1>2, <1>3, <2>1
  <2> QED BY <1>0, <1>m, <1>g, <2>2
<1>6. WellFormed(g)
  <2>1. g.buffer \in [0 .. g.bufferSize - 1 -> Cell]
    BY <1>0, <1>f, <1>m, <1>g DEF Cell
  <2>2. /\ g.occupation \in 0 .. g.bufferSize
        /\ g.maxBufferSize \in Nat
        /\ g.bufferSize \in Nat \ {0}
        /\ g.startOfBuffer \in 0 .. g.bufferSize - 1
        /\ g.endOfBuffer \in 0 .. g.bufferSize - 1
    BY <1>0, <1>f, <1>2 DEF Advance
  <2>3. g = [ occupation    |-> g.occupation,
              maxBufferSize |-> g.maxBufferSize,
              bufferSize    |-> g.bufferSize,
              startOfBuffer |-> g.startOfBuffer,
              endOfBuffer   |-> g.endOfBuffer,
              buffer        |-> g.buffer ]
    BY <1>1
  <2>4. g.endOfBuffer = Slot(g, g.occupation)
    <3>1. /\ cb.occupation < cb.bufferSize
          /\ cb.endOfBuffer = IF cb.startOfBuffer + cb.occupation < cb.bufferSize
                                THEN cb.startOfBuffer + cb.occupation
                                ELSE (cb.startOfBuffer + cb.occupation) - cb.bufferSize
      BY <1>2 DEF Slot
    <3>2. Slot(g, g.occupation) =
            IF cb.startOfBuffer + (cb.occupation + 1) < cb.bufferSize
              THEN cb.startOfBuffer + (cb.occupation + 1)
              ELSE (cb.startOfBuffer + (cb.occupation + 1)) - cb.bufferSize
      BY <1>f DEF Slot
    <3> QED BY <1>0, <1>f, <3>1, <3>2 DEF Advance
  <2>5. \A i \in 0 .. g.occupation - 1 : g.buffer[Slot(g, i)] \in Element
    <3> TAKE i \in 0 .. g.occupation - 1
    <3>1. i \in 0 .. cb.occupation - 1 \/ i = cb.occupation
      BY <1>0, <1>f
    <3> QED BY <3>1, <1>4, <1>5 DEF WellFormed
  <2>6. g.maxBufferSize # 0 => g.bufferSize = g.maxBufferSize
    BY <1>f DEF WellFormed
  <2> QED BY <2>1, <2>2, <2>3, <2>4, <2>5, <2>6 DEF WellFormed
<1>7. Contents(g) = Append(Contents(cb), e)
  <2>1. /\ Contents(cb) \in Seq(Element)
        /\ Len(Contents(cb)) = cb.occupation
        /\ \A i \in 1 .. cb.occupation : Contents(cb)[i] = cb.buffer[Slot(cb, i - 1)]
    BY ContentsType
  <2>2. /\ Contents(g) \in Seq(Element)
        /\ Len(Contents(g)) = cb.occupation + 1
        /\ \A i \in 1 .. cb.occupation + 1 : Contents(g)[i] = g.buffer[Slot(g, i - 1)]
    <3>1. /\ Contents(g) \in Seq(Element)
          /\ Len(Contents(g)) = g.occupation
          /\ \A i \in 1 .. g.occupation : Contents(g)[i] = g.buffer[Slot(g, i - 1)]
      BY <1>6, ContentsType
    <3> QED BY <3>1, <1>f
  <2>3. \A i \in 1 .. cb.occupation : Contents(g)[i] = Contents(cb)[i]
    <3> TAKE i \in 1 .. cb.occupation
    <3>1. i - 1 \in 0 .. cb.occupation - 1 /\ i \in 1 .. cb.occupation + 1
      BY <1>0
    <3> QED BY <3>1, <1>4, <2>1, <2>2
  <2>4. Contents(g)[cb.occupation + 1] = e
    <3>1. /\ cb.occupation + 1 \in 1 .. cb.occupation + 1
          /\ (cb.occupation + 1) - 1 = cb.occupation
      BY <1>0
    <3> QED BY <3>1, <1>5, <2>2
  <2> QED BY <1>0, <2>1, <2>2, <2>3, <2>4, SameElements
<1>8. g.maxBufferSize = cb.maxBufferSize
  BY <1>1
<1> QED BY <1>6, <1>7, <1>8

(***************************************************************************)
(* Enqueue appends to the queue, or refuses and changes nothing.           *)
(***************************************************************************)
LEMMA EnqueueAppends ==
  ASSUME NEW cb, WellFormed(cb), NEW e \in Element
  PROVE  /\ WellFormed(Enqueue(cb, e))
         /\ Enqueue(cb, e).maxBufferSize = cb.maxBufferSize
         /\ Contents(Enqueue(cb, e)) =
              IF CanEnqueue(cb) THEN Append(Contents(cb), e) ELSE Contents(cb)
<1>1. CASE ~CanEnqueue(cb)
  BY <1>1 DEF Enqueue
<1>2. CASE CanEnqueue(cb) /\ IsFull(cb)
  <2>1. cb.maxBufferSize = 0
    BY <1>2 DEF CanEnqueue
  <2>2. Enqueue(cb, e) = Store(Grow(cb), e)
    BY <1>2 DEF Enqueue
  <2> QED BY <1>2, <2>1, <2>2, GrowKeeps, StoreAppends
<1>3. CASE ~IsFull(cb)
  <2>1. CanEnqueue(cb) /\ Enqueue(cb, e) = Store(cb, e)
    BY <1>3 DEF Enqueue, CanEnqueue
  <2> QED BY <1>3, <2>1, StoreAppends
<1> QED BY <1>1, <1>2, <1>3

(***************************************************************************)
(* Dequeue of a buffer that holds something removes the oldest element and *)
(* hands it out; of an empty one it changes nothing.                       *)
(***************************************************************************)
LEMMA DequeueRemoves ==
  ASSUME NEW cb, WellFormed(cb), NEW g, g = Dequeue(cb)
  PROVE  /\ WellFormed(g)
         /\ g.maxBufferSize = cb.maxBufferSize
         /\ IsEmpty(cb) <=> Contents(cb) = <<>>
         /\ IsEmpty(cb) => g = cb /\ Oldest(cb) = Zero
         /\ ~IsEmpty(cb) => /\ Contents(g) = Tail(Contents(cb))
                            /\ Oldest(cb) = Head(Contents(cb))
                            /\ Oldest(cb) \in Element
<1>0. /\ cb.bufferSize \in Nat \ {0}
      /\ cb.occupation \in 0 .. cb.bufferSize
      /\ cb.maxBufferSize \in Nat
      /\ cb.startOfBuffer \in 0 .. cb.bufferSize - 1
      /\ cb.endOfBuffer \in 0 .. cb.bufferSize - 1
  BY Fields
<1>c. /\ Contents(cb) \in Seq(Element)
      /\ Len(Contents(cb)) = cb.occupation
      /\ \A i \in 1 .. cb.occupation : Contents(cb)[i] = cb.buffer[Slot(cb, i - 1)]
  BY ContentsType
<1>1. IsEmpty(cb) <=> Contents(cb) = <<>>
  BY <1>0, <1>c DEF IsEmpty
<1>2. CASE IsEmpty(cb)
  BY <1>1, <1>2 DEF Dequeue, Oldest
<1>3. CASE ~IsEmpty(cb)
  <2>1. g = WithRange(cb, cb.occupation - 1, Advance(cb.startOfBuffer, cb.bufferSize))
    BY <1>3 DEF Dequeue
  <2>f. /\ g.occupation = cb.occupation - 1
        /\ g.maxBufferSize = cb.maxBufferSize
        /\ g.bufferSize = cb.bufferSize
        /\ g.startOfBuffer = Advance(cb.startOfBuffer, cb.bufferSize)
        /\ g.endOfBuffer = cb.endOfBuffer
    BY <2>1 DEF WithRange
  <2>g. g.buffer = cb.buffer
    BY <2>1 DEF WithRange
  <2>2. cb.occupation \in 1 .. cb.bufferSize
    BY <1>0, <1>3 DEF IsEmpty
  <2>3. \A i \in 0 .. cb.bufferSize - 1 : Slot(g, i) = Slot(cb, i + 1)
    <3> TAKE i \in 0 .. cb.bufferSize - 1
    <3> QED BY <1>0, <2>f DEF Slot, Advance
  <2>4. WellFormed(g)
    <3>1. g.buffer \in [0 .. g.bufferSize - 1 -> Cell]
      BY <2>f, <2>g, Fields
    <3>2. /\ g.occupation \in 0 .. g.bufferSize
          /\ g.maxBufferSize \in Nat
          /\ g.bufferSize \in Nat \ {0}
          /\ g.startOfBuffer \in 0 .. g.bufferSize - 1
          /\ g.endOfBuffer \in 0 .. g.bufferSize - 1
      BY <1>0, <2>2, <2>f DEF Advance
    <3>3. g = [ occupation    |-> g.occupation,
                maxBufferSize |-> g.maxBufferSize,
                bufferSize    |-> g.bufferSize,
                startOfBuffer |-> g.startOfBuffer,
                endOfBuffer   |-> g.endOfBuffer,
                buffer        |-> g.buffer ]
      BY <2>1 DEF WithRange
    <3>4. g.endOfBuffer = Slot(g, g.occupation)
      <4>1. cb.occupation - 1 \in 0 .. cb.bufferSize - 1 /\ (cb.occupation - 1) + 1 = cb.occupation
        BY <1>0, <2>2
      <4>2. Slot(g, cb.occupation - 1) = Slot(cb, cb.occupation)
        BY <2>3, <4>1
      <4>3. cb.endOfBuffer = Slot(cb, cb.occupation)
        BY DEF WellFormed
      <4> QED BY <2>f, <4>2, <4>3
    <3>5. \A i \in 0 .. g.occupation - 1 : g.buffer[Slot(g, i)] \in Element
      <4> TAKE i \in 0 .. g.occupation - 1
      <4>1. i \in 0 .. cb.bufferSize - 1 /\ i + 1 \in 0 .. cb.occupation - 1
        BY <1>0, <2>2, <2>f
      <4>2. cb.buffer[Slot(cb, i + 1)] \in Element
        BY <4>1 DEF WellFormed
      <4> QED BY <2>3, <2>g, <4>1, <4>2
    <3>6. g.maxBufferSize # 0 => g.bufferSize = g.maxBufferSize
      BY <2>f DEF WellFormed
    <3> QED BY <3>1, <3>2, <3>3, <3>4, <3>5, <3>6 DEF WellFormed
  <2>5. Contents(g) = Tail(Contents(cb))
    <3>1. /\ Contents(g) \in Seq(Element)
          /\ Len(Contents(g)) = cb.occupation - 1
          /\ \A i \in 1 .. g.occupation : Contents(g)[i] = g.buffer[Slot(g, i - 1)]
      BY <2>4, <2>f, ContentsType
    <3>2. /\ Tail(Contents(cb)) \in Seq(Element)
          /\ Len(Tail(Contents(cb))) = cb.occupation - 1
          /\ \A i \in 1 .. cb.occupation - 1 : Tail(Contents(cb))[i] = Contents(cb)[i + 1]
      BY <1>c, <2>2
    <3>3. \A i \in 1 .. cb.occupation - 1 : Contents(g)[i] = Tail(Contents(cb))[i]
      <4> TAKE i \in 1 .. cb.occupation - 1
      <4>1. /\ i - 1 \in 0 .. cb.bufferSize - 1
            /\ (i - 1) + 1 = i
            /\ i + 1 \in 1 .. cb.occupation
            /\ (i + 1) - 1 = i
            /\ i \in 1 .. g.occupation
        BY <1>0, <2>2, <2>f
      <4>2. Contents(g)[i] = cb.buffer[Slot(cb, i)]
        BY <2>3, <2>g, <3>1, <4>1
      <4>3. Tail(Contents(cb))[i] = cb.buffer[Slot(cb, i)]
        BY <1>c, <3>2, <4>1
      <4> QED BY <4>2, <4>3
    <3> QED BY <3>1, <3>2, <3>3, SameElements
  <2>6. Oldest(cb) = Head(Contents(cb)) /\ Oldest(cb) \in Element
    <3>1. Slot(cb, 0) = cb.startOfBuffer
      BY <1>0 DEF Slot
    <3>2. Contents(cb)[1] = cb.buffer[cb.startOfBuffer]
      BY <1>c, <2>2, <3>1
    <3>3. Head(Contents(cb)) = Contents(cb)[1] /\ Contents(cb)[1] \in Element
      BY <1>c, <2>2
    <3> QED BY <1>3, <3>2, <3>3 DEF Oldest
  <2> QED BY <1>3, <2>4, <2>f, <2>5, <2>6, <1>1
<1> QED BY <1>2, <1>3

(***************************************************************************)
(* Flush empties the queue, wherever in the memory its elements were.      *)
(***************************************************************************)
LEMMA FlushEmpties ==
  ASSUME NEW cb, WellFormed(cb), NEW g, g = Flush(cb)
  PROVE  /\ WellFormed(g)
         /\ g.maxBufferSize = cb.maxBufferSize
         /\ Contents(g) = <<>>
<1>1. g = [ occupation    |-> 0,
            maxBufferSize |-> cb.maxBufferSize,
            bufferSize    |-> cb.bufferSize,
            startOfBuffer |-> cb.endOfBuffer,
            endOfBuffer   |-> cb.endOfBuffer,
            buffer        |-> cb.buffer ]
  BY DEF Flush, WithRange
<1>2. Slot(g, 0) = cb.endOfBuffer
  BY <1>1, Fields DEF Slot
<1>3. WellFormed(g)
  BY <1>1, <1>2, Fields DEF WellFormed
<1>4. Contents(g) = <<>>
  BY <1>1 DEF Contents
<1> QED BY <1>1, <1>3, <1>4
=============================================================================
