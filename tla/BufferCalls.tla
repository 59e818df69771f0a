---------------------------- MODULE BufferCalls -----------------------------
(***************************************************************************)
(* One CircularBuffer and every sequence of calls a component can make on  *)
(* it.  The object is private to its owner, so that the calls never        *)
(* overlap: each of them is one step.                                      *)
(***************************************************************************)
EXTENDS CircularBuffer

CONSTANTS
  Sizes,        \* the bufferSize arguments Allocate is called with
  LargestSize   \* the largest bufferSize memory (and an int) has room for

ASSUME CallsAssumption ==
  /\ Sizes \subseteq Nat
  /\ LargestSize \in Nat

VARIABLES
  cb,           \* the buffer
  answer        \* the return code and the output of the last call

bufferVars == <<cb, answer>>

Returns(rc, out) == answer' = [rc |-> rc, out |-> out]

Init ==
  /\ \E size \in Sizes : cb = Allocate(size)
  /\ answer = [rc |-> 0, out |-> Zero]

CallEnqueue(e) ==
  /\ IsFull(cb) => 2 * cb.bufferSize <= LargestSize \/ cb.maxBufferSize # 0
  /\ cb' = Enqueue(cb, e)
  /\ Returns(IF CanEnqueue(cb) THEN 0 ELSE 1, Zero)

CallDequeue ==
  /\ cb' = Dequeue(cb)
  /\ Returns(IF IsEmpty(cb) THEN 1 ELSE 0, Oldest(cb))

CallFlush ==
  /\ cb' = Flush(cb)
  /\ Returns(0, Zero)

Next ==
  \/ \E e \in Element : CallEnqueue(e)
  \/ CallDequeue
  \/ CallFlush

Spec == Init /\ [][Next]_bufferVars

-----------------------------------------------------------------------------
(***************************************************************************)
(* Type invariant, with what Enqueue, Dequeue and Flush keep true of the   *)
(* indices: an element is always found where the next Dequeue looks.       *)
(***************************************************************************)
BufferInvariant ==
  /\ WellFormed(cb)
  /\ answer \in [rc : {0, 1}, out : Element \cup {Zero}]

(***************************************************************************)
(* Whatever the wrapping, the growth and the flushes, the buffer is a FIFO *)
(* queue of the capacity it was allocated with: circular_buffer.cpp        *)
(* implements the specification Fifo.                                      *)
(***************************************************************************)
Queue == INSTANCE Fifo WITH capacity <- cb.maxBufferSize,
                            queue <- Contents(cb),
                            Capacities <- Sizes

IsAFifo == Queue!Spec

=============================================================================
