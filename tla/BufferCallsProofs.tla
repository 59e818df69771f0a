------------------------- MODULE BufferCallsProofs --------------------------
(***************************************************************************)
(* For every element type, every set of sizes and every default size: the  *)
(* calls on a CircularBuffer keep it well formed and behave as those of a  *)
(* FIFO queue.                                                             *)
(***************************************************************************)
EXTENDS BufferCalls, CircularBufferProofs

-----------------------------------------------------------------------------
(***************************************************************************)
(* The invariant of the buffer: occupation, startOfBuffer and endOfBuffer  *)
(* agree after every Enqueue, growth, Dequeue and Flush, and no call hands *)
(* out memory that was never written.                                      *)
(***************************************************************************)
THEOREM BufferIsWellFormed == Spec => []BufferInvariant
<1>1. Init => BufferInvariant
  <2> SUFFICES ASSUME NEW size \in Sizes, cb = Allocate(size),
                      answer = [rc |-> 0, out |-> Zero]
               PROVE  BufferInvariant
    BY DEF Init
  <2>1. size \in Nat
    BY CallsAssumption
  <2>2. WellFormed(cb)
    BY <2>1, AllocateEmpty
  <2> QED BY <2>2 DEF BufferInvariant
<1>2. BufferInvariant /\ [Next]_bufferVars => BufferInvariant'
  <2> SUFFICES ASSUME BufferInvariant, [Next]_bufferVars
               PROVE  WellFormed(cb') /\ answer' \in [rc : {0, 1}, out : Element \cup {Zero}]
    BY DEF BufferInvariant, WellFormed, Slot
  <2> USE DEF BufferInvariant
  <2>1. ASSUME NEW e \in Element, CallEnqueue(e)
        PROVE  WellFormed(cb') /\ answer' \in [rc : {0, 1}, out : Element \cup {Zero}]
    <3>1. WellFormed(cb')
      BY <2>1, EnqueueAppends DEF CallEnqueue
    <3> QED BY <2>1, <3>1 DEF CallEnqueue, Returns
  <2>2. CASE CallDequeue
    <3>1. WellFormed(cb') /\ Oldest(cb) \in Element \cup {Zero}
      BY <2>2, DequeueRemoves DEF CallDequeue
    <3> QED BY <2>2, <3>1 DEF CallDequeue, Returns
  <2>3. CASE CallFlush
    <3>1. WellFormed(cb')
      BY <2>3, FlushEmpties DEF CallFlush
    <3> QED BY <2>3, <3>1 DEF CallFlush, Returns
  <2>4. CASE UNCHANGED bufferVars
    BY <2>4 DEF bufferVars
  <2> QED BY <2>1, <2>2, <2>3, <2>4 DEF Next
<1> QED BY <1>1, <1>2, PTL DEF Spec

-----------------------------------------------------------------------------
(***************************************************************************)
(* circular_buffer.cpp implements Fifo: elements come out in the order     *)
(* they went in, none twice and none lost, a bounded buffer refuses        *)
(* exactly when it holds as many elements as it was allocated for, and an  *)
(* unbounded one never refuses.                                            *)
(***************************************************************************)
THEOREM BufferImplementsFifo == Spec => IsAFifo
<1>1. Init => Queue!Init
  <2> SUFFICES ASSUME NEW size \in Sizes, cb = Allocate(size),
                      answer = [rc |-> 0, out |-> Zero]
               PROVE  Queue!Init
    BY DEF Init
  <2>1. size \in Nat
    BY CallsAssumption
  <2>2. Contents(cb) = <<>> /\ cb.maxBufferSize = size
    BY <2>1, AllocateEmpty
  <2> QED BY <2>2 DEF Queue!Init, Queue!Ok
<1>2. BufferInvariant /\ [Next]_bufferVars => [Queue!Next]_(Queue!fifoVars)
  <2> SUFFICES ASSUME BufferInvariant, [Next]_bufferVars
               PROVE  Queue!Next \/ UNCHANGED Queue!fifoVars
    OBVIOUS
  <2>c. WellFormed(cb)
    BY DEF BufferInvariant
  <2> DEFINE q == Contents(cb)
  <2>q. Contents(cb)' = Contents(cb')
    BY DEF Contents, Slot
  <2>1. ASSUME NEW e \in Element, CallEnqueue(e)
        PROVE  Queue!Next
    <3>1. /\ cb'.maxBufferSize = cb.maxBufferSize
          /\ Contents(cb') = IF CanEnqueue(cb) THEN Append(q, e) ELSE q
      BY <2>1, <2>c, EnqueueAppends DEF CallEnqueue
    <3>2. CanEnqueue(cb) <=> Queue!Accepts
      BY <2>c, RoomIsCapacity DEF Queue!Accepts
    <3>3. CASE CanEnqueue(cb)
      <4>1. Queue!Put(e)
        BY <2>1, <2>q, <3>1, <3>2, <3>3 DEF CallEnqueue, Returns, Queue!Put, Queue!Ok
      <4> QED BY <3>1, <4>1 DEF Queue!Next
    <3>4. CASE ~CanEnqueue(cb)
      <4>1. Queue!Refuse(e)
        BY <2>1, <2>q, <3>1, <3>2, <3>4 DEF CallEnqueue, Returns, Queue!Refuse, Queue!Failed
      <4> QED BY <3>1, <4>1 DEF Queue!Next
    <3> QED BY <3>3, <3>4
  <2>2. CASE CallDequeue
    <3>1. /\ cb'.maxBufferSize = cb.maxBufferSize
          /\ IsEmpty(cb) <=> q = <<>>
          /\ IsEmpty(cb) => cb' = cb /\ Oldest(cb) = Zero
          /\ ~IsEmpty(cb) => Contents(cb') = Tail(q) /\ Oldest(cb) = Head(q)
      BY <2>2, <2>c, DequeueRemoves DEF CallDequeue
    <3>2. CASE IsEmpty(cb)
      <4>1. Queue!FindEmpty
        BY <2>2, <2>q, <3>1, <3>2 DEF CallDequeue, Returns, Queue!FindEmpty, Queue!Failed
      <4> QED BY <3>1, <4>1 DEF Queue!Next
    <3>3. CASE ~IsEmpty(cb)
      <4>1. Queue!Take
        BY <2>2, <2>q, <3>1, <3>3 DEF CallDequeue, Returns, Queue!Take, Queue!Ok
      <4> QED BY <3>1, <4>1 DEF Queue!Next
    <3> QED BY <3>2, <3>3
  <2>3. CASE CallFlush
    <3>1. cb'.maxBufferSize = cb.maxBufferSize /\ Contents(cb') = <<>>
      BY <2>3, <2>c, FlushEmpties DEF CallFlush
    <3>2. Queue!Drop
      BY <2>3, <2>q, <3>1 DEF CallFlush, Returns, Queue!Drop, Queue!Ok
    <3> QED BY <3>1, <3>2 DEF Queue!Next
  <2>4. CASE UNCHANGED bufferVars
    BY <2>4, <2>q DEF bufferVars, Queue!fifoVars
  <2> QED BY <2>1, <2>2, <2>3, <2>4 DEF Next
<1> QED BY <1>1, <1>2, BufferIsWellFormed, PTL DEF Spec, IsAFifo, Queue!Spec
=============================================================================
