-------------------------------- MODULE Fifo --------------------------------
(***************************************************************************)
(* What a CircularBuffer (src/src/utils/circular_buffer.hpp) promises to   *)
(* its callers: a first-in first-out queue that either is bounded, and     *)
(* then refuses an element when full, or is unbounded, and then refuses    *)
(* nothing.  Nothing is said of indices, of memory or of growth.           *)
(***************************************************************************)
EXTENDS Naturals, Sequences

CONSTANTS
  Element,    \* what the queue holds
  Zero,       \* the zero bytes a failed Dequeue hands out
  Capacities  \* the capacities a queue may be created with

VARIABLES
  capacity,   \* 0: unbounded; otherwise the number of elements accepted
  queue,      \* the elements, oldest first
  answer      \* the outcome of the last call: its return code and its output

fifoVars == <<capacity, queue, answer>>

Ok(out)     == [rc |-> 0, out |-> out]
Failed(out) == [rc |-> 1, out |-> out]

Accepts == capacity = 0 \/ Len(queue) < capacity

Init ==
  /\ capacity \in Capacities
  /\ queue = <<>>
  /\ answer = Ok(Zero)

Put(e) ==
  /\ Accepts
  /\ queue' = Append(queue, e)
  /\ answer' = Ok(Zero)

Refuse(e) ==
  /\ ~Accepts
  /\ answer' = Failed(Zero)
  /\ UNCHANGED queue

Take ==
  /\ queue # <<>>
  /\ queue' = Tail(queue)
  /\ answer' = Ok(Head(queue))

FindEmpty ==
  /\ queue = <<>>
  /\ answer' = Failed(Zero)
  /\ UNCHANGED queue

Drop ==
  /\ queue' = <<>>
  /\ answer' = Ok(Zero)

Next ==
  /\ UNCHANGED capacity
  /\ \/ \E e \in Element : Put(e) \/ Refuse(e)
     \/ Take
     \/ FindEmpty
     \/ Drop

Spec == Init /\ [][Next]_fifoVars
=============================================================================
