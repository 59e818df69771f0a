----------------------------- MODULE DelayQueue -----------------------------
(***************************************************************************)
(* The two queues between components, Queue and DelayQueue                 *)
(* (src/src/std_components/misc/queue.hpp and delay_queue.hpp).  Both      *)
(* forward what they receive to the component sendTo; a DelayQueue with a  *)
(* delay of 0 does what Queue does, and a delay of 1 or more keeps the     *)
(* messages in queueFirst and in a buffer behind it.  Each iteration of    *)
(* the loops of Clock is an action; the cycle ends when step is "Done".    *)
(*                                                                         *)
(* Messages are numbered as they are sent to the queue.  The buffer is a   *)
(* FIFO queue, as CircularBuffer was shown to be.                          *)
(***************************************************************************)
EXTENDS Integers, FiniteSetsExt, SequencesExt

CONSTANTS
  Delays,       \* the delay parameters considered
  Throughputs,  \* the throughput parameters; 0 only goes with a delay of 0
  MaxBurst,     \* bound: the messages sent to the queue in one cycle
  MaxCycles     \* bound: the cycles

ASSUME DelayQueueAssumption ==
  /\ Delays \subseteq Nat
  /\ Throughputs \subseteq Nat
  /\ MaxBurst \in Nat
  /\ MaxCycles \in Nat

VARIABLES
  delay, throughput,   \* as configured
  step,                \* the loop Clock is in
  cyclesClock,
  queueFirst,          \* the oldest input, meaningful if occupation > 0
  delayBuffer,         \* the inputs behind it
  occupation,
  toReceive,           \* what the connections hold, in the order Clock reads it
  toSend,              \* what was sent to sendTo in this cycle
  cycleOf,             \* history: the cycle a message could be received in
  sent                 \* history: the messages sendTo gets, with their cycles

configVars == <<delay, throughput>>
bufferVars == <<queueFirst, delayBuffer, occupation>>
queueVars  == <<configVars, step, cyclesClock, bufferVars, toReceive, toSend,
                cycleOf, sent>>

NoInput == [elem |-> 0, removeAt |-> 0]

Init ==
  /\ delay \in Delays
  /\ throughput \in {t \in Throughputs : t = 0 => delay = 0}
  /\ step = "Done"
  /\ cyclesClock = 0
  /\ queueFirst = NoInput
  /\ delayBuffer = <<>>
  /\ occupation = 0
  /\ toReceive = <<>>
  /\ toSend = <<>>
  /\ cycleOf = <<>>
  /\ sent = <<>>

UseDelayBuffer == delay >= 1

(***************************************************************************)
(* The next cycle: what was not received is flushed, n messages can be     *)
(* received, and the connection to sendTo is empty.                        *)
(***************************************************************************)
EnterClock(n) ==
  /\ step = "Done"
  /\ cyclesClock < MaxCycles
  /\ cyclesClock' = cyclesClock + 1
  /\ toReceive' = [i \in 1 .. n |-> Len(cycleOf) + i]
  /\ cycleOf' = cycleOf \o [i \in 1 .. n |-> cyclesClock + 1]
  /\ toSend' = <<>>
  /\ step' = IF UseDelayBuffer THEN "Drain" ELSE "Receive"
  /\ UNCHANGED <<configVars, bufferVars, sent>>

(***************************************************************************)
(* SendRequest to sendTo: the connection has throughput slots, or any      *)
(* number of them if that is 0.                                            *)
(***************************************************************************)
CanSend == throughput = 0 \/ Len(toSend) < throughput

Send(elem) ==
  /\ toSend' = Append(toSend, elem)
  /\ sent' = Append(sent, [elem |-> elem, cycle |-> cyclesClock])

(***************************************************************************)
(* SetDelayBufferSize; to forget the throughput is a slip.                 *)
(***************************************************************************)
OneForEachCycle == delay

DelayBufferSize == delay * throughput + throughput - 1

IsFull == Len(delayBuffer) = DelayBufferSize

(***************************************************************************)
(* Enqueue: it is IsEmpty, of the whole queue, that decides where an input *)
(* goes; to ask the buffer behind queueFirst is a slip.                    *)
(***************************************************************************)
IsBufferEmpty == delayBuffer = <<>>

IsEmpty == occupation = 0

Enqueue(elem) ==
  LET input == [elem |-> elem, removeAt |-> cyclesClock + delay]
  IN  /\ ~IsFull
      /\ IF IsEmpty THEN queueFirst' = input /\ UNCHANGED delayBuffer
                    ELSE delayBuffer' = Append(delayBuffer, input) /\ UNCHANGED queueFirst
      /\ occupation' = occupation + 1

(***************************************************************************)
(* Dequeue: the first input, if its cycle has come.  To wait until it has  *)
(* passed is a slip.                                                       *)
(***************************************************************************)
HasPassed(removeAt) == removeAt < cyclesClock

HasCome(removeAt) == removeAt <= cyclesClock

CanDequeue == ~IsEmpty /\ HasCome(queueFirst.removeAt)

Dequeue ==
  /\ CanDequeue
  /\ IF occupation > 1
       THEN queueFirst' = Head(delayBuffer) /\ delayBuffer' = Tail(delayBuffer)
       ELSE UNCHANGED <<queueFirst, delayBuffer>>
  /\ occupation' = occupation - 1

(***************************************************************************)
(* Clock of a queue with a delay sends what is due first, and drops what   *)
(* the connection does not take.                                           *)
(***************************************************************************)
Drain ==
  /\ step = "Drain"
  /\ Dequeue
  /\ IF CanSend THEN Send(queueFirst.elem) ELSE UNCHANGED <<toSend, sent>>
  /\ UNCHANGED <<configVars, step, cyclesClock, toReceive, cycleOf>>

EndDrain ==
  /\ step = "Drain"
  /\ ~CanDequeue
  /\ step' = "Receive"
  /\ UNCHANGED <<configVars, cyclesClock, bufferVars, toReceive, toSend, cycleOf, sent>>

(***************************************************************************)
(* Then it receives.  A message that does not fit was received already and *)
(* is lost, and Clock returns: so are the ones behind it.                  *)
(***************************************************************************)
ReceiveAndEnqueue ==
  /\ UseDelayBuffer
  /\ IF IsFull THEN step' = "Done" /\ UNCHANGED bufferVars
               ELSE Enqueue(Head(toReceive)) /\ UNCHANGED step
  /\ UNCHANGED <<toSend, sent>>

ReceiveAndForward ==
  /\ ~UseDelayBuffer
  /\ IF CanSend THEN Send(Head(toReceive)) /\ UNCHANGED step
                ELSE step' = "Done" /\ UNCHANGED <<toSend, sent>>
  /\ UNCHANGED bufferVars

Receive ==
  /\ step = "Receive"
  /\ toReceive # <<>>
  /\ toReceive' = Tail(toReceive)
  /\ ReceiveAndEnqueue \/ ReceiveAndForward
  /\ UNCHANGED <<configVars, cyclesClock, cycleOf>>

EndReceive ==
  /\ step = "Receive"
  /\ toReceive = <<>>
  /\ step' = "Done"
  /\ UNCHANGED <<configVars, cyclesClock, bufferVars, toReceive, toSend, cycleOf, sent>>

Clock == Drain \/ EndDrain \/ Receive \/ EndReceive

SimulationEnds ==
  /\ step = "Done"
  /\ cyclesClock = MaxCycles
  /\ UNCHANGED queueVars

Next ==
  \/ Clock
  \/ \E n \in 0 .. MaxBurst : EnterClock(n)
  \/ SimulationEnds

Spec == Init /\ [][Next]_queueVars

-----------------------------------------------------------------------------
(***************************************************************************)
(* Properties.                                                             *)
(***************************************************************************)

Contents == IF occupation = 0 THEN <<>> ELSE <<queueFirst>> \o delayBuffer

(***************************************************************************)
(* queueFirst, the buffer and the counter are one queue: the counter is    *)
(* the number of its elements, nothing waits in the buffer without a first *)
(* element, and messages are in the order in which they came and are due.  *)
(***************************************************************************)
QueueInvariant ==
  /\ step \in {"Drain", "Receive", "Done"}
  /\ occupation = Len(Contents)
  /\ occupation = 0 => delayBuffer = <<>>
  /\ \A i \in 1 .. Len(Contents) : Contents[i].removeAt = cycleOf[Contents[i].elem] + delay
  /\ \A i, j \in 1 .. Len(Contents) : i < j => Contents[i].elem < Contents[j].elem

(***************************************************************************)
(* Whatever is lost, what arrives is on time and in order: a message is    *)
(* forwarded exactly delay cycles after the one in which it was received,  *)
(* at most once and never before an older one (delay_queue.hpp:111, 126).  *)
(***************************************************************************)
OnTimeInOrder ==
  /\ \A i \in 1 .. Len(sent) : sent[i].cycle = cycleOf[sent[i].elem] + delay
  /\ \A i, j \in 1 .. Len(sent) : i < j => sent[i].elem < sent[j].elem

Load(c) == Quantify(1 .. Len(cycleOf), LAMBDA m : cycleOf[m] = c)

IsQuiet(c) == throughput = 0 \/ Load(c) <= throughput

IsDelivered(m) == \E i \in 1 .. Len(sent) : sent[i].elem = m

(***************************************************************************)
(* A burst does no lasting harm: after delay cycles in which no more than  *)
(* throughput messages came, nothing is lost any more, whatever a burst    *)
(* left in the buffer.  This is what the size of the buffer is for         *)
(* (delay_queue.hpp:70, "must be set carefully", delay_queue.hpp:35).      *)
(***************************************************************************)
RecoversFromBursts ==
  step = "Done" =>
    \A m \in 1 .. Len(cycleOf) :
      (/\ cycleOf[m] + delay <= cyclesClock
       /\ \A c \in cycleOf[m] - delay + 1 .. cycleOf[m] : IsQuiet(c)
       /\ IsQuiet(cycleOf[m])) => IsDelivered(m)
=============================================================================
