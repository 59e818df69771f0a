-------------------------- MODULE DelayQueueProofs --------------------------
(***************************************************************************)
(* Queue and DelayQueue keep order and time, and lose messages only by     *)
(* bursts, for every delay and throughput and whatever is sent to them.    *)
(***************************************************************************)
EXTENDS DelayQueue, FiniteSetTheorems, SequenceTheorems, WellFoundedInduction, TLAPS

Input == [elem : Nat, removeAt : Nat]

(***************************************************************************)
(* The messages that were taken from the connections, or flushed with      *)
(* them: all but the ones that can still be received.                      *)
(***************************************************************************)
Taken == Len(cycleOf) - Len(toReceive)

TypeOK ==
  /\ delay \in Nat /\ throughput \in Nat
  /\ throughput = 0 => delay = 0
  /\ step \in {"Drain", "Receive", "Done"}
  /\ cyclesClock \in Nat
  /\ queueFirst \in Input
  /\ delayBuffer \in Seq(Input)
  /\ occupation \in Nat
  /\ occupation = 0 => delayBuffer = <<>>
  /\ occupation > 0 => occupation = Len(delayBuffer) + 1
  /\ toReceive \in Seq(Nat)
  /\ toSend \in Seq(Nat)
  /\ cycleOf \in Seq(Nat)
  /\ sent \in Seq([elem : Nat, cycle : Nat])

(***************************************************************************)
(* The numbers of the messages: what can be received is what came last, in *)
(* this cycle, and messages are numbered as time goes by.                  *)
(***************************************************************************)
Numbered ==
  /\ Taken >= 0
  /\ \A i \in 1 .. Len(toReceive) :
       toReceive[i] = Taken + i /\ cycleOf[Taken + i] = cyclesClock
  /\ \A i \in 1 .. Len(cycleOf) : cycleOf[i] <= cyclesClock
  /\ \A i, j \in 1 .. Len(cycleOf) : i < j => cycleOf[i] <= cycleOf[j]

(***************************************************************************)
(* What is in the queue: in order, due at the right time, and not overdue. *)
(* A queue without a delay is empty.                                       *)
(***************************************************************************)
ContentsInOrder ==
  /\ delay = 0 => Contents = <<>> /\ step # "Drain"
  /\ \A i \in 1 .. Len(Contents) :
       /\ Contents[i].elem \in 1 .. Taken
       /\ Contents[i].removeAt = cycleOf[Contents[i].elem] + delay
       /\ Contents[i].removeAt >= cyclesClock
       /\ step # "Drain" => Contents[i].removeAt > cyclesClock
  /\ \A i, j \in 1 .. Len(Contents) : i < j => Contents[i].elem < Contents[j].elem

(***************************************************************************)
(* What left it: in order, on time, and before all that is still there.    *)
(***************************************************************************)
SentInOrder ==
  /\ \A i \in 1 .. Len(sent) :
       /\ sent[i].elem \in 1 .. Taken
       /\ sent[i].cycle = cycleOf[sent[i].elem] + delay
       /\ \A j \in 1 .. Len(Contents) : sent[i].elem < Contents[j].elem
  /\ \A i, j \in 1 .. Len(sent) : i < j => sent[i].elem < sent[j].elem

QueueInductive == TypeOK /\ Numbered /\ ContentsInOrder /\ SentInOrder

(***************************************************************************)
(* What was sent in this cycle, for which the throughput is counted.       *)
(***************************************************************************)
SentInCycle ==
  /\ \A i \in 1 .. Len(toSend) :
       /\ toSend[i] \in 1 .. Taken
       /\ cycleOf[toSend[i]] + delay = cyclesClock
       /\ \A j \in 1 .. Len(Contents) : toSend[i] < Contents[j].elem
  /\ \A i, j \in 1 .. Len(toSend) : i < j => toSend[i] < toSend[j]

(***************************************************************************)
(* The cycles before which there was no burst for delay cycles, and the    *)
(* messages that are not lost: every message of a calm cycle is kept, and  *)
(* Clock only returns before it has received all if its cycle is not calm. *)
(***************************************************************************)
QuietCycles == {c \in Int : IsQuiet(c)}

CalmCycles == {c \in QuietCycles : c - delay + 1 .. c \subseteq QuietCycles}

Kept ==
  {m \in 1 .. Len(cycleOf) :
     \/ m > Taken
     \/ \E i \in 1 .. Len(Contents) : Contents[i].elem = m
     \/ IsDelivered(m)}

CalmIsKept ==
  /\ \A m \in 1 .. Len(cycleOf) : cycleOf[m] \in CalmCycles => m \in Kept
  /\ step = "Done" /\ toReceive # <<>> => cyclesClock \notin CalmCycles

BurstInductive == QueueInductive /\ SentInCycle /\ CalmIsKept

-----------------------------------------------------------------------------
(***************************************************************************)
(* queueFirst and the buffer behind it make one sequence.                  *)
(***************************************************************************)
LEMMA ContentsFacts ==
  ASSUME TypeOK
  PROVE  /\ Contents \in Seq(Input)
         /\ Len(Contents) = occupation
         /\ occupation > 0 =>
              /\ Contents[1] = queueFirst
              /\ \A i \in 1 .. Len(delayBuffer) : Contents[i + 1] = delayBuffer[i]
<1>1. CASE occupation = 0
  BY <1>1 DEF TypeOK, Contents
<1>2. CASE occupation # 0
  <2>1. /\ <<queueFirst>> \in Seq(Input) /\ Len(<<queueFirst>>) = 1
        /\ <<queueFirst>>[1] = queueFirst
        /\ delayBuffer \in Seq(Input)
    BY DEF TypeOK
  <2>2. Contents = <<queueFirst>> \o delayBuffer
    BY <1>2 DEF Contents
  <2>3. occupation = Len(delayBuffer) + 1 /\ Len(delayBuffer) \in Nat
    BY <1>2, <2>1, LenProperties DEF TypeOK
  <2> QED BY <2>1, <2>2, <2>3, ConcatProperties
<1> QED BY <1>1, <1>2

(***************************************************************************)
(* Enqueue appends to it and Dequeue removes its first element.            *)
(***************************************************************************)
LEMMA EnqueueAppends ==
  ASSUME TypeOK, NEW elem \in Nat, Enqueue(elem), UNCHANGED delay
  PROVE  /\ queueFirst' \in Input /\ delayBuffer' \in Seq(Input) /\ occupation' \in Nat
         /\ occupation' = Len(delayBuffer') + 1
         /\ Contents' \in Seq(Input)
         /\ Len(Contents') = Len(Contents) + 1
         /\ \A i \in 1 .. Len(Contents) : Contents'[i] = Contents[i]
         /\ Contents'[Len(Contents) + 1] = [elem |-> elem, removeAt |-> cyclesClock + delay]
<1> DEFINE input == [elem |-> elem, removeAt |-> cyclesClock + delay]
<1>0. input \in Input
  BY DEF TypeOK, Input
<1>1. CASE IsEmpty
  <2>1. /\ queueFirst' = input /\ delayBuffer' = delayBuffer /\ delayBuffer = <<>>
        /\ occupation = 0 /\ occupation' = 1
    BY <1>1 DEF Enqueue, IsEmpty, TypeOK
  <2>2. Contents' = <<input>> \o <<>> /\ Contents = <<>>
    BY <2>1 DEF Contents
  <2>3. <<input>> \in Seq(Input)
    BY <1>0
  <2>4. Contents' = <<input>>
    BY <2>2, <2>3, ConcatEmptySeq
  <2> QED BY <1>0, <2>1, <2>2, <2>3, <2>4 DEF TypeOK
<1>2. CASE ~IsEmpty
  <2>1. /\ queueFirst' = queueFirst /\ delayBuffer' = Append(delayBuffer, input)
        /\ occupation > 0 /\ occupation' = occupation + 1
        /\ delayBuffer \in Seq(Input) /\ queueFirst \in Input
        /\ occupation = Len(delayBuffer) + 1 /\ occupation \in Nat
    BY <1>2 DEF Enqueue, IsEmpty, TypeOK
  <2>2. /\ delayBuffer' \in Seq(Input)
        /\ Len(delayBuffer') = Len(delayBuffer) + 1
        /\ \A i \in 1 .. Len(delayBuffer) : delayBuffer'[i] = delayBuffer[i]
        /\ delayBuffer'[Len(delayBuffer) + 1] = input
    BY <1>0, <2>1, AppendProperties
  <2>3. /\ <<queueFirst>> \in Seq(Input) /\ Len(<<queueFirst>>) = 1
        /\ <<queueFirst>>[1] = queueFirst
    BY <2>1
  <2>4. Contents' = <<queueFirst>> \o delayBuffer' /\ Contents = <<queueFirst>> \o delayBuffer
    BY <2>1 DEF Contents
  <2>5. Len(delayBuffer) \in Nat
    BY <2>1, LenProperties
  <2>6. /\ Contents' \in Seq(Input) /\ Len(Contents') = Len(delayBuffer) + 2
        /\ \A i \in 1 .. Len(delayBuffer) + 2 :
             Contents'[i] = IF i <= 1 THEN <<queueFirst>>[i] ELSE delayBuffer'[i - 1]
    BY <2>2, <2>3, <2>4, <2>5, ConcatProperties
  <2>7. /\ Len(Contents) = Len(delayBuffer) + 1
        /\ \A i \in 1 .. Len(delayBuffer) + 1 :
             Contents[i] = IF i <= 1 THEN <<queueFirst>>[i] ELSE delayBuffer[i - 1]
    BY <2>1, <2>3, <2>4, <2>5, ConcatProperties
  <2>8. \A i \in 1 .. Len(Contents) : Contents'[i] = Contents[i]
    <3> TAKE i \in 1 .. Len(Contents)
    <3>1. i \in 1 .. Len(delayBuffer) + 1 /\ i \in 1 .. Len(delayBuffer) + 2
      BY <2>5, <2>7
    <3>2. CASE i = 1
      BY <2>6, <2>7, <3>1, <3>2
    <3>3. CASE i > 1
      <4>1. i - 1 \in 1 .. Len(delayBuffer)
        BY <2>5, <3>1, <3>3
      <4> QED BY <2>2, <2>6, <2>7, <3>1, <3>3, <4>1
    <3> QED BY <2>5, <3>1, <3>2, <3>3
  <2>9. Contents'[Len(Contents) + 1] = input
    BY <2>2, <2>5, <2>6, <2>7
  <2> HIDE DEF input
  <2> QED BY <2>1, <2>2, <2>5, <2>6, <2>7, <2>8, <2>9 DEF input
<1> QED BY <1>1, <1>2

LEMMA DequeueRemoves ==
  ASSUME TypeOK, Dequeue
  PROVE  /\ queueFirst' \in Input /\ delayBuffer' \in Seq(Input) /\ occupation' \in Nat
         /\ occupation' = 0 => delayBuffer' = <<>>
         /\ occupation' > 0 => occupation' = Len(delayBuffer') + 1
         /\ Len(Contents) > 0
         /\ Contents[1] = queueFirst
         /\ Contents' \in Seq(Input)
         /\ Len(Contents') = Len(Contents) - 1
         /\ \A i \in 1 .. Len(Contents) - 1 : Contents'[i] = Contents[i + 1]
<1>1. /\ Contents \in Seq(Input) /\ Len(Contents) = occupation /\ occupation \in Nat
      /\ occupation > 0 /\ occupation = Len(delayBuffer) + 1
      /\ Contents[1] = queueFirst
      /\ \A i \in 1 .. Len(delayBuffer) : Contents[i + 1] = delayBuffer[i]
      /\ occupation' = occupation - 1
      /\ delayBuffer \in Seq(Input) /\ queueFirst \in Input
  BY ContentsFacts DEF Dequeue, CanDequeue, IsEmpty, TypeOK
<1>2. CASE occupation > 1
  <2>1. /\ queueFirst' = Head(delayBuffer) /\ delayBuffer' = Tail(delayBuffer)
        /\ delayBuffer # <<>>
    BY <1>1, <1>2 DEF Dequeue
  <2>2. /\ queueFirst' \in Input /\ delayBuffer' \in Seq(Input)
        /\ queueFirst' = delayBuffer[1]
        /\ Len(delayBuffer') = Len(delayBuffer) - 1
        /\ \A i \in 1 .. Len(delayBuffer') : delayBuffer'[i] = delayBuffer[i + 1]
    BY <1>1, <2>1, HeadTailProperties
  <2>3. /\ <<queueFirst'>> \in Seq(Input) /\ Len(<<queueFirst'>>) = 1
        /\ <<queueFirst'>>[1] = queueFirst'
    BY <2>2
  <2>4. Contents' = <<queueFirst'>> \o delayBuffer'
    BY <1>1, <1>2 DEF Contents
  <2>5. Len(delayBuffer) \in Nat /\ Len(delayBuffer') \in Nat
    BY <1>1, <2>2, LenProperties
  <2>6. /\ Contents' \in Seq(Input) /\ Len(Contents') = Len(delayBuffer') + 1
        /\ \A i \in 1 .. Len(delayBuffer') + 1 :
             Contents'[i] = IF i <= 1 THEN <<queueFirst'>>[i] ELSE delayBuffer'[i - 1]
    BY <2>2, <2>3, <2>4, <2>5, ConcatProperties
  <2> QED BY <1>1, <1>2, <2>2, <2>3, <2>5, <2>6
<1>3. CASE ~(occupation > 1)
  <2>1. occupation = 1 /\ occupation' = 0 /\ UNCHANGED <<queueFirst, delayBuffer>>
    BY <1>1, <1>3 DEF Dequeue
  <2>2. Contents' = <<>>
    BY <2>1 DEF Contents
  <2>3. delayBuffer = <<>>
    BY <1>1, <2>1, EmptySeq
  <2> QED BY <1>1, <2>1, <2>2, <2>3
<1> QED BY <1>2, <1>3

(***************************************************************************)
(* A sequence with one element more, or without its first.                 *)
(***************************************************************************)
LEMMA ConstantSeq ==
  ASSUME NEW n \in Nat, NEW v \in Nat
  PROVE  /\ [i \in 1 .. n |-> v] \in Seq(Nat)
         /\ Len([i \in 1 .. n |-> v]) = n
  OBVIOUS

LEMMA NumbersSeq ==
  ASSUME NEW n \in Nat, NEW k \in Nat
  PROVE  /\ [i \in 1 .. n |-> k + i] \in Seq(Nat)
         /\ Len([i \in 1 .. n |-> k + i]) = n
  OBVIOUS

-----------------------------------------------------------------------------
(***************************************************************************)
(* A new cycle: what is left in the connections is flushed, and what was   *)
(* not due in the last cycle is not overdue in this one.                   *)
(***************************************************************************)
LEMMA EnterKeepsHistory ==
  ASSUME TypeOK, NEW n \in Nat, EnterClock(n)
  PROVE  /\ cycleOf' \in Seq(Nat)
         /\ Len(cycleOf') = Len(cycleOf) + n
         /\ \A i \in 1 .. Len(cycleOf) : cycleOf'[i] = cycleOf[i]
         /\ \A i \in Len(cycleOf) + 1 .. Len(cycleOf) + n : cycleOf'[i] = cyclesClock + 1
         /\ toReceive' \in Seq(Nat)
         /\ Len(toReceive') = n
         /\ \A i \in 1 .. n : toReceive'[i] = Len(cycleOf) + i
         /\ Taken' = Len(cycleOf)
         /\ Contents' = Contents
<1>1. /\ cycleOf \in Seq(Nat) /\ Len(cycleOf) \in Nat /\ cyclesClock + 1 \in Nat
  BY LenProperties DEF TypeOK
<1>2. /\ cycleOf' = cycleOf \o [i \in 1 .. n |-> cyclesClock + 1]
      /\ toReceive' = [i \in 1 .. n |-> Len(cycleOf) + i]
  BY DEF EnterClock
<1>3. /\ toReceive' \in Seq(Nat) /\ Len(toReceive') = n
      /\ \A i \in 1 .. n : toReceive'[i] = Len(cycleOf) + i
  BY <1>1, <1>2, NumbersSeq
<1>4. PICK new : new = [i \in 1 .. n |-> cyclesClock + 1]
  OBVIOUS
<1>5. /\ new \in Seq(Nat) /\ Len(new) = n
      /\ \A i \in 1 .. n : new[i] = cyclesClock + 1
  BY <1>1, <1>4, ConstantSeq
<1>6. /\ cycleOf' \in Seq(Nat) /\ Len(cycleOf') = Len(cycleOf) + n
      /\ \A i \in 1 .. Len(cycleOf) + n :
           cycleOf'[i] = IF i <= Len(cycleOf) THEN cycleOf[i] ELSE new[i - Len(cycleOf)]
  BY <1>1, <1>2, <1>4, <1>5, ConcatProperties
<1>7. \A i \in Len(cycleOf) + 1 .. Len(cycleOf) + n : cycleOf'[i] = cyclesClock + 1
  BY <1>1, <1>5, <1>6
<1>8. Contents' = Contents
  BY DEF EnterClock, bufferVars, Contents
<1> QED BY <1>1, <1>3, <1>6, <1>7, <1>8 DEF Taken

LEMMA EnterKeeps ==
  ASSUME QueueInductive, NEW n \in Nat, EnterClock(n)
  PROVE  QueueInductive'
<1> USE DEF QueueInductive
<1>0. /\ Len(cycleOf) \in Nat /\ Len(toReceive) \in Nat /\ Taken \in 0 .. Len(cycleOf)
      /\ delay \in Nat /\ cyclesClock \in Nat
      /\ \A i \in 1 .. Len(cycleOf) : cycleOf[i] \in Nat
  <2>1. Len(cycleOf) \in Nat /\ Len(toReceive) \in Nat
    BY LenProperties DEF TypeOK
  <2>2. \A i \in 1 .. Len(cycleOf) : cycleOf[i] \in Nat
    BY ElementOfSeq DEF TypeOK
  <2> QED BY <2>1, <2>2 DEF Taken, Numbered, TypeOK
<1>1. /\ cycleOf' \in Seq(Nat)
      /\ Len(cycleOf') = Len(cycleOf) + n
      /\ \A i \in 1 .. Len(cycleOf) : cycleOf'[i] = cycleOf[i]
      /\ \A i \in Len(cycleOf) + 1 .. Len(cycleOf) + n : cycleOf'[i] = cyclesClock + 1
      /\ toReceive' \in Seq(Nat)
      /\ Len(toReceive') = n
      /\ \A i \in 1 .. n : toReceive'[i] = Len(cycleOf) + i
      /\ Taken' = Len(cycleOf)
      /\ Contents' = Contents
  BY EnterKeepsHistory
<1>2. /\ cyclesClock' = cyclesClock + 1 /\ delay' = delay /\ sent' = sent
      /\ step = "Done" /\ step' = IF delay >= 1 THEN "Drain" ELSE "Receive"
  BY DEF EnterClock, configVars, UseDelayBuffer
<1>3. TypeOK'
  BY <1>1 DEF EnterClock, TypeOK, configVars, bufferVars, UseDelayBuffer
<1>4. Numbered'
  <2>1. Taken' >= 0
    BY <1>0, <1>1
  <2>2. \A i \in 1 .. Len(toReceive') :
          toReceive'[i] = Taken' + i /\ cycleOf'[Taken' + i] = cyclesClock'
    <3> TAKE i \in 1 .. Len(toReceive')
    <3>1. i \in 1 .. n /\ Len(cycleOf) + i \in Len(cycleOf) + 1 .. Len(cycleOf) + n
      BY <1>0, <1>1
    <3> QED BY <1>1, <1>2, <3>1
  <2>3. \A i \in 1 .. Len(cycleOf') : cycleOf'[i] <= cyclesClock'
    <3> TAKE i \in 1 .. Len(cycleOf')
    <3>1. CASE i <= Len(cycleOf)
      <4>1. i \in 1 .. Len(cycleOf)
        BY <1>0, <1>1, <3>1
      <4>2. cycleOf'[i] = cycleOf[i] /\ cycleOf[i] <= cyclesClock /\ cycleOf[i] \in Nat
        BY <1>0, <1>1, <4>1 DEF Numbered
      <4> QED BY <1>0, <1>2, <4>2
    <3>2. CASE i > Len(cycleOf)
      <4>1. i \in Len(cycleOf) + 1 .. Len(cycleOf) + n
        BY <1>0, <1>1, <3>2
      <4> QED BY <1>0, <1>1, <1>2, <4>1
    <3> QED BY <1>0, <1>1, <3>1, <3>2
  <2>4. \A i, j \in 1 .. Len(cycleOf') : i < j => cycleOf'[i] <= cycleOf'[j]
    <3> SUFFICES ASSUME NEW i \in 1 .. Len(cycleOf'), NEW j \in 1 .. Len(cycleOf'), i < j
                 PROVE  cycleOf'[i] <= cycleOf'[j]
      OBVIOUS
    <3>1. CASE j <= Len(cycleOf)
      <4>1. i \in 1 .. Len(cycleOf) /\ j \in 1 .. Len(cycleOf)
        BY <1>0, <1>1, <3>1
      <4>2. cycleOf[i] <= cycleOf[j]
        BY <4>1 DEF Numbered
      <4> QED BY <1>1, <4>1, <4>2
    <3>2. CASE j > Len(cycleOf)
      <4>1. j \in Len(cycleOf) + 1 .. Len(cycleOf) + n
        BY <1>0, <1>1, <3>2
      <4>2. cycleOf'[j] = cyclesClock'
        BY <1>1, <1>2, <4>1
      <4> QED BY <2>3, <4>2
    <3> QED BY <1>0, <1>1, <3>1, <3>2
  <2> QED BY <2>1, <2>2, <2>3, <2>4 DEF Numbered
<1>5. ContentsInOrder'
  <2>1. delay = 0 => Contents = <<>> /\ step' # "Drain"
    BY <1>2 DEF ContentsInOrder
  <2>2. \A i \in 1 .. Len(Contents) :
          /\ Contents[i].elem \in 1 .. Taken'
          /\ Contents[i].removeAt = cycleOf'[Contents[i].elem] + delay
          /\ Contents[i].removeAt >= cyclesClock'
          /\ step' # "Drain" => Contents[i].removeAt > cyclesClock'
    <3> TAKE i \in 1 .. Len(Contents)
    <3>1. /\ Contents[i].elem \in 1 .. Taken
          /\ Contents[i].removeAt = cycleOf[Contents[i].elem] + delay
          /\ Contents[i].removeAt > cyclesClock
      BY <1>2 DEF ContentsInOrder
    <3>2. Contents[i].elem \in 1 .. Len(cycleOf)
      BY <1>0, <3>1
    <3>3. Contents[i].removeAt = cycleOf'[Contents[i].elem] + delay
      BY <1>1, <3>1, <3>2
    <3>4. Contents[i].removeAt \in Nat
      BY <1>0, <3>1, <3>2
    <3>5. Contents[i].removeAt >= cyclesClock'
      BY <1>0, <1>2, <3>1, <3>4
    <3>6. step' = "Drain"
      BY <1>0, <1>2, <2>1
    <3> QED BY <1>1, <3>2, <3>3, <3>5, <3>6
  <2>3. \A i, j \in 1 .. Len(Contents) : i < j => Contents[i].elem < Contents[j].elem
    BY DEF ContentsInOrder
  <2> QED BY <1>1, <1>2, <2>1, <2>2, <2>3 DEF ContentsInOrder
<1>6. SentInOrder'
  <2>1. \A i \in 1 .. Len(sent) :
          /\ sent[i].elem \in 1 .. Len(cycleOf)
          /\ sent[i].cycle = cycleOf'[sent[i].elem] + delay
          /\ \A j \in 1 .. Len(Contents) : sent[i].elem < Contents[j].elem
    <3> TAKE i \in 1 .. Len(sent)
    <3>1. /\ sent[i].elem \in 1 .. Taken
          /\ sent[i].cycle = cycleOf[sent[i].elem] + delay
          /\ \A j \in 1 .. Len(Contents) : sent[i].elem < Contents[j].elem
      BY DEF SentInOrder
    <3>2. sent[i].elem \in 1 .. Len(cycleOf)
      BY <1>0, <3>1
    <3> QED BY <1>1, <3>1, <3>2
  <2>2. \A i, j \in 1 .. Len(sent) : i < j => sent[i].elem < sent[j].elem
    BY DEF SentInOrder
  <2> QED BY <1>1, <1>2, <2>1, <2>2 DEF SentInOrder
<1> QED BY <1>3, <1>4, <1>5, <1>6
-----------------------------------------------------------------------------
(***************************************************************************)
(* The numbers and cycles are numbers.                                     *)
(***************************************************************************)
LEMMA QueueFacts ==
  ASSUME QueueInductive
  PROVE  /\ Len(cycleOf) \in Nat /\ Len(toReceive) \in Nat /\ Taken \in 0 .. Len(cycleOf)
         /\ delay \in Nat /\ cyclesClock \in Nat
         /\ \A i \in 1 .. Len(cycleOf) : cycleOf[i] \in Nat
         /\ Contents \in Seq(Input) /\ Len(Contents) \in Nat /\ Len(Contents) = occupation
         /\ sent \in Seq([elem : Nat, cycle : Nat]) /\ Len(sent) \in Nat
<1> USE DEF QueueInductive
<1>1. Len(cycleOf) \in Nat /\ Len(toReceive) \in Nat /\ Len(sent) \in Nat
  BY LenProperties DEF TypeOK
<1>2. \A i \in 1 .. Len(cycleOf) : cycleOf[i] \in Nat
  BY ElementOfSeq DEF TypeOK
<1>3. Contents \in Seq(Input) /\ Len(Contents) = occupation /\ occupation \in Nat
  BY ContentsFacts DEF TypeOK
<1> QED BY <1>1, <1>2, <1>3 DEF Taken, Numbered, TypeOK

(***************************************************************************)
(* A message that is sent on time, after all that were sent and before all *)
(* that are left, keeps the order.                                         *)
(***************************************************************************)
LEMMA SendKeepsOrder ==
  ASSUME QueueInductive, NEW m \in Nat, Send(m), UNCHANGED <<delay, cycleOf>>,
         Taken' \in Nat, Taken <= Taken', m \in 1 .. Taken',
         cycleOf[m] + delay = cyclesClock,
         \A i \in 1 .. Len(sent) : sent[i].elem < m,
         \A j \in 1 .. Len(Contents') : m < Contents'[j].elem,
         \A i \in 1 .. Len(sent) : \A j \in 1 .. Len(Contents') : sent[i].elem < Contents'[j].elem
  PROVE  sent' \in Seq([elem : Nat, cycle : Nat]) /\ SentInOrder'
<1> DEFINE new == [elem |-> m, cycle |-> cyclesClock]
<1>0. /\ Len(sent) \in Nat /\ sent \in Seq([elem : Nat, cycle : Nat])
      /\ cyclesClock \in Nat /\ Taken \in Nat
  BY QueueFacts
<1>1. new \in [elem : Nat, cycle : Nat] /\ new.elem = m /\ new.cycle = cyclesClock
  BY <1>0
<1>2. sent' = Append(sent, new)
  BY DEF Send
<1> HIDE DEF new
<1>3. /\ sent' \in Seq([elem : Nat, cycle : Nat]) /\ Len(sent') = Len(sent) + 1
      /\ \A i \in 1 .. Len(sent) : sent'[i] = sent[i]
      /\ sent'[Len(sent) + 1] = new
  BY <1>0, <1>1, <1>2, AppendProperties
<1>4. \A i \in 1 .. Len(sent') :
        /\ sent'[i].elem \in 1 .. Taken'
        /\ sent'[i].cycle = cycleOf'[sent'[i].elem] + delay'
        /\ \A j \in 1 .. Len(Contents') : sent'[i].elem < Contents'[j].elem
  <2> TAKE i \in 1 .. Len(sent')
  <2>1. CASE i = Len(sent) + 1
    BY <1>1, <1>3, <2>1
  <2>2. CASE i # Len(sent) + 1
    <3>1. i \in 1 .. Len(sent)
      BY <1>0, <1>3, <2>2
    <3>2. /\ sent[i].elem \in 1 .. Taken
          /\ sent[i].cycle = cycleOf[sent[i].elem] + delay
      BY <3>1 DEF QueueInductive, SentInOrder
    <3>3. sent[i].elem \in 1 .. Taken'
      BY <1>0, <3>2
    <3> QED BY <1>3, <3>1, <3>2, <3>3
  <2> QED BY <2>1, <2>2
<1>5. \A i, j \in 1 .. Len(sent') : i < j => sent'[i].elem < sent'[j].elem
  <2> SUFFICES ASSUME NEW i \in 1 .. Len(sent'), NEW j \in 1 .. Len(sent'), i < j
               PROVE  sent'[i].elem < sent'[j].elem
    OBVIOUS
  <2>1. i \in 1 .. Len(sent)
    BY <1>0, <1>3
  <2>2. CASE j = Len(sent) + 1
    BY <1>1, <1>3, <2>1, <2>2
  <2>3. CASE j # Len(sent) + 1
    <3>1. j \in 1 .. Len(sent)
      <4>1. j \in 1 .. Len(sent) + 1
        BY <1>3
      <4> QED BY <1>0, <2>3, <4>1
    <3>2. sent[i].elem < sent[j].elem
      BY <2>1, <3>1 DEF QueueInductive, SentInOrder
    <3> QED BY <1>3, <2>1, <3>1, <3>2
  <2> QED BY <2>2, <2>3
<1> QED BY <1>3, <1>4, <1>5 DEF SentInOrder

(***************************************************************************)
(* Drain sends the first message of the queue, which is due, or loses it.  *)
(***************************************************************************)
LEMMA DrainKeeps ==
  ASSUME QueueInductive, Drain
  PROVE  QueueInductive'
<1>0. /\ Len(cycleOf) \in Nat /\ Len(toReceive) \in Nat /\ Taken \in 0 .. Len(cycleOf)
      /\ delay \in Nat /\ cyclesClock \in Nat
      /\ \A i \in 1 .. Len(cycleOf) : cycleOf[i] \in Nat
      /\ Contents \in Seq(Input) /\ Len(Contents) \in Nat /\ Len(sent) \in Nat
  BY QueueFacts
<1>1. TypeOK /\ Numbered /\ ContentsInOrder /\ SentInOrder
  BY DEF QueueInductive
<1>2. /\ UNCHANGED <<delay, throughput, step, cyclesClock, toReceive, cycleOf>>
      /\ step = "Drain" /\ Dequeue /\ Taken' = Taken
  BY DEF Drain, configVars, Taken
<1>3. /\ queueFirst' \in Input /\ delayBuffer' \in Seq(Input) /\ occupation' \in Nat
      /\ occupation' = 0 => delayBuffer' = <<>>
      /\ occupation' > 0 => occupation' = Len(delayBuffer') + 1
      /\ Len(Contents) > 0
      /\ Contents[1] = queueFirst
      /\ Contents' \in Seq(Input)
      /\ Len(Contents') = Len(Contents) - 1
      /\ \A i \in 1 .. Len(Contents) - 1 : Contents'[i] = Contents[i + 1]
  BY <1>1, <1>2, DequeueRemoves
<1>4. /\ queueFirst.elem \in 1 .. Taken
      /\ queueFirst.removeAt = cycleOf[queueFirst.elem] + delay
      /\ queueFirst.removeAt = cyclesClock
  <2>1. 1 \in 1 .. Len(Contents)
    BY <1>0, <1>3
  <2>2. /\ queueFirst.elem \in 1 .. Taken
        /\ queueFirst.removeAt = cycleOf[queueFirst.elem] + delay
        /\ queueFirst.removeAt >= cyclesClock
    BY <1>1, <1>3, <2>1 DEF ContentsInOrder
  <2>3. queueFirst.removeAt <= cyclesClock
    BY <1>2 DEF Dequeue, CanDequeue, HasCome
  <2>4. queueFirst.elem \in 1 .. Len(cycleOf)
    BY <1>0, <2>2
  <2>5. queueFirst.removeAt \in Nat
    BY <1>0, <2>2, <2>4
  <2> QED BY <1>0, <2>2, <2>3, <2>5
<1>5. \A i \in 1 .. Len(Contents') : i + 1 \in 1 .. Len(Contents) /\ Contents'[i] = Contents[i + 1]
  BY <1>0, <1>3
<1>6. ContentsInOrder'
  <2>1. delay # 0
    BY <1>1, <1>2 DEF ContentsInOrder
  <2>2. \A i \in 1 .. Len(Contents') :
          /\ Contents'[i].elem \in 1 .. Taken
          /\ Contents'[i].removeAt = cycleOf[Contents'[i].elem] + delay
          /\ Contents'[i].removeAt >= cyclesClock
    BY <1>1, <1>5 DEF ContentsInOrder
  <2>3. \A i, j \in 1 .. Len(Contents') : i < j => Contents'[i].elem < Contents'[j].elem
    <3> SUFFICES ASSUME NEW i \in 1 .. Len(Contents'), NEW j \in 1 .. Len(Contents'), i < j
                 PROVE  Contents'[i].elem < Contents'[j].elem
      OBVIOUS
    <3>1. i + 1 < j + 1
      BY <1>0, <1>3
    <3> QED BY <1>1, <1>5, <3>1 DEF ContentsInOrder
  <2> QED BY <1>2, <2>1, <2>2, <2>3 DEF ContentsInOrder
<1>7. /\ \A i \in 1 .. Len(sent) : sent[i].elem < queueFirst.elem
      /\ \A j \in 1 .. Len(Contents') : queueFirst.elem < Contents'[j].elem
      /\ \A i \in 1 .. Len(sent) : \A j \in 1 .. Len(Contents') : sent[i].elem < Contents'[j].elem
  <2>1. 1 \in 1 .. Len(Contents)
    BY <1>0, <1>3
  <2>2. \A i \in 1 .. Len(sent) : sent[i].elem < queueFirst.elem
    BY <1>1, <1>3, <2>1 DEF SentInOrder
  <2>3. \A j \in 1 .. Len(Contents') : queueFirst.elem < Contents'[j].elem
    <3> TAKE j \in 1 .. Len(Contents')
    <3>1. 1 < j + 1
      BY <1>0, <1>3
    <3> QED BY <1>1, <1>3, <1>5, <2>1, <3>1 DEF ContentsInOrder
  <2>4. \A i \in 1 .. Len(sent) : \A j \in 1 .. Len(Contents') : sent[i].elem < Contents'[j].elem
    BY <1>1, <1>5 DEF SentInOrder
  <2> QED BY <2>2, <2>3, <2>4
<1>8. sent' \in Seq([elem : Nat, cycle : Nat]) /\ toSend' \in Seq(Nat) /\ SentInOrder'
  <2>1. CASE CanSend
    <3>1. Send(queueFirst.elem)
      BY <2>1 DEF Drain
    <3>2. queueFirst.elem \in Nat /\ Taken' \in Nat /\ Taken <= Taken'
      BY <1>0, <1>2, <1>4
    <3>3. toSend' \in Seq(Nat)
      BY <1>1, <3>1, <3>2, AppendProperties DEF Send, TypeOK
    <3> QED BY <1>2, <1>4, <1>7, <3>1, <3>2, <3>3, SendKeepsOrder
  <2>2. CASE ~CanSend
    <3>1. UNCHANGED <<toSend, sent>>
      BY <2>2 DEF Drain
    <3> QED BY <1>1, <1>2, <1>7, <3>1 DEF SentInOrder, TypeOK
  <2> QED BY <2>1, <2>2
<1>9. TypeOK'
  BY <1>1, <1>2, <1>3, <1>8 DEF TypeOK
<1>10. Numbered'
  BY <1>1, <1>2 DEF Numbered
<1> QED BY <1>6, <1>8, <1>9, <1>10 DEF QueueInductive

(***************************************************************************)
(* When Drain has nothing left to do, the first message is not due, and so *)
(* neither are the ones behind it.                                         *)
(***************************************************************************)
LEMMA EndDrainKeeps ==
  ASSUME QueueInductive, EndDrain
  PROVE  QueueInductive'
<1>0. /\ Len(cycleOf) \in Nat /\ Taken \in 0 .. Len(cycleOf)
      /\ delay \in Nat /\ cyclesClock \in Nat
      /\ \A i \in 1 .. Len(cycleOf) : cycleOf[i] \in Nat
      /\ Len(Contents) \in Nat /\ Len(Contents) = occupation
  BY QueueFacts
<1>1. TypeOK /\ Numbered /\ ContentsInOrder /\ SentInOrder
  BY DEF QueueInductive
<1>2. /\ UNCHANGED <<delay, throughput, cyclesClock, queueFirst, delayBuffer, occupation,
                     toReceive, toSend, cycleOf, sent>>
      /\ step' = "Receive" /\ ~CanDequeue /\ Taken' = Taken /\ Contents' = Contents
      /\ delay # 0
  BY <1>1 DEF EndDrain, configVars, bufferVars, Taken, Contents, ContentsInOrder
<1>3. \A i \in 1 .. Len(Contents) : Contents[i].removeAt > cyclesClock
  <2> TAKE i \in 1 .. Len(Contents)
  <2>1. 1 \in 1 .. Len(Contents) /\ occupation > 0 /\ ~IsEmpty
    BY <1>0 DEF IsEmpty
  <2>2. Contents[1] = queueFirst
    BY <1>1, <2>1, ContentsFacts
  <2>3. /\ Contents[1].elem \in 1 .. Taken /\ Contents[i].elem \in 1 .. Taken
        /\ Contents[1].removeAt = cycleOf[Contents[1].elem] + delay
        /\ Contents[i].removeAt = cycleOf[Contents[i].elem] + delay
        /\ 1 < i => Contents[1].elem < Contents[i].elem
    BY <1>1, <2>1 DEF ContentsInOrder
  <2>4. Contents[1].elem \in 1 .. Len(cycleOf) /\ Contents[i].elem \in 1 .. Len(cycleOf)
    BY <1>0, <2>3
  <2>5. ~(queueFirst.removeAt <= cyclesClock)
    BY <1>2, <2>1 DEF CanDequeue, HasCome
  <2>6. 1 < i => cycleOf[Contents[1].elem] <= cycleOf[Contents[i].elem]
    BY <1>1, <2>3, <2>4 DEF Numbered
  <2>7. cycleOf[Contents[1].elem] \in Nat /\ cycleOf[Contents[i].elem] \in Nat
    BY <1>0, <2>4
  <2>8. CASE i = 1
    BY <1>0, <2>2, <2>3, <2>5, <2>7, <2>8
  <2>9. CASE 1 < i
    <3>1. \A a, b \in Nat : a <= b /\ ~(a + delay <= cyclesClock) => b + delay > cyclesClock
      BY <1>0
    <3>2. ~(cycleOf[Contents[1].elem] + delay <= cyclesClock)
      BY <2>2, <2>3, <2>5
    <3>3. cycleOf[Contents[i].elem] + delay > cyclesClock
      BY <2>6, <2>7, <2>9, <3>1, <3>2
    <3> QED BY <2>3, <3>3
  <2> QED BY <1>0, <2>8, <2>9
<1>4. TypeOK' /\ Numbered' /\ SentInOrder'
  BY <1>1, <1>2 DEF TypeOK, Numbered, SentInOrder
<1>5. ContentsInOrder'
  BY <1>1, <1>2, <1>3 DEF ContentsInOrder
<1> QED BY <1>4, <1>5 DEF QueueInductive

(***************************************************************************)
(* What is received is the oldest message that was not.                    *)
(***************************************************************************)
LEMMA ReceiveTakesTheNext ==
  ASSUME QueueInductive, Receive
  PROVE  /\ Head(toReceive) = Taken + 1 /\ Taken + 1 \in 1 .. Len(cycleOf)
         /\ cycleOf[Taken + 1] = cyclesClock
         /\ Taken' = Taken + 1
         /\ toReceive' \in Seq(Nat) /\ Numbered'
<1>0. /\ Len(cycleOf) \in Nat /\ Len(toReceive) \in Nat /\ Taken \in 0 .. Len(cycleOf)
      /\ Taken = Len(cycleOf) - Len(toReceive)
  BY QueueFacts DEF Taken
<1>1. toReceive \in Seq(Nat) /\ Numbered
  BY DEF QueueInductive, TypeOK
<1>2. /\ toReceive # <<>> /\ toReceive' = Tail(toReceive)
      /\ UNCHANGED <<cyclesClock, cycleOf>>
  BY DEF Receive
<1>3. /\ Head(toReceive) = toReceive[1] /\ toReceive' \in Seq(Nat)
      /\ Len(toReceive') = Len(toReceive) - 1
      /\ \A i \in 1 .. Len(toReceive') : toReceive'[i] = toReceive[i + 1]
      /\ Len(toReceive) > 0
  BY <1>0, <1>1, <1>2, HeadTailProperties, EmptySeq
<1>4. /\ toReceive[1] = Taken + 1 /\ cycleOf[Taken + 1] = cyclesClock
  <2>1. 1 \in 1 .. Len(toReceive)
    BY <1>0, <1>3
  <2> QED BY <1>1, <2>1 DEF Numbered
<1>5. Taken' = Taken + 1
  BY <1>0, <1>2, <1>3 DEF Taken
<1>6. Numbered'
  <2>1. \A i \in 1 .. Len(toReceive') :
          toReceive'[i] = Taken' + i /\ cycleOf'[Taken' + i] = cyclesClock'
    <3> TAKE i \in 1 .. Len(toReceive')
    <3>1. i + 1 \in 1 .. Len(toReceive) /\ Taken + (i + 1) = Taken' + i
      BY <1>0, <1>3, <1>5
    <3>2. toReceive[i + 1] = Taken + (i + 1) /\ cycleOf[Taken + (i + 1)] = cyclesClock
      BY <1>1, <3>1 DEF Numbered
    <3> QED BY <1>2, <1>3, <3>1, <3>2
  <2> QED BY <1>0, <1>1, <1>2, <1>5, <2>1 DEF Numbered
<1> QED BY <1>0, <1>3, <1>4, <1>5, <1>6

(***************************************************************************)
(* A message that is received goes behind all others, or is lost.          *)
(***************************************************************************)
LEMMA EnqueueKeeps ==
  ASSUME QueueInductive, Receive, ReceiveAndEnqueue
  PROVE  QueueInductive'
<1>0. /\ Len(cycleOf) \in Nat /\ Taken \in 0 .. Len(cycleOf)
      /\ delay \in Nat /\ cyclesClock \in Nat
      /\ Contents \in Seq(Input) /\ Len(Contents) \in Nat /\ Len(sent) \in Nat
  BY QueueFacts
<1>1. TypeOK /\ Numbered /\ ContentsInOrder /\ SentInOrder
  BY DEF QueueInductive
<1>2. /\ UNCHANGED <<delay, throughput, cyclesClock, toSend, cycleOf, sent>>
      /\ step = "Receive" /\ delay >= 1 /\ step' \in {"Receive", "Done"}
  BY DEF Receive, ReceiveAndEnqueue, configVars, UseDelayBuffer
<1>3. /\ Head(toReceive) = Taken + 1 /\ Taken + 1 \in 1 .. Len(cycleOf)
      /\ cycleOf[Taken + 1] = cyclesClock
      /\ Taken' = Taken + 1
      /\ toReceive' \in Seq(Nat) /\ Numbered'
  BY ReceiveTakesTheNext
<1>4. \A i \in 1 .. Len(Contents) :
        /\ Contents[i].elem \in 1 .. Taken /\ Contents[i].elem \in 1 .. Taken'
        /\ Contents[i].elem < Taken + 1
        /\ Contents[i].removeAt = cycleOf[Contents[i].elem] + delay
        /\ Contents[i].removeAt > cyclesClock
        /\ Contents[i].removeAt >= cyclesClock
  <2> TAKE i \in 1 .. Len(Contents)
  <2>1. /\ Contents[i].elem \in 1 .. Taken
        /\ Contents[i].removeAt = cycleOf[Contents[i].elem] + delay
        /\ Contents[i].removeAt > cyclesClock
        /\ Contents[i].removeAt >= cyclesClock
    BY <1>1, <1>2 DEF ContentsInOrder
  <2> QED BY <1>0, <1>3, <2>1
<1>5. \A i \in 1 .. Len(sent) :
        /\ sent[i].elem \in 1 .. Taken' /\ sent[i].elem < Taken + 1
        /\ sent[i].cycle = cycleOf[sent[i].elem] + delay
  <2> TAKE i \in 1 .. Len(sent)
  <2>1. /\ sent[i].elem \in 1 .. Taken
        /\ sent[i].cycle = cycleOf[sent[i].elem] + delay
    BY <1>1 DEF SentInOrder
  <2> QED BY <1>0, <1>3, <2>1
<1>6. CASE IsFull
  <2>1. UNCHANGED <<queueFirst, delayBuffer, occupation>> /\ Contents' = Contents
    BY <1>6 DEF ReceiveAndEnqueue, bufferVars, Contents
  <2>2. TypeOK'
    BY <1>1, <1>2, <1>3, <2>1 DEF TypeOK
  <2>3. ContentsInOrder'
    BY <1>1, <1>2, <1>4, <2>1 DEF ContentsInOrder
  <2>4. SentInOrder'
    BY <1>1, <1>2, <1>5, <2>1 DEF SentInOrder
  <2> QED BY <1>3, <2>2, <2>3, <2>4 DEF QueueInductive
<1>7. CASE ~IsFull
  <2>1. Enqueue(Taken + 1) /\ Taken + 1 \in Nat
    BY <1>0, <1>3, <1>7 DEF ReceiveAndEnqueue
  <2>2. /\ queueFirst' \in Input /\ delayBuffer' \in Seq(Input) /\ occupation' \in Nat
        /\ occupation' = Len(delayBuffer') + 1
        /\ Contents' \in Seq(Input)
        /\ Len(Contents') = Len(Contents) + 1
        /\ \A i \in 1 .. Len(Contents) : Contents'[i] = Contents[i]
        /\ Contents'[Len(Contents) + 1] = [elem |-> Taken + 1, removeAt |-> cyclesClock + delay]
    BY <1>1, <1>2, <2>1, EnqueueAppends
  <2>3. TypeOK'
    <3>1. occupation' # 0
      BY <2>2, LenProperties
    <3> QED BY <1>1, <1>2, <1>3, <2>2, <3>1 DEF TypeOK
  <2>4. /\ Contents'[Len(Contents) + 1].elem = Taken + 1
        /\ Contents'[Len(Contents) + 1].removeAt = cyclesClock + delay
    BY <2>2
  <2>5. \A i \in 1 .. Len(Contents') : i \in 1 .. Len(Contents) \/ i = Len(Contents) + 1
    BY <1>0, <2>2
  <2>6. \A i \in 1 .. Len(Contents') :
          /\ Contents'[i].elem \in 1 .. Taken'
          /\ Contents'[i].removeAt = cycleOf[Contents'[i].elem] + delay
          /\ Contents'[i].removeAt >= cyclesClock
          /\ Contents'[i].removeAt > cyclesClock
    <3> TAKE i \in 1 .. Len(Contents')
    <3>1. CASE i \in 1 .. Len(Contents)
      BY <1>4, <2>2, <3>1
    <3>2. CASE i = Len(Contents) + 1
      <4>1. Contents'[i].elem = Taken + 1 /\ Contents'[i].removeAt = cyclesClock + delay
        BY <2>4, <3>2
      <4>2. Taken + 1 \in 1 .. Taken'
        BY <1>0, <1>3
      <4>3. cyclesClock + delay >= cyclesClock /\ cyclesClock + delay > cyclesClock
        BY <1>0, <1>2
      <4> QED BY <1>3, <4>1, <4>2, <4>3
    <3> QED BY <2>5, <3>1, <3>2
  <2>7. \A i, j \in 1 .. Len(Contents') : i < j => Contents'[i].elem < Contents'[j].elem
    <3> SUFFICES ASSUME NEW i \in 1 .. Len(Contents'), NEW j \in 1 .. Len(Contents'), i < j
                 PROVE  Contents'[i].elem < Contents'[j].elem
      OBVIOUS
    <3>1. i \in 1 .. Len(Contents)
      BY <1>0, <2>2
    <3>2. CASE j \in 1 .. Len(Contents)
      BY <1>1, <2>2, <3>1, <3>2 DEF ContentsInOrder
    <3>3. CASE j = Len(Contents) + 1
      BY <1>4, <2>2, <2>4, <3>1, <3>3
    <3> QED BY <2>5, <3>2, <3>3
  <2>8. ContentsInOrder'
    BY <1>2, <2>6, <2>7 DEF ContentsInOrder
  <2>9. SentInOrder'
    <3>1. \A i \in 1 .. Len(sent) : \A j \in 1 .. Len(Contents') : sent[i].elem < Contents'[j].elem
      <4> TAKE i \in 1 .. Len(sent)
      <4> TAKE j \in 1 .. Len(Contents')
      <4>1. CASE j \in 1 .. Len(Contents)
        BY <1>1, <2>2, <4>1 DEF SentInOrder
      <4>2. CASE j = Len(Contents) + 1
        BY <1>5, <2>4, <4>2
      <4> QED BY <2>5, <4>1, <4>2
    <3> QED BY <1>1, <1>2, <1>5, <3>1 DEF SentInOrder
  <2> QED BY <1>3, <2>3, <2>8, <2>9 DEF QueueInductive
<1> QED BY <1>6, <1>7

(***************************************************************************)
(* Without a delay it is sent at once, or lost.                            *)
(***************************************************************************)
LEMMA ForwardKeeps ==
  ASSUME QueueInductive, Receive, ReceiveAndForward
  PROVE  QueueInductive'
<1>0. /\ Len(cycleOf) \in Nat /\ Taken \in 0 .. Len(cycleOf)
      /\ delay \in Nat /\ cyclesClock \in Nat
  BY QueueFacts
<1>1. TypeOK /\ Numbered /\ ContentsInOrder /\ SentInOrder
  BY DEF QueueInductive
<1>2. /\ UNCHANGED <<delay, throughput, cyclesClock, queueFirst, delayBuffer, occupation, cycleOf>>
      /\ step' \in {"Receive", "Done"} /\ delay = 0
      /\ Contents' = Contents
  BY <1>0 DEF Receive, ReceiveAndForward, configVars, bufferVars, UseDelayBuffer, Contents
<1>3. /\ Head(toReceive) = Taken + 1 /\ Taken + 1 \in 1 .. Len(cycleOf)
      /\ cycleOf[Taken + 1] = cyclesClock
      /\ Taken' = Taken + 1
      /\ toReceive' \in Seq(Nat) /\ Numbered'
  BY ReceiveTakesTheNext
<1>4. Contents = <<>> /\ Len(Contents) = 0
  BY <1>1, <1>2 DEF ContentsInOrder
<1>5. ContentsInOrder'
  BY <1>2, <1>4 DEF ContentsInOrder
<1>6. \A i \in 1 .. Len(sent) :
        /\ sent[i].elem \in 1 .. Taken' /\ sent[i].elem < Taken + 1
        /\ sent[i].cycle = cycleOf[sent[i].elem] + delay
  <2> TAKE i \in 1 .. Len(sent)
  <2>1. /\ sent[i].elem \in 1 .. Taken
        /\ sent[i].cycle = cycleOf[sent[i].elem] + delay
    BY <1>1 DEF SentInOrder
  <2> QED BY <1>0, <1>3, <2>1
<1>7. sent' \in Seq([elem : Nat, cycle : Nat]) /\ toSend' \in Seq(Nat) /\ SentInOrder'
  <2>1. CASE CanSend
    <3>1. Send(Taken + 1)
      BY <1>3, <2>1 DEF ReceiveAndForward
    <3>2. /\ Taken + 1 \in Nat /\ Taken' \in Nat /\ Taken <= Taken' /\ Taken + 1 \in 1 .. Taken'
          /\ cycleOf[Taken + 1] + delay = cyclesClock
          /\ Len(Contents') = 0
      BY <1>0, <1>2, <1>3, <1>4
    <3>3. toSend' \in Seq(Nat)
      BY <1>1, <3>1, <3>2, AppendProperties DEF Send, TypeOK
    <3>4. \A j \in 1 .. Len(Contents') : FALSE
      BY <3>2
    <3> QED BY <1>2, <1>6, <3>1, <3>2, <3>3, <3>4, SendKeepsOrder
  <2>2. CASE ~CanSend
    <3>1. UNCHANGED <<toSend, sent>>
      BY <2>2 DEF ReceiveAndForward
    <3> QED BY <1>1, <1>2, <1>6, <3>1 DEF SentInOrder, TypeOK
  <2> QED BY <2>1, <2>2
<1>8. TypeOK'
  BY <1>1, <1>2, <1>3, <1>7 DEF TypeOK
<1> QED BY <1>3, <1>5, <1>7, <1>8 DEF QueueInductive
(***************************************************************************)
(* The end of the cycle, and a simulation that has ended.                  *)
(***************************************************************************)
LEMMA EndReceiveKeeps ==
  ASSUME QueueInductive, EndReceive
  PROVE  QueueInductive'
<1>1. TypeOK /\ Numbered /\ ContentsInOrder /\ SentInOrder
  BY DEF QueueInductive
<1>2. /\ UNCHANGED <<delay, throughput, cyclesClock, queueFirst, delayBuffer, occupation,
                     toReceive, toSend, cycleOf, sent>>
      /\ step = "Receive" /\ step' = "Done" /\ Taken' = Taken /\ Contents' = Contents
  BY DEF EndReceive, configVars, bufferVars, Taken, Contents
<1>3. TypeOK' /\ Numbered' /\ SentInOrder' /\ ContentsInOrder'
  BY <1>1, <1>2 DEF TypeOK, Numbered, SentInOrder, ContentsInOrder
<1> QED BY <1>3 DEF QueueInductive

LEMMA QueueStutters ==
  ASSUME QueueInductive, UNCHANGED queueVars
  PROVE  QueueInductive'
<1>1. /\ UNCHANGED <<delay, throughput, step, cyclesClock, queueFirst, delayBuffer, occupation,
                     toReceive, toSend, cycleOf, sent>>
      /\ Taken' = Taken /\ Contents' = Contents
  BY DEF queueVars, configVars, bufferVars, Taken, Contents
<1> QED BY <1>1 DEF QueueInductive, TypeOK, Numbered, SentInOrder, ContentsInOrder

LEMMA QueueInit ==
  ASSUME Init
  PROVE  QueueInductive
<1>1. delay \in Nat /\ throughput \in Nat /\ (throughput = 0 => delay = 0)
  BY DelayQueueAssumption DEF Init
<1>2. Contents = <<>> /\ Taken = 0
  BY DEF Init, Contents, Taken
<1>3. TypeOK
  BY <1>1 DEF Init, TypeOK, NoInput, Input
<1>4. Numbered /\ ContentsInOrder /\ SentInOrder
  BY <1>2 DEF Init, Numbered, ContentsInOrder, SentInOrder
<1> QED BY <1>3, <1>4 DEF QueueInductive

LEMMA QueueNext ==
  ASSUME QueueInductive, [Next]_queueVars
  PROVE  QueueInductive'
<1>1. CASE \E n \in 0 .. MaxBurst : EnterClock(n)
  <2>1. PICK n \in 0 .. MaxBurst : EnterClock(n)
    BY <1>1
  <2>2. n \in Nat
    BY DelayQueueAssumption
  <2> QED BY <2>1, <2>2, EnterKeeps
<1>2. CASE Drain
  BY <1>2, DrainKeeps
<1>3. CASE EndDrain
  BY <1>3, EndDrainKeeps
<1>4. CASE Receive
  <2>1. ReceiveAndEnqueue \/ ReceiveAndForward
    BY <1>4 DEF Receive
  <2> QED BY <1>4, <2>1, EnqueueKeeps, ForwardKeeps
<1>5. CASE EndReceive
  BY <1>5, EndReceiveKeeps
<1>6. CASE UNCHANGED queueVars
  BY <1>6, QueueStutters
<1> QED BY <1>1, <1>2, <1>3, <1>4, <1>5, <1>6 DEF Next, Clock, SimulationEnds

(***************************************************************************)
(* The inductive invariant holds in every state of every queue.            *)
(***************************************************************************)
THEOREM QueueIsInductive == Spec => []QueueInductive
<1>1. Init => QueueInductive
  BY QueueInit
<1>2. QueueInductive /\ [Next]_queueVars => QueueInductive'
  BY QueueNext
<1> QED BY <1>1, <1>2, PTL DEF Spec

(***************************************************************************)
(* queueFirst, delayBuffer and occupation are one queue, in order, for     *)
(* every delay, throughput and burst (delay_queue.hpp:86-135).             *)
(***************************************************************************)
THEOREM QueueIsOneQueue == Spec => []QueueInvariant
<1>1. QueueInductive => QueueInvariant
  <2> SUFFICES ASSUME QueueInductive PROVE QueueInvariant
    OBVIOUS
  <2>1. occupation = Len(Contents)
    BY QueueFacts
  <2> QED BY <2>1 DEF QueueInductive, TypeOK, ContentsInOrder, QueueInvariant
<1> QED BY <1>1, QueueIsInductive, PTL

(***************************************************************************)
(* What Clock forwards is forwarded exactly delay cycles after it came, at *)
(* most once and in order, whatever is lost (delay_queue.hpp:111, 126).    *)
(***************************************************************************)
THEOREM QueueIsOnTimeInOrder == Spec => []OnTimeInOrder
<1>1. QueueInductive => OnTimeInOrder
  BY DEF QueueInductive, SentInOrder, OnTimeInOrder
<1> QED BY <1>1, QueueIsInductive, PTL
-----------------------------------------------------------------------------
(***************************************************************************)
(* Induction.  A set of numbers has a least element, so a set that holds 0 *)
(* and the successor of each of its elements holds every number.           *)
(***************************************************************************)
LEMMA LeastNat ==
  ASSUME NEW T \in SUBSET Nat, T # {}
  PROVE  \E x \in T : \A y \in T : x <= y
<1> DEFINE R == {ss \in Nat \X Nat : ss[1] < ss[2]}
<1>1. IsWellFoundedOn(R, Nat)
  BY NatLessThanWellFounded DEF OpToRel
<1>2. \A x, y \in Nat : y < x => <<y, x>> \in R
  OBVIOUS
<1> HIDE DEF R
<1>3. PICK x \in T : \A y \in T : ~(<<y, x>> \in R)
  BY <1>1, WFMin
<1>4. \A y \in T : x <= y
  <2> TAKE y \in T
  <2>1. x \in Nat /\ y \in Nat
    OBVIOUS
  <2>2. ~(y < x)
    BY <1>2, <1>3, <2>1, Zenon
  <2> QED BY <2>1, <2>2
<1> QED BY <1>4

LEMMA SetInduction ==
  ASSUME NEW S \in SUBSET Nat, 0 \in S, \A n \in S : n + 1 \in S
  PROVE  S = Nat
<1> SUFFICES ASSUME Nat \ S # {} PROVE FALSE
  OBVIOUS
<1>1. PICK x \in Nat \ S : \A y \in Nat \ S : x <= y
  BY LeastNat
<1> QED BY <1>1, x - 1 \in Nat, x - 1 \in S

(***************************************************************************)
(* Counting: n increasing numbers of a set, and one that is greater.       *)
(***************************************************************************)
LEMMA IncreasingFits ==
  ASSUME NEW T \in SUBSET Nat, IsFiniteSet(T), NEW n \in Nat, NEW f,
         \A i \in 1 .. n : f[i] \in T,
         \A i, j \in 1 .. n : i < j => f[i] < f[j],
         NEW m \in T, \A i \in 1 .. n : f[i] < m
  PROVE  n + 1 <= Cardinality(T)
<1> DEFINE g == [i \in 1 .. n + 1 |-> IF i = n + 1 THEN m ELSE f[i]]
<1>1. \A i \in 1 .. n + 1 : i = n + 1 \/ i \in 1 .. n
  OBVIOUS
<1>2. g \in [1 .. n + 1 -> T]
  BY <1>1
<1>3. \A i, j \in 1 .. n + 1 : i < j => g[i] < g[j]
  <2> SUFFICES ASSUME NEW i \in 1 .. n + 1, NEW j \in 1 .. n + 1, i < j
               PROVE  g[i] < g[j]
    OBVIOUS
  <2>1. i \in 1 .. n
    OBVIOUS
  <2>2. g[i] = f[i]
    BY <2>1
  <2>3. CASE j = n + 1
    BY <2>1, <2>2, <2>3
  <2>4. CASE j \in 1 .. n
    BY <2>1, <2>2, <2>4
  <2> QED BY <1>1, <2>3, <2>4
<1> HIDE DEF g
<1>4. \A i, j \in 1 .. n + 1 : g[i] = g[j] => i = j
  <2> SUFFICES ASSUME NEW i \in 1 .. n + 1, NEW j \in 1 .. n + 1, g[i] = g[j]
               PROVE  i = j
    OBVIOUS
  <2>1. g[i] \in Nat /\ g[j] \in Nat
    BY <1>2
  <2>2. ~(i < j) /\ ~(j < i)
    BY <1>3, <2>1
  <2> QED BY <2>2
<1>5. g \in Injection(1 .. n + 1, T)
  BY <1>2, <1>4 DEF Injection, IsInjective
<1>6. Cardinality(1 .. n + 1) <= Cardinality(T)
  BY <1>5, FS_Injection
<1>7. Cardinality(1 .. n + 1) = n + 1
  BY FS_Interval
<1> QED BY <1>6, <1>7

(***************************************************************************)
(* The messages of the k cycles up to c: no more than k times the          *)
(* throughput if each of these cycles is quiet.                            *)
(***************************************************************************)
InCycle(c) == {m \in 1 .. Len(cycleOf) : cycleOf[m] = c}

Window(c, k) == {m \in 1 .. Len(cycleOf) : c - k < cycleOf[m] /\ cycleOf[m] <= c}

LEMMA QuietLoad ==
  ASSUME cycleOf \in Seq(Nat), throughput \in Nat, throughput # 0, NEW c \in QuietCycles
  PROVE  IsFiniteSet(InCycle(c)) /\ Cardinality(InCycle(c)) <= throughput
<1>1. Len(cycleOf) \in Nat
  BY LenProperties
<1>2. IsFiniteSet(1 .. Len(cycleOf))
  BY <1>1, FS_Interval
<1>3. InCycle(c) \in SUBSET (1 .. Len(cycleOf))
  BY DEF InCycle
<1>4. IsFiniteSet(InCycle(c))
  BY <1>2, <1>3, FS_Subset
<1>5. Cardinality(InCycle(c)) <= throughput
  BY DEF QuietCycles, IsQuiet, Load, Quantify, InCycle
<1> QED BY <1>4, <1>5

LEMMA WindowLoad ==
  ASSUME cycleOf \in Seq(Nat), throughput \in Nat, throughput # 0, NEW c \in Int, NEW K \in Nat,
         c - K + 1 .. c \subseteq QuietCycles
  PROVE  IsFiniteSet(Window(c, K)) /\ Cardinality(Window(c, K)) <= K * throughput
<1> DEFINE S == {k \in Nat : k <= K => /\ IsFiniteSet(Window(c, k))
                                       /\ Cardinality(Window(c, k)) <= k * throughput}
<1>0. Len(cycleOf) \in Nat /\ \A i \in 1 .. Len(cycleOf) : cycleOf[i] \in Nat
  BY LenProperties, ElementOfSeq
<1>1. 0 \in S
  <2>1. Window(c, 0) = {}
    BY <1>0 DEF Window
  <2>2. IsFiniteSet({}) /\ Cardinality({}) = 0
    BY FS_EmptySet
  <2>3. PICK z \in Nat : z = 0 * throughput
    OBVIOUS
  <2>4. IsFiniteSet(Window(c, 0)) /\ Cardinality(Window(c, 0)) = 0
    BY <2>1, <2>2, Zenon
  <2> QED BY <2>3, <2>4
<1>2. ASSUME NEW k \in S PROVE k + 1 \in S
  <2> SUFFICES ASSUME k + 1 <= K
               PROVE  /\ IsFiniteSet(Window(c, k + 1))
                      /\ Cardinality(Window(c, k + 1)) <= (k + 1) * throughput
    OBVIOUS
  <2>1. k \in Nat /\ IsFiniteSet(Window(c, k)) /\ Cardinality(Window(c, k)) <= k * throughput
    OBVIOUS
  <2>2. c - k \in QuietCycles
    BY <2>1
  <2>3. IsFiniteSet(InCycle(c - k)) /\ Cardinality(InCycle(c - k)) <= throughput
    BY <2>2, QuietLoad
  <2>4. Window(c, k + 1) = Window(c, k) \cup InCycle(c - k)
    BY <1>0, <2>1 DEF Window, InCycle
  <2>5. PICK A : A = Window(c, k)
    OBVIOUS
  <2>6. PICK B : B = InCycle(c - k)
    OBVIOUS
  <2>7. /\ IsFiniteSet(A \cup B)
        /\ Cardinality(A \cup B) = Cardinality(A) + Cardinality(B) - Cardinality(A \cap B)
    BY <2>1, <2>3, <2>5, <2>6, FS_Union
  <2>8. IsFiniteSet(A \cap B)
    BY <2>1, <2>5, FS_Intersection
  <2>9. Cardinality(A) \in Nat /\ Cardinality(B) \in Nat /\ Cardinality(A \cap B) \in Nat
    BY <2>1, <2>3, <2>5, <2>6, <2>8, FS_CardinalityType
  <2>10. PICK t \in Nat : t = k * throughput
    BY <2>1
  <2>11. (k + 1) * throughput = t + throughput
    BY <2>1, <2>10
  <2>12. Cardinality(A) <= t /\ Cardinality(B) <= throughput
    BY <2>1, <2>3, <2>5, <2>6, <2>10
  <2>13. Cardinality(A \cup B) <= t + throughput
    BY <2>7, <2>9, <2>12
  <2> QED BY <2>4, <2>5, <2>6, <2>7, <2>11, <2>13
<1>3. S \in SUBSET Nat
  OBVIOUS
<1> HIDE DEF S
<1>4. K \in S
  BY <1>1, <1>2, <1>3, SetInduction
<1> QED BY <1>4 DEF S
-----------------------------------------------------------------------------
(***************************************************************************)
(* In a quiet cycle the connection to sendTo takes what is due: all that   *)
(* was sent before came in the same cycle.                                 *)
(***************************************************************************)
LEMMA QuietIsSent ==
  ASSUME QueueInductive, SentInCycle, NEW m \in 1 .. Len(cycleOf),
         cycleOf[m] + delay = cyclesClock, cycleOf[m] \in QuietCycles,
         \A i \in 1 .. Len(toSend) : toSend[i] < m
  PROVE  CanSend
<1>0. /\ Len(cycleOf) \in Nat /\ Taken \in 0 .. Len(cycleOf)
      /\ delay \in Nat /\ cyclesClock \in Nat
      /\ \A i \in 1 .. Len(cycleOf) : cycleOf[i] \in Nat
  BY QueueFacts
<1>1. cycleOf \in Seq(Nat) /\ throughput \in Nat /\ toSend \in Seq(Nat) /\ Len(toSend) \in Nat
  BY LenProperties DEF QueueInductive, TypeOK
<1> SUFFICES ASSUME throughput # 0 PROVE Len(toSend) < throughput
  BY DEF CanSend
<1>2. PICK T : T = InCycle(cycleOf[m])
  OBVIOUS
<1>3. IsFiniteSet(T) /\ Cardinality(T) <= throughput
  BY <1>1, <1>2, QuietLoad
<1>4. T \in SUBSET Nat /\ m \in T
  BY <1>0, <1>2 DEF InCycle
<1>5. \A i \in 1 .. Len(toSend) : toSend[i] \in T
  <2> TAKE i \in 1 .. Len(toSend)
  <2>1. toSend[i] \in 1 .. Taken /\ cycleOf[toSend[i]] + delay = cyclesClock
    BY DEF SentInCycle
  <2>2. toSend[i] \in 1 .. Len(cycleOf)
    BY <1>0, <2>1
  <2>3. cycleOf[toSend[i]] = cycleOf[m]
    BY <1>0, <2>1, <2>2
  <2> QED BY <1>2, <2>2, <2>3 DEF InCycle
<1>6. \A i, j \in 1 .. Len(toSend) : i < j => toSend[i] < toSend[j]
  BY DEF SentInCycle
<1>7. Len(toSend) + 1 <= Cardinality(T)
  BY <1>1, <1>3, <1>4, <1>5, <1>6, IncreasingFits
<1>8. Cardinality(T) \in Nat
  BY <1>3, FS_CardinalityType
<1> QED BY <1>1, <1>3, <1>7, <1>8

(***************************************************************************)
(* In a calm cycle the buffer is not full: what it holds, and what is      *)
(* received now, came in the last delay cycles.                            *)
(***************************************************************************)
LEMMA CalmIsNotFull ==
  ASSUME QueueInductive, step = "Receive", delay >= 1,
         Taken + 1 \in 1 .. Len(cycleOf), cycleOf[Taken + 1] = cyclesClock,
         cyclesClock \in CalmCycles
  PROVE  ~IsFull
<1>0. /\ Len(cycleOf) \in Nat /\ Taken \in 0 .. Len(cycleOf)
      /\ delay \in Nat /\ cyclesClock \in Nat
      /\ \A i \in 1 .. Len(cycleOf) : cycleOf[i] \in Nat
      /\ Len(Contents) \in Nat /\ Len(Contents) = occupation
  BY QueueFacts
<1>1. /\ cycleOf \in Seq(Nat) /\ throughput \in Nat /\ throughput # 0
      /\ Len(delayBuffer) \in Nat
      /\ occupation = 0 => Len(delayBuffer) = 0
      /\ occupation > 0 => occupation = Len(delayBuffer) + 1
  BY <1>0, LenProperties DEF QueueInductive, TypeOK
<1>2. cyclesClock - delay + 1 .. cyclesClock \subseteq QuietCycles
  BY DEF CalmCycles
<1>3. PICK T : T = Window(cyclesClock, delay)
  OBVIOUS
<1>4. IsFiniteSet(T) /\ Cardinality(T) <= delay * throughput
  BY <1>0, <1>1, <1>2, <1>3, WindowLoad
<1>5. T \in SUBSET Nat /\ Taken + 1 \in T
  BY <1>0, <1>3 DEF Window
<1>6. PICK f : f = [i \in 1 .. Len(Contents) |-> Contents[i].elem]
  OBVIOUS
<1>7. \A i \in 1 .. Len(Contents) : f[i] \in T /\ f[i] < Taken + 1
  <2> TAKE i \in 1 .. Len(Contents)
  <2>1. /\ Contents[i].elem \in 1 .. Taken
        /\ Contents[i].removeAt = cycleOf[Contents[i].elem] + delay
        /\ Contents[i].removeAt > cyclesClock
    BY DEF QueueInductive, ContentsInOrder
  <2>2. Contents[i].elem \in 1 .. Len(cycleOf) /\ Contents[i].elem < Taken + 1
    BY <1>0, <2>1
  <2>3. cycleOf[Contents[i].elem] \in Nat /\ cycleOf[Contents[i].elem] <= cyclesClock
    BY <1>0, <2>2 DEF QueueInductive, Numbered
  <2>4. cyclesClock - delay < cycleOf[Contents[i].elem]
    BY <1>0, <2>1, <2>3
  <2> QED BY <1>3, <1>6, <2>2, <2>3, <2>4 DEF Window
<1>8. \A i, j \in 1 .. Len(Contents) : i < j => f[i] < f[j]
  BY <1>6 DEF QueueInductive, ContentsInOrder
<1>9. Len(Contents) + 1 <= Cardinality(T)
  BY <1>0, <1>4, <1>5, <1>7, <1>8, IncreasingFits
<1>10. Cardinality(T) \in Nat
  BY <1>4, FS_CardinalityType
<1>11. PICK p \in Nat : p = delay * throughput
  BY <1>0, <1>1
<1>12. Len(delayBuffer) + 1 <= p
  BY <1>0, <1>1, <1>4, <1>9, <1>10, <1>11
<1>13. DelayBufferSize = p + throughput - 1
  BY <1>11 DEF DelayBufferSize
<1> QED BY <1>1, <1>12, <1>13 DEF IsFull

(***************************************************************************)
(* Sending keeps the order of what was sent in the cycle.                  *)
(***************************************************************************)
LEMMA SendInCycle ==
  ASSUME QueueInductive, SentInCycle, NEW m \in Nat, Send(m),
         UNCHANGED <<delay, cycleOf, cyclesClock>>,
         Taken' \in Nat, Taken <= Taken', m \in 1 .. Taken',
         cycleOf[m] + delay = cyclesClock,
         \A i \in 1 .. Len(toSend) : toSend[i] < m,
         \A j \in 1 .. Len(Contents') : m < Contents'[j].elem,
         \A i \in 1 .. Len(toSend) : \A j \in 1 .. Len(Contents') : toSend[i] < Contents'[j].elem
  PROVE  SentInCycle'
<1>0. toSend \in Seq(Nat) /\ Len(toSend) \in Nat /\ Taken \in Nat
  BY QueueFacts, LenProperties DEF QueueInductive, TypeOK
<1>1. toSend' = Append(toSend, m)
  BY DEF Send
<1>2. /\ Len(toSend') = Len(toSend) + 1
      /\ \A i \in 1 .. Len(toSend) : toSend'[i] = toSend[i]
      /\ toSend'[Len(toSend) + 1] = m
  BY <1>0, <1>1, AppendProperties
<1>3. \A i \in 1 .. Len(toSend') : i \in 1 .. Len(toSend) \/ i = Len(toSend) + 1
  BY <1>0, <1>2
<1>4. \A i \in 1 .. Len(toSend') :
        /\ toSend'[i] \in 1 .. Taken'
        /\ cycleOf'[toSend'[i]] + delay' = cyclesClock'
        /\ \A j \in 1 .. Len(Contents') : toSend'[i] < Contents'[j].elem
  <2> TAKE i \in 1 .. Len(toSend')
  <2>1. CASE i = Len(toSend) + 1
    BY <1>2, <2>1
  <2>2. CASE i \in 1 .. Len(toSend)
    <3>1. toSend[i] \in 1 .. Taken /\ cycleOf[toSend[i]] + delay = cyclesClock
      BY <2>2 DEF SentInCycle
    <3>2. toSend[i] \in 1 .. Taken'
      BY <1>0, <3>1
    <3> QED BY <1>2, <2>2, <3>1, <3>2
  <2> QED BY <1>3, <2>1, <2>2
<1>5. \A i, j \in 1 .. Len(toSend') : i < j => toSend'[i] < toSend'[j]
  <2> SUFFICES ASSUME NEW i \in 1 .. Len(toSend'), NEW j \in 1 .. Len(toSend'), i < j
               PROVE  toSend'[i] < toSend'[j]
    OBVIOUS
  <2>1. i \in 1 .. Len(toSend)
    BY <1>0, <1>2
  <2>2. CASE j = Len(toSend) + 1
    BY <1>2, <2>1, <2>2
  <2>3. CASE j \in 1 .. Len(toSend)
    BY <1>2, <2>1, <2>3 DEF SentInCycle
  <2> QED BY <1>3, <2>2, <2>3
<1> QED BY <1>4, <1>5 DEF SentInCycle

(***************************************************************************)
(* What was delivered stays delivered, and what is sent is delivered.      *)
(***************************************************************************)
LEMMA SendDelivers ==
  ASSUME QueueInductive, NEW m \in Nat, Send(m)
  PROVE  /\ \E i \in 1 .. Len(sent') : sent'[i].elem = m
         /\ \A k : (\E i \in 1 .. Len(sent) : sent[i].elem = k)
                     => \E i \in 1 .. Len(sent') : sent'[i].elem = k
<1> DEFINE new == [elem |-> m, cycle |-> cyclesClock]
<1>0. sent \in Seq([elem : Nat, cycle : Nat]) /\ Len(sent) \in Nat /\ cyclesClock \in Nat
  BY QueueFacts
<1>1. new \in [elem : Nat, cycle : Nat] /\ new.elem = m
  BY <1>0
<1>2. sent' = Append(sent, new)
  BY DEF Send
<1> HIDE DEF new
<1>3. /\ Len(sent') = Len(sent) + 1
      /\ \A i \in 1 .. Len(sent) : sent'[i] = sent[i]
      /\ sent'[Len(sent) + 1] = new
  BY <1>0, <1>1, <1>2, AppendProperties
<1>4. Len(sent) + 1 \in 1 .. Len(sent') /\ \A i \in 1 .. Len(sent) : i \in 1 .. Len(sent')
  BY <1>0, <1>3
<1> QED BY <1>1, <1>3, <1>4
-----------------------------------------------------------------------------
(***************************************************************************)
(* A cycle stays as quiet as it was: what comes later is not of it.        *)
(***************************************************************************)
LEMMA QuietStays ==
  ASSUME UNCHANGED <<delay, throughput, cycleOf>>
  PROVE  QuietCycles' = QuietCycles /\ CalmCycles' = CalmCycles
<1>1. QuietCycles' = QuietCycles
  BY DEF QuietCycles, IsQuiet, Load, Quantify
<1> QED BY <1>1 DEF CalmCycles

LEMMA CalmStays ==
  ASSUME QueueInductive, NEW n \in Nat, EnterClock(n), NEW c \in Int, c <= cyclesClock,
         c \in CalmCycles'
  PROVE  c \in CalmCycles
<1>0. Len(cycleOf) \in Nat /\ cyclesClock \in Nat /\ delay \in Nat /\ delay' = delay
      /\ throughput' = throughput
  BY QueueFacts DEF EnterClock, configVars
<1>1. /\ Len(cycleOf') = Len(cycleOf) + n
      /\ \A i \in 1 .. Len(cycleOf) : cycleOf'[i] = cycleOf[i]
      /\ \A i \in Len(cycleOf) + 1 .. Len(cycleOf) + n : cycleOf'[i] = cyclesClock + 1
  BY EnterKeepsHistory DEF QueueInductive
<1>2. ASSUME NEW d \in Int, d <= cyclesClock, d \in QuietCycles'
      PROVE  d \in QuietCycles
  <2>1. {m \in 1 .. Len(cycleOf') : cycleOf'[m] = d} = {m \in 1 .. Len(cycleOf) : cycleOf[m] = d}
    <3>1. \A m \in 1 .. Len(cycleOf) : m \in 1 .. Len(cycleOf')
      BY <1>0, <1>1
    <3>2. ASSUME NEW m \in 1 .. Len(cycleOf'), cycleOf'[m] = d
          PROVE  m \in 1 .. Len(cycleOf)
      <4>1. CASE m \in Len(cycleOf) + 1 .. Len(cycleOf) + n
        BY <1>0, <1>1, <1>2, <3>2, <4>1
      <4> QED BY <1>0, <1>1, <4>1
    <3> QED BY <1>1, <3>1, <3>2
  <2> QED BY <1>0, <1>2, <2>1 DEF QuietCycles, IsQuiet, Load, Quantify
<1>3. c \in QuietCycles' /\ c - delay + 1 .. c \subseteq QuietCycles'
  BY <1>0 DEF CalmCycles
<1>4. c \in QuietCycles
  BY <1>2, <1>3
<1>5. \A d \in c - delay + 1 .. c : d \in QuietCycles
  <2> TAKE d \in c - delay + 1 .. c
  <2>1. d \in Int /\ d <= cyclesClock
    BY <1>0
  <2> QED BY <1>2, <1>3, <2>1
<1> QED BY <1>4, <1>5 DEF CalmCycles

(***************************************************************************)
(* A new cycle: what is flushed did not come in a calm cycle.              *)
(***************************************************************************)
LEMMA EnterKeepsCalm ==
  ASSUME BurstInductive, NEW n \in Nat, EnterClock(n)
  PROVE  SentInCycle' /\ CalmIsKept'
<1>0. /\ QueueInductive /\ CalmIsKept
      /\ Len(cycleOf) \in Nat /\ Len(toReceive) \in Nat /\ Taken \in 0 .. Len(cycleOf)
      /\ Taken = Len(cycleOf) - Len(toReceive)
      /\ cyclesClock \in Nat
      /\ \A i \in 1 .. Len(cycleOf) : cycleOf[i] \in Nat
  BY QueueFacts DEF BurstInductive, Taken
<1>1. /\ Len(cycleOf') = Len(cycleOf) + n
      /\ \A i \in 1 .. Len(cycleOf) : cycleOf'[i] = cycleOf[i]
      /\ Taken' = Len(cycleOf)
      /\ Contents' = Contents
  BY <1>0, EnterKeepsHistory DEF QueueInductive
<1>2. /\ toSend' = <<>> /\ sent' = sent /\ step = "Done" /\ step' # "Done"
  BY DEF EnterClock, UseDelayBuffer
<1>3. SentInCycle'
  BY <1>2 DEF SentInCycle
<1>4. ASSUME NEW m \in 1 .. Len(cycleOf'), cycleOf'[m] \in CalmCycles'
      PROVE  m \in Kept'
  <2>1. CASE m > Len(cycleOf)
    BY <1>1, <2>1 DEF Kept
  <2>2. CASE m <= Len(cycleOf)
    <3>1. m \in 1 .. Len(cycleOf) /\ cycleOf'[m] = cycleOf[m]
      BY <1>0, <1>1, <2>2
    <3>2. cycleOf[m] \in Nat /\ cycleOf[m] <= cyclesClock
      BY <1>0, <3>1 DEF QueueInductive, Numbered
    <3>3. cycleOf[m] \in Int /\ cycleOf[m] \in CalmCycles'
      BY <1>4, <3>1, <3>2
    <3>4. cycleOf[m] \in CalmCycles
      BY <1>0, <3>2, <3>3, CalmStays
    <3>5. m \in Kept
      BY <1>0, <3>1, <3>4 DEF CalmIsKept
    <3>6. ~(m > Taken)
      <4> SUFFICES ASSUME m > Taken PROVE FALSE
        OBVIOUS
      <4>1. m - Taken \in 1 .. Len(toReceive) /\ Taken + (m - Taken) = m
        BY <1>0, <3>1
      <4>2. cycleOf[m] = cyclesClock
        BY <1>0, <4>1 DEF QueueInductive, Numbered
      <4>3. toReceive # <<>>
        BY <4>1
      <4> QED BY <1>0, <1>2, <3>4, <4>2, <4>3 DEF CalmIsKept
    <3>7. \/ \E i \in 1 .. Len(Contents) : Contents[i].elem = m
          \/ \E i \in 1 .. Len(sent) : sent[i].elem = m
      BY <3>5, <3>6 DEF Kept, IsDelivered
    <3> QED BY <1>1, <1>2, <3>7 DEF Kept, IsDelivered
  <2>3. m \in Nat
    BY <1>0, <1>1
  <2> QED BY <1>0, <2>1, <2>2, <2>3
<1> QED BY <1>2, <1>3, <1>4 DEF CalmIsKept

(***************************************************************************)
(* Drain sends a message of a calm cycle.                                  *)
(***************************************************************************)
LEMMA DrainKeepsCalm ==
  ASSUME BurstInductive, Drain
  PROVE  SentInCycle' /\ CalmIsKept'
<1>0. /\ QueueInductive /\ SentInCycle /\ CalmIsKept /\ TypeOK /\ ContentsInOrder /\ SentInOrder
      /\ Len(cycleOf) \in Nat /\ Taken \in 0 .. Len(cycleOf)
      /\ delay \in Nat /\ cyclesClock \in Nat
      /\ \A i \in 1 .. Len(cycleOf) : cycleOf[i] \in Nat
      /\ Len(Contents) \in Nat
  BY QueueFacts DEF BurstInductive, QueueInductive
<1>2. /\ UNCHANGED <<delay, throughput, step, cyclesClock, toReceive, cycleOf>>
      /\ step = "Drain" /\ Dequeue /\ Taken' = Taken
  BY DEF Drain, configVars, Taken
<1>3. /\ Len(Contents) > 0
      /\ Contents[1] = queueFirst
      /\ Len(Contents') = Len(Contents) - 1
      /\ \A i \in 1 .. Len(Contents) - 1 : Contents'[i] = Contents[i + 1]
  BY <1>0, <1>2, DequeueRemoves
<1>4. /\ 1 \in 1 .. Len(Contents)
      /\ \A i \in 1 .. Len(Contents') : i + 1 \in 1 .. Len(Contents) /\ Contents'[i] = Contents[i + 1]
      /\ \A i \in 1 .. Len(Contents) :
           i # 1 => i - 1 \in 1 .. Len(Contents') /\ Contents'[i - 1] = Contents[i]
  <2>1. \A i \in 1 .. Len(Contents) :
          i # 1 => i - 1 \in 1 .. Len(Contents) - 1 /\ (i - 1) + 1 = i
    BY <1>0
  <2> QED BY <1>0, <1>3, <2>1
<1>5. /\ queueFirst.elem \in 1 .. Taken /\ queueFirst.elem \in 1 .. Len(cycleOf)
      /\ cycleOf[queueFirst.elem] + delay = cyclesClock
  <2>1. /\ queueFirst.elem \in 1 .. Taken
        /\ queueFirst.removeAt = cycleOf[queueFirst.elem] + delay
        /\ queueFirst.removeAt >= cyclesClock
    BY <1>0, <1>3, <1>4 DEF ContentsInOrder
  <2>2. queueFirst.removeAt <= cyclesClock
    BY <1>2 DEF Dequeue, CanDequeue, HasCome
  <2>3. queueFirst.elem \in 1 .. Len(cycleOf)
    BY <1>0, <2>1
  <2>4. queueFirst.removeAt \in Nat
    BY <1>0, <2>1, <2>3
  <2> QED BY <1>0, <2>1, <2>2, <2>3, <2>4
<1>6. /\ \A i \in 1 .. Len(toSend) : toSend[i] < queueFirst.elem
      /\ \A j \in 1 .. Len(Contents') : queueFirst.elem < Contents'[j].elem
      /\ \A i \in 1 .. Len(toSend) : \A j \in 1 .. Len(Contents') : toSend[i] < Contents'[j].elem
  <2>1. \A i \in 1 .. Len(toSend) : toSend[i] < queueFirst.elem
    BY <1>0, <1>3, <1>4 DEF SentInCycle
  <2>2. \A j \in 1 .. Len(Contents') : queueFirst.elem < Contents'[j].elem
    <3> TAKE j \in 1 .. Len(Contents')
    <3>1. 1 < j + 1
      BY <1>0, <1>3
    <3> QED BY <1>0, <1>3, <1>4, <3>1 DEF ContentsInOrder
  <2>3. \A i \in 1 .. Len(toSend) : \A j \in 1 .. Len(Contents') : toSend[i] < Contents'[j].elem
    BY <1>0, <1>4 DEF SentInCycle
  <2> QED BY <2>1, <2>2, <2>3
<1>7. queueFirst.elem \in Nat /\ Taken' \in Nat /\ Taken <= Taken' /\ queueFirst.elem \in 1 .. Taken'
  BY <1>0, <1>2, <1>5
<1>8. SentInCycle'
  <2>1. CASE CanSend
    <3>1. Send(queueFirst.elem)
      BY <2>1 DEF Drain
    <3> QED BY <1>0, <1>2, <1>5, <1>6, <1>7, <3>1, SendInCycle
  <2>2. CASE ~CanSend
    <3>1. UNCHANGED <<toSend, sent>>
      BY <2>2 DEF Drain
    <3> QED BY <1>0, <1>2, <1>6, <3>1 DEF SentInCycle
  <2> QED BY <2>1, <2>2
<1>9. \A k : (\E i \in 1 .. Len(sent) : sent[i].elem = k)
                => \E i \in 1 .. Len(sent') : sent'[i].elem = k
  <2>1. CASE CanSend
    <3>1. Send(queueFirst.elem)
      BY <2>1 DEF Drain
    <3> QED BY <1>0, <1>7, <3>1, SendDelivers
  <2>2. CASE ~CanSend
    BY <2>2 DEF Drain
  <2> QED BY <2>1, <2>2
<1>10. QuietCycles' = QuietCycles /\ CalmCycles' = CalmCycles
  BY <1>2, QuietStays
<1>11. ASSUME NEW m \in 1 .. Len(cycleOf), cycleOf[m] \in CalmCycles
       PROVE  m \in Kept'
  <2>1. m \in Kept
    BY <1>0, <1>11 DEF CalmIsKept
  <2>2. CASE m > Taken
    BY <1>2, <2>2 DEF Kept
  <2>3. CASE \E i \in 1 .. Len(sent) : sent[i].elem = m
    BY <1>2, <1>9, <2>3 DEF Kept, IsDelivered
  <2>4. CASE \E i \in 1 .. Len(Contents) : Contents[i].elem = m
    <3>1. PICK i \in 1 .. Len(Contents) : Contents[i].elem = m
      BY <2>4
    <3>2. CASE i # 1
      <4>1. i - 1 \in 1 .. Len(Contents') /\ Contents'[i - 1].elem = m
        BY <1>4, <3>1, <3>2
      <4> QED BY <1>2, <4>1 DEF Kept
    <3>3. CASE i = 1
      <4>1. m = queueFirst.elem
        BY <1>3, <3>1, <3>3
      <4>2. cycleOf[m] \in QuietCycles
        BY <1>11 DEF CalmCycles
      <4>3. CanSend
        BY <1>0, <1>5, <1>6, <4>1, <4>2, QuietIsSent
      <4>4. Send(queueFirst.elem)
        BY <4>3 DEF Drain
      <4>5. \E j \in 1 .. Len(sent') : sent'[j].elem = m
        BY <1>0, <1>7, <4>1, <4>4, SendDelivers
      <4> QED BY <1>2, <4>5 DEF Kept, IsDelivered
    <3> QED BY <3>2, <3>3
  <2> QED BY <2>1, <2>2, <2>3, <2>4 DEF Kept, IsDelivered
<1>12. CalmIsKept'
  BY <1>2, <1>10, <1>11 DEF CalmIsKept
<1> QED BY <1>8, <1>12

(***************************************************************************)
(* A message of a calm cycle is received and finds a place, or is sent.    *)
(***************************************************************************)
LEMMA EnqueueKeepsCalm ==
  ASSUME BurstInductive, Receive, ReceiveAndEnqueue
  PROVE  SentInCycle' /\ CalmIsKept'
<1>0. /\ QueueInductive /\ SentInCycle /\ CalmIsKept /\ TypeOK
      /\ Len(cycleOf) \in Nat /\ Taken \in 0 .. Len(cycleOf)
      /\ delay \in Nat /\ cyclesClock \in Nat /\ Len(Contents) \in Nat
  BY QueueFacts DEF BurstInductive, QueueInductive
<1>1. /\ UNCHANGED <<delay, throughput, cyclesClock, toSend, cycleOf, sent>>
      /\ step = "Receive" /\ delay >= 1
  BY DEF Receive, ReceiveAndEnqueue, configVars, UseDelayBuffer
<1>2. /\ Head(toReceive) = Taken + 1 /\ Taken + 1 \in 1 .. Len(cycleOf)
      /\ cycleOf[Taken + 1] = cyclesClock
      /\ Taken' = Taken + 1
  BY <1>0, ReceiveTakesTheNext
<1>3. QuietCycles' = QuietCycles /\ CalmCycles' = CalmCycles
  BY <1>1, QuietStays
<1>4. \A i \in 1 .. Len(toSend) : toSend[i] \in 1 .. Taken' /\ toSend[i] < Taken + 1
  <2> TAKE i \in 1 .. Len(toSend)
  <2>1. toSend[i] \in 1 .. Taken
    BY <1>0 DEF SentInCycle
  <2> QED BY <1>0, <1>2, <2>1
<1>5. CASE IsFull
  <2>1. Contents' = Contents
    BY <1>5 DEF ReceiveAndEnqueue, bufferVars, Contents
  <2>2. SentInCycle'
    BY <1>0, <1>1, <1>4, <2>1 DEF SentInCycle
  <2>3. cyclesClock \notin CalmCycles
    BY <1>0, <1>1, <1>2, <1>5, CalmIsNotFull
  <2>4. ASSUME NEW m \in 1 .. Len(cycleOf), cycleOf[m] \in CalmCycles
        PROVE  m \in Kept'
    <3>1. m \in Kept /\ m # Taken + 1
      BY <1>0, <1>2, <2>3, <2>4 DEF CalmIsKept
    <3>2. m > Taken => m > Taken'
      BY <1>0, <1>2, <3>1
    <3> QED BY <1>1, <2>1, <3>1, <3>2 DEF Kept, IsDelivered
  <2> QED BY <1>1, <1>3, <2>2, <2>3, <2>4 DEF CalmIsKept
<1>6. CASE ~IsFull
  <2>1. Enqueue(Taken + 1) /\ Taken + 1 \in Nat /\ step' = "Receive"
    BY <1>0, <1>1, <1>2, <1>6 DEF ReceiveAndEnqueue
  <2>2. /\ Len(Contents') = Len(Contents) + 1
        /\ \A i \in 1 .. Len(Contents) : Contents'[i] = Contents[i]
        /\ Contents'[Len(Contents) + 1] = [elem |-> Taken + 1, removeAt |-> cyclesClock + delay]
    BY <1>0, <1>1, <2>1, EnqueueAppends
  <2>3. /\ Contents'[Len(Contents) + 1].elem = Taken + 1
        /\ Len(Contents) + 1 \in 1 .. Len(Contents')
        /\ \A i \in 1 .. Len(Contents) : i \in 1 .. Len(Contents')
        /\ \A i \in 1 .. Len(Contents') : i \in 1 .. Len(Contents) \/ i = Len(Contents) + 1
    BY <1>0, <2>2
  <2>4. SentInCycle'
    <3>1. \A i \in 1 .. Len(toSend) : \A j \in 1 .. Len(Contents') : toSend[i] < Contents'[j].elem
      <4> TAKE i \in 1 .. Len(toSend)
      <4> TAKE j \in 1 .. Len(Contents')
      <4>1. CASE j \in 1 .. Len(Contents)
        BY <1>0, <2>2, <4>1 DEF SentInCycle
      <4>2. CASE j = Len(Contents) + 1
        BY <1>4, <2>3, <4>2
      <4> QED BY <2>3, <4>1, <4>2
    <3> QED BY <1>0, <1>1, <1>4, <3>1 DEF SentInCycle
  <2>5. ASSUME NEW m \in 1 .. Len(cycleOf), cycleOf[m] \in CalmCycles
        PROVE  m \in Kept'
    <3>1. m \in Kept
      BY <1>0, <2>5 DEF CalmIsKept
    <3>2. CASE m = Taken + 1
      <4>1. \E i \in 1 .. Len(Contents') : Contents'[i].elem = m
        BY <2>3, <3>2
      <4> QED BY <1>1, <4>1 DEF Kept
    <3>3. CASE m # Taken + 1
      <4>1. m > Taken => m > Taken'
        BY <1>0, <1>2, <3>3
      <4>2. ASSUME NEW i \in 1 .. Len(Contents), Contents[i].elem = m
            PROVE  \E k \in 1 .. Len(Contents') : Contents'[k].elem = m
        BY <2>2, <2>3, <4>2
      <4> QED BY <1>1, <3>1, <4>1, <4>2 DEF Kept, IsDelivered
    <3> QED BY <3>2, <3>3
  <2> QED BY <1>1, <1>3, <2>1, <2>4, <2>5 DEF CalmIsKept
<1> QED BY <1>5, <1>6

LEMMA ForwardKeepsCalm ==
  ASSUME BurstInductive, Receive, ReceiveAndForward
  PROVE  SentInCycle' /\ CalmIsKept'
<1>0. /\ QueueInductive /\ SentInCycle /\ CalmIsKept /\ ContentsInOrder
      /\ Len(cycleOf) \in Nat /\ Taken \in 0 .. Len(cycleOf)
      /\ delay \in Nat /\ cyclesClock \in Nat
  BY QueueFacts DEF BurstInductive, QueueInductive
<1>1. /\ UNCHANGED <<delay, throughput, cyclesClock, cycleOf>>
      /\ step = "Receive" /\ delay = 0 /\ Contents' = Contents
  BY <1>0 DEF Receive, ReceiveAndForward, configVars, bufferVars, UseDelayBuffer, Contents
<1>2. /\ Head(toReceive) = Taken + 1 /\ Taken + 1 \in 1 .. Len(cycleOf)
      /\ cycleOf[Taken + 1] = cyclesClock
      /\ Taken' = Taken + 1
  BY <1>0, ReceiveTakesTheNext
<1>3. QuietCycles' = QuietCycles /\ CalmCycles' = CalmCycles
  BY <1>1, QuietStays
<1>4. \A i \in 1 .. Len(toSend) : toSend[i] \in 1 .. Taken' /\ toSend[i] < Taken + 1
  <2> TAKE i \in 1 .. Len(toSend)
  <2>1. toSend[i] \in 1 .. Taken
    BY <1>0 DEF SentInCycle
  <2> QED BY <1>0, <1>2, <2>1
<1>5. \A j \in 1 .. Len(Contents) : FALSE
  BY <1>0, <1>1 DEF ContentsInOrder
<1>6. CASE CanSend
  <2>1. Send(Taken + 1) /\ step' = "Receive"
    BY <1>1, <1>2, <1>6 DEF ReceiveAndForward
  <2>2. /\ Taken + 1 \in Nat /\ Taken' \in Nat /\ Taken <= Taken' /\ Taken + 1 \in 1 .. Taken'
        /\ cycleOf[Taken + 1] + delay = cyclesClock
    BY <1>0, <1>1, <1>2
  <2>3. SentInCycle'
    BY <1>0, <1>1, <1>4, <1>5, <2>1, <2>2, SendInCycle
  <2>4. /\ \E i \in 1 .. Len(sent') : sent'[i].elem = Taken + 1
        /\ \A k : (\E i \in 1 .. Len(sent) : sent[i].elem = k)
                    => \E i \in 1 .. Len(sent') : sent'[i].elem = k
    BY <1>0, <2>1, <2>2, SendDelivers
  <2>5. ASSUME NEW m \in 1 .. Len(cycleOf), cycleOf[m] \in CalmCycles
        PROVE  m \in Kept'
    <3>1. m \in Kept
      BY <1>0, <2>5 DEF CalmIsKept
    <3>2. CASE m = Taken + 1
      BY <1>1, <2>4, <3>2 DEF Kept, IsDelivered
    <3>3. CASE m # Taken + 1
      <4>1. m > Taken => m > Taken'
        BY <1>0, <1>2, <3>3
      <4> QED BY <1>1, <1>5, <2>4, <3>1, <4>1 DEF Kept, IsDelivered
    <3> QED BY <3>2, <3>3
  <2> QED BY <1>1, <1>3, <2>1, <2>3, <2>5 DEF CalmIsKept
<1>7. CASE ~CanSend
  <2>1. UNCHANGED <<toSend, sent>>
    BY <1>7 DEF ReceiveAndForward
  <2>2. SentInCycle'
    BY <1>0, <1>1, <1>4, <2>1 DEF SentInCycle
  <2>3. cyclesClock \notin CalmCycles
    <3> SUFFICES ASSUME cyclesClock \in CalmCycles PROVE FALSE
      OBVIOUS
    <3>1. cycleOf[Taken + 1] \in QuietCycles /\ cycleOf[Taken + 1] + delay = cyclesClock
      BY <1>0, <1>1, <1>2 DEF CalmCycles
    <3> QED BY <1>0, <1>2, <1>4, <1>7, <3>1, QuietIsSent
  <2>4. ASSUME NEW m \in 1 .. Len(cycleOf), cycleOf[m] \in CalmCycles
        PROVE  m \in Kept'
    <3>1. m \in Kept /\ m # Taken + 1
      BY <1>0, <1>2, <2>3, <2>4 DEF CalmIsKept
    <3>2. m > Taken => m > Taken'
      BY <1>0, <1>2, <3>1
    <3> QED BY <1>1, <2>1, <3>1, <3>2 DEF Kept, IsDelivered
  <2> QED BY <1>1, <1>3, <2>2, <2>3, <2>4 DEF CalmIsKept
<1> QED BY <1>6, <1>7
(***************************************************************************)
(* The steps that touch no message.                                        *)
(***************************************************************************)
LEMMA IdleKeepsCalm ==
  ASSUME BurstInductive, EndDrain \/ EndReceive \/ UNCHANGED queueVars
  PROVE  SentInCycle' /\ CalmIsKept'
<1>0. SentInCycle /\ CalmIsKept
  BY DEF BurstInductive
<1>1. /\ UNCHANGED <<delay, throughput, cyclesClock, toReceive, toSend, cycleOf, sent>>
      /\ Taken' = Taken /\ Contents' = Contents
      /\ step' = "Receive" \/ toReceive = <<>> \/ step' = step
  BY DEF EndDrain, EndReceive, queueVars, configVars, bufferVars, Taken, Contents
<1>2. CalmCycles' = CalmCycles
  BY <1>1, QuietStays
<1>3. Kept' = Kept
  BY <1>1 DEF Kept, IsDelivered
<1>4. SentInCycle'
  BY <1>0, <1>1 DEF SentInCycle
<1> QED BY <1>0, <1>1, <1>2, <1>3, <1>4 DEF CalmIsKept

LEMMA BurstNext ==
  ASSUME BurstInductive, [Next]_queueVars
  PROVE  BurstInductive'
<1>0. QueueInductive'
  BY QueueNext DEF BurstInductive
<1>1. CASE \E n \in 0 .. MaxBurst : EnterClock(n)
  <2>1. PICK n \in 0 .. MaxBurst : EnterClock(n)
    BY <1>1
  <2>2. n \in Nat
    BY DelayQueueAssumption
  <2> QED BY <1>0, <2>1, <2>2, EnterKeepsCalm DEF BurstInductive
<1>2. CASE Drain
  BY <1>0, <1>2, DrainKeepsCalm DEF BurstInductive
<1>3. CASE EndDrain \/ EndReceive \/ UNCHANGED queueVars
  BY <1>0, <1>3, IdleKeepsCalm DEF BurstInductive
<1>4. CASE Receive
  <2>1. ReceiveAndEnqueue \/ ReceiveAndForward
    BY <1>4 DEF Receive
  <2> QED BY <1>0, <1>4, <2>1, EnqueueKeepsCalm, ForwardKeepsCalm DEF BurstInductive
<1> QED BY <1>1, <1>2, <1>3, <1>4 DEF Next, Clock, SimulationEnds

(***************************************************************************)
(* When the cycle is over, a message of a calm cycle that is due has left: *)
(* it is kept, and it is neither to be received nor in the queue.          *)
(***************************************************************************)
LEMMA BurstImplies ==
  ASSUME BurstInductive
  PROVE  RecoversFromBursts
<1>0. /\ QueueInductive /\ CalmIsKept
      /\ Len(cycleOf) \in Nat /\ Len(toReceive) \in Nat /\ Taken \in 0 .. Len(cycleOf)
      /\ Taken = Len(cycleOf) - Len(toReceive)
      /\ delay \in Nat /\ cyclesClock \in Nat
      /\ \A i \in 1 .. Len(cycleOf) : cycleOf[i] \in Nat
  BY QueueFacts DEF BurstInductive, Taken
<1> SUFFICES ASSUME step = "Done", NEW m \in 1 .. Len(cycleOf),
                    cycleOf[m] + delay <= cyclesClock,
                    \A c \in cycleOf[m] - delay + 1 .. cycleOf[m] : IsQuiet(c),
                    IsQuiet(cycleOf[m])
             PROVE  IsDelivered(m)
  BY DEF RecoversFromBursts
<1>1. cycleOf[m] \in Nat
  BY <1>0
<1>2. cycleOf[m] \in CalmCycles
  BY <1>0, <1>1 DEF CalmCycles, QuietCycles
<1>3. m \in Kept
  BY <1>0, <1>2 DEF CalmIsKept
<1>4. ~(m > Taken)
  <2> SUFFICES ASSUME m > Taken PROVE FALSE
    OBVIOUS
  <2>1. m - Taken \in 1 .. Len(toReceive) /\ Taken + (m - Taken) = m
    BY <1>0
  <2>2. cycleOf[m] = cyclesClock
    BY <1>0, <2>1 DEF QueueInductive, Numbered
  <2>3. toReceive # <<>>
    BY <2>1
  <2> QED BY <1>0, <1>2, <2>2, <2>3 DEF CalmIsKept
<1>5. ASSUME NEW i \in 1 .. Len(Contents), Contents[i].elem = m
      PROVE  FALSE
  <2>1. /\ Contents[i].removeAt = cycleOf[m] + delay
        /\ Contents[i].removeAt > cyclesClock
    BY <1>0, <1>5 DEF QueueInductive, ContentsInOrder
  <2> QED BY <1>0, <1>1, <2>1
<1> QED BY <1>3, <1>4, <1>5 DEF Kept

(***************************************************************************)
(* DelayBufferSize is enough: once delay cycles have passed in which no    *)
(* more than throughput messages came, nothing that comes is lost, for     *)
(* every delay, throughput and history of bursts (delay_queue.hpp:70).     *)
(***************************************************************************)
THEOREM QueueRecoversFromBursts == Spec => []RecoversFromBursts
<1>1. Init => BurstInductive
  <2> SUFFICES ASSUME Init PROVE BurstInductive
    OBVIOUS
  <2>1. QueueInductive
    BY QueueInit
  <2>2. SentInCycle /\ CalmIsKept
    BY DEF Init, SentInCycle, CalmIsKept
  <2> QED BY <2>1, <2>2 DEF BurstInductive
<1>2. BurstInductive /\ [Next]_queueVars => BurstInductive'
  BY BurstNext
<1>3. BurstInductive => RecoversFromBursts
  BY BurstImplies
<1> QED BY <1>1, <1>2, <1>3, PTL DEF Spec
=============================================================================
