--------------------------- MODULE FetcherProofs ---------------------------
(***************************************************************************)
(* The buffer of the Fetcher is in the order of the program, and what the  *)
(* predictor responds belongs to the entries at its head, for every size   *)
(* of the buffer, interval, penalty and kind of predictor.  It has space   *)
(* for what arrives unless requests overlap, and with safely paced         *)
(* parameters no instruction is lost.                                      *)
(*                                                                         *)
(* The second half is about BoomFetch, whose buffer is that of Fetcher:    *)
(* the answers of its predictors are for the first entries that wait for   *)
(* them, for every execution and whatever the predictors say; what its     *)
(* branch target buffer has for a branch, and what its return address      *)
(* stack has for a return, is where the program goes from there.           *)
(***************************************************************************)
EXTENDS BoomFetch, FiniteSetTheorems, SequenceTheorems, WellFoundedInduction, TLAPS

Flags == {"SentToMemory", "SentToPredictor", "Predicted"}

Steps == {"ClockSendBuffered", "ClockCheckPredictor", "ClockUnbuffer",
          "Penalty", "ClockFetch", "ClockRequestFetch", "Elsewhere"}

Entry == [inst : Program, flags : SUBSET Flags]

Prediction == [inst : Program, right : BOOLEAN]

AreChannels(c) ==
  c = [x \in Channels |-> [written |-> c[x].written, readable |-> c[x].readable]]

FetcherTypeOK ==
  /\ fetchInterval \in Nat \ {0}
  /\ misspredictPenalty \in Nat \ {0}
  /\ predictor \in {"none", "prompt", "late"}
  /\ step \in Steps
  /\ fetchBuffer \in Seq(Entry)
  /\ fetchClock \in 0 .. fetchInterval
  /\ currentPenalty \in 0 .. misspredictPenalty
  /\ next \in 1 .. Instructions + 1
  /\ asked \in Seq(Program)
  /\ AreChannels(channel)
  /\ Readable("response") \in Seq(Program)
  /\ Readable("query") \in Seq(Program) /\ channel["query"].written \in Seq(Program)
  /\ Readable("prediction") \in Seq(Prediction)

(***************************************************************************)
(* The instructions in the buffer, the ones that arrive, and the ones the  *)
(* engine has left, follow each other in the order of the program.         *)
(***************************************************************************)
InProgramOrder ==
  /\ \A i, j \in 1 .. Usage : i < j => fetchBuffer[i].inst < fetchBuffer[j].inst
  /\ \A i, j \in 1 .. Len(Readable("response")) :
       i < j => Readable("response")[i] < Readable("response")[j]
  /\ \A i \in 1 .. Usage, j \in 1 .. Len(Readable("response")) :
       fetchBuffer[i].inst < Readable("response")[j]
  /\ \A i \in 1 .. Usage : fetchBuffer[i].inst < next
  /\ \A j \in 1 .. Len(Readable("response")) : Readable("response")[j] < next

(***************************************************************************)
(* The first m entries of the buffer were sent to the memory, the first q  *)
(* to the predictor, and the first p have a response of it.                *)
(***************************************************************************)
Carried(i, m, q, p) ==
  {f \in Flags : \/ f = "SentToMemory" /\ i <= m
                 \/ f = "SentToPredictor" /\ i <= q
                 \/ f = "Predicted" /\ i <= p}

Marked(m, q, p) ==
  /\ m \in 0 .. Usage /\ q \in 0 .. Usage /\ p \in 0 .. q
  /\ \A i \in 1 .. Usage : fetchBuffer[i].flags = Carried(i, m, q, p)
  /\ IF hasPredictor THEN m = q ELSE q = 0
  /\ step # "ClockUnbuffer" => p = 0

(***************************************************************************)
(* What the predictor was sent is, in the order of the buffer: what it     *)
(* responded, what it has to respond to, and the queries on their way.     *)
(***************************************************************************)
IsStretch(instructions, from) ==
  \A i \in 1 .. Len(instructions) : instructions[i] = fetchBuffer[from + i].inst

Responded(p) == p + Len(Readable("prediction"))
Read(p) == Responded(p) + Len(asked)
Arrived(p) == Read(p) + Len(Readable("query"))

Pipelined(q, p) ==
  /\ \A i \in 1 .. Len(Readable("prediction")) :
       Readable("prediction")[i].inst = fetchBuffer[p + i].inst
  /\ IsStretch(asked, Responded(p))
  /\ IsStretch(Readable("query"), Read(p))
  /\ IsStretch(channel["query"].written, Arrived(p))
  /\ q = Arrived(p) + Len(channel["query"].written)
  /\ step = "ClockSendBuffered" => channel["query"].written = <<>>
  /\ step \notin {"ClockSendBuffered", "ClockCheckPredictor"} =>
       Readable("prediction") = <<>>

MarkedAndPipelined == \E m, q, p \in 0 .. Usage : Marked(m, q, p) /\ Pipelined(q, p)

FetcherInductive == FetcherTypeOK /\ InProgramOrder /\ MarkedAndPipelined
-----------------------------------------------------------------------------
(***************************************************************************)
(* Numbers.                                                                *)
(***************************************************************************)
LEMMA LeastNumber ==
  ASSUME NEW T \in SUBSET Nat, T # {}
  PROVE  \E x \in T : \A y \in T : x <= y
<1> DEFINE R == {ss \in Nat \X Nat : ss[1] < ss[2]}
<1>1. IsWellFoundedOn(R, Nat)
  BY NatLessThanWellFounded DEF OpToRel
<1>2. \A x, y \in Nat : y < x => <<y, x>> \in R
  OBVIOUS
<1> HIDE DEF R
<1>3. PICK x \in T : \A y \in T : ~(<<y, x>> \in R)
  BY <1>1, WFMin
<1>4. \A y \in T : x <= y
  <2> TAKE y \in T
  <2>1. x \in Nat /\ y \in Nat
    OBVIOUS
  <2>2. ~(y < x)
    BY <1>2, <1>3, <2>1, Zenon
  <2> QED BY <2>1, <2>2
<1> QED BY <1>4

LEMMA GreatestNumber ==
  ASSUME NEW k \in Nat, NEW T \in SUBSET (0 .. k), T # {}
  PROVE  Max(T) \in T /\ \A y \in T : y <= Max(T)
<1> DEFINE Q == {k - x : x \in T}
<1>0. \A x \in T : k - x \in Nat
  OBVIOUS
<1>1. Q \in SUBSET Nat /\ Q # {}
  BY <1>0
<1>2. PICK q \in Q : \A r \in Q : q <= r
  BY <1>1, LeastNumber
<1>3. PICK x \in T : q = k - x
  OBVIOUS
<1>4. \A y \in T : k - x <= k - y
  BY <1>2, <1>3
<1>5. \A y \in T : x >= y
  BY <1>4
<1>6. Max(T) \in T /\ \A y \in T : Max(T) >= y
  BY <1>5 DEF Max
<1> QED BY <1>6

LEMMA SmallerOfTwo ==
  ASSUME NEW a \in Int, NEW b \in Int
  PROVE  Min({a, b}) = IF a <= b THEN a ELSE b
<1>1. CASE a <= b
  <2>1. \A x \in {a, b} : (\A y \in {a, b} : x =< y) <=> x = a
    BY <1>1
  <2> QED BY <1>1, <2>1 DEF Min
<1>2. CASE ~(a <= b)
  <2>1. \A x \in {a, b} : (\A y \in {a, b} : x =< y) <=> x = b
    BY <1>2
  <2> QED BY <1>2, <2>1 DEF Min
<1> QED BY <1>1, <1>2

(***************************************************************************)
(* The entries at the head of the buffer that carry some flags.            *)
(***************************************************************************)
LEMMA LeadingIs ==
  ASSUME NEW F, Usage \in Nat, NEW k \in 0 .. Usage,
         \A i \in 1 .. Usage : F \subseteq fetchBuffer[i].flags <=> i <= k
  PROVE  Leading(F) = k
<1> DEFINE T == {n \in 0 .. Usage : \A i \in 1 .. n : F \subseteq fetchBuffer[i].flags}
<1>1. Leading(F) = Max(T)
  BY DEF Leading
<1>2. k \in T
  OBVIOUS
<1>3. \A n \in T : n <= k
  <2> SUFFICES ASSUME NEW n \in T, ~(n <= k) PROVE FALSE
    OBVIOUS
  <2>1. n \in 1 .. n /\ n \in 1 .. Usage
    OBVIOUS
  <2> QED BY <2>1
<1>4. T \in SUBSET (0 .. Usage)
  OBVIOUS
<1> HIDE DEF T
<1>5. Max(T) \in T /\ \A y \in T : y <= Max(T)
  BY <1>2, <1>4, GreatestNumber
<1>6. Max(T) <= k /\ k <= Max(T) /\ Max(T) \in 0 .. Usage
  BY <1>2, <1>3, <1>4, <1>5
<1> QED BY <1>1, <1>6

(***************************************************************************)
(* What is sent: the entries behind the ones that were sent already.       *)
(***************************************************************************)
SentUpTo(k) == IF Usage <= k + fetchSize THEN Usage ELSE k + fetchSize

LEMMA SendsTheNext ==
  ASSUME NEW f, Usage \in Nat, NEW k \in 0 .. Usage,
         \A i \in 1 .. Usage : f \in fetchBuffer[i].flags <=> i <= k
  PROVE  /\ SentUpTo(k) \in k .. Usage
         /\ ToSend(f) = k + 1 .. SentUpTo(k)
         /\ Messages(f) = [i \in 1 .. SentUpTo(k) - k |-> fetchBuffer[k + i].inst]
<1>0. fetchSize \in Nat /\ fetchSize > 0
  BY FetcherAssumption
<1>1. Leading({f}) = k
  <2>1. \A i \in 1 .. Usage : {f} \subseteq fetchBuffer[i].flags <=> i <= k
    OBVIOUS
  <2> QED BY <2>1, LeadingIs
<1>2. SentUpTo(k) \in k .. Usage
  BY <1>0 DEF SentUpTo
<1>3. Min({Usage, (k + 1) + fetchSize - 1}) = SentUpTo(k)
  <2>1. (k + 1) + fetchSize - 1 = k + fetchSize /\ k + fetchSize \in Int
    BY <1>0
  <2> QED BY <2>1, SmallerOfTwo DEF SentUpTo
<1>4. ToSend(f) = k + 1 .. SentUpTo(k)
  BY <1>1, <1>3 DEF ToSend
<1>5. Cardinality(k + 1 .. SentUpTo(k)) = SentUpTo(k) - k
  <2>1. k + 1 \in Int /\ SentUpTo(k) \in Int
    BY <1>2
  <2>2. Cardinality(k + 1 .. SentUpTo(k))
          = IF k + 1 > SentUpTo(k) THEN 0 ELSE SentUpTo(k) - (k + 1) + 1
    BY <2>1, FS_Interval
  <2> QED BY <1>2, <2>2
<1> QED BY <1>1, <1>2, <1>4, <1>5 DEF Messages
(***************************************************************************)
(* The channels, before and after one of them was written, or cleared.     *)
(***************************************************************************)
LEMMA TypedChannels ==
  ASSUME FetcherTypeOK
  PROVE  AreChannels(channel) /\ next \in 1 .. Instructions + 1
  BY DEF FetcherTypeOK

LEMMA WritesOne ==
  ASSUME AreChannels(channel), NEW x \in Channels, NEW ms, channel' = Writes(x, ms)
  PROVE  /\ AreChannels(channel')
         /\ channel'[x].written = ms /\ channel'[x].readable = channel[x].readable
         /\ \A y \in Channels : y # x => channel'[y] = channel[y]
  BY DEF Writes, AreChannels

LEMMA ClearsOne ==
  ASSUME AreChannels(channel), NEW x \in Channels, channel' = Clears(x)
  PROVE  /\ AreChannels(channel')
         /\ channel'[x].readable = <<>> /\ channel'[x].written = channel[x].written
         /\ \A y \in Channels : y # x => channel'[y] = channel[y]
  BY DEF Clears, AreChannels

(***************************************************************************)
(* A change of the flags alone keeps the order.                            *)
(***************************************************************************)
LEMMA OrderIsKept ==
  ASSUME Usage \in Nat, InProgramOrder,
         Usage' \in Nat, NEW k \in Nat, Usage' + k <= Usage,
         \A i \in 1 .. Usage' : fetchBuffer'[i].inst = fetchBuffer[k + i].inst,
         Readable("response")' = Readable("response"),
         next' = next
  PROVE  InProgramOrder'
<1>1. PICK u : u = Usage
  OBVIOUS
<1>a. PICK v : v = Usage'
  OBVIOUS
<1>b. u \in Nat /\ v \in Nat /\ v + k <= u
  BY <1>1, <1>a
<1>2. \A i \in 1 .. Usage' : k + i \in 1 .. Usage
  <2>1. \A i \in 1 .. v : k + i \in 1 .. u
    BY <1>b
  <2> QED BY <1>1, <1>a, <2>1
<1>3. \A i, j \in 1 .. Usage' : i < j => fetchBuffer'[i].inst < fetchBuffer'[j].inst
  <2> SUFFICES ASSUME NEW i \in 1 .. Usage', NEW j \in 1 .. Usage', i < j
               PROVE  fetchBuffer'[i].inst < fetchBuffer'[j].inst
    OBVIOUS
  <2>1. k + i < k + j /\ k + i \in 1 .. Usage /\ k + j \in 1 .. Usage
    BY <1>2
  <2> QED BY <2>1 DEF InProgramOrder
<1>4. \A i \in 1 .. Usage' : fetchBuffer'[i].inst < next'
  BY <1>2 DEF InProgramOrder
<1>5. \A i \in 1 .. Usage', j \in 1 .. Len(Readable("response")') :
        fetchBuffer'[i].inst < Readable("response")'[j]
  BY <1>2 DEF InProgramOrder
<1> QED BY <1>3, <1>4, <1>5 DEF InProgramOrder
-----------------------------------------------------------------------------
(***************************************************************************)
(* Initially.                                                              *)
(***************************************************************************)
LEMMA FetcherStarts ==
  ASSUME Init
  PROVE  FetcherInductive
<1>1. Usage = 0
  BY DEF Init, Usage
<1>2. \A x \in Channels : channel[x].written = <<>> /\ channel[x].readable = <<>>
  BY DEF Init
<1>3. /\ "request" \in Channels /\ "response" \in Channels
      /\ "query" \in Channels /\ "prediction" \in Channels
  BY DEF Channels
<1>4. FetcherTypeOK
  <2>1. AreChannels(channel)
    BY DEF Init, AreChannels
  <2>2. /\ fetchInterval \in Nat \ {0} /\ misspredictPenalty \in Nat \ {0}
        /\ predictor \in {"none", "prompt", "late"}
        /\ next \in 1 .. Instructions + 1
    BY FetcherAssumption DEF Init
  <2>3. fetchBuffer \in Seq(Entry) /\ asked \in Seq(Program) /\ step \in Steps
    BY DEF Init, Steps
  <2>4. fetchClock \in 0 .. fetchInterval /\ currentPenalty \in 0 .. misspredictPenalty
    BY <2>2 DEF Init
  <2>5. /\ Readable("query") = <<>> /\ channel["query"].written = <<>>
        /\ Readable("response") = <<>> /\ Readable("prediction") = <<>>
    BY <1>2, <1>3 DEF Readable
  <2>6. <<>> \in Seq(Program) /\ <<>> \in Seq(Prediction)
    BY EmptySeq
  <2> QED BY <2>1, <2>2, <2>3, <2>4, <2>5, <2>6 DEF FetcherTypeOK
<1>5. InProgramOrder
  BY <1>1, <1>2, <1>3 DEF InProgramOrder, Readable
<1>6. Marked(0, 0, 0)
  BY <1>1 DEF Marked
<1>7. Pipelined(0, 0)
  <2>1. asked = <<>> /\ step = "ClockSendBuffered" /\ Len(<<>>) = 0
    BY DEF Init
  <2>2. Readable("prediction") = <<>> /\ Readable("query") = <<>> /\ channel["query"].written = <<>>
    BY <1>2, <1>3 DEF Readable
  <2>3. \A from : IsStretch(<<>>, from)
    BY DEF IsStretch
  <2> QED BY <2>1, <2>2, <2>3 DEF Pipelined, Responded, Read, Arrived
<1> QED BY <1>1, <1>4, <1>5, <1>6, <1>7 DEF FetcherInductive, MarkedAndPipelined
LEMMA FunctionIsSeq ==
  ASSUME NEW S, NEW n \in Nat, NEW f \in [1 .. n -> S]
  PROVE  f \in Seq(S) /\ Len(f) = n
  OBVIOUS

(***************************************************************************)
(* What the type invariant says of the buffer and the channels.            *)
(***************************************************************************)
LEMMA Typed ==
  ASSUME FetcherTypeOK
  PROVE  /\ Usage \in Nat
         /\ \A i \in 1 .. Usage : /\ fetchBuffer[i].inst \in Program
                                  /\ fetchBuffer[i].flags \in SUBSET Flags
         /\ Len(Readable("prediction")) \in Nat /\ Len(asked) \in Nat
         /\ Len(Readable("query")) \in Nat /\ Len(channel["query"].written) \in Nat
         /\ Len(Readable("response")) \in Nat
<1>1. fetchBuffer \in Seq(Entry)
  BY DEF FetcherTypeOK
<1>2. Usage \in Nat /\ \A i \in 1 .. Usage : fetchBuffer[i] \in Entry
  BY <1>1, ElementOfSeq, LenProperties DEF Usage
<1>3. /\ Len(Readable("prediction")) \in Nat /\ Len(asked) \in Nat
      /\ Len(Readable("query")) \in Nat /\ Len(channel["query"].written) \in Nat
      /\ Len(Readable("response")) \in Nat
  BY LenProperties DEF FetcherTypeOK
<1> QED BY <1>2, <1>3 DEF Entry

LEMMA WhatIsMarked ==
  ASSUME NEW m, NEW q, NEW p, Marked(m, q, p), Usage \in Nat
  PROVE  /\ m \in 0 .. Usage /\ q \in 0 .. Usage /\ p \in 0 .. Usage /\ p <= q
         /\ \A i \in 1 .. Usage :
              /\ "SentToMemory" \in fetchBuffer[i].flags <=> i <= m
              /\ "SentToPredictor" \in fetchBuffer[i].flags <=> i <= q
              /\ "Predicted" \in fetchBuffer[i].flags <=> i <= p
  BY DEF Marked, Carried, Flags

(***************************************************************************)
(* ClockSendBuffered.                                                      *)
(***************************************************************************)
LEMMA SendsBuffered ==
  ASSUME FetcherInductive, ClockSendBuffered
  PROVE  FetcherInductive'
<1>0. FetcherTypeOK /\ InProgramOrder /\ fetchSize \in Nat
  BY FetcherAssumption DEF FetcherInductive
<1>1. PICK m \in 0 .. Usage, q \in 0 .. Usage, p \in 0 .. Usage : Marked(m, q, p) /\ Pipelined(q, p)
  BY DEF FetcherInductive, MarkedAndPipelined
<1>2. p = 0 /\ channel["query"].written = <<>>
  BY <1>1 DEF Marked, Pipelined, ClockSendBuffered
<1>3. Usage \in Nat /\ \A i \in 1 .. Usage : fetchBuffer[i].inst \in Program
  BY <1>0, Typed
<1>4. /\ SentUpTo(m) \in m .. Usage /\ SentUpTo(q) \in q .. Usage
      /\ ToSend("SentToMemory") = m + 1 .. SentUpTo(m)
      /\ ToSend("SentToPredictor") = q + 1 .. SentUpTo(q)
      /\ Messages("SentToPredictor") = [i \in 1 .. SentUpTo(q) - q |-> fetchBuffer[q + i].inst]
  <2>1. \A i \in 1 .. Usage : /\ "SentToMemory" \in fetchBuffer[i].flags <=> i <= m
                              /\ "SentToPredictor" \in fetchBuffer[i].flags <=> i <= q
    BY <1>1, <1>3, WhatIsMarked
  <2>2. SentUpTo(m) \in m .. Usage /\ ToSend("SentToMemory") = m + 1 .. SentUpTo(m)
    BY <1>1, <1>3, <2>1, SendsTheNext
  <2>3. /\ SentUpTo(q) \in q .. Usage /\ ToSend("SentToPredictor") = q + 1 .. SentUpTo(q)
        /\ Messages("SentToPredictor") = [i \in 1 .. SentUpTo(q) - q |-> fetchBuffer[q + i].inst]
    BY <1>1, <1>3, <2>1, SendsTheNext
  <2> QED BY <2>2, <2>3
<1>a. PICK mm, qq : mm = SentUpTo(m) /\ qq = IF hasPredictor THEN SentUpTo(q) ELSE 0
  OBVIOUS
<1>5. mm \in m .. Usage /\ qq \in q .. Usage /\ mm \in 0 .. Usage /\ qq \in 0 .. Usage
  BY <1>1, <1>3, <1>4, <1>a DEF Marked
<1>6. \A i \in 1 .. Usage :
        Carried(i, m, q, 0) \cup {f \in SendFlags : i \in ToSend(f)} = Carried(i, mm, qq, 0)
  <2> TAKE i \in 1 .. Usage
  <2>1. i \in ToSend("SentToMemory") <=> (m < i /\ i <= mm)
    BY <1>3, <1>4, <1>a
  <2>2. i \in ToSend("SentToPredictor") <=> (q < i /\ i <= SentUpTo(q))
    BY <1>3, <1>4
  <2>3. i <= m \/ (m < i /\ i <= mm) <=> i <= mm
    BY <1>3, <1>5
  <2>4. ~(i <= 0)
    BY <1>3
  <2> DEFINE L == Carried(i, m, q, 0) \cup {f \in SendFlags : i \in ToSend(f)}
  <2>5. CASE hasPredictor
    <3>1. i <= q \/ (q < i /\ i <= SentUpTo(q)) <=> i <= qq
      BY <1>3, <1>4, <1>a, <2>5
    <3>2. SendFlags = {"SentToMemory", "SentToPredictor"}
      BY <2>5 DEF SendFlags
    <3>3. \A f : f \in L <=> f \in Carried(i, mm, qq, 0)
      BY <2>1, <2>2, <2>3, <2>4, <3>1, <3>2 DEF Carried, Flags
    <3> QED BY <3>3
  <2>6. CASE ~hasPredictor
    <3>1. q = 0 /\ qq = 0 /\ SendFlags = {"SentToMemory"}
      BY <1>1, <1>a, <2>6 DEF Marked, SendFlags
    <3>3. \A f : f \in L <=> f \in Carried(i, mm, qq, 0)
      BY <2>1, <2>3, <2>4, <3>1 DEF Carried, Flags
    <3> QED BY <3>3
  <2> QED BY <2>5, <2>6
<1>7. \A i \in 1 .. Usage : fetchBuffer[i].flags = Carried(i, m, q, 0)
  BY <1>1, <1>2 DEF Marked
<1>8. fetchBuffer' = [i \in 1 .. Usage |-> [inst  |-> fetchBuffer[i].inst,
                                            flags |-> Carried(i, mm, qq, 0)]]
  BY <1>6, <1>7 DEF ClockSendBuffered
<1>9. \A i \in 1 .. Usage : [inst |-> fetchBuffer[i].inst, flags |-> Carried(i, mm, qq, 0)] \in Entry
  BY <1>3 DEF Entry, Carried
<1>10. fetchBuffer' \in [1 .. Usage -> Entry]
  BY <1>8, <1>9
<1>11. fetchBuffer' \in Seq(Entry) /\ Usage' = Usage
  BY <1>3, <1>10, FunctionIsSeq DEF Usage
<1>12. \A i \in 1 .. Usage : /\ fetchBuffer'[i].inst = fetchBuffer[i].inst
                             /\ fetchBuffer'[i].flags = Carried(i, mm, qq, 0)
  BY <1>8
<1>13. UNCHANGED <<clockVars, envVars>> /\ step' = "ClockCheckPredictor"
  BY DEF ClockSendBuffered
<1>14. /\ AreChannels(channel')
       /\ channel'["request"] = channel["request"] /\ channel'["response"] = channel["response"]
       /\ channel'["prediction"] = channel["prediction"]
       /\ channel'["query"].readable = channel["query"].readable
       /\ channel'["query"].written = [i \in 1 .. qq - q |-> fetchBuffer[q + i].inst]
       /\ channel'["query"].written \in Seq(Program)
       /\ Len(channel'["query"].written) = qq - q
  <2> DEFINE ms == [i \in 1 .. qq - q |-> fetchBuffer[q + i].inst]
  <2>1. qq - q \in Nat /\ \A i \in 1 .. qq - q : q + i \in 1 .. Usage
    BY <1>3, <1>5
  <2>2. ms \in [1 .. qq - q -> Program]
    BY <1>3, <2>1
  <2>3. ms \in Seq(Program) /\ Len(ms) = qq - q
    BY <2>1, <2>2, FunctionIsSeq
  <2>4. CASE hasPredictor
    <3>1. channel' = Writes("query", ms)
      BY <1>4, <1>a, <2>4 DEF ClockSendBuffered
    <3> HIDE DEF ms
    <3> QED BY <1>0, <2>3, <3>1, TypedChannels, WritesOne DEF Channels, ms
  <2>5. CASE ~hasPredictor
    <3>1. channel' = channel /\ qq = 0 /\ q = 0
      BY <1>1, <1>a, <2>5 DEF ClockSendBuffered, Marked
    <3>2. qq - q = 0 /\ Len(ms) = 0
      BY <2>3, <3>1
    <3> HIDE DEF ms
    <3>3. ms = <<>>
      BY <2>3, <3>2, EmptySeq
    <3> QED BY <1>0, <1>2, <2>3, <3>1, <3>3 DEF FetcherTypeOK, ms
  <2> QED BY <2>4, <2>5
<1>15. FetcherTypeOK'
  BY <1>0, <1>11, <1>13, <1>14
  DEF FetcherTypeOK, clockVars, envVars, configVars, Readable, Steps
<1>16. InProgramOrder'
  <2>1. \A i \in 1 .. Usage' : fetchBuffer'[i].inst = fetchBuffer[0 + i].inst
    BY <1>3, <1>11, <1>12
  <2>2. Readable("response")' = Readable("response") /\ next' = next
    BY <1>13, <1>14 DEF envVars, Readable
  <2>3. Usage' \in Nat /\ Usage' + 0 <= Usage /\ 0 \in Nat
    BY <1>3, <1>11
  <2> QED BY <1>0, <2>1, <2>2, <2>3, Typed, OrderIsKept
<1>17. Marked(mm, qq, 0)'
  BY <1>1, <1>3, <1>5, <1>11, <1>12, <1>13, <1>a
  DEF Marked, hasPredictor, envVars, configVars
<1>18. Pipelined(qq, 0)'
  <2>1. Readable("prediction")' = Readable("prediction") /\ Readable("query")' = Readable("query")
        /\ asked' = asked
    BY <1>13, <1>14 DEF Readable, envVars
  <2>2. /\ Responded(0)' = Responded(0) /\ Read(0)' = Read(0) /\ Arrived(0)' = Arrived(0)
    BY <2>1 DEF Responded, Read, Arrived
  <2>3. /\ Len(Readable("prediction")) \in Nat /\ Len(asked) \in Nat /\ Len(Readable("query")) \in Nat
    BY <1>0, Typed
  <2>4. q = Arrived(0)
    BY <1>1, <1>2, <2>3 DEF Pipelined, Arrived, Read, Responded
  <2>5. /\ \A i \in 1 .. Len(Readable("prediction")) : 0 + i \in 1 .. Usage
        /\ \A i \in 1 .. Len(asked) : Responded(0) + i \in 1 .. Usage
        /\ \A i \in 1 .. Len(Readable("query")) : Read(0) + i \in 1 .. Usage
        /\ \A i \in 1 .. qq - q : Arrived(0) + i \in 1 .. Usage
    BY <1>3, <1>5, <2>3, <2>4 DEF Arrived, Read, Responded
  <2>6. IsStretch(asked, Responded(0))'
    BY <1>1, <1>2, <1>12, <2>1, <2>2, <2>5 DEF Pipelined, IsStretch
  <2>7. IsStretch(Readable("query"), Read(0))'
    BY <1>1, <1>2, <1>12, <2>1, <2>2, <2>5 DEF Pipelined, IsStretch
  <2>8. IsStretch(channel["query"].written, Arrived(0))'
    <3>1. \A i \in 1 .. qq - q : channel'["query"].written[i] = fetchBuffer'[Arrived(0)' + i].inst
      <4> TAKE i \in 1 .. qq - q
      <4>1. Arrived(0) + i \in 1 .. Usage /\ Arrived(0)' + i = q + i
        BY <2>2, <2>4, <2>5
      <4>2. channel'["query"].written[i] = fetchBuffer[q + i].inst
        BY <1>14
      <4> QED BY <1>12, <2>4, <4>1, <4>2
    <3> QED BY <1>14, <3>1 DEF IsStretch
  <2>9. \A i \in 1 .. Len(Readable("prediction")') :
          Readable("prediction")'[i].inst = fetchBuffer'[0 + i].inst
    BY <1>1, <1>2, <1>12, <2>1, <2>5 DEF Pipelined
  <2>10. qq = Arrived(0)' + Len(channel'["query"].written)
    BY <1>3, <1>5, <1>14, <2>2, <2>4
  <2> QED BY <1>13, <2>6, <2>7, <2>8, <2>9, <2>10 DEF Pipelined
<1> QED BY <1>5, <1>3, <1>11, <1>15, <1>16, <1>17, <1>18 DEF FetcherInductive, MarkedAndPipelined
(***************************************************************************)
(* What is in the pipeline is in the buffer.                               *)
(***************************************************************************)
LEMMA PipelineIsBuffered ==
  ASSUME FetcherTypeOK, NEW q \in 0 .. Usage, NEW p \in 0 .. Usage,
         q = Arrived(p) + Len(channel["query"].written)
  PROVE  /\ p + Len(Readable("prediction")) <= q
         /\ \A i \in 1 .. Len(Readable("prediction")) : p + i \in 1 .. Usage
         /\ \A i \in 1 .. Len(asked) : Responded(p) + i \in 1 .. Usage
         /\ \A i \in 1 .. Len(Readable("query")) : Read(p) + i \in 1 .. Usage
         /\ \A i \in 1 .. Len(channel["query"].written) : Arrived(p) + i \in 1 .. Usage
<1>1. PICK a, b, c, d : /\ a = Len(Readable("prediction")) /\ b = Len(asked)
                        /\ c = Len(Readable("query")) /\ d = Len(channel["query"].written)
  OBVIOUS
<1>2. a \in Nat /\ b \in Nat /\ c \in Nat /\ d \in Nat /\ Usage \in Nat
  BY <1>1, Typed
<1>3. Responded(p) = p + a /\ Read(p) = p + a + b /\ Arrived(p) = p + a + b + c
  BY <1>1 DEF Responded, Read, Arrived
<1>4. q = p + a + b + c + d
  BY <1>1, <1>3
<1>5. p + a <= q /\ p + a + b <= q /\ p + a + b + c <= q /\ q <= Usage
  BY <1>2, <1>4
<1>6. /\ \A i \in 1 .. a : p + i \in 1 .. Usage
      /\ \A i \in 1 .. b : p + a + i \in 1 .. Usage
      /\ \A i \in 1 .. c : p + a + b + i \in 1 .. Usage
      /\ \A i \in 1 .. d : p + a + b + c + i \in 1 .. Usage
  BY <1>2, <1>4, <1>5
<1> QED BY <1>1, <1>3, <1>5, <1>6

(***************************************************************************)
(* The responses at hand belong to the entries at the head of the buffer.  *)
(***************************************************************************)
LEMMA ResponsesBelong ==
  ASSUME FetcherInductive, step = "ClockCheckPredictor"
  PROVE  ResponsesMatch
<1>1. PICK m \in 0 .. Usage, q \in 0 .. Usage, p \in 0 .. Usage : Marked(m, q, p) /\ Pipelined(q, p)
  BY DEF FetcherInductive, MarkedAndPipelined
<1>2. p = 0
  BY <1>1 DEF Marked
<1>3. /\ Len(Readable("prediction")) \in Nat /\ Len(asked) \in Nat /\ Usage \in Nat
      /\ Len(Readable("query")) \in Nat /\ Len(channel["query"].written) \in Nat
  BY Typed DEF FetcherInductive
<1>4. Len(Readable("prediction")) <= Usage
  <2>1. 0 + Len(Readable("prediction")) <= q
    BY <1>1, <1>2, PipelineIsBuffered DEF FetcherInductive, Pipelined
  <2> QED BY <1>1, <1>3, <2>1
<1>5. \A i \in 1 .. Len(Readable("prediction")) :
        Readable("prediction")[i].inst = fetchBuffer[0 + i].inst
  BY <1>1, <1>2 DEF Pipelined
<1> QED BY <1>3, <1>4, <1>5 DEF ResponsesMatch

(***************************************************************************)
(* ClockCheckPredictor.                                                    *)
(***************************************************************************)
LEMMA ChecksPredictor ==
  ASSUME FetcherInductive, ClockCheckPredictor
  PROVE  FetcherInductive'
<1>0. FetcherTypeOK /\ InProgramOrder
  BY DEF FetcherInductive
<1>1. PICK m \in 0 .. Usage, q \in 0 .. Usage, p \in 0 .. Usage : Marked(m, q, p) /\ Pipelined(q, p)
  BY DEF FetcherInductive, MarkedAndPipelined
<1>2. p = 0
  BY <1>1 DEF Marked, ClockCheckPredictor
<1>3. /\ Len(Readable("prediction")) \in Nat /\ Len(asked) \in Nat /\ Usage \in Nat
      /\ Len(Readable("query")) \in Nat /\ Len(channel["query"].written) \in Nat
      /\ \A i \in 1 .. Usage : fetchBuffer[i].inst \in Program
  BY <1>0, Typed
<1>4. PICK n : n = Len(Readable("prediction"))
  OBVIOUS
<1>5. n \in 0 .. q
  <2>1. 0 + Len(Readable("prediction")) <= q
    BY <1>0, <1>1, <1>2, PipelineIsBuffered DEF Pipelined
  <2> QED BY <1>1, <1>3, <1>4, <2>1
<1>6. /\ UNCHANGED <<fetchClock, currentPenalty, envVars>> /\ step' = "ClockUnbuffer"
  BY DEF ClockCheckPredictor
<1>7. /\ fetchBuffer' \in Seq(Entry) /\ Usage' = Usage
      /\ \A i \in 1 .. Usage : /\ fetchBuffer'[i].inst = fetchBuffer[i].inst
                               /\ fetchBuffer'[i].flags = Carried(i, m, q, n)
  <2>1. CASE hasPredictor
    <3>1. fetchBuffer' = MarkPredicted(n)
      BY <1>4, <2>1 DEF ClockCheckPredictor
    <3>2. \A i \in 1 .. Usage :
            fetchBuffer[i].flags \cup (IF i <= n THEN {"Predicted"} ELSE {}) = Carried(i, m, q, n)
      <4> TAKE i \in 1 .. Usage
      <4>1. fetchBuffer[i].flags = Carried(i, m, q, 0) /\ ~(i <= 0)
        BY <1>1, <1>2, <1>3 DEF Marked
      <4>2. \A f : f \in Carried(i, m, q, 0) \cup (IF i <= n THEN {"Predicted"} ELSE {})
                     <=> f \in Carried(i, m, q, n)
        BY <4>1 DEF Carried, Flags
      <4> QED BY <4>1, <4>2
    <3>3. fetchBuffer' = [i \in 1 .. Usage |-> [inst |-> fetchBuffer[i].inst,
                                                flags |-> Carried(i, m, q, n)]]
      BY <3>1, <3>2 DEF MarkPredicted
    <3>4. \A i \in 1 .. Usage : [inst |-> fetchBuffer[i].inst, flags |-> Carried(i, m, q, n)] \in Entry
      BY <1>3 DEF Entry, Carried
    <3>5. fetchBuffer' \in [1 .. Usage -> Entry]
      BY <3>3, <3>4
    <3>6. fetchBuffer' \in Seq(Entry) /\ Usage' = Usage
      BY <1>3, <3>5, FunctionIsSeq DEF Usage
    <3> QED BY <3>3, <3>6
  <2>2. CASE ~hasPredictor
    <3>1. fetchBuffer' = fetchBuffer /\ q = 0 /\ n = 0
      BY <1>1, <1>5, <2>2 DEF ClockCheckPredictor, Marked
    <3> QED BY <1>0, <1>1, <1>2, <3>1 DEF FetcherTypeOK, Usage, Marked
  <2> QED BY <2>1, <2>2
<1>8. /\ AreChannels(channel')
      /\ channel'["request"] = channel["request"] /\ channel'["response"] = channel["response"]
      /\ channel'["query"] = channel["query"]
      /\ channel'["prediction"].readable = <<>>
  <2>1. CASE hasPredictor
    <3>1. channel' = Clears("prediction")
      BY <2>1 DEF ClockCheckPredictor
    <3> QED BY <1>0, <3>1, TypedChannels, ClearsOne DEF Channels
  <2>2. CASE ~hasPredictor
    <3>1. channel' = channel /\ n = 0
      BY <1>1, <1>5, <2>2 DEF ClockCheckPredictor, Marked
    <3>2. Readable("prediction") = <<>>
      BY <1>0, <1>4, <3>1, EmptySeq DEF FetcherTypeOK
    <3> QED BY <1>0, <3>1, <3>2 DEF FetcherTypeOK, Readable
  <2> QED BY <2>1, <2>2
<1>9. FetcherTypeOK'
  <2>1. Readable("prediction")' \in Seq(Prediction)
    BY <1>8, EmptySeq DEF Readable
  <2> QED BY <1>0, <1>6, <1>7, <1>8, <2>1
          DEF FetcherTypeOK, envVars, configVars, Readable, Steps
<1>10. InProgramOrder'
  <2>1. \A i \in 1 .. Usage' : fetchBuffer'[i].inst = fetchBuffer[0 + i].inst
    BY <1>3, <1>7
  <2>2. Readable("response")' = Readable("response") /\ next' = next
    BY <1>6, <1>8 DEF envVars, Readable
  <2>3. Usage' \in Nat /\ Usage' + 0 <= Usage /\ 0 \in Nat
    BY <1>3, <1>7
  <2> QED BY <1>0, <2>1, <2>2, <2>3, Typed, OrderIsKept
<1>11. Marked(m, q, n)'
  BY <1>1, <1>5, <1>6, <1>7 DEF Marked, hasPredictor, envVars, configVars
<1>12. Pipelined(q, n)'
  <2>1. /\ Readable("prediction")' = <<>> /\ Readable("query")' = Readable("query")
        /\ asked' = asked /\ channel'["query"].written = channel["query"].written
    BY <1>6, <1>8 DEF Readable, envVars
  <2>2. /\ Responded(n)' = Responded(0) /\ Read(n)' = Read(0) /\ Arrived(n)' = Arrived(0)
    <3>1. Responded(n)' = n + 0 /\ Responded(0) = 0 + n
      BY <1>4, <2>1 DEF Responded
    <3>2. Responded(n)' = Responded(0)
      BY <1>3, <1>4, <3>1
    <3> QED BY <2>1, <3>2 DEF Read, Arrived
  <2>3. q = Arrived(0) + Len(channel["query"].written) /\ q \in 0 .. Usage
    BY <1>1, <1>2 DEF Pipelined
  <2>4. /\ \A i \in 1 .. Len(asked) : Responded(0) + i \in 1 .. Usage
        /\ \A i \in 1 .. Len(Readable("query")) : Read(0) + i \in 1 .. Usage
        /\ \A i \in 1 .. Len(channel["query"].written) : Arrived(0) + i \in 1 .. Usage
    BY <1>0, <1>1, <1>2, <2>3, PipelineIsBuffered
  <2>5. IsStretch(asked, Responded(n))'
    BY <1>1, <1>2, <1>7, <2>1, <2>2, <2>4 DEF Pipelined, IsStretch
  <2>6. IsStretch(Readable("query"), Read(n))'
    BY <1>1, <1>2, <1>7, <2>1, <2>2, <2>4 DEF Pipelined, IsStretch
  <2>7. IsStretch(channel["query"].written, Arrived(n))'
    BY <1>1, <1>2, <1>7, <2>1, <2>2, <2>4 DEF Pipelined, IsStretch
  <2>8. \A i \in 1 .. Len(Readable("prediction")') :
          Readable("prediction")'[i].inst = fetchBuffer'[n + i].inst
    BY <2>1
  <2> QED BY <1>6, <2>1, <2>2, <2>3, <2>5, <2>6, <2>7, <2>8 DEF Pipelined
<1> QED BY <1>1, <1>3, <1>5, <1>7, <1>9, <1>10, <1>11, <1>12
        DEF FetcherInductive, MarkedAndPipelined
(***************************************************************************)
(* ClockUnbuffer: the entries that leave are the ones with a response, or, *)
(* without a predictor, the ones that were sent.                           *)
(***************************************************************************)
LEMMA LeavingEntries ==
  ASSUME Usage \in Nat, NEW m, NEW q, NEW p, Marked(m, q, p)
  PROVE  /\ hasPredictor => Leading(flagsToCheck) = p
         /\ ~hasPredictor => Leading(flagsToCheck) = m
<1>0. /\ m \in 0 .. Usage /\ q \in 0 .. Usage /\ p \in 0 .. Usage /\ p <= q
      /\ \A i \in 1 .. Usage : /\ "SentToMemory" \in fetchBuffer[i].flags <=> i <= m
                               /\ "Predicted" \in fetchBuffer[i].flags <=> i <= p
  BY WhatIsMarked
<1>1. CASE hasPredictor
  <2>1. flagsToCheck = {"SentToMemory", "Predicted"} /\ m = q
    BY <1>1 DEF flagsToCheck, Marked
  <2>2. \A i \in 1 .. Usage : flagsToCheck \subseteq fetchBuffer[i].flags <=> i <= p
    BY <1>0, <2>1
  <2> QED BY <1>0, <1>1, <2>2, LeadingIs
<1>2. CASE ~hasPredictor
  <2>1. flagsToCheck = {"SentToMemory"}
    BY <1>2 DEF flagsToCheck
  <2>2. \A i \in 1 .. Usage : flagsToCheck \subseteq fetchBuffer[i].flags <=> i <= m
    BY <1>0, <2>1
  <2> QED BY <1>0, <1>2, <2>2, LeadingIs
<1> QED BY <1>1, <1>2

LEMMA Unbuffers ==
  ASSUME FetcherInductive, ClockUnbuffer
  PROVE  FetcherInductive'
<1>0. FetcherTypeOK /\ InProgramOrder
  BY DEF FetcherInductive
<1>1. PICK m \in 0 .. Usage, q \in 0 .. Usage, p \in 0 .. Usage : Marked(m, q, p) /\ Pipelined(q, p)
  BY DEF FetcherInductive, MarkedAndPipelined
<1>2. /\ Len(asked) \in Nat /\ Usage \in Nat
      /\ Len(Readable("query")) \in Nat /\ Len(channel["query"].written) \in Nat
  BY <1>0, Typed
<1>3. PICK k : k = Leading(flagsToCheck)
  OBVIOUS
<1>4. /\ k \in 0 .. Usage /\ k <= m
      /\ hasPredictor => k = p /\ m = q
      /\ ~hasPredictor => k = m /\ q = 0 /\ p = 0
  <2>1. CASE hasPredictor
    <3>1. k = p /\ m = q /\ p \in 0 .. q
      BY <1>1, <1>2, <1>3, <2>1, LeavingEntries DEF Marked
    <3> QED BY <1>1, <1>2, <2>1, <3>1
  <2>2. CASE ~hasPredictor
    <3>1. k = m /\ q = 0 /\ p \in 0 .. q
      BY <1>1, <1>2, <1>3, <2>2, LeavingEntries DEF Marked
    <3> QED BY <1>1, <1>2, <2>2, <3>1
  <2> QED BY <2>1, <2>2
<1>5. /\ UNCHANGED <<clockVars, channel, envVars>> /\ step' = "Penalty" /\ step = "ClockUnbuffer"
      /\ fetchBuffer' = SubSeq(fetchBuffer, k + 1, Usage)
  BY <1>3 DEF ClockUnbuffer
<1>6. /\ fetchBuffer' \in Seq(Entry) /\ Usage' = Usage - k
      /\ \A i \in 1 .. Usage - k : fetchBuffer'[i] = fetchBuffer[k + i]
  <2>1. \A i \in k + 1 .. Usage : fetchBuffer[i] \in Entry
    <3>1. \A i \in 1 .. Usage : fetchBuffer[i] \in Entry
      BY <1>0, ElementOfSeq DEF FetcherTypeOK, Usage
    <3> QED BY <1>2, <1>4, <3>1
  <2>2. /\ fetchBuffer' \in Seq(Entry)
        /\ Len(fetchBuffer') = IF k + 1 <= Usage THEN Usage - (k + 1) + 1 ELSE 0
        /\ \A i \in 1 .. Usage - (k + 1) + 1 : fetchBuffer'[i] = fetchBuffer[(k + 1) + i - 1]
    BY <1>2, <1>4, <1>5, <2>1, k + 1 \in Int, Usage \in Int, SubSeqProperties
  <2>3. Usage - (k + 1) + 1 = Usage - k /\ \A i \in 1 .. Usage - k : (k + 1) + i - 1 = k + i
    BY <1>2, <1>4
  <2>4. Len(fetchBuffer') = Usage - k
    BY <1>2, <1>4, <2>2
  <2> QED BY <2>2, <2>3, <2>4 DEF Usage
<1>7. FetcherTypeOK'
  BY <1>0, <1>5, <1>6 DEF FetcherTypeOK, clockVars, envVars, configVars, Readable, Steps
<1>8. InProgramOrder'
  <2>1. Usage' \in Nat /\ k \in Nat /\ Usage' + k <= Usage
    BY <1>2, <1>4, <1>6
  <2>2. \A i \in 1 .. Usage' : fetchBuffer'[i].inst = fetchBuffer[k + i].inst
    BY <1>6
  <2>3. Readable("response")' = Readable("response") /\ next' = next
    BY <1>5 DEF Readable, envVars
  <2> QED BY <1>0, <2>1, <2>2, <2>3, Typed, OrderIsKept
<1>9. PICK mm, qq : mm = m - k /\ qq = q - p
  OBVIOUS
<1>10. mm \in 0 .. Usage - k /\ qq \in 0 .. Usage - k
  BY <1>1, <1>2, <1>4, <1>9 DEF Marked
<1>11. Marked(mm, qq, 0)'
  <2>1. \A i \in 1 .. Usage - k : fetchBuffer'[i].flags = Carried(i, mm, qq, 0)
    <3> TAKE i \in 1 .. Usage - k
    <3>1. k + i \in 1 .. Usage
      BY <1>2, <1>4
    <3>2. fetchBuffer'[i].flags = Carried(k + i, m, q, p)
      BY <1>1, <1>6, <3>1 DEF Marked
    <3>3. /\ k + i <= m <=> i <= mm
          /\ k + i <= q <=> i <= qq
          /\ ~(k + i <= p) /\ ~(i <= 0)
      <4>1. CASE hasPredictor
        BY <1>1, <1>2, <1>4, <1>9, <4>1
      <4>2. CASE ~hasPredictor
        BY <1>1, <1>2, <1>4, <1>9, <4>2
      <4> QED BY <4>1, <4>2
    <3>4. Carried(k + i, m, q, p) = Carried(i, mm, qq, 0)
      BY <3>3 DEF Carried
    <3> QED BY <3>2, <3>4
  <2>2. predictor' = predictor
    BY <1>5 DEF envVars, configVars
  <2>3. IF hasPredictor THEN mm = qq ELSE qq = 0
    BY <1>1, <1>2, <1>4, <1>9
  <2>4. 0 \in 0 .. qq
    BY <1>10
  <2> QED BY <1>5, <1>6, <1>10, <2>1, <2>2, <2>3, <2>4 DEF Marked, hasPredictor
<1>12. Pipelined(qq, 0)'
  <2>1. /\ Readable("prediction") = <<>> /\ Len(Readable("prediction")) = 0
        /\ q = Arrived(p) + Len(channel["query"].written)
    BY <1>1, <1>5 DEF Pipelined
  <2>2. asked' = asked /\ channel' = channel
    BY <1>5 DEF envVars
  <2>3. /\ Responded(p) = p /\ Responded(0)' = 0
        /\ Read(p) = p + Len(asked) /\ Read(0)' = Len(asked)
        /\ Arrived(p) = p + Len(asked) + Len(Readable("query"))
        /\ Arrived(0)' = Len(asked) + Len(Readable("query"))
    <3>1. Readable("prediction")' = Readable("prediction") /\ Readable("query")' = Readable("query")
      BY <2>2 DEF Readable
    <3>2. Responded(p) = p + 0 /\ Responded(0)' = 0 + 0
      BY <2>1, <3>1 DEF Responded
    <3>3. Responded(p) = p /\ Responded(0)' = 0
      BY <1>1, <3>2
    <3>4. Read(p) = p + Len(asked) /\ Read(0)' = 0 + Len(asked)
      BY <2>2, <3>3 DEF Read
    <3>5. Read(0)' = Len(asked)
      BY <1>2, <3>4
    <3> QED BY <3>1, <3>3, <3>4, <3>5 DEF Arrived
  <2>4. qq = Arrived(0)' + Len(channel'["query"].written)
    <3>1. PICK b, c, d : b = Len(asked) /\ c = Len(Readable("query")) /\ d = Len(channel["query"].written)
      OBVIOUS
    <3>2. b \in Nat /\ c \in Nat /\ d \in Nat /\ q = p + b + c + d
      BY <1>2, <2>1, <2>3, <3>1
    <3>3. qq = b + c + d
      BY <1>1, <1>2, <1>9, <3>2
    <3> QED BY <2>2, <2>3, <3>1, <3>3
  <2>5. ASSUME NEW s, NEW from \in Nat, IsStretch(s, p + from), Len(s) \in Nat,
               from + Len(s) <= qq
        PROVE  \A i \in 1 .. Len(s) : s[i] = fetchBuffer'[from + i].inst
    <3> TAKE i \in 1 .. Len(s)
    <3>1. CASE hasPredictor
      <4>1. from + i \in 1 .. Usage - k /\ k + (from + i) = (p + from) + i
        BY <1>2, <1>4, <1>10, <2>5, <3>1
      <4>2. s[i] = fetchBuffer[(p + from) + i].inst
        BY <2>5 DEF IsStretch
      <4>3. fetchBuffer'[from + i] = fetchBuffer[k + (from + i)]
        BY <1>6, <4>1
      <4> QED BY <4>1, <4>2, <4>3
    <3>2. CASE ~hasPredictor
      <4>1. qq = 0
        BY <1>4, <1>9, <3>2
      <4> QED BY <2>5, <4>1
    <3> QED BY <3>1, <3>2
  <2>6. /\ 0 + Len(asked) <= qq
        /\ Len(asked) + Len(Readable("query")) <= qq
        /\ (Len(asked) + Len(Readable("query"))) + Len(channel["query"].written) <= qq
    <3>1. PICK b, c, d : b = Len(asked) /\ c = Len(Readable("query")) /\ d = Len(channel["query"].written)
      OBVIOUS
    <3>2. b \in Nat /\ c \in Nat /\ d \in Nat /\ qq = b + c + d
      BY <1>2, <2>2, <2>3, <2>4, <3>1
    <3>3. 0 + b <= qq /\ b + c <= qq /\ (b + c) + d <= qq
      BY <3>2
    <3> QED BY <3>1, <3>3
  <2>7. /\ IsStretch(asked, p + 0) /\ IsStretch(Readable("query"), p + Len(asked))
        /\ IsStretch(channel["query"].written, p + (Len(asked) + Len(Readable("query"))))
    <3>1. p + 0 = Responded(p) /\ p + (Len(asked) + Len(Readable("query"))) = Arrived(p)
      BY <1>1, <1>2, <2>3
    <3> QED BY <1>1, <2>3, <3>1 DEF Pipelined
  <2>8. /\ \A i \in 1 .. Len(asked) : asked[i] = fetchBuffer'[0 + i].inst
        /\ \A i \in 1 .. Len(Readable("query")) :
             Readable("query")[i] = fetchBuffer'[Len(asked) + i].inst
        /\ \A i \in 1 .. Len(channel["query"].written) :
             channel["query"].written[i]
               = fetchBuffer'[(Len(asked) + Len(Readable("query"))) + i].inst
    BY <1>2, <2>5, <2>6, <2>7, Len(asked) + Len(Readable("query")) \in Nat
  <2>9. /\ IsStretch(asked, Responded(0))' /\ IsStretch(Readable("query"), Read(0))'
        /\ IsStretch(channel["query"].written, Arrived(0))'
    BY <2>2, <2>3, <2>8 DEF IsStretch, Readable
  <2>10. Readable("prediction")' = <<>>
    BY <2>1, <2>2 DEF Readable
  <2> QED BY <1>5, <2>4, <2>9, <2>10 DEF Pipelined
<1> QED BY <1>2, <1>4, <1>6, <1>7, <1>8, <1>10, <1>11, <1>12, 0 \in 0 .. Usage - k
        DEF FetcherInductive, MarkedAndPipelined
(***************************************************************************)
(* The steps of Clock that leave the buffer and the predictor alone.       *)
(***************************************************************************)
LEMMA QuietStep ==
  ASSUME FetcherInductive, FetcherTypeOK',
         UNCHANGED <<fetchBuffer, asked, next, predictor>>,
         \A x \in {"response", "query", "prediction"} : channel'[x] = channel[x],
         step \in {"Penalty", "ClockFetch", "ClockRequestFetch"},
         step' \in {"ClockFetch", "ClockRequestFetch", "Elsewhere"}
  PROVE  FetcherInductive'
<1>1. PICK m \in 0 .. Usage, q \in 0 .. Usage, p \in 0 .. Usage : Marked(m, q, p) /\ Pipelined(q, p)
  BY DEF FetcherInductive, MarkedAndPipelined
<1>2. /\ Usage' = Usage /\ Readable("response")' = Readable("response")
      /\ Readable("query")' = Readable("query") /\ Readable("prediction")' = Readable("prediction")
      /\ channel'["query"].written = channel["query"].written
  BY DEF Usage, Readable
<1>3. InProgramOrder'
  BY <1>2 DEF FetcherInductive, InProgramOrder
<1>4. Marked(m, q, p)'
  BY <1>1, <1>2 DEF Marked, hasPredictor
<1>5. Pipelined(q, p)'
  BY <1>1, <1>2 DEF Pipelined, IsStretch, Responded, Read, Arrived
<1> QED BY <1>1, <1>2, <1>3, <1>4, <1>5 DEF FetcherInductive, MarkedAndPipelined

LEMMA Penalises ==
  ASSUME FetcherInductive, PaysPenalty \/ StartsPenalty \/ PaysNoPenalty
  PROVE  FetcherInductive'
<1>1. FetcherTypeOK
  BY DEF FetcherInductive
<1>2. /\ UNCHANGED <<fetchBuffer, channel, envVars>> /\ step = "Penalty"
      /\ step' \in {"ClockFetch", "Elsewhere"}
  BY DEF PaysPenalty, StartsPenalty, PaysNoPenalty
<1>3. fetchClock' \in 0 .. fetchInterval /\ currentPenalty' \in 0 .. misspredictPenalty
  BY <1>1 DEF PaysPenalty, StartsPenalty, PaysNoPenalty, FetcherTypeOK, clockVars
<1>4. FetcherTypeOK'
  BY <1>1, <1>2, <1>3 DEF FetcherTypeOK, envVars, configVars, Readable, Steps
<1> QED BY <1>2, <1>4, QuietStep DEF envVars, configVars

LEMMA RequestsFetch ==
  ASSUME FetcherInductive, ClockRequestFetch
  PROVE  FetcherInductive'
<1>1. FetcherTypeOK
  BY DEF FetcherInductive
<1>2. /\ UNCHANGED <<fetchBuffer, currentPenalty, envVars>> /\ step = "ClockRequestFetch"
      /\ step' = "Elsewhere" /\ fetchClock' = 1 /\ channel' = Writes("request", <<FreeBytes>>)
  BY DEF ClockRequestFetch
<1>3. /\ AreChannels(channel')
      /\ \A x \in {"response", "query", "prediction"} : channel'[x] = channel[x]
  BY <1>1, <1>2, TypedChannels, WritesOne DEF Channels
<1>4. fetchClock' \in 0 .. fetchInterval
  BY <1>1, <1>2 DEF FetcherTypeOK
<1>5. FetcherTypeOK'
  BY <1>1, <1>2, <1>3, <1>4 DEF FetcherTypeOK, envVars, configVars, Readable, Steps
<1> QED BY <1>2, <1>3, <1>5, QuietStep DEF envVars, configVars

(***************************************************************************)
(* ClockFetch: what arrived follows what is in the buffer.                 *)
(***************************************************************************)
LEMMA ClockStaysInInterval ==
  ASSUME NEW k \in Nat \ {0}, NEW c \in 0 .. k, c % k # 0
  PROVE  c + 1 \in 0 .. k
<1>1. c # k
  <2> SUFFICES ASSUME c = k PROVE FALSE
    OBVIOUS
  <2>1. k % k = 0
    OBVIOUS
  <2> QED BY <2>1
<1> QED BY <1>1

LEMMA WhatArrives ==
  ASSUME NEW E, fetchBuffer \in Seq(E), \A i \in Program : NewEntry(i) \in E,
         NEW r \in Seq(Program), r = Readable("response"), ClockFetch
  PROVE  /\ Usage \in Nat /\ Len(r) \in Nat /\ Usage' = Usage + Len(r)
         /\ fetchBuffer' \in Seq(E)
         /\ \A i \in 1 .. Usage : fetchBuffer'[i] = fetchBuffer[i]
         /\ \A i \in 1 .. Len(r) : fetchBuffer'[Usage + i] = [inst |-> r[i], flags |-> {}]
         /\ \A i \in 1 .. Usage' : i \in 1 .. Usage \/ \E j \in 1 .. Len(r) : i = Usage + j
<1>1. /\ Usage \in Nat /\ Len(r) \in Nat
      /\ \A i \in 1 .. Len(r) : r[i] \in Program
  BY ElementOfSeq, LenProperties DEF Usage
<1> DEFINE new == [i \in 1 .. Len(r) |-> NewEntry(r[i])]
<1>2. new \in Seq(E) /\ Len(new) = Len(r)
      /\ \A i \in 1 .. Len(r) : new[i] = [inst |-> r[i], flags |-> {}]
  <2>1. new \in [1 .. Len(r) -> E]
    BY <1>1
  <2>2. new \in Seq(E) /\ Len(new) = Len(r)
    <3> HIDE DEF new
    <3> QED BY <1>1, <2>1, FunctionIsSeq
  <2> QED BY <2>2 DEF NewEntry
<1>3. fetchBuffer' = fetchBuffer \o new
  BY DEF ClockFetch
<1> HIDE DEF new
<1>4. /\ fetchBuffer' \in Seq(E) /\ Usage' = Usage + Len(r)
      /\ \A i \in 1 .. Usage : fetchBuffer'[i] = fetchBuffer[i]
      /\ \A i \in 1 .. Len(r) : fetchBuffer'[Usage + i] = new[i]
  <2>2. /\ fetchBuffer' \in Seq(E) /\ Len(fetchBuffer') = Len(fetchBuffer) + Len(new)
        /\ \A i \in 1 .. Len(fetchBuffer) + Len(new) :
             fetchBuffer'[i] = IF i <= Len(fetchBuffer) THEN fetchBuffer[i]
                                                        ELSE new[i - Len(fetchBuffer)]
    <3>1. new \in Seq(E)
      BY <1>2
    <3> QED BY <1>3, <3>1, ConcatProperties, Zenon
  <2>3. \A i \in 1 .. Usage : fetchBuffer'[i] = fetchBuffer[i]
    BY <1>1, <1>2, <2>2 DEF Usage
  <2>4. \A i \in 1 .. Len(r) : fetchBuffer'[Usage + i] = new[i]
    <3> TAKE i \in 1 .. Len(r)
    <3>1. /\ Usage + i \in 1 .. Usage + Len(r) /\ ~(Usage + i <= Usage) /\ (Usage + i) - Usage = i
      BY <1>1
    <3> QED BY <1>2, <2>2, <3>1 DEF Usage
  <2> QED BY <1>2, <2>2, <2>3, <2>4 DEF Usage
<1>5. \A i \in 1 .. Usage' : i \in 1 .. Usage \/ \E j \in 1 .. Len(r) : i = Usage + j
  <2> TAKE i \in 1 .. Usage'
  <2>1. CASE i <= Usage
    BY <1>1, <1>4, <2>1
  <2>2. CASE ~(i <= Usage)
    <3>1. i - Usage \in 1 .. Len(r) /\ i = Usage + (i - Usage)
      BY <1>1, <1>4, <2>2
    <3> QED BY <3>1
  <2> QED BY <2>1, <2>2
<1> QED BY <1>1, <1>2, <1>4, <1>5

LEMMA ArrivedAreInOrder ==
  ASSUME NEW E, fetchBuffer \in Seq(E), \A i \in Program : NewEntry(i) \in E,
         NEW r \in Seq(Program), r = Readable("response"), ClockFetch,
         InProgramOrder, Readable("response")' = <<>>
  PROVE  InProgramOrder'
<1>1. Usage \in Nat /\ Len(r) \in Nat
  BY LenProperties DEF Usage
<1>2. /\ Usage' = Usage + Len(r)
      /\ \A i \in 1 .. Usage : fetchBuffer'[i] = fetchBuffer[i]
      /\ \A i \in 1 .. Len(r) : fetchBuffer'[Usage + i].inst = r[i]
  <2>1. /\ Usage' = Usage + Len(r)
        /\ \A i \in 1 .. Usage : fetchBuffer'[i] = fetchBuffer[i]
        /\ \A i \in 1 .. Len(r) : fetchBuffer'[Usage + i] = [inst |-> r[i], flags |-> {}]
    BY WhatArrives
  <2>2. ASSUME NEW i \in 1 .. Len(r) PROVE fetchBuffer'[Usage + i].inst = r[i]
    <3>1. PICK entry : entry = fetchBuffer'[Usage + i]
      OBVIOUS
    <3>2. entry = [inst |-> r[i], flags |-> {}]
      BY <2>1, <3>1
    <3>3. entry.inst = r[i]
      BY <3>2
    <3> QED BY <3>1, <3>3
  <2> QED BY <2>1, <2>2
<1>3. \A i \in 1 .. Usage' : i \in 1 .. Usage \/ \E j \in 1 .. Len(r) : i = Usage + j
  BY WhatArrives
<1>4. Len(Readable("response")') = 0 /\ next' = next
  BY DEF ClockFetch, envVars
<1>5. /\ \A i, j \in 1 .. Usage : i < j => fetchBuffer[i].inst < fetchBuffer[j].inst
      /\ \A i, j \in 1 .. Len(r) : i < j => r[i] < r[j]
      /\ \A i \in 1 .. Usage, j \in 1 .. Len(r) : fetchBuffer[i].inst < r[j]
      /\ \A i \in 1 .. Usage : fetchBuffer[i].inst < next
      /\ \A j \in 1 .. Len(r) : r[j] < next
  BY DEF InProgramOrder
<1>6. ASSUME NEW i \in 1 .. Usage', NEW j \in 1 .. Usage', i < j
      PROVE  fetchBuffer'[i].inst < fetchBuffer'[j].inst
  <2>1. CASE i \in 1 .. Usage /\ j \in 1 .. Usage
    BY <1>2, <1>5, <1>6, <2>1
  <2>2. CASE i \in 1 .. Usage /\ j \notin 1 .. Usage
    <3>1. PICK k \in 1 .. Len(r) : j = Usage + k
      BY <1>3, <2>2
    <3>2. fetchBuffer'[j].inst = r[k] /\ fetchBuffer'[i] = fetchBuffer[i]
      BY <1>2, <2>2, <3>1
    <3> QED BY <1>5, <2>2, <3>2
  <2>3. CASE i \notin 1 .. Usage
    <3>1. PICK k \in 1 .. Len(r) : i = Usage + k
      BY <1>3, <2>3
    <3>2. j \notin 1 .. Usage
      BY <1>1, <1>6, <3>1
    <3>3. PICK l \in 1 .. Len(r) : j = Usage + l
      BY <1>3, <3>2
    <3>4. fetchBuffer'[i].inst = r[k] /\ fetchBuffer'[j].inst = r[l] /\ k < l
      BY <1>1, <1>2, <1>6, <3>1, <3>3
    <3> QED BY <1>5, <3>4
  <2> QED BY <2>1, <2>2, <2>3
<1>7. \A i \in 1 .. Usage' : fetchBuffer'[i].inst < next'
  <2> TAKE i \in 1 .. Usage'
  <2>1. CASE i \in 1 .. Usage
    BY <1>2, <1>4, <1>5, <2>1
  <2>2. CASE i \notin 1 .. Usage
    <3>1. PICK k \in 1 .. Len(r) : i = Usage + k
      BY <1>3, <2>2
    <3>2. fetchBuffer'[i].inst = r[k]
      BY <1>2, <3>1
    <3> QED BY <1>4, <1>5, <3>2
  <2> QED BY <2>1, <2>2
<1>8. \A j \in 1 .. Len(Readable("response")') : FALSE
  BY <1>4
<1> QED BY <1>6, <1>7, <1>8 DEF InProgramOrder

LEMMA Fetches ==
  ASSUME FetcherInductive, ClockFetch
  PROVE  FetcherInductive'
<1>0. FetcherTypeOK /\ InProgramOrder
  BY DEF FetcherInductive
<1>1. PICK m \in 0 .. Usage, q \in 0 .. Usage, p \in 0 .. Usage : Marked(m, q, p) /\ Pipelined(q, p)
  BY DEF FetcherInductive, MarkedAndPipelined
<1>2. PICK r : r = Readable("response")
  OBVIOUS
<1>3. /\ Usage \in Nat /\ Len(r) \in Nat /\ Usage' = Usage + Len(r)
      /\ fetchBuffer' \in Seq(Entry)
      /\ \A i \in 1 .. Usage : fetchBuffer'[i] = fetchBuffer[i]
      /\ \A i \in 1 .. Len(r) : fetchBuffer'[Usage + i] = [inst |-> r[i], flags |-> {}]
      /\ \A i \in 1 .. Usage' : i \in 1 .. Usage \/ \E j \in 1 .. Len(r) : i = Usage + j
      /\ Readable("response")' = <<>> => InProgramOrder'
  <2>1. /\ fetchBuffer \in Seq(Entry) /\ r \in Seq(Program)
        /\ \A i \in Program : NewEntry(i) \in Entry
    BY <1>0, <1>2 DEF FetcherTypeOK, NewEntry, Entry
  <2> QED BY <1>0, <1>2, <2>1, WhatArrives, ArrivedAreInOrder
<1>4. /\ UNCHANGED <<currentPenalty, envVars>> /\ step = "ClockFetch"
      /\ step' \in {"ClockRequestFetch", "Elsewhere"} /\ channel' = Clears("response")
  BY DEF ClockFetch
<1>5. /\ AreChannels(channel') /\ channel'["response"].readable = <<>>
      /\ channel'["query"] = channel["query"] /\ channel'["prediction"] = channel["prediction"]
  BY <1>0, <1>4, TypedChannels, ClearsOne DEF Channels
<1>6. fetchClock' \in 0 .. fetchInterval
  <2>1. fetchInterval \in Nat \ {0} /\ fetchClock \in 0 .. fetchInterval
    BY <1>0 DEF FetcherTypeOK
  <2>2. CASE fetchClock % fetchInterval = 0
    BY <2>1, <2>2 DEF ClockFetch
  <2>3. CASE fetchClock % fetchInterval # 0
    <3>1. fetchClock' = fetchClock + 1
      BY <2>3 DEF ClockFetch
    <3> QED BY <2>1, <2>3, <3>1, ClockStaysInInterval
  <2> QED BY <2>2, <2>3
<1>7. FetcherTypeOK'
  <2>1. Readable("response")' \in Seq(Program)
    BY <1>5, EmptySeq DEF Readable
  <2> QED BY <1>0, <1>3, <1>4, <1>5, <1>6, <2>1
          DEF FetcherTypeOK, envVars, configVars, Readable, Steps
<1>8. InProgramOrder'
  BY <1>3, <1>5 DEF Readable
<1>9. p = 0 /\ m \in 0 .. Usage' /\ q \in 0 .. Usage' /\ p \in 0 .. Usage'
  BY <1>1, <1>3, <1>4 DEF Marked
<1>10. Marked(m, q, p)'
  <2>1. ASSUME NEW i \in 1 .. Usage' PROVE fetchBuffer'[i].flags = Carried(i, m, q, p)
    <3>1. CASE i \in 1 .. Usage
      BY <1>1, <1>3, <3>1 DEF Marked
    <3>2. CASE i \notin 1 .. Usage
      <4>1. PICK k \in 1 .. Len(r) : i = Usage + k
        BY <1>3, <3>2
      <4>2. fetchBuffer'[i].flags = {}
        <5>1. fetchBuffer'[i] = [inst |-> r[k], flags |-> {}]
          BY <1>3, <4>1
        <5> QED BY <5>1
      <4>3. ~(i <= m) /\ ~(i <= q) /\ ~(i <= p)
        BY <1>1, <1>3, <1>9, <4>1
      <4>4. Carried(i, m, q, p) = {}
        BY <4>3 DEF Carried
      <4> QED BY <4>2, <4>4
    <3> QED BY <3>1, <3>2
  <2>2. predictor' = predictor /\ p \in 0 .. q
    BY <1>1, <1>4 DEF envVars, configVars, Marked
  <2> QED BY <1>1, <1>9, <2>1, <2>2 DEF Marked, hasPredictor
<1>11. Pipelined(q, p)'
  <2>1. /\ asked' = asked /\ Readable("prediction")' = Readable("prediction")
        /\ Readable("query")' = Readable("query")
        /\ channel'["query"].written = channel["query"].written
    BY <1>4, <1>5 DEF envVars, Readable
  <2>2. /\ Responded(p)' = Responded(p) /\ Read(p)' = Read(p) /\ Arrived(p)' = Arrived(p)
    BY <2>1 DEF Responded, Read, Arrived
  <2>3. q = Arrived(p) + Len(channel["query"].written)
    BY <1>1 DEF Pipelined
  <2>4. /\ \A i \in 1 .. Len(Readable("prediction")) : p + i \in 1 .. Usage
        /\ \A i \in 1 .. Len(asked) : Responded(p) + i \in 1 .. Usage
        /\ \A i \in 1 .. Len(Readable("query")) : Read(p) + i \in 1 .. Usage
        /\ \A i \in 1 .. Len(channel["query"].written) : Arrived(p) + i \in 1 .. Usage
    BY <1>0, <1>1, <2>3, PipelineIsBuffered
  <2>5. IsStretch(asked, Responded(p))'
    BY <1>1, <1>3, <2>1, <2>2, <2>4 DEF Pipelined, IsStretch
  <2>6. IsStretch(Readable("query"), Read(p))'
    BY <1>1, <1>3, <2>1, <2>2, <2>4 DEF Pipelined, IsStretch
  <2>7. IsStretch(channel["query"].written, Arrived(p))'
    BY <1>1, <1>3, <2>1, <2>2, <2>4 DEF Pipelined, IsStretch
  <2>8. Readable("prediction")' = <<>>
    BY <1>1, <1>4, <2>1 DEF Pipelined
  <2> QED BY <1>4, <2>1, <2>2, <2>3, <2>5, <2>6, <2>7, <2>8 DEF Pipelined
<1> QED BY <1>7, <1>8, <1>9, <1>10, <1>11 DEF FetcherInductive, MarkedAndPipelined
(***************************************************************************)
(* Elsewhere: the engine serves what it has, in order, and the predictor   *)
(* responds to the oldest queries.                                         *)
(***************************************************************************)
LEMMA ServesWhatItHas ==
  ASSUME next \in 1 .. Instructions + 1
  PROVE  NumberServed \in 0 .. Instructions - next + 1
<1>1. PICK k : k = Instructions - next + 1
  OBVIOUS
<1>2. k \in Nat
  BY <1>1, FetcherAssumption
<1>3. ASSUME NEW request PROVE Served(request) \in 0 .. k
  <2>1. CASE request = 0
    <3>1. Min({1, k}) = IF 1 <= k THEN 1 ELSE k
      BY <1>2, SmallerOfTwo
    <3> QED BY <1>1, <1>2, <2>1, <3>1 DEF Served
  <2>2. CASE request # 0
    <3> DEFINE T == {0} \cup {n \in 0 .. k : Weight(n) < request}
    <3>1. Served(request) = Max(T)
      BY <1>1, <2>2 DEF Served
    <3>2. T \in SUBSET (0 .. k) /\ T # {}
      BY <1>2
    <3> HIDE DEF T
    <3>3. Max(T) \in T
      BY <1>2, <3>2, GreatestNumber
    <3> QED BY <3>1, <3>2, <3>3
  <2> QED BY <2>1, <2>2
<1> QED BY <1>1, <1>2, <1>3 DEF NumberServed

LEMMA RespondsInOrder ==
  ASSUME next \in 1 .. Instructions + 1, next' = next + NumberServed
  PROVE  /\ next' \in next .. Instructions + 1
         /\ Responses \in Seq(Program)
         /\ \A i \in 1 .. Len(Responses) : Responses[i] = next + i - 1 /\ Responses[i] < next'
<1>0. next \in 1 .. Instructions + 1 /\ Instructions \in Nat /\ fetchSize \in Nat
  BY FetcherAssumption
<1>1. NumberServed \in 0 .. Instructions - next + 1
  BY ServesWhatItHas
<1>2. PICK k : k = Min({NumberServed, fetchSize})
  OBVIOUS
<1>3. k \in Nat /\ k <= NumberServed
  BY <1>0, <1>1, <1>2, SmallerOfTwo
<1>4. \A i \in 1 .. k : next + i - 1 \in Program /\ next + i - 1 < next'
  BY <1>0, <1>1, <1>3 DEF Program
<1>5. Responses = [i \in 1 .. k |-> next + i - 1]
  BY <1>2 DEF Responses
<1>6. Responses \in [1 .. k -> Program]
  BY <1>4, <1>5
<1>7. Responses \in Seq(Program) /\ Len(Responses) = k
  BY <1>3, <1>6, FunctionIsSeq
<1>8. \A i \in 1 .. k : Responses[i] = next + i - 1
  BY <1>5
<1>9. next' \in next .. Instructions + 1
  BY <1>0, <1>1
<1> QED BY <1>4, <1>7, <1>8, <1>9

LEMMA ServedAreInOrder ==
  ASSUME Usage \in Nat, \A k \in 1 .. Usage : fetchBuffer[k].inst \in Int,
         InProgramOrder, next \in 1 .. Instructions + 1, Elsewhere,
         Readable("response")' = Responses
  PROVE  InProgramOrder'
<1>1. fetchBuffer' = fetchBuffer /\ Usage' = Usage /\ next' = next + NumberServed
  BY DEF Elsewhere, Usage
<1>2. /\ next' \in next .. Instructions + 1
      /\ Responses \in Seq(Program)
      /\ \A i \in 1 .. Len(Responses) : Responses[i] = next + i - 1 /\ Responses[i] < next'
  BY <1>1, RespondsInOrder
<1>3. next \in Int /\ next' \in Int /\ next <= next'
  BY <1>2, FetcherAssumption
<1>4. \A i \in 1 .. Usage : fetchBuffer[i].inst \in Int /\ fetchBuffer[i].inst < next
  BY DEF InProgramOrder
<1>5. Len(Responses) \in Nat
  BY <1>2, LenProperties
<1>6. \A i, j \in 1 .. Len(Responses) : i < j => Responses[i] < Responses[j]
  BY <1>2, <1>3, <1>5
<1>7. \A i \in 1 .. Usage, j \in 1 .. Len(Responses) : fetchBuffer[i].inst < Responses[j]
  BY <1>2, <1>3, <1>4, <1>5
<1>8. \A i \in 1 .. Usage : fetchBuffer[i].inst < next'
  BY <1>3, <1>4
<1> QED BY <1>1, <1>2, <1>6, <1>7, <1>8 DEF InProgramOrder

LEMMA AnswersAre ==
  ASSUME NEW Q \in Seq(Program), Q = Queries, NEW n \in 0 .. Len(Q), NEW answers \in Answers(n)
  PROVE  /\ answers \in Seq(Prediction) /\ Len(answers) = n
         /\ \A i \in 1 .. n : answers[i].inst = Q[i]
<1>1. PICK right \in [1 .. n -> BOOLEAN] :
        answers = [i \in 1 .. n |-> [inst |-> Q[i], right |-> right[i]]]
  BY DEF Answers
<1>2. Len(Q) \in Nat /\ \A i \in 1 .. Len(Q) : Q[i] \in Program
  BY ElementOfSeq, LenProperties
<1>3. n \in Nat /\ \A i \in 1 .. n : i \in 1 .. Len(Q)
  BY <1>2
<1>4. \A i \in 1 .. n : [inst |-> Q[i], right |-> right[i]] \in Prediction
  BY <1>1, <1>2, <1>3 DEF Prediction
<1>5. answers \in [1 .. n -> Prediction]
  BY <1>1, <1>4
<1>6. answers \in Seq(Prediction) /\ Len(answers) = n
  BY <1>3, <1>5, FunctionIsSeq
<1> QED BY <1>1, <1>6

LEMMA OthersAct ==
  ASSUME FetcherInductive, Elsewhere
  PROVE  FetcherInductive'
<1>0. FetcherTypeOK /\ InProgramOrder
  BY DEF FetcherInductive
<1>1. PICK m \in 0 .. Usage, q \in 0 .. Usage, p \in 0 .. Usage : Marked(m, q, p) /\ Pipelined(q, p)
  BY DEF FetcherInductive, MarkedAndPipelined
<1>2. p = 0 /\ Readable("prediction") = <<>> /\ Len(Readable("prediction")) = 0
  BY <1>1 DEF Marked, Pipelined, Elsewhere
<1>3. /\ asked \in Seq(Program) /\ Readable("query") \in Seq(Program)
      /\ channel["query"].written \in Seq(Program) /\ Usage \in Nat
  BY <1>0, Typed DEF FetcherTypeOK
<1>4. PICK b, c, d : b = Len(asked) /\ c = Len(Readable("query")) /\ d = Len(channel["query"].written)
  OBVIOUS
<1>5. b \in Nat /\ c \in Nat /\ d \in Nat
  BY <1>0, <1>4, Typed
<1>6. Responded(0) = 0 /\ Read(0) = b /\ Arrived(0) = b + c /\ q = b + c + d
  <2>1. Responded(0) = 0
    BY <1>2 DEF Responded
  <2>2. Read(0) = 0 + b
    BY <1>4, <2>1 DEF Read
  <2>3. Arrived(0) = (0 + b) + c
    BY <1>4, <2>2 DEF Arrived
  <2>4. q = Arrived(0) + d
    BY <1>1, <1>2, <1>4 DEF Pipelined
  <2> QED BY <1>5, <2>1, <2>2, <2>3, <2>4
<1>7. PICK Q : Q = Queries
  OBVIOUS
<1>8. /\ Q \in Seq(Program) /\ Len(Q) = b + c
      /\ \A i \in 1 .. b + c : Q[i] \in Program /\ Q[i] = fetchBuffer[i].inst
  <2>1. /\ Q \in Seq(Program) /\ Len(Q) = b + c
        /\ \A i \in 1 .. b + c : Q[i] = IF i <= b THEN asked[i] ELSE Readable("query")[i - b]
    BY <1>3, <1>4, <1>7, ConcatProperties DEF Queries
  <2>2. /\ \A i \in 1 .. b : asked[i] = fetchBuffer[0 + i].inst
        /\ \A i \in 1 .. c : Readable("query")[i] = fetchBuffer[b + i].inst
    <3>1. IsStretch(asked, 0) /\ IsStretch(Readable("query"), b)
      BY <1>1, <1>2, <1>6 DEF Pipelined
    <3> QED BY <1>4, <3>1 DEF IsStretch
  <2>3. ASSUME NEW i \in 1 .. b + c PROVE Q[i] = fetchBuffer[i].inst
    <3>1. CASE i <= b
      BY <1>5, <2>1, <2>2, <3>1
    <3>2. CASE ~(i <= b)
      <4>1. i - b \in 1 .. c /\ b + (i - b) = i
        BY <1>5, <3>2
      <4> QED BY <2>1, <2>2, <3>2, <4>1
    <3> QED BY <3>1, <3>2
  <2> QED BY <2>1, <2>3, ElementOfSeq
<1>9. PICK n \in NumbersAnswered :
        /\ asked' = SubSeq(Queries, n + 1, Len(Queries))
        /\ \E answers \in Answers(n) :
             channel' = [x \in Channels |->
                     [written  |-> <<>>,
                      readable |-> CASE x = "response"   -> Responses
                                     [] x = "prediction" -> answers
                                     [] OTHER            -> channel[x].written]]
  BY DEF Elsewhere
<1>10. n \in 0 .. b + c
  BY <1>5, <1>7, <1>8, <1>9 DEF NumbersAnswered
<1>11. PICK answers \in Answers(n) :
         channel' = [x \in Channels |->
                     [written  |-> <<>>,
                      readable |-> CASE x = "response"   -> Responses
                                     [] x = "prediction" -> answers
                                     [] OTHER            -> channel[x].written]]
  BY <1>9
<1>12. /\ answers \in Seq(Prediction) /\ Len(answers) = n
       /\ \A i \in 1 .. n : answers[i].inst = Q[i]
  BY <1>7, <1>8, <1>10, <1>11, AnswersAre
<1>13. /\ AreChannels(channel')
       /\ Readable("response")' = Responses /\ Readable("prediction")' = answers
       /\ Readable("query")' = channel["query"].written /\ channel'["query"].written = <<>>
  <2>1. AreChannels(channel')
    BY <1>11 DEF AreChannels
  <2> QED BY <1>11, <2>1 DEF Channels, Readable
<1>14. /\ asked' \in Seq(Program) /\ Len(asked') = b + c - n
       /\ \A i \in 1 .. b + c - n : asked'[i] = Q[n + i]
  <2>1. \A i \in n + 1 .. b + c : Q[i] \in Program
    BY <1>5, <1>8, <1>10
  <2>2. asked' = SubSeq(Q, n + 1, b + c)
    BY <1>7, <1>8, <1>9
  <2>3. n + 1 \in Int /\ b + c \in Int
    BY <1>5, <1>10
  <2>4. /\ asked' \in Seq(Program)
        /\ Len(asked') = IF n + 1 <= b + c THEN (b + c) - (n + 1) + 1 ELSE 0
        /\ \A i \in 1 .. (b + c) - (n + 1) + 1 : asked'[i] = Q[(n + 1) + i - 1]
    BY <2>1, <2>2, <2>3, SubSeqProperties
  <2>5. /\ (b + c) - (n + 1) + 1 = b + c - n
        /\ \A i \in 1 .. b + c - n : (n + 1) + i - 1 = n + i
        /\ Len(asked') = b + c - n
    BY <1>5, <1>10, <2>4
  <2> QED BY <2>4, <2>5
<1>15. /\ UNCHANGED <<fetchBuffer, clockVars, configVars>> /\ step' = "ClockSendBuffered"
       /\ next' = next + NumberServed /\ Usage' = Usage /\ step = "Elsewhere"
  BY DEF Elsewhere, Usage
<1>16. /\ next' \in next .. Instructions + 1
       /\ Responses \in Seq(Program)
       /\ \A i \in 1 .. Len(Responses) : Responses[i] = next + i - 1 /\ Responses[i] < next'
  BY <1>0, <1>15, TypedChannels, RespondsInOrder
<1>17. FetcherTypeOK'
  <2>1. next' \in 1 .. Instructions + 1
    BY <1>0, <1>16, FetcherAssumption DEF FetcherTypeOK
  <2>2. <<>> \in Seq(Program)
    BY EmptySeq
  <2> QED BY <1>0, <1>3, <1>12, <1>13, <1>14, <1>15, <1>16, <2>1, <2>2
          DEF FetcherTypeOK, clockVars, configVars, Steps
<1>18. InProgramOrder'
  <2>1. /\ \A i \in 1 .. Usage : fetchBuffer[i].inst \in Int
        /\ next \in 1 .. Instructions + 1
    BY <1>0, Typed, TypedChannels DEF Program
  <2> QED BY <1>0, <1>3, <1>13, <2>1, ServedAreInOrder
<1>19. Marked(m, q, 0)'
  BY <1>1, <1>2, <1>15 DEF Marked, hasPredictor, configVars
<1>20. Pipelined(q, 0)'
  <2>1. Responded(0)' = n /\ Read(0)' = b + c /\ Arrived(0)' = b + c + d
    <3>1. Responded(0)' = 0 + n
      BY <1>12, <1>13 DEF Responded
    <3>2. Read(0)' = (0 + n) + (b + c - n)
      BY <1>14, <3>1 DEF Read
    <3>3. Read(0)' = b + c /\ Responded(0)' = n
      BY <1>5, <1>10, <3>1, <3>2
    <3>4. Arrived(0)' = (b + c) + d
      BY <1>4, <1>13, <3>3 DEF Arrived
    <3> QED BY <3>3, <3>4
  <2>2. \A i \in 1 .. n : Readable("prediction")'[i].inst = fetchBuffer'[0 + i].inst
    BY <1>5, <1>8, <1>10, <1>12, <1>13, <1>15
  <2>3. IsStretch(asked, Responded(0))'
    <3>1. \A i \in 1 .. b + c - n : n + i \in 1 .. b + c
      BY <1>5, <1>10
    <3>2. \A i \in 1 .. b + c - n : asked'[i] = fetchBuffer'[n + i].inst
      BY <1>8, <1>14, <1>15, <3>1
    <3> QED BY <1>14, <2>1, <3>2 DEF IsStretch
  <2>4. IsStretch(Readable("query"), Read(0))'
    <3>1. \A i \in 1 .. d : channel["query"].written[i] = fetchBuffer[(b + c) + i].inst
      BY <1>1, <1>2, <1>4, <1>6 DEF Pipelined, IsStretch
    <3> QED BY <1>4, <1>13, <1>15, <2>1, <3>1 DEF IsStretch
  <2>5. IsStretch(channel["query"].written, Arrived(0))'
    BY <1>13 DEF IsStretch
  <2>6. q = Arrived(0)' + Len(channel'["query"].written)
    <3>1. Len(channel'["query"].written) = 0
      BY <1>13
    <3> QED BY <1>5, <1>6, <2>1, <3>1
  <2>7. Len(Readable("prediction")') = n
    BY <1>12, <1>13
  <2> QED BY <1>13, <1>15, <2>2, <2>3, <2>4, <2>5, <2>6, <2>7 DEF Pipelined
<1> QED BY <1>1, <1>3, <1>15, <1>17, <1>18, <1>19, <1>20, 0 \in 0 .. Usage
        DEF FetcherInductive, MarkedAndPipelined

LEMMA FetcherStutters ==
  ASSUME FetcherInductive, UNCHANGED fetcherVars
  PROVE  FetcherInductive'
<1>1. UNCHANGED <<step, fetchBuffer, fetchClock, currentPenalty, channel, next, asked,
                  fetchInterval, misspredictPenalty, predictor>>
  BY DEF fetcherVars, clockVars, envVars, configVars
<1>2. FetcherTypeOK' /\ InProgramOrder'
  BY <1>1 DEF FetcherInductive, FetcherTypeOK, InProgramOrder, Readable, Usage
<1>3. PICK m \in 0 .. Usage, q \in 0 .. Usage, p \in 0 .. Usage : Marked(m, q, p) /\ Pipelined(q, p)
  BY DEF FetcherInductive, MarkedAndPipelined
<1>4. Marked(m, q, p)' /\ Pipelined(q, p)' /\ Usage' = Usage
  BY <1>1, <1>3 DEF Marked, Pipelined, IsStretch, Responded, Read, Arrived, Readable, Usage,
                    hasPredictor
<1> QED BY <1>2, <1>3, <1>4 DEF FetcherInductive, MarkedAndPipelined

(***************************************************************************)
(* Together.                                                               *)
(***************************************************************************)
LEMMA FetcherStep ==
  ASSUME FetcherInductive, [Next]_fetcherVars
  PROVE  FetcherInductive'
  BY SendsBuffered, ChecksPredictor, Unbuffers, Penalises, Fetches, RequestsFetch, OthersAct,
     FetcherStutters DEF Next, Clock

LEMMA FetcherImplied ==
  ASSUME FetcherInductive
  PROVE  FetcherInvariant /\ ResponsesAreForTheHead
<1>0. FetcherTypeOK /\ InProgramOrder
  BY DEF FetcherInductive
<1>1. PICK m \in 0 .. Usage, q \in 0 .. Usage, p \in 0 .. Usage : Marked(m, q, p) /\ Pipelined(q, p)
  BY DEF FetcherInductive, MarkedAndPipelined
<1>2. Usage \in Nat /\ \A i \in 1 .. Usage : /\ fetchBuffer[i].inst \in Program
                                             /\ fetchBuffer[i].flags \in SUBSET Flags
  BY <1>0, Typed
<1>3. \A i, j \in 1 .. Usage : i < j => fetchBuffer[j].flags \subseteq fetchBuffer[i].flags
  <2> SUFFICES ASSUME NEW i \in 1 .. Usage, NEW j \in 1 .. Usage, i < j
               PROVE  fetchBuffer[j].flags \subseteq fetchBuffer[i].flags
    OBVIOUS
  <2>1. fetchBuffer[i].flags = Carried(i, m, q, p) /\ fetchBuffer[j].flags = Carried(j, m, q, p)
    BY <1>1 DEF Marked
  <2>2. p \in Int
    BY <1>1
  <2>3. /\ j <= m => i <= m
        /\ j <= q => i <= q
        /\ j <= p => i <= p
    BY <1>1, <1>2, <2>2
  <2> QED BY <2>1, <2>3 DEF Carried
<1>4. FetcherInvariant
  BY <1>0, <1>2, <1>3 DEF FetcherInvariant, FetcherTypeOK, InProgramOrder, Steps, Flags
<1>5. ResponsesAreForTheHead
  BY ResponsesBelong DEF ResponsesAreForTheHead
<1> QED BY <1>4, <1>5

(***************************************************************************)
(* The instructions in the buffer are in the order of the program, and an  *)
(* entry carries every flag that a later one carries, through all that     *)
(* Fetcher::Clock does in a cycle (fetcher.cpp:62-200): so the helpers     *)
(* that skip a prefix of the buffer miss nothing.                          *)
(***************************************************************************)
THEOREM FetcherIsInOrder == Spec => []FetcherInvariant
<1>1. Init => FetcherInductive
  BY FetcherStarts
<1>2. FetcherInductive /\ [Next]_fetcherVars => FetcherInductive'
  BY FetcherStep
<1>3. FetcherInductive => FetcherInvariant
  BY FetcherImplied
<1> QED BY <1>1, <1>2, <1>3, PTL DEF Spec

(***************************************************************************)
(* The assertion of ClockCheckPredictor (fetcher.cpp:116) holds whenever   *)
(* it is reached, for every predictor that responds in order, however late *)
(* it does.                                                                *)
(***************************************************************************)
THEOREM PredictionsBelongToTheHead == Spec => []ResponsesAreForTheHead
<1>1. Init => FetcherInductive
  BY FetcherStarts
<1>2. FetcherInductive /\ [Next]_fetcherVars => FetcherInductive'
  BY FetcherStep
<1>3. FetcherInductive => ResponsesAreForTheHead
  BY FetcherImplied
<1> QED BY <1>1, <1>2, <1>3, PTL DEF Spec
-----------------------------------------------------------------------------
(***************************************************************************)
(* Induction, and functions that are defined by recursion.                 *)
(***************************************************************************)
LEMMA Induction ==
  ASSUME NEW S \in SUBSET Nat, 0 \in S, \A n \in S : n + 1 \in S
  PROVE  S = Nat
<1> SUFFICES ASSUME Nat \ S # {} PROVE FALSE
  OBVIOUS
<1>1. PICK x \in Nat \ S : \A y \in Nat \ S : x <= y
  BY LeastNumber
<1> QED BY <1>1, x - 1 \in Nat, x - 1 \in S

Recursion(f, base, g, n) == IF n = 0 THEN base ELSE g[<<n, f[n - 1]>>]

IsRecursion(f, base, g, k) == \A n \in 0 .. k : f[n] = Recursion(f, base, g, n)

LEMMA RecursionExists ==
  ASSUME NEW k \in Nat, NEW V, NEW base \in V, NEW g \in [(1 .. k) \X V -> V]
  PROVE  \E f : f \in [0 .. k -> V] /\ IsRecursion(f, base, g, k)
<1> DEFINE S == {j \in Nat : j <= k => \E f \in [0 .. j -> V] :
                                         f = [n \in 0 .. j |-> Recursion(f, base, g, n)]}
<1>1. 0 \in S
  <2> DEFINE f == [n \in 0 .. 0 |-> base]
  <2>1. f \in [0 .. 0 -> V]
    OBVIOUS
  <2>2. f = [n \in 0 .. 0 |-> Recursion(f, base, g, n)]
    <3>1. \A n \in 0 .. 0 : n = 0
      OBVIOUS
    <3> QED BY <3>1 DEF Recursion
  <2> HIDE DEF f
  <2> QED BY <2>1, <2>2
<1>2. ASSUME NEW j \in S PROVE j + 1 \in S
  <2>1. j \in Nat
    OBVIOUS
  <2> SUFFICES ASSUME j + 1 <= k
               PROVE  \E f \in [0 .. j + 1 -> V] :
                        f = [n \in 0 .. j + 1 |-> Recursion(f, base, g, n)]
    BY <2>1
  <2>2. PICK f \in [0 .. j -> V] : f = [n \in 0 .. j |-> Recursion(f, base, g, n)]
    BY <2>1
  <2> DEFINE h == [n \in 0 .. j + 1 |-> IF n = j + 1 THEN Recursion(f, base, g, n) ELSE f[n]]
  <2>3. \A n \in 0 .. j : f[n] = Recursion(f, base, g, n) /\ f[n] \in V
    BY <2>2
  <2>4. \A n \in 0 .. j : h[n] = f[n]
    BY <2>1
  <2>5. \A n \in 0 .. j + 1 : h[n] = Recursion(f, base, g, n)
    <3> TAKE n \in 0 .. j + 1
    <3>1. CASE n = j + 1
      BY <3>1
    <3>2. CASE n # j + 1
      <4>1. n \in 0 .. j
        BY <2>1, <3>2
      <4> QED BY <2>3, <2>4, <4>1
    <3> QED BY <3>1, <3>2
  <2>6. \A n \in 0 .. j + 1 : Recursion(h, base, g, n) = Recursion(f, base, g, n)
    <3> TAKE n \in 0 .. j + 1
    <3>1. CASE n = 0
      BY <3>1 DEF Recursion
    <3>2. CASE n # 0
      <4>1. n - 1 \in 0 .. j
        BY <2>1, <3>2
      <4>2. h[n - 1] = f[n - 1]
        BY <2>4, <4>1
      <4> HIDE DEF h
      <4> QED BY <4>2 DEF Recursion
    <3> QED BY <3>1, <3>2
  <2>7. \A n \in 0 .. j + 1 : h[n] \in V
    <3> TAKE n \in 0 .. j + 1
    <3>1. CASE n = j + 1
      <4>1. n # 0 /\ n \in 1 .. k /\ n - 1 \in 0 .. j
        BY <2>1, <3>1
      <4>2. <<n, f[n - 1]>> \in (1 .. k) \X V
        BY <2>3, <4>1
      <4>3. h[n] = g[<<n, f[n - 1]>>]
        BY <2>5, <4>1 DEF Recursion
      <4> HIDE DEF h
      <4> QED BY <4>2, <4>3
    <3>2. CASE n # j + 1
      <4>1. n \in 0 .. j
        BY <2>1, <3>2
      <4> QED BY <2>3, <2>4, <4>1
    <3> QED BY <3>1, <3>2
  <2>8. h = [n \in 0 .. j + 1 |-> h[n]]
    OBVIOUS
  <2> HIDE DEF h
  <2>9. h = [n \in 0 .. j + 1 |-> Recursion(h, base, g, n)]
    <3>1. \A n \in 0 .. j + 1 : h[n] = Recursion(h, base, g, n)
      BY <2>5, <2>6
    <3> QED BY <2>8, <3>1
  <2>10. h \in [0 .. j + 1 -> V]
    BY <2>7, <2>8
  <2> QED BY <2>9, <2>10
<1> HIDE DEF S
<1>3. S = Nat
  <2>1. S \in SUBSET Nat
    BY DEF S
  <2> QED BY <1>1, <1>2, <2>1, Induction
<1>4. k \in S /\ k <= k
  BY <1>3
<1>5. PICK f \in [0 .. k -> V] : f = [n \in 0 .. k |-> Recursion(f, base, g, n)]
  BY <1>4 DEF S
<1>6. \A n \in 0 .. k : f[n] = Recursion(f, base, g, n)
  BY <1>5
<1> QED BY <1>6 DEF IsRecursion

(***************************************************************************)
(* The bytes of a sequence of instructions.                                *)
(***************************************************************************)
AreSized == instSize \in [Program -> InstSizes]

LEMMA SizesArePositive ==
  ASSUME AreSized, NEW i \in Program
  PROVE  instSize[i] \in Nat /\ instSize[i] >= 1
<1>1. instSize[i] \in InstSizes
  BY DEF AreSized
<1>2. instSize[i] \in Nat \ {0}
  BY <1>1, FetcherAssumption
<1> QED BY <1>2

SumsUp(f, s) ==
  /\ f \in [0 .. Len(s) -> Nat] /\ f[0] = 0
  /\ \A n \in 1 .. Len(s) : f[n] = f[n - 1] + instSize[s[n]]

LEMMA TotalSizeIs ==
  ASSUME AreSized, NEW s \in Seq(Program)
  PROVE  \E f : SumsUp(f, s) /\ TotalSize(s) = f[Len(s)]
<1>1. Len(s) \in Nat /\ \A n \in 1 .. Len(s) : s[n] \in Program
  BY LenProperties, ElementOfSeq
<1>2. \A n \in 1 .. Len(s) : instSize[s[n]] \in Nat
  BY <1>1, SizesArePositive
<1> DEFINE g == [x \in (1 .. Len(s)) \X Nat |-> x[2] + instSize[s[x[1]]]]
<1>3. g \in [(1 .. Len(s)) \X Nat -> Nat]
  BY <1>2
<1>4. PICK f : f \in [0 .. Len(s) -> Nat] /\ IsRecursion(f, 0, g, Len(s))
  <2> HIDE DEF g
  <2>1. Len(s) \in Nat /\ 0 \in Nat /\ g \in [(1 .. Len(s)) \X Nat -> Nat]
    BY <1>1, <1>3
  <2> QED BY <2>1, RecursionExists
<1>5. \A n \in 0 .. Len(s) : n # 0 => n - 1 \in 0 .. Len(s) /\ n \in 1 .. Len(s)
  BY <1>1
<1>6. \A n \in 0 .. Len(s) :
        Recursion(f, 0, g, n) = IF n = 0 THEN 0 ELSE f[n - 1] + instSize[s[n]]
  <2> TAKE n \in 0 .. Len(s)
  <2>1. CASE n = 0
    BY <2>1 DEF Recursion
  <2>2. CASE n # 0
    <3>1. <<n, f[n - 1]>> \in (1 .. Len(s)) \X Nat
      BY <1>4, <1>5, <2>2
    <3>2. g[<<n, f[n - 1]>>] = f[n - 1] + instSize[s[n]]
      BY <3>1
    <3> HIDE DEF g
    <3> QED BY <2>2, <3>2 DEF Recursion
  <2> QED BY <2>1, <2>2
<1>7. \A n \in 0 .. Len(s) : f[n] = Recursion(f, 0, g, n)
  BY <1>4 DEF IsRecursion
<1> HIDE DEF g
<1>8. f = [n \in 0 .. Len(s) |-> IF n = 0 THEN 0 ELSE f[n - 1] + instSize[s[n]]]
  BY <1>4, <1>6, <1>7
<1> DEFINE sum == CHOOSE h : h = [n \in 0 .. Len(s) |->
                                    IF n = 0 THEN 0 ELSE h[n - 1] + instSize[s[n]]]
<1>9. sum = [n \in 0 .. Len(s) |-> IF n = 0 THEN 0 ELSE sum[n - 1] + instSize[s[n]]]
  BY <1>8
<1>10. TotalSize(s) = sum[Len(s)]
  BY DEF TotalSize
<1> HIDE DEF sum
<1>11. \A n \in 0 .. Len(s) : sum[n] = IF n = 0 THEN 0 ELSE sum[n - 1] + instSize[s[n]]
  BY <1>9
<1> DEFINE S == {n \in Nat : n <= Len(s) => sum[n] \in Nat}
<1>12. S = Nat
  <2>1. 0 \in S
    BY <1>1, <1>11
  <2>2. ASSUME NEW n \in S PROVE n + 1 \in S
    <3> SUFFICES ASSUME n + 1 <= Len(s) PROVE sum[n + 1] \in Nat
      OBVIOUS
    <3>1. n + 1 \in 0 .. Len(s) /\ n + 1 # 0 /\ (n + 1) - 1 = n /\ n + 1 \in 1 .. Len(s)
      BY <1>1
    <3>2. sum[n] \in Nat
      BY <1>1
    <3> QED BY <1>2, <1>11, <3>1, <3>2
  <2> HIDE DEF S
  <2>3. S \in SUBSET Nat
    BY DEF S
  <2> QED BY <2>1, <2>2, <2>3, Induction
<1>13. \A n \in 0 .. Len(s) : sum[n] \in Nat
  BY <1>1, <1>12
<1>14. sum \in [0 .. Len(s) -> Nat]
  BY <1>9, <1>13
<1>15. SumsUp(sum, s)
  BY <1>1, <1>5, <1>11, <1>14 DEF SumsUp
<1> QED BY <1>10, <1>15
LEMMA SumOfPrefix ==
  ASSUME AreSized, NEW s \in Seq(Program), NEW t \in Seq(Program), NEW f, NEW h,
         SumsUp(f, s), SumsUp(h, t), Len(t) <= Len(s), \A i \in 1 .. Len(t) : s[i] = t[i]
  PROVE  \A n \in 0 .. Len(t) : f[n] = h[n] /\ f[n] >= n /\ h[n] \in Nat
<1>1. Len(s) \in Nat /\ Len(t) \in Nat
  BY LenProperties
<1> DEFINE S == {n \in Nat : n <= Len(t) => f[n] = h[n] /\ f[n] >= n /\ h[n] \in Nat}
<1>2. 0 \in S
  BY DEF SumsUp
<1>3. ASSUME NEW n \in S PROVE n + 1 \in S
  <2> SUFFICES ASSUME n + 1 <= Len(t)
               PROVE  f[n + 1] = h[n + 1] /\ f[n + 1] >= n + 1 /\ h[n + 1] \in Nat
    OBVIOUS
  <2>1. n \in Nat /\ n <= Len(t) /\ n + 1 \in 1 .. Len(t) /\ n + 1 \in 1 .. Len(s) /\ (n + 1) - 1 = n
    BY <1>1
  <2>2. f[n] = h[n] /\ f[n] >= n /\ h[n] \in Nat
    BY <2>1
  <2>3. PICK z : z = instSize[t[n + 1]]
    OBVIOUS
  <2>4. t[n + 1] \in Program /\ s[n + 1] = t[n + 1]
    BY <2>1, ElementOfSeq
  <2>5. z \in Nat /\ z >= 1
    BY <2>3, <2>4, SizesArePositive
  <2>6. f[n + 1] = f[n] + z /\ h[n + 1] = h[n] + z
    BY <2>1, <2>3, <2>4 DEF SumsUp
  <2> QED BY <2>1, <2>2, <2>5, <2>6
<1> HIDE DEF S
<1>4. S = Nat
  <2>1. S \in SUBSET Nat
    BY DEF S
  <2> QED BY <1>2, <1>3, <2>1, Induction
<1>5. ASSUME NEW n \in 0 .. Len(t) PROVE f[n] = h[n] /\ f[n] >= n /\ h[n] \in Nat
  <2>1. n \in S /\ n <= Len(t)
    BY <1>1, <1>4
  <2> QED BY <2>1 DEF S
<1> QED BY <1>5

LEMMA SizeIsNatural ==
  ASSUME AreSized, NEW s \in Seq(Program)
  PROVE  /\ TotalSize(s) \in Nat /\ TotalSize(s) >= Len(s)
         /\ Len(s) = 0 => TotalSize(s) = 0
<1>1. PICK f : SumsUp(f, s) /\ TotalSize(s) = f[Len(s)]
  BY TotalSizeIs
<1>2. Len(s) \in Nat
  BY LenProperties
<1>3. Len(s) \in 0 .. Len(s)
  BY <1>2
<1>4. f[Len(s)] >= Len(s) /\ f[Len(s)] \in Nat
  BY <1>1, <1>2, <1>3, SumOfPrefix
<1> QED BY <1>1, <1>4 DEF SumsUp

LEMMA SizeOfOneMore ==
  ASSUME AreSized, NEW s \in Seq(Program), NEW t \in Seq(Program),
         Len(s) = Len(t) + 1, \A i \in 1 .. Len(t) : s[i] = t[i]
  PROVE  TotalSize(s) = TotalSize(t) + instSize[s[Len(s)]]
<1>1. PICK f : SumsUp(f, s) /\ TotalSize(s) = f[Len(s)]
  BY TotalSizeIs
<1>2. PICK h : SumsUp(h, t) /\ TotalSize(t) = h[Len(t)]
  BY TotalSizeIs
<1>3. Len(t) \in Nat
  BY LenProperties
<1>4. Len(t) <= Len(s) /\ Len(s) \in 1 .. Len(s) /\ Len(s) - 1 = Len(t) /\ Len(t) \in 0 .. Len(t)
  BY <1>3
<1>5. f[Len(t)] = h[Len(t)]
  BY <1>1, <1>2, <1>4, SumOfPrefix
<1>6. f[Len(s)] = f[Len(s) - 1] + instSize[s[Len(s)]]
  BY <1>1, <1>4 DEF SumsUp
<1> QED BY <1>1, <1>2, <1>4, <1>5, <1>6

(***************************************************************************)
(* What the engine has buffered, and how much of it a request is given.    *)
(***************************************************************************)
Ahead(n) == [i \in 1 .. n |-> next + i - 1]

Remaining == Instructions - next + 1

LEMMA AheadIsSeq ==
  ASSUME next \in 1 .. Instructions + 1, NEW n \in 0 .. Remaining
  PROVE  Ahead(n) \in Seq(Program) /\ Len(Ahead(n)) = n /\ \A i \in 1 .. n : Ahead(n)[i] = next + i - 1
<1>1. Instructions \in Nat /\ n \in Nat
  BY FetcherAssumption DEF Remaining
<1>2. \A i \in 1 .. n : next + i - 1 \in Program
  BY <1>1 DEF Remaining, Program
<1>3. Ahead(n) \in [1 .. n -> Program]
  BY <1>2 DEF Ahead
<1>4. Ahead(n) \in Seq(Program) /\ Len(Ahead(n)) = n
  BY <1>1, <1>3, FunctionIsSeq
<1> QED BY <1>4 DEF Ahead

LEMMA WeightGrows ==
  ASSUME AreSized, next \in 1 .. Instructions + 1, NEW n \in 0 .. Remaining
  PROVE  /\ Weight(n) \in Nat /\ Weight(n) >= n
         /\ n = 0 => Weight(n) = 0
         /\ n < Remaining => Weight(n + 1) = Weight(n) + instSize[next + n]
<1>1. Remaining \in Nat /\ n \in Nat
  BY FetcherAssumption DEF Remaining
<1>2. \A j : Weight(j) = TotalSize(Ahead(j))
  BY DEF Weight, Ahead
<1>3. Ahead(n) \in Seq(Program) /\ Len(Ahead(n)) = n /\ \A i \in 1 .. n : Ahead(n)[i] = next + i - 1
  BY AheadIsSeq
<1>4. Weight(n) \in Nat /\ Weight(n) >= n /\ (n = 0 => Weight(n) = 0)
  BY <1>2, <1>3, SizeIsNatural
<1>5. ASSUME n < Remaining PROVE Weight(n + 1) = Weight(n) + instSize[next + n]
  <2>1. n + 1 \in 0 .. Remaining /\ n + 1 \in 1 .. n + 1 /\ next + (n + 1) - 1 = next + n
    BY <1>1, <1>5, FetcherAssumption
  <2>2. /\ Ahead(n + 1) \in Seq(Program) /\ Len(Ahead(n + 1)) = n + 1
        /\ \A i \in 1 .. n + 1 : Ahead(n + 1)[i] = next + i - 1
    BY <2>1, AheadIsSeq
  <2>3. \A i \in 1 .. n : Ahead(n + 1)[i] = Ahead(n)[i]
    BY <1>1, <1>3, <2>2
  <2>4. Ahead(n + 1)[n + 1] = next + n
    BY <2>1, <2>2
  <2> QED BY <1>2, <1>3, <2>2, <2>3, <2>4, SizeOfOneMore
<1> QED BY <1>4, <1>5
LEMMA WeightOfFirst ==
  ASSUME AreSized, next \in 1 .. Instructions + 1, NEW n \in 1 .. Remaining
  PROVE  Weight(n) >= instSize[next]
<1>1. Remaining \in Nat /\ next \in Nat
  BY FetcherAssumption DEF Remaining
<1> DEFINE S == {j \in Nat : j + 1 <= Remaining => Weight(j + 1) >= instSize[next]}
<1>2. 1 <= Remaining => next \in Program /\ instSize[next] \in Nat
  <2> HAVE 1 <= Remaining
  <2>1. next \in Program
    BY FetcherAssumption DEF Remaining, Program
  <2> QED BY <2>1, SizesArePositive
<1>3. 0 \in S
  <2> SUFFICES ASSUME 0 + 1 <= Remaining PROVE Weight(0 + 1) >= instSize[next]
    OBVIOUS
  <2>1. 0 \in 0 .. Remaining /\ 0 < Remaining
    BY <1>1
  <2>2. Weight(0) = 0 /\ Weight(0 + 1) = Weight(0) + instSize[next + 0]
    BY <2>1, WeightGrows
  <2> QED BY <1>1, <1>2, <2>2
<1>4. ASSUME NEW j \in S PROVE j + 1 \in S
  <2> SUFFICES ASSUME (j + 1) + 1 <= Remaining PROVE Weight((j + 1) + 1) >= instSize[next]
    OBVIOUS
  <2>1. j + 1 \in 0 .. Remaining /\ j + 1 < Remaining /\ j + 1 <= Remaining
    BY <1>1
  <2>2. Weight(j + 1) >= instSize[next]
    BY <2>1
  <2>3. Weight((j + 1) + 1) = Weight(j + 1) + instSize[next + (j + 1)] /\ Weight(j + 1) \in Nat
    BY <2>1, WeightGrows
  <2>4. next + (j + 1) \in Program
    BY <2>1, FetcherAssumption DEF Remaining, Program
  <2>5. instSize[next + (j + 1)] \in Nat
    BY <2>4, SizesArePositive
  <2> QED BY <1>1, <1>2, <2>2, <2>3, <2>5
<1> HIDE DEF S
<1>5. S = Nat
  <2>1. S \in SUBSET Nat
    BY DEF S
  <2> QED BY <1>3, <1>4, <2>1, Induction
<1>6. n - 1 \in S /\ (n - 1) + 1 = n
  BY <1>1, <1>5
<1> QED BY <1>6 DEF S

LEMMA EngineServes ==
  ASSUME AreSized, next \in 1 .. Instructions + 1, NEW r \in Int, r # 0
  PROVE  /\ Served(r) \in 0 .. Remaining
         /\ Served(r) = 0 \/ Weight(Served(r)) < r
         /\ Served(r) = Remaining \/ Weight(Served(r) + 1) >= r
<1> DEFINE T == {0} \cup {n \in 0 .. Remaining : Weight(n) < r}
<1>1. Remaining \in Nat
  BY FetcherAssumption DEF Remaining
<1>2. Served(r) = Max(T)
  BY DEF Served, Remaining
<1>3. T \in SUBSET (0 .. Remaining) /\ T # {}
  BY <1>1
<1>4. \A n \in T : n = 0 \/ Weight(n) < r
  OBVIOUS
<1>5. \A n \in 0 .. Remaining : Weight(n) < r => n \in T
  OBVIOUS
<1> HIDE DEF T
<1>6. Max(T) \in T /\ \A n \in T : n <= Max(T)
  BY <1>1, <1>3, GreatestNumber
<1>7. PICK k : k = Max(T)
  OBVIOUS
<1>8. k \in 0 .. Remaining /\ (k = 0 \/ Weight(k) < r)
  BY <1>3, <1>4, <1>6, <1>7
<1>9. ASSUME k # Remaining PROVE Weight(k + 1) >= r
  <2>1. k + 1 \in 0 .. Remaining /\ ~(k + 1 <= k)
    BY <1>1, <1>8, <1>9
  <2>2. ~(Weight(k + 1) < r)
    BY <1>5, <1>6, <1>7, <2>1
  <2>3. Weight(k + 1) \in Nat
    BY <2>1, WeightGrows
  <2> QED BY <2>2, <2>3
<1> QED BY <1>2, <1>7, <1>8, <1>9

(***************************************************************************)
(* A request for r bytes that is given nothing, although it does not ask   *)
(* for exactly one instruction.                                            *)
(***************************************************************************)
NoneFits(r) == r # 0 /\ (next > Instructions \/ r <= instSize[next])

LEMMA NothingServed ==
  ASSUME AreSized, next \in 1 .. Instructions + 1, NEW r \in Int, NoneFits(r)
  PROVE  Served(r) = 0
<1>1. Remaining \in Nat /\ r # 0 /\ next \in Nat /\ Instructions \in Nat
  BY FetcherAssumption DEF Remaining, NoneFits
<1>2. Served(r) \in 0 .. Remaining /\ (Served(r) = 0 \/ Weight(Served(r)) < r)
  BY <1>1, EngineServes
<1>3. ASSUME Served(r) # 0 PROVE FALSE
  <2>1. Served(r) \in 1 .. Remaining /\ Weight(Served(r)) < r
    BY <1>1, <1>2, <1>3
  <2>2. Weight(Served(r)) >= instSize[next] /\ Weight(Served(r)) \in Nat
    <3>1. Served(r) \in 0 .. Remaining
      BY <1>2
    <3> QED BY <2>1, <3>1, WeightOfFirst, WeightGrows
  <2>3. ~(next > Instructions)
    BY <1>1, <2>1 DEF Remaining
  <2>4. r <= instSize[next]
    BY <2>3 DEF NoneFits
  <2>5. instSize[next] \in Nat
    <3>1. next \in Program
      BY <1>1, <2>3 DEF Program
    <3> QED BY <3>1, SizesArePositive
  <2> QED BY <2>1, <2>2, <2>4, <2>5
<1> QED BY <1>3

LEMMA FewAreServed ==
  ASSUME AreSized, next \in 1 .. Instructions + 1, NEW r \in Int, r <= fetchSize,
         fetchSize = 1 => r # 0
  PROVE  Served(r) < fetchSize /\ Served(r) \in 0 .. Remaining
<1>1. Remaining \in Nat /\ fetchSize \in Nat /\ fetchSize >= 1
  BY FetcherAssumption DEF Remaining
<1>2. CASE r = 0
  <2>1. Served(0) = Min({1, Remaining})
    BY DEF Served, Remaining
  <2>2. Min({1, Remaining}) = IF 1 <= Remaining THEN 1 ELSE Remaining
    BY <1>1, SmallerOfTwo
  <2> QED BY <1>1, <1>2, <2>1, <2>2
<1>3. CASE r # 0
  <2>1. Served(r) \in 0 .. Remaining /\ (Served(r) = 0 \/ Weight(Served(r)) < r)
    BY <1>3, EngineServes
  <2>2. Weight(Served(r)) >= Served(r) /\ Weight(Served(r)) \in Nat
    BY <2>1, WeightGrows
  <2>3. PICK k, w : k = Served(r) /\ w = Weight(Served(r))
    OBVIOUS
  <2>4. k \in 0 .. Remaining /\ (k = 0 \/ w < r) /\ w >= k /\ w \in Nat
    BY <2>1, <2>2, <2>3
  <2>5. k < fetchSize
    BY <1>1, <2>4
  <2> QED BY <2>1, <2>3, <2>5
<1> QED BY <1>2, <1>3

(***************************************************************************)
(* After a request that is served there is no place for the next one.      *)
(***************************************************************************)
LEMMA ServedFills ==
  ASSUME AreSized, next \in 1 .. Instructions + 1, NEW r \in Nat, r # 0,
         NEW n, n = Served(r), NEW w, w = Weight(n), next' = next + n, UNCHANGED instSize
  PROVE  w \in Nat /\ w < r /\ NoneFits(r - w)'
<1>1. Remaining \in Nat /\ next \in Nat /\ Instructions \in Nat
  BY FetcherAssumption DEF Remaining
<1>2. /\ n \in 0 .. Remaining /\ (n = 0 \/ Weight(n) < r)
      /\ n = Remaining \/ Weight(n + 1) >= r
  BY EngineServes
<1>3. /\ Weight(n) \in Nat /\ (n = 0 => Weight(n) = 0)
      /\ n < Remaining => Weight(n + 1) = Weight(n) + instSize[next + n]
  BY <1>2, WeightGrows
<1>4. w \in Nat /\ w < r
  BY <1>2, <1>3
<1>5. r - w # 0
  BY <1>4
<1>6. CASE n = Remaining
  <2>1. next' > Instructions
    BY <1>1, <1>6 DEF Remaining
  <2> QED BY <1>4, <1>5, <2>1 DEF NoneFits
<1>7. CASE n # Remaining
  <2>1. n < Remaining /\ n \in Nat
    BY <1>1, <1>2, <1>7
  <2>2. next + n \in Program
    BY <1>1, <2>1 DEF Remaining, Program
  <2>3. PICK z : z = instSize[next + n]
    OBVIOUS
  <2>4. z \in Nat
    BY <2>2, <2>3, SizesArePositive
  <2>5. w + z >= r
    BY <1>2, <1>3, <1>4, <1>7, <2>1, <2>3
  <2>6. r - w <= z
    BY <1>3, <1>4, <2>4, <2>5
  <2> QED BY <1>4, <1>5, <2>3, <2>6 DEF NoneFits
<1> QED BY <1>4, <1>6, <1>7
-----------------------------------------------------------------------------
(***************************************************************************)
(* The pace of the fetcher.  A cycle is early until it is known whether a  *)
(* penalty is paid or started; what is asked for in it is served in the    *)
(* next cycle and arrives in the one after.                                *)
(***************************************************************************)
Early == step \notin {"ClockFetch", "ClockRequestFetch", "Elsewhere"}

Judged == step \in {"ClockUnbuffer", "Penalty"}

Asking    == channel["request"].written
Requested == Readable("request")
Arriving  == Readable("response")

PacedTypeOK ==
  /\ fetchInterval \in Nat \ {0}
  /\ misspredictPenalty \in Nat \ {0}
  /\ fetchClock \in 0 .. fetchInterval
  /\ currentPenalty \in 0 .. misspredictPenalty
  /\ AreChannels(channel)

(***************************************************************************)
(* When requests are on their way: one is made only in the last three      *)
(* cycles of a penalty or without one, and it leaves 1 in the clock.       *)
(***************************************************************************)
MayAsk == currentPenalty <= 2 /\ currentPenalty # misspredictPenalty

MayBeServed ==
  \/ currentPenalty \in {0, misspredictPenalty}
  \/ currentPenalty = 1 /\ misspredictPenalty >= 3

Timing ==
  /\ Asking # <<>> => step = "Elsewhere" /\ MayAsk /\ fetchClock = 1
  /\ step \in {"ClockFetch", "ClockRequestFetch"} => MayAsk
  /\ Early /\ Requested # <<>> => MayAsk /\ fetchClock = 1
  /\ ~Early /\ Requested # <<>> => MayBeServed
  /\ Early /\ Arriving # <<>> => MayBeServed
  /\ step = "ClockFetch" /\ Requested # <<>> => fetchClock = 1
  /\ step = "ClockRequestFetch" => fetchClock = 0 /\ Arriving = <<>>

(***************************************************************************)
(* The clock in a long penalty, which starts it anew: a request is made in *)
(* the first of the last three cycles, and in the second only if there is  *)
(* one in every cycle.                                                     *)
(***************************************************************************)
Countdown ==
  misspredictPenalty >= 3 =>
    /\ step \notin {"ClockFetch", "ClockRequestFetch"} =>
         /\ currentPenalty >= 3 => fetchClock = 0
         /\ currentPenalty = 2 => fetchClock = 1
    /\ step = "ClockFetch" =>
         /\ currentPenalty = 2 => fetchClock = 0
         /\ currentPenalty = 1 => fetchClock = 1
    /\ fetchInterval >= 2 =>
         /\ Asking # <<>> => currentPenalty # 1
         /\ step = "ClockRequestFetch" => currentPenalty # 1
         /\ Early /\ Requested # <<>> => currentPenalty # 1

(***************************************************************************)
(* What the actions do to the messages to and from the engine.             *)
(***************************************************************************)
LEMMA FetchTakes ==
  ASSUME AreChannels(channel), ClockFetch
  PROVE  /\ AreChannels(channel') /\ Asking' = Asking /\ Requested' = Requested /\ Arriving' = <<>>
         /\ \A x \in Channels \ {"response"} : channel'[x] = channel[x]
<1>1. /\ channel' = [channel EXCEPT !["response"].readable = <<>>]
      /\ "request" \in Channels /\ "response" \in Channels
  BY DEF ClockFetch, Clears, Channels
<1> QED BY <1>1 DEF AreChannels, Asking, Requested, Arriving, Readable

LEMMA RequestIsWritten ==
  ASSUME AreChannels(channel), ClockRequestFetch
  PROVE  /\ AreChannels(channel') /\ Asking' = <<FreeBytes>>
         /\ Requested' = Requested /\ Arriving' = Arriving
         /\ \A x \in Channels \ {"request"} : channel'[x] = channel[x]
<1>1. /\ channel' = [channel EXCEPT !["request"].written = <<FreeBytes>>]
      /\ "request" \in Channels /\ "response" \in Channels
  BY DEF ClockRequestFetch, Writes, Channels
<1> QED BY <1>1 DEF AreChannels, Asking, Requested, Arriving, Readable

LEMMA MessagesMoveOn ==
  ASSUME Elsewhere
  PROVE  /\ AreChannels(channel') /\ Asking' = <<>> /\ Requested' = Asking /\ Arriving' = Responses
         /\ channel'["query"].written = <<>>
         /\ Readable("query")' = channel["query"].written
         /\ \E n \in NumbersAnswered :
              /\ asked' = SubSeq(Queries, n + 1, Len(Queries))
              /\ Readable("prediction")' \in Answers(n)
<1>1. PICK n \in NumbersAnswered :
        /\ asked' = SubSeq(Queries, n + 1, Len(Queries))
        /\ \E answers \in Answers(n) :
             channel' = [x \in Channels |->
                     [written  |-> <<>>,
                      readable |-> CASE x = "response"   -> Responses
                                     [] x = "prediction" -> answers
                                     [] OTHER            -> channel[x].written]]
  BY DEF Elsewhere
<1>2. PICK answers \in Answers(n) :
        channel' = [x \in Channels |->
                     [written  |-> <<>>,
                      readable |-> CASE x = "response"   -> Responses
                                     [] x = "prediction" -> answers
                                     [] OTHER            -> channel[x].written]]
  BY <1>1
<1>3. AreChannels(channel')
  BY <1>2 DEF AreChannels
<1>4. /\ Asking' = <<>> /\ Requested' = Asking /\ Arriving' = Responses
      /\ channel'["query"].written = <<>>
      /\ Readable("query")' = channel["query"].written
      /\ Readable("prediction")' = answers
  BY <1>2 DEF Asking, Requested, Arriving, Readable, Channels
<1> QED BY <1>1, <1>2, <1>3, <1>4

LEMMA NoRequestNoResponse ==
  ASSUME Requested = <<>>
  PROVE  NumberServed = 0 /\ Responses = <<>>
<1>1. NumberServed = 0
  BY DEF NumberServed, Requested
<1>2. Min({0, fetchSize}) = 0
  BY FetcherAssumption, SmallerOfTwo
<1>3. Min({NumberServed, fetchSize}) = 0
  BY <1>1, <1>2
<1>4. Responses = [i \in 1 .. 0 |-> next + i - 1]
  BY <1>3 DEF Responses
<1> QED BY <1>1, <1>4

(***************************************************************************)
(* The steps of the pace.                                                  *)
(***************************************************************************)
LEMMA PaceKeepsEarly ==
  ASSUME Timing, Countdown, Early, Early',
         UNCHANGED <<fetchInterval, misspredictPenalty, fetchClock, currentPenalty>>,
         Asking' = Asking, Requested' = Requested, Arriving' = Arriving
  PROVE  Timing' /\ Countdown'
<1>1. Asking = <<>>
  BY DEF Timing, Early
<1>2. Timing'
  BY <1>1 DEF Timing, Early, MayAsk, MayBeServed
<1>3. Countdown'
  BY <1>1 DEF Countdown, Early
<1> QED BY <1>2, <1>3

LEMMA PaceOfPenalty ==
  ASSUME PacedTypeOK, Timing, Countdown, PaysPenalty \/ StartsPenalty \/ PaysNoPenalty
  PROVE  Timing' /\ Countdown'
<1>1. /\ Early /\ step = "Penalty" /\ Asking = <<>>
      /\ Asking' = Asking /\ Requested' = Requested /\ Arriving' = Arriving
      /\ UNCHANGED <<fetchInterval, misspredictPenalty>>
  BY DEF Timing, Early, PaysPenalty, StartsPenalty, PaysNoPenalty, Asking, Requested, Arriving,
         Readable, envVars, configVars
<1>2. currentPenalty \in Nat /\ misspredictPenalty \in Nat /\ misspredictPenalty >= 1 /\ currentPenalty <= misspredictPenalty
  BY DEF PacedTypeOK
<1>3. CASE PaysPenalty
  <2>1. /\ currentPenalty > 0 /\ currentPenalty' = currentPenalty - 1 /\ fetchClock' = fetchClock
        /\ step' = IF currentPenalty' > 2 THEN "Elsewhere" ELSE "ClockFetch"
    BY <1>3 DEF PaysPenalty, Idles
  <2>2. ~Early'
    BY <2>1 DEF Early
  <2>3. Timing'
    BY <1>1, <1>2, <2>1, <2>2 DEF Timing, MayAsk, MayBeServed
  <2>4. Countdown'
    BY <1>1, <1>2, <2>1, <2>2 DEF Countdown
  <2> QED BY <2>3, <2>4
<1>4. CASE StartsPenalty
  <2>1. currentPenalty' = misspredictPenalty /\ fetchClock' = 0 /\ step' = "Elsewhere"
    BY <1>4 DEF StartsPenalty
  <2>2. ~Early'
    BY <2>1 DEF Early
  <2> QED BY <1>1, <1>2, <2>1, <2>2 DEF Timing, Countdown, MayAsk, MayBeServed
<1>5. CASE PaysNoPenalty
  <2>1. currentPenalty = 0 /\ currentPenalty' = 0 /\ fetchClock' = fetchClock /\ step' = "ClockFetch"
    BY <1>5 DEF PaysNoPenalty, clockVars
  <2>2. ~Early'
    BY <2>1 DEF Early
  <2> QED BY <1>1, <1>2, <2>1, <2>2 DEF Timing, Countdown, MayAsk, MayBeServed
<1> QED BY <1>3, <1>4, <1>5

LEMMA PaceOfFetch ==
  ASSUME PacedTypeOK, Timing, Countdown, ClockFetch
  PROVE  Timing' /\ Countdown'
<1>1. /\ step = "ClockFetch" /\ ~Early /\ Asking = <<>>
      /\ Asking' = Asking /\ Requested' = Requested /\ Arriving' = <<>>
      /\ UNCHANGED <<fetchInterval, misspredictPenalty, currentPenalty>>
  BY FetchTakes DEF Timing, Early, ClockFetch, PacedTypeOK, envVars, configVars
<1>2. /\ step' \in {"ClockRequestFetch", "Elsewhere"}
      /\ step' = "ClockRequestFetch" <=> fetchClock % fetchInterval = 0
      /\ step' = "ClockRequestFetch" => fetchClock' = 0
  BY DEF ClockFetch
<1>3. /\ fetchClock = 0 => fetchClock % fetchInterval = 0
      /\ fetchClock = 1 /\ fetchInterval >= 2 => fetchClock % fetchInterval # 0
  BY DEF PacedTypeOK
<1>4. ~Early'
  BY <1>2 DEF Early
<1>5. Timing'
  BY <1>1, <1>2, <1>4 DEF Timing, MayAsk, MayBeServed
<1>6. Countdown'
  <2>1. step' = "Elsewhere" => currentPenalty # 2 \/ fetchClock # 0
    BY <1>2, <1>3
  <2>2. currentPenalty <= 2 /\ currentPenalty \in Nat
    BY <1>1 DEF Timing, MayAsk, PacedTypeOK
  <2> QED BY <1>1, <1>2, <1>3, <1>4, <2>1, <2>2 DEF Countdown
<1> QED BY <1>5, <1>6

LEMMA PaceOfRequest ==
  ASSUME PacedTypeOK, Timing, Countdown, ClockRequestFetch
  PROVE  Timing' /\ Countdown'
<1>1. /\ step = "ClockRequestFetch" /\ ~Early /\ step' = "Elsewhere" /\ ~Early' /\ fetchClock' = 1
      /\ Requested' = Requested /\ Arriving' = Arriving
      /\ UNCHANGED <<fetchInterval, misspredictPenalty, currentPenalty>>
  BY RequestIsWritten DEF Early, ClockRequestFetch, PacedTypeOK, envVars, configVars
<1>2. currentPenalty \in Nat
  BY DEF PacedTypeOK
<1>3. Timing'
  BY <1>1 DEF Timing, MayAsk, MayBeServed
<1>4. Countdown'
  BY <1>1, <1>2 DEF Countdown, Timing, MayAsk
<1> QED BY <1>3, <1>4

LEMMA PaceOfOthers ==
  ASSUME PacedTypeOK, Timing, Countdown, Elsewhere
  PROVE  Timing' /\ Countdown'
<1>1. /\ step = "Elsewhere" /\ ~Early /\ step' = "ClockSendBuffered" /\ Early'
      /\ UNCHANGED <<fetchInterval, misspredictPenalty, currentPenalty, fetchClock>>
  BY DEF Early, Elsewhere, clockVars, configVars
<1>2. Asking' = <<>> /\ Requested' = Asking /\ (Requested = <<>> => Arriving' = <<>>)
  BY MessagesMoveOn, NoRequestNoResponse
<1>3. Timing'
  BY <1>1, <1>2 DEF Timing, MayAsk, MayBeServed
<1>4. Countdown'
  BY <1>1, <1>2 DEF Countdown
<1> QED BY <1>3, <1>4
-----------------------------------------------------------------------------
(***************************************************************************)
(* With a prompt predictor and requests that do not overlap, all entries   *)
(* of the buffer arrived in the same cycle, and are sent, and answered,    *)
(* together: their age is the number of cycles since.                      *)
(***************************************************************************)
IsPrompt == predictor = "prompt" /\ asked = <<>>

Unsent == \A i \in 1 .. Usage : fetchBuffer[i].flags = {}

AllPredicted == \A i \in 1 .. Usage : "Predicted" \in fetchBuffer[i].flags

AreOfAge(k) ==
  \/ Usage = 0
  \/ k = 0 /\ Unsent /\ step \in {"ClockRequestFetch", "Elsewhere"}
  \/ k = 1 /\ Unsent /\ step = "ClockSendBuffered"
  \/ k = 1 /\ Len(channel["query"].written) = Usage
  \/ k = 2 /\ Len(Readable("query")) = Usage
  \/ k = 3 /\ Len(Readable("prediction")) = Usage
  \/ k = 3 /\ step = "ClockUnbuffer" /\ AllPredicted

(***************************************************************************)
(* The marks, in numbers.                                                  *)
(***************************************************************************)
LEMMA MarksInNumbers ==
  ASSUME FetcherInductive, IsPrompt
  PROVE  \E q \in 0 .. Usage, p \in 0 .. Usage :
           /\ Marked(q, q, p)
           /\ q = p + Len(Readable("prediction")) + Len(Readable("query"))
                    + Len(channel["query"].written)
           /\ step # "ClockUnbuffer" => p = 0
           /\ step = "ClockSendBuffered" => Len(channel["query"].written) = 0
           /\ step \notin {"ClockSendBuffered", "ClockCheckPredictor"} =>
                Readable("prediction") = <<>> /\ Len(Readable("prediction")) = 0
<1>1. PICK m \in 0 .. Usage, q \in 0 .. Usage, p \in 0 .. Usage : Marked(m, q, p) /\ Pipelined(q, p)
  BY DEF FetcherInductive, MarkedAndPipelined
<1>2. m = q /\ (step # "ClockUnbuffer" => p = 0)
  BY <1>1 DEF Marked, hasPredictor, IsPrompt
<1>3. PICK a, c, d : /\ a = Len(Readable("prediction"))
                     /\ c = Len(Readable("query")) /\ d = Len(channel["query"].written)
  OBVIOUS
<1>4. a \in Nat /\ c \in Nat /\ d \in Nat /\ Usage \in Nat
  BY <1>3, Typed DEF FetcherInductive
<1>5. Len(asked) = 0
  BY DEF IsPrompt
<1>6. Responded(p) = p + a /\ Read(p) = (p + a) + 0 /\ Arrived(p) = ((p + a) + 0) + c
  BY <1>3, <1>5 DEF Responded, Read, Arrived
<1>7. q = (((p + a) + 0) + c) + d
  BY <1>1, <1>3, <1>6 DEF Pipelined
<1>8. q = p + a + c + d
  BY <1>1, <1>4, <1>7
<1>9. /\ step = "ClockSendBuffered" => Len(channel["query"].written) = 0
      /\ step \notin {"ClockSendBuffered", "ClockCheckPredictor"} =>
           Readable("prediction") = <<>> /\ Len(Readable("prediction")) = 0
  BY <1>1 DEF Pipelined
<1> QED BY <1>1, <1>2, <1>3, <1>8, <1>9

LEMMA BatchIsSent ==
  ASSUME FetcherInductive, IsPrompt, Usage <= fetchSize, ClockSendBuffered,
         NEW k \in 1 .. 4, AreOfAge(k)
  PROVE  AreOfAge(k)' /\ Usage' = Usage /\ \A i \in 1 .. Usage : fetchBuffer'[i].inst = fetchBuffer[i].inst
<1>0. FetcherTypeOK /\ Usage \in Nat /\ fetchSize \in Nat /\ hasPredictor
  BY Typed, FetcherAssumption DEF FetcherInductive, IsPrompt, hasPredictor
<1>1. /\ fetchBuffer' = [i \in 1 .. Usage |->
          [inst  |-> fetchBuffer[i].inst,
           flags |-> fetchBuffer[i].flags \cup {f \in SendFlags : i \in ToSend(f)}]]
      /\ step = "ClockSendBuffered" /\ step' = "ClockCheckPredictor"
      /\ channel' = Writes("query", Messages("SentToPredictor"))
  BY <1>0 DEF ClockSendBuffered
<1>2. Usage' = Usage /\ \A i \in 1 .. Usage : fetchBuffer'[i].inst = fetchBuffer[i].inst
  <2>1. Len(fetchBuffer') = Usage
    BY <1>0, <1>1
  <2> QED BY <1>1, <2>1 DEF Usage
<1>3. /\ channel'["query"].written = Messages("SentToPredictor")
      /\ Readable("query")' = Readable("query") /\ Readable("prediction")' = Readable("prediction")
  BY <1>0, <1>1, TypedChannels, WritesOne DEF Channels, Readable
<1>4. PICK q \in 0 .. Usage, p \in 0 .. Usage :
        Marked(q, q, p) /\ Len(channel["query"].written) = 0
  BY <1>1, MarksInNumbers
<1>5. ASSUME Usage # 0, Unsent PROVE Len(channel'["query"].written) = Usage
  <2>1. \A i \in 1 .. Usage : "SentToPredictor" \in fetchBuffer[i].flags <=> i <= 0
    BY <1>0, <1>5 DEF Unsent
  <2>2. Messages("SentToPredictor") = [i \in 1 .. SentUpTo(0) - 0 |-> fetchBuffer[0 + i].inst]
    BY <1>0, <2>1, 0 \in 0 .. Usage, SendsTheNext
  <2>3. SentUpTo(0) - 0 = Usage
    BY <1>0 DEF SentUpTo
  <2>4. Len(Messages("SentToPredictor")) = Usage
    BY <1>0, <2>2, <2>3
  <2> QED BY <1>3, <2>4
<1> QED BY <1>1, <1>2, <1>3, <1>4, <1>5 DEF AreOfAge

LEMMA BatchIsChecked ==
  ASSUME FetcherInductive, IsPrompt, ClockCheckPredictor, NEW k \in 1 .. 4, AreOfAge(k)
  PROVE  AreOfAge(k)' /\ Usage' = Usage /\ \A i \in 1 .. Usage : fetchBuffer'[i].inst = fetchBuffer[i].inst
<1>0. FetcherTypeOK /\ Usage \in Nat /\ hasPredictor
  BY Typed DEF FetcherInductive, IsPrompt, hasPredictor
<1>1. /\ fetchBuffer' = MarkPredicted(Len(Readable("prediction")))
      /\ step = "ClockCheckPredictor" /\ step' = "ClockUnbuffer" /\ channel' = Clears("prediction")
  BY <1>0 DEF ClockCheckPredictor
<1>2. Usage' = Usage /\ \A i \in 1 .. Usage : fetchBuffer'[i].inst = fetchBuffer[i].inst
  <2>1. Len(fetchBuffer') = Usage
    BY <1>0, <1>1 DEF MarkPredicted
  <2> QED BY <1>1, <2>1 DEF Usage, MarkPredicted
<1>3. channel'["query"].written = channel["query"].written /\ Readable("query")' = Readable("query")
  BY <1>0, <1>1, TypedChannels, ClearsOne DEF Channels, Readable
<1>4. ASSUME Len(Readable("prediction")) = Usage PROVE AllPredicted'
  <2>1. \A i \in 1 .. Usage : "Predicted" \in fetchBuffer'[i].flags
    BY <1>1, <1>4 DEF MarkPredicted
  <2> QED BY <1>2, <2>1 DEF AllPredicted
<1> QED BY <1>1, <1>2, <1>3, <1>4 DEF AreOfAge

(***************************************************************************)
(* The entries leave all at once, or none does.                            *)
(***************************************************************************)
LEMMA BatchLeaves ==
  ASSUME FetcherInductive, IsPrompt, ClockUnbuffer, NEW k \in 1 .. 4, AreOfAge(k)
  PROVE  AreOfAge(k)' /\ (Usage' = 0 \/ fetchBuffer' = fetchBuffer)
<1>0. FetcherTypeOK /\ Usage \in Nat /\ hasPredictor
  BY Typed DEF FetcherInductive, IsPrompt, hasPredictor
<1>1. /\ fetchBuffer' = SubSeq(fetchBuffer, Leading(flagsToCheck) + 1, Usage)
      /\ step = "ClockUnbuffer" /\ step' = "Penalty" /\ channel' = channel
  BY DEF ClockUnbuffer
<1>2. PICK q \in 0 .. Usage, p \in 0 .. Usage :
        /\ Marked(q, q, p)
        /\ q = p + Len(Readable("prediction")) + Len(Readable("query")) + Len(channel["query"].written)
        /\ Len(Readable("prediction")) = 0
  BY <1>1, MarksInNumbers
<1>3. Leading(flagsToCheck) = p
  BY <1>0, <1>2, LeavingEntries
<1>4. fetchBuffer \in Seq(Entry)
  BY <1>0 DEF FetcherTypeOK
<1>5. ASSUME p = Usage PROVE Usage' = 0
  <2>1. fetchBuffer' = SubSeq(fetchBuffer, Usage + 1, Usage)
    BY <1>1, <1>3, <1>5
  <2>2. Len(SubSeq(fetchBuffer, Usage + 1, Usage)) = 0
    BY <1>0, <1>4
  <2> QED BY <2>1, <2>2 DEF Usage
<1>6. ASSUME p = 0 PROVE fetchBuffer' = fetchBuffer
  <2>1. fetchBuffer' = SubSeq(fetchBuffer, 1, Len(fetchBuffer))
    BY <1>1, <1>3, <1>6 DEF Usage
  <2> QED BY <1>4, <2>1
<1>7. PICK c, d : c = Len(Readable("query")) /\ d = Len(channel["query"].written)
  OBVIOUS
<1>8. c \in Nat /\ d \in Nat /\ q = p + 0 + c + d /\ q \in 0 .. Usage /\ p \in 0 .. Usage
  BY <1>0, <1>2, <1>7, Typed
<1>9. CASE Usage = 0
  BY <1>2, <1>5, <1>9 DEF AreOfAge
<1>10. CASE Usage # 0 /\ k = 1
  <2>1. d = Usage
    BY <1>1, <1>7, <1>10 DEF AreOfAge
  <2>2. p = 0
    BY <1>0, <1>8, <2>1
  <2> QED BY <1>1, <1>6, <1>7, <1>10, <2>1, <2>2 DEF AreOfAge, Usage
<1>11. CASE Usage # 0 /\ k = 2
  <2>1. c = Usage
    BY <1>1, <1>7, <1>11 DEF AreOfAge
  <2>2. p = 0
    BY <1>0, <1>8, <2>1
  <2> QED BY <1>1, <1>6, <1>7, <1>11, <2>1, <2>2 DEF AreOfAge, Usage, Readable
<1>12. CASE Usage # 0 /\ k = 3
  <2>1. AllPredicted
    BY <1>1, <1>2, <1>12 DEF AreOfAge
  <2>2. Usage \in 1 .. Usage
    BY <1>0, <1>12
  <2>3. Usage <= p
    BY <1>0, <1>2, <2>1, <2>2, WhatIsMarked DEF AllPredicted
  <2> QED BY <1>0, <1>2, <1>5, <2>3 DEF AreOfAge
<1> QED BY <1>1, <1>9, <1>10, <1>11, <1>12 DEF AreOfAge

LEMMA BatchWaits ==
  ASSUME FetcherInductive, IsPrompt, step \in {"Penalty", "ClockRequestFetch"},
         step' \in {"ClockFetch", "Elsewhere"}, step = "Penalty" \/ step' = "Elsewhere",
         fetchBuffer' = fetchBuffer, channel'["query"] = channel["query"],
         NEW k \in 0 .. 4, AreOfAge(k)
  PROVE  AreOfAge(k)' /\ (k \in {3, 4} => Usage = 0)
<1>1. Len(Readable("prediction")) = 0 /\ Usage' = Usage /\ Readable("query")' = Readable("query")
  BY MarksInNumbers DEF Usage, Readable
<1> QED BY <1>1 DEF AreOfAge, Unsent

LEMMA BatchArrives ==
  ASSUME FetcherInductive, ClockFetch, NEW k \in 0 .. 3, AreOfAge(k)
  PROVE  /\ Arriving = <<>> => fetchBuffer' = fetchBuffer /\ AreOfAge(k)'
         /\ Usage = 0 => /\ AreOfAge(0)' /\ Usage' = Len(Arriving)
                         /\ \A i \in 1 .. Len(Arriving) : fetchBuffer'[i].inst = Arriving[i]
<1>0. FetcherTypeOK /\ Usage \in Nat /\ Len(Arriving) \in Nat /\ AreChannels(channel)
  BY Typed DEF FetcherInductive, FetcherTypeOK, Arriving
<1>1. /\ fetchBuffer' = fetchBuffer \o [i \in 1 .. Len(Arriving) |-> NewEntry(Arriving[i])]
      /\ step = "ClockFetch" /\ step' \in {"ClockRequestFetch", "Elsewhere"}
  BY DEF ClockFetch, Arriving
<1>2. fetchBuffer \in Seq(Entry)
  BY <1>0 DEF FetcherTypeOK
<1>3. \A x \in Channels \ {"response"} : channel'[x] = channel[x]
  BY <1>0, FetchTakes
<1>4. channel'["query"] = channel["query"] /\ channel'["prediction"] = channel["prediction"]
  BY <1>3 DEF Channels
<1>5. ASSUME Arriving = <<>> PROVE fetchBuffer' = fetchBuffer /\ AreOfAge(k)'
  <2>1. [i \in 1 .. Len(Arriving) |-> NewEntry(Arriving[i])] = <<>>
    <3>1. Len(Arriving) = 0
      BY <1>5
    <3> QED BY <3>1
  <2>2. fetchBuffer' = fetchBuffer
    BY <1>1, <1>2, <2>1
  <2> QED BY <1>1, <1>4, <2>2 DEF AreOfAge, Usage, Readable, Unsent
<1>6. ASSUME Usage = 0
      PROVE  /\ AreOfAge(0)' /\ Usage' = Len(Arriving)
             /\ \A i \in 1 .. Len(Arriving) : fetchBuffer'[i].inst = Arriving[i]
  <2> DEFINE new == [i \in 1 .. Len(Arriving) |-> NewEntry(Arriving[i])]
  <2>1. new \in Seq(Entry) /\ Len(new) = Len(Arriving)
    <3>1. \A i \in 1 .. Len(Arriving) : Arriving[i] \in Program
      BY <1>0, ElementOfSeq DEF Arriving, FetcherTypeOK
    <3>2. \A i \in 1 .. Len(Arriving) : NewEntry(Arriving[i]) \in Entry
      BY <3>1 DEF NewEntry, Entry
    <3>3. new \in [1 .. Len(Arriving) -> Entry]
      BY <3>2
    <3> HIDE DEF new
    <3> QED BY <1>0, <3>3, FunctionIsSeq
  <2>2. \A i \in 1 .. Len(Arriving) : new[i].inst = Arriving[i] /\ new[i].flags = {}
    BY DEF NewEntry
  <2>3. fetchBuffer' = fetchBuffer \o new
    BY <1>1
  <2> HIDE DEF new
  <2>4. fetchBuffer = <<>>
    BY <1>2, <1>6, EmptySeq DEF Usage
  <2>5. fetchBuffer' = new
    BY <2>1, <2>3, <2>4
  <2> QED BY <1>1, <2>1, <2>2, <2>5 DEF AreOfAge, Usage, Unsent
<1> QED BY <1>5, <1>6

LEMMA BatchAges ==
  ASSUME FetcherInductive, IsPrompt, Elsewhere, NEW k \in 0 .. 3, AreOfAge(k)
  PROVE  AreOfAge(k + 1)' /\ IsPrompt' /\ fetchBuffer' = fetchBuffer
<1>0. FetcherTypeOK /\ Usage \in Nat /\ Len(Readable("query")) \in Nat
  BY Typed DEF FetcherInductive
<1>1. /\ step = "Elsewhere" /\ step' = "ClockSendBuffered" /\ fetchBuffer' = fetchBuffer
      /\ predictor' = predictor /\ Usage' = Usage
  BY DEF Elsewhere, configVars, Usage
<1>2. /\ Readable("query")' = channel["query"].written
      /\ \E n \in NumbersAnswered : /\ asked' = SubSeq(Queries, n + 1, Len(Queries))
                                    /\ Readable("prediction")' \in Answers(n)
  BY MessagesMoveOn
<1>3. PICK n \in NumbersAnswered : /\ asked' = SubSeq(Queries, n + 1, Len(Queries))
                                   /\ Readable("prediction")' \in Answers(n)
  BY <1>2
<1>4. Queries = Readable("query")
  BY <1>0 DEF Queries, IsPrompt, FetcherTypeOK
<1>5. n = Len(Readable("query"))
  BY <1>3, <1>4 DEF NumbersAnswered, IsPrompt
<1>6. asked' = <<>>
  <2>1. asked' = SubSeq(Readable("query"), Len(Readable("query")) + 1, Len(Readable("query")))
    BY <1>3, <1>4, <1>5
  <2> QED BY <1>0, <2>1 DEF FetcherTypeOK
<1>7. Len(Readable("prediction")') = Len(Readable("query"))
  <2>1. PICK right \in [1 .. n -> BOOLEAN] :
          Readable("prediction")' = [i \in 1 .. n |-> [inst |-> Queries[i], right |-> right[i]]]
    BY <1>3 DEF Answers
  <2> QED BY <1>0, <1>5, <2>1
<1>8. Len(Readable("prediction")) = 0
  BY <1>1, MarksInNumbers
<1>9. AreOfAge(k + 1)'
  BY <1>1, <1>2, <1>7, <1>8 DEF AreOfAge, Unsent
<1> QED BY <1>1, <1>6, <1>9 DEF IsPrompt
-----------------------------------------------------------------------------
(***************************************************************************)
(* The requests, and what they bring.                                      *)
(***************************************************************************)
IsRequest(c) ==
  c = <<>> \/ \E r \in Int : r <= fetchSize /\ (fetchSize = 1 => r # 0) /\ c = <<r>>

Sized ==
  /\ AreSized
  /\ IsRequest(Asking) /\ IsRequest(Requested)
  /\ Len(Arriving) < fetchSize
  /\ fetchSize = 1 => Usage = 0

Buffered == [i \in 1 .. Usage |-> fetchBuffer[i].inst]

LEMMA BufferedIsSeq ==
  ASSUME FetcherTypeOK
  PROVE  Buffered \in Seq(Program) /\ Len(Buffered) = Usage
<1>1. Usage \in Nat /\ \A i \in 1 .. Usage : fetchBuffer[i].inst \in Program
  BY Typed
<1>2. Buffered \in [1 .. Usage -> Program]
  BY <1>1 DEF Buffered
<1> QED BY <1>1, <1>2, FunctionIsSeq

LEMMA FreeBytesAre ==
  ASSUME FetcherTypeOK, AreSized
  PROVE  /\ ByteUsage = TotalSize(Buffered) /\ ByteUsage \in Nat
         /\ FreeBytes \in Int /\ FreeBytes <= fetchSize
         /\ Usage = 0 => FreeBytes = fetchSize
<1>1. ByteUsage = TotalSize(Buffered)
  BY DEF ByteUsage, Buffered
<1>2. ByteUsage \in Nat /\ (Usage = 0 => ByteUsage = 0)
  BY <1>1, BufferedIsSeq, SizeIsNatural
<1>3. fetchSize \in Nat
  BY FetcherAssumption
<1> QED BY <1>1, <1>2, <1>3 DEF FreeBytes

LEMMA EverythingServedFits ==
  ASSUME FetcherTypeOK, Sized
  PROVE  /\ NumberServed \in 0 .. Remaining /\ NumberServed < fetchSize
         /\ Responses = Ahead(NumberServed) /\ Len(Responses) = NumberServed
         /\ Len(Responses) < fetchSize
<1>1. next \in 1 .. Instructions + 1 /\ Remaining \in Nat /\ fetchSize \in Nat
  BY FetcherAssumption DEF FetcherTypeOK, Remaining
<1>2. NumberServed \in 0 .. Remaining /\ NumberServed < fetchSize
  <2>1. CASE Requested = <<>>
    BY <1>1, <2>1, FetcherAssumption DEF NumberServed, Requested
  <2>2. CASE Requested # <<>>
    <3>1. PICK r \in Int : r <= fetchSize /\ (fetchSize = 1 => r # 0) /\ Requested = <<r>>
      BY <2>2 DEF Sized, IsRequest
    <3>2. NumberServed = Served(r)
      BY <2>2, <3>1 DEF NumberServed, Requested
    <3> QED BY <1>1, <3>1, <3>2, FewAreServed DEF Sized
  <2> QED BY <2>1, <2>2
<1>3. PICK n : n = NumberServed
  OBVIOUS
<1>4. Min({n, fetchSize}) = n
  BY <1>1, <1>2, <1>3, SmallerOfTwo
<1>5. Responses = Ahead(n)
  BY <1>3, <1>4 DEF Responses, Ahead
<1>6. Len(Ahead(n)) = n
  BY <1>1, <1>2, <1>3, AheadIsSeq
<1> QED BY <1>2, <1>3, <1>5, <1>6

LEMMA SizedStarts ==
  ASSUME Init
  PROVE  Sized /\ Timing /\ Countdown
<1>1. Asking = <<>> /\ Requested = <<>> /\ Arriving = <<>>
  BY DEF Init, Asking, Requested, Arriving, Readable, Channels
<1>2. Sized
  BY <1>1, FetcherAssumption DEF Init, Sized, AreSized, IsRequest, Usage
<1>3. /\ step = "ClockSendBuffered" /\ currentPenalty = 0 /\ fetchClock = 0
  BY DEF Init
<1> QED BY <1>1, <1>2, <1>3 DEF Timing, Countdown, Early, MayAsk, MayBeServed

(***************************************************************************)
(* The steps of Clock that leave the messages of the engine alone.         *)
(***************************************************************************)
LEMMA EngineIsNotCalled ==
  ASSUME FetcherTypeOK, ClockSendBuffered \/ ClockCheckPredictor \/ ClockUnbuffer
  PROVE  /\ Early /\ Early'
         /\ Asking' = Asking /\ Requested' = Requested /\ Arriving' = Arriving
         /\ UNCHANGED <<fetchClock, currentPenalty, next, asked, fetchInterval,
                        misspredictPenalty, predictor, instSize>>
<1>1. "request" \in Channels /\ "response" \in Channels /\ "query" \in Channels
      /\ "prediction" \in Channels
  BY DEF Channels
<1>2. CASE ClockSendBuffered
  <2>1. channel' = channel \/ channel' = Writes("query", Messages("SentToPredictor"))
    BY <1>2 DEF ClockSendBuffered
  <2>2. channel'["request"] = channel["request"] /\ channel'["response"] = channel["response"]
    BY <1>1, <2>1, TypedChannels, WritesOne
  <2> QED BY <1>2, <2>2 DEF ClockSendBuffered, Early, Asking, Requested, Arriving, Readable,
                            clockVars, envVars, configVars
<1>3. CASE ClockCheckPredictor
  <2>1. channel' = channel \/ channel' = Clears("prediction")
    BY <1>3 DEF ClockCheckPredictor
  <2>2. channel'["request"] = channel["request"] /\ channel'["response"] = channel["response"]
    BY <1>1, <2>1, TypedChannels, ClearsOne
  <2> QED BY <1>3, <2>2 DEF ClockCheckPredictor, Early, Asking, Requested, Arriving, Readable,
                            envVars, configVars
<1>4. CASE ClockUnbuffer
  BY <1>4 DEF ClockUnbuffer, Early, Asking, Requested, Arriving, Readable, clockVars, envVars,
              configVars
<1> QED BY <1>2, <1>3, <1>4

LEMMA UsageDoesNotGrow ==
  ASSUME FetcherTypeOK, ClockSendBuffered \/ ClockCheckPredictor \/ ClockUnbuffer, Usage = 0
  PROVE  Usage' = 0
<1>1. fetchBuffer = <<>>
  BY EmptySeq DEF FetcherTypeOK, Usage
<1>2. CASE ClockSendBuffered
  BY <1>2 DEF ClockSendBuffered, Usage
<1>3. CASE ClockCheckPredictor
  BY <1>3 DEF ClockCheckPredictor, MarkPredicted, Usage
<1>4. CASE ClockUnbuffer
  <2>1. Leading(flagsToCheck) = 0
    BY LeadingIs, 0 \in 0 .. Usage
  <2>2. fetchBuffer' = SubSeq(<<>>, 1, 0)
    BY <1>1, <1>4, <2>1 DEF ClockUnbuffer
  <2> QED BY <2>2 DEF Usage
<1> QED BY <1>2, <1>3, <1>4

PenaltyStep == PaysPenalty \/ StartsPenalty \/ PaysNoPenalty

LEMMA SizedStep ==
  ASSUME FetcherTypeOK, Sized, Timing, Countdown, [Next]_fetcherVars
  PROVE  Sized' /\ Timing' /\ Countdown'
<1>0. PacedTypeOK
  BY DEF FetcherTypeOK, PacedTypeOK
<1>1. CASE ClockSendBuffered \/ ClockCheckPredictor \/ ClockUnbuffer
  <2>1. Timing' /\ Countdown'
    BY <1>1, EngineIsNotCalled, PaceKeepsEarly
  <2>2. fetchSize = 1 => Usage' = 0
    BY <1>1, UsageDoesNotGrow DEF Sized
  <2>3. Sized'
    BY <1>1, <2>2, EngineIsNotCalled DEF Sized, AreSized, IsRequest
  <2> QED BY <2>1, <2>3
<1>2. CASE PenaltyStep
  <2>1. UNCHANGED <<channel, instSize, fetchBuffer>>
    BY <1>2 DEF PenaltyStep, PaysPenalty, StartsPenalty, PaysNoPenalty, envVars, configVars
  <2>2. Sized'
    BY <2>1 DEF Sized, AreSized, IsRequest, Asking, Requested, Arriving, Readable, Usage
  <2> QED BY <1>0, <1>2, <2>2, PaceOfPenalty DEF PenaltyStep
<1>3. CASE ClockFetch
  <2>1. instSize' = instSize
    BY <1>3 DEF ClockFetch, envVars, configVars
  <2>2. Asking' = Asking /\ Requested' = Requested /\ Arriving' = <<>>
    BY <1>0, <1>3, FetchTakes DEF PacedTypeOK
  <2>3. Len(<<>>) < fetchSize
    BY FetcherAssumption
  <2>4. ASSUME fetchSize = 1 PROVE Usage' = 0
    <3>1. Len(Arriving) = 0 /\ Usage = 0
      BY <2>4, Typed DEF Sized, Arriving
    <3>2. Arriving = <<>> /\ fetchBuffer = <<>>
      BY <3>1, EmptySeq DEF FetcherTypeOK, Usage, Arriving
    <3>3. fetchBuffer' = <<>> \o [i \in 1 .. 0 |-> NewEntry(Arriving[i])]
      BY <1>3, <3>1, <3>2 DEF ClockFetch, Arriving
    <3> QED BY <3>3 DEF Usage
  <2>5. Sized'
    BY <2>1, <2>2, <2>3, <2>4 DEF Sized, AreSized, IsRequest
  <2> QED BY <1>0, <1>3, <2>5, PaceOfFetch
<1>4. CASE ClockRequestFetch
  <2>1. instSize' = instSize
    BY <1>4 DEF ClockRequestFetch, envVars, configVars
  <2>2. Asking' = <<FreeBytes>> /\ Requested' = Requested /\ Arriving' = Arriving
    BY <1>0, <1>4, RequestIsWritten DEF PacedTypeOK
  <2>3. FreeBytes \in Int /\ FreeBytes <= fetchSize /\ (fetchSize = 1 => FreeBytes # 0)
    BY FreeBytesAre DEF Sized
  <2>4. IsRequest(Asking')
    BY <2>2, <2>3 DEF IsRequest
  <2>5. Usage' = Usage
    BY <1>4 DEF ClockRequestFetch, Usage
  <2>6. Sized'
    BY <2>1, <2>2, <2>4, <2>5 DEF Sized, AreSized, IsRequest
  <2> QED BY <1>0, <1>4, <2>6, PaceOfRequest
<1>5. CASE Elsewhere
  <2>1. instSize' = instSize
    BY <1>5 DEF Elsewhere, configVars
  <2>2. Asking' = <<>> /\ Requested' = Asking /\ Arriving' = Responses
    BY <1>5, MessagesMoveOn
  <2>3. Len(Responses) < fetchSize /\ Usage' = Usage
    BY <1>5, EverythingServedFits DEF Elsewhere, Usage
  <2>4. Sized'
    BY <2>1, <2>2, <2>3 DEF Sized, AreSized, IsRequest
  <2> QED BY <1>0, <1>5, <2>4, PaceOfOthers
<1>6. CASE UNCHANGED fetcherVars
  <2>1. /\ UNCHANGED <<step, fetchClock, currentPenalty, channel, instSize,
                       fetchInterval, misspredictPenalty>>
    BY <1>6 DEF fetcherVars, clockVars, envVars, configVars
  <2>2. Asking' = Asking /\ Requested' = Requested /\ Arriving' = Arriving /\ Usage' = Usage
    BY <1>6, <2>1 DEF Asking, Requested, Arriving, Readable, fetcherVars, Usage
  <2>3. Timing' /\ Countdown'
    BY <2>1, <2>2 DEF Timing, Countdown, Early, MayAsk, MayBeServed
  <2>4. Sized'
    BY <2>1, <2>2 DEF Sized, AreSized, IsRequest
  <2> QED BY <2>3, <2>4
<1> QED BY <1>1, <1>2, <1>3, <1>4, <1>5, <1>6 DEF Next, Clock, PenaltyStep
-----------------------------------------------------------------------------
(***************************************************************************)
(* With a penalty of 2, or of more than 3, the predictor has not responded *)
(* when the penalty is over, so that there is always a next one: the age   *)
(* of what the buffer holds follows from the cycle of the penalty.         *)
(***************************************************************************)
IsShort == misspredictPenalty = 2
IsLong  == misspredictPenalty >= 4

AgeAtStart ==
  IF IsShort
    THEN IF currentPenalty = 1 THEN 1 ELSE IF currentPenalty = 0 THEN 2 ELSE 3
    ELSE IF currentPenalty = 0 THEN 1
         ELSE IF currentPenalty = misspredictPenalty THEN 2
         ELSE IF currentPenalty = misspredictPenalty - 1 THEN 3 ELSE 4

AgeNow == IF Early THEN AgeAtStart ELSE AgeAtStart - 1

Ages == IF Early THEN 1 .. 4 ELSE 0 .. 3

HasPlace == Usage < fetchSize

Regular ==
  /\ HasPlace
  /\ \E k \in Ages : AreOfAge(k) /\ (IsShort \/ IsLong => k = AgeNow)
  /\ IsShort \/ IsLong =>
       /\ Judged /\ currentPenalty = 0 => predictionResult # 0
       /\ step = "ClockFetch" /\ Arriving # <<>> => AgeNow = 0

LEMMA RegularInClock ==
  ASSUME FetcherInductive, IsPrompt, Regular,
         ClockSendBuffered \/ ClockCheckPredictor \/ ClockUnbuffer
  PROVE  Regular' /\ IsPrompt' /\ (Usage' = 0 \/ Buffered' = Buffered)
<1>0. FetcherTypeOK /\ Usage \in Nat
  BY Typed DEF FetcherInductive
<1>1. /\ Early /\ Early' /\ Arriving' = Arriving
      /\ UNCHANGED <<currentPenalty, asked, misspredictPenalty, predictor>>
  BY <1>0, EngineIsNotCalled
<1>2. IsPrompt'
  BY <1>1 DEF IsPrompt
<1>3. PICK k \in 1 .. 4 : AreOfAge(k) /\ (IsShort \/ IsLong => k = AgeNow)
  BY <1>1 DEF Regular, Ages
<1>4. AgeNow' = AgeNow /\ (IsShort' <=> IsShort) /\ (IsLong' <=> IsLong) /\ Ages' = 1 .. 4
  BY <1>1 DEF AgeNow, AgeAtStart, IsShort, IsLong, Ages
<1>5. step' # "ClockFetch"
  BY <1>1 DEF Early
<1>6. SUFFICES /\ AreOfAge(k)' /\ Usage' \in 0 .. Usage /\ (Usage' = 0 \/ Buffered' = Buffered)
               /\ IsShort \/ IsLong => (Judged' /\ currentPenalty = 0 => predictionResult' # 0)
  <2>1. Usage' < fetchSize
    BY <1>0, <1>6, FetcherAssumption DEF Regular, HasPlace
  <2>2. HasPlace'
    BY <2>1 DEF HasPlace
  <2>3. \E j \in Ages' : AreOfAge(j)' /\ (IsShort' \/ IsLong' => j = AgeNow')
    BY <1>3, <1>4, <1>6
  <2> QED BY <1>1, <1>2, <1>4, <1>5, <1>6, <2>2, <2>3 DEF Regular
<1>7. CASE ClockSendBuffered
  <2>1. Usage <= fetchSize
    BY <1>0, FetcherAssumption DEF Regular, HasPlace
  <2>2. /\ AreOfAge(k)' /\ Usage' = Usage
        /\ \A i \in 1 .. Usage : fetchBuffer'[i].inst = fetchBuffer[i].inst
    BY <1>3, <1>7, <2>1, BatchIsSent
  <2>3. ~Judged'
    BY <1>7 DEF Judged, ClockSendBuffered
  <2> QED BY <1>0, <2>2, <2>3 DEF Buffered
<1>8. CASE ClockCheckPredictor
  <2>1. /\ AreOfAge(k)' /\ Usage' = Usage
        /\ \A i \in 1 .. Usage : fetchBuffer'[i].inst = fetchBuffer[i].inst
    BY <1>3, <1>8, BatchIsChecked
  <2>2. ASSUME IsShort \/ IsLong, currentPenalty = 0 PROVE predictionResult' # 0
    <3>1. k \in {1, 2}
      BY <1>1, <1>3, <2>2 DEF AgeNow, AgeAtStart, IsShort, IsLong
    <3>2. PICK q \in 0 .. Usage, p \in 0 .. Usage :
            q = p + Len(Readable("prediction")) + Len(Readable("query"))
                  + Len(channel["query"].written)
      BY MarksInNumbers
    <3>3. PICK a, c, d : /\ a = Len(Readable("prediction")) /\ c = Len(Readable("query"))
                         /\ d = Len(channel["query"].written)
      OBVIOUS
    <3>4. a \in Nat /\ c \in Nat /\ d \in Nat /\ p + a + c + d <= Usage /\ p \in Nat
      <4>1. a \in Nat /\ c \in Nat /\ d \in Nat
        BY <1>0, <3>3, Typed
      <4>2. q = p + a + c + d
        BY <3>2, <3>3
      <4>3. q \in 0 .. Usage /\ p \in 0 .. Usage
        OBVIOUS
      <4> QED BY <1>0, <4>1, <4>2, <4>3
    <3>5. Usage = 0 \/ c = Usage \/ d = Usage
      BY <1>8, <3>1, <3>3, <1>3 DEF AreOfAge, ClockCheckPredictor
    <3>6. a = 0
      BY <1>0, <3>4, <3>5
    <3>7. Readable("prediction") = <<>>
      BY <1>0, <3>3, <3>6, EmptySeq DEF FetcherTypeOK
    <3> QED BY <1>8, <3>7 DEF ClockCheckPredictor, PredictionFails, IsPrompt, hasPredictor
  <2> QED BY <1>0, <2>1, <2>2 DEF Buffered
<1>9. CASE ClockUnbuffer
  <2>1. AreOfAge(k)' /\ (Usage' = 0 \/ fetchBuffer' = fetchBuffer)
    BY <1>3, <1>9, BatchLeaves
  <2>2. predictionResult' = predictionResult /\ Judged
    BY <1>9 DEF ClockUnbuffer, clockVars, Judged
  <2>3. Usage' \in 0 .. Usage /\ (Usage' = 0 \/ Buffered' = Buffered)
    BY <1>0, <2>1 DEF Usage, Buffered
  <2> QED BY <2>1, <2>2, <2>3 DEF Regular
<1> QED BY <1>7, <1>8, <1>9

LEMMA RegularInPenalty ==
  ASSUME FetcherInductive, IsPrompt, Regular, Timing, PenaltyStep
  PROVE  Regular' /\ IsPrompt'
<1>0. FetcherTypeOK /\ Usage \in Nat
  BY Typed DEF FetcherInductive
<1>1. /\ step = "Penalty" /\ step' \in {"ClockFetch", "Elsewhere"}
      /\ UNCHANGED <<fetchBuffer, channel, asked, misspredictPenalty, predictor, predictionResult>>
  BY DEF PenaltyStep, PaysPenalty, StartsPenalty, PaysNoPenalty, clockVars, envVars, configVars
<1>2. Early /\ ~Early' /\ ~Judged' /\ Judged /\ Ages = 1 .. 4 /\ Ages' = 0 .. 3
  BY <1>1 DEF Early, Judged, Ages
<1>3. IsPrompt' /\ HasPlace' /\ Usage' = Usage /\ Arriving' = Arriving
  BY <1>1 DEF IsPrompt, Regular, HasPlace, Usage, Arriving, Readable
<1>4. PICK k \in 1 .. 4 : AreOfAge(k) /\ (IsShort \/ IsLong => k = AgeNow)
  BY <1>2 DEF Regular
<1>5. AreOfAge(k)' /\ (k \in {3, 4} => Usage = 0)
  BY <1>1, <1>4, BatchWaits
<1>6. \A j : Usage = 0 => AreOfAge(j)'
  BY <1>3 DEF AreOfAge
<1>7. currentPenalty \in Nat /\ misspredictPenalty \in Nat /\ currentPenalty <= misspredictPenalty
  BY <1>0 DEF FetcherTypeOK
<1>8. ASSUME IsShort \/ IsLong
      PROVE  /\ AgeNow' \in 0 .. 3 /\ (k = AgeNow' \/ Usage = 0)
             /\ step' = "ClockFetch" /\ Arriving # <<>> => AgeNow' = 0
  <2>1. k = AgeAtStart /\ AgeNow' = AgeAtStart' - 1
    BY <1>2, <1>4, <1>8 DEF AgeNow
  <2>2. currentPenalty = 0 => predictionResult # 0
    BY <1>2, <1>8 DEF Regular
  <2>3. Arriving # <<>> => currentPenalty \in {0, misspredictPenalty} \/ (currentPenalty = 1 /\ misspredictPenalty >= 3)
    BY <1>2 DEF Timing, MayBeServed
  <2>4. CASE PaysPenalty
    <3>1. /\ currentPenalty > 0 /\ currentPenalty' = currentPenalty - 1
          /\ step' = "ClockFetch" => currentPenalty' <= 2
      BY <1>7, <2>4 DEF PaysPenalty, Idles
    <3>2. CASE IsShort
      BY <1>1, <1>5, <1>7, <2>1, <2>3, <3>1, <3>2 DEF AgeAtStart, IsShort
    <3>3. CASE IsLong
      <4>1. ~IsShort /\ ~IsShort'
        BY <1>1, <3>3 DEF IsShort, IsLong
      <4>2. AgeAtStart = IF currentPenalty = misspredictPenalty THEN 2
                         ELSE IF currentPenalty = misspredictPenalty - 1 THEN 3 ELSE 4
        BY <3>1, <4>1 DEF AgeAtStart
      <4>3. AgeAtStart' = IF currentPenalty' = 0 THEN 1
                          ELSE IF currentPenalty' = misspredictPenalty THEN 2
                          ELSE IF currentPenalty' = misspredictPenalty - 1 THEN 3 ELSE 4
        BY <1>1, <4>1 DEF AgeAtStart
      <4>4. misspredictPenalty >= 4
        BY <3>3 DEF IsLong
      <4> QED BY <1>5, <1>7, <2>1, <2>3, <3>1, <4>2, <4>3, <4>4
    <3> QED BY <1>8, <3>2, <3>3
  <2>5. CASE StartsPenalty
    <3>1. currentPenalty = 0 /\ currentPenalty' = misspredictPenalty /\ step' = "Elsewhere"
      BY <2>5 DEF StartsPenalty
    <3> QED BY <1>1, <1>7, <1>8, <2>1, <3>1 DEF AgeAtStart, IsShort, IsLong
  <2>6. CASE PaysNoPenalty
    BY <2>2, <2>6 DEF PaysNoPenalty
  <2> QED BY <2>4, <2>5, <2>6 DEF PenaltyStep
<1>9. (IsShort' <=> IsShort) /\ (IsLong' <=> IsLong)
  BY <1>1 DEF IsShort, IsLong
<1>10. \E j \in Ages' : AreOfAge(j)' /\ (IsShort' \/ IsLong' => j = AgeNow')
  <2>1. CASE IsShort \/ IsLong
    BY <1>2, <1>5, <1>6, <1>8, <1>9, <2>1
  <2>2. CASE ~(IsShort \/ IsLong)
    <3>1. k \in 0 .. 3 \/ Usage = 0
      BY <1>5
    <3> QED BY <1>2, <1>5, <1>6, <1>9, <2>2, <3>1, 0 \in 0 .. 3
  <2> QED BY <2>1, <2>2
<1> QED BY <1>2, <1>3, <1>8, <1>9, <1>10 DEF Regular

LEMMA RegularInFetch ==
  ASSUME FetcherInductive, IsPrompt, Regular, Sized, ClockFetch,
         IsShort \/ IsLong \/ Usage = 0 \/ Arriving = <<>>
  PROVE  /\ Regular' /\ IsPrompt'
         /\ Arriving = <<>> => fetchBuffer' = fetchBuffer
         /\ Arriving # <<>> => /\ Usage = 0 /\ Usage' = Len(Arriving)
                               /\ \A i \in 1 .. Len(Arriving) : fetchBuffer'[i].inst = Arriving[i]
<1>0. FetcherTypeOK /\ Usage \in Nat
  BY Typed DEF FetcherInductive
<1>1. /\ step = "ClockFetch" /\ step' \in {"ClockRequestFetch", "Elsewhere"}
      /\ UNCHANGED <<asked, misspredictPenalty, currentPenalty, predictor>>
  BY DEF ClockFetch, envVars, configVars
<1>2. ~Early /\ ~Early' /\ ~Judged' /\ Ages = 0 .. 3 /\ Ages' = 0 .. 3 /\ IsPrompt'
  BY <1>1 DEF Early, Judged, Ages, IsPrompt
<1>3. PICK k \in 0 .. 3 : AreOfAge(k) /\ (IsShort \/ IsLong => k = AgeNow)
  BY <1>2 DEF Regular
<1>4. AgeNow' = AgeNow /\ (IsShort' <=> IsShort) /\ (IsLong' <=> IsLong)
  BY <1>1, <1>2 DEF AgeNow, AgeAtStart, IsShort, IsLong
<1>5. /\ Arriving = <<>> => fetchBuffer' = fetchBuffer /\ AreOfAge(k)'
      /\ Usage = 0 => /\ AreOfAge(0)' /\ Usage' = Len(Arriving)
                      /\ \A i \in 1 .. Len(Arriving) : fetchBuffer'[i].inst = Arriving[i]
  BY <1>3, BatchArrives
<1>6. CASE Arriving = <<>>
  <2>1. HasPlace'
    BY <1>5, <1>6 DEF Regular, HasPlace, Usage
  <2> QED BY <1>1, <1>2, <1>3, <1>4, <1>5, <1>6, <2>1 DEF Regular
<1>7. CASE Arriving # <<>>
  <2>1. IsShort \/ IsLong => AgeNow = 0
    BY <1>1, <1>7 DEF Regular
  <2>2. Usage = 0
    <3>1. CASE IsShort \/ IsLong
      BY <1>1, <1>3, <2>1, <3>1 DEF AreOfAge
    <3> QED BY <1>7, <3>1
  <2>3. HasPlace'
    BY <1>5, <2>2 DEF HasPlace, Sized
  <2>4. 0 \in Ages'
    BY <1>2
  <2>5. \E j \in Ages' : AreOfAge(j)' /\ (IsShort' \/ IsLong' => j = AgeNow')
    BY <1>4, <1>5, <2>1, <2>2, <2>4
  <2> QED BY <1>1, <1>2, <1>5, <1>7, <2>2, <2>3, <2>5 DEF Regular
<1> QED BY <1>6, <1>7

LEMMA RegularInRequest ==
  ASSUME FetcherInductive, IsPrompt, Regular, ClockRequestFetch
  PROVE  Regular' /\ IsPrompt'
<1>0. FetcherTypeOK /\ AreChannels(channel)
  BY DEF FetcherInductive, FetcherTypeOK
<1>1. /\ step = "ClockRequestFetch" /\ step' = "Elsewhere"
      /\ UNCHANGED <<fetchBuffer, asked, misspredictPenalty, currentPenalty, predictor>>
  BY DEF ClockRequestFetch, envVars, configVars
<1>2. ~Early /\ ~Early' /\ ~Judged' /\ Ages = 0 .. 3 /\ Ages' = 0 .. 3 /\ IsPrompt'
  BY <1>1 DEF Early, Judged, Ages, IsPrompt
<1>3. PICK k \in 0 .. 3 : AreOfAge(k) /\ (IsShort \/ IsLong => k = AgeNow)
  BY <1>2 DEF Regular
<1>4. AgeNow' = AgeNow /\ (IsShort' <=> IsShort) /\ (IsLong' <=> IsLong)
  BY <1>1, <1>2 DEF AgeNow, AgeAtStart, IsShort, IsLong
<1>5. channel'["query"] = channel["query"]
  BY <1>0, RequestIsWritten DEF Channels
<1>6. AreOfAge(k)'
  BY <1>1, <1>3, <1>5, k \in 0 .. 4, BatchWaits
<1>7. HasPlace'
  BY <1>1 DEF Regular, HasPlace, Usage
<1> QED BY <1>1, <1>2, <1>3, <1>4, <1>6, <1>7 DEF Regular

LEMMA RegularElsewhere ==
  ASSUME FetcherInductive, IsPrompt, Regular, Elsewhere
  PROVE  Regular' /\ IsPrompt' /\ fetchBuffer' = fetchBuffer
<1>1. /\ step = "Elsewhere" /\ step' = "ClockSendBuffered"
      /\ UNCHANGED <<misspredictPenalty, currentPenalty>>
  BY DEF Elsewhere, clockVars, configVars
<1>2. ~Early /\ Early' /\ ~Judged' /\ Ages = 0 .. 3 /\ Ages' = 1 .. 4
  BY <1>1 DEF Early, Judged, Ages
<1>3. PICK k \in 0 .. 3 : AreOfAge(k) /\ (IsShort \/ IsLong => k = AgeNow)
  BY <1>2 DEF Regular
<1>4. AgeNow' = AgeNow + 1 /\ (IsShort' <=> IsShort) /\ (IsLong' <=> IsLong)
  <2>1. AgeNow' = AgeAtStart' /\ AgeNow = AgeAtStart - 1
    BY <1>2 DEF AgeNow
  <2>2. AgeAtStart' = AgeAtStart /\ AgeAtStart \in Nat
    BY <1>1 DEF AgeAtStart, IsShort
  <2> QED BY <1>1, <2>1, <2>2 DEF IsShort, IsLong
<1>5. AreOfAge(k + 1)' /\ IsPrompt' /\ fetchBuffer' = fetchBuffer
  BY <1>3, BatchAges
<1>6. k + 1 \in 1 .. 4
  BY <1>3
<1>7. HasPlace'
  BY <1>5 DEF Regular, HasPlace, Usage
<1> QED BY <1>1, <1>2, <1>3, <1>4, <1>5, <1>6, <1>7 DEF Regular
-----------------------------------------------------------------------------
(***************************************************************************)
(* With the parameters that are safe at most one request is served at a    *)
(* time: as long as what it brought is on its way or in the buffer,        *)
(* nothing fits beside it.                                                 *)
(***************************************************************************)
SizeWith(sizes, s) ==
  LET sum[n \in 0 .. Len(s)] == IF n = 0 THEN 0 ELSE sum[n - 1] + sizes[s[n]]
  IN  sum[Len(s)]

HeldInstructions == IF Usage > 0 THEN Buffered ELSE Arriving

Held == SizeWith(instSize, HeldInstructions)

IsLive(c) == c # <<>> /\ ~NoneFits(c[1])

OneAtATime ==
  /\ Usage > 0 \/ Arriving # <<>> =>
       NoneFits(fetchSize - Held) /\ ~IsLive(Asking) /\ ~IsLive(Requested)
  /\ Usage = 0 \/ Arriving = <<>>
  /\ Asking # <<>> => ~IsLive(Requested)
  /\ IsLive(Asking) => Asking = <<fetchSize>>
  /\ IsLive(Requested) => Requested = <<fetchSize>>
  /\ Judged /\ predictionResult = 0 => Arriving = <<>> /\ ~IsLive(Requested)
  /\ step = "ClockFetch" /\ fetchClock % fetchInterval = 0 => ~IsLive(Requested)
  /\ step = "ClockRequestFetch" => ~IsLive(Requested)

(***************************************************************************)
(* What a request brings arrives in a cycle in which the fetcher looks.    *)
(***************************************************************************)
IsReceived ==
  \/ currentPenalty = misspredictPenalty /\ misspredictPenalty \in {1, 3}
  \/ currentPenalty = 1 /\ misspredictPenalty >= 3

MayBeLive ==
  IF IsLong THEN currentPenalty = 2
  ELSE IF misspredictPenalty = 3 THEN currentPenalty \in {0, 2} ELSE currentPenalty = 0

InTime ==
  /\ step \in {"ClockRequestFetch", "Elsewhere"} => Arriving = <<>>
  /\ Early /\ Arriving # <<>> => IsReceived
  /\ Early /\ IsLive(Requested) => MayBeLive
  /\ ~Early /\ IsLive(Requested) => IsReceived
  /\ IsLive(Asking) => MayBeLive

(***************************************************************************)
(* The first request in a long penalty is for the whole buffer, so that    *)
(* the one in its last cycle finds it filled, or nothing that fits in it.  *)
(***************************************************************************)
AsksForAll ==
  IsLong =>
    /\ step = "Elsewhere" /\ currentPenalty = 2 => Asking = <<fetchSize>>
    /\ Early /\ currentPenalty = 2 => Requested = <<fetchSize>>
    /\ ~Early /\ currentPenalty = 1 => Requested = <<fetchSize>>
    /\ (Early /\ currentPenalty = 1) \/ (step = "ClockFetch" /\ currentPenalty = 0) =>
         Arriving # <<>> \/ NoneFits(fetchSize)
    /\ step \in {"ClockRequestFetch", "Elsewhere"} /\ currentPenalty = 0 =>
         Usage > 0 \/ NoneFits(fetchSize)

Safe == OneAtATime /\ InTime /\ AsksForAll

IsSafe == misspredictPenalty = 1 \/ (misspredictPenalty >= 3 /\ fetchInterval >= 2)

LEMMA SizesAre ==
  /\ \A s : TotalSize(s) = SizeWith(instSize, s)
  /\ ByteUsage = SizeWith(instSize, Buffered)
  /\ \A n : Weight(n) = SizeWith(instSize, Ahead(n))
<1>1. ASSUME NEW s PROVE TotalSize(s) = SizeWith(instSize, s)
  BY DEF TotalSize, SizeWith
<1>2. ByteUsage = TotalSize(Buffered) /\ \A n : Weight(n) = TotalSize(Ahead(n))
  BY DEF ByteUsage, Weight, Buffered, Ahead
<1> QED BY <1>1, <1>2

LEMMA LivenessIsKept ==
  ASSUME UNCHANGED <<next, instSize>>
  PROVE  \A c, r : (IsLive(c)' <=> IsLive(c)) /\ (NoneFits(r)' <=> NoneFits(r))
  BY DEF IsLive, NoneFits

LEMMA SafeInClock ==
  ASSUME FetcherInductive, IsPrompt, Regular, Safe,
         ClockSendBuffered \/ ClockCheckPredictor \/ ClockUnbuffer
  PROVE  Safe'
<1>0. FetcherTypeOK /\ Usage \in Nat /\ OneAtATime /\ InTime /\ AsksForAll
  BY Typed DEF FetcherInductive, Safe
<1>1. /\ Early /\ Early'
      /\ Asking' = Asking /\ Requested' = Requested /\ Arriving' = Arriving
      /\ UNCHANGED <<fetchClock, currentPenalty, next, fetchInterval, misspredictPenalty, instSize>>
  BY <1>0, EngineIsNotCalled
<1>2. Usage' = 0 \/ Buffered' = Buffered
  BY RegularInClock
<1>3. Usage' = 0 \/ Usage' = Usage
  <2>1. ASSUME Buffered' = Buffered PROVE Usage' = Usage
    <3>1. DOMAIN Buffered = 1 .. Usage /\ DOMAIN Buffered' = 1 .. Usage'
      BY DEF Buffered
    <3>2. Len(Buffered) = Usage
      BY <1>0, BufferedIsSeq
    <3>3. Usage' \in Nat
      <4>1. FetcherInductive'
        BY SendsBuffered, ChecksPredictor, Unbuffers
      <4>2. fetchBuffer' \in Seq(Entry)
        BY <4>1 DEF FetcherInductive, FetcherTypeOK
      <4> QED BY <4>2, LenProperties DEF Usage
    <3>4. 1 .. Usage = 1 .. Usage'
      BY <2>1, <3>1
    <3> QED BY <1>0, <3>3, <3>4
  <2> QED BY <1>2, <2>1
<1>4. step' \notin {"ClockFetch", "ClockRequestFetch", "Elsewhere"}
  BY <1>1 DEF Early
<1>5. \A c, r : (IsLive(c)' <=> IsLive(c)) /\ (NoneFits(r)' <=> NoneFits(r))
  BY <1>1, LivenessIsKept
<1>6. /\ IsLive(Asking)' <=> IsLive(Asking)
      /\ IsLive(Requested)' <=> IsLive(Requested)
  BY <1>1 DEF IsLive, NoneFits
<1>7. ASSUME Usage' > 0 \/ Arriving # <<>> PROVE Held' = Held /\ (Usage > 0 \/ Arriving # <<>>)
  <2>1. CASE Usage' > 0
    <3>1. Buffered' = Buffered /\ Usage > 0
      BY <1>2, <1>3, <2>1
    <3> QED BY <1>1, <2>1, <3>1 DEF Held, HeldInstructions
  <2>2. CASE Usage' = 0 /\ Arriving # <<>>
    <3>1. Usage = 0
      BY <1>0, <2>2 DEF OneAtATime
    <3> QED BY <1>1, <2>2, <3>1 DEF Held, HeldInstructions
  <2> QED BY <1>0, <1>3, <1>7, <2>1, <2>2
<1>8. ASSUME Judged', predictionResult' = 0 PROVE Arriving = <<>> /\ ~IsLive(Requested)
  <2>1. CASE ClockSendBuffered
    BY <1>8, <2>1 DEF Judged, ClockSendBuffered
  <2>2. CASE ClockCheckPredictor
    <3>1. Readable("prediction") # <<>>
      BY <1>8, <2>2 DEF ClockCheckPredictor, PredictionFails, IsPrompt, hasPredictor
    <3>2. PICK q \in 0 .. Usage, p \in 0 .. Usage :
            q = p + Len(Readable("prediction")) + Len(Readable("query"))
                  + Len(channel["query"].written)
      BY MarksInNumbers
    <3>3. PICK a, c, d : /\ a = Len(Readable("prediction")) /\ c = Len(Readable("query"))
                         /\ d = Len(channel["query"].written)
      OBVIOUS
    <3>4. a \in Nat /\ c \in Nat /\ d \in Nat /\ a # 0
      BY <1>0, <3>1, <3>3, Typed, EmptySeq DEF FetcherTypeOK
    <3>5. q = p + a + c + d
      BY <3>2, <3>3
    <3>6. q \in 0 .. Usage /\ p \in 0 .. Usage
      OBVIOUS
    <3>7. Usage > 0
      BY <1>0, <3>4, <3>5, <3>6
    <3> QED BY <1>0, <3>7 DEF OneAtATime
  <2>3. CASE ClockUnbuffer
    BY <1>0, <1>8, <2>3 DEF ClockUnbuffer, clockVars, OneAtATime, Judged
  <2> QED BY <2>1, <2>2, <2>3
<1>9. OneAtATime'
  <2>1. Usage' > 0 \/ Arriving' # <<>> =>
          NoneFits(fetchSize - Held)' /\ ~IsLive(Asking)' /\ ~IsLive(Requested)'
    <3> HAVE Usage' > 0 \/ Arriving' # <<>>
    <3>1. Held' = Held /\ (Usage > 0 \/ Arriving # <<>>)
      BY <1>1, <1>7
    <3>2. NoneFits(fetchSize - Held) /\ ~IsLive(Asking) /\ ~IsLive(Requested)
      BY <1>0, <3>1 DEF OneAtATime
    <3> QED BY <1>1, <1>6, <3>1, <3>2 DEF NoneFits
  <2>2. Usage' = 0 \/ Arriving' = <<>>
    BY <1>0, <1>1, <1>3 DEF OneAtATime
  <2>3. /\ Asking' # <<>> => ~IsLive(Requested)'
        /\ IsLive(Asking)' => Asking' = <<fetchSize>>
        /\ IsLive(Requested)' => Requested' = <<fetchSize>>
    BY <1>0, <1>1, <1>6 DEF OneAtATime
  <2> QED BY <1>1, <1>4, <1>6, <1>8, <2>1, <2>2, <2>3 DEF OneAtATime
<1>10. InTime'
  BY <1>0, <1>1, <1>4, <1>6 DEF InTime, IsReceived, MayBeLive, IsLong
<1>11. AsksForAll'
  <2>1. NoneFits(fetchSize)' <=> NoneFits(fetchSize)
    BY <1>1 DEF NoneFits
  <2> QED BY <1>0, <1>1, <1>4, <2>1 DEF AsksForAll, IsLong
<1> QED BY <1>9, <1>10, <1>11 DEF Safe

LEMMA SafeInPenalty ==
  ASSUME FetcherInductive, IsPrompt, IsSafe, Regular, Safe, Timing, Countdown, PenaltyStep
  PROVE  Safe'
<1>0. FetcherTypeOK /\ Usage \in Nat /\ OneAtATime /\ InTime /\ AsksForAll
  BY Typed DEF FetcherInductive, Safe
<1>1. /\ step = "Penalty" /\ step' \in {"ClockFetch", "Elsewhere"}
      /\ UNCHANGED <<fetchBuffer, channel, next, instSize, fetchInterval, misspredictPenalty>>
  BY DEF PenaltyStep, PaysPenalty, StartsPenalty, PaysNoPenalty, envVars, configVars
<1>2. /\ Usage' = Usage /\ Buffered' = Buffered /\ Held' = Held
      /\ Asking' = Asking /\ Requested' = Requested /\ Arriving' = Arriving
  BY <1>1 DEF Usage, Buffered, Held, HeldInstructions, Asking, Requested, Arriving, Readable
<1>3. Early /\ ~Early' /\ Judged /\ ~Judged'
  BY <1>1 DEF Early, Judged
<1>4. /\ IsLive(Asking)' <=> IsLive(Asking)
      /\ IsLive(Requested)' <=> IsLive(Requested)
      /\ NoneFits(fetchSize - Held)' <=> NoneFits(fetchSize - Held)
      /\ NoneFits(fetchSize)' <=> NoneFits(fetchSize)
  BY <1>1, <1>2 DEF IsLive, NoneFits
<1>5. /\ currentPenalty \in Nat /\ misspredictPenalty \in Nat /\ currentPenalty <= misspredictPenalty
      /\ misspredictPenalty >= 1 /\ fetchInterval \in Nat /\ fetchInterval >= 1
  BY <1>0 DEF FetcherTypeOK
<1>6. Asking = <<>>
  BY <1>1 DEF Timing
<1>7. Requested # <<>> => currentPenalty <= 2 /\ currentPenalty # misspredictPenalty /\ fetchClock = 1
  BY <1>3 DEF Timing, MayAsk
<1>8. IsLive(Requested) => Requested # <<>>
  BY DEF IsLive
<1>9. misspredictPenalty # 2 /\ (misspredictPenalty = 1 \/ fetchInterval >= 2)
  BY <1>5 DEF IsSafe
<1>10. currentPenalty = 0 /\ predictionResult = 0 => Arriving = <<>> /\ ~IsLive(Requested) /\ ~IsLong
  BY <1>0, <1>3 DEF OneAtATime, Regular
<1>11. /\ step' = "ClockFetch" /\ fetchClock' % fetchInterval = 0 => ~IsLive(Requested)
       /\ step' = "Elsewhere" => Arriving = <<>>
       /\ IsLive(Requested) => IsReceived'
       /\ IsLong => /\ currentPenalty' = 1 => Requested = <<fetchSize>>
                    /\ step' = "ClockFetch" /\ currentPenalty' = 0 => Arriving # <<>> \/ NoneFits(fetchSize)
                    /\ step' = "Elsewhere" => currentPenalty' \notin {0, 2}
  <2>1. Arriving # <<>> => IsReceived
    BY <1>0, <1>3 DEF InTime
  <2>2. IsLive(Requested) => MayBeLive
    BY <1>0, <1>3 DEF InTime
  <2>3. CASE PaysPenalty
    <3>1. /\ currentPenalty > 0 /\ currentPenalty' = currentPenalty - 1 /\ fetchClock' = fetchClock
          /\ step' = "ClockFetch" <=> currentPenalty' <= 2
      BY <1>5, <2>3 DEF PaysPenalty, Idles
    <3>2. fetchClock = 1 /\ fetchInterval >= 2 => fetchClock % fetchInterval # 0
      BY <1>5
    <3>3. step' = "ClockFetch" /\ fetchClock' % fetchInterval = 0 => ~IsLive(Requested)
      BY <1>5, <1>7, <1>8, <1>9, <3>1, <3>2
    <3>4. step' = "Elsewhere" => Arriving = <<>>
      BY <1>5, <2>1, <3>1 DEF IsReceived
    <3>5. IsLive(Requested) => IsReceived'
      BY <1>1, <1>5, <1>7, <1>8, <1>9, <2>2, <3>1 DEF MayBeLive, IsReceived, IsLong
    <3>6. IsLong => /\ currentPenalty' = 1 => Requested = <<fetchSize>>
                    /\ currentPenalty' = 0 => Arriving # <<>> \/ NoneFits(fetchSize)
      BY <1>0, <1>3, <1>5, <3>1 DEF AsksForAll
    <3> QED BY <1>1, <1>5, <3>1, <3>3, <3>4, <3>5, <3>6
  <2>4. CASE StartsPenalty
    <3>1. currentPenalty = 0 /\ currentPenalty' = misspredictPenalty /\ step' = "Elsewhere"
      BY <2>4 DEF StartsPenalty
    <3>2. Arriving = <<>>
      BY <1>5, <2>1, <3>1 DEF IsReceived
    <3>3. IsLive(Requested) => IsReceived'
      BY <1>1, <1>5, <1>9, <2>2, <3>1 DEF MayBeLive, IsReceived, IsLong
    <3> QED BY <3>1, <3>2, <3>3 DEF IsLong
  <2>5. CASE PaysNoPenalty
    <3>1. currentPenalty = 0 /\ predictionResult = 0 /\ currentPenalty' = 0 /\ step' = "ClockFetch"
      BY <2>5 DEF PaysNoPenalty, clockVars
    <3> QED BY <1>10, <3>1
  <2> QED BY <2>3, <2>4, <2>5 DEF PenaltyStep
<1>12. OneAtATime'
  <2>1. step' # "ClockRequestFetch"
    BY <1>1
  <2> QED BY <1>0, <1>1, <1>2, <1>3, <1>4, <1>6, <1>11, <2>1 DEF OneAtATime
<1>13. InTime'
  <2>1. ~IsLive(Asking)
    BY <1>6 DEF IsLive
  <2> QED BY <1>1, <1>2, <1>3, <1>4, <1>11, <2>1 DEF InTime
<1>14. AsksForAll'
  <2>1. IsLong' <=> IsLong
    BY <1>1 DEF IsLong
  <2> QED BY <1>1, <1>2, <1>3, <1>4, <1>11, <2>1 DEF AsksForAll
<1> QED BY <1>12, <1>13, <1>14 DEF Safe
LEMMA SafeInFetch ==
  ASSUME FetcherInductive, IsPrompt, Regular, Safe, Sized, Timing, Countdown, ClockFetch
  PROVE  Safe'
<1>0. FetcherTypeOK /\ Usage \in Nat /\ OneAtATime /\ InTime /\ AsksForAll
  BY Typed DEF FetcherInductive, Safe
<1>1. /\ step = "ClockFetch" /\ step' \in {"ClockRequestFetch", "Elsewhere"}
      /\ step' = "ClockRequestFetch" <=> fetchClock % fetchInterval = 0
      /\ UNCHANGED <<next, instSize, currentPenalty, fetchInterval, misspredictPenalty>>
  BY DEF ClockFetch, envVars, configVars
<1>2. ~Early /\ ~Early' /\ ~Judged'
  BY <1>1 DEF Early, Judged
<1>3. Asking' = Asking /\ Requested' = Requested /\ Arriving' = <<>>
  BY <1>0, FetchTakes DEF FetcherTypeOK
<1>4. /\ IsLive(Asking)' <=> IsLive(Asking)
      /\ IsLive(Requested)' <=> IsLive(Requested)
      /\ NoneFits(fetchSize)' <=> NoneFits(fetchSize)
  BY <1>1, <1>3 DEF IsLive, NoneFits
<1>5. Usage = 0 \/ Arriving = <<>>
  BY <1>0 DEF OneAtATime
<1>6. /\ Arriving = <<>> => fetchBuffer' = fetchBuffer
      /\ Arriving # <<>> => /\ Usage = 0 /\ Usage' = Len(Arriving)
                            /\ \A i \in 1 .. Len(Arriving) : fetchBuffer'[i].inst = Arriving[i]
  BY <1>5, RegularInFetch
<1>7. Arriving # <<>> => Usage' > 0 /\ Buffered' = Arriving
  <2> HAVE Arriving # <<>>
  <2>1. Arriving \in Seq(Program)
    BY <1>0 DEF FetcherTypeOK, Arriving
  <2>2. Len(Arriving) > 0
    BY <2>1, EmptySeq, LenProperties
  <2>3. Buffered' = [i \in 1 .. Len(Arriving) |-> Arriving[i]]
    BY <1>6 DEF Buffered
  <2>4. Arriving = [i \in 1 .. Len(Arriving) |-> Arriving[i]]
    BY <2>1
  <2> QED BY <1>6, <2>2, <2>3, <2>4
<1>8. (Usage' > 0) <=> (Usage > 0 \/ Arriving # <<>>)
  BY <1>0, <1>6, <1>7 DEF Usage
<1>9. Usage' > 0 => Held' = Held
  <2> HAVE Usage' > 0
  <2>1. CASE Arriving = <<>>
    <3>1. Usage' = Usage /\ Buffered' = Buffered
      BY <1>6, <2>1 DEF Usage, Buffered
    <3> QED BY <1>1, <3>1 DEF Held, HeldInstructions
  <2>2. CASE Arriving # <<>>
    <3>1. ~(Usage > 0)
      BY <1>6, <2>2
    <3> QED BY <1>1, <1>7, <2>2, <3>1 DEF Held, HeldInstructions
  <2> QED BY <2>1, <2>2
<1>10. Usage' \in Nat
  <2>1. fetchBuffer' \in Seq(Entry)
    BY Fetches DEF FetcherInductive, FetcherTypeOK
  <2> QED BY <2>1, LenProperties DEF Usage
<1>11. OneAtATime'
  <2>1. Usage' > 0 \/ Arriving' # <<>> =>
          NoneFits(fetchSize - Held)' /\ ~IsLive(Asking)' /\ ~IsLive(Requested)'
    <3> HAVE Usage' > 0 \/ Arriving' # <<>>
    <3>1. Held' = Held /\ NoneFits(fetchSize - Held) /\ ~IsLive(Asking) /\ ~IsLive(Requested)
      BY <1>0, <1>3, <1>8, <1>9 DEF OneAtATime
    <3> QED BY <1>1, <1>4, <3>1 DEF NoneFits
  <2> QED BY <1>0, <1>1, <1>2, <1>3, <1>4, <2>1 DEF OneAtATime
<1>12. InTime'
  BY <1>0, <1>1, <1>2, <1>3, <1>4 DEF InTime, IsReceived, MayBeLive, IsLong
<1>13. AsksForAll'
  <2>1. IsLong /\ currentPenalty = 2 => step' # "Elsewhere"
    <3> HAVE IsLong /\ currentPenalty = 2
    <3>1. fetchClock = 0 /\ fetchInterval \in Nat \ {0}
      BY <1>0, <1>1 DEF Countdown, IsLong, FetcherTypeOK
    <3>2. fetchClock % fetchInterval = 0
      BY <3>1
    <3> QED BY <1>1, <3>2
  <2>2. IsLong /\ currentPenalty = 0 => Usage' > 0 \/ NoneFits(fetchSize)
    BY <1>0, <1>1, <1>8 DEF AsksForAll
  <2> QED BY <1>0, <1>1, <1>2, <1>3, <1>4, <2>1, <2>2 DEF AsksForAll, IsLong
<1> QED BY <1>11, <1>12, <1>13 DEF Safe

LEMMA SafeInRequest ==
  ASSUME FetcherInductive, IsPrompt, IsSafe, Regular, Safe, Sized, Timing, Countdown,
         ClockRequestFetch
  PROVE  Safe'
<1>0. FetcherTypeOK /\ Usage \in Nat /\ OneAtATime /\ InTime /\ AsksForAll
  BY Typed DEF FetcherInductive, Safe
<1>1. /\ step = "ClockRequestFetch" /\ step' = "Elsewhere"
      /\ UNCHANGED <<fetchBuffer, next, instSize, currentPenalty, fetchInterval, misspredictPenalty>>
  BY DEF ClockRequestFetch, envVars, configVars
<1>2. ~Early /\ ~Early' /\ ~Judged'
  BY <1>1 DEF Early, Judged
<1>3. Asking' = <<FreeBytes>> /\ Requested' = Requested /\ Arriving' = Arriving /\ Arriving = <<>>
  BY <1>0, <1>1, RequestIsWritten DEF FetcherTypeOK, InTime
<1>4. /\ Usage' = Usage /\ Held' = Held
      /\ IsLive(Requested)' <=> IsLive(Requested)
      /\ NoneFits(fetchSize)' <=> NoneFits(fetchSize)
      /\ NoneFits(fetchSize - Held)' <=> NoneFits(fetchSize - Held)
      /\ IsLive(Asking)' <=> ~NoneFits(FreeBytes)
  <2>1. Usage' = Usage /\ Buffered' = Buffered
    BY <1>1 DEF Usage, Buffered
  <2>2. Held' = Held
    BY <1>1, <1>3, <2>1 DEF Held, HeldInstructions
  <2>3. Asking'[1] = FreeBytes /\ Asking' # <<>>
    BY <1>3
  <2> QED BY <1>1, <1>3, <2>1, <2>2, <2>3 DEF IsLive, NoneFits
<1>5. ~IsLive(Requested)
  BY <1>0, <1>1 DEF OneAtATime
<1>6. Usage > 0 => NoneFits(FreeBytes) /\ NoneFits(fetchSize - Held)
  <2> HAVE Usage > 0
  <2>1. FreeBytes = fetchSize - Held
    BY SizesAre DEF FreeBytes, Held, HeldInstructions
  <2> QED BY <1>0, <2>1 DEF OneAtATime
<1>7. Usage = 0 => FreeBytes = fetchSize
  BY <1>0, FreeBytesAre DEF Sized
<1>8. OneAtATime'
  BY <1>0, <1>1, <1>2, <1>3, <1>4, <1>5, <1>6, <1>7 DEF OneAtATime
<1>9. ~NoneFits(FreeBytes) => MayBeLive
  <2> HAVE ~NoneFits(FreeBytes)
  <2>1. /\ currentPenalty \in Nat /\ misspredictPenalty \in Nat /\ currentPenalty <= misspredictPenalty
        /\ fetchInterval \in Nat
    BY <1>0 DEF FetcherTypeOK
  <2>2. currentPenalty <= 2 /\ currentPenalty # misspredictPenalty
    BY <1>1 DEF Timing, MayAsk
  <2>3. misspredictPenalty >= 3 => currentPenalty # 1
    BY <1>1, <2>1 DEF Countdown, IsSafe
  <2>4. Usage = 0 /\ ~NoneFits(fetchSize)
    BY <1>0, <1>6, <1>7
  <2>5. IsLong => currentPenalty # 0
    BY <1>0, <1>1, <2>4 DEF AsksForAll
  <2> QED BY <2>1, <2>2, <2>3, <2>5 DEF MayBeLive, IsLong, IsSafe
<1>10. InTime'
  BY <1>0, <1>1, <1>2, <1>3, <1>4, <1>5, <1>9 DEF InTime, IsReceived, MayBeLive, IsLong
<1>11. IsLong /\ currentPenalty = 2 => Usage = 0
  <2> HAVE IsLong /\ currentPenalty = 2
  <2>1. AgeNow = 3
    <3>1. misspredictPenalty \in Nat /\ misspredictPenalty >= 4 /\ ~IsShort
      BY <1>0 DEF FetcherTypeOK, IsLong, IsShort
    <3> QED BY <1>2, <3>1 DEF AgeNow, AgeAtStart
  <2>2. PICK k \in 0 .. 3 : AreOfAge(k) /\ k = 3
    BY <1>2, <2>1 DEF Regular, Ages
  <2>3. channel'["query"] = channel["query"]
    BY <1>0, RequestIsWritten DEF Channels, FetcherTypeOK
  <2> QED BY <1>1, <2>2, <2>3, 3 \in 0 .. 4, BatchWaits
<1>12. AsksForAll'
  BY <1>0, <1>1, <1>2, <1>3, <1>4, <1>7, <1>11 DEF AsksForAll, IsLong
<1> QED BY <1>8, <1>10, <1>12 DEF Safe

LEMMA DeadIsNotServed ==
  ASSUME FetcherTypeOK, Sized, ~IsLive(Requested)
  PROVE  NumberServed = 0
<1>1. CASE Requested = <<>>
  BY <1>1 DEF NumberServed, Requested
<1>2. CASE Requested # <<>>
  <2>1. PICK r \in Int : r <= fetchSize /\ Requested = <<r>>
    BY <1>2 DEF Sized, IsRequest
  <2>2. NoneFits(r)
    BY <1>2, <2>1 DEF IsLive
  <2>3. Served(r) = 0
    BY <2>2, NothingServed DEF Sized, FetcherTypeOK
  <2>4. Requested[1] = r
    BY <2>1
  <2> QED BY <1>2, <2>3, <2>4 DEF NumberServed, Requested
<1> QED BY <1>1, <1>2

LEMMA SafeElsewhere ==
  ASSUME FetcherInductive, IsPrompt, Regular, Safe, Sized, Timing, Countdown, Elsewhere
  PROVE  Safe'
<1>0. FetcherTypeOK /\ Usage \in Nat /\ OneAtATime /\ InTime /\ AsksForAll
  BY Typed DEF FetcherInductive, Safe
<1>1. /\ step = "Elsewhere" /\ step' = "ClockSendBuffered" /\ next' = next + NumberServed
      /\ UNCHANGED <<fetchBuffer, instSize, currentPenalty, fetchInterval, misspredictPenalty>>
  BY DEF Elsewhere, clockVars, configVars
<1>2. ~Early /\ Early' /\ ~Judged'
  BY <1>1 DEF Early, Judged
<1>3. Asking' = <<>> /\ Requested' = Asking /\ Arriving' = Responses /\ Arriving = <<>>
  BY <1>0, <1>1, MessagesMoveOn DEF InTime
<1>4. Usage' = Usage /\ Buffered' = Buffered /\ (IsLong' <=> IsLong)
  BY <1>1 DEF Usage, Buffered, IsLong
<1>5. ~IsLive(Asking)'
  BY <1>3 DEF IsLive
<1>6. fetchSize \in Nat /\ fetchSize # 0 /\ next \in 1 .. Instructions + 1
  BY <1>0, FetcherAssumption DEF FetcherTypeOK
<1>7. CASE ~IsLive(Requested)
  <2>1. NumberServed = 0
    BY <1>0, <1>7, DeadIsNotServed
  <2>2. next' = next /\ Arriving' = <<>>
    <3>1. Len(Responses) = 0
      BY <1>0, <2>1, EverythingServedFits
    <3>2. Responses \in Seq(Program)
      BY <1>0, <1>1, TypedChannels, RespondsInOrder
    <3> QED BY <1>1, <1>3, <1>6, <2>1, <3>1, <3>2, EmptySeq
  <2>3. /\ IsLive(Requested)' <=> IsLive(Asking)
        /\ NoneFits(fetchSize)' <=> NoneFits(fetchSize)
    BY <1>1, <1>3, <2>2 DEF IsLive, NoneFits
  <2>4. Held' = Held
    BY <1>1, <1>3, <1>4, <2>2 DEF Held, HeldInstructions
  <2>5. NoneFits(fetchSize - Held)' <=> NoneFits(fetchSize - Held)
    BY <1>1, <2>2, <2>4 DEF NoneFits
  <2>6. OneAtATime'
    BY <1>0, <1>1, <1>2, <1>3, <1>4, <1>5, <2>2, <2>3, <2>5 DEF OneAtATime
  <2>7. InTime'
    BY <1>0, <1>1, <1>2, <1>5, <2>2, <2>3 DEF InTime, MayBeLive, IsLong
  <2>8. IsLong /\ currentPenalty = 1 => NoneFits(fetchSize)
    <3> HAVE IsLong /\ currentPenalty = 1
    <3>1. Requested = <<fetchSize>>
      BY <1>0, <1>2 DEF AsksForAll
    <3> QED BY <1>7, <3>1 DEF IsLive
  <2>9. AsksForAll'
    BY <1>0, <1>1, <1>2, <1>3, <1>4, <2>3, <2>8 DEF AsksForAll
  <2> QED BY <2>6, <2>7, <2>9 DEF Safe
<1>8. CASE IsLive(Requested)
  <2>1. Usage = 0 /\ Asking = <<>> /\ Requested = <<fetchSize>> /\ IsReceived
    BY <1>0, <1>2, <1>8 DEF OneAtATime, InTime
  <2>2. PICK n : n = NumberServed
    OBVIOUS
  <2>3. PICK w : w = Weight(n)
    OBVIOUS
  <2>4. n = Served(fetchSize)
    <3>1. Requested[1] = fetchSize /\ Requested # <<>>
      BY <2>1
    <3> QED BY <2>2, <3>1 DEF NumberServed, Requested
  <2>5. w \in Nat /\ w < fetchSize /\ NoneFits(fetchSize - w)'
    <3>1. next' = next + n
      BY <1>1, <2>2
    <3> QED BY <1>1, <1>6, <2>3, <2>4, <3>1, ServedFills DEF Sized
  <2>6. Arriving' = Ahead(n) /\ Len(Arriving') = n /\ n \in 0 .. Remaining
    BY <1>0, <1>3, <2>2, EverythingServedFits
  <2>7. Held' = w
    <3>1. ~(Usage' > 0)
      BY <1>4, <2>1
    <3>2. Held' = SizeWith(instSize, Ahead(n))
      BY <1>1, <2>6, <3>1 DEF Held, HeldInstructions
    <3> QED BY <2>3, <3>2, SizesAre
  <2>8. NoneFits(fetchSize - Held)'
    BY <2>5, <2>7 DEF NoneFits
  <2>9. ~IsLive(Requested)'
    BY <1>3, <2>1 DEF IsLive
  <2>10. OneAtATime'
    BY <1>1, <1>2, <1>3, <1>4, <1>5, <2>1, <2>8, <2>9 DEF OneAtATime
  <2>11. InTime'
    <3>1. IsReceived'
      BY <1>1, <2>1 DEF IsReceived
    <3> QED BY <1>1, <1>2, <1>5, <2>9, <3>1 DEF InTime
  <2>12. Arriving' # <<>> \/ NoneFits(fetchSize)'
    <3> SUFFICES ASSUME Arriving' = <<>> PROVE NoneFits(fetchSize)'
      OBVIOUS
    <3>1. n = 0
      BY <2>6
    <3>2. w = 0
      <4>1. 0 \in 0 .. Remaining
        BY <2>6, <3>1
      <4> QED BY <1>6, <2>3, <3>1, <4>1, WeightGrows DEF Sized
    <3>3. fetchSize - w = fetchSize
      BY <1>6, <3>2
    <3> QED BY <2>5, <3>3
  <2>13. IsLong => currentPenalty # 2
    BY <1>0, <1>1, <2>1 DEF AsksForAll
  <2>14. AsksForAll'
    BY <1>1, <1>2, <1>4, <2>12, <2>13 DEF AsksForAll
  <2> QED BY <2>10, <2>11, <2>14 DEF Safe
<1> QED BY <1>7, <1>8
-----------------------------------------------------------------------------
(***************************************************************************)
(* Without a predictor no penalty is ever paid, and what arrives in a      *)
(* cycle leaves the buffer in the next one.                                *)
(***************************************************************************)
AllSent == \A i \in 1 .. Usage : "SentToMemory" \in fetchBuffer[i].flags

Unpredicted ==
  /\ HasPlace
  /\ currentPenalty = 0 /\ predictionResult = 0
  /\ step \in {"ClockCheckPredictor", "ClockUnbuffer"} => AllSent
  /\ step \in {"Penalty", "ClockFetch"} => Usage = 0
  /\ step \in {"ClockRequestFetch", "Elsewhere"} => Arriving = <<>>

LEMMA UnpredictedSends ==
  ASSUME FetcherInductive, predictor = "none", Unpredicted, ClockSendBuffered
  PROVE  Unpredicted'
<1>0. FetcherTypeOK /\ Usage \in Nat /\ fetchSize \in Nat
  BY Typed, FetcherAssumption DEF FetcherInductive
<1>1. /\ fetchBuffer' = [i \in 1 .. Usage |->
          [inst  |-> fetchBuffer[i].inst,
           flags |-> fetchBuffer[i].flags \cup {f \in SendFlags : i \in ToSend(f)}]]
      /\ step = "ClockSendBuffered" /\ step' = "ClockCheckPredictor"
      /\ UNCHANGED <<currentPenalty, predictionResult>>
  BY DEF ClockSendBuffered, clockVars
<1>2. PICK m \in 0 .. Usage, q \in 0 .. Usage, p \in 0 .. Usage : Marked(m, q, p)
  BY DEF FetcherInductive, MarkedAndPipelined
<1>3. \A i \in 1 .. Usage : "SentToMemory" \in fetchBuffer[i].flags <=> i <= m
  BY <1>0, <1>2, WhatIsMarked
<1>4. ToSend("SentToMemory") = m + 1 .. SentUpTo(m)
  BY <1>0, <1>3, SendsTheNext
<1>5. SentUpTo(m) = Usage
  BY <1>0 DEF SentUpTo, Unpredicted, HasPlace
<1>6. Usage' = Usage
  BY <1>0, <1>1 DEF Usage
<1>7. AllSent'
  <2>1. ASSUME NEW i \in 1 .. Usage PROVE "SentToMemory" \in fetchBuffer'[i].flags
    <3>1. i <= m \/ i \in ToSend("SentToMemory")
      BY <1>0, <1>4, <1>5
    <3>2. "SentToMemory" \in SendFlags
      BY DEF SendFlags
    <3> QED BY <1>1, <1>3, <3>1, <3>2
  <2> QED BY <1>6, <2>1 DEF AllSent
<1> QED BY <1>1, <1>6, <1>7 DEF Unpredicted, HasPlace

LEMMA UnpredictedLeave ==
  ASSUME FetcherInductive, predictor = "none", Unpredicted, ClockUnbuffer
  PROVE  Unpredicted'
<1>0. FetcherTypeOK /\ Usage \in Nat /\ fetchSize \in Nat
  BY Typed, FetcherAssumption DEF FetcherInductive
<1>1. /\ fetchBuffer' = SubSeq(fetchBuffer, Leading(flagsToCheck) + 1, Usage)
      /\ step = "ClockUnbuffer" /\ step' = "Penalty" /\ UNCHANGED <<currentPenalty, predictionResult>>
  BY DEF ClockUnbuffer, clockVars
<1>2. \A i \in 1 .. Usage : flagsToCheck \subseteq fetchBuffer[i].flags <=> i <= Usage
  BY <1>0, <1>1 DEF Unpredicted, AllSent, flagsToCheck, hasPredictor
<1>3. Leading(flagsToCheck) = Usage
  BY <1>0, <1>2, Usage \in 0 .. Usage, LeadingIs
<1>4. Usage' = 0
  <2>1. fetchBuffer' = SubSeq(fetchBuffer, Usage + 1, Usage) /\ fetchBuffer \in Seq(Entry)
    BY <1>0, <1>1, <1>3 DEF FetcherTypeOK
  <2>2. Len(SubSeq(fetchBuffer, Usage + 1, Usage)) = 0
    BY <1>0, <2>1
  <2> QED BY <2>1, <2>2 DEF Usage
<1> QED BY <1>0, <1>1, <1>4 DEF Unpredicted, HasPlace

LEMMA UnpredictedStep ==
  ASSUME FetcherInductive, Sized, predictor = "none", Unpredicted, [Next]_fetcherVars
  PROVE  Unpredicted'
<1>0. FetcherTypeOK /\ Usage \in Nat /\ fetchSize \in Nat /\ AreChannels(channel)
  BY Typed, FetcherAssumption DEF FetcherInductive, FetcherTypeOK
<1>1. CASE ClockCheckPredictor
  <2>1. /\ fetchBuffer' = fetchBuffer /\ predictionResult' = 0 /\ currentPenalty' = currentPenalty
        /\ step = "ClockCheckPredictor" /\ step' = "ClockUnbuffer"
    BY <1>1 DEF ClockCheckPredictor, hasPredictor
  <2> QED BY <2>1 DEF Unpredicted, HasPlace, AllSent, Usage
<1>2. CASE PenaltyStep
  <2>1. PaysNoPenalty
    BY <1>0, <1>2 DEF PenaltyStep, PaysPenalty, StartsPenalty, Unpredicted, FetcherTypeOK
  <2> QED BY <2>1 DEF PaysNoPenalty, clockVars, Unpredicted, HasPlace, Usage
<1>3. CASE ClockFetch
  <2>1. /\ fetchBuffer' = fetchBuffer \o [i \in 1 .. Len(Arriving) |-> NewEntry(Arriving[i])]
        /\ step = "ClockFetch" /\ step' \in {"ClockRequestFetch", "Elsewhere"}
        /\ UNCHANGED <<currentPenalty, predictionResult>>
    BY <1>3 DEF ClockFetch, Arriving
  <2>2. Usage = 0 /\ Len(Arriving) \in Nat
    BY <1>0, <2>1, Typed DEF Unpredicted, Arriving
  <2>3. Len(fetchBuffer') = Len(Arriving)
    <3>1. fetchBuffer = <<>>
      BY <1>0, <2>2, EmptySeq DEF Usage, FetcherTypeOK
    <3>2. PICK new : new = [i \in 1 .. Len(Arriving) |-> NewEntry(Arriving[i])]
      OBVIOUS
    <3>3. new \in Seq({NewEntry(Arriving[i]) : i \in 1 .. Len(Arriving)}) /\ Len(new) = Len(Arriving)
      <4>1. new \in [1 .. Len(Arriving) -> {NewEntry(Arriving[i]) : i \in 1 .. Len(Arriving)}]
        BY <3>2
      <4> QED BY <2>2, <4>1, FunctionIsSeq
    <3>4. <<>> \o new = new
      BY <3>3
    <3> QED BY <2>1, <3>1, <3>2, <3>3, <3>4
  <2>4. Usage' < fetchSize
    BY <2>3 DEF Usage, Sized
  <2>5. Arriving' = <<>>
    BY <1>0, <1>3, FetchTakes
  <2> QED BY <2>1, <2>4, <2>5 DEF Unpredicted, HasPlace
<1>4. CASE ClockRequestFetch
  <2>1. Arriving' = Arriving
    BY <1>0, <1>4, RequestIsWritten
  <2> QED BY <1>4, <2>1 DEF ClockRequestFetch, Unpredicted, HasPlace, Usage
<1>5. CASE Elsewhere
  BY <1>5 DEF Elsewhere, clockVars, Unpredicted, HasPlace, Usage
<1>6. CASE UNCHANGED fetcherVars
  BY <1>6 DEF fetcherVars, clockVars, Unpredicted, HasPlace, Usage, AllSent, Arriving, Readable
<1> QED BY <1>1, <1>2, <1>3, <1>4, <1>5, <1>6, UnpredictedSends, UnpredictedLeave
        DEF Next, Clock, PenaltyStep
-----------------------------------------------------------------------------
(***************************************************************************)
(* Together: the invariant of the pace.                                    *)
(***************************************************************************)
FetcherPaced ==
  /\ FetcherInductive
  /\ Sized /\ Timing /\ Countdown
  /\ predictor = "none" => Unpredicted
  /\ predictor = "prompt" => /\ asked = <<>>
                             /\ ~RequestsOverlap => Regular
                             /\ IsSafe => Safe

LEMMA PacedStarts ==
  ASSUME Init
  PROVE  FetcherPaced
<1>1. /\ FetcherInductive /\ Sized /\ Timing /\ Countdown
  BY FetcherStarts, SizedStarts
<1>2. /\ Usage = 0 /\ asked = <<>> /\ step = "ClockSendBuffered" /\ Early /\ ~Judged
      /\ currentPenalty = 0 /\ predictionResult = 0
      /\ Asking = <<>> /\ Requested = <<>> /\ Arriving = <<>>
  BY DEF Init, Usage, Early, Judged, Asking, Requested, Arriving, Readable, Channels
<1>3. HasPlace
  BY <1>2, FetcherAssumption DEF HasPlace
<1>4. Unpredicted
  BY <1>2, <1>3 DEF Unpredicted
<1>5. Regular
  <2>1. \A k : AreOfAge(k)
    BY <1>2 DEF AreOfAge
  <2>2. AgeNow \in 1 .. 4 /\ Ages = 1 .. 4
    BY <1>2 DEF AgeNow, AgeAtStart, Ages
  <2> QED BY <1>2, <1>3, <2>1, <2>2 DEF Regular
<1>6. Safe
  BY <1>2 DEF Safe, OneAtATime, InTime, AsksForAll, IsLive
<1> QED BY <1>1, <1>2, <1>4, <1>5, <1>6 DEF FetcherPaced

LEMMA SafeDoNotOverlap ==
  ASSUME FetcherTypeOK, predictor = "prompt", ~RequestsOverlap
  PROVE  IsShort \/ IsLong \/ IsSafe
  BY DEF FetcherTypeOK, RequestsOverlap, IsShort, IsLong, IsSafe

LEMMA PacedStep ==
  ASSUME FetcherPaced, [Next]_fetcherVars
  PROVE  FetcherPaced'
<1>0. /\ FetcherInductive /\ FetcherTypeOK /\ Sized /\ Timing /\ Countdown
  BY DEF FetcherPaced, FetcherInductive
<1>1. FetcherInductive' /\ Sized' /\ Timing' /\ Countdown'
  BY <1>0, FetcherStep, SizedStep
<1>2. UNCHANGED <<predictor, misspredictPenalty, fetchInterval>>
  BY DEF Next, Clock, ClockSendBuffered, ClockCheckPredictor, ClockUnbuffer, PaysPenalty,
         StartsPenalty, PaysNoPenalty, ClockFetch, ClockRequestFetch, Elsewhere, fetcherVars,
         envVars, configVars
<1>3. (RequestsOverlap' <=> RequestsOverlap) /\ (IsSafe' <=> IsSafe)
  BY <1>2 DEF RequestsOverlap, IsSafe
<1>4. ASSUME predictor = "none" PROVE Unpredicted'
  BY <1>0, <1>4, UnpredictedStep DEF FetcherPaced
<1>5. ASSUME predictor = "prompt"
      PROVE  asked' = <<>> /\ (~RequestsOverlap => Regular') /\ (IsSafe => Safe')
  <2>1. IsPrompt /\ (~RequestsOverlap => Regular) /\ (IsSafe => Safe)
    BY <1>5 DEF FetcherPaced, IsPrompt
  <2>2. IsSafe => ~RequestsOverlap
    BY <1>0, <1>5 DEF IsSafe, RequestsOverlap, FetcherTypeOK
  <2>3. asked' = <<>>
    <3>1. CASE Elsewhere
      <4>1. PICK n \in NumbersAnswered : asked' = SubSeq(Queries, n + 1, Len(Queries))
        BY <3>1 DEF Elsewhere
      <4>2. Queries = Readable("query") /\ Readable("query") \in Seq(Program)
        BY <1>0, <2>1 DEF Queries, IsPrompt, FetcherTypeOK
      <4>3. n = Len(Readable("query"))
        BY <1>5, <4>1, <4>2 DEF NumbersAnswered
      <4>4. asked' = SubSeq(Readable("query"), Len(Readable("query")) + 1, Len(Readable("query")))
        BY <4>1, <4>2, <4>3
      <4> QED BY <4>2, <4>4
    <3>2. CASE ~Elsewhere
      <4>1. asked' = asked
        BY <3>2 DEF Next, Clock, ClockSendBuffered, ClockCheckPredictor, ClockUnbuffer, PaysPenalty,
           StartsPenalty, PaysNoPenalty, ClockFetch, ClockRequestFetch, fetcherVars, envVars
      <4> QED BY <2>1, <4>1 DEF IsPrompt
    <3> QED BY <3>1, <3>2
  <2>4. ASSUME ~RequestsOverlap PROVE Regular' /\ (IsSafe => Safe')
    <3>1. IsShort \/ IsLong \/ IsSafe
      BY <1>0, <1>5, <2>4, SafeDoNotOverlap
    <3>2. Regular
      BY <2>1, <2>4
    <3>3. CASE ClockSendBuffered \/ ClockCheckPredictor \/ ClockUnbuffer
      BY <1>0, <2>1, <3>2, <3>3, RegularInClock, SafeInClock
    <3>4. CASE PenaltyStep
      BY <1>0, <2>1, <3>2, <3>4, RegularInPenalty, SafeInPenalty
    <3>5. CASE ClockFetch
      <4>1. IsShort \/ IsLong \/ Usage = 0 \/ Arriving = <<>>
        BY <2>1, <3>1 DEF Safe, OneAtATime
      <4> QED BY <1>0, <2>1, <3>2, <3>5, <4>1, RegularInFetch, SafeInFetch
    <3>6. CASE ClockRequestFetch
      BY <1>0, <2>1, <3>2, <3>6, RegularInRequest, SafeInRequest
    <3>7. CASE Elsewhere
      BY <1>0, <2>1, <3>2, <3>7, RegularElsewhere, SafeElsewhere
    <3>8. CASE UNCHANGED fetcherVars
      <4>1. UNCHANGED <<step, fetchBuffer, fetchClock, currentPenalty, predictionResult, channel,
                        next, instSize, fetchInterval, misspredictPenalty>>
        BY <3>8 DEF fetcherVars, clockVars, envVars, configVars
      <4>2. /\ Usage' = Usage /\ Buffered' = Buffered /\ Asking' = Asking
            /\ Requested' = Requested /\ Arriving' = Arriving
        BY <4>1 DEF Usage, Buffered, Asking, Requested, Arriving, Readable
      <4>3. /\ AgeNow' = AgeNow /\ Ages' = Ages /\ (Judged' <=> Judged)
            /\ (IsShort' <=> IsShort) /\ (IsLong' <=> IsLong)
        BY <4>1 DEF AgeNow, AgeAtStart, Early, Ages, Judged, IsShort, IsLong
      <4>4. \A k : AreOfAge(k)' <=> AreOfAge(k)
        BY <4>1, <4>2 DEF AreOfAge, Unsent, AllPredicted, Readable
      <4>5. Regular'
        BY <3>2, <4>1, <4>2, <4>3, <4>4 DEF Regular, HasPlace
      <4>6. Held' = Held /\ (Early' <=> Early) /\ (IsReceived' <=> IsReceived) /\ (MayBeLive' <=> MayBeLive)
        BY <4>1, <4>2, <4>3 DEF Held, HeldInstructions, Early, IsReceived, MayBeLive
      <4>7. /\ IsLive(Asking)' <=> IsLive(Asking)
            /\ IsLive(Requested)' <=> IsLive(Requested)
            /\ NoneFits(fetchSize - Held)' <=> NoneFits(fetchSize - Held)
            /\ NoneFits(fetchSize)' <=> NoneFits(fetchSize)
        BY <4>1, <4>2, <4>6 DEF IsLive, NoneFits
      <4>8. OneAtATime' <=> OneAtATime
        BY <4>1, <4>2, <4>3, <4>6, <4>7 DEF OneAtATime
      <4>9. InTime' <=> InTime
        BY <4>1, <4>2, <4>6, <4>7 DEF InTime
      <4>10. AsksForAll' <=> AsksForAll
        BY <4>1, <4>2, <4>3, <4>6, <4>7 DEF AsksForAll
      <4> QED BY <2>1, <4>5, <4>8, <4>9, <4>10 DEF Safe
    <3> QED BY <3>3, <3>4, <3>5, <3>6, <3>7, <3>8 DEF Next, Clock, PenaltyStep
  <2> QED BY <2>2, <2>3, <2>4
<1> QED BY <1>1, <1>2, <1>3, <1>4, <1>5 DEF FetcherPaced

LEMMA PacedHasSpace ==
  ASSUME FetcherPaced
  PROVE  HasSpace
<1>1. /\ predictor \in {"none", "prompt", "late"} /\ FetcherTypeOK /\ Sized
      /\ fetchSize \in Nat /\ Usage \in Nat /\ Len(Arriving) \in Nat
  BY FetcherAssumption, Typed DEF FetcherPaced, FetcherInductive, FetcherTypeOK, Arriving
<1>2. SUFFICES ASSUME ~RequestsOverlap, step = "ClockFetch"
               PROVE  Usage + Len(Arriving) < fetchSize
  <2>1. SUFFICES ASSUME ~RequestsOverlap, step = "ClockFetch"
                 PROVE  PlacesWritten \subseteq 1 .. fetchSize
    BY DEF HasSpace, HasRoom
  <2>2. PICK k : k = Usage + Len(Arriving)
    OBVIOUS
  <2>3. k < fetchSize /\ k \in Nat
    BY <1>1, <1>2, <2>1, <2>2
  <2>4. PlacesWritten = Usage + 1 .. k + 1
    BY <2>2 DEF PlacesWritten, Arriving
  <2> QED BY <1>1, <2>3, <2>4
<1>3. CASE predictor = "none"
  BY <1>1, <1>2, <1>3 DEF FetcherPaced, Unpredicted, Sized
<1>4. CASE predictor = "prompt"
  <2>1. Regular /\ (IsSafe => Safe) /\ (IsShort \/ IsLong \/ IsSafe)
    BY <1>1, <1>2, <1>4, SafeDoNotOverlap DEF FetcherPaced
  <2>2. Usage = 0 \/ Len(Arriving) = 0
    <3>1. CASE IsSafe
      BY <2>1, <3>1 DEF Safe, OneAtATime
    <3>2. CASE (IsShort \/ IsLong) /\ Arriving # <<>>
      <4>1. AgeNow = 0
        BY <1>2, <2>1, <3>2 DEF Regular
      <4>2. PICK j : AreOfAge(j) /\ j = 0
        BY <2>1, <3>2, <4>1 DEF Regular
      <4> QED BY <1>2, <4>2 DEF AreOfAge
    <3> QED BY <2>1, <3>1, <3>2
  <2> QED BY <1>1, <2>1, <2>2 DEF Regular, HasPlace, Sized
<1> QED BY <1>1, <1>2, <1>3, <1>4 DEF RequestsOverlap

(***************************************************************************)
(* ClockFetch never writes behind the buffer (fetcher.cpp:166-169), not    *)
(* even when its last receive fails, unless a predictor is late or         *)
(* requests overlap, for every size of the buffer and of the instructions: *)
(* all that is in the buffer came with one response, which is less than    *)
(* the buffer holds, and the next one finds the buffer empty.              *)
(***************************************************************************)
THEOREM TheBufferHasSpace == Spec => []HasSpace
<1>1. Init => FetcherPaced
  BY PacedStarts
<1>2. FetcherPaced /\ [Next]_fetcherVars => FetcherPaced'
  BY PacedStep
<1>3. FetcherPaced => HasSpace
  BY PacedHasSpace
<1> QED BY <1>1, <1>2, <1>3, PTL DEF Spec
-----------------------------------------------------------------------------
(***************************************************************************)
(* What became of the instructions that the engine has sent: the first     *)
(* ones were sent to the memory, the next ones wait in the buffer behind   *)
(* m entries that were sent, and the last ones arrive.                     *)
(***************************************************************************)
IsAccounted(m) ==
  /\ m \in 0 .. Usage
  /\ \A i \in 1 .. Usage : "SentToMemory" \in fetchBuffer[i].flags <=> i <= m
  /\ delivered \in Seq(Program) /\ \A i \in 1 .. Len(delivered) : delivered[i] = i
  /\ \A i \in 1 .. Usage - m : fetchBuffer[m + i].inst = Len(delivered) + i
  /\ \A i \in 1 .. Len(Arriving) : Arriving[i] = Len(delivered) + (Usage - m) + i
  /\ Len(delivered) + (Usage - m) + Len(Arriving) = next - 1

AllAccounted == \E m \in 0 .. Usage : IsAccounted(m)

LEMMA Joined ==
  ASSUME NEW S, NEW s \in Seq(S), NEW t \in Seq(S), NEW k \in Nat, NEW l \in Nat,
         Len(s) = k, Len(t) = l, NEW r, r = s \o t
  PROVE  /\ r \in Seq(S) /\ Len(r) = k + l
         /\ \A i \in 1 .. k + l : r[i] = IF i <= k THEN s[i] ELSE t[i - k]
BY ConcatProperties, Zenon

LEMMA AccountedStarts ==
  ASSUME Init
  PROVE  AllAccounted
<1>1. Usage = 0 /\ delivered = <<>> /\ Arriving = <<>> /\ next = 1
  BY DEF Init, Usage, Arriving, Readable, Channels
<1>2. <<>> \in Seq(Program) /\ Len(<<>>) = 0
  BY EmptySeq
<1>3. IsAccounted(0)
  BY <1>1, <1>2 DEF IsAccounted
<1> QED BY <1>1, <1>3 DEF AllAccounted

LEMMA AccountedSends ==
  ASSUME FetcherInductive, AllAccounted, ClockSendBuffered
  PROVE  AllAccounted'
<1>0. FetcherTypeOK /\ Usage \in Nat /\ Len(Arriving) \in Nat
  BY Typed DEF FetcherInductive, Arriving
<1>1. PICK m \in 0 .. Usage : IsAccounted(m)
  BY DEF AllAccounted
<1>2. /\ delivered' = delivered \o Messages("SentToMemory")
      /\ fetchBuffer' = [i \in 1 .. Usage |->
          [inst  |-> fetchBuffer[i].inst,
           flags |-> fetchBuffer[i].flags \cup {f \in SendFlags : i \in ToSend(f)}]]
  BY DEF ClockSendBuffered
<1>3. Arriving' = Arriving /\ next' = next
  BY <1>0, EngineIsNotCalled
<1>4. Usage' = Usage
  BY <1>0, <1>2 DEF Usage
<1>5. PICK n : n = SentUpTo(m)
  OBVIOUS
<1>6. /\ n \in m .. Usage
      /\ ToSend("SentToMemory") = m + 1 .. n
      /\ Messages("SentToMemory") = [i \in 1 .. n - m |-> fetchBuffer[m + i].inst]
  BY <1>0, <1>1, <1>5, SendsTheNext DEF IsAccounted
<1>7. PICK d : d = Len(delivered)
  OBVIOUS
<1>8. d \in Nat /\ delivered \in Seq(Program) /\ \A i \in 1 .. d : delivered[i] = i
  BY <1>1, <1>7, LenProperties DEF IsAccounted
<1>9. \A i \in 1 .. Usage - m : fetchBuffer[m + i].inst = d + i
  BY <1>1, <1>7 DEF IsAccounted
<1>10. PICK ms : ms = Messages("SentToMemory")
  OBVIOUS
<1>11. /\ ms \in Seq(Program) /\ Len(ms) = n - m
       /\ \A i \in 1 .. n - m : ms[i] = d + i
  <2>1. \A i \in 1 .. n - m : m + i \in 1 .. Usage /\ i \in 1 .. Usage - m
    BY <1>0, <1>1, <1>6
  <2>2. \A i \in 1 .. n - m : fetchBuffer[m + i].inst \in Program
    BY <1>0, <2>1, Typed
  <2>3. ms \in [1 .. n - m -> Program]
    BY <1>6, <1>10, <2>2
  <2>4. n - m \in Nat
    BY <1>0, <1>1, <1>6
  <2>5. ms \in Seq(Program) /\ Len(ms) = n - m
    BY <2>3, <2>4, FunctionIsSeq
  <2> QED BY <1>6, <1>9, <1>10, <2>1, <2>5
<1>12. /\ delivered' \in Seq(Program) /\ Len(delivered') = d + (n - m)
       /\ \A i \in 1 .. d + (n - m) : delivered'[i] = IF i <= d THEN delivered[i] ELSE ms[i - d]
  <2>1. n - m \in Nat
    BY <1>0, <1>1, <1>6
  <2>2. delivered' = delivered \o ms /\ Len(delivered) = d
    BY <1>2, <1>7, <1>10
  <2>3. PICK b : b = n - m
    OBVIOUS
  <2>4. b \in Nat /\ ms \in Seq(Program) /\ Len(ms) = b
    BY <1>11, <2>1, <2>3
  <2>5. /\ delivered' \in Seq(Program) /\ Len(delivered') = d + b
        /\ \A i \in 1 .. d + b : delivered'[i] = IF i <= d THEN delivered[i] ELSE ms[i - d]
    <3>1. d \in Nat /\ delivered \in Seq(Program)
      BY <1>8
    <3>2. /\ delivered \o ms \in Seq(Program) /\ Len(delivered \o ms) = Len(delivered) + Len(ms)
          /\ \A i \in 1 .. Len(delivered) + Len(ms) :
                (delivered \o ms)[i]
                  = IF i <= Len(delivered) THEN delivered[i] ELSE ms[i - Len(delivered)]
      BY <2>4, <3>1, ConcatProperties, Zenon
    <3> QED BY <2>2, <2>4, <3>2, Zenon
  <2> QED BY <2>3, <2>5
<1>13. \A i \in 1 .. d + (n - m) : delivered'[i] = i
  <2> TAKE i \in 1 .. d + (n - m)
  <2>1. CASE i <= d
    BY <1>8, <1>12, <2>1
  <2>2. CASE ~(i <= d)
    <3>1. i - d \in 1 .. n - m /\ d + (i - d) = i
      BY <1>0, <1>1, <1>6, <1>8, <2>2
    <3> QED BY <1>11, <1>12, <2>2, <3>1
  <2> QED BY <2>1, <2>2
<1>14. \A i \in 1 .. Usage : "SentToMemory" \in fetchBuffer'[i].flags <=> i <= n
  <2> TAKE i \in 1 .. Usage
  <2>1. "SentToMemory" \in fetchBuffer[i].flags <=> i <= m
    BY <1>1 DEF IsAccounted
  <2>2. "SentToMemory" \in fetchBuffer'[i].flags <=> i <= m \/ i \in m + 1 .. n
    BY <1>2, <1>6, <2>1 DEF SendFlags
  <2> QED BY <1>0, <1>1, <1>6, <2>2
<1>15. \A i \in 1 .. Usage - n : fetchBuffer'[n + i].inst = (d + (n - m)) + i
  <2> TAKE i \in 1 .. Usage - n
  <2>1. n + i \in 1 .. Usage /\ (n - m) + i \in 1 .. Usage - m /\ m + ((n - m) + i) = n + i
    BY <1>0, <1>1, <1>6
  <2>2. fetchBuffer'[n + i].inst = fetchBuffer[n + i].inst
    BY <1>2, <2>1
  <2>3. fetchBuffer[n + i].inst = d + ((n - m) + i)
    BY <1>9, <2>1
  <2> QED BY <1>0, <1>1, <1>6, <1>8, <2>2, <2>3
<1>16. PICK a : a = Len(Arriving)
  OBVIOUS
<1>17. /\ \A i \in 1 .. a : Arriving[i] = d + (Usage - m) + i
       /\ d + (Usage - m) + a = next - 1
  BY <1>1, <1>7, <1>16 DEF IsAccounted
<1>18. (d + (n - m)) + (Usage - n) = d + (Usage - m)
  BY <1>0, <1>1, <1>6, <1>8
<1>19. IsAccounted(n)'
  BY <1>0, <1>3, <1>4, <1>6, <1>12, <1>13, <1>14, <1>15, <1>16, <1>17, <1>18 DEF IsAccounted
<1> QED BY <1>0, <1>1, <1>4, <1>6, <1>19 DEF AllAccounted

LEMMA AccountedChecks ==
  ASSUME FetcherInductive, AllAccounted, ClockCheckPredictor
  PROVE  AllAccounted'
<1>0. FetcherTypeOK /\ Usage \in Nat
  BY Typed DEF FetcherInductive
<1>1. PICK m \in 0 .. Usage : IsAccounted(m)
  BY DEF AllAccounted
<1>2. /\ delivered' = delivered
      /\ fetchBuffer' = fetchBuffer \/ fetchBuffer' = MarkPredicted(Len(Readable("prediction")))
  BY DEF ClockCheckPredictor
<1>3. Arriving' = Arriving /\ next' = next
  BY <1>0, EngineIsNotCalled
<1>4. Usage' = Usage
  BY <1>0, <1>2 DEF Usage, MarkPredicted
<1>5. \A i \in 1 .. Usage :
        /\ fetchBuffer'[i].inst = fetchBuffer[i].inst
        /\ "SentToMemory" \in fetchBuffer'[i].flags <=> "SentToMemory" \in fetchBuffer[i].flags
  <2>1. CASE fetchBuffer' = fetchBuffer
    BY <2>1
  <2>2. CASE fetchBuffer' = MarkPredicted(Len(Readable("prediction")))
    <3> TAKE i \in 1 .. Usage
    <3>1. /\ fetchBuffer'[i].inst = fetchBuffer[i].inst
          /\ fetchBuffer'[i].flags = fetchBuffer[i].flags
               \cup IF i <= Len(Readable("prediction")) THEN {"Predicted"} ELSE {}
      BY <2>2 DEF MarkPredicted
    <3>2. "SentToMemory" \notin IF i <= Len(Readable("prediction")) THEN {"Predicted"} ELSE {}
      OBVIOUS
    <3> QED BY <3>1, <3>2
  <2> QED BY <1>2, <2>1, <2>2
<1>6. \A i \in 1 .. Usage - m : m + i \in 1 .. Usage
  BY <1>0, <1>1
<1>7. IsAccounted(m)'
  BY <1>1, <1>2, <1>3, <1>4, <1>5, <1>6 DEF IsAccounted
<1> QED BY <1>1, <1>4, <1>7 DEF AllAccounted

LEMMA AccountedLeave ==
  ASSUME FetcherInductive, AllAccounted, ClockUnbuffer
  PROVE  AllAccounted'
<1>0. FetcherTypeOK /\ Usage \in Nat /\ fetchBuffer \in Seq(Entry)
  BY Typed DEF FetcherInductive, FetcherTypeOK
<1>1. PICK m \in 0 .. Usage : IsAccounted(m)
  BY DEF AllAccounted
<1>2. PICK k : k = Leading(flagsToCheck)
  OBVIOUS
<1>3. delivered' = delivered /\ fetchBuffer' = SubSeq(fetchBuffer, k + 1, Usage)
  BY <1>2 DEF ClockUnbuffer
<1>4. Arriving' = Arriving /\ next' = next
  BY <1>0, EngineIsNotCalled
<1>5. k \in 0 .. m
  <2> DEFINE T == {n \in 0 .. Usage : \A i \in 1 .. n : flagsToCheck \subseteq fetchBuffer[i].flags}
  <2>1. k = Max(T)
    BY <1>2 DEF Leading
  <2>2. T \in SUBSET (0 .. Usage) /\ 0 \in T
    BY <1>0
  <2>3. \A n \in T : \A i \in 1 .. n : flagsToCheck \subseteq fetchBuffer[i].flags
    OBVIOUS
  <2> HIDE DEF T
  <2>4. k \in T
    BY <1>0, <2>1, <2>2, GreatestNumber
  <2>5. k \in 0 .. Usage
    BY <2>2, <2>4
  <2>6. k > 0 => k <= m
    <3> HAVE k > 0
    <3>1. k \in 1 .. k /\ k \in 1 .. Usage
      BY <2>5
    <3>2. "SentToMemory" \in fetchBuffer[k].flags
      BY <2>3, <2>4, <3>1 DEF flagsToCheck
    <3> QED BY <1>1, <3>1, <3>2 DEF IsAccounted
  <2> QED BY <1>1, <2>5, <2>6
<1>6. Usage' = Usage - k /\ \A i \in 1 .. Usage - k : fetchBuffer'[i] = fetchBuffer[k + i]
  <2>1. \A i \in k + 1 .. Usage : fetchBuffer[i] \in Entry
    <3>1. \A i \in 1 .. Usage : fetchBuffer[i] \in Entry
      BY <1>0, ElementOfSeq DEF Usage
    <3> QED BY <1>0, <1>5, <3>1
  <2>2. /\ Len(fetchBuffer') = IF k + 1 <= Usage THEN Usage - (k + 1) + 1 ELSE 0
        /\ \A i \in 1 .. Usage - (k + 1) + 1 : fetchBuffer'[i] = fetchBuffer[(k + 1) + i - 1]
    BY <1>0, <1>3, <1>5, <2>1, k + 1 \in Int, Usage \in Int, SubSeqProperties
  <2>3. Usage - (k + 1) + 1 = Usage - k /\ \A i \in 1 .. Usage - k : (k + 1) + i - 1 = k + i
    BY <1>0, <1>5
  <2>4. Len(fetchBuffer') = Usage - k
    BY <1>0, <1>1, <1>5, <2>2
  <2> QED BY <2>2, <2>3, <2>4 DEF Usage
<1>7. PICK n : n = m - k
  OBVIOUS
<1>8. n \in 0 .. Usage - k /\ (Usage - k) - n = Usage - m
  BY <1>0, <1>1, <1>5, <1>7
<1>9. \A i \in 1 .. Usage - k : "SentToMemory" \in fetchBuffer'[i].flags <=> i <= n
  <2> TAKE i \in 1 .. Usage - k
  <2>1. k + i \in 1 .. Usage /\ (k + i <= m <=> i <= n)
    BY <1>0, <1>1, <1>5, <1>7
  <2> QED BY <1>1, <1>6, <2>1 DEF IsAccounted
<1>10. \A i \in 1 .. Usage - m : fetchBuffer'[n + i].inst = Len(delivered) + i
  <2> TAKE i \in 1 .. Usage - m
  <2>1. n + i \in 1 .. Usage - k /\ k + (n + i) = m + i
    BY <1>0, <1>1, <1>5, <1>7
  <2> QED BY <1>1, <1>6, <2>1 DEF IsAccounted
<1>11. IsAccounted(n)'
  BY <1>1, <1>3, <1>4, <1>6, <1>8, <1>9, <1>10 DEF IsAccounted
<1> QED BY <1>6, <1>8, <1>11 DEF AllAccounted

LEMMA AccountedArrive ==
  ASSUME FetcherInductive, AllAccounted, ClockFetch
  PROVE  AllAccounted'
<1>0. FetcherTypeOK /\ Usage \in Nat /\ Len(Arriving) \in Nat
  BY Typed DEF FetcherInductive, Arriving
<1>1. PICK m \in 0 .. Usage : IsAccounted(m)
  BY DEF AllAccounted
<1>2. PICK new : new = [i \in 1 .. Len(Arriving) |-> NewEntry(Arriving[i])]
  OBVIOUS
<1>3. /\ fetchBuffer' = fetchBuffer \o new /\ delivered' = delivered /\ next' = next
  BY <1>2 DEF ClockFetch, Arriving, envVars
<1>4. Arriving' = <<>>
  BY <1>0, FetchTakes DEF FetcherTypeOK
<1>5. PICK a : a = Len(Arriving)
  OBVIOUS
<1>6. /\ new \in Seq(Entry) /\ Len(new) = a
      /\ \A i \in 1 .. a : new[i].inst = Arriving[i] /\ new[i].flags = {}
  <2>1. \A i \in 1 .. a : Arriving[i] \in Program
    BY <1>0, <1>5, ElementOfSeq DEF Arriving, FetcherTypeOK
  <2>2. new \in [1 .. a -> Entry]
    BY <1>2, <1>5, <2>1 DEF NewEntry, Entry
  <2>3. new \in Seq(Entry) /\ Len(new) = a
    BY <1>0, <1>5, <2>2, FunctionIsSeq
  <2> QED BY <1>2, <1>5, <2>3 DEF NewEntry
<1>7. /\ Usage' = Usage + a
      /\ \A i \in 1 .. Usage + a : fetchBuffer'[i] = IF i <= Usage THEN fetchBuffer[i] ELSE new[i - Usage]
  <2>1. fetchBuffer \in Seq(Entry)
    BY <1>0 DEF FetcherTypeOK
  <2>2. Len(fetchBuffer) = Usage /\ Len(fetchBuffer') = Usage'
    BY DEF Usage
  <2>3. a \in Nat
    BY <1>0, <1>5
  <2>4. /\ Len(fetchBuffer') = Usage + a
        /\ \A i \in 1 .. Usage + a : fetchBuffer'[i] = IF i <= Usage THEN fetchBuffer[i] ELSE new[i - Usage]
    BY <1>0, <1>3, <1>6, <2>1, <2>2, <2>3, Joined
  <2> QED BY <2>2, <2>4, Zenon
<1>8. PICK d : d = Len(delivered)
  OBVIOUS
<1>9. /\ d \in Nat /\ \A i \in 1 .. Usage - m : fetchBuffer[m + i].inst = d + i
      /\ \A i \in 1 .. a : Arriving[i] = d + (Usage - m) + i
      /\ d + (Usage - m) + a = next - 1
  BY <1>1, <1>5, <1>8, LenProperties DEF IsAccounted
<1>10. \A i \in 1 .. Usage + a : "SentToMemory" \in fetchBuffer'[i].flags <=> i <= m
  <2> TAKE i \in 1 .. Usage + a
  <2>1. CASE i <= Usage
    <3>1. i \in 1 .. Usage
      BY <1>0, <2>1
    <3> QED BY <1>1, <1>7, <2>1, <3>1 DEF IsAccounted
  <2>2. CASE ~(i <= Usage)
    <3>1. i - Usage \in 1 .. a /\ ~(i <= m)
      BY <1>0, <1>1, <1>5, <2>2
    <3> QED BY <1>6, <1>7, <2>2, <3>1
  <2> QED BY <2>1, <2>2
<1>11. \A i \in 1 .. (Usage + a) - m : fetchBuffer'[m + i].inst = d + i
  <2> TAKE i \in 1 .. (Usage + a) - m
  <2>1. m + i \in 1 .. Usage + a
    BY <1>0, <1>1, <1>5
  <2>2. CASE m + i <= Usage
    <3>1. i \in 1 .. Usage - m
      BY <1>0, <1>1, <2>2
    <3> QED BY <1>7, <1>9, <2>1, <2>2, <3>1
  <2>3. CASE ~(m + i <= Usage)
    <3>1. PICK j : j = (m + i) - Usage
      OBVIOUS
    <3>2. j \in 1 .. a /\ d + (Usage - m) + j = d + i
      BY <1>0, <1>1, <1>5, <1>9, <2>3, <3>1
    <3>3. fetchBuffer'[m + i].inst = Arriving[j]
      BY <1>6, <1>7, <2>1, <2>3, <3>1, <3>2
    <3> QED BY <1>9, <3>2, <3>3
  <2> QED BY <2>2, <2>3
<1>12. m \in 0 .. Usage + a /\ d + ((Usage + a) - m) + 0 = next - 1
  BY <1>0, <1>1, <1>5, <1>9
<1>13. Len(Arriving') = 0
  BY <1>4
<1>14. /\ delivered' \in Seq(Program) /\ Len(delivered') = d
       /\ \A i \in 1 .. Len(delivered') : delivered'[i] = i
  BY <1>1, <1>3, <1>8 DEF IsAccounted
<1>15. \A i \in 1 .. Len(Arriving') : Arriving'[i] = d + ((Usage + a) - m) + i
  BY <1>13
<1>16. PICK u : u = Usage + a
  OBVIOUS
<1>17. Usage' = u /\ m \in 0 .. u
  BY <1>7, <1>12, <1>16
<1>18. /\ \A i \in 1 .. u : "SentToMemory" \in fetchBuffer'[i].flags <=> i <= m
       /\ \A i \in 1 .. u - m : fetchBuffer'[m + i].inst = d + i
       /\ \A i \in 1 .. Len(Arriving') : Arriving'[i] = d + (u - m) + i
       /\ d + (u - m) + Len(Arriving') = next' - 1
  BY <1>3, <1>10, <1>11, <1>12, <1>13, <1>15, <1>16
<1>19. IsAccounted(m)'
  BY <1>14, <1>17, <1>18 DEF IsAccounted
<1> QED BY <1>17, <1>19 DEF AllAccounted

LEMMA AccountedServed ==
  ASSUME FetcherInductive, Sized, AllAccounted, Elsewhere, Arriving = <<>>
  PROVE  AllAccounted'
<1>0. FetcherTypeOK /\ Usage \in Nat /\ next \in 1 .. Instructions + 1 /\ Instructions \in Nat
  BY Typed, FetcherAssumption DEF FetcherInductive, FetcherTypeOK
<1>1. PICK m \in 0 .. Usage : IsAccounted(m)
  BY DEF AllAccounted
<1>2. UNCHANGED <<fetchBuffer, delivered>> /\ next' = next + NumberServed /\ Usage' = Usage
  BY DEF Elsewhere, Usage
<1>3. Arriving' = Responses
  BY MessagesMoveOn
<1>4. PICK n : n = NumberServed
  OBVIOUS
<1>5. n \in 0 .. Remaining /\ Arriving' = Ahead(n) /\ Len(Arriving') = n
  BY <1>0, <1>3, <1>4, EverythingServedFits
<1>6. \A i \in 1 .. n : Arriving'[i] = next + i - 1
  BY <1>0, <1>5, AheadIsSeq
<1>7. PICK d : d = Len(delivered)
  OBVIOUS
<1>8. d \in Nat /\ d + (Usage - m) + 0 = next - 1
  <2>1. Len(Arriving) = 0
    OBVIOUS
  <2> QED BY <1>1, <1>7, <2>1, LenProperties DEF IsAccounted
<1>9. n \in Nat
  BY <1>0, <1>5 DEF Remaining
<1>10. \A i \in 1 .. n : Arriving'[i] = d + (Usage - m) + i
  BY <1>0, <1>1, <1>6, <1>8, <1>9
<1>11. d + (Usage - m) + n = next' - 1
  BY <1>0, <1>1, <1>2, <1>4, <1>8, <1>9
<1>12. IsAccounted(m)'
  BY <1>1, <1>2, <1>5, <1>7, <1>10, <1>11 DEF IsAccounted
<1> QED BY <1>1, <1>2, <1>12 DEF AllAccounted
LEMMA AccountedAsBefore ==
  ASSUME AllAccounted, fetchBuffer' = fetchBuffer, delivered' = delivered,
         Arriving' = Arriving, next' = next
  PROVE  AllAccounted'
<1>1. PICK m \in 0 .. Usage : IsAccounted(m)
  BY DEF AllAccounted
<1>2. Usage' = Usage
  BY DEF Usage
<1>3. IsAccounted(m)'
  BY <1>1, <1>2 DEF IsAccounted
<1> QED BY <1>1, <1>2, <1>3 DEF AllAccounted

(***************************************************************************)
(* With parameters that keep the pace nothing arrives unseen, and so       *)
(* nothing is lost.                                                        *)
(***************************************************************************)
FetcherAccounted == FetcherPaced /\ (SafelyPaced => AllAccounted)

LEMMA NothingArrivesUnseen ==
  ASSUME FetcherPaced, SafelyPaced, step = "Elsewhere"
  PROVE  Arriving = <<>>
<1>1. CASE predictor = "none"
  BY <1>1 DEF FetcherPaced, Unpredicted
<1>2. CASE predictor # "none"
  <2>1. predictor = "prompt" /\ IsSafe
    BY <1>2 DEF SafelyPaced, IsSafe
  <2> QED BY <2>1 DEF FetcherPaced, Safe, InTime
<1> QED BY <1>1, <1>2

LEMMA AccountedStep ==
  ASSUME FetcherAccounted, [Next]_fetcherVars
  PROVE  FetcherAccounted'
<1>0. FetcherPaced /\ FetcherInductive /\ FetcherTypeOK /\ Sized /\ AreChannels(channel)
  BY DEF FetcherAccounted, FetcherPaced, FetcherInductive, FetcherTypeOK
<1>1. FetcherPaced'
  BY <1>0, PacedStep
<1>2. SafelyPaced' <=> SafelyPaced
  BY DEF SafelyPaced, Next, Clock, ClockSendBuffered, ClockCheckPredictor, ClockUnbuffer,
         PaysPenalty, StartsPenalty, PaysNoPenalty, ClockFetch, ClockRequestFetch, Elsewhere,
         fetcherVars, envVars, configVars
<1>3. ASSUME SafelyPaced PROVE AllAccounted'
  <2>0. AllAccounted
    BY <1>3 DEF FetcherAccounted
  <2>1. CASE ClockSendBuffered
    BY <1>0, <2>0, <2>1, AccountedSends
  <2>2. CASE ClockCheckPredictor
    BY <1>0, <2>0, <2>2, AccountedChecks
  <2>3. CASE ClockUnbuffer
    BY <1>0, <2>0, <2>3, AccountedLeave
  <2>4. CASE PenaltyStep
    <3>1. UNCHANGED <<fetchBuffer, delivered, channel, next>>
      BY <2>4 DEF PenaltyStep, PaysPenalty, StartsPenalty, PaysNoPenalty, envVars
    <3> QED BY <2>0, <3>1, AccountedAsBefore DEF Arriving, Readable
  <2>5. CASE ClockFetch
    BY <1>0, <2>0, <2>5, AccountedArrive
  <2>6. CASE ClockRequestFetch
    <3>1. Arriving' = Arriving
      BY <1>0, <2>6, RequestIsWritten
    <3>2. UNCHANGED <<fetchBuffer, delivered, next>>
      BY <2>6 DEF ClockRequestFetch, envVars
    <3> QED BY <2>0, <3>1, <3>2, AccountedAsBefore
  <2>7. CASE Elsewhere
    <3>1. Arriving = <<>>
      BY <1>0, <1>3, <2>7, NothingArrivesUnseen DEF Elsewhere
    <3> QED BY <1>0, <2>0, <2>7, <3>1, AccountedServed
  <2>8. CASE UNCHANGED fetcherVars
    BY <2>0, <2>8, AccountedAsBefore DEF fetcherVars, envVars, Arriving, Readable
  <2> QED BY <2>1, <2>2, <2>3, <2>4, <2>5, <2>6, <2>7, <2>8 DEF Next, Clock, PenaltyStep
<1> QED BY <1>1, <1>2, <1>3 DEF FetcherAccounted

LEMMA AccountedIsBuffered ==
  ASSUME FetcherInductive, AllAccounted
  PROVE  EveryInstructionIsBuffered
<1>0. Usage \in Nat /\ Arriving \in Seq(Program) /\ next \in Nat /\ FetcherTypeOK
  BY Typed, FetcherAssumption DEF FetcherInductive, FetcherTypeOK, Arriving
<1>1. PICK m \in 0 .. Usage : IsAccounted(m)
  BY DEF AllAccounted
<1>2. Leading({"SentToMemory"}) = m
  <2>1. \A i \in 1 .. Usage : {"SentToMemory"} \subseteq fetchBuffer[i].flags <=> i <= m
    BY <1>1 DEF IsAccounted
  <2> QED BY <1>0, <1>1, <2>1, LeadingIs
<1>3. PICK w, d, a, b :
        /\ w = Usage - m /\ d = Len(delivered) /\ a = Len(Arriving) /\ b = d + w
  OBVIOUS
<1>4. w \in Nat /\ d \in Nat /\ a \in Nat /\ b \in Nat
  <2>1. d \in Nat
    BY <1>1, <1>3, LenProperties DEF IsAccounted
  <2>2. a \in Nat
    BY <1>0, <1>3, LenProperties
  <2>3. w \in Nat
    BY <1>0, <1>1, <1>3
  <2> QED BY <1>3, <2>1, <2>2, <2>3
<1>5. /\ \A i \in 1 .. w : fetchBuffer[m + i].inst = d + i
      /\ \A i \in 1 .. a : Arriving[i] = b + i
      /\ delivered \in Seq(Program) /\ \A i \in 1 .. d : delivered[i] = i
      /\ b + a = next - 1
  BY <1>1, <1>3 DEF IsAccounted
<1>6. Waiting = [i \in 1 .. w |-> fetchBuffer[m + i].inst]
  BY <1>2, <1>3 DEF Waiting
<1>7. Waiting \in Seq(Program) /\ Len(Waiting) = w /\ \A i \in 1 .. w : Waiting[i] = d + i
  <2>1. \A i \in 1 .. w : m + i \in 1 .. Usage
    BY <1>0, <1>1, <1>3
  <2>2. \A i \in 1 .. w : fetchBuffer[m + i].inst \in Program
    BY <1>0, <2>1, Typed
  <2>3. Waiting \in [1 .. w -> Program]
    BY <1>6, <2>2
  <2>4. Waiting \in Seq(Program) /\ Len(Waiting) = w
    BY <1>4, <2>3, FunctionIsSeq
  <2> QED BY <1>5, <1>6, <2>4
<1>8. PICK x : x = delivered \o Waiting
  OBVIOUS
<1>9. /\ x \in Seq(Program) /\ Len(x) = b
      /\ \A i \in 1 .. b : x[i] = IF i <= d THEN delivered[i] ELSE Waiting[i - d]
  <2>1. /\ x \in Seq(Program) /\ Len(x) = d + w
        /\ \A i \in 1 .. d + w : x[i] = IF i <= d THEN delivered[i] ELSE Waiting[i - d]
    BY <1>3, <1>4, <1>5, <1>7, <1>8, Joined
  <2> QED BY <1>3, <2>1
<1>10. \A i \in 1 .. b : x[i] = i
  <2> TAKE i \in 1 .. b
  <2>1. CASE i <= d
    BY <1>4, <1>5, <1>9, <2>1
  <2>2. CASE ~(i <= d)
    <3>1. i - d \in 1 .. w /\ d + (i - d) = i
      BY <1>3, <1>4, <2>2
    <3> QED BY <1>7, <1>9, <2>2, <3>1
  <2> QED BY <2>1, <2>2
<1>11. PICK y : y = x \o Arriving
  OBVIOUS
<1>12. /\ y \in Seq(Program) /\ Len(y) = b + a
       /\ \A i \in 1 .. b + a : y[i] = IF i <= b THEN x[i] ELSE Arriving[i - b]
  <2>1. Arriving \in Seq(Program) /\ Len(Arriving) = a /\ a \in Nat /\ b \in Nat
    BY <1>0, <1>3, <1>4
  <2>2. x \in Seq(Program) /\ Len(x) = b
    BY <1>9
  <2>3. /\ x \o Arriving \in Seq(Program) /\ Len(x \o Arriving) = Len(x) + Len(Arriving)
        /\ \A i \in 1 .. Len(x) + Len(Arriving) :
              (x \o Arriving)[i] = IF i <= Len(x) THEN x[i] ELSE Arriving[i - Len(x)]
    BY <2>1, <2>2, ConcatProperties, Zenon
  <2> QED BY <1>11, <2>1, <2>2, <2>3, Zenon
<1>13. \A i \in 1 .. b + a : y[i] = i
  <2> TAKE i \in 1 .. b + a
  <2>1. CASE i <= b
    BY <1>4, <1>10, <1>12, <2>1
  <2>2. CASE ~(i <= b)
    <3>1. i - b \in 1 .. a /\ b + (i - b) = i
      BY <1>4, <2>2
    <3> QED BY <1>5, <1>12, <2>2, <3>1
  <2> QED BY <2>1, <2>2
<1>14. y = [i \in 1 .. next - 1 |-> i]
  <2>1. y \in [1 .. b + a -> Program]
    BY <1>12, LenProperties
  <2> QED BY <1>5, <1>13, <2>1
<1>15. Accounted = y
  BY <1>8, <1>11 DEF Accounted, Arriving
<1> QED BY <1>14, <1>15 DEF EveryInstructionIsBuffered

(***************************************************************************)
(* With parameters that keep the pace no instruction of the engine is lost *)
(* or repeated on its way to the memory, whatever the predictor says:      *)
(* behind each assignment of Clock is exactly what the engine has sent.    *)
(***************************************************************************)
THEOREM NoInstructionIsLost == Spec => []NothingIsLost
<1>1. Init => FetcherAccounted
  BY PacedStarts, AccountedStarts DEF FetcherAccounted
<1>2. FetcherAccounted /\ [Next]_fetcherVars => FetcherAccounted'
  BY AccountedStep
<1>3. FetcherAccounted => NothingIsLost
  <2> SUFFICES ASSUME FetcherAccounted, SafelyPaced PROVE EveryInstructionIsBuffered
    BY DEF NothingIsLost
  <2> QED BY AccountedIsBuffered DEF FetcherAccounted, FetcherPaced
<1> QED BY <1>1, <1>2, <1>3, PTL DEF Spec
-----------------------------------------------------------------------------
(***************************************************************************)
(* BoomFetch.  Sequences of instructions in the order of the program.      *)
(***************************************************************************)
IsAscending(s, A) ==
  /\ s \in Seq(A)
  /\ \A i, j \in 1 .. Len(s) : i < j => s[i] < s[j]
  /\ \A x \in A : \E i \in 1 .. Len(s) : s[i] = x

LEMMA NoneAscend ==
  IsAscending(<<>>, {})
  BY DEF IsAscending

LEMMA Ascends ==
  ASSUME NEW A \in SUBSET Nat, NEW s, IsAscending(s, A)
  PROVE  /\ Len(s) \in Nat
         /\ \A i \in 1 .. Len(s) : s[i] \in A /\ s[i] \in Nat
         /\ \A i, j \in 1 .. Len(s) : s[i] < s[j] <=> i < j
<1>1. Len(s) \in Nat /\ \A i \in 1 .. Len(s) : s[i] \in A /\ s[i] \in Nat
  BY LenProperties, ElementOfSeq DEF IsAscending
<1>2. ASSUME NEW i \in 1 .. Len(s), NEW j \in 1 .. Len(s), s[i] < s[j], ~(i < j)
      PROVE  FALSE
  <2>1. i = j \/ s[j] < s[i]
    BY <1>1, <1>2 DEF IsAscending
  <2>2. s[i] \in Nat /\ s[j] \in Nat
    BY <1>1
  <2> QED BY <1>2, <2>1, <2>2
<1> QED BY <1>1, <1>2 DEF IsAscending

LEMMA JoinedAscend ==
  ASSUME NEW A \in SUBSET Nat, NEW B \in SUBSET Nat, NEW s, NEW t,
         IsAscending(s, A), IsAscending(t, B), \A a \in A, b \in B : a < b
  PROVE  IsAscending(s \o t, A \cup B)
<1>1. /\ Len(s) \in Nat /\ Len(t) \in Nat
      /\ \A i \in 1 .. Len(s) : s[i] \in A
      /\ \A i \in 1 .. Len(t) : t[i] \in B
  BY Ascends
<1>2. s \in Seq(A \cup B) /\ t \in Seq(A \cup B)
  BY <1>1 DEF IsAscending
<1>3. /\ s \o t \in Seq(A \cup B)
      /\ Len(s \o t) = Len(s) + Len(t)
      /\ \A i \in 1 .. Len(s) + Len(t) : (s \o t)[i] = IF i <= Len(s) THEN s[i] ELSE t[i - Len(s)]
  BY <1>2, ConcatProperties
<1>4. PICK u : u = s \o t
  OBVIOUS
<1>5. ASSUME NEW i \in 1 .. Len(u), NEW j \in 1 .. Len(u), i < j PROVE u[i] < u[j]
  <2>1. i \in 1 .. Len(s) + Len(t) /\ j \in 1 .. Len(s) + Len(t)
    BY <1>3, <1>4
  <2>2. CASE j <= Len(s)
    <3>1. i \in 1 .. Len(s) /\ j \in 1 .. Len(s)
      BY <1>1, <1>5, <2>1, <2>2
    <3> QED BY <1>3, <1>4, <1>5, <2>1, <2>2, <3>1 DEF IsAscending
  <2>3. CASE i <= Len(s) /\ ~(j <= Len(s))
    <3>1. i \in 1 .. Len(s) /\ j - Len(s) \in 1 .. Len(t)
      BY <1>1, <2>1, <2>3
    <3>2. u[i] = s[i] /\ u[j] = t[j - Len(s)]
      BY <1>3, <1>4, <2>1, <2>3
    <3> QED BY <1>1, <3>1, <3>2
  <2>4. CASE ~(i <= Len(s))
    <3>1. i - Len(s) \in 1 .. Len(t) /\ j - Len(s) \in 1 .. Len(t) /\ i - Len(s) < j - Len(s) /\ ~(j <= Len(s))
      BY <1>1, <1>5, <2>1, <2>4
    <3>2. u[i] = t[i - Len(s)] /\ u[j] = t[j - Len(s)]
      BY <1>3, <1>4, <2>1, <2>4, <3>1
    <3> QED BY <3>1, <3>2 DEF IsAscending
  <2> QED BY <2>2, <2>3, <2>4
<1>6. ASSUME NEW x \in A \cup B PROVE \E i \in 1 .. Len(u) : u[i] = x
  <2>1. CASE x \in A
    <3>1. PICK i \in 1 .. Len(s) : s[i] = x
      BY <2>1 DEF IsAscending
    <3>2. i \in 1 .. Len(s) + Len(t) /\ i <= Len(s)
      BY <1>1
    <3>3. u[i] = x
      BY <1>3, <1>4, <3>1, <3>2
    <3> QED BY <1>3, <1>4, <3>2, <3>3
  <2>2. CASE x \in B
    <3>1. PICK i \in 1 .. Len(t) : t[i] = x
      BY <2>2 DEF IsAscending
    <3>2. i + Len(s) \in 1 .. Len(s) + Len(t) /\ ~(i + Len(s) <= Len(s)) /\ (i + Len(s)) - Len(s) = i
      BY <1>1
    <3>3. u[i + Len(s)] = x
      BY <1>3, <1>4, <3>1, <3>2
    <3> QED BY <1>3, <1>4, <3>2, <3>3
  <2> QED BY <2>1, <2>2
<1> QED BY <1>3, <1>4, <1>5, <1>6 DEF IsAscending

(***************************************************************************)
(* Of two of them, the one whose elements are the first ones of the other  *)
(* is the beginning of it.                                                 *)
(***************************************************************************)
LEMMA FirstOnesAreThePrefix ==
  ASSUME NEW A \in SUBSET Nat, NEW B \in SUBSET Nat, NEW s, NEW t,
         IsAscending(s, A), IsAscending(t, B), A \subseteq B,
         \A a \in A, b \in B \ A : a < b
  PROVE  \A k \in 1 .. Len(s) : k <= Len(t) /\ t[k] = s[k]
<1>1. /\ Len(s) \in Nat
      /\ \A i \in 1 .. Len(s) : s[i] \in A /\ s[i] \in Nat
      /\ \A i, j \in 1 .. Len(s) : s[i] < s[j] <=> i < j
  BY Ascends
<1>2. /\ Len(t) \in Nat
      /\ \A i \in 1 .. Len(t) : t[i] \in B /\ t[i] \in Nat
      /\ \A i, j \in 1 .. Len(t) : t[i] < t[j] <=> i < j
  BY Ascends
<1> DEFINE Bad == {k \in 1 .. Len(s) : ~(k <= Len(t) /\ t[k] = s[k])}
<1> SUFFICES ASSUME Bad # {} PROVE FALSE
  OBVIOUS
<1>3. Bad \in SUBSET Nat
  BY <1>1
<1>4. PICK k \in Bad : \A j \in Bad : k <= j
  BY <1>3, LeastNumber
<1>5. k \in 1 .. Len(s) /\ ~(k <= Len(t) /\ t[k] = s[k])
  OBVIOUS
<1>6. \A j \in 1 .. Len(s) : j < k => j <= Len(t) /\ t[j] = s[j]
  <2> SUFFICES ASSUME NEW j \in 1 .. Len(s), j < k PROVE j \notin Bad
    OBVIOUS
  <2>1. ~(k <= j)
    BY <1>1, <1>5
  <2> QED BY <1>4, <2>1
<1> HIDE DEF Bad
<1>7. PICK m \in 1 .. Len(t) : t[m] = s[k]
  BY <1>1, <1>5 DEF IsAscending
<1>8. ~(m < k)
  <2> SUFFICES ASSUME m < k PROVE FALSE
    OBVIOUS
  <2>1. m \in 1 .. Len(s)
    BY <1>1, <1>2, <1>5
  <2>2. s[m] = s[k] /\ s[m] < s[k] /\ s[m] \in Nat
    BY <1>1, <1>5, <1>6, <1>7, <2>1
  <2> QED BY <2>2
<1>9. m # k
  BY <1>2, <1>5, <1>7
<1>10. k < m /\ k \in 1 .. Len(t)
  BY <1>1, <1>2, <1>5, <1>8, <1>9
<1>11. t[k] < s[k]
  BY <1>2, <1>7, <1>10
<1>12. t[k] \in A
  <2> SUFFICES ASSUME t[k] \notin A PROVE FALSE
    OBVIOUS
  <2>1. s[k] < t[k] /\ s[k] \in Nat /\ t[k] \in Nat
    BY <1>1, <1>2, <1>5, <1>10
  <2> QED BY <1>11, <2>1
<1>13. PICK j \in 1 .. Len(s) : s[j] = t[k]
  BY <1>12 DEF IsAscending
<1>14. j < k
  BY <1>1, <1>5, <1>11, <1>13
<1>15. t[j] = t[k] /\ j \in 1 .. Len(t) /\ t[j] < t[k] /\ t[k] \in Nat
  <2>1. j <= Len(t) /\ t[j] = s[j]
    BY <1>6, <1>14
  <2>2. j \in 1 .. Len(t)
    BY <1>1, <1>2, <2>1
  <2> QED BY <1>2, <1>10, <1>13, <1>14, <2>1, <2>2
<1> QED BY <1>15
(***************************************************************************)
(* The positions that Ascending puts in order, and what is selected.       *)
(***************************************************************************)
LEMMA OneMoreAscends ==
  ASSUME NEW A \in SUBSET Nat, NEW s, IsAscending(s, A), NEW x \in Nat, \A a \in A : a < x
  PROVE  IsAscending(Append(s, x), A \cup {x})
<1>1. IsAscending(<<x>>, {x})
  BY DEF IsAscending
<1>2. IsAscending(s \o <<x>>, A \cup {x})
  BY <1>1, JoinedAscend
<1>3. s \in Seq(A \cup {x}) /\ x \in A \cup {x}
  BY DEF IsAscending
<1>4. Append(s, x) = s \o <<x>>
  BY <1>3, AppendIsConcat
<1> QED BY <1>2, <1>4

LEMMA AscendingIs ==
  ASSUME NEW n \in Nat, NEW T \in SUBSET (1 .. n)
  PROVE  IsAscending(Ascending(T, n), T)
<1> DEFINE V == Seq(1 .. n)
           g == [x \in (1 .. n) \X V |-> IF x[1] \in T THEN Append(x[2], x[1]) ELSE x[2]]
<1>1. g \in [(1 .. n) \X V -> V]
  <2>1. ASSUME NEW x \in (1 .. n) \X V
        PROVE  (IF x[1] \in T THEN Append(x[2], x[1]) ELSE x[2]) \in V
    <3>1. x[1] \in 1 .. n /\ x[2] \in Seq(1 .. n)
      OBVIOUS
    <3>2. Append(x[2], x[1]) \in Seq(1 .. n)
      BY <3>1, AppendProperties
    <3> QED BY <3>1, <3>2
  <2> HIDE DEF V
  <2> QED BY <2>1
<1>2. <<>> \in V
  BY EmptySeq
<1>3. PICK f : f \in [0 .. n -> V] /\ IsRecursion(f, <<>>, g, n)
  <2> HIDE DEF g, V
  <2> QED BY <1>1, <1>2, RecursionExists
<1>4. \A k \in 0 .. n : k # 0 => k - 1 \in 0 .. n /\ k \in 1 .. n
  OBVIOUS
<1>5. \A k \in 0 .. n :
        f[k] = IF k = 0 THEN <<>>
               ELSE IF k \in T THEN Append(f[k - 1], k) ELSE f[k - 1]
  <2> TAKE k \in 0 .. n
  <2>1. f[k] = Recursion(f, <<>>, g, k)
    BY <1>3 DEF IsRecursion
  <2>2. CASE k = 0
    BY <2>1, <2>2 DEF Recursion
  <2>3. CASE k # 0
    <3>1. <<k, f[k - 1]>> \in (1 .. n) \X V
      BY <1>3, <1>4, <2>3
    <3>2. g[<<k, f[k - 1]>>] = IF k \in T THEN Append(f[k - 1], k) ELSE f[k - 1]
      BY <3>1
    <3> HIDE DEF g
    <3> QED BY <2>1, <2>3, <3>2 DEF Recursion
  <2> QED BY <2>2, <2>3
<1> HIDE DEF g, V
<1>6. f = [k \in 0 .. n |-> IF k = 0 THEN <<>>
                            ELSE IF k \in T THEN Append(f[k - 1], k) ELSE f[k - 1]]
  BY <1>3, <1>5
<1> DEFINE upTo == CHOOSE h : h = [k \in 0 .. n |->
                                     IF k = 0 THEN <<>>
                                     ELSE IF k \in T THEN Append(h[k - 1], k) ELSE h[k - 1]]
<1>7. upTo = [k \in 0 .. n |-> IF k = 0 THEN <<>>
                               ELSE IF k \in T THEN Append(upTo[k - 1], k) ELSE upTo[k - 1]]
  BY <1>6
<1>8. Ascending(T, n) = upTo[n]
  BY DEF Ascending
<1> HIDE DEF upTo
<1>a. \A x \in T : x \in Nat /\ 1 <= x /\ x <= n
  OBVIOUS
<1>9. \A k \in 0 .. n : upTo[k] = IF k = 0 THEN <<>>
                                  ELSE IF k \in T THEN Append(upTo[k - 1], k) ELSE upTo[k - 1]
  BY <1>7
<1> DEFINE Upto(k) == {x \in T : x <= k}
           S == {k \in Nat : k <= n => IsAscending(upTo[k], Upto(k))}
<1>10. 0 \in S
  <2>1. Upto(0) = {}
    <3>1. ASSUME NEW x \in T PROVE ~(x <= 0)
      BY <1>a
    <3> QED BY <3>1
  <2>2. upTo[0] = <<>>
    BY <1>9
  <2> QED BY <2>1, <2>2, NoneAscend
<1>11. ASSUME NEW k \in S PROVE k + 1 \in S
  <2> SUFFICES ASSUME k + 1 <= n PROVE IsAscending(upTo[k + 1], Upto(k + 1))
    OBVIOUS
  <2>1. k \in Nat /\ k + 1 \in 0 .. n /\ k + 1 # 0 /\ (k + 1) - 1 = k /\ k <= n
    OBVIOUS
  <2>2. IsAscending(upTo[k], Upto(k))
    BY <2>1
  <2>3. Upto(k) \in SUBSET Nat /\ \A a \in Upto(k) : a < k + 1
    <3>1. ASSUME NEW x \in T, x <= k PROVE x \in Nat /\ x < k + 1
      BY <1>a, <2>1, <3>1
    <3> QED BY <3>1
  <2>6. \A x \in T : x <= k + 1 <=> x <= k \/ x = k + 1
    BY <1>a, <2>1
  <2>4. CASE k + 1 \in T
    <3>1. upTo[k + 1] = Append(upTo[k], k + 1)
      BY <1>9, <2>1, <2>4
    <3>2. Upto(k + 1) = Upto(k) \cup {k + 1}
      <4>1. \A x : x \in Upto(k + 1) <=> x \in Upto(k) \cup {k + 1}
        BY <2>4, <2>6
      <4> QED BY <4>1
    <3> HIDE DEF Upto
    <3>3. IsAscending(Append(upTo[k], k + 1), Upto(k) \cup {k + 1})
      BY <2>1, <2>2, <2>3, k + 1 \in Nat, OneMoreAscends
    <3> QED BY <3>1, <3>2, <3>3
  <2>5. CASE k + 1 \notin T
    <3>1. upTo[k + 1] = upTo[k]
      BY <1>9, <2>1, <2>5
    <3>2. Upto(k + 1) = Upto(k)
      <4>1. \A x : x \in Upto(k + 1) <=> x \in Upto(k)
        BY <2>5, <2>6
      <4> QED BY <4>1
    <3> QED BY <2>2, <3>1, <3>2
  <2> QED BY <2>4, <2>5
<1>12. S \in SUBSET Nat
  OBVIOUS
<1>13. n \in S
  <2> HIDE DEF S
  <2>1. S = Nat
    BY <1>10, <1>11, <1>12, Induction
  <2> QED BY <2>1
<1>14. Upto(n) = T
  BY <1>a
<1> QED BY <1>8, <1>13, <1>14

LEMMA SelectedIs ==
  ASSUME NEW X, NEW s \in Seq(X), NEW T \in SUBSET (1 .. Len(s))
  PROVE  /\ Selected(s, T) \in Seq({s[k] : k \in T})
         /\ \E at : /\ IsAscending(at, T) /\ Len(Selected(s, T)) = Len(at)
                    /\ \A i \in 1 .. Len(at) : Selected(s, T)[i] = s[at[i]]
<1>1. Len(s) \in Nat
  BY LenProperties
<1>2. PICK at : at = Ascending(T, Len(s))
  OBVIOUS
<1>3. IsAscending(at, T) /\ T \in SUBSET Nat
  BY <1>1, <1>2, AscendingIs
<1>4. Len(at) \in Nat /\ \A i \in 1 .. Len(at) : at[i] \in T
  BY <1>3, Ascends
<1>5. Selected(s, T) = [i \in 1 .. Len(at) |-> s[at[i]]]
  BY <1>2 DEF Selected
<1>6. Selected(s, T) \in [1 .. Len(at) -> {s[k] : k \in T}]
  BY <1>4, <1>5
<1>7. Selected(s, T) \in Seq({s[k] : k \in T}) /\ Len(Selected(s, T)) = Len(at)
  BY <1>4, <1>6, FunctionIsSeq
<1> QED BY <1>3, <1>5, <1>7

LEMMA SelectedAscend ==
  ASSUME NEW A \in SUBSET Nat, NEW s, IsAscending(s, A), NEW T \in SUBSET (1 .. Len(s))
  PROVE  IsAscending(Selected(s, T), {s[k] : k \in T})
<1>1. /\ Len(s) \in Nat
      /\ \A i \in 1 .. Len(s) : s[i] \in A /\ s[i] \in Nat
      /\ \A i, j \in 1 .. Len(s) : s[i] < s[j] <=> i < j
  BY Ascends
<1>2. s \in Seq(A)
  BY DEF IsAscending
<1>3. Selected(s, T) \in Seq({s[k] : k \in T})
  BY <1>2, SelectedIs
<1>4. PICK at : /\ IsAscending(at, T) /\ Len(Selected(s, T)) = Len(at)
                /\ \A i \in 1 .. Len(at) : Selected(s, T)[i] = s[at[i]]
  BY <1>2, SelectedIs
<1>5. T \in SUBSET Nat
  BY <1>1
<1>6. /\ Len(at) \in Nat /\ \A i \in 1 .. Len(at) : at[i] \in T
      /\ \A i, j \in 1 .. Len(at) : at[i] < at[j] <=> i < j
  BY <1>4, <1>5, Ascends
<1>7. \A i, j \in 1 .. Len(at) : i < j => s[at[i]] < s[at[j]]
  <2> SUFFICES ASSUME NEW i \in 1 .. Len(at), NEW j \in 1 .. Len(at), i < j
               PROVE  s[at[i]] < s[at[j]]
    OBVIOUS
  <2>1. at[i] < at[j] /\ at[i] \in 1 .. Len(s) /\ at[j] \in 1 .. Len(s)
    BY <1>6
  <2> QED BY <1>1, <2>1
<1>8. \A x \in {s[k] : k \in T} : \E i \in 1 .. Len(at) : s[at[i]] = x
  <2> SUFFICES ASSUME NEW k \in T PROVE \E i \in 1 .. Len(at) : s[at[i]] = s[k]
    OBVIOUS
  <2>1. PICK i \in 1 .. Len(at) : at[i] = k
    BY <1>4 DEF IsAscending
  <2> QED BY <2>1
<1>9. PICK u : u = Selected(s, T)
  OBVIOUS
<1>10. Len(u) = Len(at) /\ \A i \in 1 .. Len(at) : u[i] = s[at[i]]
  BY <1>4, <1>9
<1>11. \A i, j \in 1 .. Len(u) : i < j => u[i] < u[j]
  BY <1>7, <1>10
<1>12. \A x \in {s[k] : k \in T} : \E i \in 1 .. Len(u) : u[i] = x
  <2> SUFFICES ASSUME NEW x \in {s[k] : k \in T} PROVE \E i \in 1 .. Len(u) : u[i] = x
    OBVIOUS
  <2>1. PICK i \in 1 .. Len(at) : s[at[i]] = x
    BY <1>8
  <2> QED BY <1>10, <2>1
<1> QED BY <1>3, <1>9, <1>11, <1>12 DEF IsAscending
(***************************************************************************)
(* The rest of a sequence behind its beginning.                            *)
(***************************************************************************)
AreJoined(s, t, u) == u = s \o t

LEMMA SplitAscend ==
  ASSUME NEW A \in SUBSET Nat, NEW X, NEW s \in Seq(X), NEW t \in Seq(X), NEW u,
         AreJoined(s, t, u), IsAscending(u, A), NEW B, B = ToSet(s)
  PROVE  B \subseteq A /\ IsAscending(s, B) /\ IsAscending(t, A \ B)
<1>1. u = s \o t
  BY DEF AreJoined
<1>b. B = {s[i] : i \in 1 .. Len(s)}
  BY LenProperties DEF ToSet
<1>2. Len(s) \in Nat /\ Len(t) \in Nat
  BY LenProperties
<1>3. PICK a, b : a = Len(s) /\ b = Len(t)
  OBVIOUS
<1>4. /\ Len(u) = a + b /\ a \in Nat /\ b \in Nat
      /\ \A i \in 1 .. a + b : u[i] = IF i <= a THEN s[i] ELSE t[i - a]
  BY <1>1, <1>2, <1>3, Joined
<1>5. \A i \in 1 .. a : i \in 1 .. a + b /\ u[i] = s[i]
  <2>1. \A i \in 1 .. a : i \in 1 .. a + b /\ i <= a
    BY <1>4
  <2> QED BY <1>4, <2>1
<1>6. \A i \in 1 .. b : a + i \in 1 .. a + b /\ u[a + i] = t[i]
  <2>1. \A i \in 1 .. b : a + i \in 1 .. a + b /\ ~(a + i <= a) /\ (a + i) - a = i
    BY <1>4
  <2> QED BY <1>4, <2>1
<1>7. /\ \A i \in 1 .. a + b : u[i] \in A /\ u[i] \in Nat
      /\ \A i, j \in 1 .. a + b : u[i] < u[j] <=> i < j
  BY <1>1, <1>4, Ascends
<1>8. B \subseteq A
  BY <1>b, <1>3, <1>5, <1>7
<1>9. IsAscending(s, B)
  <2>1. s \in Seq(B)
    <3>1. s \in [1 .. Len(s) -> B]
      BY <1>b, LenProperties
    <3> QED BY <1>2, <3>1, FunctionIsSeq
  <2>2. \A i, j \in 1 .. Len(s) : i < j => s[i] < s[j]
    BY <1>3, <1>5, <1>7
  <2>3. \A z \in B : \E i \in 1 .. Len(s) : s[i] = z
    BY <1>b
  <2> QED BY <2>1, <2>2, <2>3 DEF IsAscending
<1>10. \A i \in 1 .. b : t[i] \in A \ B
  <2> SUFFICES ASSUME NEW i \in 1 .. b PROVE t[i] \in A /\ t[i] \notin B
    OBVIOUS
  <2>1. ASSUME NEW j \in 1 .. a PROVE s[j] # t[i]
    <3>1. j < a + i /\ j \in 1 .. a + b /\ a + i \in 1 .. a + b
      BY <1>4
    <3>2. u[j] < u[a + i] /\ u[j] = s[j] /\ u[a + i] = t[i] /\ u[j] \in Nat
      BY <1>5, <1>6, <1>7, <3>1
    <3> QED BY <3>2
  <2>2. t[i] \in A
    BY <1>6, <1>7
  <2> QED BY <1>b, <1>3, <2>1, <2>2
<1>11. IsAscending(t, A \ B)
  <2>1. t \in Seq(A \ B)
    <3> DEFINE C == A \ B
    <3>1. t \in [1 .. Len(t) -> C]
      BY <1>3, <1>10, LenProperties
    <3> HIDE DEF C
    <3>2. t \in Seq(C)
      BY <1>2, <3>1, FunctionIsSeq
    <3> QED BY <3>2 DEF C
  <2>2. \A i, j \in 1 .. Len(t) : i < j => t[i] < t[j]
    <3> SUFFICES ASSUME NEW i \in 1 .. b, NEW j \in 1 .. b, i < j PROVE t[i] < t[j]
      BY <1>3
    <3>1. a + i < a + j
      BY <1>4
    <3>2. a + i \in 1 .. a + b /\ a + j \in 1 .. a + b
      BY <1>6
    <3>3. u[a + i] < u[a + j]
      BY <1>7, <3>1, <3>2
    <3> QED BY <1>6, <3>3
  <2>3. ASSUME NEW x \in A \ B PROVE \E i \in 1 .. Len(t) : t[i] = x
    <3>1. PICK i \in 1 .. a + b : u[i] = x
      BY <1>1, <1>4 DEF IsAscending
    <3>2. ~(i <= a)
      <4> SUFFICES ASSUME i <= a PROVE FALSE
        OBVIOUS
      <4>1. i \in 1 .. Len(s) /\ s[i] = x
        BY <1>3, <1>4, <1>5, <3>1
      <4> QED BY <1>b, <4>1
    <3>3. i - a \in 1 .. b /\ a + (i - a) = i
      BY <1>4, <3>2
    <3>4. t[i - a] = x
      BY <1>6, <3>1, <3>3
    <3> QED BY <1>3, <3>3, <3>4
  <2> QED BY <2>1, <2>2, <2>3 DEF IsAscending
<1> QED BY <1>8, <1>9, <1>11
-----------------------------------------------------------------------------
BoomSteps == Steps \cup {"ClockCheckRas", "ClockCheckBTB"}

BoomFlags == Flags \cup {"SentToRas", "SentToBTB", "BTBCheck"}

BoomEntry == [inst : Program, flags : SUBSET BoomFlags]

Request == [type : {"Query", "AddEntry", "Update"}, inst : Program]

AreInside(c) ==
  c = [x \in {"ras", "btb"} |-> [written |-> c[x].written, readable |-> c[x].readable]]

BoomTypeOK ==
  /\ hasPredictor
  /\ misspredictPenalty \in Nat \ {0}
  /\ step \in BoomSteps
  /\ fetchBuffer \in Seq(BoomEntry)
  /\ currentPenalty \in 0 .. misspredictPenalty
  /\ next \in 1 .. Instructions + 1
  /\ asked \in Seq(Program)
  /\ AreChannels(channel)
  /\ Readable("response") \in Seq(Program)
  /\ Readable("query") \in Seq(Program) /\ channel["query"].written \in Seq(Program)
  /\ Readable("prediction") \in Seq(Prediction)
  /\ AreInside(inside)
  /\ inside["btb"].readable \in Seq(Request) /\ inside["btb"].written \in Seq(Request)
  /\ ras = [buffer |-> ras.buffer, end |-> ras.end]
  /\ DOMAIN ras.buffer = 0 .. rasSize - 1 /\ ras.end \in 0 .. rasSize - 1

(***************************************************************************)
(* The flags of an entry agree, and two of them are on the first entries.  *)
(***************************************************************************)
Has(k, flag) == flag \in fetchBuffer[k].flags

FlagsAgree ==
  \A k \in 1 .. Usage :
    /\ Has(k, "SentToBTB") <=> Has(k, "SentToMemory") /\ IsBranch(fetchBuffer[k].inst)
    /\ Has(k, "BTBCheck") => Has(k, "SentToBTB")
    /\ Has(k, "Predicted") => Has(k, "SentToMemory")

FlagsLead ==
  \A j, k \in 1 .. Usage, f \in {"SentToMemory", "Predicted"} :
    j < k /\ Has(k, f) => Has(j, f)

(***************************************************************************)
(* The instructions the predictor has to answer are, in their order, in    *)
(* its responses, in its hands, in the queries it reads now, and in those  *)
(* it will read.                                                           *)
(***************************************************************************)
InstsAt(K) == {fetchBuffer[k].inst : k \in K}

Unanswered == InstsAt({k \in 1 .. Usage : Has(k, "SentToMemory") /\ ~Has(k, "Predicted")})

Predicting == [i \in 1 .. Len(Readable("prediction")) |-> Readable("prediction")[i].inst]

Pipe == (Predicting \o asked) \o (Readable("query") \o channel["query"].written)

AwaitsPredictor ==
  /\ IsAscending(Pipe, Unanswered)
  /\ step = "ClockSendBuffered" => channel["query"].written = <<>>
  /\ step \notin {"ClockSendBuffered", "ClockCheckPredictor"} => Readable("prediction") = <<>>

(***************************************************************************)
(* The branch target buffer has to answer the queries among the requests   *)
(* it reads now and among those it will read.                              *)
(***************************************************************************)
Awaited == InstsAt({k \in 1 .. Usage : IsAwaited(fetchBuffer[k])})

QueriesIn(s) == {n \in 1 .. Len(s) : s[n].type = "Query"}

Queried(s) == {s[n].inst : n \in QueriesIn(s)}

QueriesAscend(s) == \A m, n \in QueriesIn(s) : m < n => s[m].inst < s[n].inst

AwaitsBTB ==
  /\ Queried(inside["btb"].readable) \cup Queried(inside["btb"].written) = Awaited
  /\ \A i \in Queried(inside["btb"].readable), j \in Queried(inside["btb"].written) : i < j
  /\ QueriesAscend(inside["btb"].readable) /\ QueriesAscend(inside["btb"].written)
  /\ step \notin {"ClockCheckPredictor", "ClockCheckRas", "ClockCheckBTB"} =>
       Queried(inside["btb"].written) = {}

BoomInductive ==
  /\ BoomTypeOK /\ InProgramOrder /\ FlagsAgree /\ FlagsLead
  /\ AwaitsPredictor /\ AwaitsBTB
-----------------------------------------------------------------------------
LEMMA BoomTyped ==
  ASSUME BoomTypeOK
  PROVE  /\ Usage \in Nat
         /\ \A k \in 1 .. Usage : /\ fetchBuffer[k] = [inst |-> fetchBuffer[k].inst, flags |-> fetchBuffer[k].flags]
                                  /\ fetchBuffer[k].inst \in Program /\ fetchBuffer[k].inst \in Nat
                                  /\ fetchBuffer[k].flags \in SUBSET BoomFlags
         /\ Len(Readable("prediction")) \in Nat
         /\ Unanswered \in SUBSET Nat /\ Awaited \in SUBSET Program /\ Program \in SUBSET Nat
<1>1. fetchBuffer \in Seq(BoomEntry)
  BY DEF BoomTypeOK
<1>2. Usage \in Nat /\ \A k \in 1 .. Usage : fetchBuffer[k] \in BoomEntry
  BY <1>1, ElementOfSeq, LenProperties DEF Usage
<1>3. Program \in SUBSET Nat
  BY FetcherAssumption DEF Program
<1>4. \A k \in 1 .. Usage : fetchBuffer[k].inst \in Program
  BY <1>2 DEF BoomEntry
<1>5. Unanswered \in SUBSET Nat /\ Awaited \in SUBSET Program
  BY <1>3, <1>4 DEF Unanswered, Awaited, InstsAt
<1>6. Len(Readable("prediction")) \in Nat
  BY LenProperties DEF BoomTypeOK
<1> QED BY <1>2, <1>3, <1>4, <1>5, <1>6 DEF BoomEntry

(***************************************************************************)
(* Entries are in the order of their instructions.                         *)
(***************************************************************************)
LEMMA BufferOrder ==
  ASSUME BoomTypeOK, InProgramOrder, NEW j \in 1 .. Usage, NEW k \in 1 .. Usage
  PROVE  /\ fetchBuffer[j].inst < fetchBuffer[k].inst <=> j < k
         /\ fetchBuffer[j].inst = fetchBuffer[k].inst <=> j = k
<1>1. Usage \in Nat /\ fetchBuffer[j].inst \in Nat /\ fetchBuffer[k].inst \in Nat
  BY BoomTyped
<1>2. j < k \/ k < j \/ j = k
  BY <1>1
<1>3. j < k => fetchBuffer[j].inst < fetchBuffer[k].inst
  BY DEF InProgramOrder
<1>4. k < j => fetchBuffer[k].inst < fetchBuffer[j].inst
  BY DEF InProgramOrder
<1> QED BY <1>1, <1>2, <1>3, <1>4

LEMMA StretchAscends ==
  ASSUME BoomTypeOK, InProgramOrder, NEW m \in 0 .. Usage, NEW l \in m .. Usage
  PROVE  LET s == [k \in 1 .. l - m |-> fetchBuffer[m + k].inst]
         IN  /\ s \in Seq(Program) /\ Len(s) = l - m
             /\ IsAscending(s, InstsAt(m + 1 .. l))
<1> DEFINE s == [k \in 1 .. l - m |-> fetchBuffer[m + k].inst]
<1>0. Usage \in Nat /\ \A k \in 1 .. Usage : fetchBuffer[k].inst \in Program
  BY BoomTyped
<1>1. /\ l - m \in Nat
      /\ \A k \in 1 .. l - m : m + k \in 1 .. Usage /\ m + k \in m + 1 .. l
      /\ \A k \in m + 1 .. l : k - m \in 1 .. l - m /\ m + (k - m) = k
  BY <1>0
<1>2. s \in [1 .. l - m -> InstsAt(m + 1 .. l)] /\ s \in [1 .. l - m -> Program]
  BY <1>0, <1>1 DEF InstsAt
<1>3. s \in Seq(InstsAt(m + 1 .. l)) /\ s \in Seq(Program) /\ Len(s) = l - m
  <2> HIDE DEF s
  <2> QED BY <1>1, <1>2, FunctionIsSeq
<1>4. ASSUME NEW j \in 1 .. l - m, NEW k \in 1 .. l - m, j < k PROVE s[j] < s[k]
  <2>1. m + j < m + k
    BY <1>4, <1>0
  <2>2. fetchBuffer[m + j].inst < fetchBuffer[m + k].inst
    BY <1>1, <2>1 DEF InProgramOrder
  <2> QED BY <2>2
<1>5. ASSUME NEW x \in InstsAt(m + 1 .. l) PROVE \E k \in 1 .. l - m : s[k] = x
  <2>1. PICK k \in m + 1 .. l : x = fetchBuffer[k].inst
    BY DEF InstsAt
  <2>2. s[k - m] = x
    BY <1>1, <2>1
  <2> QED BY <1>1, <2>2
<1> HIDE DEF s
<1>6. IsAscending(s, InstsAt(m + 1 .. l))
  BY <1>3, <1>4, <1>5 DEF IsAscending
<1> QED BY <1>3, <1>6 DEF s

(***************************************************************************)
(* The entries that carry a flag which is on the first ones.               *)
(***************************************************************************)
LEMMA LeadingSplits ==
  ASSUME Usage \in Nat, FlagsLead, NEW f \in {"SentToMemory", "Predicted"}
  PROVE  /\ Leading({f}) \in 0 .. Usage
         /\ \A k \in 1 .. Usage : Has(k, f) <=> k <= Leading({f})
<1> DEFINE T == {n \in 0 .. Usage : \A i \in 1 .. n : {f} \subseteq fetchBuffer[i].flags}
<1>1. Leading({f}) = Max(T)
  BY DEF Leading
<1>2. T \in SUBSET (0 .. Usage) /\ 0 \in T
  OBVIOUS
<1>3. \A n \in T : \A i \in 1 .. n : Has(i, f)
  BY DEF Has
<1>4. \A n \in 0 .. Usage : (\A i \in 1 .. n : Has(i, f)) => n \in T
  BY DEF Has
<1> HIDE DEF T
<1>5. Max(T) \in T /\ \A n \in T : n <= Max(T)
  BY <1>2, GreatestNumber
<1>6. PICK m : m = Max(T)
  OBVIOUS
<1>7. m \in 0 .. Usage
  BY <1>2, <1>5, <1>6
<1>8. ASSUME NEW k \in 1 .. Usage, Has(k, f) PROVE k <= m
  <2>1. \A i \in 1 .. k : Has(i, f)
    <3> SUFFICES ASSUME NEW i \in 1 .. k PROVE Has(i, f)
      OBVIOUS
    <3>1. i \in 1 .. Usage /\ (i < k \/ i = k)
      OBVIOUS
    <3> QED BY <1>8, <3>1 DEF FlagsLead
  <2>2. k \in T
    BY <1>4, <2>1
  <2> QED BY <1>5, <1>6, <2>2
<1>9. ASSUME NEW k \in 1 .. Usage, k <= m PROVE Has(k, f)
  <2>1. k \in 1 .. m
    BY <1>7, <1>9
  <2> QED BY <1>3, <1>5, <1>6, <2>1
<1> QED BY <1>1, <1>6, <1>7, <1>8, <1>9
LEMMA BoomStarts ==
  ASSUME BoomInit
  PROVE  BoomInductive
<1>1. Usage = 0 /\ fetchBuffer = <<>> /\ step = "ClockSendBuffered" /\ asked = <<>>
  BY DEF BoomInit, Usage
<1>2. \A x \in Channels : channel[x].written = <<>> /\ channel[x].readable = <<>>
  BY DEF BoomInit
<1>3. /\ "request" \in Channels /\ "response" \in Channels
      /\ "query" \in Channels /\ "prediction" \in Channels
  BY DEF Channels
<1>4. /\ Readable("query") = <<>> /\ channel["query"].written = <<>>
      /\ Readable("response") = <<>> /\ Readable("prediction") = <<>>
  BY <1>2, <1>3 DEF Readable
<1>5. inside["btb"].readable = <<>> /\ inside["btb"].written = <<>>
  BY DEF BoomInit
<1>6. BoomTypeOK
  <2>1. AreChannels(channel) /\ AreInside(inside)
    BY DEF BoomInit, AreChannels, AreInside
  <2>2. /\ misspredictPenalty \in Nat \ {0} /\ next \in 1 .. Instructions + 1
        /\ hasPredictor
    BY FetcherAssumption, BoomAssumption DEF BoomInit, hasPredictor
  <2>3. fetchBuffer \in Seq(BoomEntry) /\ asked \in Seq(Program) /\ step \in BoomSteps
    BY <1>1, EmptySeq DEF BoomSteps, Steps
  <2>4. currentPenalty \in 0 .. misspredictPenalty
    BY <2>2 DEF BoomInit
  <2>5. <<>> \in Seq(Program) /\ <<>> \in Seq(Prediction) /\ <<>> \in Seq(Request)
    BY EmptySeq
  <2>6. ras = [buffer |-> ras.buffer, end |-> ras.end]
    BY DEF BoomInit, RasInit
  <2>7. DOMAIN ras.buffer = 0 .. rasSize - 1 /\ ras.end = 0
    BY DEF BoomInit, RasInit
  <2>8. ras.end \in 0 .. rasSize - 1
    BY <2>7, BoomAssumption
  <2> QED BY <1>4, <1>5, <2>1, <2>2, <2>3, <2>4, <2>5, <2>6, <2>7, <2>8 DEF BoomTypeOK
<1>7. InProgramOrder
  BY <1>1, <1>4 DEF InProgramOrder
<1>8. FlagsAgree /\ FlagsLead
  BY <1>1 DEF FlagsAgree, FlagsLead
<1>9. Unanswered = {} /\ Awaited = {}
  BY <1>1 DEF Unanswered, Awaited, InstsAt
<1>10. AwaitsPredictor
  <2>1. Predicting = <<>>
    BY <1>4 DEF Predicting
  <2>2. Pipe = (<<>> \o <<>>) \o (<<>> \o <<>>)
    BY <1>1, <1>4, <2>1 DEF Pipe
  <2>3. <<>> \o <<>> = <<>>
    BY EmptySeq, ConcatEmptySeq
  <2>4. Pipe = <<>>
    BY <2>2, <2>3
  <2> QED BY <1>1, <1>4, <1>9, <2>4, NoneAscend DEF AwaitsPredictor
<1>11. AwaitsBTB
  <2>1. QueriesIn(<<>>) = {}
    BY DEF QueriesIn
  <2> QED BY <1>5, <1>9, <2>1 DEF AwaitsBTB, Queried, QueriesAscend
<1> QED BY <1>6, <1>7, <1>8, <1>10, <1>11 DEF BoomInductive

(***************************************************************************)
(* ClockSendBuffered: what is sent are the entries behind the first m, up  *)
(* to the l-th.                                                            *)
(***************************************************************************)
LEMMA WhatIsSent ==
  ASSUME BoomTypeOK, InProgramOrder, FlagsLead
  PROVE  \E m, l \in 0 .. Usage :
           /\ m <= l
           /\ FirstUnsent = m + 1 /\ LastToSend = l
           /\ \A k \in 1 .. Usage : Has(k, "SentToMemory") <=> k <= m
           /\ SentNow = [k \in 1 .. l - m |-> fetchBuffer[m + k].inst]
           /\ SentNow \in Seq(Program) /\ Len(SentNow) = l - m
           /\ IsAscending(SentNow, InstsAt(m + 1 .. l))
<1>1. Usage \in Nat
  BY BoomTyped
<1>2. PICK m : m = Leading({"SentToMemory"})
  OBVIOUS
<1>3. m \in 0 .. Usage /\ \A k \in 1 .. Usage : Has(k, "SentToMemory") <=> k <= m
  BY <1>1, <1>2, LeadingSplits
<1>4. FirstUnsent = m + 1
  BY <1>2 DEF FirstUnsent
<1> DEFINE T == {FirstUnsent - 1} \cup
                  {k \in FirstUnsent .. Usage : \A j \in FirstUnsent .. k : IsAvailable(j)}
<1>5. LastToSend = Max(T)
  BY DEF LastToSend
<1>6. T \in SUBSET (0 .. Usage) /\ T # {} /\ \A k \in T : k >= m
  BY <1>1, <1>3, <1>4
<1> HIDE DEF T
<1>7. PICK l : l = Max(T)
  OBVIOUS
<1>8. l \in m .. Usage
  <2>1. l \in T
    BY <1>1, <1>6, <1>7, GreatestNumber
  <2> QED BY <1>1, <1>3, <1>6, <2>1
<1>9. SentNow = [k \in 1 .. l - m |-> fetchBuffer[m + k].inst]
  <2>1. LastToSend - FirstUnsent + 1 = l - m /\ \A k \in 1 .. l - m : FirstUnsent + k - 1 = m + k
    BY <1>1, <1>3, <1>4, <1>5, <1>7, <1>8
  <2> QED BY <2>1 DEF SentNow
<1>10. SentNow \in Seq(Program) /\ Len(SentNow) = l - m /\ IsAscending(SentNow, InstsAt(m + 1 .. l))
  BY <1>3, <1>8, <1>9, StretchAscends
<1>11. l \in 0 .. Usage /\ m <= l
  BY <1>1, <1>3, <1>8
<1> QED BY <1>3, <1>4, <1>5, <1>7, <1>9, <1>10, <1>11

LEMMA BranchesAreSent ==
  ASSUME BoomTypeOK, NEW A \in SUBSET Program, IsAscending(SentNow, A)
  PROVE  /\ IsAscending(BranchesSent, {i \in A : IsBranch(i)})
         /\ IsAscending(RasQueries, {i \in A : UsesRas(i)})
<1>1. A \in SUBSET Nat
  BY BoomTyped
<1>2. Len(SentNow) \in Nat /\ \A k \in 1 .. Len(SentNow) : SentNow[k] \in A
  BY <1>1, Ascends
<1>3. ASSUME NEW i \in A PROVE \E k \in 1 .. Len(SentNow) : SentNow[k] = i
  BY DEF IsAscending
<1> DEFINE T == {k \in 1 .. Len(SentNow) : IsBranch(SentNow[k])}
           U == {k \in 1 .. Len(SentNow) : UsesRas(SentNow[k])}
<1>4. {SentNow[k] : k \in T} = {i \in A : IsBranch(i)}
  BY <1>2, <1>3
<1>5. {SentNow[k] : k \in U} = {i \in A : UsesRas(i)}
  BY <1>2, <1>3
<1>6. BranchesSent = Selected(SentNow, T) /\ RasQueries = Selected(SentNow, U)
  BY DEF BranchesSent, RasQueries
<1>7. T \in SUBSET (1 .. Len(SentNow)) /\ U \in SUBSET (1 .. Len(SentNow))
  OBVIOUS
<1> HIDE DEF T, U
<1>8. IsAscending(Selected(SentNow, T), {SentNow[k] : k \in T})
  BY <1>1, <1>7, SelectedAscend
<1>9. IsAscending(Selected(SentNow, U), {SentNow[k] : k \in U})
  BY <1>1, <1>7, SelectedAscend
<1> QED BY <1>4, <1>5, <1>6, <1>8, <1>9
LEMMA QueriesAreAppended ==
  ASSUME NEW s \in Seq(Request), Queried(s) = {}, NEW B \in SUBSET Program, NEW t,
         IsAscending(t, B), NEW q \in Seq(Request), Len(q) = Len(t),
         \A k \in 1 .. Len(t) : q[k].type = "Query" /\ q[k].inst = t[k], NEW r, r = s \o q
  PROVE  r \in Seq(Request) /\ Queried(r) = B /\ QueriesAscend(r)
<1>0. B \in SUBSET Nat
  BY FetcherAssumption DEF Program
<1>1. /\ Len(t) \in Nat
      /\ \A i \in 1 .. Len(t) : t[i] \in B
      /\ \A i, j \in 1 .. Len(t) : t[i] < t[j] <=> i < j
  BY <1>0, Ascends
<1>2. \A k \in 1 .. Len(t) : q[k].type = "Query" /\ q[k].inst = t[k]
  OBVIOUS
<1>3. q \in Seq(Request) /\ Len(q) = Len(t)
  OBVIOUS
<1>4. r = s \o q
  OBVIOUS
<1>5. PICK a, b : a = Len(s) /\ b = Len(t)
  OBVIOUS
<1>6. a \in Nat /\ b \in Nat
  BY <1>1, <1>5, LenProperties
<1>7. /\ r \in Seq(Request) /\ Len(r) = a + b
      /\ \A i \in 1 .. a + b : r[i] = IF i <= a THEN s[i] ELSE q[i - a]
  <2>1. Len(s) = a /\ Len(q) = b
    BY <1>3, <1>5
  <2>2. /\ r \in Seq(Request) /\ Len(r) = Len(s) + Len(q)
        /\ \A i \in 1 .. Len(s) + Len(q) : r[i] = IF i <= Len(s) THEN s[i] ELSE q[i - Len(s)]
    <3>1. /\ s \o q \in Seq(Request) /\ Len(s \o q) = Len(s) + Len(q)
          /\ \A i \in 1 .. Len(s) + Len(q) :
               (s \o q)[i] = IF i <= Len(s) THEN s[i] ELSE q[i - Len(s)]
      BY <1>3, ConcatProperties
    <3> QED BY <1>4, <3>1
  <2> QED BY <2>1, <2>2
<1>8. \A i \in 1 .. a : s[i].type # "Query"
  BY <1>5 DEF Queried, QueriesIn
<1>9. \A i \in 1 .. a + b : /\ i <= a => i \in 1 .. a
                            /\ ~(i <= a) => i - a \in 1 .. b
  BY <1>6
<1>10. ASSUME NEW i \in 1 .. a + b PROVE r[i].type = "Query" <=> ~(i <= a)
  <2>1. CASE i <= a
    BY <1>7, <1>8, <1>9, <2>1
  <2>2. CASE ~(i <= a)
    BY <1>2, <1>5, <1>7, <1>9, <2>2
  <2> QED BY <2>1, <2>2
<1>11. \A i \in 1 .. a + b : ~(i <= a) => r[i].inst = t[i - a]
  BY <1>2, <1>5, <1>7, <1>9
<1>12. Queried(r) = B
  <2>1. ASSUME NEW n \in QueriesIn(r) PROVE r[n].inst \in B
    <3>1. n \in 1 .. a + b /\ ~(n <= a)
      BY <1>7, <1>10 DEF QueriesIn
    <3> QED BY <1>1, <1>5, <1>9, <1>11, <3>1
  <2>2. ASSUME NEW x \in B PROVE \E n \in QueriesIn(r) : r[n].inst = x
    <3>1. PICK k \in 1 .. b : t[k] = x
      BY <1>5 DEF IsAscending
    <3>2. k + a \in 1 .. a + b /\ ~(k + a <= a) /\ (k + a) - a = k
      BY <1>6
    <3>3. r[k + a].inst = x /\ r[k + a].type = "Query"
      BY <1>10, <1>11, <3>1, <3>2
    <3> QED BY <1>7, <3>2, <3>3 DEF QueriesIn
  <2>3. \A x : x \in Queried(r) <=> x \in B
    BY <2>1, <2>2 DEF Queried
  <2> QED BY <2>3
<1>13. QueriesAscend(r)
  <2> SUFFICES ASSUME NEW m \in QueriesIn(r), NEW n \in QueriesIn(r), m < n
               PROVE  r[m].inst < r[n].inst
    BY DEF QueriesAscend
  <2>1. m \in 1 .. a + b /\ n \in 1 .. a + b /\ ~(m <= a) /\ ~(n <= a)
    BY <1>7, <1>10 DEF QueriesIn
  <2>2. m - a < n - a /\ m - a \in 1 .. Len(t) /\ n - a \in 1 .. Len(t)
    BY <1>5, <1>6, <1>9, <2>1
  <2> QED BY <1>1, <1>11, <2>1, <2>2
<1> QED BY <1>7, <1>12, <1>13

(***************************************************************************)
(* The order of the instructions when only flags have changed.             *)
(***************************************************************************)
LEMMA OnlyFlagsChange ==
  ASSUME BoomTypeOK, InProgramOrder, Usage' = Usage,
         \A k \in 1 .. Usage : fetchBuffer'[k].inst = fetchBuffer[k].inst,
         Readable("response")' = Readable("response"), next' = next
  PROVE  InProgramOrder'
<1>1. Usage \in Nat
  BY BoomTyped
<1>2. Usage' \in Nat /\ Usage' + 0 <= Usage /\ 0 \in Nat
  BY <1>1
<1>3. \A k \in 1 .. Usage' : fetchBuffer'[k].inst = fetchBuffer[0 + k].inst
  BY <1>1
<1> QED BY <1>1, <1>2, <1>3, OrderIsKept

LEMMA BoomSends ==
  ASSUME BoomInductive, BoomSendBuffered
  PROVE  BoomInductive'
<1>0. /\ BoomTypeOK /\ InProgramOrder /\ FlagsAgree /\ FlagsLead
      /\ AwaitsPredictor /\ AwaitsBTB
  BY DEF BoomInductive
<1>1. PICK m \in 0 .. Usage, l \in 0 .. Usage :
        /\ m <= l
        /\ FirstUnsent = m + 1 /\ LastToSend = l
        /\ \A k \in 1 .. Usage : Has(k, "SentToMemory") <=> k <= m
        /\ SentNow = [k \in 1 .. l - m |-> fetchBuffer[m + k].inst]
        /\ SentNow \in Seq(Program) /\ Len(SentNow) = l - m
        /\ IsAscending(SentNow, InstsAt(m + 1 .. l))
  BY <1>0, WhatIsSent
<1>2. /\ Usage \in Nat
      /\ \A k \in 1 .. Usage : /\ fetchBuffer[k] = [inst |-> fetchBuffer[k].inst, flags |-> fetchBuffer[k].flags]
                               /\ fetchBuffer[k].inst \in Program /\ fetchBuffer[k].inst \in Nat
                               /\ fetchBuffer[k].flags \in SUBSET BoomFlags
      /\ Unanswered \in SUBSET Nat /\ Awaited \in SUBSET Program /\ Program \in SUBSET Nat
  BY <1>0, BoomTyped
<1> DEFINE New == m + 1 .. l
<1>3. /\ UNCHANGED <<clockVars, envVars, walk, ras>> /\ step = "ClockSendBuffered"
      /\ step' = "ClockCheckPredictor" /\ channel' = Writes("query", SentNow)
      /\ inside' = [ras |-> [inside["ras"] EXCEPT !.written = @ \o RasQueries],
                    btb |-> [inside["btb"] EXCEPT !.written = @ \o BTBQueries]]
      /\ fetchBuffer' =
           [k \in 1 .. Usage |->
              IF k \in New
                THEN [inst |-> fetchBuffer[k].inst, flags |-> FlagsOfSent(fetchBuffer[k].inst)]
                ELSE fetchBuffer[k]]
  BY <1>1 DEF BoomSendBuffered
<1>4. \A k \in New : k \in 1 .. Usage /\ ~(k <= m)
  BY <1>1, <1>2
<1> HIDE DEF New
<1>5. \A k \in 1 .. Usage :
        /\ fetchBuffer'[k].inst = fetchBuffer[k].inst
        /\ fetchBuffer'[k].flags = IF k \in New THEN FlagsOfSent(fetchBuffer[k].inst)
                                                ELSE fetchBuffer[k].flags
  BY <1>3
<1>6. fetchBuffer' \in Seq(BoomEntry) /\ Usage' = Usage
  <2>1. ASSUME NEW i \in Program PROVE FlagsOfSent(i) \in SUBSET BoomFlags
    BY DEF FlagsOfSent, BoomFlags, Flags
  <2>2. ASSUME NEW k \in 1 .. Usage PROVE fetchBuffer'[k] \in BoomEntry
    <3>1. fetchBuffer[k] \in BoomEntry
      BY <1>0, ElementOfSeq DEF BoomTypeOK, Usage
    <3>2. [inst |-> fetchBuffer[k].inst, flags |-> FlagsOfSent(fetchBuffer[k].inst)] \in BoomEntry
      BY <1>2, <2>1 DEF BoomEntry
    <3> QED BY <1>3, <3>1, <3>2
  <2>3. fetchBuffer' \in [1 .. Usage -> BoomEntry]
    BY <1>3, <2>2
  <2> QED BY <1>2, <2>3, FunctionIsSeq DEF Usage
<1>7. /\ AreChannels(channel') /\ channel'["query"].written = SentNow
      /\ Readable("query")' = Readable("query") /\ Readable("prediction")' = Readable("prediction")
      /\ Readable("response")' = Readable("response")
  <2>1. AreChannels(channel)
    BY <1>0 DEF BoomTypeOK
  <2>2. "query" \in Channels /\ "prediction" \in Channels /\ "response" \in Channels
    BY DEF Channels
  <2> QED BY <1>3, <2>1, <2>2, WritesOne DEF Readable
<1>8. InProgramOrder'
  BY <1>0, <1>3, <1>5, <1>6, <1>7, OnlyFlagsChange DEF envVars
<1>9. \A k \in 1 .. Usage :
        /\ Has(k, "SentToMemory")' <=> Has(k, "SentToMemory") \/ k \in New
        /\ Has(k, "SentToBTB")' <=> IF k \in New THEN IsBranch(fetchBuffer[k].inst)
                                                ELSE Has(k, "SentToBTB")
        /\ Has(k, "Predicted")' <=> Has(k, "Predicted") /\ k \notin New
        /\ Has(k, "BTBCheck")' <=> Has(k, "BTBCheck") /\ k \notin New
        /\ IsAwaited(fetchBuffer[k])' <=>
             IF k \in New THEN IsBranch(fetchBuffer[k].inst) ELSE IsAwaited(fetchBuffer[k])
  <2> TAKE k \in 1 .. Usage
  <2>1. CASE k \in New
    <3>1. fetchBuffer'[k].flags = FlagsOfSent(fetchBuffer[k].inst)
      BY <1>5, <2>1
    <3>2. /\ "SentToMemory" \in FlagsOfSent(fetchBuffer[k].inst)
          /\ "SentToBTB" \in FlagsOfSent(fetchBuffer[k].inst) <=> IsBranch(fetchBuffer[k].inst)
          /\ "Predicted" \notin FlagsOfSent(fetchBuffer[k].inst)
          /\ "BTBCheck" \notin FlagsOfSent(fetchBuffer[k].inst)
      BY DEF FlagsOfSent
    <3> QED BY <2>1, <3>1, <3>2 DEF Has, IsAwaited
  <2>2. CASE k \notin New
    <3>1. fetchBuffer'[k].flags = fetchBuffer[k].flags
      BY <1>5, <2>2
    <3> QED BY <2>2, <3>1 DEF Has, IsAwaited
  <2> QED BY <2>1, <2>2
<1>10. \A i : IsBranch(i)' <=> IsBranch(i)
  BY <1>3 DEF IsBranch, KindOf
<1>11. \A k \in New : ~Has(k, "SentToMemory") /\ ~Has(k, "Predicted")
  BY <1>0, <1>1, <1>4 DEF FlagsAgree
<1>12. FlagsAgree'
  BY <1>0, <1>5, <1>6, <1>9, <1>10, <1>11 DEF FlagsAgree
<1>13. FlagsLead'
  <2> SUFFICES ASSUME NEW j \in 1 .. Usage, NEW k \in 1 .. Usage, j < k,
                      NEW f \in {"SentToMemory", "Predicted"}, Has(k, f)'
               PROVE  Has(j, f)'
    BY <1>6 DEF FlagsLead
  <2>1. CASE f = "Predicted"
    <3>1. Has(k, "Predicted")
      BY <1>9, <2>1
    <3>2. Has(j, "Predicted")
      BY <1>0, <3>1 DEF FlagsLead
    <3> QED BY <1>9, <1>11, <2>1, <3>2
  <2>2. CASE f = "SentToMemory"
    <3>1. k <= m \/ k \in New
      BY <1>1, <1>9, <2>2
    <3>2. k <= l
      BY <1>1, <1>2, <3>1 DEF New
    <3>3. j <= m \/ j \in New
      BY <1>1, <1>2, <3>2 DEF New
    <3> QED BY <1>1, <1>9, <2>2, <3>3
  <2> QED BY <2>1, <2>2
<1>14. Unanswered' = Unanswered \cup InstsAt(New)
  <2>1. ASSUME NEW k \in 1 .. Usage
        PROVE  (Has(k, "SentToMemory") /\ ~Has(k, "Predicted"))' <=>
                 (Has(k, "SentToMemory") /\ ~Has(k, "Predicted")) \/ k \in New
    BY <1>9, <1>11
  <2>2. Unanswered' = {fetchBuffer[k].inst : k \in {k \in 1 .. Usage :
                                       (Has(k, "SentToMemory") /\ ~Has(k, "Predicted"))'}}
    BY <1>5, <1>6 DEF Unanswered, InstsAt
  <2> QED BY <1>4, <2>1, <2>2 DEF Unanswered, InstsAt
<1>15. Awaited' = Awaited \cup {i \in InstsAt(New) : IsBranch(i)}
  <2>1. ASSUME NEW k \in New PROVE ~IsAwaited(fetchBuffer[k])
    <3>1. ~Has(k, "SentToBTB")
      BY <1>0, <1>4, <1>11 DEF FlagsAgree
    <3> QED BY <3>1 DEF Has, IsAwaited
  <2>2. Awaited' = {fetchBuffer[k].inst : k \in {k \in 1 .. Usage : IsAwaited(fetchBuffer[k])'}}
    BY <1>5, <1>6 DEF Awaited, InstsAt
  <2>3. \A k \in 1 .. Usage : IsAwaited(fetchBuffer[k])' <=>
          IsAwaited(fetchBuffer[k]) \/ (k \in New /\ IsBranch(fetchBuffer[k].inst))
    BY <1>9, <2>1
  <2> QED BY <1>4, <2>2, <2>3 DEF Awaited, InstsAt
<1>16. \A j \in 1 .. Usage, k \in New :
         Has(j, "SentToMemory") => fetchBuffer[j].inst < fetchBuffer[k].inst
  <2> SUFFICES ASSUME NEW j \in 1 .. Usage, NEW k \in New, Has(j, "SentToMemory")
               PROVE  fetchBuffer[j].inst < fetchBuffer[k].inst
    OBVIOUS
  <2>1. j <= m /\ k \in 1 .. Usage /\ ~(k <= m)
    BY <1>1, <1>4
  <2>2. j < k
    BY <1>1, <1>2, <2>1
  <2> QED BY <1>0, <2>1, <2>2 DEF InProgramOrder
<1>17. InstsAt(New) \in SUBSET Program
  BY <1>2, <1>4 DEF InstsAt
<1>18. AwaitsPredictor'
  <2>1. \A a \in Unanswered, b \in InstsAt(New) : a < b
    BY <1>16 DEF Unanswered, InstsAt
  <2>2. IsAscending(Pipe, Unanswered) /\ channel["query"].written = <<>>
    BY <1>0, <1>3 DEF AwaitsPredictor
  <2>3. IsAscending(SentNow, InstsAt(New))
    BY <1>1 DEF New
  <2>4. IsAscending(Pipe \o SentNow, Unanswered \cup InstsAt(New))
    BY <1>2, <1>17, <2>1, <2>2, <2>3, JoinedAscend
  <2>5. Pipe' = Pipe \o SentNow
    <3>1. Predicting' = Predicting /\ asked' = asked
      BY <1>3, <1>7 DEF Predicting, envVars
    <3>2. PICK x, y : x = Predicting \o asked /\ y = Readable("query")
      OBVIOUS
    <3>3. Pipe' = x \o (y \o SentNow)
      BY <1>7, <3>1, <3>2 DEF Pipe
    <3>4. Pipe = x \o (y \o <<>>)
      BY <2>2, <3>2 DEF Pipe
    <3>5. Predicting \in Seq(Program)
      <4>1. \A i \in 1 .. Len(Readable("prediction")) : Readable("prediction")[i].inst \in Program
        <5>1. Readable("prediction") \in Seq(Prediction)
          BY <1>0 DEF BoomTypeOK
        <5>2. \A i \in 1 .. Len(Readable("prediction")) : Readable("prediction")[i] \in Prediction
          BY <5>1, ElementOfSeq
        <5> QED BY <5>2 DEF Prediction
      <4>2. Len(Readable("prediction")) \in Nat
        BY <1>0, BoomTyped
      <4>3. Predicting \in [1 .. Len(Readable("prediction")) -> Program]
        BY <4>1 DEF Predicting
      <4> QED BY <4>2, <4>3, FunctionIsSeq
    <3>6. x \in Seq(Program) /\ y \in Seq(Program)
      BY <1>0, <3>2, <3>5, ConcatProperties DEF BoomTypeOK
    <3>7. y \o <<>> = y
      BY <3>6, ConcatEmptySeq
    <3>8. (x \o y) \o SentNow = x \o (y \o SentNow)
      <4>1. PICK z : z = SentNow
        OBVIOUS
      <4>2. z \in Seq(Program)
        BY <1>1, <4>1
      <4>3. (x \o y) \o z = x \o (y \o z)
        BY <3>6, <4>2, ConcatAssociative
      <4> QED BY <4>1, <4>3
    <3> QED BY <3>3, <3>4, <3>7, <3>8
  <2> QED BY <1>3, <1>14, <2>4, <2>5 DEF AwaitsPredictor
<1>19. /\ inside'["btb"].readable = inside["btb"].readable
       /\ inside'["btb"].written = inside["btb"].written \o BTBQueries
       /\ inside'["ras"].readable = inside["ras"].readable
       /\ inside'["ras"].written = inside["ras"].written \o RasQueries
       /\ AreInside(inside')
  <2>1. AreInside(inside)
    BY <1>0 DEF BoomTypeOK
  <2>2. \A x \in {"ras", "btb"} :
          inside[x] = [written |-> inside[x].written, readable |-> inside[x].readable]
    BY <2>1 DEF AreInside
  <2>3. /\ inside'["btb"] = [written |-> inside["btb"].written \o BTBQueries, readable |-> inside["btb"].readable]
        /\ inside'["ras"] = [written |-> inside["ras"].written \o RasQueries, readable |-> inside["ras"].readable]
    BY <1>3, <2>2
  <2>4. \A x \in {"ras", "btb"} :
          inside'[x] = [written |-> inside'[x].written, readable |-> inside'[x].readable]
    BY <2>3
  <2>5. inside' = [x \in {"ras", "btb"} |-> inside'[x]]
    BY <1>3
  <2>6. AreInside(inside')
    BY <2>4, <2>5 DEF AreInside
  <2> QED BY <2>3, <2>6
<1>20. /\ inside'["btb"].written \in Seq(Request)
       /\ Queried(inside'["btb"].written) = {i \in InstsAt(New) : IsBranch(i)}
       /\ QueriesAscend(inside'["btb"].written)
  <2>1. IsAscending(BranchesSent, {i \in InstsAt(New) : IsBranch(i)})
    BY <1>0, <1>1, <1>17, BranchesAreSent DEF New
  <2>2. inside["btb"].written \in Seq(Request) /\ Queried(inside["btb"].written) = {}
    BY <1>0, <1>3 DEF BoomTypeOK, AwaitsBTB
  <2> DEFINE B == {i \in InstsAt(New) : IsBranch(i)}
  <2>3. B \in SUBSET Program
    BY <1>17
  <2> HIDE DEF B
  <2>5. IsAscending(BranchesSent, B)
    BY <2>1 DEF B
  <2>6. /\ inside'["btb"].written \in Seq(Request)
        /\ Queried(inside'["btb"].written) = B
        /\ QueriesAscend(inside'["btb"].written)
    <3>1. PICK v, w, q, t : /\ v = inside["btb"].written /\ w = inside'["btb"].written
                            /\ q = BTBQueries /\ t = BranchesSent
      OBVIOUS
    <3>2. v \in Seq(Request) /\ Queried(v) = {} /\ IsAscending(t, B) /\ w = v \o q
      BY <1>19, <2>2, <2>5, <3>1
    <3>3. q = [k \in 1 .. Len(t) |-> [type |-> "Query", inst |-> t[k]]]
      BY <3>1 DEF BTBQueries
    <3>4. Len(t) \in Nat /\ \A k \in 1 .. Len(t) : t[k] \in Program
      BY <1>2, <2>3, <3>2, Ascends
    <3>5. q \in [1 .. Len(t) -> Request]
      BY <3>3, <3>4 DEF Request
    <3>6. /\ q \in Seq(Request) /\ Len(q) = Len(t)
          /\ \A k \in 1 .. Len(t) : q[k].type = "Query" /\ q[k].inst = t[k]
      BY <3>3, <3>4, <3>5, FunctionIsSeq
    <3>7. w \in Seq(Request) /\ Queried(w) = B /\ QueriesAscend(w)
      BY <2>3, <3>2, <3>6, QueriesAreAppended
    <3> QED BY <3>1, <3>7
  <2> QED BY <2>6 DEF B
<1>21. AwaitsBTB'
  <2>1. \A i \in Awaited, j \in InstsAt(New) : i < j
    <3>1. \A k \in 1 .. Usage : IsAwaited(fetchBuffer[k]) => Has(k, "SentToMemory")
      BY <1>0 DEF FlagsAgree, IsAwaited, Has
    <3> QED BY <1>16, <3>1 DEF Awaited, InstsAt
  <2>2. /\ Queried(inside["btb"].written) = {}
        /\ Queried(inside["btb"].readable) = Awaited
        /\ QueriesAscend(inside["btb"].readable)
    BY <1>0, <1>3 DEF AwaitsBTB
  <2> QED BY <1>3, <1>15, <1>19, <1>20, <2>1, <2>2 DEF AwaitsBTB
<1>22. BoomTypeOK'
  BY <1>0, <1>1, <1>3, <1>6, <1>7, <1>19, <1>20
  DEF BoomTypeOK, BoomSteps, Steps, clockVars, envVars, configVars, hasPredictor
<1> QED BY <1>8, <1>12, <1>13, <1>18, <1>21, <1>22 DEF BoomInductive
(***************************************************************************)
(* ClockCheckPredictor: what the predictor has to answer are the first     *)
(* entries that have no answer, and its responses come first.              *)
(***************************************************************************)
LEMMA PipeIs ==
  ASSUME BoomTypeOK
  PROVE  /\ Predicting \in Seq(Program) /\ Len(Predicting) = Len(Readable("prediction"))
         /\ \A i \in 1 .. Len(Predicting) : Predicting[i] = Readable("prediction")[i].inst
         /\ Queries \in Seq(Program)
         /\ Queries \o channel["query"].written \in Seq(Program)
         /\ Pipe = Predicting \o (Queries \o channel["query"].written)
<1>1. Readable("prediction") \in Seq(Prediction)
  BY DEF BoomTypeOK
<1>2. Len(Readable("prediction")) \in Nat
  BY BoomTyped
<1>3. \A i \in 1 .. Len(Readable("prediction")) : Readable("prediction")[i] \in Prediction
  BY <1>1, ElementOfSeq
<1>4. Predicting \in [1 .. Len(Readable("prediction")) -> Program]
  BY <1>3 DEF Predicting, Prediction
<1>5. Predicting \in Seq(Program) /\ Len(Predicting) = Len(Readable("prediction"))
  BY <1>2, <1>4, FunctionIsSeq
<1>6. \A i \in 1 .. Len(Predicting) : Predicting[i] = Readable("prediction")[i].inst
  BY <1>5 DEF Predicting
<1>7. PICK x, y, z, w : /\ x = Predicting /\ y = asked /\ z = Readable("query")
                        /\ w = channel["query"].written
  OBVIOUS
<1>8. x \in Seq(Program) /\ y \in Seq(Program) /\ z \in Seq(Program) /\ w \in Seq(Program)
  BY <1>5, <1>7 DEF BoomTypeOK
<1>9. y \o z \in Seq(Program) /\ z \o w \in Seq(Program)
  BY <1>8, ConcatProperties
<1>10. (y \o z) \o w \in Seq(Program) /\ y \o (z \o w) = (y \o z) \o w
  BY <1>8, <1>9, ConcatProperties, ConcatAssociative
<1>11. (x \o y) \o (z \o w) = x \o (y \o (z \o w))
  <2>1. PICK v : v = z \o w
    OBVIOUS
  <2>3. v \in Seq(Program)
    BY <1>9, <2>1
  <2>2. (x \o y) \o v = x \o (y \o v)
    BY <1>8, <2>3, ConcatAssociative
  <2> QED BY <2>1, <2>2
<1> QED BY <1>5, <1>6, <1>7, <1>9, <1>10, <1>11 DEF Pipe, Queries

LEMMA PipeIsTheFirst ==
  ASSUME BoomTypeOK, InProgramOrder, FlagsLead, FlagsAgree, AwaitsPredictor,
         NEW p \in 0 .. Usage, \A k \in 1 .. Usage : Has(k, "Predicted") <=> k <= p
  PROVE  \A n \in 1 .. Len(Readable("prediction")) :
           /\ p + n \in 1 .. Usage
           /\ fetchBuffer[p + n].inst = Readable("prediction")[n].inst
           /\ Has(p + n, "SentToMemory")
<1>1. Usage \in Nat /\ Unanswered \in SUBSET Nat /\ Program \in SUBSET Nat
      /\ \A k \in 1 .. Usage : fetchBuffer[k].inst \in Program
  BY BoomTyped
<1> DEFINE t == [k \in 1 .. Usage - p |-> fetchBuffer[p + k].inst]
           B == InstsAt(p + 1 .. Usage)
<1>2. Usage \in p .. Usage /\ \A k \in 1 .. Usage : k \in p + 1 .. Usage <=> ~(k <= p)
  BY <1>1
<1>3. Len(t) = Usage - p /\ IsAscending(t, B)
  BY <1>2, StretchAscends
<1>4. Unanswered \subseteq B
  BY <1>2 DEF Unanswered, InstsAt
<1>5. ASSUME NEW a \in Unanswered, NEW b \in B \ Unanswered PROVE a < b
  <2>1. PICK j \in 1 .. Usage : a = fetchBuffer[j].inst /\ Has(j, "SentToMemory") /\ ~Has(j, "Predicted")
    BY DEF Unanswered, InstsAt
  <2>2. PICK k \in p + 1 .. Usage : b = fetchBuffer[k].inst
    BY DEF InstsAt
  <2>3. k \in 1 .. Usage /\ ~(k <= p)
    BY <1>1, <2>2
  <2>4. ~Has(k, "SentToMemory")
    BY <2>2, <2>3 DEF Unanswered, InstsAt
  <2>5. ~(k < j) /\ k # j
    BY <2>1, <2>3, <2>4 DEF FlagsLead
  <2>6. j < k
    BY <1>1, <2>3, <2>5
  <2> QED BY <2>1, <2>2, <2>3, <2>6 DEF InProgramOrder
<1>6. B \in SUBSET Nat
  <2>1. \A k \in p + 1 .. Usage : k \in 1 .. Usage
    BY <1>1
  <2>2. \A k \in p + 1 .. Usage : fetchBuffer[k].inst \in Nat
    BY <1>1, <2>1
  <2> QED BY <2>2 DEF InstsAt
<1>7. \A k \in 1 .. Usage - p : t[k] = fetchBuffer[p + k].inst
  OBVIOUS
<1>8. IsAscending(Pipe, Unanswered)
  BY DEF AwaitsPredictor
<1> HIDE DEF B, t
<1>9. \A k \in 1 .. Len(Pipe) : k <= Len(t) /\ t[k] = Pipe[k]
  <2>1. PICK s, A, u : s = Pipe /\ A = Unanswered /\ u = t
    OBVIOUS
  <2>2. /\ A \in SUBSET Nat /\ A \subseteq B /\ IsAscending(s, A) /\ IsAscending(u, B)
        /\ \A a \in A, b \in B \ A : a < b
    BY <1>1, <1>3, <1>4, <1>5, <1>8, <2>1
  <2>3. \A k \in 1 .. Len(s) : k <= Len(u) /\ u[k] = s[k]
    BY <1>6, <2>2, FirstOnesAreThePrefix
  <2> QED BY <2>1, <2>3
<1>10. \A k \in 1 .. Len(Pipe) : Pipe[k] \in Unanswered
  BY <1>1, <1>8, Ascends
<1>11. PICK x, y, a, b : /\ x = Predicting /\ y = Queries \o channel["query"].written
                         /\ a = Len(x) /\ b = Len(y)
  OBVIOUS
<1>12. /\ x \in Seq(Program) /\ a = Len(Readable("prediction")) /\ y \in Seq(Program)
       /\ \A i \in 1 .. a : x[i] = Readable("prediction")[i].inst
       /\ Pipe = x \o y
  BY <1>11, PipeIs
<1>13. a \in Nat /\ b \in Nat
  BY <1>11, <1>12, LenProperties
<1>14. /\ Len(Pipe) = a + b
       /\ \A i \in 1 .. a + b : Pipe[i] = IF i <= a THEN x[i] ELSE y[i - a]
  <2>1. /\ Len(x \o y) = Len(x) + Len(y)
        /\ \A i \in 1 .. Len(x) + Len(y) :
             (x \o y)[i] = IF i <= Len(x) THEN x[i] ELSE y[i - Len(x)]
    BY <1>12, ConcatProperties
  <2> QED BY <1>11, <1>12, <2>1
<1>15. ASSUME NEW n \in 1 .. a
       PROVE  /\ p + n \in 1 .. Usage
              /\ fetchBuffer[p + n].inst = Readable("prediction")[n].inst
              /\ Has(p + n, "SentToMemory")
  <2>1. n \in 1 .. a + b /\ n <= a
    BY <1>13
  <2>2. n \in 1 .. Len(Pipe) /\ Pipe[n] = Readable("prediction")[n].inst
    BY <1>12, <1>14, <2>1
  <2>3. n <= Usage - p /\ t[n] = Pipe[n] /\ Pipe[n] \in Unanswered
    BY <1>3, <1>9, <1>10, <2>2
  <2>4. p + n \in 1 .. Usage /\ n \in 1 .. Usage - p
    BY <1>1, <2>1, <2>3, <1>13
  <2>5. fetchBuffer[p + n].inst = Pipe[n]
    BY <1>7, <2>3, <2>4
  <2>6. PICK j \in 1 .. Usage : fetchBuffer[j].inst = Pipe[n] /\ Has(j, "SentToMemory")
    BY <2>3 DEF Unanswered, InstsAt
  <2>7. j = p + n
    BY <2>4, <2>5, <2>6, BufferOrder
  <2> QED BY <2>2, <2>4, <2>5, <2>6, <2>7
<1> QED BY <1>12, <1>15

LEMMA PredictionsBelong ==
  ASSUME BoomInductive
  PROVE  PredictionsMatch
<1>1. BoomTypeOK /\ InProgramOrder /\ FlagsLead /\ FlagsAgree /\ AwaitsPredictor
  BY DEF BoomInductive
<1>2. Usage \in Nat
  BY <1>1, BoomTyped
<1>3. PICK p : p = Leading({"Predicted"})
  OBVIOUS
<1>4. p \in 0 .. Usage /\ \A k \in 1 .. Usage : Has(k, "Predicted") <=> k <= p
  BY <1>1, <1>2, <1>3, LeadingSplits
<1>5. \A n \in 1 .. Len(Readable("prediction")) :
        p + n \in 1 .. Usage /\ fetchBuffer[p + n].inst = Readable("prediction")[n].inst
  BY <1>1, <1>4, PipeIsTheFirst
<1>6. \A n \in 1 .. Len(Predictions) :
        /\ p + n <= Usage
        /\ fetchBuffer[p + n].inst = Predictions[n].inst
  BY <1>2, <1>5 DEF Predictions
<1> QED BY <1>3, <1>6 DEF PredictionsMatch
LEMMA BoomChecks ==
  ASSUME BoomInductive, BoomCheckPredictor
  PROVE  BoomInductive'
<1>0. /\ BoomTypeOK /\ InProgramOrder /\ FlagsAgree /\ FlagsLead
      /\ AwaitsPredictor /\ AwaitsBTB
  BY DEF BoomInductive
<1>1. /\ Usage \in Nat
      /\ \A k \in 1 .. Usage : /\ fetchBuffer[k].inst \in Program
                               /\ fetchBuffer[k].flags \in SUBSET BoomFlags
      /\ Unanswered \in SUBSET Nat /\ Len(Readable("prediction")) \in Nat
  BY <1>0, BoomTyped
<1>2. PICK p : p = Leading({"Predicted"})
  OBVIOUS
<1>3. p \in 0 .. Usage /\ \A k \in 1 .. Usage : Has(k, "Predicted") <=> k <= p
  BY <1>0, <1>1, <1>2, LeadingSplits
<1>4. PICK N : N = Len(Readable("prediction"))
  OBVIOUS
<1>5. \A n \in 1 .. N : /\ p + n \in 1 .. Usage
                        /\ fetchBuffer[p + n].inst = Readable("prediction")[n].inst
                        /\ Has(p + n, "SentToMemory")
  BY <1>0, <1>3, <1>4, PipeIsTheFirst
<1>6. /\ fetchBuffer' = [k \in 1 .. Usage |->
           [inst  |-> fetchBuffer[k].inst,
            flags |-> fetchBuffer[k].flags \cup IF k <= p + N THEN {"Predicted"} ELSE {}]]
      /\ channel' = Clears("prediction") /\ step = "ClockCheckPredictor" /\ step' = "ClockCheckRas"
      /\ UNCHANGED <<currentPenalty, envVars, walk, ras, inside>>
  BY <1>2, <1>4 DEF BoomCheckPredictor, MarkPredicted, Predictions, innerVars
<1>7. N \in Nat /\ \A k \in 1 .. Usage : k <= p + N <=> k <= p \/ \E n \in 1 .. N : k = p + n
  <2>1. N \in Nat
    BY <1>1, <1>4
  <2>2. ASSUME NEW k \in 1 .. Usage, k <= p + N, ~(k <= p) PROVE \E n \in 1 .. N : k = p + n
    <3>1. k - p \in 1 .. N /\ k = p + (k - p)
      BY <1>1, <1>3, <2>1, <2>2
    <3> QED BY <3>1
  <2>3. ASSUME NEW k \in 1 .. Usage, k <= p PROVE k <= p + N
    BY <1>1, <1>3, <2>1, <2>3
  <2>4. ASSUME NEW n \in 1 .. N PROVE p + n <= p + N
    BY <1>3, <2>1
  <2> QED BY <2>1, <2>2, <2>3, <2>4
<1>8. \A k \in 1 .. Usage : /\ fetchBuffer'[k].inst = fetchBuffer[k].inst
                            /\ fetchBuffer'[k].flags =
                                 fetchBuffer[k].flags \cup IF k <= p + N THEN {"Predicted"} ELSE {}
  BY <1>6
<1>9. fetchBuffer' \in Seq(BoomEntry) /\ Usage' = Usage
  <2>1. "Predicted" \in BoomFlags
    BY DEF BoomFlags, Flags
  <2>2. ASSUME NEW k \in 1 .. Usage PROVE fetchBuffer'[k] \in BoomEntry
    <3>1. (fetchBuffer[k].flags \cup IF k <= p + N THEN {"Predicted"} ELSE {}) \in SUBSET BoomFlags
      BY <1>1, <2>1
    <3> QED BY <1>1, <1>6, <3>1 DEF BoomEntry
  <2>3. fetchBuffer' \in [1 .. Usage -> BoomEntry]
    BY <1>6, <2>2
  <2> QED BY <1>1, <2>3, FunctionIsSeq DEF Usage
<1>10. \A k \in 1 .. Usage :
         /\ Has(k, "SentToMemory")' <=> Has(k, "SentToMemory")
         /\ Has(k, "SentToBTB")' <=> Has(k, "SentToBTB")
         /\ Has(k, "BTBCheck")' <=> Has(k, "BTBCheck")
         /\ Has(k, "Predicted")' <=> k <= p + N
         /\ IsAwaited(fetchBuffer[k])' <=> IsAwaited(fetchBuffer[k])
  <2> TAKE k \in 1 .. Usage
  <2>1. \A f : f # "Predicted" => (f \in fetchBuffer'[k].flags <=> f \in fetchBuffer[k].flags)
    BY <1>8
  <2>2. "Predicted" \in fetchBuffer'[k].flags <=> k <= p + N
    <3>1. k <= p => k <= p + N
      BY <1>7
    <3> QED BY <1>3, <1>8, <3>1 DEF Has
  <2> QED BY <2>1, <2>2 DEF Has, IsAwaited
<1>11. /\ AreChannels(channel') /\ channel'["query"] = channel["query"]
       /\ Readable("prediction")' = <<>> /\ Readable("query")' = Readable("query")
       /\ Readable("response")' = Readable("response")
  <2>1. AreChannels(channel)
    BY <1>0 DEF BoomTypeOK
  <2>2. "query" \in Channels /\ "prediction" \in Channels /\ "response" \in Channels
    BY DEF Channels
  <2> QED BY <1>6, <2>1, <2>2, ClearsOne DEF Readable
<1>12. InProgramOrder'
  BY <1>0, <1>6, <1>8, <1>9, <1>11, OnlyFlagsChange DEF envVars
<1>13. \A i : IsBranch(i)' <=> IsBranch(i)
  BY <1>6 DEF IsBranch, KindOf
<1>14. FlagsAgree'
  <2> SUFFICES ASSUME NEW k \in 1 .. Usage
               PROVE  /\ Has(k, "SentToBTB")' <=> Has(k, "SentToMemory")' /\ IsBranch(fetchBuffer[k].inst)'
                      /\ Has(k, "BTBCheck")' => Has(k, "SentToBTB")'
                      /\ Has(k, "Predicted")' => Has(k, "SentToMemory")'
    BY <1>9 DEF FlagsAgree
  <2>1. k <= p + N => Has(k, "SentToMemory")
    BY <1>0, <1>3, <1>5, <1>7 DEF FlagsAgree
  <2>2. IsBranch(fetchBuffer[k].inst)' <=> IsBranch(fetchBuffer[k].inst)
    BY <1>6, <1>8 DEF IsBranch, KindOf
  <2> QED BY <1>0, <1>10, <2>1, <2>2 DEF FlagsAgree
<1>15. FlagsLead'
  <2> SUFFICES ASSUME NEW j \in 1 .. Usage, NEW k \in 1 .. Usage, j < k,
                      NEW f \in {"SentToMemory", "Predicted"}, Has(k, f)'
               PROVE  Has(j, f)'
    BY <1>9 DEF FlagsLead
  <2>1. CASE f = "Predicted"
    <3>1. k <= p + N
      BY <1>10, <2>1
    <3>2. j <= p + N
      BY <1>3, <1>7, <3>1
    <3> QED BY <1>10, <2>1, <3>2
  <2>2. CASE f = "SentToMemory"
    BY <1>0, <1>10, <2>2 DEF FlagsLead
  <2> QED BY <2>1, <2>2
<1>16. Awaited' = Awaited
  <2>1. \A x : x \in Awaited' <=> x \in Awaited
    BY <1>8, <1>9, <1>10 DEF Awaited, InstsAt
  <2> QED BY <2>1
<1>17. AwaitsBTB'
  BY <1>0, <1>6, <1>16 DEF AwaitsBTB
<1>18. AwaitsPredictor'
  <2>1. PICK x, y : x = Predicting /\ y = Queries \o channel["query"].written
    OBVIOUS
  <2>2. /\ x \in Seq(Program) /\ Len(x) = N /\ y \in Seq(Program) /\ Pipe = x \o y
        /\ \A i \in 1 .. N : x[i] = Readable("prediction")[i].inst
    BY <1>0, <1>4, <2>1, PipeIs
  <2>b. PICK B : B = ToSet(x)
    OBVIOUS
  <2>c. \A z : z \in B <=> \E i \in 1 .. N : x[i] = z
    BY <2>2, <2>b, LenProperties DEF ToSet
  <2>3. B \subseteq Unanswered /\ IsAscending(y, Unanswered \ B)
    BY <1>0, <1>1, <2>2, <2>b, SplitAscend DEF AwaitsPredictor, AreJoined
  <2>4. \A k \in 1 .. Usage : fetchBuffer[k].inst \in B <=> \E n \in 1 .. N : k = p + n
    <3> SUFFICES ASSUME NEW k \in 1 .. Usage, NEW n \in 1 .. N
                 PROVE  fetchBuffer[k].inst = x[n] <=> k = p + n
      BY <2>c
    <3>1. p + n \in 1 .. Usage /\ fetchBuffer[p + n].inst = x[n]
      BY <1>5, <2>2
    <3> QED BY <1>0, <3>1, BufferOrder
  <2>5. Unanswered' = Unanswered \ B
    <3> DEFINE Left == {k \in 1 .. Usage : Has(k, "SentToMemory") /\ ~(k <= p + N)}
    <3>1. Unanswered' = {fetchBuffer[k].inst : k \in Left}
      <4>1. \A z : z \in Unanswered' <=> z \in {fetchBuffer[k].inst : k \in Left}
        BY <1>8, <1>9, <1>10 DEF Unanswered, InstsAt
      <4> QED BY <4>1
    <3>2. ASSUME NEW z \in Unanswered \ B PROVE z \in {fetchBuffer[k].inst : k \in Left}
      <4>1. PICK k \in 1 .. Usage : z = fetchBuffer[k].inst /\ Has(k, "SentToMemory") /\ ~Has(k, "Predicted")
        BY DEF Unanswered, InstsAt
      <4>2. ~(k <= p + N)
        BY <1>3, <1>7, <2>4, <4>1
      <4> QED BY <4>1, <4>2
    <3>3. ASSUME NEW k \in Left PROVE fetchBuffer[k].inst \in Unanswered \ B
      <4>1. k \in 1 .. Usage /\ Has(k, "SentToMemory") /\ ~(k <= p + N)
        OBVIOUS
      <4>2. ~Has(k, "Predicted") /\ fetchBuffer[k].inst \notin B
        BY <1>3, <1>7, <2>4, <4>1
      <4> QED BY <4>1, <4>2 DEF Unanswered, InstsAt
    <3>4. \A z : z \in Unanswered' <=> z \in Unanswered \ B
      BY <3>1, <3>2, <3>3
    <3> QED BY <3>4
  <2>6. Pipe' = y
    <3>1. Predicting' = <<>>
      <4>1. Len(Readable("prediction")') = 0
        BY <1>11
      <4> QED BY <1>11 DEF Predicting
    <3>2. PICK u, v, w : u = asked /\ v = Readable("query") /\ w = channel["query"].written
      OBVIOUS
    <3>3. u \in Seq(Program) /\ v \in Seq(Program) /\ w \in Seq(Program)
      BY <1>0, <3>2 DEF BoomTypeOK
    <3>4. Pipe' = (<<>> \o u) \o (v \o w)
      BY <1>6, <1>11, <3>1, <3>2 DEF Pipe, envVars
    <3>5. <<>> \o u = u
      BY <3>3, ConcatEmptySeq
    <3>6. (u \o v) \o w = u \o (v \o w)
      BY <3>3, ConcatAssociative
    <3> QED BY <2>1, <3>2, <3>4, <3>5, <3>6 DEF Queries
  <2> QED BY <1>6, <1>11, <2>3, <2>5, <2>6 DEF AwaitsPredictor
<1>19. BoomTypeOK'
  BY <1>0, <1>6, <1>9, <1>11, EmptySeq
  DEF BoomTypeOK, BoomSteps, Steps, envVars, configVars, hasPredictor
<1> QED BY <1>12, <1>14, <1>15, <1>17, <1>18, <1>19 DEF BoomInductive
(***************************************************************************)
(* The steps that leave the buffer and the messages alone that it waits    *)
(* for.                                                                    *)
(***************************************************************************)
LEMMA BoomQuiet ==
  ASSUME BoomInductive, BoomTypeOK', UNCHANGED <<fetchBuffer, asked, next, walk>>,
         \A x \in {"response", "query", "prediction"} : channel'[x] = channel[x],
         inside'["btb"] = inside["btb"],
         step \notin {"ClockSendBuffered", "ClockCheckPredictor"},
         step' \notin {"ClockSendBuffered", "ClockCheckPredictor"},
         step' = "ClockCheckBTB" \/ step \notin {"ClockCheckRas", "ClockCheckBTB"}
  PROVE  BoomInductive'
<1>0. /\ BoomTypeOK /\ InProgramOrder /\ FlagsAgree /\ FlagsLead
      /\ AwaitsPredictor /\ AwaitsBTB
  BY DEF BoomInductive
<1>1. /\ Readable("response")' = Readable("response") /\ Readable("query")' = Readable("query")
      /\ Readable("prediction")' = Readable("prediction")
      /\ channel'["query"] = channel["query"]
  BY DEF Readable
<1>2. Usage' = Usage /\ fetchBuffer' = fetchBuffer
  BY DEF Usage
<1>3. InProgramOrder' /\ FlagsLead'
  BY <1>0, <1>1, <1>2 DEF InProgramOrder, FlagsLead, Has
<1>4. FlagsAgree'
  BY <1>0, <1>2 DEF FlagsAgree, Has, IsBranch, KindOf
<1>5. Unanswered' = Unanswered /\ Awaited' = Awaited
  BY <1>2 DEF Unanswered, Awaited, InstsAt, Has, IsAwaited
<1>6. Pipe' = Pipe
  BY <1>1 DEF Pipe, Predicting
<1>7. AwaitsPredictor'
  BY <1>0, <1>1, <1>5, <1>6 DEF AwaitsPredictor
<1>8. AwaitsBTB'
  BY <1>0, <1>5 DEF AwaitsBTB
<1> QED BY <1>3, <1>4, <1>7, <1>8 DEF BoomInductive

LEMMA BoomChecksRas ==
  ASSUME BoomInductive, ClockCheckRas
  PROVE  BoomInductive'
<1>0. BoomTypeOK
  BY DEF BoomInductive
<1>1. /\ inside' = Swapped("ras", <<>>) /\ RasClock
      /\ step = "ClockCheckRas" /\ step' = "ClockCheckBTB"
      /\ UNCHANGED <<fetchBuffer, currentPenalty, channel, envVars, walk>>
  BY DEF ClockCheckRas
<1>2. inside'["btb"] = inside["btb"] /\ AreInside(inside')
  <2>1. AreInside(inside)
    BY <1>0 DEF BoomTypeOK
  <2>2. \A x \in {"ras", "btb"} :
          inside[x] = [written |-> inside[x].written, readable |-> inside[x].readable]
    BY <2>1 DEF AreInside
  <2>3. /\ inside'["btb"] = inside["btb"]
        /\ inside'["ras"] = [written |-> <<>>, readable |-> inside["ras"].written]
    BY <1>1, <2>1 DEF Swapped, AreInside
  <2>4. \A x \in {"ras", "btb"} :
          inside'[x] = [written |-> inside'[x].written, readable |-> inside'[x].readable]
    BY <2>2, <2>3
  <2>5. inside' = [x \in {"ras", "btb"} |-> inside'[x]]
    BY <1>1, <2>1 DEF Swapped, AreInside
  <2>6. AreInside(inside')
    BY <2>4, <2>5 DEF AreInside
  <2> QED BY <2>3, <2>6
<1>3. /\ ras' = [buffer |-> ras'.buffer, end |-> ras'.end]
      /\ DOMAIN ras'.buffer = 0 .. rasSize - 1 /\ ras'.end \in 0 .. rasSize - 1
  <2>1. /\ ras = [buffer |-> ras.buffer, end |-> ras.end]
        /\ DOMAIN ras.buffer = 0 .. rasSize - 1 /\ ras.end \in 0 .. rasSize - 1
        /\ rasSize \in Nat \ {0}
    BY <1>0, BoomAssumption DEF BoomTypeOK
  <2>2. RasSize(ras) = rasSize
    <3>1. PICK n : n = rasSize - 1 /\ n \in Int /\ 0 \in Int /\ ~(0 > n)
      BY <2>1
    <3>2. Cardinality(0 .. n) = n - 0 + 1
      BY <3>1, FS_Interval
    <3> QED BY <2>1, <3>1, <3>2 DEF RasSize
  <2>3. ASSUME NEW target, ras' = RasPush(ras, target)
        PROVE  /\ ras' = [buffer |-> ras'.buffer, end |-> ras'.end]
               /\ DOMAIN ras'.buffer = 0 .. rasSize - 1 /\ ras'.end \in 0 .. rasSize - 1
    BY <2>1, <2>2, <2>3 DEF RasPush
  <2>4. ASSUME ras' = RasPop(ras)
        PROVE  /\ ras' = [buffer |-> ras'.buffer, end |-> ras'.end]
               /\ DOMAIN ras'.buffer = 0 .. rasSize - 1 /\ ras'.end \in 0 .. rasSize - 1
    <3> DEFINE e == IF ras.end - 1 < 0 THEN RasSize(ras) - 1 ELSE ras.end - 1
    <3>1. ras' = [buffer |-> ras.buffer, end |-> e]
      BY <2>1, <2>4 DEF RasPop
    <3>2. e \in 0 .. rasSize - 1
      BY <2>1, <2>2
    <3> HIDE DEF e
    <3> QED BY <2>1, <3>1, <3>2
  <2>5. CASE RasRequests = <<>>
    BY <1>1, <2>1, <2>5 DEF RasClock
  <2>6. CASE RasRequests # <<>> /\ KindOf(Head(RasRequests)) = "Call"
    BY <1>1, <2>3, <2>6 DEF RasClock
  <2>7. CASE RasRequests # <<>> /\ KindOf(Head(RasRequests)) # "Call"
    BY <1>1, <2>4, <2>7 DEF RasClock
  <2> QED BY <2>5, <2>6, <2>7
<1>4. BoomTypeOK'
  BY <1>0, <1>1, <1>2, <1>3
  DEF BoomTypeOK, BoomSteps, Steps, Readable, envVars, configVars, hasPredictor
<1> QED BY <1>1, <1>2, <1>4, BoomQuiet DEF envVars

(***************************************************************************)
(* ClockCheckBTB: the responses and the entries they are matched with.     *)
(***************************************************************************)
LEMMA ResponsesAre ==
  ASSUME BoomTypeOK, QueriesAscend(BTBRequests)
  PROVE  LET t == [k \in 1 .. Len(BTBResponses) |-> BTBResponses[k].inst]
         IN  /\ Len(BTBResponses) \in Nat /\ Len(t) = Len(BTBResponses)
             /\ IsAscending(t, Queried(BTBRequests))
<1>1. BTBRequests \in Seq(Request)
  BY DEF BoomTypeOK, BTBRequests
<1>2. Len(BTBRequests) \in Nat
  BY <1>1, LenProperties
<1>3. PICK s : s = BTBQueried
  OBVIOUS
<1>4. QueriesIn(BTBRequests) \in SUBSET (1 .. Len(BTBRequests)) /\ QueriesIn(BTBRequests) \in SUBSET Nat
  BY <1>2 DEF QueriesIn
<1>5. IsAscending(s, QueriesIn(BTBRequests))
  <2>1. s = Ascending(QueriesIn(BTBRequests), Len(BTBRequests))
    BY <1>3 DEF BTBQueried, QueriesIn
  <2> QED BY <1>2, <1>4, <2>1, AscendingIs
<1>6. /\ Len(s) \in Nat
      /\ \A i \in 1 .. Len(s) : s[i] \in QueriesIn(BTBRequests)
      /\ \A i, j \in 1 .. Len(s) : s[i] < s[j] <=> i < j
  BY <1>4, <1>5, Ascends
<1>7. BTBResponses = [k \in 1 .. Len(s) |-> BTBResponse(s[k])]
  BY <1>3 DEF BTBResponses
<1>8. Len(BTBResponses) = Len(s)
  <2> DEFINE S == {BTBResponse(s[k]) : k \in 1 .. Len(s)}
  <2>1. BTBResponses \in [1 .. Len(s) -> S]
    BY <1>7
  <2> HIDE DEF S
  <2> QED BY <1>6, <2>1, FunctionIsSeq
<1>9. PICK t : t = [k \in 1 .. Len(BTBResponses) |-> BTBResponses[k].inst]
  OBVIOUS
<1>10. t = [k \in 1 .. Len(s) |-> BTBRequests[s[k]].inst]
  BY <1>7, <1>8, <1>9 DEF BTBResponse
<1>11. t \in Seq(Queried(BTBRequests)) /\ Len(t) = Len(s)
  <2>1. t \in [1 .. Len(s) -> Queried(BTBRequests)]
    BY <1>6, <1>10 DEF Queried
  <2> QED BY <1>6, <2>1, FunctionIsSeq
<1>12. \A i, j \in 1 .. Len(t) : i < j => t[i] < t[j]
  <2> SUFFICES ASSUME NEW i \in 1 .. Len(s), NEW j \in 1 .. Len(s), i < j PROVE t[i] < t[j]
    BY <1>11
  <2>1. s[i] < s[j] /\ s[i] \in QueriesIn(BTBRequests) /\ s[j] \in QueriesIn(BTBRequests)
    BY <1>6
  <2>2. BTBRequests[s[i]].inst < BTBRequests[s[j]].inst
    BY <2>1 DEF QueriesAscend
  <2> QED BY <1>10, <2>2
<1>13. \A x \in Queried(BTBRequests) : \E i \in 1 .. Len(t) : t[i] = x
  <2> SUFFICES ASSUME NEW n \in QueriesIn(BTBRequests)
               PROVE  \E i \in 1 .. Len(s) : t[i] = BTBRequests[n].inst
    BY <1>11 DEF Queried
  <2>1. PICK i \in 1 .. Len(s) : s[i] = n
    BY <1>5 DEF IsAscending
  <2> QED BY <1>10, <2>1
<1>14. IsAscending(t, Queried(BTBRequests))
  BY <1>11, <1>12, <1>13 DEF IsAscending
<1> QED BY <1>6, <1>8, <1>9, <1>11, <1>14

LEMMA AwaitingAre ==
  ASSUME BoomTypeOK, InProgramOrder
  PROVE  LET t == [k \in 1 .. Len(Awaiting) |-> Awaiting[k].inst]
         IN  /\ Len(Awaiting) \in Nat /\ Len(t) = Len(Awaiting)
             /\ IsAscending(t, Awaited)
<1>1. fetchBuffer \in Seq(BoomEntry) /\ Usage \in Nat
  BY BoomTyped DEF BoomTypeOK
<1> DEFINE T == {k \in 1 .. Usage : IsAwaited(fetchBuffer[k])}
<1>2. T \in SUBSET (1 .. Len(fetchBuffer)) /\ T \in SUBSET Nat /\ T \in SUBSET (1 .. Usage)
  BY DEF Usage
<1>3. Awaiting = Selected(fetchBuffer, T) /\ Awaited = {fetchBuffer[k].inst : k \in T}
  BY DEF Awaiting, Awaited, InstsAt
<1> HIDE DEF T
<1>4. PICK s : /\ IsAscending(s, T) /\ Len(Awaiting) = Len(s)
               /\ \A i \in 1 .. Len(s) : Awaiting[i] = fetchBuffer[s[i]]
  <2>1. \E at : /\ IsAscending(at, T) /\ Len(Selected(fetchBuffer, T)) = Len(at)
                /\ \A i \in 1 .. Len(at) : Selected(fetchBuffer, T)[i] = fetchBuffer[at[i]]
    BY <1>1, <1>2, SelectedIs
  <2> QED BY <1>3, <2>1
<1>5. /\ Len(s) \in Nat
      /\ \A i \in 1 .. Len(s) : s[i] \in T
      /\ \A i, j \in 1 .. Len(s) : s[i] < s[j] <=> i < j
  BY <1>2, <1>4, Ascends
<1>6. PICK t : t = [k \in 1 .. Len(Awaiting) |-> Awaiting[k].inst]
  OBVIOUS
<1>7. t = [k \in 1 .. Len(s) |-> fetchBuffer[s[k]].inst]
  BY <1>4, <1>6
<1>8. t \in Seq(Awaited) /\ Len(t) = Len(s)
  <2>1. t \in [1 .. Len(s) -> Awaited]
    BY <1>3, <1>5, <1>7
  <2> QED BY <1>5, <2>1, FunctionIsSeq
<1>9. \A i, j \in 1 .. Len(t) : i < j => t[i] < t[j]
  <2> SUFFICES ASSUME NEW i \in 1 .. Len(s), NEW j \in 1 .. Len(s), i < j PROVE t[i] < t[j]
    BY <1>8
  <2>1. s[i] < s[j] /\ s[i] \in 1 .. Usage /\ s[j] \in 1 .. Usage
    BY <1>2, <1>5
  <2>2. fetchBuffer[s[i]].inst < fetchBuffer[s[j]].inst
    BY <2>1 DEF InProgramOrder
  <2> QED BY <1>7, <2>2
<1>10. \A x \in Awaited : \E i \in 1 .. Len(t) : t[i] = x
  <2> SUFFICES ASSUME NEW n \in T PROVE \E i \in 1 .. Len(s) : t[i] = fetchBuffer[n].inst
    BY <1>3, <1>8
  <2>1. PICK i \in 1 .. Len(s) : s[i] = n
    BY <1>4 DEF IsAscending
  <2> QED BY <1>7, <2>1
<1>11. IsAscending(t, Awaited)
  BY <1>8, <1>9, <1>10 DEF IsAscending
<1> QED BY <1>4, <1>5, <1>6, <1>8, <1>11

LEMMA BTBResponsesBelong ==
  ASSUME BoomInductive
  PROVE  BTBResponsesMatch
<1>0. /\ BoomTypeOK /\ InProgramOrder /\ AwaitsBTB
  BY DEF BoomInductive
<1>1. Awaited \in SUBSET Nat
  BY <1>0, BoomTyped
<1>2. QueriesAscend(BTBRequests)
  BY <1>0 DEF AwaitsBTB, BTBRequests
<1>3. PICK s, t : /\ s = [k \in 1 .. Len(BTBResponses) |-> BTBResponses[k].inst]
                  /\ t = [k \in 1 .. Len(Awaiting) |-> Awaiting[k].inst]
  OBVIOUS
<1>4. /\ Len(BTBResponses) \in Nat /\ Len(s) = Len(BTBResponses)
      /\ IsAscending(s, Queried(BTBRequests))
  BY <1>0, <1>2, <1>3, ResponsesAre
<1>5. Len(Awaiting) \in Nat /\ Len(t) = Len(Awaiting) /\ IsAscending(t, Awaited)
  BY <1>0, <1>3, AwaitingAre
<1>6. /\ Queried(BTBRequests) \subseteq Awaited
      /\ \A a \in Queried(BTBRequests), b \in Awaited \ Queried(BTBRequests) : a < b
  BY <1>0 DEF AwaitsBTB, BTBRequests
<1>7. Queried(BTBRequests) \in SUBSET Nat
  BY <1>1, <1>6
<1>8. \A k \in 1 .. Len(s) : k <= Len(t) /\ t[k] = s[k]
  BY <1>1, <1>4, <1>5, <1>6, <1>7, FirstOnesAreThePrefix
<1>9. ASSUME NEW k \in 1 .. Len(BTBResponses)
      PROVE  k <= Len(Awaiting) /\ Awaiting[k].inst = BTBResponses[k].inst
  <2>1. k <= Len(Awaiting) /\ t[k] = s[k]
    BY <1>4, <1>5, <1>8
  <2>2. k \in 1 .. Len(Awaiting)
    BY <1>4, <1>5, <2>1
  <2> QED BY <1>3, <2>1, <2>2
<1> QED BY <1>9 DEF BTBResponsesMatch
LEMMA BoomChecksBTB ==
  ASSUME BoomInductive, ClockCheckBTB
  PROVE  BoomInductive'
<1>0. /\ BoomTypeOK /\ InProgramOrder /\ FlagsAgree /\ FlagsLead
      /\ AwaitsPredictor /\ AwaitsBTB
  BY DEF BoomInductive
<1>1. /\ Usage \in Nat
      /\ \A k \in 1 .. Usage : /\ fetchBuffer[k].inst \in Program
                               /\ fetchBuffer[k].flags \in SUBSET BoomFlags
      /\ Awaited \in SUBSET Program /\ Program \in SUBSET Nat
  BY <1>0, BoomTyped
<1>2. PICK N : N = Len(BTBResponses)
  OBVIOUS
<1>3. PICK A : A = Queried(BTBRequests)
  OBVIOUS
<1>4. /\ N \in Nat
      /\ \A n \in 1 .. N : BTBResponses[n].inst \in A
      /\ \A x \in A : \E n \in 1 .. N : BTBResponses[n].inst = x
  <2>1. QueriesAscend(BTBRequests)
    BY <1>0 DEF AwaitsBTB, BTBRequests
  <2>2. PICK t : t = [k \in 1 .. Len(BTBResponses) |-> BTBResponses[k].inst]
    OBVIOUS
  <2>3. N \in Nat /\ Len(t) = N /\ IsAscending(t, A)
    BY <1>0, <1>2, <1>3, <2>1, <2>2, ResponsesAre
  <2>4. \A n \in 1 .. N : t[n] = BTBResponses[n].inst
    BY <1>2, <2>2
  <2>5. A \in SUBSET Nat
    BY <1>0, <1>1, <1>3 DEF AwaitsBTB, BTBRequests
  <2>6. \A n \in 1 .. N : t[n] \in A
    BY <2>3, <2>5, Ascends
  <2>7. \A x \in A : \E n \in 1 .. N : t[n] = x
    BY <2>3 DEF IsAscending
  <2> QED BY <2>3, <2>4, <2>6, <2>7
<1>5. /\ A \cup Queried(inside["btb"].written) = Awaited
      /\ \A i \in A, j \in Queried(inside["btb"].written) : i < j
      /\ A \subseteq Awaited
  BY <1>0, <1>3 DEF AwaitsBTB, BTBRequests
<1>6. /\ fetchBuffer' =
           [k \in 1 .. Usage |->
              [inst  |-> fetchBuffer[k].inst,
               flags |-> fetchBuffer[k].flags \cup
                 IF fetchBuffer[k].inst \in A THEN {"BTBCheck"} ELSE {}]]
      /\ inside' = Swapped("btb", [k \in 1 .. N |-> UpdateFor(BTBResponses[k])])
      /\ step = "ClockCheckBTB" /\ step' = "ClockUnbuffer"
      /\ UNCHANGED <<currentPenalty, channel, envVars, walk, ras>>
  <2>1. \A k \in 1 .. Usage :
          (\E n \in 1 .. N : BTBResponses[n].inst = fetchBuffer[k].inst) <=> fetchBuffer[k].inst \in A
    BY <1>4
  <2>2. fetchBuffer' =
           [k \in 1 .. Usage |->
              [inst  |-> fetchBuffer[k].inst,
               flags |-> fetchBuffer[k].flags \cup
                 IF \E n \in 1 .. N : BTBResponses[n].inst = fetchBuffer[k].inst
                   THEN {"BTBCheck"} ELSE {}]]
    BY <1>2 DEF ClockCheckBTB
  <2> QED BY <1>2, <2>1, <2>2 DEF ClockCheckBTB
<1>7. \A k \in 1 .. Usage : /\ fetchBuffer'[k].inst = fetchBuffer[k].inst
                            /\ fetchBuffer'[k].flags = fetchBuffer[k].flags \cup
                                 IF fetchBuffer[k].inst \in A THEN {"BTBCheck"} ELSE {}
  BY <1>6
<1>8. fetchBuffer' \in Seq(BoomEntry) /\ Usage' = Usage
  <2>1. "BTBCheck" \in BoomFlags
    BY DEF BoomFlags
  <2>2. ASSUME NEW k \in 1 .. Usage PROVE fetchBuffer'[k] \in BoomEntry
    <3>1. (fetchBuffer[k].flags \cup IF fetchBuffer[k].inst \in A THEN {"BTBCheck"} ELSE {})
            \in SUBSET BoomFlags
      BY <1>1, <2>1
    <3> QED BY <1>1, <1>6, <3>1 DEF BoomEntry
  <2>3. fetchBuffer' \in [1 .. Usage -> BoomEntry]
    BY <1>6, <2>2
  <2> QED BY <1>1, <2>3, FunctionIsSeq DEF Usage
<1>9. \A k \in 1 .. Usage :
        /\ Has(k, "SentToMemory")' <=> Has(k, "SentToMemory")
        /\ Has(k, "SentToBTB")' <=> Has(k, "SentToBTB")
        /\ Has(k, "Predicted")' <=> Has(k, "Predicted")
        /\ Has(k, "BTBCheck")' <=> Has(k, "BTBCheck") \/ fetchBuffer[k].inst \in A
        /\ IsAwaited(fetchBuffer[k])' <=> IsAwaited(fetchBuffer[k]) /\ fetchBuffer[k].inst \notin A
  <2> TAKE k \in 1 .. Usage
  <2>1. \A f : f # "BTBCheck" => (f \in fetchBuffer'[k].flags <=> f \in fetchBuffer[k].flags)
    BY <1>7
  <2>2. "BTBCheck" \in fetchBuffer'[k].flags <=>
          "BTBCheck" \in fetchBuffer[k].flags \/ fetchBuffer[k].inst \in A
    BY <1>7
  <2> QED BY <2>1, <2>2 DEF Has, IsAwaited
<1>10. \A k \in 1 .. Usage : fetchBuffer[k].inst \in A => IsAwaited(fetchBuffer[k])
  <2> SUFFICES ASSUME NEW k \in 1 .. Usage, fetchBuffer[k].inst \in A PROVE IsAwaited(fetchBuffer[k])
    OBVIOUS
  <2>1. PICK j \in 1 .. Usage : fetchBuffer[j].inst = fetchBuffer[k].inst /\ IsAwaited(fetchBuffer[j])
    BY <1>5 DEF Awaited, InstsAt
  <2>2. j = k
    BY <1>0, <2>1, BufferOrder
  <2> QED BY <2>1, <2>2
<1>11. /\ Readable("response")' = Readable("response") /\ Readable("query")' = Readable("query")
       /\ Readable("prediction")' = Readable("prediction")
       /\ channel'["query"] = channel["query"]
  BY <1>6 DEF Readable
<1>12. InProgramOrder'
  BY <1>0, <1>6, <1>7, <1>8, <1>11, OnlyFlagsChange DEF envVars
<1>13. FlagsAgree'
  <2> SUFFICES ASSUME NEW k \in 1 .. Usage
               PROVE  /\ Has(k, "SentToBTB")' <=> Has(k, "SentToMemory")' /\ IsBranch(fetchBuffer[k].inst)'
                      /\ Has(k, "BTBCheck")' => Has(k, "SentToBTB")'
                      /\ Has(k, "Predicted")' => Has(k, "SentToMemory")'
    BY <1>8 DEF FlagsAgree
  <2>1. fetchBuffer[k].inst \in A => Has(k, "SentToBTB")
    BY <1>10 DEF IsAwaited, Has
  <2>2. IsBranch(fetchBuffer[k].inst)' <=> IsBranch(fetchBuffer[k].inst)
    BY <1>6, <1>7 DEF IsBranch, KindOf
  <2> QED BY <1>0, <1>9, <2>1, <2>2 DEF FlagsAgree
<1>14. FlagsLead'
  BY <1>0, <1>8, <1>9 DEF FlagsLead
<1>15. Awaited' = Queried(inside["btb"].written)
  <2>1. \A x : x \in Awaited' <=> x \in Awaited /\ x \notin A
    BY <1>7, <1>8, <1>9 DEF Awaited, InstsAt
  <2>2. \A x : x \in Queried(inside["btb"].written) => x \notin A
    <3> SUFFICES ASSUME NEW x \in Queried(inside["btb"].written), x \in A PROVE FALSE
      OBVIOUS
    <3>1. x < x /\ x \in Nat
      BY <1>1, <1>5
    <3> QED BY <3>1
  <2>3. \A x : x \in Awaited' <=> x \in Queried(inside["btb"].written)
    BY <1>5, <2>1, <2>2
  <2> QED BY <2>3
<1>16. Unanswered' = Unanswered
  <2>1. \A x : x \in Unanswered' <=> x \in Unanswered
    BY <1>7, <1>8, <1>9 DEF Unanswered, InstsAt
  <2> QED BY <2>1
<1>17. AwaitsPredictor'
  <2>1. Pipe' = Pipe
    BY <1>6, <1>11 DEF Pipe, Predicting, envVars
  <2> QED BY <1>0, <1>6, <1>11, <1>16, <2>1 DEF AwaitsPredictor
<1>18. PICK r : r = [k \in 1 .. N |-> UpdateFor(BTBResponses[k])]
  OBVIOUS
<1>19. r \in Seq(Request) /\ QueriesIn(r) = {}
  <2>1. \A k \in 1 .. N : r[k] \in Request /\ r[k].type # "Query"
    BY <1>1, <1>4, <1>5, <1>18 DEF UpdateFor, Request
  <2>2. r \in [1 .. N -> Request]
    BY <1>18, <2>1
  <2>3. r \in Seq(Request) /\ Len(r) = N
    BY <1>4, <2>2, FunctionIsSeq
  <2> QED BY <2>1, <2>3 DEF QueriesIn
<1>20. /\ inside'["btb"].written = r /\ inside'["btb"].readable = inside["btb"].written
       /\ AreInside(inside')
  <2>1. AreInside(inside)
    BY <1>0 DEF BoomTypeOK
  <2>2. \A x \in {"ras", "btb"} :
          inside[x] = [written |-> inside[x].written, readable |-> inside[x].readable]
    BY <2>1 DEF AreInside
  <2>3. /\ inside'["ras"] = inside["ras"]
        /\ inside'["btb"] = [written |-> r, readable |-> inside["btb"].written]
    BY <1>6, <1>18, <2>1 DEF Swapped, AreInside
  <2>4. \A x \in {"ras", "btb"} :
          inside'[x] = [written |-> inside'[x].written, readable |-> inside'[x].readable]
    BY <2>2, <2>3
  <2>5. inside' = [x \in {"ras", "btb"} |-> inside'[x]]
    BY <1>6, <2>1 DEF Swapped, AreInside
  <2>6. AreInside(inside')
    BY <2>4, <2>5 DEF AreInside
  <2> QED BY <2>3, <2>6
<1>21. AwaitsBTB'
  <2>1. Queried(r) = {} /\ QueriesAscend(r)
    BY <1>19 DEF Queried, QueriesAscend
  <2> QED BY <1>0, <1>15, <1>20, <2>1 DEF AwaitsBTB
<1>22. BoomTypeOK'
  BY <1>0, <1>6, <1>8, <1>11, <1>19, <1>20
  DEF BoomTypeOK, BoomSteps, Steps, Readable, envVars, configVars, hasPredictor
<1> QED BY <1>12, <1>13, <1>14, <1>17, <1>21, <1>22 DEF BoomInductive
(***************************************************************************)
(* ClockUnbuffer: nothing that leaves is still to be answered.             *)
(***************************************************************************)
LEMMA BoomUnbuffers ==
  ASSUME BoomInductive, BoomUnbuffer
  PROVE  BoomInductive'
<1>0. /\ BoomTypeOK /\ InProgramOrder /\ FlagsAgree /\ FlagsLead
      /\ AwaitsPredictor /\ AwaitsBTB
  BY DEF BoomInductive
<1>1. Usage \in Nat /\ fetchBuffer \in Seq(BoomEntry)
  BY <1>0, BoomTyped DEF BoomTypeOK
<1> DEFINE T == {k \in 0 .. Usage : \A j \in 1 .. k : MayLeave(fetchBuffer[j])}
<1>2. PICK n : n = Max(T)
  OBVIOUS
<1>3. n \in 0 .. Usage /\ \A j \in 1 .. n : MayLeave(fetchBuffer[j])
  <2>1. T \in SUBSET (0 .. Usage) /\ 0 \in T
    BY <1>1
  <2>2. \A k \in T : k \in 0 .. Usage /\ \A j \in 1 .. k : MayLeave(fetchBuffer[j])
    OBVIOUS
  <2> HIDE DEF T
  <2>3. Max(T) \in T
    BY <1>1, <2>1, GreatestNumber
  <2> QED BY <1>2, <2>2, <2>3
<1>4. /\ fetchBuffer' = SubSeq(fetchBuffer, n + 1, Usage)
      /\ step = "ClockUnbuffer" /\ step' = "Penalty"
      /\ UNCHANGED <<clockVars, channel, envVars, walk, ras, inside>>
  BY <1>2 DEF BoomUnbuffer
<1> HIDE DEF T
<1>5. /\ fetchBuffer' \in Seq(BoomEntry) /\ Usage' = Usage - n
      /\ \A i \in 1 .. Usage - n : fetchBuffer'[i] = fetchBuffer[n + i]
  <2>1. \A i \in n + 1 .. Usage : fetchBuffer[i] \in BoomEntry
    <3>1. \A i \in 1 .. Usage : fetchBuffer[i] \in BoomEntry
      BY <1>1, ElementOfSeq DEF Usage
    <3> QED BY <1>1, <1>3, <3>1
  <2>2. /\ fetchBuffer' \in Seq(BoomEntry)
        /\ Len(fetchBuffer') = IF n + 1 <= Usage THEN Usage - (n + 1) + 1 ELSE 0
        /\ \A i \in 1 .. Usage - (n + 1) + 1 : fetchBuffer'[i] = fetchBuffer[(n + 1) + i - 1]
    BY <1>1, <1>3, <1>4, <2>1, n + 1 \in Int, Usage \in Int, SubSeqProperties
  <2>3. Usage - (n + 1) + 1 = Usage - n /\ \A i \in 1 .. Usage - n : (n + 1) + i - 1 = n + i
    BY <1>1, <1>3
  <2>4. Len(fetchBuffer') = Usage - n
    BY <1>1, <1>3, <2>2
  <2> QED BY <2>2, <2>3, <2>4 DEF Usage
<1>6. /\ \A i \in 1 .. Usage - n : n + i \in 1 .. Usage /\ ~(n + i <= n)
      /\ \A k \in 1 .. Usage : k \in 1 .. n \/ \E i \in 1 .. Usage - n : k = n + i
  <2>1. \A i \in 1 .. Usage - n : n + i \in 1 .. Usage /\ ~(n + i <= n)
    BY <1>1, <1>3
  <2>2. ASSUME NEW k \in 1 .. Usage, k \notin 1 .. n PROVE \E i \in 1 .. Usage - n : k = n + i
    <3>1. k - n \in 1 .. Usage - n /\ k = n + (k - n)
      BY <1>1, <1>3, <2>2
    <3> QED BY <3>1
  <2> QED BY <2>1, <2>2
<1>7. \A j \in 1 .. n : /\ Has(j, "SentToMemory") /\ Has(j, "Predicted")
                        /\ ~IsAwaited(fetchBuffer[j])
  <2>1. flagsToCheck = {"SentToMemory", "Predicted"}
    BY <1>0 DEF flagsToCheck, BoomTypeOK
  <2> QED BY <1>3, <2>1 DEF MayLeave, Has
<1>8. InProgramOrder'
  <2>1. Usage' \in Nat /\ n \in Nat /\ Usage' + n <= Usage
    BY <1>1, <1>3, <1>5
  <2>2. \A i \in 1 .. Usage' : fetchBuffer'[i].inst = fetchBuffer[n + i].inst
    BY <1>5
  <2>3. Readable("response")' = Readable("response") /\ next' = next
    BY <1>4 DEF Readable, envVars
  <2> QED BY <1>0, <1>1, <2>1, <2>2, <2>3, OrderIsKept
<1>9. \A i \in 1 .. Usage - n : \A f : Has(i, f)' <=> Has(n + i, f)
  BY <1>5 DEF Has
<1>10. FlagsAgree'
  <2> SUFFICES ASSUME NEW k \in 1 .. Usage - n
               PROVE  /\ Has(k, "SentToBTB")' <=> Has(k, "SentToMemory")' /\ IsBranch(fetchBuffer[k].inst)'
                      /\ Has(k, "BTBCheck")' => Has(k, "SentToBTB")'
                      /\ Has(k, "Predicted")' => Has(k, "SentToMemory")'
    BY <1>5 DEF FlagsAgree
  <2>1. IsBranch(fetchBuffer[k].inst)' <=> IsBranch(fetchBuffer[n + k].inst)
    BY <1>4, <1>5 DEF IsBranch, KindOf
  <2> QED BY <1>0, <1>6, <1>9, <2>1 DEF FlagsAgree
<1>11. FlagsLead'
  <2> SUFFICES ASSUME NEW j \in 1 .. Usage - n, NEW k \in 1 .. Usage - n, j < k,
                      NEW f \in {"SentToMemory", "Predicted"}, Has(k, f)'
               PROVE  Has(j, f)'
    BY <1>5 DEF FlagsLead
  <2>1. n + j \in 1 .. Usage /\ n + k \in 1 .. Usage /\ n + j < n + k
    BY <1>3, <1>6
  <2>2. Has(n + j, f)
    BY <1>0, <1>9, <2>1 DEF FlagsLead
  <2> QED BY <1>9, <2>2
<1>12. Unanswered' = Unanswered
  <2>1. Unanswered' = {fetchBuffer[n + i].inst : i \in {i \in 1 .. Usage - n :
                          Has(n + i, "SentToMemory") /\ ~Has(n + i, "Predicted")}}
    <3>1. \A x : x \in Unanswered' <=>
            \E i \in 1 .. Usage - n : /\ Has(i, "SentToMemory")' /\ ~Has(i, "Predicted")'
                                      /\ x = fetchBuffer'[i].inst
      BY <1>5 DEF Unanswered, InstsAt
    <3>2. \A x : x \in Unanswered' <=>
            \E i \in 1 .. Usage - n : /\ Has(n + i, "SentToMemory") /\ ~Has(n + i, "Predicted")
                                      /\ x = fetchBuffer[n + i].inst
      BY <1>5, <1>9, <3>1
    <3> QED BY <3>2
  <2>2. ASSUME NEW x \in Unanswered PROVE x \in Unanswered'
    <3>1. PICK k \in 1 .. Usage : x = fetchBuffer[k].inst /\ Has(k, "SentToMemory") /\ ~Has(k, "Predicted")
      BY DEF Unanswered, InstsAt
    <3>2. PICK i \in 1 .. Usage - n : k = n + i
      BY <1>6, <1>7, <3>1
    <3> QED BY <2>1, <3>1, <3>2
  <2>3. ASSUME NEW x \in Unanswered' PROVE x \in Unanswered
    BY <1>6, <2>1 DEF Unanswered, InstsAt
  <2>4. \A x : x \in Unanswered' <=> x \in Unanswered
    BY <2>2, <2>3
  <2> QED BY <2>4
<1>13. Awaited' = Awaited
  <2>1. \A x : x \in Awaited' <=>
          \E i \in 1 .. Usage - n : IsAwaited(fetchBuffer[n + i]) /\ x = fetchBuffer[n + i].inst
    <3>1. \A x : x \in Awaited' <=>
            \E i \in 1 .. Usage - n : IsAwaited(fetchBuffer[i])' /\ x = fetchBuffer'[i].inst
      BY <1>5 DEF Awaited, InstsAt
    <3>2. \A i \in 1 .. Usage - n : IsAwaited(fetchBuffer[i])' <=> IsAwaited(fetchBuffer[n + i])
      BY <1>5 DEF IsAwaited
    <3> QED BY <1>5, <3>1, <3>2
  <2>2. ASSUME NEW x \in Awaited PROVE x \in Awaited'
    <3>1. PICK k \in 1 .. Usage : x = fetchBuffer[k].inst /\ IsAwaited(fetchBuffer[k])
      BY DEF Awaited, InstsAt
    <3>2. PICK i \in 1 .. Usage - n : k = n + i
      BY <1>6, <1>7, <3>1
    <3> QED BY <2>1, <3>1, <3>2
  <2>3. ASSUME NEW x \in Awaited' PROVE x \in Awaited
    BY <1>6, <2>1 DEF Awaited, InstsAt
  <2>4. \A x : x \in Awaited' <=> x \in Awaited
    BY <2>2, <2>3
  <2> QED BY <2>4
<1>14. AwaitsPredictor' /\ AwaitsBTB'
  <2>1. Pipe' = Pipe /\ Readable("prediction")' = Readable("prediction")
    BY <1>4 DEF Pipe, Predicting, Readable, envVars
  <2> QED BY <1>0, <1>4, <1>12, <1>13, <2>1 DEF AwaitsPredictor, AwaitsBTB
<1>15. BoomTypeOK'
  BY <1>0, <1>4, <1>5
  DEF BoomTypeOK, BoomSteps, Steps, Readable, clockVars, envVars, configVars, hasPredictor
<1> QED BY <1>8, <1>10, <1>11, <1>14, <1>15 DEF BoomInductive

(***************************************************************************)
(* The rest of Clock, and the other components.                            *)
(***************************************************************************)
LEMMA BoomPenalises ==
  ASSUME BoomInductive, PaysPenalty \/ StartsPenalty \/ PaysNoPenalty, UNCHANGED innerVars
  PROVE  BoomInductive'
<1>1. BoomTypeOK
  BY DEF BoomInductive
<1>2. /\ UNCHANGED <<fetchBuffer, channel, envVars, walk, ras, inside>> /\ step = "Penalty"
      /\ step' \in {"ClockFetch", "Elsewhere"}
  BY DEF PaysPenalty, StartsPenalty, PaysNoPenalty, innerVars
<1>3. currentPenalty' \in 0 .. misspredictPenalty
  BY <1>1 DEF PaysPenalty, StartsPenalty, PaysNoPenalty, BoomTypeOK, clockVars
<1>4. BoomTypeOK'
  BY <1>1, <1>2, <1>3 DEF BoomTypeOK, BoomSteps, Steps, envVars, configVars, Readable, hasPredictor
<1> QED BY <1>2, <1>4, BoomQuiet DEF envVars

LEMMA BoomRequests ==
  ASSUME BoomInductive, ClockRequestFetch, UNCHANGED innerVars
  PROVE  BoomInductive'
<1>1. BoomTypeOK
  BY DEF BoomInductive
<1>2. /\ UNCHANGED <<fetchBuffer, currentPenalty, envVars, walk, ras, inside>>
      /\ step = "ClockRequestFetch" /\ step' = "Elsewhere"
  BY DEF ClockRequestFetch, innerVars
<1>3. /\ AreChannels(channel')
      /\ \A x \in {"response", "query", "prediction"} : channel'[x] = channel[x]
  BY <1>1, RequestIsWritten DEF Channels, BoomTypeOK
<1>4. BoomTypeOK'
  BY <1>1, <1>2, <1>3 DEF BoomTypeOK, BoomSteps, Steps, envVars, configVars, Readable, hasPredictor
<1> QED BY <1>2, <1>3, <1>4, BoomQuiet DEF envVars

LEMMA BoomFetches ==
  ASSUME BoomInductive, ClockFetch, UNCHANGED innerVars
  PROVE  BoomInductive'
<1>0. /\ BoomTypeOK /\ InProgramOrder /\ FlagsAgree /\ FlagsLead
      /\ AwaitsPredictor /\ AwaitsBTB
  BY DEF BoomInductive
<1>1. PICK r : r = Readable("response")
  OBVIOUS
<1>2. /\ fetchBuffer \in Seq(BoomEntry) /\ r \in Seq(Program)
      /\ \A i \in Program : NewEntry(i) \in BoomEntry
  BY <1>0, <1>1 DEF BoomTypeOK, NewEntry, BoomEntry
<1>3. /\ Usage \in Nat /\ Len(r) \in Nat /\ Usage' = Usage + Len(r)
      /\ fetchBuffer' \in Seq(BoomEntry)
      /\ \A i \in 1 .. Usage : fetchBuffer'[i] = fetchBuffer[i]
      /\ \A i \in 1 .. Len(r) : fetchBuffer'[Usage + i] = [inst |-> r[i], flags |-> {}]
      /\ \A i \in 1 .. Usage' : i \in 1 .. Usage \/ \E j \in 1 .. Len(r) : i = Usage + j
  BY <1>1, <1>2, WhatArrives
<1>4. /\ AreChannels(channel') /\ Readable("response")' = <<>>
      /\ channel'["query"] = channel["query"] /\ channel'["prediction"] = channel["prediction"]
  BY <1>0, FetchTakes DEF Channels, Arriving, BoomTypeOK
<1>5. InProgramOrder'
  BY <1>0, <1>1, <1>2, <1>4, ArrivedAreInOrder
<1>6. /\ UNCHANGED <<currentPenalty, envVars, walk, ras, inside>> /\ step = "ClockFetch"
      /\ step' \in {"ClockRequestFetch", "Elsewhere"}
  BY DEF ClockFetch, innerVars
<1>7. \A k \in 1 .. Usage' :
        /\ k \in 1 .. Usage => fetchBuffer'[k] = fetchBuffer[k]
        /\ k \notin 1 .. Usage => fetchBuffer'[k].flags = {}
  <2> SUFFICES ASSUME NEW k \in 1 .. Usage', k \notin 1 .. Usage PROVE fetchBuffer'[k].flags = {}
    BY <1>3
  <2>1. PICK j \in 1 .. Len(r) : k = Usage + j
    BY <1>3
  <2>2. fetchBuffer'[k] = [inst |-> r[j], flags |-> {}]
    BY <1>3, <2>1
  <2> QED BY <2>2
<1>8. \A k \in 1 .. Usage' : \A f : Has(k, f)' <=> k \in 1 .. Usage /\ Has(k, f)
  BY <1>7 DEF Has
<1>9. \A k \in 1 .. Usage : k \in 1 .. Usage'
  BY <1>3
<1>10. FlagsAgree'
  <2> SUFFICES ASSUME NEW k \in 1 .. Usage'
               PROVE  /\ Has(k, "SentToBTB")' <=> Has(k, "SentToMemory")' /\ IsBranch(fetchBuffer[k].inst)'
                      /\ Has(k, "BTBCheck")' => Has(k, "SentToBTB")'
                      /\ Has(k, "Predicted")' => Has(k, "SentToMemory")'
    BY DEF FlagsAgree
  <2>1. k \in 1 .. Usage => (IsBranch(fetchBuffer[k].inst)' <=> IsBranch(fetchBuffer[k].inst))
    BY <1>6, <1>7 DEF IsBranch, KindOf
  <2> QED BY <1>0, <1>8, <2>1 DEF FlagsAgree
<1>11. FlagsLead'
  <2> SUFFICES ASSUME NEW j \in 1 .. Usage', NEW k \in 1 .. Usage', j < k,
                      NEW f \in {"SentToMemory", "Predicted"}, Has(k, f)'
               PROVE  Has(j, f)'
    BY DEF FlagsLead
  <2>1. k \in 1 .. Usage /\ Has(k, f)
    BY <1>8
  <2>2. j \in 1 .. Usage
    BY <1>3, <2>1
  <2> QED BY <1>0, <1>8, <2>1, <2>2 DEF FlagsLead
<1>12. Unanswered' = Unanswered
  <2>1. \A x : x \in Unanswered' <=>
          \E k \in 1 .. Usage' : /\ Has(k, "SentToMemory")' /\ ~Has(k, "Predicted")'
                                 /\ x = fetchBuffer'[k].inst
    BY DEF Unanswered, InstsAt
  <2>2. \A x : x \in Unanswered' <=>
          \E k \in 1 .. Usage : /\ Has(k, "SentToMemory") /\ ~Has(k, "Predicted")
                                /\ x = fetchBuffer[k].inst
    BY <1>7, <1>8, <1>9, <2>1
  <2>3. \A x : x \in Unanswered' <=> x \in Unanswered
    BY <2>2 DEF Unanswered, InstsAt
  <2> QED BY <2>3
<1>13. Awaited' = Awaited
  <2>1. \A x : x \in Awaited' <=>
          \E k \in 1 .. Usage' : IsAwaited(fetchBuffer[k])' /\ x = fetchBuffer'[k].inst
    BY DEF Awaited, InstsAt
  <2>2. \A k \in 1 .. Usage' : IsAwaited(fetchBuffer[k])' <=> k \in 1 .. Usage /\ IsAwaited(fetchBuffer[k])
    BY <1>7 DEF IsAwaited
  <2>3. \A x : x \in Awaited' <=>
          \E k \in 1 .. Usage : IsAwaited(fetchBuffer[k]) /\ x = fetchBuffer[k].inst
    BY <1>7, <1>9, <2>1, <2>2
  <2>4. \A x : x \in Awaited' <=> x \in Awaited
    BY <2>3 DEF Awaited, InstsAt
  <2> QED BY <2>4
<1>14. AwaitsPredictor' /\ AwaitsBTB'
  <2>1. Pipe' = Pipe /\ Readable("prediction")' = Readable("prediction")
    BY <1>4, <1>6 DEF Pipe, Predicting, Readable, envVars
  <2> QED BY <1>0, <1>4, <1>6, <1>12, <1>13, <2>1 DEF AwaitsPredictor, AwaitsBTB
<1>15. BoomTypeOK'
  <2>1. Readable("response")' \in Seq(Program)
    BY <1>4, EmptySeq
  <2> QED BY <1>0, <1>3, <1>4, <1>6, <2>1
          DEF BoomTypeOK, BoomSteps, Steps, Readable, envVars, configVars, hasPredictor
<1> QED BY <1>5, <1>10, <1>11, <1>14, <1>15 DEF BoomInductive
LEMMA BoomOthersAct ==
  ASSUME BoomInductive, Elsewhere, UNCHANGED innerVars
  PROVE  BoomInductive'
<1>0. /\ BoomTypeOK /\ InProgramOrder /\ FlagsAgree /\ FlagsLead
      /\ AwaitsPredictor /\ AwaitsBTB
  BY DEF BoomInductive
<1>1. /\ step = "Elsewhere" /\ step' = "ClockSendBuffered" /\ next' = next + NumberServed
      /\ UNCHANGED <<fetchBuffer, currentPenalty, configVars, walk, ras, inside>>
  BY DEF Elsewhere, clockVars, innerVars
<1>2. PICK Q : Q = Queries
  OBVIOUS
<1>3. PICK w : w = channel["query"].written
  OBVIOUS
<1>4. /\ Q \in Seq(Program) /\ w \in Seq(Program) /\ Pipe = Q \o w
  <2>1. Readable("prediction") = <<>>
    BY <1>0, <1>1 DEF AwaitsPredictor
  <2>2. Predicting = <<>>
    <3>1. Len(Readable("prediction")) = 0
      BY <2>1
    <3> QED BY <2>1, <3>1 DEF Predicting
  <2>3. Q \in Seq(Program) /\ w \in Seq(Program) /\ Q \o w \in Seq(Program) /\ Pipe = <<>> \o (Q \o w)
    BY <1>0, <1>2, <1>3, <2>2, PipeIs DEF BoomTypeOK
  <2>4. PICK u : u = Q \o w
    OBVIOUS
  <2>5. <<>> \o u = u
    BY <2>3, <2>4, ConcatEmptySeq
  <2> QED BY <2>3, <2>4, <2>5
<1>5. /\ AreChannels(channel') /\ Readable("response")' = Responses
      /\ channel'["query"].written = <<>> /\ Readable("query")' = w
  BY <1>3, MessagesMoveOn DEF Arriving
<1>6. PICK n \in NumbersAnswered : /\ asked' = SubSeq(Q, n + 1, Len(Q))
                                   /\ Readable("prediction")' \in Answers(n)
  BY <1>2, MessagesMoveOn
<1>7. Len(Q) \in Nat /\ n \in 0 .. Len(Q) /\ \A i \in 1 .. Len(Q) : Q[i] \in Program
  <2>1. Len(Q) \in Nat /\ \A i \in 1 .. Len(Q) : Q[i] \in Program
    BY <1>4, LenProperties, ElementOfSeq
  <2>2. NumbersAnswered \subseteq 0 .. Len(Q)
    BY <1>2, <2>1 DEF NumbersAnswered
  <2> QED BY <2>1, <2>2
<1>8. PICK a : a = Readable("prediction")'
  OBVIOUS
<1>9. /\ a \in Seq(Prediction) /\ Len(a) = n
      /\ \A i \in 1 .. n : a[i].inst = Q[i]
  BY <1>2, <1>4, <1>6, <1>7, <1>8, AnswersAre
<1>10. Predicting' = SubSeq(Q, 1, n)
  <2>1. Predicting' = [i \in 1 .. n |-> a[i].inst]
    BY <1>8, <1>9 DEF Predicting
  <2>2. Predicting' = [i \in 1 .. n |-> Q[i]]
    BY <1>9, <2>1
  <2>3. n \in Int /\ 1 \in Int /\ \A i \in 1 .. n : Q[i] \in Program
    BY <1>7
  <2>4. /\ SubSeq(Q, 1, n) \in Seq(Program)
        /\ Len(SubSeq(Q, 1, n)) = IF 1 <= n THEN n - 1 + 1 ELSE 0
        /\ \A i \in 1 .. n - 1 + 1 : SubSeq(Q, 1, n)[i] = Q[1 + i - 1]
    BY <2>3, SubSeqProperties
  <2>5. PICK t : t = SubSeq(Q, 1, n)
    OBVIOUS
  <2>6. t \in Seq(Program) /\ Len(t) = n /\ \A i \in 1 .. n : t[i] = Q[i]
    <3>1. n - 1 + 1 = n /\ (\A i \in 1 .. n : 1 + i - 1 = i) /\ (~(1 <= n) => n = 0)
      BY <1>7
    <3> QED BY <2>4, <2>5, <3>1
  <2>7. t \in [1 .. n -> Program]
    BY <2>6, LenProperties
  <2>8. t = [i \in 1 .. n |-> Q[i]]
    BY <2>6, <2>7
  <2> QED BY <2>2, <2>5, <2>8
<1>11. asked' \in Seq(Program)
  <2>1. n + 1 \in Int /\ Len(Q) \in Int /\ \A i \in n + 1 .. Len(Q) : Q[i] \in Program
    BY <1>7
  <2> QED BY <1>6, <2>1, SubSeqProperties
<1>12. Pipe' = Pipe
  <2>1. Pipe' = (Predicting' \o asked') \o (w \o <<>>)
    BY <1>5 DEF Pipe
  <2>2. w \o <<>> = w
    BY <1>4, ConcatEmptySeq
  <2>3. Predicting' \o asked' = Q
    <3>1. 1 \in 1 .. Len(Q) + 1 /\ n \in 1 - 1 .. Len(Q) /\ Len(Q) \in n .. Len(Q)
      BY <1>7
    <3>2. SubSeq(Q, 1, n) \o SubSeq(Q, n + 1, Len(Q)) = SubSeq(Q, 1, Len(Q))
      BY <1>4, <3>1, ConcatAdjacentSubSeq
    <3>3. SubSeq(Q, 1, Len(Q)) = Q
      BY <1>4, SubSeqFull
    <3> QED BY <1>6, <1>10, <3>2, <3>3
  <2> QED BY <1>4, <2>1, <2>2, <2>3
<1>13. Usage' = Usage /\ fetchBuffer' = fetchBuffer
  BY <1>1 DEF Usage
<1>14. InProgramOrder'
  <2>1. Usage \in Nat /\ \A k \in 1 .. Usage : fetchBuffer[k].inst \in Nat
    BY <1>0, BoomTyped
  <2>2. \A k \in 1 .. Usage : fetchBuffer[k].inst \in Int
    BY <2>1
  <2>3. next \in 1 .. Instructions + 1
    BY <1>0 DEF BoomTypeOK
  <2> QED BY <1>0, <1>5, <2>1, <2>2, <2>3, ServedAreInOrder
<1>15. FlagsAgree' /\ FlagsLead'
  <2>1. FlagsLead'
    BY <1>0, <1>13 DEF FlagsLead, Has
  <2>2. FlagsAgree'
    BY <1>0, <1>1, <1>13 DEF FlagsAgree, Has, IsBranch, KindOf
  <2> QED BY <2>1, <2>2
<1>16. Unanswered' = Unanswered /\ Awaited' = Awaited
  BY <1>13 DEF Unanswered, Awaited, InstsAt, Has, IsAwaited
<1>17. AwaitsPredictor' /\ AwaitsBTB'
  BY <1>0, <1>1, <1>5, <1>12, <1>16 DEF AwaitsPredictor, AwaitsBTB
<1>18. BoomTypeOK'
  <2>1. next' \in 1 .. Instructions + 1 /\ Responses \in Seq(Program)
    <3>1. next \in 1 .. Instructions + 1
      BY <1>0 DEF BoomTypeOK
    <3>2. next' \in next .. Instructions + 1 /\ Responses \in Seq(Program)
      BY <1>1, <3>1, RespondsInOrder
    <3> QED BY <3>1, <3>2, FetcherAssumption
  <2>2. <<>> \in Seq(Program)
    BY EmptySeq
  <2>3. /\ misspredictPenalty' \in Nat \ {0} /\ step' \in BoomSteps /\ hasPredictor'
        /\ fetchBuffer' \in Seq(BoomEntry) /\ currentPenalty' \in 0 .. misspredictPenalty'
        /\ AreInside(inside') /\ ras' = ras /\ inside' = inside
    BY <1>0, <1>1 DEF BoomTypeOK, BoomSteps, Steps, configVars, hasPredictor
  <2> QED BY <1>0, <1>3, <1>4, <1>5, <1>8, <1>9, <1>11, <2>1, <2>2, <2>3 DEF BoomTypeOK
<1> QED BY <1>14, <1>15, <1>17, <1>18 DEF BoomInductive

LEMMA BoomStutters ==
  ASSUME BoomInductive, UNCHANGED boomVars
  PROVE  BoomInductive'
<1>1. UNCHANGED <<step, fetchBuffer, currentPenalty, channel, next, asked, configVars, walk, ras, inside>>
  BY DEF boomVars, fetcherVars, clockVars, envVars, innerVars
<1>2. BoomTypeOK' /\ InProgramOrder' /\ FlagsAgree' /\ FlagsLead'
  <2>1. BoomTypeOK'
    BY <1>1 DEF BoomInductive, BoomTypeOK, Readable, configVars, hasPredictor
  <2>2. InProgramOrder'
    BY <1>1 DEF BoomInductive, InProgramOrder, Readable, Usage
  <2>3. FlagsAgree' /\ FlagsLead'
    BY <1>1 DEF BoomInductive, FlagsAgree, FlagsLead, Has, Usage, IsBranch, KindOf
  <2> QED BY <2>1, <2>2, <2>3
<1>3. Unanswered' = Unanswered /\ Awaited' = Awaited /\ Pipe' = Pipe
      /\ Readable("prediction")' = Readable("prediction")
  BY <1>1 DEF Unanswered, Awaited, InstsAt, Has, IsAwaited, Usage, Pipe, Predicting, Readable
<1>4. AwaitsPredictor' /\ AwaitsBTB'
  BY <1>1, <1>3 DEF BoomInductive, AwaitsPredictor, AwaitsBTB
<1> QED BY <1>2, <1>4 DEF BoomInductive

LEMMA BoomStep ==
  ASSUME BoomInductive, [BoomNext]_boomVars
  PROVE  BoomInductive'
<1>1. CASE BoomSendBuffered
  BY <1>1, BoomSends
<1>2. CASE BoomCheckPredictor
  BY <1>2, BoomChecks
<1>3. CASE ClockCheckRas
  BY <1>3, BoomChecksRas
<1>4. CASE ClockCheckBTB
  BY <1>4, BoomChecksBTB
<1>5. CASE BoomUnbuffer
  BY <1>5, BoomUnbuffers
<1>6. CASE BoomPenaltyAndFetch
  BY <1>6, BoomPenalises, BoomFetches, BoomRequests DEF BoomPenaltyAndFetch
<1>7. CASE Elsewhere /\ UNCHANGED innerVars
  BY <1>7, BoomOthersAct
<1>8. CASE UNCHANGED boomVars
  BY <1>8, BoomStutters
<1> QED BY <1>1, <1>2, <1>3, <1>4, <1>5, <1>6, <1>7, <1>8 DEF BoomNext, BoomClock

LEMMA BoomImplied ==
  ASSUME BoomInductive
  PROVE  BoomInvariant /\ AnswersAreForTheFirst
<1>0. BoomTypeOK /\ InProgramOrder /\ FlagsAgree /\ FlagsLead
  BY DEF BoomInductive
<1>1. AnswersAreForTheFirst
  BY PredictionsBelong, BTBResponsesBelong DEF AnswersAreForTheFirst
<1>2. \A k \in 1 .. Usage :
        /\ WasSent(fetchBuffer[k]) <=>
             "SentToMemory" \in fetchBuffer[k].flags /\ IsBranch(fetchBuffer[k].inst)
        /\ "BTBCheck" \in fetchBuffer[k].flags => WasSent(fetchBuffer[k])
  BY <1>0 DEF FlagsAgree, Has, WasSent
<1>3. \A j, k \in 1 .. Usage :
        j < k => /\ fetchBuffer[j].inst < fetchBuffer[k].inst
                 /\ \A f \in {"SentToMemory", "Predicted"} :
                      f \in fetchBuffer[k].flags => f \in fetchBuffer[j].flags
  BY <1>0 DEF InProgramOrder, FlagsLead, Has
<1>4. /\ step \in {"ClockSendBuffered", "ClockCheckPredictor", "ClockCheckRas", "ClockCheckBTB",
                   "ClockUnbuffer", "Penalty", "ClockFetch", "ClockRequestFetch", "Elsewhere"}
      /\ currentPenalty \in 0 .. misspredictPenalty
      /\ ras.end \in 0 .. rasSize - 1
  BY <1>0 DEF BoomTypeOK, BoomSteps, Steps
<1>5. BoomInvariant
  BY <1>2, <1>3, <1>4 DEF BoomInvariant
<1> QED BY <1>1, <1>5

(***************************************************************************)
(* BoomFetch keeps its entries in the order of the program, sends each     *)
(* branch to the branch target buffer, and lets the first entries be sent  *)
(* and answered first (boom_fetch.cpp:94, 202, 299).                       *)
(***************************************************************************)
THEOREM BoomTypeCorrect ==
  BoomSpec => []BoomInvariant
<1>1. BoomInit => BoomInductive
  BY BoomStarts
<1>2. BoomInductive /\ [BoomNext]_boomVars => BoomInductive'
  BY BoomStep
<1>3. BoomInductive => BoomInvariant
  BY BoomImplied
<1> QED BY <1>1, <1>2, <1>3, PTL DEF BoomSpec

(***************************************************************************)
(* The assertions of ClockCheckPredictor and ClockCheckBTB never fail      *)
(* (boom_fetch.cpp:221, 310): whatever the order in which the predictor    *)
(* and the branch target buffer answer, a response is for the first entry  *)
(* that waits for it, for any sizes and any program.                       *)
(***************************************************************************)
THEOREM AnswersReachTheFirst ==
  BoomSpec => []AnswersAreForTheFirst
<1>1. BoomInit => BoomInductive
  BY BoomStarts
<1>2. BoomInductive /\ [BoomNext]_boomVars => BoomInductive'
  BY BoomStep
<1>3. BoomInductive => AnswersAreForTheFirst
  BY BoomImplied
<1> QED BY <1>1, <1>2, <1>3, PTL DEF BoomSpec
-----------------------------------------------------------------------------
(***************************************************************************)
(* The branch target buffer of BoomFetch.  An entry of one bank holds what *)
(* was added for a branch of the execution, all of it for the same one.    *)
(***************************************************************************)
Bank == [target : Nat, type : {"None", "Conditional", "Unconditional"}, counter : Int]

Block(f) == [tag : Nat, banks : [0 .. f - 1 -> Bank]]

IsFor(entry, i) ==
  /\ entry.tag = Address(i)
  /\ entry.banks[0].target = NextOf(i)
  /\ entry.banks[0].type = BranchTypeFromSinucaBranch(KindOf(i))

Tables(f) == [0 .. numEntries - 1 -> Block(f)]

HoldsBranches(b) ==
  \A x \in 0 .. numEntries - 1 : b[x].tag # 0 => \E i \in Program : IsFor(b[x], i)

RightTables(f) == {b \in Tables(f) : f = 1 => HoldsBranches(b)}

TargetsAreRight ==
  /\ walk \in Walks
  /\ \E f \in Factors : btb \in RightTables(f)

LEMMA Addresses ==
  ASSUME walk \in Walks, NEW i \in Program
  PROVE  /\ Address(i) \in Nat \ {0} /\ Address(i) \in DOMAIN Code
         /\ NextOf(i) \in Nat
<1>1. walk \in Seq(DOMAIN Code) /\ Len(walk) = Instructions + 1
  BY BoomAssumption
<1>2. i \in 1 .. Len(walk) /\ i + 1 \in 1 .. Len(walk)
  BY <1>1, FetcherAssumption DEF Program
<1>3. walk[i] \in DOMAIN Code /\ walk[i + 1] \in DOMAIN Code
  BY <1>1, <1>2, ElementOfSeq
<1> QED BY <1>3, BoomAssumption DEF Address, NextOf

(***************************************************************************)
(* Index, bank and tag of an address.                                      *)
(***************************************************************************)
LEMMA TableParts ==
  ASSUME NEW f \in Nat \ {0}, NEW b \in Tables(f), NEW a \in Nat
  PROVE  /\ Cardinality(Banks(b)) = f /\ Banks(b) = 0 .. f - 1
         /\ CalculateIndex(b, a) \in 0 .. numEntries - 1
         /\ CalculateBank(b, a) \in 0 .. f - 1
         /\ CalculateTag(b, a) \in Nat
         /\ f = 1 => CalculateTag(b, a) = a /\ CalculateBank(b, a) = 0
<1>1. numEntries \in Nat \ {0}
  BY BoomAssumption
<1>2. DOMAIN b = 0 .. numEntries - 1 /\ b[0] \in Block(f)
  BY <1>1 DEF Tables
<1>3. Banks(b) = 0 .. f - 1
  BY <1>2 DEF Block, Banks
<1>4. Cardinality(0 .. f - 1) = f /\ Cardinality(0 .. numEntries - 1) = numEntries
  BY <1>1, FS_Interval
<1>5. Cardinality(Banks(b)) = f /\ Cardinality(DOMAIN b) = numEntries
  BY <1>2, <1>3, <1>4
<1>6. a % f \in 0 .. f - 1 /\ a \div f \in Nat
  OBVIOUS
<1>7. (a \div f) % numEntries \in 0 .. numEntries - 1
  BY <1>1, <1>6
<1>8. f = 1 => a \div f = a /\ a % f = 0
  OBVIOUS
<1> QED BY <1>3, <1>5, <1>6, <1>7, <1>8 DEF CalculateIndex, CalculateBank, CalculateTag
LEMMA AddsOne ==
  ASSUME walk \in Walks, NEW f \in Nat \ {0}, NEW b \in RightTables(f), NEW i \in Program
  PROVE  AddEntry(b, Address(i), KindOf(i), NextOf(i)) \in RightTables(f)
<1> DEFINE x == CalculateIndex(b, Address(i))
           k == CalculateBank(b, Address(i))
           tag == CalculateTag(b, Address(i))
           kind == BranchTypeFromSinucaBranch(KindOf(i))
           d == AddEntry(b, Address(i), KindOf(i), NextOf(i))
           bank == [target |-> NextOf(i), type |-> kind, counter |-> b[x].banks[k].counter]
           entry == [tag |-> tag, banks |-> [b[x].banks EXCEPT ![k] = bank]]
<1>1. /\ Address(i) \in Nat \ {0} /\ NextOf(i) \in Nat
  BY Addresses
<1>2. b \in Tables(f) /\ (f = 1 => HoldsBranches(b))
  BY DEF RightTables
<1>3. /\ x \in 0 .. numEntries - 1 /\ k \in 0 .. f - 1 /\ tag \in Nat
      /\ f = 1 => tag = Address(i) /\ k = 0
  BY <1>1, <1>2, TableParts
<1>4. kind \in {"None", "Conditional", "Unconditional"}
  BY DEF BranchTypeFromSinucaBranch
<1>5. b[x] \in Block(f)
  BY <1>2, <1>3 DEF Tables
<1>6. d = [b EXCEPT ![x] = entry]
  <2>1. d = [b EXCEPT ![x].tag = tag, ![x].banks[k] = bank]
    BY DEF AddEntry
  <2>2. b[x] = [tag |-> b[x].tag, banks |-> b[x].banks]
    BY <1>5 DEF Block
  <2> HIDE DEF x, k, tag, bank, d
  <2>4. PICK c, e : c = b[x] /\ e = [tag |-> tag, banks |-> b[x].banks]
    OBVIOUS
  <2>5. [c EXCEPT !.tag = tag] = e
    <3> HIDE DEF entry
    <3> QED BY <2>2, <2>4
  <2>6. [e EXCEPT !.banks = [e.banks EXCEPT ![k] = bank]] = entry
    BY <2>4
  <2>3. [[b[x] EXCEPT !.tag = tag] EXCEPT !.banks[k] = bank] = entry
    <3> HIDE DEF entry
    <3> QED BY <2>4, <2>5, <2>6
  <2> QED BY <1>2, <1>3, <2>1, <2>3 DEF Tables
<1>7. bank \in Bank
  <2>1. b[x].banks \in [0 .. f - 1 -> Bank]
    BY <1>5 DEF Block
  <2>2. b[x].banks[k] \in Bank
    BY <1>3, <2>1
  <2>3. b[x].banks[k].counter \in Int
    BY <2>2 DEF Bank
  <2> HIDE DEF x, k, kind
  <2> QED BY <1>1, <1>4, <2>3 DEF Bank
<1> HIDE DEF x, k, tag, kind, bank, d
<1>8. entry \in Block(f)
  <2>1. b[x].banks \in [0 .. f - 1 -> Bank]
    BY <1>5 DEF Block
  <2>2. [b[x].banks EXCEPT ![k] = bank] \in [0 .. f - 1 -> Bank]
    BY <1>3, <1>7, <2>1
  <2> QED BY <1>3, <2>2 DEF Block
<1> HIDE DEF entry
<1>9. d \in Tables(f)
  BY <1>2, <1>6, <1>8 DEF Tables
<1>10. ASSUME f = 1 PROVE HoldsBranches(d)
  <2>1. entry.tag = Address(i) /\ entry.banks[0] = bank
    <3>1. b[x].banks \in [0 .. f - 1 -> Bank]
      BY <1>5 DEF Block
    <3> QED BY <1>3, <1>10, <3>1 DEF entry
  <2>2. IsFor(entry, i)
    BY <2>1 DEF IsFor, bank, kind
  <2> SUFFICES ASSUME NEW y \in 0 .. numEntries - 1, d[y].tag # 0
               PROVE  \E j \in Program : IsFor(d[y], j)
    BY DEF HoldsBranches
  <2>3. CASE y = x
    <3>1. d[y] = entry
      BY <1>2, <1>6, <2>3 DEF Tables
    <3> QED BY <2>2, <3>1
  <2>4. CASE y # x
    <3>1. d[y] = b[y]
      BY <1>2, <1>6, <2>4 DEF Tables
    <3> QED BY <1>2, <1>10, <3>1 DEF HoldsBranches
  <2> QED BY <2>3, <2>4
<1>11. d \in RightTables(f)
  BY <1>9, <1>10 DEF RightTables
<1> QED BY <1>11 DEF d

LEMMA LargerOfTwo ==
  ASSUME NEW a \in Int, NEW b \in Int
  PROVE  Max({a, b}) = IF a >= b THEN a ELSE b
<1>1. CASE a >= b
  <2>1. \A x \in {a, b} : (\A y \in {a, b} : x >= y) <=> x = a
    BY <1>1
  <2> QED BY <1>1, <2>1 DEF Max
<1>2. CASE ~(a >= b)
  <2>1. \A x \in {a, b} : (\A y \in {a, b} : x >= y) <=> x = b
    BY <1>2
  <2> QED BY <1>2, <2>1 DEF Max
<1> QED BY <1>1, <1>2

LEMMA UpdatesOne ==
  ASSUME walk \in Walks, NEW f \in Nat \ {0}, NEW b \in RightTables(f), NEW i \in Program,
         NEW taken \in BOOLEAN
  PROVE  Update(b, Address(i), taken) \in RightTables(f)
<1> DEFINE x == CalculateIndex(b, Address(i))
           k == CalculateBank(b, Address(i))
           d == Update(b, Address(i), taken)
           old == b[x].banks[k]
           bank == [target |-> old.target, type |-> old.type,
                    counter |-> UpdatePrediction(old.counter, taken)]
           entry == [tag |-> b[x].tag, banks |-> [b[x].banks EXCEPT ![k] = bank]]
<1>1. Address(i) \in Nat
  BY Addresses
<1>2. b \in Tables(f) /\ (f = 1 => HoldsBranches(b))
  BY DEF RightTables
<1>3. x \in 0 .. numEntries - 1 /\ k \in 0 .. f - 1 /\ (f = 1 => k = 0)
  BY <1>1, <1>2, TableParts
<1>4. b[x] \in Block(f)
  BY <1>2, <1>3 DEF Tables
<1>5. b[x].tag \in Nat /\ b[x].banks \in [0 .. f - 1 -> Bank]
  BY <1>4 DEF Block
<1>6. old \in Bank
  BY <1>3, <1>5
<1>7. bank \in Bank
  <2>1. old.counter \in Int /\ old.target \in Nat
        /\ old.type \in {"None", "Conditional", "Unconditional"}
    BY <1>6 DEF Bank
  <2>2. UpdatePrediction(old.counter, taken) \in Int
    <3> HIDE DEF old
    <3>1. old.counter + 1 \in Int /\ old.counter - 1 \in Int
      BY <2>1
    <3>2. Min({old.counter + 1, 3}) \in Int
      <4>1. Min({old.counter + 1, 3}) = IF old.counter + 1 <= 3 THEN old.counter + 1 ELSE 3
        BY <3>1, SmallerOfTwo
      <4> QED BY <3>1, <4>1
    <3>3. Max({old.counter - 1, 0}) \in Int
      <4>1. Max({old.counter - 1, 0}) \in {old.counter - 1, 0}
        BY <3>1, LargerOfTwo
      <4> QED BY <3>1, <4>1
    <3> QED BY <3>2, <3>3 DEF UpdatePrediction
  <2> HIDE DEF old
  <2> QED BY <2>1, <2>2 DEF Bank
<1>8. b[x].tag # 0 => d = [b EXCEPT ![x] = entry]
  <2> SUFFICES ASSUME b[x].tag # 0 PROVE d = [b EXCEPT ![x] = entry]
    OBVIOUS
  <2>1. d = [b EXCEPT ![x].banks[k].counter = UpdatePrediction(old.counter, taken)]
    BY DEF Update
  <2>2. b[x] = [tag |-> b[x].tag, banks |-> b[x].banks]
    BY <1>4 DEF Block
  <2>3. old = [target |-> old.target, type |-> old.type, counter |-> old.counter]
    BY <1>6 DEF Bank
  <2>4. [old EXCEPT !.counter = UpdatePrediction(old.counter, taken)] = bank
    <3> HIDE DEF old
    <3> QED BY <2>3
  <2>5. [b[x] EXCEPT !.banks[k].counter = UpdatePrediction(old.counter, taken)] = entry
    <3> HIDE DEF x, k, bank
    <3> QED BY <2>2, <2>4
  <2> HIDE DEF x, k, bank, entry, d, old
  <2> QED BY <2>1, <2>5
<1>9. b[x].tag = 0 => d = b
  BY DEF Update
<1> HIDE DEF x, k, bank, d, old
<1>10. ASSUME b[x].tag # 0 PROVE d \in RightTables(f)
  <2>1. entry \in Block(f)
    <3>1. [b[x].banks EXCEPT ![k] = bank] \in [0 .. f - 1 -> Bank]
      BY <1>3, <1>5, <1>7
    <3> QED BY <1>5, <3>1 DEF Block
  <2>2. entry.tag = b[x].tag /\ (f = 1 => entry.banks[0] = bank)
    BY <1>3, <1>5
  <2> HIDE DEF entry
  <2>3. d \in Tables(f)
    BY <1>2, <1>8, <1>10, <2>1 DEF Tables
  <2>4. ASSUME f = 1 PROVE HoldsBranches(d)
    <3> SUFFICES ASSUME NEW y \in 0 .. numEntries - 1, d[y].tag # 0
                 PROVE  \E j \in Program : IsFor(d[y], j)
      BY DEF HoldsBranches
    <3>1. CASE y = x
      <4>1. d[y] = entry
        BY <1>2, <1>8, <1>10, <3>1 DEF Tables
      <4>2. PICK j \in Program : IsFor(b[x], j)
        BY <1>2, <1>3, <1>10, <2>4 DEF HoldsBranches
      <4>3. bank.target = b[x].banks[0].target /\ bank.type = b[x].banks[0].type
        BY <1>3, <2>4 DEF bank, old
      <4>4. IsFor(entry, j)
        BY <2>2, <2>4, <4>2, <4>3 DEF IsFor
      <4> QED BY <4>1, <4>4
    <3>2. CASE y # x
      <4>1. d[y] = b[y]
        BY <1>2, <1>8, <1>10, <3>2 DEF Tables
      <4> QED BY <1>2, <2>4, <4>1 DEF HoldsBranches
    <3> QED BY <3>1, <3>2
  <2> QED BY <2>3, <2>4 DEF RightTables
<1>11. d \in RightTables(f)
  BY <1>9, <1>10
<1> QED BY <1>11 DEF d
LEMMA HandlesOne ==
  ASSUME walk \in Walks, NEW f \in Nat \ {0}, NEW b \in RightTables(f), NEW r \in Request
  PROVE  Handled(b, r) \in RightTables(f)
<1>1. r.inst \in Program /\ r.type \in {"Query", "AddEntry", "Update"}
  BY DEF Request
<1>2. IsTaken(r.inst) \in BOOLEAN
  BY DEF IsTaken
<1>3. CASE r.type = "Query"
  <2>1. Handled(b, r) = b
    BY <1>3 DEF Handled
  <2> QED BY <2>1
<1>4. CASE r.type = "AddEntry"
  <2>1. Handled(b, r) = AddEntry(b, Address(r.inst), KindOf(r.inst), NextOf(r.inst))
    BY <1>4 DEF Handled
  <2> QED BY <1>1, <2>1, AddsOne
<1>5. CASE r.type = "Update"
  <2>1. Handled(b, r) = Update(b, Address(r.inst), IsTaken(r.inst))
    BY <1>5 DEF Handled
  <2> QED BY <1>1, <1>2, <2>1, UpdatesOne
<1> QED BY <1>1, <1>3, <1>4, <1>5

LEMMA HandlesAll ==
  ASSUME walk \in Walks, BTBRequests \in Seq(Request),
         NEW f \in Nat \ {0}, btb \in RightTables(f)
  PROVE  \A n \in 0 .. Len(BTBRequests) : BTBAfter[n] \in RightTables(f)
<1> DEFINE k == Len(BTBRequests)
           V == RightTables(f)
           g == [x \in (1 .. k) \X V |-> Handled(x[2], BTBRequests[x[1]])]
<1>1. k \in Nat /\ \A n \in 1 .. k : BTBRequests[n] \in Request
  BY LenProperties, ElementOfSeq
<1> HIDE DEF k, V
<1>2. g \in [(1 .. k) \X V -> V]
  <2>1. ASSUME NEW x \in (1 .. k) \X V PROVE Handled(x[2], BTBRequests[x[1]]) \in V
    <3>1. x[1] \in 1 .. k /\ x[2] \in V
      OBVIOUS
    <3> QED BY <1>1, <3>1, HandlesOne DEF V
  <2> QED BY <2>1
<1>3. btb \in V
  BY DEF V
<1>4. PICK h : h \in [0 .. k -> V] /\ IsRecursion(h, btb, g, k)
  <2> HIDE DEF g
  <2> QED BY <1>1, <1>2, <1>3, RecursionExists
<1>5. \A n \in 0 .. k : n # 0 => n - 1 \in 0 .. k /\ n \in 1 .. k
  BY <1>1
<1>6. \A n \in 0 .. k : h[n] = IF n = 0 THEN btb ELSE Handled(h[n - 1], BTBRequests[n])
  <2> TAKE n \in 0 .. k
  <2>1. h[n] = Recursion(h, btb, g, n)
    BY <1>4 DEF IsRecursion
  <2>2. CASE n = 0
    BY <2>1, <2>2 DEF Recursion
  <2>3. CASE n # 0
    <3>1. <<n, h[n - 1]>> \in (1 .. k) \X V
      BY <1>4, <1>5, <2>3
    <3>2. g[<<n, h[n - 1]>>] = Handled(h[n - 1], BTBRequests[n])
      BY <3>1
    <3> HIDE DEF g
    <3> QED BY <2>1, <2>3, <3>2 DEF Recursion
  <2> QED BY <2>2, <2>3
<1> HIDE DEF g
<1>7. h = [n \in 0 .. k |-> IF n = 0 THEN btb ELSE Handled(h[n - 1], BTBRequests[n])]
  BY <1>4, <1>6
<1> DEFINE after == CHOOSE a : a = [n \in 0 .. k |-> IF n = 0 THEN btb
                                                 ELSE Handled(a[n - 1], BTBRequests[n])]
<1>8. after = [n \in 0 .. k |-> IF n = 0 THEN btb ELSE Handled(after[n - 1], BTBRequests[n])]
  BY <1>7
<1>9. BTBAfter = after
  BY DEF BTBAfter, k
<1> HIDE DEF after
<1>10. \A n \in 0 .. k : after[n] = IF n = 0 THEN btb ELSE Handled(after[n - 1], BTBRequests[n])
  BY <1>8
<1> DEFINE S == {n \in Nat : n <= k => after[n] \in V}
<1>11. 0 \in S
  <2>1. 0 \in 0 .. k
    BY <1>1
  <2> QED BY <1>3, <1>10, <2>1
<1>12. ASSUME NEW n \in S PROVE n + 1 \in S
  <2> SUFFICES ASSUME n + 1 <= k PROVE after[n + 1] \in V
    OBVIOUS
  <2>1. n + 1 \in 0 .. k /\ n + 1 \in 1 .. k /\ n + 1 # 0 /\ (n + 1) - 1 = n /\ n <= k
    BY <1>1
  <2>2. after[n + 1] = Handled(after[n], BTBRequests[n + 1])
    BY <1>10, <2>1
  <2>3. after[n] \in V
    BY <2>1
  <2> QED BY <1>1, <2>1, <2>2, <2>3, HandlesOne DEF V
<1>13. S = Nat
  <2>1. S \in SUBSET Nat
    OBVIOUS
  <2> HIDE DEF S
  <2> QED BY <1>11, <1>12, <2>1, Induction
<1>14. \A n \in 0 .. k : after[n] \in V
  <2> TAKE n \in 0 .. k
  <2>1. n \in S /\ n <= k
    BY <1>1, <1>13
  <2> QED BY <2>1
<1> QED BY <1>9, <1>14 DEF k, V

LEMMA TargetsStart ==
  ASSUME BoomInit
  PROVE  TargetsAreRight
<1>1. PICK f \in Factors : btb = BTBInit(numEntries, f)
  BY DEF BoomInit
<1>2. f \in Nat \ {0} /\ numEntries \in Nat \ {0}
  BY BoomAssumption
<1> DEFINE bank == [target |-> 0, type |-> "None", counter |-> 2]
           block == [tag |-> 0, banks |-> [k \in 0 .. f - 1 |-> bank]]
<1>3. bank \in Bank
  BY DEF Bank
<1>4. block \in Block(f)
  <2> HIDE DEF bank
  <2>1. [k \in 0 .. f - 1 |-> bank] \in [0 .. f - 1 -> Bank]
    BY <1>3
  <2> QED BY <2>1 DEF Block
<1>5. btb = [x \in 0 .. numEntries - 1 |-> block]
  BY <1>1 DEF BTBInit
<1>6. block.tag = 0
  OBVIOUS
<1> HIDE DEF block
<1>7. btb \in RightTables(f)
  BY <1>4, <1>5, <1>6 DEF RightTables, Tables, HoldsBranches
<1> QED BY <1>1, <1>7 DEF BoomInit, TargetsAreRight

LEMMA TargetsStay ==
  ASSUME TargetsAreRight, walk' = walk, btb' = btb
  PROVE  TargetsAreRight'
<1>1. Program' = Program
  BY DEF Program
<1>2. PICK f \in Factors : btb \in RightTables(f)
  BY DEF TargetsAreRight
<1>3. RightTables(f)' = RightTables(f)
  BY DEF RightTables, Tables, HoldsBranches, IsFor, Address, NextOf, KindOf
<1> QED BY <1>2, <1>3 DEF TargetsAreRight

LEMMA TargetsStep ==
  ASSUME TargetsAreRight, BoomInductive, [BoomNext]_boomVars
  PROVE  TargetsAreRight'
<1>1. CASE UNCHANGED <<walk, btb>>
  BY <1>1, TargetsStay
<1>2. CASE ClockCheckBTB
  <2>1. PICK f \in Factors : btb \in RightTables(f)
    BY DEF TargetsAreRight
  <2>2. f \in Nat \ {0} /\ walk \in Walks
    BY BoomAssumption DEF TargetsAreRight
  <2>3. BTBRequests \in Seq(Request)
    BY DEF BoomInductive, BoomTypeOK, BTBRequests
  <2>4. Len(BTBRequests) \in 0 .. Len(BTBRequests)
    BY <2>3, LenProperties
  <2>5. btb' \in RightTables(f) /\ walk' = walk
    <3>1. BTBAfter[Len(BTBRequests)] \in RightTables(f)
      BY <2>1, <2>2, <2>3, <2>4, HandlesAll
    <3> QED BY <1>2, <3>1 DEF ClockCheckBTB
  <2>6. RightTables(f)' = RightTables(f)
    BY <2>5 DEF RightTables, Tables, HoldsBranches, IsFor, Address, NextOf, KindOf
  <2> QED BY <2>2, <2>5, <2>6 DEF TargetsAreRight
<1>3. CASE BoomNext /\ ~ClockCheckBTB
  BY <1>1, <1>3 DEF BoomNext, BoomClock, BoomSendBuffered, BoomCheckPredictor, ClockCheckRas,
                    BoomUnbuffer, BoomPenaltyAndFetch, innerVars
<1>4. CASE UNCHANGED boomVars
  BY <1>1, <1>4 DEF boomVars, innerVars
<1> QED BY <1>2, <1>3, <1>4

(***************************************************************************)
(* What the branch target buffer says of a branch that it hits.            *)
(***************************************************************************)
LEMMA HitsAreRight ==
  ASSUME walk \in Walks, NEW b \in RightTables(1), NEW i \in Program,
         IsBTBHit(b, Address(i)), IsDirect(i)
  PROVE  QueriedTarget(b, Address(i)) = NextOf(i)
<1> DEFINE x == CalculateIndex(b, Address(i))
<1>1. Address(i) \in Nat \ {0}
  BY Addresses
<1>2. b \in Tables(1) /\ HoldsBranches(b)
  BY DEF RightTables
<1>3. /\ Banks(b) = 0 .. 1 - 1 /\ x \in 0 .. numEntries - 1
      /\ CalculateTag(b, Address(i)) = Address(i)
  BY <1>1, <1>2, TableParts
<1>4. b[x].tag = Address(i)
  BY <1>3 DEF IsBTBHit
<1>5. PICK j \in Program : IsFor(b[x], j)
  BY <1>1, <1>2, <1>3, <1>4 DEF HoldsBranches
<1>6. Address(j) = Address(i)
  BY <1>4, <1>5 DEF IsFor
<1>7. NextOf(j) = NextOf(i) /\ KindOf(j) = KindOf(i) /\ KindOf(i) # "Cond"
  BY <1>6 DEF IsDirect, KindOf, Address
<1>8. b[x].banks[0].target = NextOf(i) /\ b[x].banks[0].type = "Unconditional"
  BY <1>5, <1>7 DEF IsFor, BranchTypeFromSinucaBranch
<1>9. TakenBanks(b, Address(i)) = {0}
  <2>1. \A k : k \in Banks(b) <=> k = 0
    BY <1>3
  <2> QED BY <1>8, <2>1 DEF TakenBanks
<1>10. Min({0}) = 0
  <2>1. Min({0, 0}) = 0
    BY SmallerOfTwo
  <2> QED BY <2>1
<1> QED BY <1>8, <1>9, <1>10 DEF QueriedTarget

(***************************************************************************)
(* With one bank, a hit of a branch that always leads to the same address  *)
(* is answered with that address, although an entry is written two cycles  *)
(* after the query that missed it, when other branches may have taken its  *)
(* place (interleavedBTB.cpp:63, 207): for any number of entries, any      *)
(* program and any order of the requests.                                  *)
(***************************************************************************)
THEOREM DirectHitsLead ==
  BoomSpec => []DirectHitsAreRight
<1>1. BoomInit => BoomInductive /\ TargetsAreRight
  BY BoomStarts, TargetsStart
<1>2. BoomInductive /\ TargetsAreRight /\ [BoomNext]_boomVars
        => (BoomInductive /\ TargetsAreRight)'
  BY BoomStep, TargetsStep
<1>3. BoomInductive /\ TargetsAreRight => DirectHitsAreRight
  <2> SUFFICES ASSUME BoomInductive, TargetsAreRight, Cardinality(Banks(btb)) = 1,
                      NEW k \in 1 .. Len(BTBResponses),
                      BTBResponses[k].hit, IsDirect(BTBResponses[k].inst)
               PROVE  BTBResponses[k].target = NextOf(BTBResponses[k].inst)
    BY DEF DirectHitsAreRight
  <2>1. PICK f \in Factors : btb \in RightTables(f)
    BY DEF TargetsAreRight
  <2>2. walk \in Walks /\ f = 1
    <3>1. f \in Nat \ {0} /\ btb \in Tables(f)
      BY <2>1, BoomAssumption DEF RightTables
    <3>2. Cardinality(Banks(btb)) = f
      BY <3>1, 0 \in Nat, TableParts
    <3> QED BY <3>2 DEF TargetsAreRight
  <2>3. BTBRequests \in Seq(Request)
    BY DEF BoomInductive, BoomTypeOK, BTBRequests
  <2>4. Len(BTBRequests) \in Nat /\ \A n \in 1 .. Len(BTBRequests) : BTBRequests[n] \in Request
    BY <2>3, LenProperties, ElementOfSeq
  <2>5. PICK n \in 1 .. Len(BTBRequests) : BTBResponses[k] = BTBResponse(n)
    <3> DEFINE T == {n \in 1 .. Len(BTBRequests) : BTBRequests[n].type = "Query"}
    <3>1. PICK s : s = BTBQueried
      OBVIOUS
    <3>2. IsAscending(s, T)
      <4>1. T \in SUBSET (1 .. Len(BTBRequests)) /\ s = Ascending(T, Len(BTBRequests))
        BY <3>1 DEF BTBQueried
      <4> HIDE DEF T
      <4> QED BY <2>4, <4>1, AscendingIs
    <3>3. T \in SUBSET Nat /\ T \in SUBSET (1 .. Len(BTBRequests))
      BY <2>4
    <3>4. BTBResponses = [m \in 1 .. Len(s) |-> BTBResponse(s[m])]
      BY <3>1 DEF BTBResponses
    <3> HIDE DEF T
    <3>5. Len(s) \in Nat /\ \A m \in 1 .. Len(s) : s[m] \in T
      BY <3>2, <3>3, Ascends
    <3>6. Len(BTBResponses) = Len(s)
      <4>1. Len(BTBResponses) \in Nat /\ DOMAIN BTBResponses = 1 .. Len(s)
        BY <3>4, <3>5 
      <4> QED BY <3>5, <4>1
    <3>7. k \in 1 .. Len(s)
      BY <3>6
    <3> QED BY <3>3, <3>4, <3>5, <3>7
  <2>6. BTBRequests[n].inst \in Program
    BY <2>4 DEF Request
  <2>7. n - 1 \in 0 .. Len(BTBRequests)
    BY <2>4
  <2>8. BTBAfter[n - 1] \in RightTables(1)
    BY <2>1, <2>2, <2>3, <2>7, HandlesAll
  <2>9. PICK b, i : b = BTBAfter[n - 1] /\ i = BTBRequests[n].inst
    OBVIOUS
  <2>10. BTBResponse(n) = [inst |-> i, hit |-> IsBTBHit(b, Address(i)),
                           target |-> QueriedTarget(b, Address(i))]
    BY <2>9 DEF BTBResponse
  <2>11. IsBTBHit(b, Address(i)) /\ IsDirect(i)
    BY <2>5, <2>10
  <2>12. QueriedTarget(b, Address(i)) = NextOf(i)
    BY <2>2, <2>6, <2>8, <2>9, <2>11, HitsAreRight
  <2> QED BY <2>5, <2>10, <2>12
<1> QED BY <1>1, <1>2, <1>3, PTL DEF BoomSpec
-----------------------------------------------------------------------------
(***************************************************************************)
(* The return address stack.  The top k below end holds the same as the    *)
(* k-th last element of the sequence s.                                    *)
(***************************************************************************)
Below(end, k) == IF k <= end THEN end - k ELSE end - k + rasSize

IsRas(r) ==
  /\ r = [buffer |-> r.buffer, end |-> r.end]
  /\ DOMAIN r.buffer = 0 .. rasSize - 1 /\ r.end \in 0 .. rasSize - 1

Holds(r, s) ==
  /\ s \in Seq(Nat) /\ Len(s) <= rasSize
  /\ \A k \in 0 .. Len(s) - 1 : r.buffer[Below(r.end, k)] = s[Len(s) - k]

Grown(s, target) == Append(IF Len(s) < rasSize THEN s ELSE Tail(s), target)

LEMMA Grows ==
  ASSUME NEW s \in Seq(Nat), Len(s) <= rasSize, NEW target \in Nat
  PROVE  /\ Grown(s, target) \in Seq(Nat)
         /\ Len(Grown(s, target)) = IF Len(s) < rasSize THEN Len(s) + 1 ELSE rasSize
         /\ Grown(s, target)[Len(Grown(s, target))] = target
         /\ \A k \in 1 .. Len(Grown(s, target)) - 1 :
              Grown(s, target)[Len(Grown(s, target)) - k] = s[Len(s) - (k - 1)]
<1>1. rasSize \in Nat \ {0} /\ Len(s) \in Nat
  BY BoomAssumption, LenProperties
<1>2. PICK t : t = IF Len(s) < rasSize THEN s ELSE Tail(s)
  OBVIOUS
<1>3. PICK u : u = Append(t, target)
  OBVIOUS
<1>4. u = Grown(s, target)
  BY <1>2, <1>3 DEF Grown
<1>5. CASE Len(s) < rasSize
  <2>1. t = s
    BY <1>2, <1>5
  <2>2. /\ u \in Seq(Nat) /\ Len(u) = Len(s) + 1
        /\ u[Len(s) + 1] = target /\ \A i \in 1 .. Len(s) : u[i] = s[i]
    BY <1>3, <2>1, AppendProperties
  <2>3. \A k \in 1 .. Len(u) - 1 : Len(u) - k = Len(s) - (k - 1) /\ Len(u) - k \in 1 .. Len(s)
    BY <1>1, <2>2
  <2> QED BY <1>4, <1>5, <2>2, <2>3
<1>6. CASE ~(Len(s) < rasSize)
  <2>1. t = Tail(s) /\ Len(s) = rasSize /\ s # <<>>
    <3>1. Len(s) = rasSize
      BY <1>1, <1>6
    <3> QED BY <1>1, <1>2, <1>6, <3>1, EmptySeq
  <2>2. /\ t \in Seq(Nat) /\ Len(t) = rasSize - 1
        /\ \A i \in 1 .. Len(t) : t[i] = s[i + 1]
    BY <2>1, HeadTailProperties
  <2>3. /\ u \in Seq(Nat) /\ Len(u) = Len(t) + 1
        /\ u[Len(t) + 1] = target /\ \A i \in 1 .. Len(t) : u[i] = t[i]
    <3>1. t \in Seq(Nat)
      BY <2>2
    <3>2. /\ Append(t, target) \in Seq(Nat) /\ Len(Append(t, target)) = Len(t) + 1
          /\ \A i \in 1 .. Len(t) : Append(t, target)[i] = t[i]
          /\ Append(t, target)[Len(t) + 1] = target
      BY <3>1, AppendProperties
    <3> QED BY <1>3, <3>2
  <2>4. \A k \in 1 .. Len(u) - 1 : /\ Len(u) - k + 1 = Len(s) - (k - 1)
                                   /\ Len(u) - k \in 1 .. Len(t)
    BY <1>1, <2>1, <2>2, <2>3
  <2>5. Len(u) = rasSize
    BY <1>1, <2>2, <2>3
  <2>6. \A k \in 1 .. Len(u) - 1 : u[Len(u) - k] = s[Len(s) - (k - 1)]
    BY <2>2, <2>3, <2>4
  <2> QED BY <1>4, <1>6, <2>2, <2>3, <2>5, <2>6
<1> QED BY <1>5, <1>6

LEMMA RasSizeIs ==
  ASSUME NEW r, IsRas(r)
  PROVE  RasSize(r) = rasSize
<1>1. rasSize \in Nat \ {0}
  BY BoomAssumption
<1>2. Cardinality(0 .. rasSize - 1) = rasSize
  BY <1>1, FS_Interval
<1> QED BY <1>2 DEF IsRas, RasSize

LEMMA OneAbove ==
  ASSUME NEW d \in 0 .. rasSize - 1, NEW e \in 0 .. rasSize - 1, NEW k \in 1 .. rasSize - 1,
         e = IF d + 1 >= rasSize THEN 0 ELSE d + 1
  PROVE  /\ Below(e, k) = Below(d, k - 1) /\ Below(e, k) # e
         /\ Below(e, k) \in 0 .. rasSize - 1
<1>1. rasSize \in Nat \ {0}
  BY BoomAssumption
<1>2. CASE d + 1 >= rasSize
  <2>1. e = 0 /\ d = rasSize - 1 /\ ~(k <= e) /\ k - 1 <= d
    BY <1>1, <1>2
  <2> QED BY <1>1, <2>1 DEF Below
<1>3. CASE ~(d + 1 >= rasSize)
  <2>1. e = d + 1 /\ (k <= e <=> k - 1 <= d)
    BY <1>1, <1>3
  <2> QED BY <1>1, <2>1 DEF Below
<1> QED BY <1>2, <1>3

LEMMA OneBelow ==
  ASSUME NEW d \in 0 .. rasSize - 1, NEW k \in Nat, k + 1 < rasSize,
         NEW e, e = IF d - 1 < 0 THEN rasSize - 1 ELSE d - 1
  PROVE  Below(e, k) = Below(d, k + 1)
<1>1. rasSize \in Nat \ {0}
  BY BoomAssumption
<1>2. CASE d - 1 < 0
  <2>1. d = 0 /\ e = rasSize - 1 /\ k <= e /\ ~(k + 1 <= d)
    BY <1>1, <1>2
  <2> QED BY <1>1, <2>1 DEF Below
<1>3. CASE ~(d - 1 < 0)
  <2>1. e = d - 1 /\ (k <= e <=> k + 1 <= d)
    BY <1>1, <1>3
  <2> QED BY <1>1, <2>1 DEF Below
<1> QED BY <1>2, <1>3

LEMMA Pushes ==
  ASSUME NEW r, IsRas(r), NEW s, Holds(r, s), NEW target \in Nat
  PROVE  IsRas(RasPush(r, target)) /\ Holds(RasPush(r, target), Grown(s, target))
<1>1. rasSize \in Nat \ {0} /\ RasSize(r) = rasSize
  BY BoomAssumption, RasSizeIs
<1>2. PICK e : e = IF r.end + 1 >= rasSize THEN 0 ELSE r.end + 1
  OBVIOUS
<1>3. r.end \in 0 .. rasSize - 1 /\ e \in 0 .. rasSize - 1 /\ DOMAIN r.buffer = 0 .. rasSize - 1
  BY <1>1, <1>2 DEF IsRas
<1>4. PICK p : p = RasPush(r, target)
  OBVIOUS
<1>5. p = [buffer |-> [r.buffer EXCEPT ![e] = target], end |-> e]
  BY <1>1, <1>2, <1>4 DEF RasPush
<1>6. p.end = e /\ p.buffer = [r.buffer EXCEPT ![e] = target]
  BY <1>5
<1>7. IsRas(p)
  BY <1>3, <1>5, <1>6 DEF IsRas
<1>8. s \in Seq(Nat) /\ Len(s) <= rasSize /\ Len(s) \in Nat
  BY LenProperties DEF Holds
<1>9. PICK u : u = Grown(s, target)
  OBVIOUS
<1>10. /\ u \in Seq(Nat)
       /\ Len(u) = IF Len(s) < rasSize THEN Len(s) + 1 ELSE rasSize
       /\ u[Len(u)] = target
       /\ \A k \in 1 .. Len(u) - 1 : u[Len(u) - k] = s[Len(s) - (k - 1)]
  BY <1>8, <1>9, Grows
<1>11. Len(u) <= rasSize /\ Len(u) \in Nat /\ Len(u) - 1 <= Len(s)
  BY <1>1, <1>8, <1>10
<1>12. ASSUME NEW k \in 0 .. Len(u) - 1 PROVE p.buffer[Below(p.end, k)] = u[Len(u) - k]
  <2>1. CASE k = 0
    <3>1. Below(p.end, 0) = e
      BY <1>3, <1>6 DEF Below
    <3>2. p.buffer[e] = target
      BY <1>3, <1>6
    <3>3. Len(u) - 0 = Len(u)
      BY <1>11
    <3> QED BY <1>10, <2>1, <3>1, <3>2, <3>3
  <2>2. CASE k # 0
    <3>1. k \in 1 .. Len(u) - 1 /\ k - 1 \in 0 .. Len(s) - 1 /\ k < rasSize
      BY <1>1, <1>8, <1>11, <2>2
    <3>2. /\ Below(e, k) = Below(r.end, k - 1) /\ Below(e, k) # e
          /\ Below(e, k) \in 0 .. rasSize - 1
      <4>1. k \in 1 .. rasSize - 1
        BY <1>1, <1>11, <3>1
      <4> QED BY <1>2, <1>3, <4>1, OneAbove
    <3>3. p.buffer[Below(e, k)] = r.buffer[Below(r.end, k - 1)]
      BY <1>3, <1>6, <3>2
    <3>4. r.buffer[Below(r.end, k - 1)] = s[Len(s) - (k - 1)]
      BY <3>1 DEF Holds
    <3> QED BY <1>6, <1>10, <3>1, <3>3, <3>4
  <2> QED BY <2>1, <2>2
<1>13. Holds(p, u)
  BY <1>10, <1>11, <1>12 DEF Holds
<1> QED BY <1>4, <1>7, <1>9, <1>13

Shrunk(s) == IF s # <<>> THEN Front(s) ELSE s

LEMMA Shrinks ==
  ASSUME NEW s \in Seq(Nat)
  PROVE  /\ Shrunk(s) \in Seq(Nat) /\ Len(Shrunk(s)) <= Len(s)
         /\ \A k \in 0 .. Len(Shrunk(s)) - 1 : /\ k + 1 \in 0 .. Len(s) - 1
                                               /\ Shrunk(s)[Len(Shrunk(s)) - k] = s[Len(s) - (k + 1)]
<1>1. Len(s) \in Nat
  BY LenProperties
<1>2. CASE s = <<>>
  <2>1. Shrunk(s) = s /\ Len(s) = 0
    BY <1>2, EmptySeq DEF Shrunk
  <2> QED BY <2>1
<1>3. CASE s # <<>>
  <2>1. Len(s) # 0
    BY <1>3, EmptySeq
  <2>2. PICK u : u = SubSeq(s, 1, Len(s) - 1)
    OBVIOUS
  <2>3. Shrunk(s) = u
    BY <1>3, <2>2 DEF Shrunk, Front
  <2>4. 1 \in Int /\ Len(s) - 1 \in Int /\ \A i \in 1 .. Len(s) - 1 : s[i] \in Nat
    <3>1. \A i \in 1 .. Len(s) - 1 : i \in 1 .. Len(s)
      BY <1>1
    <3> QED BY <1>1, <3>1, ElementOfSeq
  <2>5. /\ u \in Seq(Nat)
        /\ Len(u) = IF 1 <= Len(s) - 1 THEN Len(s) - 1 - 1 + 1 ELSE 0
        /\ \A i \in 1 .. Len(s) - 1 - 1 + 1 : u[i] = s[1 + i - 1]
    BY <2>2, <2>4, SubSeqProperties
  <2>6. Len(u) = Len(s) - 1
    <3>1. PICK a, b : a = Len(s) /\ b = Len(u)
      OBVIOUS
    <3>2. a \in Nat /\ a # 0 /\ b = IF 1 <= a - 1 THEN a - 1 - 1 + 1 ELSE 0
      BY <1>1, <2>1, <2>5, <3>1
    <3>3. b = a - 1
      BY <3>2
    <3> QED BY <3>1, <3>3
  <2>7. ASSUME NEW k \in 0 .. Len(u) - 1
        PROVE  k + 1 \in 0 .. Len(s) - 1 /\ u[Len(u) - k] = s[Len(s) - (k + 1)]
    <3>1. /\ Len(u) - k \in 1 .. Len(s) - 1 - 1 + 1
          /\ 1 + (Len(u) - k) - 1 = Len(s) - (k + 1) /\ k + 1 \in 0 .. Len(s) - 1
      BY <1>1, <2>6
    <3> QED BY <2>5, <3>1
  <2>8. Len(u) <= Len(s)
    BY <1>1, <2>6
  <2> QED BY <2>3, <2>5, <2>7, <2>8
<1> QED BY <1>2, <1>3

LEMMA Pops ==
  ASSUME NEW r, IsRas(r), NEW s, Holds(r, s)
  PROVE  IsRas(RasPop(r)) /\ Holds(RasPop(r), Shrunk(s))
<1>1. rasSize \in Nat \ {0} /\ RasSize(r) = rasSize
  BY BoomAssumption, RasSizeIs
<1>2. PICK e : e = IF r.end - 1 < 0 THEN rasSize - 1 ELSE r.end - 1
  OBVIOUS
<1>3. r.end \in 0 .. rasSize - 1 /\ e \in 0 .. rasSize - 1 /\ DOMAIN r.buffer = 0 .. rasSize - 1
      /\ r = [buffer |-> r.buffer, end |-> r.end]
  BY <1>1, <1>2 DEF IsRas
<1>4. PICK p : p = RasPop(r)
  OBVIOUS
<1>5. p = [buffer |-> r.buffer, end |-> e]
  <2>1. p = [r EXCEPT !.end = e]
    BY <1>1, <1>2, <1>4 DEF RasPop
  <2> QED BY <1>3, <2>1
<1>6. p.end = e /\ p.buffer = r.buffer
  BY <1>5
<1>7. IsRas(p)
  BY <1>3, <1>5, <1>6 DEF IsRas
<1>8. s \in Seq(Nat) /\ Len(s) <= rasSize /\ Len(s) \in Nat
  BY LenProperties DEF Holds
<1>9. PICK u : u = Shrunk(s)
  OBVIOUS
<1>10. /\ u \in Seq(Nat) /\ Len(u) <= Len(s)
       /\ \A k \in 0 .. Len(u) - 1 : /\ k + 1 \in 0 .. Len(s) - 1
                                     /\ u[Len(u) - k] = s[Len(s) - (k + 1)]
  BY <1>8, <1>9, Shrinks
<1>11. Len(u) \in Nat /\ Len(u) <= rasSize
  BY <1>1, <1>8, <1>10, LenProperties
<1>12. ASSUME NEW k \in 0 .. Len(u) - 1 PROVE p.buffer[Below(p.end, k)] = u[Len(u) - k]
  <2>1. k + 1 \in 0 .. Len(s) - 1 /\ u[Len(u) - k] = s[Len(s) - (k + 1)]
    BY <1>10
  <2>2. Below(e, k) = Below(r.end, k + 1)
    <3>1. k \in Nat /\ k + 1 < rasSize
      BY <1>1, <1>8, <1>11, <2>1
    <3> QED BY <1>2, <1>3, <3>1, OneBelow
  <2>3. r.buffer[Below(r.end, k + 1)] = s[Len(s) - (k + 1)]
    BY <2>1 DEF Holds
  <2> QED BY <1>6, <2>1, <2>2, <2>3
<1>13. Holds(p, u)
  BY <1>10, <1>11, <1>12 DEF Holds
<1> QED BY <1>4, <1>7, <1>9, <1>13

LEMMA TopIsLast ==
  ASSUME NEW r, IsRas(r), NEW s, Holds(r, s), s # <<>>
  PROVE  RasTop(r) = Last(s)
<1>1. Len(s) \in Nat \ {0} /\ r.end \in 0 .. rasSize - 1 /\ rasSize \in Nat
  BY BoomAssumption, EmptySeq DEF Holds, IsRas
<1>2. 0 \in 0 .. Len(s) - 1 /\ Below(r.end, 0) = r.end /\ Len(s) - 0 = Len(s)
  BY <1>1 DEF Below
<1>3. r.buffer[r.end] = s[Len(s)]
  BY <1>2 DEF Holds
<1> QED BY <1>3 DEF RasTop, Last
-----------------------------------------------------------------------------
(***************************************************************************)
(* The stack after each of the instructions d of the execution w.          *)
(***************************************************************************)
UsesStack(w, i) == Code[w[i]].kind \in {"Call", "Ret"}

StackOne(w, s, i) ==
  IF Code[w[i]].kind = "Call" THEN Append(IF Len(s) < rasSize THEN s ELSE Tail(s), w[i + 1])
  ELSE IF Code[w[i]].kind = "Ret" /\ s # <<>> THEN Front(s)
  ELSE s

StackOf(w, d) ==
  CHOOSE f : f = [n \in 0 .. Len(d) |-> IF n = 0 THEN <<>> ELSE StackOne(w, f[n - 1], d[n])]

Stacks == {s \in Seq(Nat) : Len(s) <= rasSize}

LEMMA StackOneIs ==
  ASSUME NEW w \in Walks, NEW s \in Stacks, NEW i \in Program
  PROVE  /\ StackOne(w, s, i) \in Stacks
         /\ ~UsesStack(w, i) => StackOne(w, s, i) = s
         /\ Code[w[i]].kind = "Call" => StackOne(w, s, i) = Grown(s, w[i + 1])
         /\ Code[w[i]].kind = "Ret" => StackOne(w, s, i) = Shrunk(s)
         /\ w[i + 1] \in Nat
<1>1. w[i + 1] \in Nat
  <2>1. w \in Seq(DOMAIN Code) /\ Len(w) = Instructions + 1
    BY BoomAssumption
  <2>2. i + 1 \in 1 .. Len(w)
    BY <2>1, FetcherAssumption DEF Program
  <2> QED BY <2>1, <2>2, ElementOfSeq, BoomAssumption
<1>2. s \in Seq(Nat) /\ Len(s) <= rasSize /\ Len(s) \in Nat /\ rasSize \in Nat
  BY BoomAssumption, LenProperties DEF Stacks
<1>3. PICK k : k = Code[w[i]].kind
  OBVIOUS
<1>4. CASE k = "Call"
  <2>1. StackOne(w, s, i) = Grown(s, w[i + 1])
    BY <1>3, <1>4 DEF StackOne, Grown
  <2>2. Grown(s, w[i + 1]) \in Seq(Nat) /\ Len(Grown(s, w[i + 1])) <= rasSize
    BY <1>1, <1>2, Grows
  <2> QED BY <1>1, <1>3, <1>4, <2>1, <2>2 DEF Stacks, UsesStack
<1>5. CASE k = "Ret"
  <2>1. StackOne(w, s, i) = Shrunk(s)
    BY <1>3, <1>5 DEF StackOne, Shrunk
  <2>2. Shrunk(s) \in Seq(Nat) /\ Len(Shrunk(s)) \in Nat /\ Len(Shrunk(s)) <= rasSize
    BY <1>2, Shrinks, LenProperties
  <2> QED BY <1>1, <1>3, <1>5, <2>1, <2>2 DEF Stacks, UsesStack
<1>6. CASE k # "Call" /\ k # "Ret"
  <2>1. StackOne(w, s, i) = s
    BY <1>3, <1>6 DEF StackOne
  <2> QED BY <1>1, <1>3, <1>6, <2>1
<1> QED BY <1>4, <1>5, <1>6

LEMMA StackOfIs ==
  ASSUME NEW w \in Walks, NEW d \in Seq(Program)
  PROVE  /\ \A n \in 0 .. Len(d) :
              StackOf(w, d)[n] = IF n = 0 THEN <<>> ELSE StackOne(w, StackOf(w, d)[n - 1], d[n])
         /\ \A n \in 0 .. Len(d) : StackOf(w, d)[n] \in Stacks
<1> DEFINE k == Len(d)
           V == Stacks
           g == [x \in (1 .. k) \X V |-> StackOne(w, x[2], d[x[1]])]
<1>1. k \in Nat /\ \A n \in 1 .. k : d[n] \in Program
  BY LenProperties, ElementOfSeq
<1> HIDE DEF k, V
<1>2. g \in [(1 .. k) \X V -> V]
  <2>1. ASSUME NEW x \in (1 .. k) \X V PROVE StackOne(w, x[2], d[x[1]]) \in V
    <3>1. x[1] \in 1 .. k /\ x[2] \in V
      OBVIOUS
    <3> QED BY <1>1, <3>1, StackOneIs DEF V
  <2> QED BY <2>1
<1>3. <<>> \in V
  BY EmptySeq, BoomAssumption DEF V, Stacks
<1>4. PICK h : h \in [0 .. k -> V] /\ IsRecursion(h, <<>>, g, k)
  <2> HIDE DEF g
  <2> QED BY <1>1, <1>2, <1>3, RecursionExists
<1>5. \A n \in 0 .. k : n # 0 => n - 1 \in 0 .. k /\ n \in 1 .. k
  BY <1>1
<1>6. \A n \in 0 .. k : h[n] = IF n = 0 THEN <<>> ELSE StackOne(w, h[n - 1], d[n])
  <2> TAKE n \in 0 .. k
  <2>1. h[n] = Recursion(h, <<>>, g, n)
    BY <1>4 DEF IsRecursion
  <2>2. CASE n = 0
    BY <2>1, <2>2 DEF Recursion
  <2>3. CASE n # 0
    <3>1. <<n, h[n - 1]>> \in (1 .. k) \X V
      BY <1>4, <1>5, <2>3
    <3>2. g[<<n, h[n - 1]>>] = StackOne(w, h[n - 1], d[n])
      BY <3>1
    <3> HIDE DEF g
    <3> QED BY <2>1, <2>3, <3>2 DEF Recursion
  <2> QED BY <2>2, <2>3
<1> HIDE DEF g
<1>7. h = [n \in 0 .. k |-> IF n = 0 THEN <<>> ELSE StackOne(w, h[n - 1], d[n])]
  BY <1>4, <1>6
<1> DEFINE after == CHOOSE f : f = [n \in 0 .. k |-> IF n = 0 THEN <<>>
                                                 ELSE StackOne(w, f[n - 1], d[n])]
<1>8. after = [n \in 0 .. k |-> IF n = 0 THEN <<>> ELSE StackOne(w, after[n - 1], d[n])]
  BY <1>7
<1>9. StackOf(w, d) = after
  BY DEF StackOf, k
<1> HIDE DEF after
<1>10. \A n \in 0 .. k : after[n] = IF n = 0 THEN <<>> ELSE StackOne(w, after[n - 1], d[n])
  BY <1>8
<1> DEFINE S == {n \in Nat : n <= k => after[n] \in V}
<1>11. 0 \in S
  <2>1. 0 \in 0 .. k
    BY <1>1
  <2> QED BY <1>3, <1>10, <2>1
<1>12. ASSUME NEW n \in S PROVE n + 1 \in S
  <2> SUFFICES ASSUME n + 1 <= k PROVE after[n + 1] \in V
    OBVIOUS
  <2>1. n + 1 \in 0 .. k /\ n + 1 \in 1 .. k /\ n + 1 # 0 /\ (n + 1) - 1 = n /\ n <= k
    BY <1>1
  <2>2. after[n + 1] = StackOne(w, after[n], d[n + 1])
    BY <1>10, <2>1
  <2>3. after[n] \in V
    BY <2>1
  <2> QED BY <1>1, <2>1, <2>2, <2>3, StackOneIs DEF V
<1>13. S = Nat
  <2>1. S \in SUBSET Nat
    OBVIOUS
  <2> HIDE DEF S
  <2> QED BY <1>11, <1>12, <2>1, Induction
<1>14. \A n \in 0 .. k : after[n] \in V
  <2> TAKE n \in 0 .. k
  <2>1. n \in S /\ n <= k
    BY <1>1, <1>13
  <2> QED BY <2>1
<1> QED BY <1>9, <1>10, <1>14 DEF k, V

LEMMA StackOfPrefix ==
  ASSUME NEW w \in Walks, NEW d \in Seq(Program), NEW e \in Seq(Program),
         Len(d) <= Len(e), \A n \in 1 .. Len(d) : e[n] = d[n]
  PROVE  \A n \in 0 .. Len(d) : StackOf(w, e)[n] = StackOf(w, d)[n]
<1>1. PICK s, t : s = StackOf(w, d) /\ t = StackOf(w, e)
  OBVIOUS
<1>2. Len(d) \in Nat /\ Len(e) \in Nat
  BY LenProperties
<1>3. /\ \A n \in 0 .. Len(d) : s[n] = IF n = 0 THEN <<>> ELSE StackOne(w, s[n - 1], d[n])
      /\ \A n \in 0 .. Len(e) : t[n] = IF n = 0 THEN <<>> ELSE StackOne(w, t[n - 1], e[n])
  BY <1>1, StackOfIs
<1> DEFINE S == {n \in Nat : n <= Len(d) => t[n] = s[n]}
<1>4. 0 \in S
  <2>1. 0 \in 0 .. Len(d) /\ 0 \in 0 .. Len(e)
    BY <1>2
  <2> QED BY <1>3, <2>1
<1>5. ASSUME NEW n \in S PROVE n + 1 \in S
  <2> SUFFICES ASSUME n + 1 <= Len(d) PROVE t[n + 1] = s[n + 1]
    OBVIOUS
  <2>1. /\ n + 1 \in 0 .. Len(d) /\ n + 1 \in 1 .. Len(d) /\ n + 1 \in 0 .. Len(e)
        /\ n + 1 # 0 /\ (n + 1) - 1 = n /\ n <= Len(d)
    BY <1>2
  <2>2. t[n] = s[n] /\ e[n + 1] = d[n + 1]
    BY <2>1
  <2> QED BY <1>3, <2>1, <2>2
<1>6. S = Nat
  <2>1. S \in SUBSET Nat
    OBVIOUS
  <2> HIDE DEF S
  <2> QED BY <1>4, <1>5, <2>1, Induction
<1>7. \A n \in 0 .. Len(d) : t[n] = s[n]
  <2> TAKE n \in 0 .. Len(d)
  <2>1. n \in S /\ n <= Len(d)
    BY <1>2, <1>6
  <2> QED BY <2>1
<1> QED BY <1>1, <1>7

LEMMA StackOfOthers ==
  ASSUME NEW w \in Walks, NEW d \in Seq(Program), NEW h \in 0 .. Len(d), NEW m \in h .. Len(d),
         \A n \in h + 1 .. m : ~UsesStack(w, d[n])
  PROVE  StackOf(w, d)[m] = StackOf(w, d)[h]
<1>1. PICK s : s = StackOf(w, d)
  OBVIOUS
<1>2. Len(d) \in Nat /\ \A n \in 1 .. Len(d) : d[n] \in Program
  BY LenProperties, ElementOfSeq
<1>3. \A n \in 0 .. Len(d) : /\ s[n] = IF n = 0 THEN <<>> ELSE StackOne(w, s[n - 1], d[n])
                             /\ s[n] \in Stacks
  BY <1>1, StackOfIs
<1> DEFINE S == {n \in Nat : h + n <= m => s[h + n] = s[h]}
<1>4. 0 \in S
  <2>1. h + 0 = h
    BY <1>2
  <2> QED BY <2>1
<1>5. ASSUME NEW n \in S PROVE n + 1 \in S
  <2> SUFFICES ASSUME h + (n + 1) <= m PROVE s[h + (n + 1)] = s[h]
    OBVIOUS
  <2>1. PICK q : q = h + n + 1
    OBVIOUS
  <2>2. /\ q = h + (n + 1) /\ q \in 0 .. Len(d) /\ q \in 1 .. Len(d) /\ q \in h + 1 .. m
        /\ q # 0 /\ q - 1 = h + n /\ q - 1 \in 0 .. Len(d) /\ h + n <= m
    BY <1>2, <2>1
  <2>3. s[q - 1] = s[h]
    BY <2>2
  <2>4. s[q] = StackOne(w, s[q - 1], d[q])
    BY <1>3, <2>2
  <2>5. ~UsesStack(w, d[q])
    BY <2>2
  <2>6. StackOne(w, s[q - 1], d[q]) = s[q - 1]
    BY <1>2, <1>3, <2>2, <2>5, StackOneIs
  <2> QED BY <2>2, <2>3, <2>4, <2>6
<1>6. S = Nat
  <2>1. S \in SUBSET Nat
    OBVIOUS
  <2> HIDE DEF S
  <2> QED BY <1>4, <1>5, <2>1, Induction
<1>7. s[m] = s[h]
  <2>1. m - h \in Nat /\ h + (m - h) = m /\ m <= m
    BY <1>2
  <2>2. m - h \in S
    BY <1>6, <2>1
  <2>3. h + (m - h) <= m => s[h + (m - h)] = s[h]
    BY <2>2
  <2> QED BY <2>1, <2>3
<1> QED BY <1>1, <1>7
-----------------------------------------------------------------------------
(***************************************************************************)
(* What was delivered is in the order of the program, and in front of all  *)
(* that was not.                                                           *)
(***************************************************************************)
DeliveredFirst ==
  /\ delivered \in Seq(Program)
  /\ \A i, j \in 1 .. Len(delivered) : i < j => delivered[i] < delivered[j]
  /\ \A i \in 1 .. Len(delivered), k \in 1 .. Usage :
       ~Has(k, "SentToMemory") => delivered[i] < fetchBuffer[k].inst
  /\ \A i \in 1 .. Len(delivered), j \in 1 .. Len(Readable("response")) :
       delivered[i] < Readable("response")[j]
  /\ \A i \in 1 .. Len(delivered) : delivered[i] < next

LEMMA DeliveredStays ==
  ASSUME DeliveredFirst, delivered' = delivered,
         next \in Int, next' \in Int, next <= next',
         \A k \in 1 .. Usage' :
           ~Has(k, "SentToMemory")' =>
             \/ \E j \in 1 .. Usage : /\ ~Has(j, "SentToMemory")
                                      /\ fetchBuffer'[k].inst = fetchBuffer[j].inst
             \/ \E j \in 1 .. Len(Readable("response")) :
                  fetchBuffer'[k].inst = Readable("response")[j],
         \A k \in 1 .. Len(Readable("response")') :
           /\ Readable("response")'[k] \in Int
           /\ \/ \E j \in 1 .. Len(Readable("response")) :
                   Readable("response")'[k] = Readable("response")[j]
              \/ next <= Readable("response")'[k]
  PROVE  DeliveredFirst'
<1>1. \A i \in 1 .. Len(delivered) : delivered[i] \in Int
  BY ElementOfSeq, FetcherAssumption DEF DeliveredFirst, Program
<1>2. ASSUME NEW i \in 1 .. Len(delivered), NEW k \in 1 .. Usage', ~Has(k, "SentToMemory")'
      PROVE  delivered[i] < fetchBuffer'[k].inst
  BY <1>2 DEF DeliveredFirst
<1>3. ASSUME NEW i \in 1 .. Len(delivered), NEW k \in 1 .. Len(Readable("response")')
      PROVE  delivered[i] < Readable("response")'[k]
  <2>1. CASE \E j \in 1 .. Len(Readable("response")) :
               Readable("response")'[k] = Readable("response")[j]
    BY <2>1 DEF DeliveredFirst
  <2>2. CASE next <= Readable("response")'[k]
    <3>1. delivered[i] < next /\ delivered[i] \in Int /\ Readable("response")'[k] \in Int
      BY <1>1 DEF DeliveredFirst
    <3> QED BY <2>2, <3>1
  <2> QED BY <2>1, <2>2
<1>4. ASSUME NEW i \in 1 .. Len(delivered) PROVE delivered[i] < next'
  <2>1. delivered[i] < next /\ delivered[i] \in Int
    BY <1>1 DEF DeliveredFirst
  <2> QED BY <2>1
<1>5. /\ delivered' \in Seq(Program)'
      /\ \A i, j \in 1 .. Len(delivered') : i < j => delivered'[i] < delivered'[j]
  BY DEF DeliveredFirst, Program
<1>6. /\ \A i \in 1 .. Len(delivered'), k \in 1 .. Usage' :
           ~Has(k, "SentToMemory")' => delivered'[i] < fetchBuffer'[k].inst
      /\ \A i \in 1 .. Len(delivered'), j \in 1 .. Len(Readable("response")') :
           delivered'[i] < Readable("response")'[j]
      /\ \A i \in 1 .. Len(delivered') : delivered'[i] < next'
  BY <1>2, <1>3, <1>4
<1> QED BY <1>5, <1>6 DEF DeliveredFirst

LEMMA NothingDelivered ==
  ASSUME BoomInductive, DeliveredFirst, delivered' = delivered, next' = next,
         Readable("response")' = Readable("response"), Usage' = Usage,
         \A k \in 1 .. Usage : /\ fetchBuffer'[k].inst = fetchBuffer[k].inst
                               /\ Has(k, "SentToMemory") => Has(k, "SentToMemory")'
  PROVE  DeliveredFirst'
<1>1. next \in 1 .. Instructions + 1 /\ Readable("response") \in Seq(Program)
  BY DEF BoomInductive, BoomTypeOK
<1>2. next \in Int /\ next <= next
  BY <1>1, FetcherAssumption
<1>3. \A k \in 1 .. Len(Readable("response")) : Readable("response")[k] \in Int
  BY <1>1, ElementOfSeq, FetcherAssumption DEF Program
<1> QED BY <1>2, <1>3, DeliveredStays

LEMMA DeliversInOrder ==
  ASSUME BoomInductive, DeliveredFirst, BoomSendBuffered
  PROVE  DeliveredFirst'
<1>0. BoomTypeOK /\ InProgramOrder /\ FlagsLead
  BY DEF BoomInductive
<1>1. PICK m \in 0 .. Usage, l \in 0 .. Usage :
        /\ m <= l
        /\ FirstUnsent = m + 1 /\ LastToSend = l
        /\ \A k \in 1 .. Usage : Has(k, "SentToMemory") <=> k <= m
        /\ SentNow = [k \in 1 .. l - m |-> fetchBuffer[m + k].inst]
        /\ SentNow \in Seq(Program) /\ Len(SentNow) = l - m
        /\ IsAscending(SentNow, InstsAt(m + 1 .. l))
  BY <1>0, WhatIsSent
<1>2. Usage \in Nat /\ \A k \in 1 .. Usage : fetchBuffer[k].inst \in Nat
  BY <1>0, BoomTyped
<1>3. /\ UNCHANGED envVars /\ delivered' = delivered \o SentNow
      /\ fetchBuffer' =
           [k \in 1 .. Usage |->
              IF k \in m + 1 .. l
                THEN [inst |-> fetchBuffer[k].inst, flags |-> FlagsOfSent(fetchBuffer[k].inst)]
                ELSE fetchBuffer[k]]
      /\ channel' = Writes("query", SentNow)
  BY <1>1 DEF BoomSendBuffered
<1>4. Readable("response")' = Readable("response") /\ next' = next
  <2>1. AreChannels(channel) /\ "query" \in Channels /\ "response" \in Channels
    BY <1>0 DEF BoomTypeOK, Channels
  <2> QED BY <1>3, <2>1, WritesOne DEF Readable, envVars
<1>5. Usage' = Usage
  <2>1. DOMAIN fetchBuffer' = 1 .. Usage
    BY <1>3
  <2>2. fetchBuffer' \in Seq(BoomEntry)
    BY BoomSends DEF BoomInductive, BoomTypeOK
  <2>3. Usage' \in Nat /\ DOMAIN fetchBuffer' = 1 .. Usage'
    BY <2>2, LenProperties DEF Usage
  <2> QED BY <1>2, <2>1, <2>3
<1>6. PICK t : t = SentNow
  OBVIOUS
<1>7. /\ t \in Seq(Program) /\ Len(t) = l - m
      /\ \A i \in 1 .. l - m : t[i] = fetchBuffer[m + i].inst
      /\ \A i \in 1 .. l - m : m + i \in 1 .. Usage /\ ~(m + i <= m) /\ m + i <= l
  BY <1>1, <1>2, <1>6
<1>8. PICK d, e : d = Len(delivered) /\ e = l - m
  OBVIOUS
<1>9. d \in Nat /\ e \in Nat /\ Len(t) = e /\ \A i \in 1 .. d : delivered[i] \in Nat
  <2>1. delivered \in Seq(Program) /\ Program \in SUBSET Nat
    BY FetcherAssumption DEF DeliveredFirst, Program
  <2> QED BY <1>1, <1>7, <1>8, <2>1, LenProperties, ElementOfSeq
<1>10. /\ delivered' \in Seq(Program) /\ Len(delivered') = d + e
       /\ \A i \in 1 .. d + e : delivered'[i] = IF i <= d THEN delivered[i] ELSE t[i - d]
  <2>1. /\ delivered \o t \in Seq(Program) /\ Len(delivered \o t) = Len(delivered) + Len(t)
        /\ \A i \in 1 .. Len(delivered) + Len(t) :
             (delivered \o t)[i] = IF i <= Len(delivered) THEN delivered[i] ELSE t[i - Len(delivered)]
    BY <1>7, ConcatProperties DEF DeliveredFirst
  <2> QED BY <1>3, <1>6, <1>8, <1>9, <2>1
<1>11. ASSUME NEW i \in 1 .. d + e
       PROVE  /\ i <= d => i \in 1 .. d /\ delivered'[i] = delivered[i]
              /\ ~(i <= d) => /\ i - d \in 1 .. e /\ m + (i - d) \in 1 .. Usage
                              /\ m + (i - d) <= l /\ ~(m + (i - d) <= m)
                              /\ delivered'[i] = fetchBuffer[m + (i - d)].inst
  <2>1. CASE i <= d
    BY <1>9, <1>10, <2>1
  <2>2. CASE ~(i <= d)
    <3>1. i - d \in 1 .. e
      BY <1>9, <2>2
    <3> QED BY <1>7, <1>8, <1>10, <2>2, <3>1
  <2> QED BY <2>1, <2>2
<1>12. ASSUME NEW i \in 1 .. d + e, NEW j \in 1 .. d + e, i < j
       PROVE  delivered'[i] < delivered'[j]
  <2>1. CASE j <= d
    <3>1. i <= d
      BY <1>9, <1>12, <2>1
    <3> QED BY <1>8, <1>11, <1>12, <2>1, <3>1 DEF DeliveredFirst
  <2>2. CASE ~(j <= d) /\ i <= d
    <3>1. ~Has(m + (j - d), "SentToMemory")
      BY <1>1, <1>11, <2>2
    <3> QED BY <1>8, <1>11, <2>2, <3>1 DEF DeliveredFirst
  <2>3. CASE ~(i <= d)
    <3>1. ~(j <= d) /\ m + (i - d) < m + (j - d)
      BY <1>9, <1>12, <2>3
    <3> QED BY <1>0, <1>11, <2>3, <3>1, BufferOrder
  <2> QED BY <2>1, <2>2, <2>3
<1>13. ASSUME NEW i \in 1 .. d + e, NEW k \in 1 .. Usage, ~Has(k, "SentToMemory")'
       PROVE  delivered'[i] < fetchBuffer'[k].inst
  <2>1. k \notin m + 1 .. l
    <3> SUFFICES ASSUME k \in m + 1 .. l PROVE FALSE
      OBVIOUS
    <3>1. fetchBuffer'[k] = [inst |-> fetchBuffer[k].inst, flags |-> FlagsOfSent(fetchBuffer[k].inst)]
      BY <1>3
    <3>2. fetchBuffer'[k].flags = FlagsOfSent(fetchBuffer[k].inst)
      BY <3>1
    <3> QED BY <1>13, <3>2 DEF Has, FlagsOfSent
  <2>2. fetchBuffer'[k] = fetchBuffer[k]
    BY <1>3, <2>1
  <2>3. ~Has(k, "SentToMemory")
    BY <1>13, <2>2 DEF Has
  <2>4. ~(k <= m) /\ ~(k <= l)
    BY <1>1, <1>2, <2>1, <2>3
  <2>5. CASE i <= d
    BY <1>8, <1>11, <2>2, <2>3, <2>5 DEF DeliveredFirst
  <2>6. CASE ~(i <= d)
    <3>1. PICK x : x = m + (i - d)
      OBVIOUS
    <3>2. x \in 1 .. Usage /\ x <= l /\ delivered'[i] = fetchBuffer[x].inst
      BY <1>11, <2>6, <3>1
    <3>3. x < k
      BY <1>2, <2>4, <3>2
    <3> QED BY <1>0, <2>2, <3>2, <3>3, BufferOrder
  <2> QED BY <2>5, <2>6
<1>14. ASSUME NEW i \in 1 .. d + e
       PROVE  /\ \A j \in 1 .. Len(Readable("response")) : delivered'[i] < Readable("response")[j]
              /\ delivered'[i] < next
  <2>1. CASE i <= d
    BY <1>8, <1>11, <2>1 DEF DeliveredFirst
  <2>2. CASE ~(i <= d)
    BY <1>0, <1>11, <2>2 DEF InProgramOrder
  <2> QED BY <2>1, <2>2
<1> QED BY <1>4, <1>5, <1>10, <1>12, <1>13, <1>14 DEF DeliveredFirst, Program
LEMMA RestStays ==
  ASSUME BoomTypeOK, BoomUnbuffer
  PROVE  \A k \in 1 .. Usage' : \E j \in 1 .. Usage : fetchBuffer'[k] = fetchBuffer[j]
<1>1. Usage \in Nat /\ \A i \in 1 .. Usage : fetchBuffer[i] \in BoomEntry
  BY ElementOfSeq, LenProperties DEF BoomTypeOK, Usage
<1> DEFINE T == {k \in 0 .. Usage : \A j \in 1 .. k : MayLeave(fetchBuffer[j])}
<1>2. PICK n : n = Max(T)
  OBVIOUS
<1>3. n \in 0 .. Usage
  <2>1. T \in SUBSET (0 .. Usage) /\ 0 \in T
    BY <1>1
  <2> HIDE DEF T
  <2> QED BY <1>1, <1>2, <2>1, GreatestNumber
<1>4. fetchBuffer' = SubSeq(fetchBuffer, n + 1, Usage)
  BY <1>2 DEF BoomUnbuffer
<1> HIDE DEF T
<1>5. \A i \in n + 1 .. Usage : fetchBuffer[i] \in BoomEntry
  BY <1>1, <1>3
<1>6. /\ Len(fetchBuffer') = IF n + 1 <= Usage THEN Usage - (n + 1) + 1 ELSE 0
      /\ \A i \in 1 .. Usage - (n + 1) + 1 : fetchBuffer'[i] = fetchBuffer[(n + 1) + i - 1]
  BY <1>1, <1>3, <1>4, <1>5, n + 1 \in Int, Usage \in Int, SubSeqProperties
<1>7. Usage' = IF n + 1 <= Usage THEN Usage - (n + 1) + 1 ELSE 0
  BY <1>6 DEF Usage
<1>8. ASSUME NEW k \in 1 .. Usage'
      PROVE  k \in 1 .. Usage - (n + 1) + 1 /\ (n + 1) + k - 1 \in 1 .. Usage
  BY <1>1, <1>3, <1>7
<1> QED BY <1>6, <1>8
LEMMA DeliveredStep ==
  ASSUME BoomInductive, DeliveredFirst, [BoomNext]_boomVars
  PROVE  DeliveredFirst'
<1>0. BoomTypeOK /\ AreChannels(channel)
  BY DEF BoomInductive, BoomTypeOK
<1>1. /\ Usage \in Nat /\ next \in 1 .. Instructions + 1 /\ next \in Int /\ next <= next
      /\ Readable("response") \in Seq(Program)
      /\ \A k \in 1 .. Len(Readable("response")) : Readable("response")[k] \in Int
  <2>1. next \in 1 .. Instructions + 1 /\ Readable("response") \in Seq(Program)
    BY <1>0 DEF BoomTypeOK
  <2> QED BY <1>0, <2>1, BoomTyped, ElementOfSeq, FetcherAssumption DEF Program
<1>2. CASE BoomSendBuffered
  BY <1>2, DeliversInOrder
<1>3. CASE UNCHANGED <<fetchBuffer, channel, next, delivered>>
  BY <1>3, NothingDelivered DEF Has, Usage, Readable
<1>4. CASE BoomCheckPredictor
  <2>1. /\ fetchBuffer' = MarkPredicted(Leading({"Predicted"}) + Len(Predictions))
        /\ channel' = Clears("prediction") /\ UNCHANGED <<next, delivered>>
    BY <1>4 DEF BoomCheckPredictor, envVars
  <2>2. Readable("response")' = Readable("response")
    BY <1>0, <2>1, ClearsOne DEF Readable, Channels
  <2>3. PICK n : n = Leading({"Predicted"}) + Len(Predictions)
    OBVIOUS
  <2>4. fetchBuffer' = [k \in 1 .. Usage |->
             [inst  |-> fetchBuffer[k].inst,
              flags |-> fetchBuffer[k].flags \cup IF k <= n THEN {"Predicted"} ELSE {}]]
    BY <2>1, <2>3 DEF MarkPredicted
  <2>5. Usage' = Usage
    BY <1>1, <2>4, FunctionIsSeq DEF Usage
  <2>6. \A k \in 1 .. Usage : /\ fetchBuffer'[k].inst = fetchBuffer[k].inst
                              /\ fetchBuffer[k].flags \subseteq fetchBuffer'[k].flags
    BY <2>4
  <2> QED BY <2>1, <2>2, <2>5, <2>6, NothingDelivered DEF Has
<1>5. CASE ClockCheckBTB
  <2>1. UNCHANGED <<channel, next, delivered>>
    BY <1>5 DEF ClockCheckBTB, envVars
  <2>2. fetchBuffer' = [k \in 1 .. Usage |->
          [inst  |-> fetchBuffer[k].inst,
           flags |-> fetchBuffer[k].flags \cup
             IF \E n \in 1 .. Len(BTBResponses) : BTBResponses[n].inst = fetchBuffer[k].inst
               THEN {"BTBCheck"} ELSE {}]]
    BY <1>5 DEF ClockCheckBTB
  <2>3. Usage' = Usage
    BY <1>1, <2>2, FunctionIsSeq DEF Usage
  <2>4. \A k \in 1 .. Usage : /\ fetchBuffer'[k].inst = fetchBuffer[k].inst
                              /\ fetchBuffer[k].flags \subseteq fetchBuffer'[k].flags
    BY <2>2
  <2> QED BY <2>1, <2>3, <2>4, NothingDelivered DEF Has, Readable
<1>6. CASE BoomUnbuffer
  <2>1. UNCHANGED <<channel, next, delivered>>
    BY <1>6 DEF BoomUnbuffer, envVars
  <2>2. \A k \in 1 .. Usage' :
          \E j \in 1 .. Usage : fetchBuffer'[k] = fetchBuffer[j]
    BY <1>0, <1>6, RestStays
  <2>3. \A k \in 1 .. Usage' :
          ~Has(k, "SentToMemory")' =>
            \E j \in 1 .. Usage : /\ ~Has(j, "SentToMemory")
                                  /\ fetchBuffer'[k].inst = fetchBuffer[j].inst
    BY <2>2 DEF Has
  <2> QED BY <1>1, <2>1, <2>3, DeliveredStays DEF Readable
<1>7. CASE ClockFetch /\ UNCHANGED innerVars
  <2>1. PICK r : r = Readable("response")
    OBVIOUS
  <2>2. /\ fetchBuffer \in Seq(BoomEntry) /\ r \in Seq(Program)
        /\ \A i \in Program : NewEntry(i) \in BoomEntry
    BY <1>0, <2>1 DEF BoomTypeOK, NewEntry, BoomEntry
  <2>3. /\ \A i \in 1 .. Usage : fetchBuffer'[i] = fetchBuffer[i]
        /\ \A i \in 1 .. Len(r) : fetchBuffer'[Usage + i] = [inst |-> r[i], flags |-> {}]
        /\ \A i \in 1 .. Usage' : i \in 1 .. Usage \/ \E j \in 1 .. Len(r) : i = Usage + j
    BY <1>7, <2>1, <2>2, WhatArrives
  <2>4. UNCHANGED <<next, delivered>>
    BY <1>7 DEF ClockFetch, envVars
  <2>5. Readable("response")' = <<>>
    BY <1>0, <1>7, FetchTakes DEF Channels, Arriving
  <2>6. Len(Readable("response")') = 0
    BY <2>5, EmptySeq
  <2>7. ASSUME NEW k \in 1 .. Usage', ~Has(k, "SentToMemory")'
        PROVE  \/ \E j \in 1 .. Usage : /\ ~Has(j, "SentToMemory")
                                        /\ fetchBuffer'[k].inst = fetchBuffer[j].inst
               \/ \E j \in 1 .. Len(r) : fetchBuffer'[k].inst = r[j]
    <3>1. CASE k \in 1 .. Usage
      BY <2>3, <2>7, <3>1 DEF Has
    <3>2. CASE \E j \in 1 .. Len(r) : k = Usage + j
      <4>1. PICK j \in 1 .. Len(r) : k = Usage + j
        BY <3>2
      <4>2. fetchBuffer'[k] = [inst |-> r[j], flags |-> {}]
        BY <2>3, <4>1
      <4>3. fetchBuffer'[k].inst = r[j]
        BY <4>2
      <4> QED BY <4>3
    <3> QED BY <2>3, <3>1, <3>2
  <2> QED BY <1>1, <2>1, <2>4, <2>6, <2>7, DeliveredStays
<1>8. CASE ClockRequestFetch /\ UNCHANGED innerVars
  <2>1. UNCHANGED <<fetchBuffer, next, delivered>>
    BY <1>8 DEF ClockRequestFetch, envVars
  <2>2. channel'["response"] = channel["response"]
    BY <1>0, <1>8, RequestIsWritten DEF Channels
  <2> QED BY <2>1, <2>2, NothingDelivered DEF Has, Usage, Readable
<1>9. CASE Elsewhere /\ UNCHANGED innerVars
  <2>1. UNCHANGED <<fetchBuffer, delivered>> /\ next' = next + NumberServed
    BY <1>9 DEF Elsewhere
  <2>2. Readable("response")' = Responses
    BY <1>9 DEF Elsewhere, Readable, Channels
  <2>3. /\ next' \in next .. Instructions + 1
        /\ Responses \in Seq(Program)
        /\ \A i \in 1 .. Len(Responses) : Responses[i] = next + i - 1 /\ Responses[i] < next'
    BY <1>1, <2>1, RespondsInOrder
  <2>4. next' \in Int /\ next <= next'
    BY <1>1, <2>3, FetcherAssumption
  <2>5. \A i \in 1 .. Len(Responses) : Responses[i] \in Int /\ next <= Responses[i]
    BY <1>1, <2>3, LenProperties
  <2>6. Usage' = Usage /\ \A k \in 1 .. Usage : Has(k, "SentToMemory")' <=> Has(k, "SentToMemory")
    BY <2>1 DEF Usage, Has
  <2> QED BY <1>1, <2>1, <2>2, <2>4, <2>5, <2>6, DeliveredStays
<1>10. CASE ClockCheckRas
  BY <1>3, <1>10 DEF ClockCheckRas, envVars
<1>11. CASE PaysPenalty \/ StartsPenalty \/ PaysNoPenalty
  BY <1>3, <1>11 DEF PaysPenalty, StartsPenalty, PaysNoPenalty, envVars
<1>12. CASE UNCHANGED boomVars
  BY <1>3, <1>12 DEF boomVars, fetcherVars, envVars
<1> QED BY <1>2, <1>4, <1>5, <1>6, <1>7, <1>8, <1>9, <1>10, <1>11, <1>12
        DEF BoomNext, BoomClock, BoomPenaltyAndFetch
-----------------------------------------------------------------------------
(***************************************************************************)
(* As long as no request was flushed, the stack is that after the first h  *)
(* of the delivered instructions, and the requests for those of the others *)
(* that use it are on their way.                                           *)
(***************************************************************************)
Pending == inside["ras"].readable \o inside["ras"].written

NotYet(h) == {i \in Program : UsesRas(i) /\ \E n \in h + 1 .. Len(delivered) : delivered[n] = i}

RasFollows ==
  /\ walk \in Walks
  /\ inside["ras"].readable \in Seq(Program) /\ inside["ras"].written \in Seq(Program)
  /\ ~rasFlushed => \E h \in 0 .. Len(delivered) : /\ Holds(ras, StackOf(walk, delivered)[h])
                                                   /\ IsAscending(Pending, NotYet(h))

LEMMA RasStarts ==
  ASSUME BoomInit
  PROVE  DeliveredFirst /\ RasFollows
<1>1. /\ fetchBuffer = <<>> /\ delivered = <<>> /\ next = 1 /\ walk \in Walks
      /\ ras = RasInit(rasSize)
      /\ channel = [x \in Channels |-> [written |-> <<>>, readable |-> <<>>]]
      /\ inside = [x \in {"ras", "btb"} |-> [written |-> <<>>, readable |-> <<>>]]
  BY DEF BoomInit
<1>2. <<>> \in Seq(Program) /\ Len(<<>>) = 0
  BY EmptySeq
<1>3. DeliveredFirst
  BY <1>1, <1>2 DEF DeliveredFirst
<1>4. inside["ras"].readable = <<>> /\ inside["ras"].written = <<>>
  BY <1>1
<1>5. Pending = <<>>
  BY <1>2, <1>4, ConcatEmptySeq DEF Pending
<1>6. NotYet(0) = {}
  BY <1>1, <1>2 DEF NotYet
<1>7. StackOf(walk, delivered)[0] = <<>>
  <2>1. 0 \in 0 .. Len(<<>>)
    BY <1>2
  <2>2. StackOf(walk, <<>>)[0] = IF 0 = 0 THEN <<>> ELSE StackOne(walk, StackOf(walk, <<>>)[0 - 1], <<>>[0])
    BY <1>1, <1>2, <2>1, StackOfIs
  <2> QED BY <1>1, <2>2
<1>8. Holds(ras, <<>>)
  <2>1. <<>> \in Seq(Nat) /\ 0 <= rasSize
    BY EmptySeq, BoomAssumption
  <2> QED BY <1>2, <2>1 DEF Holds
<1>9. 0 \in 0 .. Len(delivered)
  BY <1>1, <1>2
<1> QED BY <1>1, <1>2, <1>3, <1>4, <1>5, <1>6, <1>7, <1>8, <1>9, NoneAscend DEF RasFollows

LEMMA RasIsLeftAlone ==
  ASSUME RasFollows, UNCHANGED <<walk, ras, inside["ras"], delivered, rasFlushed>>
  PROVE  RasFollows'
<1>1. Pending' = Pending
  BY DEF Pending
<1>2. \A h : NotYet(h)' = NotYet(h)
  BY DEF NotYet, Program, UsesRas, KindOf
<1> QED BY <1>1, <1>2 DEF RasFollows

LEMMA RasIsSent ==
  ASSUME BoomInductive, DeliveredFirst, RasFollows, BoomSendBuffered
  PROVE  RasFollows'
<1>0. BoomTypeOK /\ InProgramOrder /\ FlagsLead
  BY DEF BoomInductive
<1>1. PICK m \in 0 .. Usage, l \in 0 .. Usage :
        /\ m <= l
        /\ \A k \in 1 .. Usage : Has(k, "SentToMemory") <=> k <= m
        /\ SentNow = [k \in 1 .. l - m |-> fetchBuffer[m + k].inst]
        /\ SentNow \in Seq(Program) /\ Len(SentNow) = l - m
        /\ IsAscending(SentNow, InstsAt(m + 1 .. l))
  BY <1>0, WhatIsSent
<1>2. Usage \in Nat /\ \A k \in 1 .. Usage : fetchBuffer[k].inst \in Program
  BY <1>0, BoomTyped
<1>3. PICK A : A = InstsAt(m + 1 .. l)
  OBVIOUS
<1>4. PICK t : t = SentNow
  OBVIOUS
<1>5. A \in SUBSET Program /\ t \in Seq(Program) /\ IsAscending(t, A)
  <2>1. \A k \in m + 1 .. l : k \in 1 .. Usage
    BY <1>2
  <2>2. \A k \in m + 1 .. l : fetchBuffer[k].inst \in Program
    BY <1>2, <2>1
  <2> QED BY <1>1, <1>3, <1>4, <2>2 DEF InstsAt
<1>6. IsAscending(RasQueries, {i \in A : UsesRas(i)})
  BY <1>0, <1>4, <1>5, BranchesAreSent
<1>7. /\ UNCHANGED <<walk, ras, rasFlushed>> /\ delivered' = delivered \o t
      /\ inside'["ras"] = [inside["ras"] EXCEPT !.written = @ \o RasQueries]
  BY <1>4 DEF BoomSendBuffered
<1>8. /\ inside'["ras"].readable = inside["ras"].readable
      /\ inside'["ras"].written = inside["ras"].written \o RasQueries
  <2>1. AreInside(inside)
    BY <1>0 DEF BoomTypeOK
  <2>2. inside["ras"] = [written |-> inside["ras"].written, readable |-> inside["ras"].readable]
    BY <2>1 DEF AreInside
  <2> QED BY <1>7, <2>2
<1>9. /\ RasQueries \in Seq(Program)
      /\ inside["ras"].readable \in Seq(Program) /\ inside["ras"].written \in Seq(Program)
  <2>1. RasQueries \in Seq({i \in A : UsesRas(i)})
    BY <1>6 DEF IsAscending
  <2>2. {i \in A : UsesRas(i)} \subseteq Program
    BY <1>5
  <2>3. RasQueries \in Seq(Program)
    BY <2>1, <2>2, SeqMonotonic
  <2> QED BY <2>3 DEF RasFollows
<1>10. inside'["ras"].readable \in Seq(Program) /\ inside'["ras"].written \in Seq(Program)
  BY <1>8, <1>9, ConcatProperties
<1>11. Pending' = Pending \o RasQueries
  <2>1. PICK x, y, z : x = inside["ras"].readable /\ y = inside["ras"].written /\ z = RasQueries
    OBVIOUS
  <2>2. x \in Seq(Program) /\ y \in Seq(Program) /\ z \in Seq(Program)
    BY <1>9, <2>1
  <2>3. (x \o y) \o z = x \o (y \o z)
    BY <2>2, ConcatAssociative
  <2>4. Pending' = x \o (y \o z) /\ Pending = x \o y
    BY <1>8, <2>1 DEF Pending
  <2> QED BY <2>1, <2>3, <2>4
<1>12. PICK d, e : d = Len(delivered) /\ e = Len(t)
  OBVIOUS
<1>13. /\ d \in Nat /\ e \in Nat /\ Len(delivered') = d + e
       /\ delivered \in Seq(Program) /\ delivered' \in Seq(Program)
       /\ \A i \in 1 .. d : delivered[i] \in Program
       /\ \A i \in 1 .. d + e : delivered'[i] = IF i <= d THEN delivered[i] ELSE t[i - d]
  <2>1. delivered \in Seq(Program)
    BY DEF DeliveredFirst
  <2>2. /\ delivered \o t \in Seq(Program) /\ Len(delivered \o t) = Len(delivered) + Len(t)
        /\ \A i \in 1 .. Len(delivered) + Len(t) :
             (delivered \o t)[i] = IF i <= Len(delivered) THEN delivered[i] ELSE t[i - Len(delivered)]
    BY <1>5, <2>1, ConcatProperties
  <2> QED BY <1>5, <1>7, <1>12, <2>1, <2>2, LenProperties, ElementOfSeq
<1>14. \A i \in 1 .. d : i \in 1 .. d + e /\ delivered'[i] = delivered[i]
  <2>1. \A i \in 1 .. d : i \in 1 .. d + e /\ i <= d
    BY <1>13
  <2> QED BY <1>13, <2>1
<1>15. \A i \in 1 .. e : d + i \in 1 .. d + e /\ delivered'[d + i] = t[i]
  <2>1. \A i \in 1 .. e : d + i \in 1 .. d + e /\ ~(d + i <= d) /\ (d + i) - d = i
    BY <1>13
  <2> QED BY <1>13, <2>1
<1>16. ASSUME NEW i \in 1 .. d, NEW a \in A PROVE delivered[i] < a
  <2>1. PICK k \in m + 1 .. l : a = fetchBuffer[k].inst
    BY <1>3 DEF InstsAt
  <2>2. k \in 1 .. Usage /\ ~(k <= m)
    BY <1>2
  <2>3. ~Has(k, "SentToMemory")
    BY <1>1, <2>2
  <2> QED BY <1>12, <2>1, <2>2, <2>3 DEF DeliveredFirst
<1>17. ASSUME ~rasFlushed'
       PROVE  \E h \in 0 .. Len(delivered') : /\ Holds(ras', StackOf(walk', delivered')[h])
                                              /\ IsAscending(Pending', NotYet(h)')
  <2>1. PICK h \in 0 .. d : /\ Holds(ras, StackOf(walk, delivered)[h])
                            /\ IsAscending(Pending, NotYet(h))
    BY <1>7, <1>12, <1>17 DEF RasFollows
  <2>2. walk \in Walks
    BY DEF RasFollows
  <2>3. StackOf(walk', delivered')[h] = StackOf(walk, delivered)[h]
    <3>1. Len(delivered) <= Len(delivered') /\ \A n \in 1 .. Len(delivered) : delivered'[n] = delivered[n]
      BY <1>12, <1>13, <1>14
    <3>2. \A n \in 0 .. Len(delivered) : StackOf(walk, delivered')[n] = StackOf(walk, delivered)[n]
      BY <1>13, <2>2, <3>1, StackOfPrefix
    <3> QED BY <1>7, <1>12, <3>2
  <2>4. Holds(ras', StackOf(walk', delivered')[h])
    BY <1>7, <2>1, <2>3
  <2>5. PICK B, C : B = NotYet(h) /\ C = {i \in A : UsesRas(i)}
    OBVIOUS
  <2>6. NotYet(h)' = B \cup C
    <3>1. NotYet(h)' = {i \in Program : UsesRas(i) /\ \E n \in h + 1 .. d + e : delivered'[n] = i}
      BY <1>7, <1>13 DEF NotYet, Program, UsesRas, KindOf
    <3>2. B = {i \in Program : UsesRas(i) /\ \E n \in h + 1 .. d : delivered[n] = i}
      BY <1>12, <2>5 DEF NotYet
    <3>3. ASSUME NEW i
          PROVE  (\E n \in h + 1 .. d + e : delivered'[n] = i)
                   <=> (\E n \in h + 1 .. d : delivered[n] = i) \/ (i \in A)
      <4>1. ASSUME NEW n \in h + 1 .. d + e, delivered'[n] = i, n <= d
            PROVE  \E k \in h + 1 .. d : delivered[k] = i
        <5>1. n \in h + 1 .. d /\ n \in 1 .. d
          BY <1>13, <4>1
        <5> QED BY <1>14, <4>1, <5>1
      <4>2. ASSUME NEW n \in h + 1 .. d + e, delivered'[n] = i, ~(n <= d) PROVE i \in A
        <5>0. d \in Nat /\ e \in Nat /\ n \in Int /\ n <= d + e /\ ~(n <= d)
          BY <1>13, <4>2
        <5>1. n - d \in 1 .. e /\ d + (n - d) = n
          BY <5>0
        <5>2. t[n - d] = i
          BY <1>15, <4>2, <5>1
        <5>3. A \in SUBSET Nat
          BY <1>5, FetcherAssumption DEF Program
        <5> QED BY <1>5, <1>12, <5>1, <5>2, <5>3, Ascends
      <4>3. ASSUME NEW n \in h + 1 .. d, delivered[n] = i
            PROVE  \E k \in h + 1 .. d + e : delivered'[k] = i
        <5>1. n \in h + 1 .. d + e /\ n \in 1 .. d
          BY <1>13
        <5> QED BY <1>14, <4>3, <5>1
      <4>4. ASSUME i \in A PROVE \E k \in h + 1 .. d + e : delivered'[k] = i
        <5>1. PICK n \in 1 .. e : t[n] = i
          BY <1>5, <1>12, <4>4 DEF IsAscending
        <5>2. d + n \in h + 1 .. d + e
          BY <1>13
        <5> QED BY <1>15, <5>1, <5>2
      <4> QED BY <4>1, <4>2, <4>3, <4>4
    <3>4. \A i : i \in NotYet(h)' <=> i \in B \cup C
      BY <1>5, <2>5, <3>1, <3>2, <3>3
    <3> QED BY <3>4
  <2>7. \A b \in B, c \in C : b < c
    <3> SUFFICES ASSUME NEW b \in B, NEW c \in C PROVE b < c
      OBVIOUS
    <3>1. PICK n \in h + 1 .. d : delivered[n] = b
      BY <1>12, <2>5 DEF NotYet
    <3>2. n \in 1 .. d
      BY <1>13
    <3> QED BY <1>16, <2>5, <3>1, <3>2
  <2>8. B \in SUBSET Nat /\ C \in SUBSET Nat
    <3>1. B \subseteq Program /\ C \subseteq Program
      BY <1>5, <2>5 DEF NotYet
    <3>2. Program \subseteq Nat
      BY FetcherAssumption DEF Program
    <3> QED BY <3>1, <3>2
  <2>9. IsAscending(Pending \o RasQueries, B \cup C)
    BY <1>6, <2>1, <2>5, <2>7, <2>8, JoinedAscend
  <2>10. h \in 0 .. Len(delivered')
    BY <1>13
  <2> QED BY <1>11, <2>4, <2>6, <2>9, <2>10
<1> QED BY <1>7, <1>10, <1>17 DEF RasFollows, Program
(***************************************************************************)
(* The one request the stack handles is for the next of the delivered      *)
(* instructions that use it.                                               *)
(***************************************************************************)
LEMMA RasHandles ==
  ASSUME DeliveredFirst, RasFollows, ~rasFlushed, Len(RasRequests) = 1
  PROVE  \E n \in 1 .. Len(delivered) :
           /\ delivered[n] = Head(RasRequests) /\ UsesRas(Head(RasRequests))
           /\ Holds(ras, StackOf(walk, delivered)[n - 1])
           /\ IsAscending(inside["ras"].written, NotYet(n))
<1>1. PICK d : d = Len(delivered)
  OBVIOUS
<1>2. /\ d \in Nat /\ walk \in Walks /\ delivered \in Seq(Program) /\ Program \in SUBSET Nat
      /\ \A i \in 1 .. d : delivered[i] \in Program /\ delivered[i] \in Nat
      /\ \A i, j \in 1 .. d : i < j => delivered[i] < delivered[j]
  <2>1. delivered \in Seq(Program) /\ Program \in SUBSET Nat
    BY FetcherAssumption DEF DeliveredFirst, Program
  <2>2. \A i \in 1 .. d : delivered[i] \in Program
    BY <1>1, <2>1, ElementOfSeq
  <2> QED BY <1>1, <2>1, <2>2, LenProperties DEF DeliveredFirst, RasFollows
<1>3. PICK h \in 0 .. d : /\ Holds(ras, StackOf(walk, delivered)[h])
                          /\ IsAscending(Pending, NotYet(h))
  BY <1>1 DEF RasFollows
<1>4. PICK x, y, A : x = RasRequests /\ y = inside["ras"].written /\ A = NotYet(h)
  OBVIOUS
<1>5. x \in Seq(Program) /\ y \in Seq(Program) /\ Len(x) = 1 /\ Len(x) \in Nat /\ Len(y) \in Nat
  BY <1>4, LenProperties DEF RasFollows, RasRequests
<1>6. PICK i : i = x[1]
  OBVIOUS
<1>7. Head(x) = i
  BY <1>5, <1>6
<1>8. PICK u : u = x \o y
  OBVIOUS
<1>9. u \in Seq(Program) /\ Len(u) = 1 + Len(y) /\ u[1] = i
  <2>1. /\ x \o y \in Seq(Program) /\ Len(x \o y) = Len(x) + Len(y)
        /\ \A k \in 1 .. Len(x) + Len(y) : (x \o y)[k] = IF k <= Len(x) THEN x[k] ELSE y[k - Len(x)]
    BY <1>5, ConcatProperties
  <2>2. 1 \in 1 .. Len(x) + Len(y) /\ 1 <= Len(x)
    BY <1>5
  <2> QED BY <1>5, <1>6, <1>8, <2>1, <2>2
<1>10. IsAscending(u, A) /\ A \in SUBSET Program /\ A \in SUBSET Nat
  <2>1. Pending = u
    BY <1>4, <1>8 DEF Pending, RasRequests
  <2>2. A \subseteq Program
    BY <1>4 DEF NotYet
  <2> QED BY <1>2, <1>3, <1>4, <2>1, <2>2
<1>11. i \in A /\ \A a \in A : ~(a < i)
  <2>1. 1 \in 1 .. Len(u)
    BY <1>5, <1>9
  <2>2. /\ \A k \in 1 .. Len(u) : u[k] \in A
        /\ \A j, k \in 1 .. Len(u) : u[j] < u[k] <=> j < k
    BY <1>10, Ascends
  <2>3. ASSUME NEW a \in A, a < i PROVE FALSE
    <3>1. PICK k \in 1 .. Len(u) : u[k] = a
      BY <1>10 DEF IsAscending
    <3>2. k < 1
      BY <1>9, <2>1, <2>2, <2>3, <3>1
    <3> QED BY <1>9, <3>2
  <2> QED BY <1>9, <2>1, <2>2, <2>3
<1>12. PICK n \in h + 1 .. d : delivered[n] = i /\ UsesRas(i)
  BY <1>1, <1>4, <1>11 DEF NotYet
<1>13. /\ n \in 1 .. d /\ n - 1 \in h .. d /\ h \in 0 .. d
       /\ \A k \in h + 1 .. n - 1 : k \in h + 1 .. d /\ k \in 1 .. d /\ k < n
  <2>1. h \in Nat /\ n \in Nat /\ d \in Nat /\ h + 1 <= n /\ n <= d
    BY <1>2, <1>12
  <2> QED BY <2>1
<1>14. \A k \in h + 1 .. n - 1 : ~UsesStack(walk, delivered[k])
  <2> SUFFICES ASSUME NEW k \in h + 1 .. n - 1, UsesStack(walk, delivered[k]) PROVE FALSE
    OBVIOUS
  <2>1. k \in h + 1 .. d /\ k \in 1 .. d /\ k < n
    BY <1>13
  <2>2. UsesRas(delivered[k])
    BY DEF UsesRas, UsesStack, KindOf
  <2>3. delivered[k] \in A
    BY <1>1, <1>2, <1>4, <2>1, <2>2 DEF NotYet
  <2>4. delivered[k] < i
    BY <1>2, <1>12, <1>13, <2>1
  <2> QED BY <1>11, <2>3, <2>4
<1>15. StackOf(walk, delivered)[n - 1] = StackOf(walk, delivered)[h]
  BY <1>1, <1>2, <1>13, <1>14, StackOfOthers
<1>16. NotYet(n) = A \ {i}
  <2>1. ASSUME NEW a \in NotYet(n) PROVE a \in A \ {i}
    <3>1. PICK k \in n + 1 .. d : delivered[k] = a
      BY <1>1 DEF NotYet
    <3>2. k \in h + 1 .. d /\ k \in 1 .. d /\ n < k
      BY <1>2, <1>13
    <3>3. i < a /\ i \in Nat /\ a \in Nat
      BY <1>2, <1>12, <1>13, <3>1, <3>2
    <3> QED BY <1>1, <1>4, <3>1, <3>2, <3>3 DEF NotYet
  <2>2. ASSUME NEW a \in A \ {i} PROVE a \in NotYet(n)
    <3>1. PICK k \in h + 1 .. d : delivered[k] = a
      BY <1>1, <1>4 DEF NotYet
    <3>2. k \in 1 .. d /\ a \in Nat /\ i \in Nat /\ a # i /\ ~(a < i)
      BY <1>2, <1>10, <1>11, <1>13
    <3>3. ~(k < n) /\ k # n
      BY <1>2, <1>12, <1>13, <3>1, <3>2
    <3>4. k \in n + 1 .. d
      BY <1>2, <1>13, <3>2, <3>3
    <3> QED BY <1>1, <1>4, <3>1, <3>4 DEF NotYet
  <2> QED BY <2>1, <2>2
<1>17. IsAscending(y, NotYet(n))
  <2>1. ToSet(x) = {i}
    <3>1. \A z : z \in ToSet(x) <=> z = i
      <4>1. DOMAIN x = 1 .. Len(x)
        BY <1>5, LenProperties
      <4>2. \A z : z \in ToSet(x) <=> \E k \in 1 .. 1 : x[k] = z
        BY <1>5, <4>1 DEF ToSet
      <4>3. \A k \in 1 .. 1 : k = 1
        OBVIOUS
      <4> QED BY <1>6, <4>2, <4>3
    <3> QED BY <3>1
  <2>2. AreJoined(x, y, u)
    BY <1>8 DEF AreJoined
  <2>3. IsAscending(y, A \ {i})
    BY <1>5, <1>10, <2>1, <2>2, SplitAscend
  <2> QED BY <1>16, <2>3
<1> QED BY <1>1, <1>3, <1>4, <1>7, <1>12, <1>13, <1>15, <1>17

LEMMA RasIsChecked ==
  ASSUME BoomInductive, DeliveredFirst, RasFollows, ClockCheckRas
  PROVE  RasFollows'
<1>0. BoomTypeOK
  BY DEF BoomInductive
<1>1. /\ UNCHANGED <<walk, delivered>> /\ inside' = Swapped("ras", <<>>) /\ RasClock
      /\ rasFlushed' = (rasFlushed \/ Len(RasRequests) > 1)
  BY DEF ClockCheckRas
<1>2. inside'["ras"].readable = inside["ras"].written /\ inside'["ras"].written = <<>>
  <2>1. AreInside(inside)
    BY <1>0 DEF BoomTypeOK
  <2>2. inside'["ras"] = [written |-> <<>>, readable |-> inside["ras"].written]
    BY <1>1, <2>1 DEF Swapped, AreInside
  <2> QED BY <2>2
<1>3. PICK x, y : x = RasRequests /\ y = inside["ras"].written
  OBVIOUS
<1>4. /\ x \in Seq(Program) /\ y \in Seq(Program) /\ Len(x) \in Nat
      /\ <<>> \in Seq(Program) /\ walk \in Walks /\ delivered \in Seq(Program)
      /\ Len(delivered) \in Nat
  BY <1>3, EmptySeq, LenProperties DEF RasFollows, RasRequests, DeliveredFirst
<1>5. Pending' = y /\ Pending = x \o y
  <2>1. Pending' = y \o <<>>
    BY <1>2, <1>3 DEF Pending
  <2> QED BY <1>3, <1>4, <2>1, ConcatEmptySeq DEF Pending, RasRequests
<1>6. \A h : NotYet(h)' = NotYet(h)
  BY <1>1 DEF NotYet, Program, UsesRas, KindOf
<1>7. ASSUME ~rasFlushed'
      PROVE  \E h \in 0 .. Len(delivered) : /\ Holds(ras', StackOf(walk, delivered)[h])
                                            /\ IsAscending(y, NotYet(h))
  <2>1. ~rasFlushed /\ (Len(x) = 0 \/ Len(x) = 1)
    <3>1. ~(rasFlushed \/ Len(RasRequests) > 1)
      BY <1>1, <1>7
    <3>2. ~rasFlushed /\ ~(Len(x) > 1)
      BY <1>3, <3>1
    <3>3. Len(x) = 0 \/ Len(x) = 1
      <4>1. PICK k : k = Len(x)
        OBVIOUS
      <4>2. k \in Nat /\ ~(k > 1)
        BY <1>4, <3>2, <4>1
      <4>3. k = 0 \/ k = 1
        BY <4>2
      <4> QED BY <4>1, <4>3
    <3> QED BY <3>2, <3>3
  <2>2. CASE Len(x) = 0
    <3>1. x = <<>>
      BY <1>4, <2>2, EmptySeq
    <3>2. ras' = ras
      BY <1>1, <1>3, <3>1 DEF RasClock
    <3>3. Pending = y
      BY <1>4, <1>5, <3>1, ConcatEmptySeq
    <3> QED BY <2>1, <3>2, <3>3 DEF RasFollows
  <2>3. CASE Len(x) = 1
    <3>1. PICK i : i = Head(RasRequests)
      OBVIOUS
    <3>2. PICK n \in 1 .. Len(delivered) :
             /\ delivered[n] = i /\ UsesRas(i)
             /\ Holds(ras, StackOf(walk, delivered)[n - 1])
             /\ IsAscending(y, NotYet(n))
      BY <1>3, <2>1, <2>3, <3>1, RasHandles
    <3>3. PICK s : s = StackOf(walk, delivered)[n - 1]
      OBVIOUS
    <3>4. n - 1 \in 0 .. Len(delivered) /\ n \in 0 .. Len(delivered) /\ n # 0
      BY <1>4
    <3>5. s \in Stacks /\ StackOf(walk, delivered)[n] = StackOne(walk, s, i) /\ i \in Program
      BY <1>4, <3>2, <3>3, <3>4, StackOfIs, ElementOfSeq
    <3>6. IsRas(ras)
      BY <1>0 DEF BoomTypeOK, IsRas
    <3>7. RasRequests # <<>>
      BY <1>3, <2>3, EmptySeq
    <3>8. Holds(ras', StackOne(walk, s, i))
      <4>1. CASE KindOf(i) = "Call"
        <5>1. ras' = RasPush(ras, NextOf(i))
          BY <1>1, <3>1, <3>7, <4>1 DEF RasClock
        <5>2. StackOne(walk, s, i) = Grown(s, NextOf(i)) /\ NextOf(i) \in Nat
          BY <1>4, <3>5, <4>1, StackOneIs DEF KindOf, NextOf
        <5> QED BY <3>2, <3>3, <3>6, <5>1, <5>2, Pushes
      <4>2. CASE KindOf(i) = "Ret"
        <5>1. ras' = RasPop(ras)
          BY <1>1, <3>1, <3>7, <4>2 DEF RasClock
        <5>2. StackOne(walk, s, i) = Shrunk(s)
          BY <1>4, <3>5, <4>2, StackOneIs DEF KindOf
        <5> QED BY <3>2, <3>3, <3>6, <5>1, <5>2, Pops
      <4> QED BY <3>2, <4>1, <4>2 DEF UsesRas
    <3> QED BY <3>2, <3>4, <3>5, <3>8
  <2> QED BY <2>1, <2>2, <2>3
<1>8. inside'["ras"].readable \in Seq(Program)' /\ inside'["ras"].written \in Seq(Program)'
  BY <1>2, <1>3, <1>4 DEF Program
<1> QED BY <1>1, <1>4, <1>5, <1>6, <1>7, <1>8 DEF RasFollows
LEMMA RasStep ==
  ASSUME BoomInductive, DeliveredFirst, RasFollows, [BoomNext]_boomVars
  PROVE  RasFollows'
<1>1. CASE BoomSendBuffered
  BY <1>1, RasIsSent
<1>2. CASE ClockCheckRas
  BY <1>2, RasIsChecked
<1>3. CASE UNCHANGED <<walk, ras, inside, delivered, rasFlushed>>
  BY <1>3, RasIsLeftAlone
<1>4. CASE ClockCheckBTB
  <2>1. AreInside(inside)
    BY DEF BoomInductive, BoomTypeOK
  <2>2. inside'["ras"] = inside["ras"]
    BY <1>4, <2>1 DEF ClockCheckBTB, Swapped, AreInside
  <2>3. UNCHANGED <<walk, ras, delivered, rasFlushed>>
    BY <1>4 DEF ClockCheckBTB
  <2> QED BY <2>2, <2>3, RasIsLeftAlone
<1>5. CASE BoomCheckPredictor \/ BoomUnbuffer
  BY <1>3, <1>5 DEF BoomCheckPredictor, BoomUnbuffer, innerVars
<1>6. CASE BoomPenaltyAndFetch \/ (Elsewhere /\ UNCHANGED innerVars)
  <2>1. delivered' = delivered
    BY <1>6 DEF BoomPenaltyAndFetch, PaysPenalty, StartsPenalty, PaysNoPenalty, ClockFetch,
                ClockRequestFetch, Elsewhere, envVars
  <2>2. UNCHANGED innerVars
    BY <1>6 DEF BoomPenaltyAndFetch
  <2> QED BY <1>3, <2>1, <2>2 DEF innerVars
<1>7. CASE UNCHANGED boomVars
  BY <1>3, <1>7 DEF boomVars, innerVars, fetcherVars
<1> QED BY <1>1, <1>2, <1>4, <1>5, <1>6, <1>7 DEF BoomNext, BoomClock

LEMMA RasImplied ==
  ASSUME BoomInductive, DeliveredFirst, RasFollows
  PROVE  RasIsAStack
<1> SUFFICES ASSUME ~rasFlushed, Len(RasRequests) = 1
             PROVE  /\ \E n \in 1 .. Len(delivered) : delivered[n] = Head(RasRequests)
                    /\ \A n \in 1 .. Len(delivered) :
                         (/\ delivered[n] = Head(RasRequests)
                          /\ KindOf(Head(RasRequests)) = "Ret" /\ StackAfter[n - 1] # <<>>) =>
                           RasTop(ras) = Last(StackAfter[n - 1])
  BY DEF RasIsAStack
<1>1. PICK n \in 1 .. Len(delivered) :
        /\ delivered[n] = Head(RasRequests)
        /\ Holds(ras, StackOf(walk, delivered)[n - 1])
  BY RasHandles
<1>2. StackAfter = StackOf(walk, delivered)
  BY DEF StackAfter, StackOf, StackWith, StackOne, KindOf, NextOf
<1>3. IsRas(ras)
  BY DEF BoomInductive, BoomTypeOK, IsRas
<1>4. ASSUME NEW m \in 1 .. Len(delivered), delivered[m] = Head(RasRequests) PROVE m = n
  <2>1. \A i \in 1 .. Len(delivered) : delivered[i] \in Nat
    BY ElementOfSeq, FetcherAssumption DEF DeliveredFirst, Program
  <2>2. Len(delivered) \in Nat
    BY LenProperties DEF DeliveredFirst
  <2>3. m < n \/ n < m \/ m = n
    BY <2>2
  <2>4. /\ m < n => delivered[m] < delivered[n]
        /\ n < m => delivered[n] < delivered[m]
    BY DEF DeliveredFirst
  <2> QED BY <1>1, <1>4, <2>1, <2>3, <2>4
<1>5. ASSUME NEW m \in 1 .. Len(delivered), delivered[m] = Head(RasRequests),
             StackAfter[m - 1] # <<>>
      PROVE  RasTop(ras) = Last(StackAfter[m - 1])
  BY <1>1, <1>2, <1>3, <1>4, <1>5, TopIsLast
<1> QED BY <1>1, <1>5

(***************************************************************************)
(* A return is answered with the address that was pushed by the call it    *)
(* belongs to, or by the last of those that the stack of this size still   *)
(* has, also behind pops of an empty stack, as long as no request was      *)
(* flushed (ras.cpp:64): for any size, any program and any timing of the   *)
(* requests.                                                               *)
(***************************************************************************)
THEOREM RasAnswersTheCall ==
  BoomSpec => []RasIsAStack
<1>1. BoomInit => BoomInductive /\ DeliveredFirst /\ RasFollows
  BY BoomStarts, RasStarts
<1>2. BoomInductive /\ DeliveredFirst /\ RasFollows /\ [BoomNext]_boomVars
        => (BoomInductive /\ DeliveredFirst /\ RasFollows)'
  BY BoomStep, DeliveredStep, RasStep
<1>3. BoomInductive /\ DeliveredFirst /\ RasFollows => RasIsAStack
  BY RasImplied
<1> QED BY <1>1, <1>2, <1>3, PTL DEF BoomSpec
=============================================================================
