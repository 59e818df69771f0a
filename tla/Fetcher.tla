------------------------------- MODULE Fetcher -------------------------------
(***************************************************************************)
(* The Fetcher component (src/src/std_components/fetch/fetcher.cpp)        *)
(* between the engine it asks for instructions, the instruction memory it  *)
(* hands them to and, if it has one, the predictor it consults.  Clock is  *)
(* a sequence of helpers, each of which is an action; Elsewhere is what    *)
(* the other components do in the same cycle, and the PosClock after it.   *)
(*                                                                         *)
(* Messages travel as SynchronousCycle describes: a channel has what is    *)
(* written in this cycle and what was written in the last one, and what is *)
(* not read in time is gone.                                               *)
(***************************************************************************)
EXTENDS Integers, Sequences, FiniteSetsExt

CONSTANTS
  fetchSize,       \* the bytes, and the entries, of the fetch buffer
  FetchIntervals,  \* the fetchInterval parameters that are considered
  Penalties,       \* the misspredictPenalty parameters
  Predictors,      \* the kinds of predictors: "none", "prompt", "late"
  InstSizes,       \* the sizes an instruction may have
  Instructions     \* the number of instructions the engine has to give

ASSUME FetcherAssumption ==
  /\ fetchSize \in Nat \ {0}
  /\ FetchIntervals \subseteq Nat \ {0}
  /\ Penalties \subseteq Nat \ {0}
  /\ Predictors \subseteq {"none", "prompt", "late"}
  /\ InstSizes \subseteq Nat \ {0}
  /\ Instructions \in Nat

Program == 1 .. Instructions

VARIABLES
  fetchInterval, misspredictPenalty, predictor,   \* as configured
  instSize,          \* instSize[i]: the size of the i-th instruction
  step,              \* the helper Clock is about to call
  fetchBuffer,       \* the first fetchBufferUsage entries
  fetchClock,
  currentPenalty,
  predictionResult,
  channel,           \* the messages between the fetcher and the others
  next,              \* the instruction the engine has buffered
  asked,             \* the queries the predictor has not answered
  delivered          \* history: what the instruction memory was sent

configVars == <<fetchInterval, misspredictPenalty, predictor, instSize>>
clockVars  == <<fetchClock, currentPenalty, predictionResult>>
envVars    == <<next, asked, configVars>>
fetcherVars == <<step, fetchBuffer, clockVars, channel, envVars, delivered>>

Channels == {"request", "response", "query", "prediction"}

Init ==
  /\ fetchInterval \in FetchIntervals
  /\ misspredictPenalty \in Penalties
  /\ predictor \in Predictors
  /\ instSize \in [Program -> InstSizes]
  /\ step = "ClockSendBuffered"
  /\ fetchBuffer = <<>>
  /\ fetchClock = 0
  /\ currentPenalty = 0
  /\ predictionResult = 0
  /\ channel = [x \in Channels |-> [written |-> <<>>, readable |-> <<>>]]
  /\ next = 1
  /\ asked = <<>>
  /\ delivered = <<>>

hasPredictor == predictor # "none"

Readable(x) == channel[x].readable

Writes(x, messages) == [channel EXCEPT ![x].written = messages]

Clears(x) == [channel EXCEPT ![x].readable = <<>>]

-----------------------------------------------------------------------------
Usage == Len(fetchBuffer)

(***************************************************************************)
(* The number of entries at the head of the buffer that carry the flags.   *)
(***************************************************************************)
Leading(flags) ==
  Max({n \in 0 .. Usage : \A i \in 1 .. n : flags \subseteq fetchBuffer[i].flags})

(***************************************************************************)
(* ClockSendBuffered: to the memory and to the predictor, if any, skip     *)
(* what was sent already and send the rest, as far as the connection takes *)
(* it: it is empty at the start of a cycle and has fetchSize slots.        *)
(***************************************************************************)
SendFlags == {"SentToMemory"} \cup IF hasPredictor THEN {"SentToPredictor"} ELSE {}

ToSend(flag) ==
  LET first == Leading({flag}) + 1
  IN  first .. Min({Usage, first + fetchSize - 1})

Messages(flag) ==
  [i \in 1 .. Cardinality(ToSend(flag)) |-> fetchBuffer[Leading({flag}) + i].inst]

ClockSendBuffered ==
  /\ step = "ClockSendBuffered"
  /\ step' = "ClockCheckPredictor"
  /\ delivered' = delivered \o Messages("SentToMemory")
  /\ channel' = IF hasPredictor THEN Writes("query", Messages("SentToPredictor"))
                                ELSE channel
  /\ fetchBuffer' =
       [i \in 1 .. Usage |->
          [inst  |-> fetchBuffer[i].inst,
           flags |-> fetchBuffer[i].flags \cup {f \in SendFlags : i \in ToSend(f)}]]
  /\ UNCHANGED <<clockVars, envVars>>

(***************************************************************************)
(* ClockCheckPredictor: the responses are matched with the entries from    *)
(* the head of the buffer on; the assertion is that they belong together.  *)
(* No response at all is treated like a misprediction.  To mark only the   *)
(* entry of the last response is a slip.                                   *)
(***************************************************************************)
ResponsesMatch ==
  \A i \in 1 .. Len(Readable("prediction")) :
    i <= Usage /\ fetchBuffer[i].inst = Readable("prediction")[i].inst

MarkLastPredicted(n) ==
  [i \in 1 .. Usage |->
     [inst  |-> fetchBuffer[i].inst,
      flags |-> fetchBuffer[i].flags \cup IF i = n THEN {"Predicted"} ELSE {}]]

MarkPredicted(n) ==
  [i \in 1 .. Usage |->
     [inst  |-> fetchBuffer[i].inst,
      flags |-> fetchBuffer[i].flags \cup IF i <= n THEN {"Predicted"} ELSE {}]]

PredictionFails ==
  \/ Readable("prediction") = <<>>
  \/ \E i \in 1 .. Len(Readable("prediction")) : ~Readable("prediction")[i].right

ClockCheckPredictor ==
  /\ step = "ClockCheckPredictor"
  /\ step' = "ClockUnbuffer"
  /\ IF hasPredictor
       THEN /\ ResponsesMatch
            /\ fetchBuffer' = MarkPredicted(Len(Readable("prediction")))
            /\ predictionResult' = IF PredictionFails THEN 1 ELSE 0
            /\ channel' = Clears("prediction")
       ELSE /\ predictionResult' = 0
            /\ UNCHANGED <<fetchBuffer, channel>>
  /\ UNCHANGED <<fetchClock, currentPenalty, envVars, delivered>>

(***************************************************************************)
(* ClockUnbuffer: entries leave in order, when the memory has them and the *)
(* predictor, if any, has responded.  Not waiting for it is a slip.        *)
(***************************************************************************)
SentOnly == {"SentToMemory"}

flagsToCheck == {"SentToMemory"} \cup IF hasPredictor THEN {"Predicted"} ELSE {}

ClockUnbuffer ==
  /\ step = "ClockUnbuffer"
  /\ step' = "Penalty"
  /\ fetchBuffer' = SubSeq(fetchBuffer, Leading(flagsToCheck) + 1, Usage)
  /\ UNCHANGED <<clockVars, channel, envVars, delivered>>

(***************************************************************************)
(* Clock, between the helpers: is a penalty being paid, and is it time to  *)
(* fetch nevertheless, so that the instructions arrive when it is over?    *)
(* The slip is to take the last two cycles of the penalty, not three.      *)
(***************************************************************************)
IdlesLonger(penalty) == penalty > 1

Idles(penalty) == penalty > 2

PaysPenalty ==
  /\ step = "Penalty"
  /\ currentPenalty > 0
  /\ currentPenalty' = currentPenalty - 1
  /\ step' = IF Idles(currentPenalty') THEN "Elsewhere" ELSE "ClockFetch"
  /\ UNCHANGED <<fetchBuffer, fetchClock, predictionResult, channel, envVars,
                 delivered>>

StartsPenalty ==
  /\ step = "Penalty"
  /\ currentPenalty = 0
  /\ predictionResult # 0
  /\ currentPenalty' = misspredictPenalty
  /\ fetchClock' = 0
  /\ step' = "Elsewhere"
  /\ UNCHANGED <<fetchBuffer, predictionResult, channel, envVars, delivered>>

PaysNoPenalty ==
  /\ step = "Penalty"
  /\ currentPenalty = 0
  /\ predictionResult = 0
  /\ step' = "ClockFetch"
  /\ UNCHANGED <<fetchBuffer, clockVars, channel, envVars, delivered>>

(***************************************************************************)
(* The places of fetchBuffer that the loop of ClockFetch writes: those of  *)
(* what arrived, and the one behind them, where the receive that fails and *)
(* ends the loop sets its packet to 0 (circular_buffer.cpp:130).  The code *)
(* checks no bound.  fetchBuffer is what is in use of the array, so that   *)
(* the last write changes nothing in it; that it is inside of the array is *)
(* HasRoom.                                                                *)
(***************************************************************************)
PlacesWritten == Usage + 1 .. Usage + Len(Readable("response")) + 1

(***************************************************************************)
(* ClockFetch: whatever arrived is appended, at PlacesWritten.  An entry   *)
(* that keeps the flags of the last one in its place is a slip.            *)
(***************************************************************************)
StaleEntry(inst) == [inst |-> inst, flags |-> {"SentToMemory"}]

NewEntry(inst) == [inst |-> inst, flags |-> {}]

ClockFetch ==
  /\ step = "ClockFetch"
  /\ fetchBuffer' = fetchBuffer \o
       [i \in 1 .. Len(Readable("response")) |-> NewEntry(Readable("response")[i])]
  /\ channel' = Clears("response")
  /\ IF fetchClock % fetchInterval = 0
       THEN step' = "ClockRequestFetch" /\ fetchClock' = 0
       ELSE step' = "Elsewhere" /\ fetchClock' = fetchClock + 1
  /\ UNCHANGED <<currentPenalty, predictionResult, envVars, delivered>>

(***************************************************************************)
(* ClockRequestFetch asks for the bytes that are free.  The difference is  *)
(* computed without a sign but read as a long, so that it is exact.  To    *)
(* forget what is in the buffer is a slip.                                 *)
(***************************************************************************)
TotalSize(instructions) ==
  LET sum[n \in 0 .. Len(instructions)] ==
        IF n = 0 THEN 0 ELSE sum[n - 1] + instSize[instructions[n]]
  IN  sum[Len(instructions)]

ByteUsage == TotalSize([i \in 1 .. Usage |-> fetchBuffer[i].inst])

WholeBuffer == fetchSize

FreeBytes == fetchSize - ByteUsage

ClockRequestFetch ==
  /\ step = "ClockRequestFetch"
  /\ step' = "Elsewhere"
  /\ channel' = Writes("request", <<FreeBytes>>)
  /\ fetchClock' = 1
  /\ UNCHANGED <<fetchBuffer, currentPenalty, predictionResult, envVars, delivered>>

-----------------------------------------------------------------------------
(***************************************************************************)
(* The engine serves a request of the last cycle as Engine::Fetch does:    *)
(* with 0 one instruction, otherwise as many as weigh less than the        *)
(* request.  Its response buffer has fetchSize slots.                      *)
(***************************************************************************)
Weight(n) == TotalSize([i \in 1 .. n |-> next + i - 1])

Served(request) ==
  LET available == 0 .. Instructions - next + 1
  IN  IF request = 0 THEN Min({1, Instructions - next + 1})
      ELSE Max({0} \cup {n \in available : Weight(n) < request})

NumberServed == IF Readable("request") = <<>> THEN 0 ELSE Served(Readable("request")[1])

Responses ==
  [i \in 1 .. Min({NumberServed, fetchSize}) |-> next + i - 1]

(***************************************************************************)
(* A predictor responds in order, and only to what it was asked.  It is    *)
(* right or wrong; a prompt one (HardwiredPredictor, GsharePredictor)      *)
(* answers everything in the cycle in which it gets the query.             *)
(***************************************************************************)
Queries == asked \o Readable("query")

NumbersAnswered == IF predictor = "prompt" THEN {Len(Queries)} ELSE 0 .. Len(Queries)

Answers(n) ==
  {[i \in 1 .. n |-> [inst |-> Queries[i], right |-> right[i]]] :
     right \in [1 .. n -> BOOLEAN]}

(***************************************************************************)
(* The clocks of the others, and the swap of the buffers in PosClock.      *)
(***************************************************************************)
Elsewhere ==
  /\ step = "Elsewhere"
  /\ step' = "ClockSendBuffered"
  /\ next' = next + NumberServed
  /\ \E n \in NumbersAnswered :
       /\ asked' = SubSeq(Queries, n + 1, Len(Queries))
       /\ \E answers \in Answers(n) :
            channel' = [x \in Channels |->
                     [written  |-> <<>>,
                      readable |-> CASE x = "response"   -> Responses
                                     [] x = "prediction" -> answers
                                     [] OTHER            -> channel[x].written]]
  /\ UNCHANGED <<fetchBuffer, clockVars, configVars, delivered>>

Clock ==
  \/ ClockSendBuffered
  \/ ClockCheckPredictor
  \/ ClockUnbuffer
  \/ PaysPenalty
  \/ StartsPenalty
  \/ PaysNoPenalty
  \/ ClockFetch
  \/ ClockRequestFetch

Next == Clock \/ Elsewhere

Spec == Init /\ [][Next]_fetcherVars /\ WF_fetcherVars(Next)

-----------------------------------------------------------------------------
(***************************************************************************)
(* Type invariant, with the order in the buffer: the instructions are in   *)
(* the order of the program, and an entry has every flag that a later one  *)
(* has, which is why skipping a prefix finds what is still to be sent.     *)
(***************************************************************************)
FetcherInvariant ==
  /\ step \in {"ClockSendBuffered", "ClockCheckPredictor", "ClockUnbuffer",
               "Penalty", "ClockFetch", "ClockRequestFetch", "Elsewhere"}
  /\ \A i \in 1 .. Usage :
       /\ fetchBuffer[i].inst \in Program
       /\ fetchBuffer[i].flags \subseteq {"SentToMemory", "SentToPredictor", "Predicted"}
  /\ fetchClock \in 0 .. fetchInterval
  /\ currentPenalty \in 0 .. misspredictPenalty
  /\ \A i, j \in 1 .. Usage :
       i < j => /\ fetchBuffer[i].inst < fetchBuffer[j].inst
                /\ fetchBuffer[j].flags \subseteq fetchBuffer[i].flags

(***************************************************************************)
(* The assertion of ClockCheckPredictor (fetcher.cpp:116) holds whenever   *)
(* it is reached, although the responses carry no position: they answer    *)
(* the entries at the head of the buffer, however late they come.          *)
(***************************************************************************)
ResponsesAreForTheHead ==
  step = "ClockCheckPredictor" => ResponsesMatch

(***************************************************************************)
(* ClockFetch never writes behind the buffer ("We're guaranteed to have    *)
(* space", fetcher.cpp:166), neither an instruction nor the 0 of the       *)
(* receive that ends its loop, with two exceptions: a predictor that is    *)
(* late, and a penalty of 3 with a request in every cycle, when what is    *)
(* asked for without regard to the instructions on their way arrives.      *)
(***************************************************************************)
HasRoom == step = "ClockFetch" => PlacesWritten \subseteq 1 .. fetchSize

RequestsOverlap ==
  \/ predictor = "late"
  \/ predictor = "prompt" /\ misspredictPenalty = 3 /\ fetchInterval = 1

HasSpace == ~RequestsOverlap => HasRoom

(***************************************************************************)
(* Every instruction the engine has sent is on its way to the fetcher, in  *)
(* its buffer, or was sent to the instruction memory, and that happened in *)
(* the order of the program and once.                                      *)
(***************************************************************************)
Waiting ==
  LET sent == Leading({"SentToMemory"})
  IN  [i \in 1 .. Usage - sent |-> fetchBuffer[sent + i].inst]

Accounted == delivered \o Waiting \o Readable("response")

EveryInstructionIsBuffered == Accounted = [i \in 1 .. next - 1 |-> i]

(***************************************************************************)
(* The parameters with which nothing arrives in a cycle in which the       *)
(* fetcher does not look: there is no predictor, or a prompt one and a     *)
(* penalty of 1, or of at least 3 with one request in the last cycles of   *)
(* it.                                                                     *)
(***************************************************************************)
SafelyPaced ==
  \/ predictor = "none"
  \/ predictor = "prompt" /\ misspredictPenalty = 1
  \/ predictor = "prompt" /\ misspredictPenalty >= 3 /\ fetchInterval >= 2

(***************************************************************************)
(* With such parameters no instruction is lost on the way, whatever the    *)
(* predictor says and whenever a penalty is paid.                          *)
(***************************************************************************)
NothingIsLost == SafelyPaced => EveryInstructionIsBuffered

(***************************************************************************)
(* With such parameters all instructions reach the memory, if none is as   *)
(* large as the buffer.                                                    *)
(***************************************************************************)
AllDelivered == SafelyPaced => <>(Len(delivered) = Instructions)
=============================================================================
