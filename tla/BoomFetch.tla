------------------------------ MODULE BoomFetch ------------------------------
(***************************************************************************)
(* The BoomFetch component (src/src/std_components/fetch/boom_fetch.cpp):  *)
(* a Fetcher that also consults a return address stack and a branch target *)
(* buffer of its own, which it clocks from inside its Clock.  What the two *)
(* components have in common, the penalties, the buffer and the engine, is *)
(* taken from Fetcher.                                                     *)
(*                                                                         *)
(* The inner components are read in the cycle in which they are clocked: a *)
(* query written in one cycle is answered, and its answer is read, in the  *)
(* next; the predictor outside takes one cycle more.  Addresses are below  *)
(* 2^32: ClockCheckBTB compares an unsigned int of the next one.           *)
(***************************************************************************)
EXTENDS Fetcher, BranchPredictors

CONSTANTS
  Code,         \* the static instructions: their sizes and kinds, by address
  Walks,        \* the executions: addresses, one more than Instructions
  numEntries,   \* of the branch target buffer
  Factors,      \* its interleaving factors that are considered
  rasSize       \* the size of the return address stack

ASSUME BoomAssumption ==
  /\ "none" \notin Predictors    \* the parameter is required
  /\ DOMAIN Code \subseteq Nat \ {0}
  /\ \A w \in Walks : w \in Seq(DOMAIN Code) /\ Len(w) = Instructions + 1
  /\ numEntries \in Nat \ {0}
  /\ Factors \subseteq Nat \ {0}
  /\ rasSize \in Nat \ {0}

VARIABLES
  walk,         \* the execution that is fetched
  ras, btb,
  inside,       \* the requests to the two
  stale,        \* the flags left in the unused places of the buffer
  rasFlushed    \* history: a request to the stack was never read

innerVars == <<walk, ras, btb, inside, stale, rasFlushed>>
boomVars  == <<fetcherVars, innerVars>>

Address(i) == walk[i]
NextOf(i)  == walk[i + 1]
KindOf(i)  == Code[walk[i]].kind

IsTaken(i) == NextOf(i) # Address(i) + instSize[i]

BoomInit ==
  /\ fetchInterval \in FetchIntervals
  /\ misspredictPenalty \in Penalties
  /\ predictor \in Predictors
  /\ walk \in Walks
  /\ instSize = [i \in Program |-> Code[walk[i]].size]
  /\ step = "ClockSendBuffered"
  /\ fetchBuffer = <<>>
  /\ fetchClock = 0
  /\ currentPenalty = 0
  /\ predictionResult = 0
  /\ channel = [x \in Channels |-> [written |-> <<>>, readable |-> <<>>]]
  /\ next = 1
  /\ asked = <<>>
  /\ delivered = <<>>
  /\ ras = RasInit(rasSize)
  /\ \E factor \in Factors : btb = BTBInit(numEntries, factor)
  /\ inside = [x \in {"ras", "btb"} |-> [written |-> <<>>, readable |-> <<>>]]
  /\ stale = [k \in 1 .. fetchSize |-> {}]
  /\ rasFlushed = FALSE

Swapped(x, written) ==
  [inside EXCEPT ![x] = [written |-> written, readable |-> inside[x].written]]

(***************************************************************************)
(* The elements of a sequence at some of its positions.                    *)
(***************************************************************************)
Ascending(positions, n) ==
  LET upTo[k \in 0 .. n] ==
        IF k = 0 THEN <<>>
        ELSE IF k \in positions THEN Append(upTo[k - 1], k) ELSE upTo[k - 1]
  IN  upTo[n]

Selected(s, positions) ==
  [k \in 1 .. Len(Ascending(positions, Len(s))) |-> s[Ascending(positions, Len(s))[k]]]

-----------------------------------------------------------------------------
(***************************************************************************)
(* ClockSendBuffered: an entry goes to all at once, or waits until all     *)
(* have a place for it.  Only the branch target buffer may not: its        *)
(* connection holds the updates of the last cycle.                         *)
(***************************************************************************)
IsBranch(i) == KindOf(i) # "None"

UsesRas(i) == KindOf(i) \in {"Call", "Ret"}

FirstUnsent == Leading({"SentToMemory"}) + 1

IsAvailable(k) ==
  /\ k - FirstUnsent < fetchSize
  /\ Len(inside["btb"].written)
       + Cardinality({j \in FirstUnsent .. k - 1 : IsBranch(fetchBuffer[j].inst)}) < fetchSize

LastToSend ==
  Max({FirstUnsent - 1} \cup {k \in FirstUnsent .. Usage : \A j \in FirstUnsent .. k : IsAvailable(j)})

SentNow ==
  [k \in 1 .. LastToSend - FirstUnsent + 1 |-> fetchBuffer[FirstUnsent + k - 1].inst]

FlagsOfSent(i) ==
  {"SentToMemory", "SentToPredictor"}
    \cup (IF UsesRas(i) THEN {"SentToRas"} ELSE {})
    \cup (IF IsBranch(i) THEN {"SentToBTB"} ELSE {})

BranchesSent == Selected(SentNow, {k \in 1 .. Len(SentNow) : IsBranch(SentNow[k])})

BTBQueries ==
  [k \in 1 .. Len(BranchesSent) |-> [type |-> "Query", inst |-> BranchesSent[k]]]

RasQueries == Selected(SentNow, {k \in 1 .. Len(SentNow) : UsesRas(SentNow[k])})

BoomSendBuffered ==
  /\ step = "ClockSendBuffered"
  /\ step' = "ClockCheckPredictor"
  /\ delivered' = delivered \o SentNow
  /\ channel' = Writes("query", SentNow)
  /\ inside' =
       [ras |-> [inside["ras"] EXCEPT !.written = @ \o RasQueries],
        btb |-> [inside["btb"] EXCEPT !.written = @ \o BTBQueries]]
  /\ fetchBuffer' =
       [k \in 1 .. Usage |->
          IF k \in FirstUnsent .. LastToSend
            THEN [inst |-> fetchBuffer[k].inst, flags |-> FlagsOfSent(fetchBuffer[k].inst)]
            ELSE fetchBuffer[k]]
  /\ UNCHANGED <<clockVars, envVars, walk, ras, btb, stale, rasFlushed>>

(***************************************************************************)
(* ClockCheckPredictor: as in Fetcher, from the first entry on that has    *)
(* not been checked.  From here to ClockCheckBTB predictionResult is that  *)
(* of the helpers so far: it is a misprediction if all of them say so, and *)
(* silence counts as one.                                                  *)
(***************************************************************************)
Predictions == Readable("prediction")

PredictionsMatch ==
  \A n \in 1 .. Len(Predictions) :
    /\ Leading({"Predicted"}) + n <= Usage
    /\ fetchBuffer[Leading({"Predicted"}) + n].inst = Predictions[n].inst

BoomCheckPredictor ==
  /\ step = "ClockCheckPredictor"
  /\ step' = "ClockCheckRas"
  /\ PredictionsMatch
  /\ fetchBuffer' = MarkPredicted(Leading({"Predicted"}) + Len(Predictions))
  /\ predictionResult' = IF PredictionFails THEN 1 ELSE 0
  /\ channel' = Clears("prediction")
  /\ UNCHANGED <<fetchClock, currentPenalty, envVars, delivered, innerVars>>

(***************************************************************************)
(* ClockCheckRas: the stack handles one request in a cycle and PosClock    *)
(* flushes the others.  A call pushes the address it leads to.             *)
(***************************************************************************)
RasRequests == inside["ras"].readable

RasResultIs(fails) == predictionResult' = IF fails THEN predictionResult ELSE 0

RasClock ==
  IF RasRequests = <<>>
    THEN UNCHANGED ras /\ RasResultIs(TRUE)
    ELSE LET i == Head(RasRequests)
         IN  IF KindOf(i) = "Call"
               THEN ras' = RasPush(ras, NextOf(i)) /\ RasResultIs(TRUE)
               ELSE ras' = RasPop(ras) /\ RasResultIs(RasTop(ras) # NextOf(i))

ClockCheckRas ==
  /\ step = "ClockCheckRas"
  /\ step' = "ClockCheckBTB"
  /\ RasClock
  /\ inside' = Swapped("ras", <<>>)
  /\ rasFlushed' = (rasFlushed \/ Len(RasRequests) > 1)
  /\ UNCHANGED <<fetchBuffer, fetchClock, currentPenalty, channel, envVars, delivered,
                 walk, btb, stale>>

(***************************************************************************)
(* ClockCheckBTB: the requests are handled in their order, those of this   *)
(* component's own updates first.                                          *)
(***************************************************************************)
BTBRequests == inside["btb"].readable

Handled(b, request) ==
  LET i == request.inst
  IN  CASE request.type = "Query"    -> b
        [] request.type = "AddEntry" -> AddEntry(b, Address(i), KindOf(i), NextOf(i))
        [] request.type = "Update"   -> Update(b, Address(i), IsTaken(i))

BTBAfter[n \in 0 .. Len(BTBRequests)] ==
  IF n = 0 THEN btb ELSE Handled(BTBAfter[n - 1], BTBRequests[n])

(***************************************************************************)
(* The responses, and the entries they are matched with: the first ones    *)
(* that were sent and not checked.  Not to skip the ones that were checked *)
(* is a slip.                                                              *)
(***************************************************************************)
BTBQueried ==
  Ascending({n \in 1 .. Len(BTBRequests) : BTBRequests[n].type = "Query"}, Len(BTBRequests))

BTBResponse(n) ==
  LET addr == Address(BTBRequests[n].inst)
  IN  [inst   |-> BTBRequests[n].inst,
       hit    |-> IsBTBHit(BTBAfter[n - 1], addr),
       target |-> QueriedTarget(BTBAfter[n - 1], addr)]

BTBResponses == [k \in 1 .. Len(BTBQueried) |-> BTBResponse(BTBQueried[k])]

WasSent(entry) == "SentToBTB" \in entry.flags

IsAwaited(entry) == "SentToBTB" \in entry.flags /\ "BTBCheck" \notin entry.flags

Awaiting == Selected(fetchBuffer, {k \in 1 .. Usage : IsAwaited(fetchBuffer[k])})

BTBResponsesMatch ==
  \A k \in 1 .. Len(BTBResponses) :
    k <= Len(Awaiting) /\ Awaiting[k].inst = BTBResponses[k].inst

UpdateFor(response) ==
  [type |-> IF response.hit THEN "Update" ELSE "AddEntry", inst |-> response.inst]

BTBFails ==
  \/ BTBResponses = <<>>
  \/ \E k \in 1 .. Len(BTBResponses) :
       BTBResponses[k].target # NextOf(BTBResponses[k].inst)

ClockCheckBTB ==
  /\ step = "ClockCheckBTB"
  /\ step' = "ClockUnbuffer"
  /\ BTBResponsesMatch
  /\ btb' = BTBAfter[Len(BTBRequests)]
  /\ inside' = Swapped("btb", [k \in 1 .. Len(BTBResponses) |-> UpdateFor(BTBResponses[k])])
  /\ fetchBuffer' =
       [k \in 1 .. Usage |->
          [inst  |-> fetchBuffer[k].inst,
           flags |-> fetchBuffer[k].flags \cup
             IF \E n \in 1 .. Len(BTBResponses) : BTBResponses[n].inst = fetchBuffer[k].inst
               THEN {"BTBCheck"} ELSE {}]]
  /\ RasResultIs(BTBFails)
  /\ UNCHANGED <<fetchClock, currentPenalty, channel, envVars, delivered,
                 walk, ras, stale, rasFlushed>>

(***************************************************************************)
(* ClockUnbuffer: also the branch target buffer must have responded to an  *)
(* entry it was sent.  The places behind the last entry keep what they     *)
(* hold.                                                                   *)
(***************************************************************************)
MayLeave(entry) == flagsToCheck \subseteq entry.flags /\ ~IsAwaited(entry)

BoomUnbuffer ==
  /\ step = "ClockUnbuffer"
  /\ step' = "Penalty"
  /\ LET n == Max({k \in 0 .. Usage : \A j \in 1 .. k : MayLeave(fetchBuffer[j])})
     IN  fetchBuffer' = SubSeq(fetchBuffer, n + 1, Usage)
  /\ stale' = [k \in 1 .. fetchSize |-> IF k <= Usage THEN fetchBuffer[k].flags ELSE stale[k]]
  /\ UNCHANGED <<clockVars, channel, envVars, delivered, walk, ras, btb, inside, rasFlushed>>

(***************************************************************************)
(* The rest of Clock is that of Fetcher, word for word.                    *)
(***************************************************************************)
BoomPenaltyAndFetch ==
  /\ PaysPenalty \/ StartsPenalty \/ PaysNoPenalty \/ ClockFetch \/ ClockRequestFetch
  /\ UNCHANGED innerVars

BoomClock ==
  \/ BoomSendBuffered
  \/ BoomCheckPredictor
  \/ ClockCheckRas
  \/ ClockCheckBTB
  \/ BoomUnbuffer
  \/ BoomPenaltyAndFetch

BoomNext == BoomClock \/ (Elsewhere /\ UNCHANGED innerVars)

BoomSpec == BoomInit /\ [][BoomNext]_boomVars /\ WF_boomVars(BoomNext)

-----------------------------------------------------------------------------
(***************************************************************************)
(* Properties.                                                             *)
(***************************************************************************)

(***************************************************************************)
(* Type invariant, with what the flags say: the entries are in the order   *)
(* of the program, those that were sent come first, and so do those that   *)
(* the predictor has answered.                                             *)
(***************************************************************************)
BoomInvariant ==
  /\ step \in {"ClockSendBuffered", "ClockCheckPredictor", "ClockCheckRas", "ClockCheckBTB",
               "ClockUnbuffer", "Penalty", "ClockFetch", "ClockRequestFetch", "Elsewhere"}
  /\ currentPenalty \in 0 .. misspredictPenalty
  /\ ras.end \in 0 .. rasSize - 1
  /\ \A k \in 1 .. Usage :
       LET entry == fetchBuffer[k]
       IN  /\ WasSent(entry) <=> "SentToMemory" \in entry.flags /\ IsBranch(entry.inst)
           /\ "BTBCheck" \in entry.flags => WasSent(entry)
  /\ \A j, k \in 1 .. Usage :
       j < k => /\ fetchBuffer[j].inst < fetchBuffer[k].inst
                /\ \A f \in {"SentToMemory", "Predicted"} :
                     f \in fetchBuffer[k].flags => f \in fetchBuffer[j].flags

(***************************************************************************)
(* The assertions of ClockCheckPredictor and ClockCheckBTB (lines 221 and  *)
(* 310 of boom_fetch.cpp) hold whenever they are reached: responses carry  *)
(* no position, and those of the two come at different times.              *)
(***************************************************************************)
AnswersAreForTheFirst ==
  /\ step = "ClockCheckPredictor" => PredictionsMatch
  /\ step = "ClockCheckBTB" => BTBResponsesMatch

(***************************************************************************)
(* The loops over the buffer that do not compare with its size end inside. *)
(* Those that skip entries (lines 155 and 205) always come to a place,     *)
(* used or not, without the flag they look for; the one that receives      *)
(* (line 391) has a place for every instruction, and for the 0 of the      *)
(* receive that ends it.  The exceptions are those of HasSpace:            *)
(* instructions of one byte, all of them sent, can then fill the buffer.   *)
(***************************************************************************)
FlagsAt(k) == IF k <= Usage THEN fetchBuffer[k].flags ELSE stale[k]

ScanEnds(flag) == \E k \in 1 .. fetchSize : flag \notin FlagsAt(k)

LoopsStayInside ==
  ~RequestsOverlap =>
    /\ step = "ClockSendBuffered" => ScanEnds("SentToMemory")
    /\ step = "ClockCheckPredictor" => ScanEnds("Predicted")
    /\ HasRoom

(***************************************************************************)
(* The return address stack is a stack of the size it was given, that      *)
(* forgets its oldest entry when it is full, also behind pops of an empty  *)
(* stack: a return is answered with the address that was pushed by the     *)
(* call it belongs to.  This is so as long as no two calls or returns were *)
(* sent in one cycle, of which the stack reads only one (ras.cpp:68).      *)
(***************************************************************************)
StackWith(s, i) ==
  IF KindOf(i) = "Call" THEN Append(IF Len(s) < rasSize THEN s ELSE Tail(s), NextOf(i))
  ELSE IF KindOf(i) = "Ret" /\ s # <<>> THEN Front(s)
  ELSE s

StackAfter[n \in 0 .. Len(delivered)] ==
  IF n = 0 THEN <<>> ELSE StackWith(StackAfter[n - 1], delivered[n])

RasIsAStack ==
  (step = "ClockCheckRas" /\ ~rasFlushed /\ Len(RasRequests) = 1) =>
    LET i == Head(RasRequests)
    IN  /\ \E n \in 1 .. Len(delivered) : delivered[n] = i
        /\ \A n \in 1 .. Len(delivered) :
             (delivered[n] = i /\ KindOf(i) = "Ret" /\ StackAfter[n - 1] # <<>>) =>
               RasTop(ras) = Last(StackAfter[n - 1])

(***************************************************************************)
(* With one bank, a hit of a branch that is not conditional and always     *)
(* leads to the same address is for that address, and never for the target *)
(* of a branch that had the entry before, although entries are added two   *)
(* cycles after the query they answer, when other queries have been made   *)
(* (interleavedBTB.cpp:63, 207).                                           *)
(***************************************************************************)
IsDirect(i) ==
  /\ KindOf(i) # "Cond"
  /\ \A j \in Program : Address(j) = Address(i) => NextOf(j) = NextOf(i)

DirectHitsAreRight ==
  (step = "ClockCheckBTB" /\ Cardinality(Banks(btb)) = 1) =>
    \A k \in 1 .. Len(BTBResponses) :
      LET r == BTBResponses[k]
      IN  (r.hit /\ IsDirect(r.inst)) => r.target = NextOf(r.inst)

(***************************************************************************)
(* With the parameters that are safe for Fetcher no instruction is lost,   *)
(* and each is sent to the memory once and in order, whatever the three    *)
(* predictors say.                                                         *)
(***************************************************************************)
BoomLosesNothing == SafelyPaced => EveryInstructionIsBuffered

(***************************************************************************)
(* With such parameters all instructions reach the memory: the connections *)
(* to the inner components never stay full.                                *)
(***************************************************************************)
BoomDeliversAll == SafelyPaced => <>(Len(delivered) = Instructions)
=============================================================================
