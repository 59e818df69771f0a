------------------------------- MODULE Engine -------------------------------
(***************************************************************************)
(* The Engine (src/src/engine/engine.cpp) as the component that answers    *)
(* the fetch requests of the cores with the instructions of the trace, on  *)
(* top of the trace reader: SetupSimulation, the cycles of Simulate, and   *)
(* Clock, which serves one request of every connection in a cycle.  Every  *)
(* core replays the thread with the number of its connection.              *)
(*                                                                         *)
(* What a core asks for in a cycle is left open; requests and responses    *)
(* travel as SynchronousCycle describes, so that the requests served in a  *)
(* cycle are those of the cycle before, and the responses of a cycle are   *)
(* gone at its end.  The counters that are only printed (totalCycles,      *)
(* fetchedInstructions, traceSize) are left out.                           *)
(***************************************************************************)
EXTENDS TraceReader

CONSTANTS
  NumberOfFetchers,   \* the connections to the engine
  InstSize,           \* instSize of every instruction
  Requests,           \* the amounts of bytes a core asks for
  ResponseSize        \* the size of the response buffers, 0: unbounded

Core == 0 .. NumberOfFetchers - 1

ASSUME EngineAssumption ==
  /\ NumberOfFetchers \in 1 .. TotalThreads
  /\ Requests \subseteq Nat
  /\ ResponseSize \in Nat

VARIABLES
  stage,         \* "setup", "clock", "fetch"; then "stopped" or "failed"
  core,          \* the connection the current loop is at
  calling,       \* is the engine inside TraceReader::Fetch?
  request,       \* the request Engine::Fetch serves
  weight,        \* its local variable
  fetchBuffers,
  responses,     \* the packets sent to every core in this cycle
  end, error,
  lastSent,      \* history: the last packet made for every core
  fresh          \* history: was the buffered instruction never sent?

loopVars    == <<stage, core, request, weight>>
packetVars  == <<fetchBuffers, responses, lastSent, fresh>>
engineVars  == <<loopVars, packetVars, calling, end, error>>
engineAll   == <<readerVars, engineVars>>

NoPacket == [inst |-> NoInstruction, nextInstruction |-> NoInstruction]

EngineInit ==
  /\ Init
  /\ stage = "setup"
  /\ core = 0
  /\ calling = FALSE
  /\ request = 0
  /\ weight = 0
  /\ fetchBuffers = [c \in Core |-> NoInstruction]
  /\ responses = [c \in Core |-> <<>>]
  /\ end = FALSE
  /\ error = FALSE
  /\ lastSent = [c \in Core |-> NoPacket]
  /\ fresh = [c \in Core |-> FALSE]

-----------------------------------------------------------------------------
(***************************************************************************)
(* The call of the trace reader, its execution, and its return.            *)
(***************************************************************************)
CallFetch ==
  /\ ~calling
  /\ Fetch(core)
  /\ calling' = TRUE
  /\ UNCHANGED <<loopVars, packetVars, end, error>>

ReaderStep ==
  /\ calling
  /\ FetchBasicBlock(core)
  /\ UNCHANGED engineVars

Returned ==
  /\ calling
  /\ reading = NoThread
  /\ calling' = FALSE
  /\ UNCHANGED readerVars

(***************************************************************************)
(* Fetch writes to the buffer of the core it was called for, or leaves the *)
(* instruction there that the buffer held before.                          *)
(***************************************************************************)
Buffered == IF answer.inst # NoInstruction THEN answer.inst ELSE fetchBuffers[core]

BufferTheFetched ==
  /\ fetchBuffers' = [fetchBuffers EXCEPT ![core] = Buffered]
  /\ fresh' = [fresh EXCEPT ![core] = answer.result = "Ok"]

NextCore == core' = core + 1 /\ stage' = "clock"

-----------------------------------------------------------------------------
(***************************************************************************)
(* SetupSimulation buffers the first instruction of each core and gives up *)
(* when one of the threads does not have one right now.  Giving up on an   *)
(* error only is the slip the checks detect.                               *)
(***************************************************************************)
IsError(result) == result = "Error"

IsNotOk(result) == result # "Ok"

GivesUp(result) == IsNotOk(result)

SetupCall ==
  /\ stage = "setup"
  /\ CallFetch

SetupReturns ==
  /\ stage = "setup"
  /\ Returned
  /\ BufferTheFetched
  /\ IF GivesUp(answer.result)
       THEN stage' = "failed" /\ UNCHANGED core
     ELSE IF core + 1 = NumberOfFetchers
       THEN stage' = "clock" /\ core' = 0
       ELSE core' = core + 1 /\ UNCHANGED stage
  /\ UNCHANGED <<request, weight, responses, end, error, lastSent>>

-----------------------------------------------------------------------------
(***************************************************************************)
(* Clock: one request at most is received from every connection.           *)
(***************************************************************************)
SizeOf(inst) == InstSize[inst]

ReceivesNothing ==
  /\ stage = "clock"
  /\ core \in Core
  /\ NextCore
  /\ UNCHANGED <<readerVars, packetVars, calling, request, weight, end, error>>

(***************************************************************************)
(* Fetch: with 0 one instruction, otherwise the buffered instructions as   *)
(* long as their weight is below the request.                              *)
(***************************************************************************)
Receives(r) ==
  /\ stage = "clock"
  /\ core \in Core
  /\ request' = r
  /\ weight' = SizeOf(fetchBuffers[core])
  /\ IF r = 0 \/ weight' < r
       THEN stage' = "fetch" /\ UNCHANGED core
       ELSE NextCore
  /\ UNCHANGED <<readerVars, packetVars, calling, end, error>>

ClockCall ==
  /\ stage = "fetch"
  /\ CallFetch

(***************************************************************************)
(* SendBufferedAndFetch, after the reader returned: the packet made of the *)
(* old contents of the buffer and of the address of the new ones is sent,  *)
(* and dropped if the response buffer is full.  Taking the address from    *)
(* the old contents is a slip the checks detect.                           *)
(***************************************************************************)
OwnAddress(c) == fetchBuffers[c]

AddressOfBuffered(c) == Buffered

ToSend == [inst |-> fetchBuffers[core], nextInstruction |-> AddressOfBuffered(core)]

SendResponse ==
  /\ lastSent' = [lastSent EXCEPT ![core] = ToSend]
  /\ responses' = IF ResponseSize = 0 \/ Len(responses[core]) < ResponseSize
                    THEN [responses EXCEPT ![core] = Append(@, ToSend)]
                    ELSE responses

(***************************************************************************)
(* The weight of the loop after the next instruction was buffered; the     *)
(* slip is to forget it.                                                   *)
(***************************************************************************)
SameWeight(inst) == weight

WeightWith(inst) == weight + SizeOf(inst)

ClockReturns ==
  /\ stage = "fetch"
  /\ Returned
  /\ SendResponse
  /\ BufferTheFetched
  /\ end' = (end \/ answer.result = "End")
  /\ error' = (error \/ answer.result = "Error")
  /\ UNCHANGED request
  /\ IF answer.result \in {"End", "Error"} \/ request = 0
       THEN NextCore /\ UNCHANGED weight
       ELSE /\ weight' = WeightWith(Buffered)
            /\ IF weight' < request THEN UNCHANGED <<stage, core>> ELSE NextCore

(***************************************************************************)
(* The rest of the cycle: the responses are handed over, and Simulate      *)
(* looks at end and error before it starts another one.                    *)
(***************************************************************************)
EndOfCycle ==
  /\ stage = "clock"
  /\ core = NumberOfFetchers
  /\ core' = 0
  /\ stage' = IF end \/ error THEN "stopped" ELSE "clock"
  /\ responses' = [c \in Core |-> <<>>]
  /\ UNCHANGED <<readerVars, fetchBuffers, lastSent, fresh, calling, request,
                 weight, end, error>>

Stopped ==
  /\ stage \in {"stopped", "failed"}
  /\ UNCHANGED engineAll

EngineStep ==
  \/ SetupCall
  \/ SetupReturns
  \/ ReaderStep
  \/ ReceivesNothing
  \/ \E r \in Requests : Receives(r)
  \/ ClockCall
  \/ ClockReturns
  \/ EndOfCycle

EngineNext == EngineStep \/ Stopped

EngineSpec == EngineInit /\ [][EngineNext]_engineAll

(***************************************************************************)
(* The program keeps running, and every core asks for a single instruction *)
(* again and again (SimpleCore does so in every cycle).                    *)
(***************************************************************************)
FairSpec ==
  /\ EngineSpec
  /\ WF_engineAll(EngineStep)
  /\ \A c \in Core : SF_engineAll(core = c /\ Receives(0))

-----------------------------------------------------------------------------
(***************************************************************************)
(* Type invariant, with what SendBufferedAndFetch relies on: the buffer of *)
(* a core that is served holds an instruction.                             *)
(***************************************************************************)
EngineInvariant ==
  /\ ReaderInvariant
  /\ stage \in {"setup", "clock", "fetch", "stopped", "failed"}
  /\ core \in 0 .. NumberOfFetchers
  /\ stage \in {"setup", "fetch"} => core \in Core
  /\ calling \in BOOLEAN
  /\ reading # NoThread => calling /\ reading = core
  /\ stage \notin {"setup", "failed"} =>
       \A c \in Core : fetchBuffers[c] # NoInstruction

(***************************************************************************)
(* The nextInstruction of a packet is the instruction of the next packet   *)
(* made for that core, whatever the reader answered in between.  The       *)
(* fetchers detect mispredictions by comparing with it.                    *)
(***************************************************************************)
NextInstructionIsNext ==
  [][ \A c \in Core :
        lastSent'[c] # lastSent[c] /\ lastSent[c] # NoPacket =>
          lastSent'[c].inst = lastSent[c].nextInstruction ]_engineAll

(***************************************************************************)
(* A core that never asks for more bytes than it has response slots never  *)
(* loses an instruction: a fetch that overwrites the buffered one has put  *)
(* it into the response buffer.  (The warning "INSTRUCTION DROP DETECTED", *)
(* engine.cpp:146, is never due.)                                          *)
(***************************************************************************)
NoInstructionIsDropped ==
  [][ stage = "fetch" /\ calling /\ ~calling' =>
        responses'[core] = Append(responses[core], lastSent'[core]) ]_engineAll

(***************************************************************************)
(* An instruction is sent to its core once: a fetch that is "No operation" *)
(* (trace_reader.hpp:32) does not send anything new, and nothing old.      *)
(***************************************************************************)
SentOnce ==
  [][ \A c \in Core :
        Len(responses'[c]) > Len(responses[c]) => fresh[c] ]_engineAll

(***************************************************************************)
(* Simulate returns: the threads never wait for each other forever.        *)
(***************************************************************************)
SimulateReturns == <>(stage \in {"stopped", "failed"})
=============================================================================
