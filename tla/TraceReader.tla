----------------------------- MODULE TraceReader -----------------------------
(***************************************************************************)
(* SinucaTraceReader (src/src/tracer/sinuca/trace_reader.cpp): it replays  *)
(* one dynamic trace file per thread of the traced OpenMP program and      *)
(* keeps the threads in step with each other by means of the events it     *)
(* finds in them.  Fetch returns within a step unless it has to read       *)
(* records; then every record FetchBasicBlock reads is a step, taken while *)
(* reading is the thread it was called for.  There is one caller and one   *)
(* call at a time.                                                         *)
(*                                                                         *)
(* The contents of the trace files are not fixed: a read returns any       *)
(* record that may come next in a trace of an OpenMP program: every        *)
(* critical region is left, no barrier is inside one, and all threads come *)
(* to all barriers.  An abrupt end may cut this short.                     *)
(***************************************************************************)
EXTENDS Integers, Sequences, FiniteSets

CONSTANTS
  TotalThreads,        \* totalThreads
  Block,               \* the basic blocks of the static trace
  BlockSize,           \* basicBlockSizeArr
  MemoryInstruction,   \* the instructions that read or write memory
  NoThread,
  NoInstruction,
  Barriers,            \* the number of barriers every thread comes to
  MaxRecords,          \* the number of records a trace file has at most
  RegionsMeetBarriers, \* may a critical region start while a thread waits?
  DamagedFiles         \* may a file hold anything but what was traced?

Thread == 0 .. TotalThreads - 1

ASSUME ReaderAssumption ==
  /\ TotalThreads \in Nat \ {0}
  /\ BlockSize \in [Block -> Nat \ {0}]
  /\ MemoryInstruction \subseteq Block \X Nat
  /\ NoThread \notin Int
  /\ NoInstruction \notin Block \X Nat
  /\ Barriers \in Nat
  /\ MaxRecords \in Nat
  /\ RegionsMeetBarriers \in BOOLEAN
  /\ DamagedFiles \in BOOLEAN

VARIABLES
  reachedEnd,          \* dynFile.reachedEnd of every thread
  isThreadAwake,
  isInsideBasicBlock,
  currentBasicBlock,
  currentInst,
  criticalCont,        \* static counters of FetchBasicBlock
  barrierCont,
  reachedAbruptEnd,
  fetchFailed,
  reading,             \* the thread FetchBasicBlock is reading records for
  answer,              \* what the last Fetch returned, and put into *ret
  recordsRead,         \* history: the number of records of each thread
  depth,               \* history: how many critical regions a thread is in
  arrived              \* history: how many barriers it came to

fileVars    == <<reachedEnd, recordsRead>>
blockVars   == <<isInsideBasicBlock, currentBasicBlock, currentInst>>
regionVars  == <<criticalCont, depth>>
barrierVars == <<barrierCont, arrived>>
statusVars  == <<reachedAbruptEnd, fetchFailed>>
readerVars  == <<fileVars, blockVars, regionVars, barrierVars, statusVars,
                 isThreadAwake, reading, answer>>

NoAnswer == [tid |-> NoThread, result |-> "none", inst |-> NoInstruction]

Init ==
  /\ reachedEnd = [t \in Thread |-> FALSE]
  /\ isThreadAwake = [t \in Thread |-> TRUE]
  /\ isInsideBasicBlock = [t \in Thread |-> FALSE]
  /\ currentBasicBlock \in {[t \in Thread |-> b] : b \in Block}
  /\ currentInst = [t \in Thread |-> 0]
  /\ criticalCont = 0
  /\ barrierCont = 0
  /\ reachedAbruptEnd = FALSE
  /\ fetchFailed = FALSE
  /\ reading = NoThread
  /\ answer = NoAnswer
  /\ recordsRead = [t \in Thread |-> 0]
  /\ depth = [t \in Thread |-> 0]
  /\ arrived = [t \in Thread |-> 0]

-----------------------------------------------------------------------------
(***************************************************************************)
(* How a Fetch returns.                                                    *)
(***************************************************************************)
Return(tid, result, inst) ==
  /\ answer' = [tid |-> tid, result |-> result, inst |-> inst]
  /\ reading' = NoThread

ReturnNoBlock(tid, failed) ==
  Return(tid, IF failed THEN "Error" ELSE "Nop", NoInstruction)

(***************************************************************************)
(* Instruction i of block b is handed out to tid.  If the memory trace     *)
(* does not have the operations of the instruction, the fetch fails with   *)
(* the packet filled in and the thread still at that instruction.          *)
(*                                                                         *)
(* Slip: the block is left one instruction late.                           *)
(***************************************************************************)
IsLast(b, i) == i + 1 >= BlockSize[b]

IsPastLast(b, i) == i >= BlockSize[b]

LeavesBlock(b, i) == IsLast(b, i)

HandOut(tid, b, i) ==
  /\ \/ /\ Return(tid, "Ok", <<b, i>>)
        /\ currentInst' = [currentInst EXCEPT ![tid] = i + 1]
        /\ isInsideBasicBlock' =
             [isInsideBasicBlock EXCEPT ![tid] = ~LeavesBlock(b, i)]
     \/ /\ DamagedFiles
        /\ <<b, i>> \in MemoryInstruction
        /\ Return(tid, "Error", <<b, i>>)
        /\ currentInst' = [currentInst EXCEPT ![tid] = i]
        /\ isInsideBasicBlock' = [isInsideBasicBlock EXCEPT ![tid] = TRUE]
  /\ currentBasicBlock' = [currentBasicBlock EXCEPT ![tid] = b]
  /\ UNCHANGED <<reachedEnd, regionVars, barrierVars, statusVars, isThreadAwake>>

-----------------------------------------------------------------------------
(***************************************************************************)
(* Fetch: the end of thread 0's file is the end of the execution.          *)
(***************************************************************************)
HasExecutionEnded == reachedAbruptEnd \/ reachedEnd[0]

FetchAfterEnd(tid) ==
  /\ reading = NoThread
  /\ HasExecutionEnded
  /\ Return(tid, "End", NoInstruction)
  /\ UNCHANGED <<fileVars, blockVars, regionVars, barrierVars, statusVars,
                 isThreadAwake>>

FetchNothing(tid) ==
  /\ reading = NoThread
  /\ ~HasExecutionEnded
  /\ reachedEnd[tid] \/ ~isThreadAwake[tid]
  /\ Return(tid, "Nop", NoInstruction)
  /\ UNCHANGED <<fileVars, blockVars, regionVars, barrierVars, statusVars,
                 isThreadAwake>>

CanExecute(tid) ==
  /\ reading = NoThread
  /\ ~HasExecutionEnded
  /\ ~reachedEnd[tid]
  /\ isThreadAwake[tid]

FetchInBlock(tid) ==
  /\ CanExecute(tid)
  /\ isInsideBasicBlock[tid]
  /\ HandOut(tid, currentBasicBlock[tid], currentInst[tid])
  /\ UNCHANGED recordsRead

EnterFetchBasicBlock(tid) ==
  /\ CanExecute(tid)
  /\ ~isInsideBasicBlock[tid]
  /\ currentInst' = [currentInst EXCEPT ![tid] = 0]
  /\ reading' = tid
  /\ answer' = NoAnswer
  /\ UNCHANGED <<fileVars, isInsideBasicBlock, currentBasicBlock, regionVars,
                 barrierVars, statusVars, isThreadAwake>>

Fetch(tid) ==
  \/ FetchAfterEnd(tid)
  \/ FetchNothing(tid)
  \/ FetchInBlock(tid)
  \/ EnterFetchBasicBlock(tid)

-----------------------------------------------------------------------------
(***************************************************************************)
(* FetchBasicBlock: ReadDynamicRecord finds a record, or the end of file.  *)
(* The records left must suffice to leave the critical regions and to come *)
(* to the barriers that are still ahead: more is by how many records this  *)
(* one raises what the thread still owes.                                  *)
(***************************************************************************)
Owed(tid) == depth[tid] + (Barriers - arrived[tid])

ReadRecord(tid, more) ==
  /\ reading = tid
  /\ recordsRead[tid] + Owed(tid) + more < MaxRecords
  /\ recordsRead' = [recordsRead EXCEPT ![tid] = @ + 1]

KeepReading == UNCHANGED <<reachedEnd, blockVars, reading, answer>>

ReadsEndOfFile(tid) ==
  /\ reading = tid
  /\ Owed(tid) = 0
  /\ reachedEnd' = [reachedEnd EXCEPT ![tid] = TRUE]
  /\ ReturnNoBlock(tid, fetchFailed)
  /\ UNCHANGED <<recordsRead, blockVars, regionVars, barrierVars, statusVars,
                 isThreadAwake>>

ReadsAbruptEnd(tid) ==
  /\ ReadRecord(tid, 0)
  /\ reachedAbruptEnd' = TRUE
  /\ ReturnNoBlock(tid, fetchFailed)
  /\ UNCHANGED <<reachedEnd, blockVars, regionVars, barrierVars, fetchFailed,
                 isThreadAwake>>

ReadsCriticalStart(tid) ==
  /\ ReadRecord(tid, 1)
  /\ RegionsMeetBarriers \/ \A t, u \in Thread : arrived[t] = arrived[u]
  /\ depth' = [depth EXCEPT ![tid] = @ + 1]
  /\ criticalCont' = criticalCont + 1
  /\ isThreadAwake' = [t \in Thread |-> t = tid /\ isThreadAwake[t]]
  /\ KeepReading
  /\ UNCHANGED <<barrierVars, statusVars>>

(***************************************************************************)
(* The threads that are awake after a critical region was left with count  *)
(* still open.  Waking everybody at the end of an inner region is the slip *)
(* the checks detect.                                                      *)
(***************************************************************************)
AwakeAfterAnyRegion(count) == [t \in Thread |-> TRUE]

AwakeAfterRegion(count) ==
  IF count = 0 THEN [t \in Thread |-> TRUE] ELSE isThreadAwake

ReadsCriticalEnd(tid) ==
  /\ depth[tid] > 0
  /\ ReadRecord(tid, -1)
  /\ depth' = [depth EXCEPT ![tid] = @ - 1]
  /\ criticalCont' = criticalCont - 1
  /\ isThreadAwake' = AwakeAfterRegion(criticalCont')
  /\ fetchFailed' = (fetchFailed \/ criticalCont' < 0)
  /\ KeepReading
  /\ UNCHANGED <<barrierVars, reachedAbruptEnd>>

(***************************************************************************)
(* A barrier is complete when all threads are at it.  Two slips: a         *)
(* comparison that is content with one thread less, and one that waits for *)
(* a thread more.                                                          *)
(***************************************************************************)
AllButOneArrived(count) == count + 1 >= TotalThreads

MoreThanAllArrived(count) == count > TotalThreads

BarrierComplete(count) == count = TotalThreads

ReadsLastBarrierSync(tid) ==
  /\ depth[tid] = 0
  /\ arrived[tid] < Barriers
  /\ ReadRecord(tid, -1)
  /\ BarrierComplete(barrierCont + 1)
  /\ arrived' = [arrived EXCEPT ![tid] = @ + 1]
  /\ barrierCont' = 0
  /\ isThreadAwake' = [t \in Thread |-> TRUE]
  /\ KeepReading
  /\ UNCHANGED <<regionVars, statusVars>>

ReadsBarrierSync(tid) ==
  /\ depth[tid] = 0
  /\ arrived[tid] < Barriers
  /\ ReadRecord(tid, -1)
  /\ ~BarrierComplete(barrierCont + 1)
  /\ arrived' = [arrived EXCEPT ![tid] = @ + 1]
  /\ barrierCont' = barrierCont + 1
  /\ isThreadAwake' = [isThreadAwake EXCEPT ![tid] = FALSE]
  /\ ReturnNoBlock(tid, fetchFailed)
  /\ UNCHANGED <<reachedEnd, blockVars, regionVars, statusVars>>

(***************************************************************************)
(* Damaged files: an unknown event ends the call but is not a failure, any *)
(* other unknown record is.  (A read that fails counts as the end of the   *)
(* file, so that the failure for it in FetchBasicBlock never happens.)     *)
(***************************************************************************)
ReadsUnknownEvent(tid) ==
  /\ DamagedFiles
  /\ ReadRecord(tid, 0)
  /\ ReturnNoBlock(tid, fetchFailed)
  /\ UNCHANGED <<reachedEnd, blockVars, regionVars, barrierVars, statusVars,
                 isThreadAwake>>

ReadsUnknownRecord(tid) ==
  /\ DamagedFiles
  /\ ReadRecord(tid, 0)
  /\ fetchFailed' = TRUE
  /\ ReturnNoBlock(tid, TRUE)
  /\ UNCHANGED <<reachedEnd, blockVars, regionVars, barrierVars,
                 reachedAbruptEnd, isThreadAwake>>

ReadsBasicBlock(tid, b) ==
  /\ ReadRecord(tid, 0)
  /\ HandOut(tid, b, currentInst[tid])

FetchBasicBlock(tid) ==
  \/ ReadsEndOfFile(tid)
  \/ ReadsAbruptEnd(tid)
  \/ ReadsCriticalStart(tid)
  \/ ReadsCriticalEnd(tid)
  \/ ReadsLastBarrierSync(tid)
  \/ ReadsBarrierSync(tid)
  \/ ReadsUnknownEvent(tid)
  \/ ReadsUnknownRecord(tid)
  \/ \E b \in Block : ReadsBasicBlock(tid, b)

Next == \E tid \in Thread : Fetch(tid) \/ FetchBasicBlock(tid)

Spec == Init /\ [][Next]_readerVars

-----------------------------------------------------------------------------
(***************************************************************************)
(* Type invariant, with what holds between the calls: a thread whose       *)
(* records are read is awake, between two blocks and before its end of     *)
(* file, and the barrier counter never runs past the number of threads,    *)
(* which the reader compares it with by ==.                                *)
(***************************************************************************)
ReaderInvariant ==
  /\ reachedEnd \in [Thread -> BOOLEAN]
  /\ isThreadAwake \in [Thread -> BOOLEAN]
  /\ isInsideBasicBlock \in [Thread -> BOOLEAN]
  /\ currentBasicBlock \in [Thread -> Block]
  /\ currentInst \in [Thread -> Nat]
  /\ criticalCont \in Nat
  /\ barrierCont \in 0 .. TotalThreads - 1
  /\ reachedAbruptEnd \in BOOLEAN
  /\ fetchFailed \in BOOLEAN
  /\ reading \in Thread \cup {NoThread}
  /\ answer.result \in {"none", "Ok", "Nop", "End", "Error"}
  /\ recordsRead \in [Thread -> 0 .. MaxRecords]
  /\ depth \in [Thread -> Nat]
  /\ arrived \in [Thread -> Nat]
  /\ \A t \in Thread :
       /\ isInsideBasicBlock[t] => currentInst[t] < BlockSize[currentBasicBlock[t]]
       /\ reading = t => /\ isThreadAwake[t]
                         /\ ~isInsideBasicBlock[t]
                         /\ ~reachedEnd[t]
                         /\ currentInst[t] = 0

(***************************************************************************)
(* Critical regions exclude each other: while a thread is in one, nested   *)
(* or not, no other thread is in one, none is awake, and no barrier is     *)
(* completed that would wake them.                                         *)
(***************************************************************************)
MutualExclusion ==
  \A t \in Thread : depth[t] > 0 =>
    /\ criticalCont = depth[t]
    /\ isThreadAwake[t]
    /\ \A u \in Thread \ {t} : depth[u] = 0 /\ ~isThreadAwake[u]

(***************************************************************************)
(* No thread executes an instruction behind a barrier before every thread  *)
(* came to that barrier ("Threads reached barrier sync. Waking up all      *)
(* threads!", trace_reader.cpp:277).                                       *)
(***************************************************************************)
BarriersHold ==
  answer.result = "Ok" =>
    \A t \in Thread : arrived[t] >= arrived[answer.tid]

(***************************************************************************)
(* The rest of the block every thread is in.                               *)
(***************************************************************************)
Rest(b, i) == [n \in 1 .. BlockSize[b] - i |-> <<b, i + n - 1>>]

Due == [t \in Thread |->
          IF isInsideBasicBlock[t] THEN Rest(currentBasicBlock[t], currentInst[t])
                                   ELSE <<>>]

(***************************************************************************)
(* Every thread replays whole basic blocks, in order and without gaps,     *)
(* whatever puts it to sleep in between: trace_reader.cpp implements the   *)
(* specification Replay.                                                   *)
(***************************************************************************)
Replayed == INSTANCE Replay WITH due <- Due

ReplaysBlocks == Replayed!Spec
=============================================================================
