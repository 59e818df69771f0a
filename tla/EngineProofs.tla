---------------------------- MODULE EngineProofs ----------------------------
(***************************************************************************)
(* The trace reader keeps its state consistent, its critical regions       *)
(* exclusive and its barriers closed for every number of threads, every    *)
(* program and all trace files.  The engine drives it as its specification *)
(* allows, so that this holds of the engine, and hands every instruction   *)
(* to its core with the right successor.                                   *)
(***************************************************************************)
EXTENDS Engine, FiniteSetTheorems, SequenceTheorems, TLAPS

(***************************************************************************)
(* What makes the type invariant and MutualExclusion inductive: without a  *)
(* critical region the counter is 0, and nobody comes to more barriers     *)
(* than there are.                                                         *)
(***************************************************************************)
RegionsCounted == (\A t \in Thread : depth[t] = 0) => criticalCont = 0

ReaderInductive ==
  /\ ReaderInvariant
  /\ MutualExclusion
  /\ RegionsCounted
  /\ arrived \in [Thread -> 0 .. Barriers]

(***************************************************************************)
(* The thread that is being read for is not disturbed by another thread's  *)
(* critical region: when it is not in one itself, nobody is.               *)
(***************************************************************************)
LEMMA ReaderIsAlone ==
  ASSUME ReaderInductive, NEW tid \in Thread, reading = tid
  PROVE  /\ isThreadAwake[tid]
         /\ criticalCont = depth[tid]
         /\ \A u \in Thread \ {tid} : depth[u] = 0
<1>1. depth \in [Thread -> Nat]
  BY DEF ReaderInductive, ReaderInvariant
<1>2. isThreadAwake[tid]
  BY DEF ReaderInductive, ReaderInvariant
<1>3. \A u \in Thread \ {tid} : depth[u] = 0
  BY <1>1, <1>2 DEF ReaderInductive, MutualExclusion
<1>4. CASE depth[tid] > 0
  BY <1>2, <1>3, <1>4 DEF ReaderInductive, MutualExclusion
<1>5. CASE depth[tid] = 0
  BY <1>2, <1>3, <1>5 DEF ReaderInductive, RegionsCounted
<1> QED BY <1>1, <1>4, <1>5

(***************************************************************************)
(* No file has more records than the bound: what the thread owes is never  *)
(* negative.                                                               *)
(***************************************************************************)
LEMMA RecordsBounded ==
  ASSUME ReaderInductive, NEW tid \in Thread, NEW more \in -1 .. 1,
         ReadRecord(tid, more),
         more = -1 => depth[tid] > 0 \/ arrived[tid] < Barriers
  PROVE  recordsRead' \in [Thread -> 0 .. MaxRecords]
<1>1. recordsRead \in [Thread -> 0 .. MaxRecords]
  BY DEF ReaderInductive, ReaderInvariant
<1>2. depth[tid] \in Nat /\ arrived[tid] \in 0 .. Barriers
  BY DEF ReaderInductive, ReaderInvariant
<1>3. Owed(tid) + more >= 0
  BY <1>2, ReaderAssumption DEF Owed
<1>4. recordsRead[tid] + 1 \in 0 .. MaxRecords
  BY <1>1, <1>2, <1>3, ReaderAssumption DEF ReadRecord, Owed
<1> QED BY <1>1, <1>4 DEF ReadRecord

(***************************************************************************)
(* Changing a truth value of a function.                                   *)
(***************************************************************************)
LEMMA ChangeFlag ==
  ASSUME NEW S, NEW f \in [S -> BOOLEAN], NEW x \in S, NEW v \in BOOLEAN,
         NEW g, g = [f EXCEPT ![x] = v]
  PROVE  /\ g \in [S -> BOOLEAN]
         /\ g[x] = v
         /\ \A y \in S \ {x} : g[y] = f[y]
  OBVIOUS

(***************************************************************************)
(* Handing out an instruction of a block keeps the invariant, and the      *)
(* thread inside the block if there are more.                              *)
(***************************************************************************)
LEMMA HandOutKeeps ==
  ASSUME ReaderInductive, NEW tid \in Thread, NEW b \in Block, NEW i \in Nat,
         HandOut(tid, b, i), i < BlockSize[b],
         recordsRead' \in [Thread -> 0 .. MaxRecords]
  PROVE  ReaderInductive'
<1> USE ReaderAssumption DEF ReaderInductive
<1>0. NoThread \notin Thread
  BY DEF Thread
<1>1. /\ currentBasicBlock' = [currentBasicBlock EXCEPT ![tid] = b]
      /\ reading' = NoThread
      /\ UNCHANGED <<reachedEnd, regionVars, barrierVars, statusVars, isThreadAwake>>
  BY DEF HandOut, Return
<1>2. /\ answer'.result \in {"Ok", "Error"}
      /\ \/ /\ currentInst' = [currentInst EXCEPT ![tid] = i + 1]
            /\ isInsideBasicBlock' =
                 [isInsideBasicBlock EXCEPT ![tid] = i + 1 < BlockSize[b]]
         \/ /\ currentInst' = [currentInst EXCEPT ![tid] = i]
            /\ isInsideBasicBlock' = [isInsideBasicBlock EXCEPT ![tid] = TRUE]
  BY DEF HandOut, Return, LeavesBlock, IsLast
<1>3. PICK more \in BOOLEAN :
        /\ isInsideBasicBlock' = [isInsideBasicBlock EXCEPT ![tid] = more]
        /\ more => currentInst'[tid] < BlockSize[b]
  <2>1. currentInst \in [Thread -> Nat]
    BY DEF ReaderInvariant
  <2>2. CASE /\ currentInst' = [currentInst EXCEPT ![tid] = i + 1]
             /\ isInsideBasicBlock' =
                  [isInsideBasicBlock EXCEPT ![tid] = i + 1 < BlockSize[b]]
    <3>1. currentInst'[tid] = i + 1
      BY <2>1, <2>2
    <3>2. /\ isInsideBasicBlock' =
               [isInsideBasicBlock EXCEPT ![tid] = i + 1 < BlockSize[b]]
          /\ i + 1 < BlockSize[b] => currentInst'[tid] < BlockSize[b]
      BY <2>2, <3>1
    <3> WITNESS (i + 1 < BlockSize[b]) \in BOOLEAN
    <3> QED BY ONLY <3>2
  <2>3. CASE /\ currentInst' = [currentInst EXCEPT ![tid] = i]
             /\ isInsideBasicBlock' = [isInsideBasicBlock EXCEPT ![tid] = TRUE]
    <3>1. currentInst'[tid] = i
      BY <2>1, <2>3
    <3> QED BY <2>3, <3>1
  <2> QED BY <1>2, <2>2, <2>3
<1>i. /\ isInsideBasicBlock' \in [Thread -> BOOLEAN]
      /\ isInsideBasicBlock'[tid] = more
      /\ \A t \in Thread \ {tid} : isInsideBasicBlock'[t] = isInsideBasicBlock[t]
  <2>1. isInsideBasicBlock \in [Thread -> BOOLEAN]
    BY DEF ReaderInvariant
  <2> QED BY <1>3, <2>1, ChangeFlag
<1>c. /\ currentInst' \in [Thread -> Nat]
      /\ currentBasicBlock' \in [Thread -> Block]
      /\ currentBasicBlock'[tid] = b
      /\ \A t \in Thread \ {tid} : /\ currentInst'[t] = currentInst[t]
                                  /\ currentBasicBlock'[t] = currentBasicBlock[t]
  BY <1>1, <1>2 DEF ReaderInvariant
<1>4. \A t \in Thread : isInsideBasicBlock'[t] =>
        currentInst'[t] < BlockSize[currentBasicBlock'[t]]
  <2> TAKE t \in Thread
  <2>1. CASE t = tid
    BY <1>3, <1>i, <1>c, <2>1
  <2>2. CASE t # tid
    BY <1>i, <1>c, <2>2 DEF ReaderInvariant
  <2> QED BY <2>1, <2>2
<1>5. ReaderInvariant'
  BY <1>0, <1>1, <1>2, <1>i, <1>c, <1>4 DEF ReaderInvariant, regionVars, barrierVars, statusVars
<1>6. MutualExclusion' /\ RegionsCounted'
  BY <1>1 DEF MutualExclusion, RegionsCounted, regionVars
<1> QED BY <1>1, <1>5, <1>6 DEF barrierVars

(***************************************************************************)
(* A Fetch that returns at once, or that enters FetchBasicBlock.           *)
(***************************************************************************)
LEMMA FetchKeeps ==
  ASSUME ReaderInductive, NEW tid \in Thread, Fetch(tid)
  PROVE  ReaderInductive'
<1> USE ReaderAssumption DEF ReaderInductive
<1>0. NoThread \notin Thread
  BY DEF Thread
<1>1. CASE FetchAfterEnd(tid)
  BY <1>0, <1>1 DEF FetchAfterEnd, Return, ReaderInvariant, MutualExclusion,
     RegionsCounted, fileVars, blockVars, regionVars, barrierVars, statusVars
<1>2. CASE FetchNothing(tid)
  BY <1>0, <1>2 DEF FetchNothing, Return, ReaderInvariant, MutualExclusion,
     RegionsCounted, fileVars, blockVars, regionVars, barrierVars, statusVars
<1>3. CASE FetchInBlock(tid)
  <2>1. /\ currentBasicBlock[tid] \in Block
        /\ currentInst[tid] \in Nat
        /\ currentInst[tid] < BlockSize[currentBasicBlock[tid]]
    BY <1>3 DEF FetchInBlock, ReaderInvariant
  <2>2. recordsRead' \in [Thread -> 0 .. MaxRecords]
    BY <1>3 DEF FetchInBlock, ReaderInvariant
  <2>3. HandOut(tid, currentBasicBlock[tid], currentInst[tid])
    BY <1>3 DEF FetchInBlock
  <2> QED BY <2>1, <2>2, <2>3, HandOutKeeps
<1>4. CASE EnterFetchBasicBlock(tid)
  <2>1. ReaderInvariant'
    BY <1>0, <1>4 DEF EnterFetchBasicBlock, CanExecute, NoAnswer, ReaderInvariant,
       fileVars, regionVars, barrierVars, statusVars
  <2> QED BY <1>4, <2>1 DEF EnterFetchBasicBlock, MutualExclusion, RegionsCounted,
          fileVars, regionVars, barrierVars
<1> QED BY <1>1, <1>2, <1>3, <1>4 DEF Fetch

(***************************************************************************)
(* Records that touch neither the critical regions nor the barriers.       *)
(***************************************************************************)
LEMMA PlainRecordKeeps ==
  ASSUME ReaderInductive, NEW tid \in Thread,
         \/ ReadsEndOfFile(tid) \/ ReadsAbruptEnd(tid)
         \/ ReadsUnknownEvent(tid) \/ ReadsUnknownRecord(tid)
         \/ \E b \in Block : ReadsBasicBlock(tid, b)
  PROVE  ReaderInductive'
<1> USE ReaderAssumption DEF ReaderInductive
<1>0. NoThread \notin Thread
  BY DEF Thread
<1>1. CASE ReadsEndOfFile(tid)
  BY <1>0, <1>1 DEF ReadsEndOfFile, ReturnNoBlock, Return, ReaderInvariant,
     MutualExclusion, RegionsCounted, blockVars, regionVars, barrierVars, statusVars
<1>2. CASE ReadsAbruptEnd(tid)
  <2>1. recordsRead' \in [Thread -> 0 .. MaxRecords]
    BY <1>2, RecordsBounded DEF ReadsAbruptEnd
  <2> QED BY <1>0, <1>2, <2>1 DEF ReadsAbruptEnd, ReturnNoBlock, Return, ReaderInvariant,
          MutualExclusion, RegionsCounted, blockVars, regionVars, barrierVars
<1>3. CASE ReadsUnknownEvent(tid)
  <2>1. recordsRead' \in [Thread -> 0 .. MaxRecords]
    BY <1>3, RecordsBounded DEF ReadsUnknownEvent
  <2> QED BY <1>0, <1>3, <2>1 DEF ReadsUnknownEvent, ReturnNoBlock, Return,
          ReaderInvariant, MutualExclusion, RegionsCounted, blockVars, regionVars,
          barrierVars, statusVars
<1>4. CASE ReadsUnknownRecord(tid)
  <2>1. recordsRead' \in [Thread -> 0 .. MaxRecords]
    BY <1>4, RecordsBounded DEF ReadsUnknownRecord
  <2> QED BY <1>0, <1>4, <2>1 DEF ReadsUnknownRecord, ReturnNoBlock, Return,
          ReaderInvariant, MutualExclusion, RegionsCounted, blockVars, regionVars,
          barrierVars
<1>5. CASE \E b \in Block : ReadsBasicBlock(tid, b)
  <2>1. PICK b \in Block : ReadsBasicBlock(tid, b)
    BY <1>5
  <2>2. recordsRead' \in [Thread -> 0 .. MaxRecords]
    BY <2>1, RecordsBounded DEF ReadsBasicBlock
  <2>3. currentInst[tid] = 0 /\ 0 < BlockSize[b]
    BY <2>1 DEF ReadsBasicBlock, ReadRecord, ReaderInvariant
  <2> QED BY <2>1, <2>2, <2>3, HandOutKeeps DEF ReadsBasicBlock
<1> QED BY <1>1, <1>2, <1>3, <1>4, <1>5

(***************************************************************************)
(* The begin and the end of a critical region.  The reader's thread is the *)
(* only one that can be in a region, so that the counter is its depth.     *)
(***************************************************************************)
LEMMA CriticalStartKeeps ==
  ASSUME ReaderInductive, NEW tid \in Thread, ReadsCriticalStart(tid)
  PROVE  ReaderInductive'
<1> USE ReaderAssumption
<1>0. NoThread \notin Thread
  BY DEF Thread
<1>1. /\ reading = tid
      /\ depth' = [depth EXCEPT ![tid] = depth[tid] + 1]
      /\ criticalCont' = criticalCont + 1
      /\ isThreadAwake' = [t \in Thread |-> t = tid /\ isThreadAwake[t]]
      /\ KeepReading
      /\ UNCHANGED <<barrierVars, statusVars>>
  BY DEF ReadsCriticalStart, ReadRecord
<1>2. /\ isThreadAwake[tid]
      /\ criticalCont = depth[tid]
      /\ \A u \in Thread \ {tid} : depth[u] = 0
  BY <1>1, ReaderIsAlone
<1>3. recordsRead' \in [Thread -> 0 .. MaxRecords]
  BY RecordsBounded DEF ReadsCriticalStart
<1>4. /\ depth \in [Thread -> Nat]
      /\ isThreadAwake \in [Thread -> BOOLEAN]
  BY DEF ReaderInductive, ReaderInvariant
<1>d. /\ depth' \in [Thread -> Nat]
      /\ depth'[tid] = depth[tid] + 1
      /\ \A u \in Thread \ {tid} : depth'[u] = 0
  BY <1>1, <1>2, <1>4
<1>a. /\ isThreadAwake' \in [Thread -> BOOLEAN]
      /\ isThreadAwake'[tid]
      /\ \A u \in Thread \ {tid} : ~isThreadAwake'[u]
  BY <1>1, <1>2, <1>4
<1>c. criticalCont' = depth'[tid]
  BY <1>1, <1>2, <1>d
<1>5. ReaderInvariant'
  BY <1>0, <1>1, <1>3, <1>4, <1>d, <1>a, <1>c DEF KeepReading, ReaderInductive,
     ReaderInvariant, blockVars, barrierVars, statusVars
<1>6. MutualExclusion'
  BY <1>d, <1>a, <1>c DEF MutualExclusion
<1>7. RegionsCounted'
  BY <1>4, <1>d DEF RegionsCounted
<1> QED BY <1>1, <1>5, <1>6, <1>7 DEF ReaderInductive, barrierVars

LEMMA CriticalEndKeeps ==
  ASSUME ReaderInductive, NEW tid \in Thread, ReadsCriticalEnd(tid)
  PROVE  ReaderInductive'
<1> USE ReaderAssumption
<1>0. NoThread \notin Thread
  BY DEF Thread
<1>1. /\ reading = tid
      /\ depth[tid] > 0
      /\ depth' = [depth EXCEPT ![tid] = depth[tid] - 1]
      /\ criticalCont' = criticalCont - 1
      /\ isThreadAwake' = IF criticalCont' = 0 THEN [t \in Thread |-> TRUE]
                                               ELSE isThreadAwake
      /\ fetchFailed' = (fetchFailed \/ criticalCont' < 0)
      /\ KeepReading
      /\ UNCHANGED <<barrierVars, reachedAbruptEnd>>
  BY DEF ReadsCriticalEnd, ReadRecord, AwakeAfterRegion
<1>2. /\ isThreadAwake[tid]
      /\ criticalCont = depth[tid]
      /\ \A u \in Thread \ {tid} : depth[u] = 0
  BY <1>1, ReaderIsAlone
<1>3. recordsRead' \in [Thread -> 0 .. MaxRecords]
  BY <1>1, RecordsBounded DEF ReadsCriticalEnd
<1>4. /\ depth \in [Thread -> Nat]
      /\ isThreadAwake \in [Thread -> BOOLEAN]
  BY DEF ReaderInductive, ReaderInvariant
<1>d. /\ depth' \in [Thread -> Nat]
      /\ depth'[tid] = depth[tid] - 1
      /\ \A u \in Thread \ {tid} : depth'[u] = 0
  BY <1>1, <1>2, <1>4
<1>a. /\ isThreadAwake' \in [Thread -> BOOLEAN]
      /\ isThreadAwake'[tid]
      /\ depth'[tid] > 0 => \A u \in Thread \ {tid} : ~isThreadAwake'[u]
  <2>1. depth'[tid] > 0 => criticalCont' # 0
    BY <1>1, <1>2, <1>4, <1>d
  <2>2. \A u \in Thread \ {tid} : ~isThreadAwake[u]
    BY <1>1 DEF ReaderInductive, MutualExclusion
  <2> QED BY <1>1, <1>2, <1>4, <2>1, <2>2
<1>c. criticalCont' = depth'[tid]
  BY <1>1, <1>2, <1>4, <1>d
<1>f. fetchFailed' \in BOOLEAN
  BY <1>1
<1>5. ReaderInvariant'
  BY <1>0, <1>1, <1>3, <1>4, <1>d, <1>a, <1>c, <1>f DEF KeepReading, ReaderInductive,
     ReaderInvariant, blockVars, barrierVars
<1>6. MutualExclusion'
  BY <1>d, <1>a, <1>c DEF MutualExclusion
<1>7. RegionsCounted'
  BY <1>4, <1>d, <1>c DEF RegionsCounted
<1> QED BY <1>1, <1>5, <1>6, <1>7 DEF ReaderInductive, barrierVars

(***************************************************************************)
(* A thread that comes to a barrier is awake and in no critical region, so *)
(* that nobody is in one.                                                  *)
(***************************************************************************)
LEMMA BarrierKeeps ==
  ASSUME ReaderInductive, NEW tid \in Thread,
         ReadsLastBarrierSync(tid) \/ ReadsBarrierSync(tid)
  PROVE  ReaderInductive'
<1> USE ReaderAssumption
<1>0. NoThread \notin Thread
  BY DEF Thread
<1>1. /\ reading = tid
      /\ depth[tid] = 0
      /\ arrived[tid] < Barriers
      /\ arrived' = [arrived EXCEPT ![tid] = arrived[tid] + 1]
      /\ UNCHANGED <<reachedEnd, blockVars, regionVars, statusVars>>
  BY DEF ReadsLastBarrierSync, ReadsBarrierSync, ReadRecord, KeepReading
<1>2. \A u \in Thread : depth'[u] = 0
  BY <1>1, ReaderIsAlone DEF regionVars
<1>3. recordsRead' \in [Thread -> 0 .. MaxRecords]
  BY <1>1, RecordsBounded DEF ReadsLastBarrierSync, ReadsBarrierSync
<1>4. arrived' \in [Thread -> 0 .. Barriers]
  BY <1>1 DEF ReaderInductive
<1>5. /\ isThreadAwake' \in [Thread -> BOOLEAN]
      /\ barrierCont' \in 0 .. TotalThreads - 1
      /\ answer'.result \in {"none", "Ok", "Nop", "End", "Error"}
      /\ \/ reading' = NoThread
         \/ reading' = tid /\ isThreadAwake'[tid]
  <2>1. CASE ReadsLastBarrierSync(tid)
    BY <1>1, <2>1 DEF ReadsLastBarrierSync, KeepReading, ReaderInductive, ReaderInvariant
  <2>2. CASE ReadsBarrierSync(tid)
    <3>1. isThreadAwake \in [Thread -> BOOLEAN] /\ FALSE \in BOOLEAN
      BY DEF ReaderInductive, ReaderInvariant
    <3>2. isThreadAwake' \in [Thread -> BOOLEAN]
      BY <2>2, <3>1, ChangeFlag DEF ReadsBarrierSync
    <3>3. barrierCont' \in 0 .. TotalThreads - 1
      BY <2>2 DEF ReadsBarrierSync, BarrierComplete, ReaderInductive, ReaderInvariant
    <3> QED BY <2>2, <3>2, <3>3 DEF ReadsBarrierSync, ReturnNoBlock, Return
  <2> QED BY <2>1, <2>2
<1>6. ReaderInvariant'
  <2>1. arrived' \in [Thread -> Nat]
    BY <1>4
  <2> QED BY <1>0, <1>1, <1>3, <1>5, <2>1 DEF ReaderInductive, ReaderInvariant,
          blockVars, regionVars, statusVars
<1>7. MutualExclusion'
  BY <1>2 DEF MutualExclusion
<1>8. RegionsCounted'
  BY <1>1, <1>2 DEF RegionsCounted, ReaderInductive, regionVars
<1> QED BY <1>4, <1>6, <1>7, <1>8 DEF ReaderInductive

(***************************************************************************)
(* The invariant holds initially and after every step.                     *)
(***************************************************************************)
LEMMA ReaderStarts == Init => ReaderInductive
<1> SUFFICES ASSUME Init PROVE ReaderInductive
  OBVIOUS
<1>1. PICK b \in Block : currentBasicBlock = [t \in Thread |-> b]
  BY DEF Init
<1>2. NoThread \notin Thread
  BY ReaderAssumption DEF Thread
<1>3. 0 \in 0 .. TotalThreads - 1 /\ 0 \in 0 .. MaxRecords /\ 0 \in 0 .. Barriers
  BY ReaderAssumption
<1>4. ReaderInvariant
  BY <1>1, <1>2, <1>3 DEF Init, NoAnswer, ReaderInvariant
<1> QED BY <1>3, <1>4 DEF Init, ReaderInductive, MutualExclusion, RegionsCounted

LEMMA ReaderStepKeeps == ReaderInductive /\ [Next]_readerVars => ReaderInductive'
<1> SUFFICES ASSUME ReaderInductive, [Next]_readerVars PROVE ReaderInductive'
  OBVIOUS
<1>1. CASE UNCHANGED readerVars
  BY <1>1 DEF readerVars, fileVars, blockVars, regionVars, barrierVars, statusVars,
     ReaderInductive, ReaderInvariant, MutualExclusion, RegionsCounted
<1>2. CASE Next
  <2>1. PICK tid \in Thread : Fetch(tid) \/ FetchBasicBlock(tid)
    BY <1>2 DEF Next
  <2> QED BY <2>1, FetchKeeps, PlainRecordKeeps, CriticalStartKeeps, CriticalEndKeeps,
          BarrierKeeps DEF FetchBasicBlock
<1> QED BY <1>1, <1>2

(***************************************************************************)
(* For every number of threads and all trace files the state of the reader *)
(* is consistent: threads that are read for are awake and between blocks,  *)
(* instruction indices stay within their block, and neither counter runs   *)
(* out of its range.                                                       *)
(***************************************************************************)
THEOREM ReaderIsConsistent == Spec => []ReaderInvariant
<1>1. ReaderInductive => ReaderInvariant
  BY DEF ReaderInductive
<1> QED BY <1>1, ReaderStarts, ReaderStepKeeps, PTL DEF Spec

(***************************************************************************)
(* For every number of threads and all trace files a thread in a critical  *)
(* region is alone, even when critical regions meet barriers.              *)
(***************************************************************************)
THEOREM RegionsExclude == Spec => []MutualExclusion
<1>1. ReaderInductive => MutualExclusion
  BY DEF ReaderInductive
<1> QED BY <1>1, ReaderStarts, ReaderStepKeeps, PTL DEF Spec

-----------------------------------------------------------------------------
(***************************************************************************)
(* The barriers.  The threads that came to one barrier more than some      *)
(* other thread wait for it: they are asleep, barrierCont counts them, and *)
(* while a critical region is open there are none.                         *)
(***************************************************************************)
Waiting == {t \in Thread : \E u \in Thread : arrived[u] < arrived[t]}

BarrierInductive ==
  /\ \A t, u \in Thread : arrived[t] <= arrived[u] + 1
  /\ barrierCont = Cardinality(Waiting)
  /\ \A t \in Waiting : ~isThreadAwake[t]
  /\ (\E t \in Thread : depth[t] > 0) => Waiting = {}
  /\ answer.result = "Ok" => /\ reading = NoThread
                             /\ answer.tid \in Thread \ Waiting

LEMMA ThreadsAreFinite ==
  /\ IsFiniteSet(Thread)
  /\ Cardinality(Thread) = TotalThreads
<1>1. 0 \in Int /\ TotalThreads - 1 \in Int /\ TotalThreads > 0
  BY ReaderAssumption
<1>2. IsFiniteSet(0 .. TotalThreads - 1)
  BY <1>1, FS_Interval
<1>3. Cardinality(0 .. TotalThreads - 1) =
        IF 0 > TotalThreads - 1 THEN 0 ELSE (TotalThreads - 1) - 0 + 1
  BY <1>1, FS_Interval
<1>4. Cardinality(0 .. TotalThreads - 1) = TotalThreads
  BY <1>3, ReaderAssumption
<1> QED BY <1>2, <1>4 DEF Thread

(***************************************************************************)
(* Steps that leave the barriers alone, and put nobody who waits at one    *)
(* back to work.                                                           *)
(***************************************************************************)
LEMMA BarriersUntouched ==
  ASSUME ReaderInductive, BarrierInductive,
         UNCHANGED barrierVars,
         \A t \in Thread : ~isThreadAwake[t] => ~isThreadAwake'[t] \/ Waiting = {},
         (\E t \in Thread : depth'[t] > 0) => Waiting = {},
         answer'.result = "Ok" => /\ reading' = NoThread
                                  /\ answer'.tid \in Thread \ Waiting
  PROVE  BarrierInductive'
<1>1. Waiting' = Waiting
  BY DEF Waiting, barrierVars
<1>2. \A t \in Waiting : t \in Thread
  BY DEF Waiting
<1> QED BY <1>1, <1>2 DEF BarrierInductive, barrierVars

LEMMA HandOutKeepsBarriers ==
  ASSUME ReaderInductive, BarrierInductive, NEW tid \in Thread, NEW b, NEW i,
         HandOut(tid, b, i), isThreadAwake[tid]
  PROVE  BarrierInductive'
<1>1. tid \notin Waiting
  BY DEF BarrierInductive
<1>2. reading' = NoThread /\ answer'.tid = tid
  BY DEF HandOut, Return
<1>3. UNCHANGED <<barrierVars, depth, isThreadAwake>>
  BY DEF HandOut, regionVars
<1>4. (\E t \in Thread : depth[t] > 0) => Waiting = {}
  BY DEF BarrierInductive
<1> QED BY <1>1, <1>2, <1>3, <1>4, BarriersUntouched

(***************************************************************************)
(* A barrier record of one thread.                                         *)
(***************************************************************************)
LEMMA ArrivalKeepsBarriers ==
  ASSUME ReaderInductive, BarrierInductive, NEW tid \in Thread,
         ReadsLastBarrierSync(tid) \/ ReadsBarrierSync(tid)
  PROVE  BarrierInductive'
<1>1. /\ reading = tid
      /\ arrived' = [arrived EXCEPT ![tid] = arrived[tid] + 1]
  BY DEF ReadsLastBarrierSync, ReadsBarrierSync, ReadRecord
<1>2. /\ arrived \in [Thread -> Nat]
      /\ arrived'[tid] = arrived[tid] + 1
      /\ \A u \in Thread \ {tid} : arrived'[u] = arrived[u]
  BY <1>1 DEF ReaderInductive, ReaderInvariant
<1>3. tid \notin Waiting
  BY <1>1, ReaderIsAlone DEF BarrierInductive
<1>4. \A u \in Thread : arrived[u] \in {arrived[tid], arrived[tid] + 1}
  <2> TAKE u \in Thread
  <2>1. arrived[tid] <= arrived[u]
    BY <1>2, <1>3 DEF Waiting
  <2> QED BY <1>2, <2>1 DEF BarrierInductive
<1>5. \A u \in Thread : u \in Waiting <=> arrived[u] = arrived[tid] + 1
  BY <1>2, <1>4 DEF Waiting
<1>6. \A u \in Thread : depth'[u] = 0
  <2>1. depth[tid] = 0 /\ depth' = depth
    BY DEF ReadsLastBarrierSync, ReadsBarrierSync, regionVars
  <2> QED BY <1>1, <2>1, ReaderIsAlone
<1>7. answer'.result # "Ok"
  <2>1. reading # NoThread
    BY <1>1, ReaderAssumption DEF Thread
  <2> QED BY <2>1 DEF BarrierInductive, ReadsLastBarrierSync, ReadsBarrierSync, KeepReading,
          ReturnNoBlock, Return
<1>8. Cardinality(Waiting \cup {tid}) = barrierCont + 1
  <2>1. IsFiniteSet(Waiting)
    BY ThreadsAreFinite, FS_Subset DEF Waiting
  <2>2. Cardinality(Waiting \cup {tid}) = Cardinality(Waiting) + 1
    BY <1>3, <2>1, FS_AddElement
  <2> QED BY <2>2 DEF BarrierInductive
<1>9. Waiting \cup {tid} \subseteq Thread
  BY DEF Waiting
<1>10. CASE ReadsLastBarrierSync(tid)
  <2>1. Cardinality(Waiting \cup {tid}) = TotalThreads
    BY <1>8, <1>10 DEF ReadsLastBarrierSync, BarrierComplete
  <2>2. Waiting \cup {tid} = Thread
    BY <1>9, <2>1, ThreadsAreFinite, FS_Subset
  <2>3. \A u \in Thread : arrived'[u] = arrived[tid] + 1
    BY <1>2, <1>5, <2>2
  <2>4. Waiting' = {}
    BY <1>2, <2>3 DEF Waiting
  <2>5. barrierCont' = 0
    BY <1>10 DEF ReadsLastBarrierSync
  <2>6. \A t, u \in Thread : arrived'[t] <= arrived'[u] + 1
    BY <1>2, <2>3
  <2>7. Cardinality({}) = 0
    BY FS_EmptySet
  <2> QED BY <1>7, <2>4, <2>5, <2>6, <2>7 DEF BarrierInductive
<1>11. CASE ReadsBarrierSync(tid)
  <2>1. Cardinality(Waiting \cup {tid}) # TotalThreads
    BY <1>8, <1>11 DEF ReadsBarrierSync, BarrierComplete
  <2>2. PICK w \in Thread : w \notin Waiting \cup {tid}
    BY <1>9, <2>1, ThreadsAreFinite
  <2>3. arrived'[w] = arrived[tid]
    BY <1>2, <1>4, <1>5, <2>2
  <2>4. \A u \in Thread : arrived'[u] \in {arrived[tid], arrived[tid] + 1}
    BY <1>2, <1>4
  <2>5. Waiting' = Waiting \cup {tid}
    <3>1. \A u \in Thread : u \in Waiting' <=> arrived'[u] = arrived[tid] + 1
      BY <1>2, <2>3, <2>4 DEF Waiting
    <3>2. \A u \in Thread : arrived'[u] = arrived[tid] + 1 <=> u \in Waiting \cup {tid}
      BY <1>2, <1>5
    <3>3. \A u \in Waiting' : u \in Thread
      BY DEF Waiting
    <3> QED BY <1>9, <3>1, <3>2, <3>3
  <2>6. \A t, u \in Thread : arrived'[t] <= arrived'[u] + 1
    BY <1>2, <2>4
  <2>7. barrierCont' = Cardinality(Waiting')
    BY <1>8, <1>11, <2>5 DEF ReadsBarrierSync
  <2>8. \A t \in Waiting' : ~isThreadAwake'[t]
    <3>1. isThreadAwake' = [isThreadAwake EXCEPT ![tid] = FALSE]
      BY <1>11 DEF ReadsBarrierSync
    <3>2. isThreadAwake \in [Thread -> BOOLEAN]
      BY DEF ReaderInductive, ReaderInvariant
    <3> QED BY <1>9, <2>5, <3>1, <3>2 DEF BarrierInductive
  <2> QED BY <1>6, <1>7, <2>6, <2>7, <2>8 DEF BarrierInductive
<1> QED BY <1>10, <1>11

(***************************************************************************)
(* A critical region.  It starts only when nobody waits (the hypothesis),  *)
(* so that waking everybody at its end puts nobody past a barrier.         *)
(***************************************************************************)
LEMMA RegionKeepsBarriers ==
  ASSUME ~RegionsMeetBarriers, ReaderInductive, BarrierInductive, NEW tid \in Thread,
         ReadsCriticalStart(tid) \/ ReadsCriticalEnd(tid)
  PROVE  BarrierInductive'
<1>1. /\ reading = tid
      /\ answer' = answer
      /\ UNCHANGED barrierVars
  BY DEF ReadsCriticalStart, ReadsCriticalEnd, ReadRecord, KeepReading
<1>2. Waiting = {}
  <2>1. CASE ReadsCriticalStart(tid)
    <3>1. \A t, u \in Thread : arrived[t] = arrived[u]
      BY <2>1 DEF ReadsCriticalStart
    <3>2. arrived \in [Thread -> Nat]
      BY DEF ReaderInductive, ReaderInvariant
    <3> QED BY <3>1, <3>2 DEF Waiting
  <2>2. CASE ReadsCriticalEnd(tid)
    BY <2>2 DEF ReadsCriticalEnd, BarrierInductive
  <2> QED BY <2>1, <2>2
<1>3. answer'.result # "Ok"
  <2>1. reading # NoThread
    BY <1>1, ReaderAssumption DEF Thread
  <2> QED BY <1>1, <2>1 DEF BarrierInductive
<1> QED BY <1>1, <1>2, <1>3, BarriersUntouched

LEMMA BarrierStepKeeps ==
  ASSUME ~RegionsMeetBarriers, ReaderInductive, BarrierInductive, [Next]_readerVars
  PROVE  BarrierInductive'
<1>0. (\E t \in Thread : depth[t] > 0) => Waiting = {}
  BY DEF BarrierInductive
<1>1. CASE UNCHANGED readerVars
  BY <1>1 DEF readerVars, fileVars, barrierVars, regionVars, BarrierInductive, Waiting
<1>2. CASE Next
  <2>1. PICK tid \in Thread : Fetch(tid) \/ FetchBasicBlock(tid)
    BY <1>2 DEF Next
  <2>2. CASE FetchAfterEnd(tid) \/ FetchNothing(tid) \/ EnterFetchBasicBlock(tid)
    <3>1. /\ UNCHANGED <<barrierVars, depth, isThreadAwake>>
          /\ answer'.result # "Ok"
      BY <2>2 DEF FetchAfterEnd, FetchNothing, EnterFetchBasicBlock, Return, NoAnswer,
         regionVars
    <3> QED BY <1>0, <3>1, BarriersUntouched
  <2>3. CASE FetchInBlock(tid)
    BY <2>3, HandOutKeepsBarriers DEF FetchInBlock, CanExecute
  <2>4. CASE \/ ReadsEndOfFile(tid) \/ ReadsAbruptEnd(tid)
             \/ ReadsUnknownEvent(tid) \/ ReadsUnknownRecord(tid)
    <3>1. /\ UNCHANGED <<barrierVars, depth, isThreadAwake>>
          /\ answer'.result # "Ok"
      BY <2>4 DEF ReadsEndOfFile, ReadsAbruptEnd, ReadsUnknownEvent, ReadsUnknownRecord,
         ReturnNoBlock, Return, regionVars
    <3> QED BY <1>0, <3>1, BarriersUntouched
  <2>5. CASE \E b \in Block : ReadsBasicBlock(tid, b)
    <3>1. PICK b \in Block : ReadsBasicBlock(tid, b)
      BY <2>5
    <3>2. isThreadAwake[tid]
      BY <3>1 DEF ReadsBasicBlock, ReadRecord, ReaderInductive, ReaderInvariant
    <3> QED BY <3>1, <3>2, HandOutKeepsBarriers DEF ReadsBasicBlock
  <2> QED BY <2>1, <2>2, <2>3, <2>4, <2>5, RegionKeepsBarriers, ArrivalKeepsBarriers
          DEF Fetch, FetchBasicBlock
<1> QED BY <1>1, <1>2

LEMMA BarriersStart == Init => BarrierInductive
<1> SUFFICES ASSUME Init PROVE BarrierInductive
  OBVIOUS
<1>1. Waiting = {}
  BY DEF Init, Waiting
<1> QED BY <1>1, FS_EmptySet DEF Init, NoAnswer, BarrierInductive

(***************************************************************************)
(* In a program without a critical region that can run while a thread      *)
(* waits at a barrier, no thread executes an instruction behind a barrier  *)
(* that some thread did not come to, for every number of threads and       *)
(* barriers and all trace files, damaged ones included.                    *)
(***************************************************************************)
THEOREM BarriersAreBarriers ==
  ASSUME ~RegionsMeetBarriers
  PROVE  Spec => []BarriersHold
<1>1. ReaderInductive /\ BarrierInductive => BarriersHold
  <2> SUFFICES ASSUME ReaderInductive, BarrierInductive, answer.result = "Ok",
                      NEW t \in Thread
               PROVE  arrived[t] >= arrived[answer.tid]
    BY DEF BarriersHold
  <2>1. arrived \in [Thread -> Nat]
    BY DEF ReaderInductive, ReaderInvariant
  <2> QED BY <2>1 DEF BarrierInductive, Waiting
<1>2. ReaderInductive /\ BarrierInductive /\ [Next]_readerVars => BarrierInductive'
  BY BarrierStepKeeps
<1> QED BY <1>1, <1>2, ReaderStarts, ReaderStepKeeps, BarriersStart, PTL DEF Spec

-----------------------------------------------------------------------------
(***************************************************************************)
(* The refinement of Replay.  The rest of a block, one instruction less at *)
(* a time.                                                                 *)
(***************************************************************************)
LEMMA RestIsSequence ==
  ASSUME NEW b \in Block, NEW i \in Nat, i < BlockSize[b]
  PROVE  /\ Rest(b, i) # <<>>
         /\ Head(Rest(b, i)) = <<b, i>>
         /\ Tail(Rest(b, i)) = IF i + 1 < BlockSize[b] THEN Rest(b, i + 1) ELSE <<>>
<1> DEFINE len == BlockSize[b] - i
           f(n) == <<b, i + n - 1>>
<1>1. BlockSize[b] \in Nat
  BY ReaderAssumption
<1>2. len \in Nat \ {0}
  BY <1>1
<1>3. Rest(b, i) = [n \in 1 .. len |-> f(n)]
  BY DEF Rest
<1> HIDE DEF len
<1>4. Rest(b, i) \in Seq(Block \X Int) /\ Len(Rest(b, i)) = len
  <2>1. \A n \in 1 .. len : f(n) \in Block \X Int
    BY <1>2
  <2>2. Rest(b, i) \in [1 .. len -> Block \X Int]
    BY <1>3, <2>1
  <2> QED BY <1>2, <2>2
<1>5. Rest(b, i)[1] = <<b, i>>
  BY <1>2, <1>3
<1>6. Rest(b, i) # <<>> /\ Head(Rest(b, i)) = <<b, i>>
  BY <1>2, <1>4, <1>5
<1>7. Tail(Rest(b, i)) = [n \in 1 .. len - 1 |-> f(n + 1)]
  BY <1>2, <1>3, <1>4
<1>8. \A n \in 1 .. len - 1 : f(n + 1) = <<b, (i + 1) + n - 1>>
  BY <1>2
<1>9. Tail(Rest(b, i)) = Rest(b, i + 1)
  <2>1. len - 1 = BlockSize[b] - (i + 1)
    BY <1>1 DEF len
  <2>2. Rest(b, i + 1) = [n \in 1 .. len - 1 |-> <<b, (i + 1) + n - 1>>]
    BY <2>1 DEF Rest
  <2> QED BY <1>7, <1>8, <2>2
<1>10. i + 1 >= BlockSize[b] => Rest(b, i + 1) = <<>>
  BY <1>1 DEF Rest
<1> QED BY <1>1, <1>6, <1>9, <1>10

(***************************************************************************)
(* Handing out instruction i of block b is a step of Replay, if it is the  *)
(* next one of the block the thread is in, or the first one of any block.  *)
(***************************************************************************)
LEMMA HandOutReplays ==
  ASSUME ReaderInductive, NEW tid \in Thread, NEW b \in Block, NEW i \in Nat,
         HandOut(tid, b, i), i < BlockSize[b],
         isInsideBasicBlock[tid] => b = currentBasicBlock[tid] /\ i = currentInst[tid],
         ~isInsideBasicBlock[tid] => i = 0
  PROVE  Replayed!HandOut(tid) \/ Replayed!Fail(tid)
<1>1. Rest(b, i) \in Replayed!Continuations(tid)
  <2>1. CASE isInsideBasicBlock[tid]
    BY <2>1, RestIsSequence DEF Replayed!Continuations, Due
  <2>2. CASE ~isInsideBasicBlock[tid]
    <3>1. Due[tid] = <<>> /\ Rest(b, 0) = Replayed!From(b, 0)
      BY <2>2 DEF Due, Rest, Replayed!From
    <3> QED BY <2>2, <3>1 DEF Replayed!Continuations
  <2> QED BY <2>1, <2>2
<1>t. /\ currentInst \in [Thread -> Nat]
      /\ isInsideBasicBlock \in [Thread -> BOOLEAN]
      /\ currentBasicBlock \in [Thread -> Block]
  BY DEF ReaderInductive, ReaderInvariant
<1>b. currentBasicBlock' = [currentBasicBlock EXCEPT ![tid] = b]
  BY DEF HandOut
<1>2. \A rest : /\ \A u \in Thread \ {tid} : Due'[u] = Due[u]
                /\ Due'[tid] = rest
               => Due' = [Due EXCEPT ![tid] = rest]
  BY DEF Due
<1>3. CASE /\ Return(tid, "Ok", <<b, i>>)
           /\ currentInst' = [currentInst EXCEPT ![tid] = i + 1]
           /\ isInsideBasicBlock' =
                [isInsideBasicBlock EXCEPT ![tid] = ~LeavesBlock(b, i)]
  <2>1. ~LeavesBlock(b, i) <=> i + 1 < BlockSize[b]
    BY ReaderAssumption DEF LeavesBlock, IsLast
  <2>2. (~LeavesBlock(b, i)) \in BOOLEAN
    BY DEF LeavesBlock, IsLast
  <2>3. /\ isInsideBasicBlock'[tid] = ~LeavesBlock(b, i)
        /\ \A u \in Thread \ {tid} : isInsideBasicBlock'[u] = isInsideBasicBlock[u]
    BY <1>t, <1>3, <2>2, ChangeFlag
  <2>4. \A u \in Thread \ {tid} : Due'[u] = Due[u]
    BY <1>t, <1>b, <1>3, <2>3 DEF Due
  <2>5. Due'[tid] = IF i + 1 < BlockSize[b] THEN Rest(b, i + 1) ELSE <<>>
    BY <1>t, <1>b, <1>3, <2>1, <2>3 DEF Due
  <2>6. Due'[tid] = Tail(Rest(b, i))
    BY <2>5, RestIsSequence
  <2>7. Due' = [Due EXCEPT ![tid] = Tail(Rest(b, i))]
    BY <1>2, <2>4, <2>6
  <2>8. answer' = [tid |-> tid, result |-> "Ok", inst |-> Head(Rest(b, i))]
    BY <1>3, RestIsSequence DEF Return
  <2> QED BY <1>1, <2>7, <2>8 DEF Replayed!HandOut
<1>4. CASE /\ Return(tid, "Error", <<b, i>>)
           /\ currentInst' = [currentInst EXCEPT ![tid] = i]
           /\ isInsideBasicBlock' = [isInsideBasicBlock EXCEPT ![tid] = TRUE]
  <2>1. /\ isInsideBasicBlock'[tid]
        /\ \A u \in Thread \ {tid} : isInsideBasicBlock'[u] = isInsideBasicBlock[u]
    BY <1>t, <1>4
  <2>2. \A u \in Thread \ {tid} : Due'[u] = Due[u]
    BY <1>t, <1>b, <1>4, <2>1 DEF Due
  <2>3. Due'[tid] = Rest(b, i)
    BY <1>t, <1>b, <1>4, <2>1 DEF Due
  <2>4. Due' = [Due EXCEPT ![tid] = Rest(b, i)]
    BY <1>2, <2>2, <2>3
  <2>5. answer' = [tid |-> tid, result |-> "Error", inst |-> Head(Rest(b, i))]
    BY <1>4, RestIsSequence DEF Return
  <2> QED BY <1>1, <2>4, <2>5 DEF Replayed!Fail
<1> QED BY <1>3, <1>4 DEF HandOut

(***************************************************************************)
(* Every step of the reader is a step of Replay, or invisible to it.       *)
(***************************************************************************)
LEMMA StepReplays ==
  ASSUME ReaderInductive, [Next]_readerVars
  PROVE  [Replayed!Next]_(Replayed!replayVars)
<1> SUFFICES Replayed!Next \/ (Due' = Due /\ answer' = answer)
  BY DEF Replayed!replayVars
<1>0. UNCHANGED blockVars => Due' = Due
  BY DEF blockVars, Due, Rest
<1>1. CASE UNCHANGED readerVars
  BY <1>0, <1>1 DEF readerVars
<1>2. CASE Next
  <2>1. PICK tid \in Thread : Fetch(tid) \/ FetchBasicBlock(tid)
    BY <1>2 DEF Next
  <2>2. CASE \/ FetchAfterEnd(tid) \/ FetchNothing(tid)
             \/ ReadsEndOfFile(tid) \/ ReadsAbruptEnd(tid) \/ ReadsBarrierSync(tid)
             \/ ReadsUnknownEvent(tid) \/ ReadsUnknownRecord(tid)
    <3>1. /\ UNCHANGED blockVars
          /\ \E result \in {"End", "Nop", "Error"} : Return(tid, result, NoInstruction)
      BY <2>2 DEF FetchAfterEnd, FetchNothing, ReadsEndOfFile, ReadsAbruptEnd,
         ReadsBarrierSync, ReadsUnknownEvent, ReadsUnknownRecord, ReturnNoBlock
    <3>2. \E result \in {"End", "Nop", "Error"} : Replayed!Decline(tid, result)
      BY <1>0, <3>1 DEF Replayed!Decline, Return
    <3> QED BY <3>2 DEF Replayed!Next
  <2>3. CASE \/ ReadsCriticalStart(tid) \/ ReadsCriticalEnd(tid)
             \/ ReadsLastBarrierSync(tid)
    BY <1>0, <2>3 DEF ReadsCriticalStart, ReadsCriticalEnd, ReadsLastBarrierSync,
       KeepReading
  <2>4. CASE EnterFetchBasicBlock(tid)
    <3>1. /\ ~isInsideBasicBlock[tid]
          /\ currentInst' = [currentInst EXCEPT ![tid] = 0]
          /\ UNCHANGED <<isInsideBasicBlock, currentBasicBlock>>
          /\ answer' = NoAnswer
      BY <2>4 DEF EnterFetchBasicBlock
    <3>2. currentInst \in [Thread -> Nat]
      BY DEF ReaderInductive, ReaderInvariant
    <3>3. Due' = Due
      BY <3>1, <3>2 DEF Due
    <3> QED BY <3>1, <3>3 DEF Replayed!Next, Replayed!Begin, Replayed!NoAnswer, NoAnswer
  <2>5. CASE FetchInBlock(tid)
    <3>1. /\ currentBasicBlock[tid] \in Block
          /\ currentInst[tid] \in Nat
          /\ currentInst[tid] < BlockSize[currentBasicBlock[tid]]
          /\ isInsideBasicBlock[tid]
          /\ HandOut(tid, currentBasicBlock[tid], currentInst[tid])
      BY <2>5 DEF FetchInBlock, ReaderInductive, ReaderInvariant
    <3>2. Replayed!HandOut(tid) \/ Replayed!Fail(tid)
      BY <3>1, HandOutReplays
    <3> QED BY <3>2 DEF Replayed!Next
  <2>6. CASE \E b \in Block : ReadsBasicBlock(tid, b)
    <3>1. PICK b \in Block : ReadsBasicBlock(tid, b)
      BY <2>6
    <3>2. /\ ~isInsideBasicBlock[tid]
          /\ currentInst[tid] = 0
          /\ 0 < BlockSize[b]
          /\ HandOut(tid, b, 0)
      BY <3>1, ReaderAssumption DEF ReadsBasicBlock, ReadRecord, ReaderInductive,
         ReaderInvariant
    <3>3. Replayed!HandOut(tid) \/ Replayed!Fail(tid)
      BY <3>2, HandOutReplays
    <3> QED BY <3>3 DEF Replayed!Next
  <2> QED BY <2>1, <2>2, <2>3, <2>4, <2>5, <2>6 DEF Fetch, FetchBasicBlock
<1> QED BY <1>1, <1>2

(***************************************************************************)
(* For every program and all trace files, every thread replays whole basic *)
(* blocks, instruction by instruction, whatever happens to the others.     *)
(***************************************************************************)
THEOREM ReaderReplays == Spec => ReplaysBlocks
<1>1. Init => Replayed!Init
  BY DEF Init, Replayed!Init, Replayed!NoAnswer, NoAnswer, Due
<1>2. ReaderInductive /\ [Next]_readerVars => [Replayed!Next]_(Replayed!replayVars)
  BY StepReplays
<1> QED BY <1>1, <1>2, ReaderStarts, ReaderStepKeeps, PTL DEF Spec, ReplaysBlocks,
        Replayed!Spec
-----------------------------------------------------------------------------
(***************************************************************************)
(* The engine.  What it relies on: an answer that is "Ok" has an           *)
(* instruction of a block, the buffers of the cores are filled one after   *)
(* the other by SetupSimulation and stay filled, and what a packet says    *)
(* comes next is what is in the buffer.                                    *)
(***************************************************************************)
Instruction == {x \in Block \X Nat : x[2] < BlockSize[x[1]]}

AnswerInductive ==
  /\ answer.inst \in Instruction \cup {NoInstruction}
  /\ answer.result = "Ok" => answer.inst \in Instruction

LoopInductive ==
  /\ stage \in {"setup", "clock", "fetch", "stopped", "failed"}
  /\ core \in 0 .. NumberOfFetchers
  /\ stage \in {"setup", "fetch"} => core \in Core
  /\ calling \in BOOLEAN
  /\ calling => stage \in {"setup", "fetch"}
  /\ reading # NoThread => calling /\ reading = core

PacketsInductive ==
  /\ fetchBuffers \in [Core -> Instruction \cup {NoInstruction}]
  /\ stage = "setup" => \A c \in Core : c < core => fetchBuffers[c] \in Instruction
  /\ stage \notin {"setup", "failed"} => \A c \in Core : fetchBuffers[c] \in Instruction
  /\ lastSent = [c \in Core |-> lastSent[c]]
  /\ stage = "setup" => \A c \in Core : lastSent[c] = NoPacket
  /\ \A c \in Core : lastSent[c] # NoPacket => lastSent[c].nextInstruction = fetchBuffers[c]

EngineInductive ==
  ReaderInductive /\ AnswerInductive /\ LoopInductive /\ PacketsInductive

(***************************************************************************)
(* Every core has a thread of its number, and no instruction is the token  *)
(* for none.                                                               *)
(***************************************************************************)
LEMMA CoresAreThreads ==
  /\ Core \subseteq Thread
  /\ NoInstruction \notin Instruction
  /\ NumberOfFetchers \in Nat /\ NumberOfFetchers >= 1
  /\ \A c \in Core : c # NoThread
  BY ReaderAssumption, EngineAssumption DEF Core, Thread, Instruction

(***************************************************************************)
(* What the reader answers: an instruction, if it hands one out.           *)
(***************************************************************************)
LEMMA HandOutAnswers ==
  ASSUME NEW tid, NEW b \in Block, NEW i \in Nat, i < BlockSize[b], HandOut(tid, b, i)
  PROVE  AnswerInductive'
<1>1. <<b, i>> \in Instruction
  BY DEF Instruction
<1>2. answer'.inst = <<b, i>>
  BY DEF HandOut, Return
<1> QED BY <1>1, <1>2 DEF AnswerInductive

LEMMA ReaderAnswers ==
  ASSUME ReaderInductive, AnswerInductive, NEW tid \in Thread,
         Fetch(tid) \/ FetchBasicBlock(tid)
  PROVE  AnswerInductive'
<1>1. CASE \/ FetchAfterEnd(tid) \/ FetchNothing(tid) \/ EnterFetchBasicBlock(tid)
           \/ ReadsEndOfFile(tid) \/ ReadsAbruptEnd(tid) \/ ReadsBarrierSync(tid)
           \/ ReadsUnknownEvent(tid) \/ ReadsUnknownRecord(tid)
  <2>1. answer'.inst = NoInstruction /\ answer'.result # "Ok"
    BY <1>1 DEF FetchAfterEnd, FetchNothing, EnterFetchBasicBlock, NoAnswer,
       ReadsEndOfFile, ReadsAbruptEnd, ReadsBarrierSync, ReadsUnknownEvent,
       ReadsUnknownRecord, ReturnNoBlock, Return
  <2> QED BY <2>1 DEF AnswerInductive
<1>2. CASE ReadsCriticalStart(tid) \/ ReadsCriticalEnd(tid) \/ ReadsLastBarrierSync(tid)
  BY <1>2 DEF ReadsCriticalStart, ReadsCriticalEnd, ReadsLastBarrierSync, KeepReading,
     AnswerInductive
<1>3. CASE FetchInBlock(tid)
  <2>1. /\ currentBasicBlock[tid] \in Block
        /\ currentInst[tid] \in Nat
        /\ currentInst[tid] < BlockSize[currentBasicBlock[tid]]
    BY <1>3 DEF FetchInBlock, ReaderInductive, ReaderInvariant
  <2> QED BY <1>3, <2>1, HandOutAnswers DEF FetchInBlock
<1>4. CASE \E b \in Block : ReadsBasicBlock(tid, b)
  <2>1. PICK b \in Block : ReadsBasicBlock(tid, b)
    BY <1>4
  <2>2. currentInst[tid] = 0 /\ 0 < BlockSize[b]
    BY <2>1, ReaderAssumption DEF ReadsBasicBlock, ReadRecord, ReaderInductive, ReaderInvariant
  <2> QED BY <2>1, <2>2, HandOutAnswers DEF ReadsBasicBlock
<1> QED BY <1>1, <1>2, <1>3, <1>4 DEF Fetch, FetchBasicBlock

(***************************************************************************)
(* A call of the reader reads for the core that calls, or returns at once. *)
(***************************************************************************)
LEMMA FetchReads ==
  ASSUME NEW tid, Fetch(tid)
  PROVE  reading = NoThread /\ reading' \in {NoThread, tid}
  BY DEF Fetch, FetchAfterEnd, FetchNothing, FetchInBlock, EnterFetchBasicBlock, CanExecute,
     HandOut, Return

LEMMA FetchBasicBlockReads ==
  ASSUME NEW tid, FetchBasicBlock(tid)
  PROVE  reading = tid /\ reading' \in {NoThread, tid}
  BY DEF FetchBasicBlock, ReadsEndOfFile, ReadsAbruptEnd, ReadsCriticalStart, ReadsCriticalEnd,
     ReadsLastBarrierSync, ReadsBarrierSync, ReadsUnknownEvent, ReadsUnknownRecord,
     ReadsBasicBlock, ReadRecord, KeepReading, HandOut, ReturnNoBlock, Return

LEMMA ReaderCallKeeps ==
  ASSUME EngineInductive, NEW tid \in Thread, Fetch(tid) \/ FetchBasicBlock(tid)
  PROVE  ReaderInductive' /\ AnswerInductive'
<1>1. [Next]_readerVars
  BY DEF Next
<1> QED BY <1>1, ReaderStepKeeps, ReaderAnswers DEF EngineInductive

(***************************************************************************)
(* Every step of the engine is a step of the reader or leaves it alone.    *)
(***************************************************************************)
LEMMA EngineStepsReader ==
  ASSUME EngineInductive, [EngineNext]_engineAll
  PROVE  [Next]_readerVars
<1>1. CASE SetupCall \/ ClockCall
  <2>1. core \in Thread /\ Fetch(core)
    BY <1>1, CoresAreThreads DEF SetupCall, ClockCall, CallFetch, EngineInductive, LoopInductive
  <2> QED BY <2>1 DEF Next
<1>2. CASE ReaderStep
  <2>1. core \in Thread /\ FetchBasicBlock(core)
    BY <1>2, CoresAreThreads DEF ReaderStep, EngineInductive, LoopInductive
  <2> QED BY <2>1 DEF Next
<1>3. CASE \/ SetupReturns \/ ReceivesNothing \/ ClockReturns \/ EndOfCycle \/ Stopped
           \/ UNCHANGED engineAll
  BY <1>3 DEF SetupReturns, ReceivesNothing, ClockReturns, EndOfCycle, Stopped, Returned,
     engineAll
<1>4. CASE \E r \in Requests : Receives(r)
  BY <1>4 DEF Receives
<1> QED BY <1>1, <1>2, <1>3, <1>4 DEF EngineNext, EngineStep
(***************************************************************************)
(* The steps that hand nothing over leave the packets as they are.         *)
(***************************************************************************)
LEMMA CallKeeps ==
  ASSUME EngineInductive, SetupCall \/ ClockCall
  PROVE  EngineInductive'
<1>1. /\ stage \in {"setup", "fetch"} /\ Fetch(core) /\ calling' = TRUE
      /\ UNCHANGED <<stage, core, fetchBuffers, lastSent>>
  BY DEF SetupCall, ClockCall, CallFetch, loopVars, packetVars
<1>2. core \in Core /\ core \in Thread
  BY <1>1, CoresAreThreads DEF EngineInductive, LoopInductive
<1>3. ReaderInductive' /\ AnswerInductive'
  BY <1>1, <1>2, ReaderCallKeeps
<1>4. reading' \in {NoThread, core}
  BY <1>1, FetchReads
<1>5. LoopInductive'
  BY <1>1, <1>2, <1>4 DEF EngineInductive, LoopInductive
<1>6. PacketsInductive'
  BY <1>1 DEF EngineInductive, PacketsInductive
<1> QED BY <1>3, <1>5, <1>6 DEF EngineInductive

LEMMA ReaderStepOfEngineKeeps ==
  ASSUME EngineInductive, ReaderStep
  PROVE  EngineInductive'
<1>1. /\ calling /\ FetchBasicBlock(core)
      /\ UNCHANGED <<stage, core, calling, fetchBuffers, lastSent>>
  BY DEF ReaderStep, engineVars, loopVars, packetVars
<1>2. core \in Core /\ core \in Thread
  BY <1>1, CoresAreThreads DEF EngineInductive, LoopInductive
<1>3. ReaderInductive' /\ AnswerInductive'
  BY <1>1, <1>2, ReaderCallKeeps
<1>4. reading' \in {NoThread, core}
  BY <1>1, FetchBasicBlockReads
<1>5. LoopInductive'
  BY <1>1, <1>2, <1>4 DEF EngineInductive, LoopInductive
<1>6. PacketsInductive'
  BY <1>1 DEF EngineInductive, PacketsInductive
<1> QED BY <1>3, <1>5, <1>6 DEF EngineInductive

LEMMA ReaderIdles ==
  ASSUME EngineInductive, UNCHANGED readerVars
  PROVE  ReaderInductive' /\ AnswerInductive' /\ UNCHANGED <<reading, answer>>
<1>1. UNCHANGED <<reading, answer>>
  BY DEF readerVars
<1>2. ReaderInductive'
  BY ReaderStepKeeps DEF EngineInductive
<1>3. AnswerInductive'
  BY <1>1 DEF EngineInductive, AnswerInductive
<1> QED BY <1>1, <1>2, <1>3

LEMMA ClockKeeps ==
  ASSUME EngineInductive,
         \/ ReceivesNothing \/ (\E r \in Requests : Receives(r)) \/ EndOfCycle \/ Stopped
         \/ UNCHANGED engineAll
  PROVE  EngineInductive'
<1>0. NumberOfFetchers \in Nat /\ NumberOfFetchers >= 1
  BY CoresAreThreads
<1>1. UNCHANGED <<readerVars, fetchBuffers, lastSent, calling>>
  BY DEF ReceivesNothing, Receives, EndOfCycle, Stopped, engineAll, engineVars, packetVars
<1>2. ReaderInductive' /\ AnswerInductive' /\ UNCHANGED <<reading, answer>>
  BY <1>1, ReaderIdles
<1>3. CASE ReceivesNothing
  <2>1. stage = "clock" /\ stage' = "clock" /\ core \in Core /\ core' = core + 1
    BY <1>3 DEF ReceivesNothing, NextCore
  <2>2. LoopInductive'
    BY <1>0, <1>1, <1>2, <2>1 DEF EngineInductive, LoopInductive, Core
  <2>3. PacketsInductive'
    BY <1>1, <2>1 DEF EngineInductive, PacketsInductive
  <2> QED BY <1>2, <2>2, <2>3 DEF EngineInductive
<1>4. CASE \E r \in Requests : Receives(r)
  <2>1. /\ stage = "clock" /\ core \in Core
        /\ \/ stage' = "clock" /\ core' = core + 1
           \/ stage' = "fetch" /\ core' = core
    BY <1>4 DEF Receives, NextCore
  <2>2. LoopInductive'
    BY <1>0, <1>1, <1>2, <2>1 DEF EngineInductive, LoopInductive, Core
  <2>3. PacketsInductive'
    BY <1>1, <2>1 DEF EngineInductive, PacketsInductive
  <2> QED BY <1>2, <2>2, <2>3 DEF EngineInductive
<1>5. CASE EndOfCycle
  <2>1. stage = "clock" /\ stage' \in {"clock", "stopped"} /\ core' = 0
    BY <1>5 DEF EndOfCycle
  <2>2. LoopInductive'
    BY <1>0, <1>1, <1>2, <2>1 DEF EngineInductive, LoopInductive, Core
  <2>3. PacketsInductive'
    BY <1>1, <2>1 DEF EngineInductive, PacketsInductive
  <2> QED BY <1>2, <2>2, <2>3 DEF EngineInductive
<1>6. CASE Stopped \/ UNCHANGED engineAll
  <2>1. UNCHANGED <<stage, core>>
    BY <1>6 DEF Stopped, engineAll, engineVars, loopVars
  <2>2. LoopInductive' /\ PacketsInductive'
    BY <1>1, <1>2, <2>1 DEF EngineInductive, LoopInductive, PacketsInductive
  <2> QED BY <1>2, <2>2 DEF EngineInductive
<1> QED BY <1>3, <1>4, <1>5, <1>6

(***************************************************************************)
(* The returns of the reader: what is buffered is an instruction if the    *)
(* buffer had one or the answer is "Ok".                                   *)
(***************************************************************************)
LEMMA BufferedIsInstruction ==
  ASSUME EngineInductive, core \in Core
  PROVE  /\ Buffered \in Instruction \cup {NoInstruction}
         /\ fetchBuffers[core] \in Instruction \/ answer.result = "Ok" => Buffered \in Instruction
  BY CoresAreThreads DEF EngineInductive, AnswerInductive, PacketsInductive, Buffered

LEMMA SetupReturnsKeeps ==
  ASSUME EngineInductive, SetupReturns
  PROVE  EngineInductive'
<1>0. NumberOfFetchers \in Nat /\ NumberOfFetchers >= 1
  BY CoresAreThreads
<1>1. /\ stage = "setup" /\ reading = NoThread /\ calling' = FALSE
      /\ fetchBuffers' = [fetchBuffers EXCEPT ![core] = Buffered]
      /\ UNCHANGED <<readerVars, lastSent>>
      /\ core \in Core
  BY DEF SetupReturns, Returned, BufferTheFetched, EngineInductive, LoopInductive
<1>2. ReaderInductive' /\ AnswerInductive' /\ UNCHANGED <<reading, answer>>
  BY <1>1, ReaderIdles
<1>3. \/ stage' = "failed" /\ core' = core
      \/ answer.result = "Ok" /\ core + 1 = NumberOfFetchers /\ stage' = "clock" /\ core' = 0
      \/ answer.result = "Ok" /\ core + 1 # NumberOfFetchers /\ stage' = "setup" /\ core' = core + 1
  BY <1>1 DEF SetupReturns, GivesUp, IsNotOk
<1>4. LoopInductive'
  <2>1. core' \in 0 .. NumberOfFetchers /\ (stage' \in {"setup", "fetch"} => core' \in Core)
    BY <1>0, <1>1, <1>3 DEF Core
  <2>2. ~calling' /\ calling' \in BOOLEAN /\ reading' = NoThread
    BY <1>1, <1>2
  <2> QED BY <1>3, <2>1, <2>2 DEF LoopInductive
<1>5. /\ Buffered \in Instruction \cup {NoInstruction}
      /\ answer.result = "Ok" => Buffered \in Instruction
  BY <1>1, BufferedIsInstruction
<1>6. /\ fetchBuffers' \in [Core -> Instruction \cup {NoInstruction}]
      /\ fetchBuffers'[core] = Buffered
      /\ \A c \in Core \ {core} : fetchBuffers'[c] = fetchBuffers[c]
  BY <1>1, <1>5 DEF EngineInductive, PacketsInductive
<1>7. answer.result = "Ok" => \A c \in Core : c < core + 1 => fetchBuffers'[c] \in Instruction
  <2> SUFFICES ASSUME answer.result = "Ok", NEW c \in Core, c < core + 1
               PROVE  fetchBuffers'[c] \in Instruction
    OBVIOUS
  <2>1. CASE c = core
    BY <1>5, <1>6, <2>1
  <2>2. CASE c # core
    <3>1. c < core
      BY <1>0, <1>1, <2>2 DEF Core
    <3> QED BY <1>1, <1>6, <2>2, <3>1 DEF EngineInductive, PacketsInductive
  <2> QED BY <2>1, <2>2
<1>8. \A c \in Core : c < NumberOfFetchers
  BY <1>0 DEF Core
<1>9. PacketsInductive'
  BY <1>1, <1>3, <1>6, <1>7, <1>8 DEF EngineInductive, PacketsInductive
<1> QED BY <1>2, <1>4, <1>9 DEF EngineInductive

LEMMA ClockReturnsKeeps ==
  ASSUME EngineInductive, ClockReturns
  PROVE  /\ EngineInductive'
         /\ core \in Core
         /\ lastSent' = [lastSent EXCEPT ![core] = ToSend]
         /\ ToSend.inst = fetchBuffers[core]
<1>0. NumberOfFetchers \in Nat /\ NumberOfFetchers >= 1
  BY CoresAreThreads
<1>1. /\ stage = "fetch" /\ reading = NoThread /\ calling' = FALSE
      /\ fetchBuffers' = [fetchBuffers EXCEPT ![core] = Buffered]
      /\ lastSent' = [lastSent EXCEPT ![core] = ToSend]
      /\ UNCHANGED readerVars
      /\ core \in Core
  BY DEF ClockReturns, Returned, BufferTheFetched, SendResponse, EngineInductive, LoopInductive
<1>2. ReaderInductive' /\ AnswerInductive' /\ UNCHANGED <<reading, answer>>
  BY <1>1, ReaderIdles
<1>3. \/ stage' = "clock" /\ core' = core + 1
      \/ stage' = "fetch" /\ core' = core
  BY <1>1 DEF ClockReturns, NextCore
<1>4. LoopInductive'
  <2>1. core' \in 0 .. NumberOfFetchers /\ (stage' \in {"setup", "fetch"} => core' \in Core)
    BY <1>0, <1>1, <1>3 DEF Core
  <2>2. ~calling' /\ calling' \in BOOLEAN /\ reading' = NoThread
    BY <1>1, <1>2
  <2> QED BY <1>3, <2>1, <2>2 DEF LoopInductive
<1>5. Buffered \in Instruction
  BY <1>1, BufferedIsInstruction DEF EngineInductive, PacketsInductive
<1>6. /\ fetchBuffers' \in [Core -> Instruction \cup {NoInstruction}]
      /\ fetchBuffers'[core] = Buffered
      /\ \A c \in Core \ {core} : fetchBuffers'[c] = fetchBuffers[c]
  BY <1>1, <1>5 DEF EngineInductive, PacketsInductive
<1>7. \A c \in Core : fetchBuffers'[c] \in Instruction
  BY <1>1, <1>5, <1>6 DEF EngineInductive, PacketsInductive
<1>8. ToSend.inst = fetchBuffers[core] /\ ToSend.nextInstruction = Buffered
  BY DEF ToSend, AddressOfBuffered
<1>9. /\ lastSent' = [c \in Core |-> lastSent'[c]]
      /\ lastSent'[core] = ToSend
      /\ \A c \in Core \ {core} : lastSent'[c] = lastSent[c]
  <2>1. lastSent = [c \in Core |-> lastSent[c]]
    BY DEF EngineInductive, PacketsInductive
  <2> HIDE DEF ToSend
  <2> QED BY <1>1, <2>1
<1>10. PacketsInductive'
  <2>1. \A c \in Core : lastSent'[c] # NoPacket => lastSent'[c].nextInstruction = fetchBuffers'[c]
    <3> TAKE c \in Core
    <3>1. CASE c = core
      BY <1>6, <1>8, <1>9, <3>1
    <3>2. CASE c # core
      BY <1>6, <1>9, <3>2 DEF EngineInductive, PacketsInductive
    <3> QED BY <3>1, <3>2
  <2> QED BY <1>3, <1>6, <1>7, <1>9, <2>1 DEF PacketsInductive
<1> QED BY <1>1, <1>2, <1>4, <1>8, <1>10 DEF EngineInductive

LEMMA EngineStarts ==
  ASSUME EngineInit
  PROVE  EngineInductive
<1>1. ReaderInductive
  BY ReaderStarts DEF EngineInit
<1>2. AnswerInductive
  BY DEF EngineInit, Init, NoAnswer, AnswerInductive
<1>3. NumberOfFetchers \in Nat /\ NumberOfFetchers >= 1
  BY CoresAreThreads
<1>4. 0 \in Core /\ \A c \in Core : ~(c < 0)
  BY <1>3 DEF Core
<1>5. LoopInductive
  BY <1>3, <1>4 DEF EngineInit, Init, LoopInductive
<1>6. PacketsInductive
  BY <1>4 DEF EngineInit, PacketsInductive
<1> QED BY <1>1, <1>2, <1>5, <1>6 DEF EngineInductive

LEMMA EngineStepKeeps ==
  ASSUME EngineInductive, [EngineNext]_engineAll
  PROVE  EngineInductive'
<1>1. CASE \/ ReceivesNothing \/ (\E r \in Requests : Receives(r)) \/ EndOfCycle \/ Stopped
           \/ UNCHANGED engineAll
  BY <1>1, ClockKeeps
<1>2. CASE SetupCall \/ ClockCall
  BY <1>2, CallKeeps
<1>3. CASE ReaderStep
  BY <1>3, ReaderStepOfEngineKeeps
<1>4. CASE SetupReturns
  BY <1>4, SetupReturnsKeeps
<1>5. CASE ClockReturns
  BY <1>5, ClockReturnsKeeps
<1> QED BY <1>1, <1>2, <1>3, <1>4, <1>5 DEF EngineNext, EngineStep

(***************************************************************************)
(* The inductive invariant of the engine.                                  *)
(***************************************************************************)
THEOREM EngineIsInductive == EngineSpec => []EngineInductive
<1>1. EngineInit => EngineInductive
  BY EngineStarts
<1>2. EngineInductive /\ [EngineNext]_engineAll => EngineInductive'
  BY EngineStepKeeps
<1> QED BY <1>1, <1>2, PTL DEF EngineSpec

(***************************************************************************)
(* Engine::Fetch never sends the contents of an empty buffer, and its      *)
(* trace reader is never entered twice, for every number of cores, their   *)
(* requests and all trace files (engine.cpp:30-160).                       *)
(***************************************************************************)
THEOREM EngineIsConsistent == EngineSpec => []EngineInvariant
<1>1. EngineInductive => EngineInvariant
  BY CoresAreThreads DEF EngineInductive, ReaderInductive, LoopInductive, PacketsInductive,
     EngineInvariant
<1> QED BY <1>1, EngineIsInductive, PTL

(***************************************************************************)
(* The engine uses the trace reader as its specification says: it never    *)
(* calls Fetch while a Fetch is running, and for threads only.  What was   *)
(* proved of the reader is true of the engine's reader.                    *)
(***************************************************************************)
THEOREM EngineReplaysTraces == EngineSpec => Spec
<1>1. EngineInit => Init
  BY DEF EngineInit
<1>2. EngineInductive /\ [EngineNext]_engineAll => [Next]_readerVars
  BY EngineStepsReader
<1> QED BY <1>1, <1>2, EngineIsInductive, PTL DEF EngineSpec, Spec

(***************************************************************************)
(* The nextInstruction of every packet is the instruction of the core's    *)
(* next packet, for every number of cores, every mix of requests and all   *)
(* trace files, whether the reader answered "Ok", "Nop", "End" or "Error"  *)
(* in between (engine.cpp:120-148).                                        *)
(***************************************************************************)
THEOREM PacketsAreChained == EngineSpec => NextInstructionIsNext
<1> DEFINE Chained ==
      \A c \in Core :
        lastSent'[c] # lastSent[c] /\ lastSent[c] # NoPacket =>
          lastSent'[c].inst = lastSent[c].nextInstruction
<1>1. EngineInductive /\ [EngineNext]_engineAll => [Chained]_engineAll
  <2> SUFFICES ASSUME EngineInductive, [EngineNext]_engineAll PROVE Chained
    OBVIOUS
  <2>1. CASE ClockReturns
    <3>1. /\ core \in Core
          /\ lastSent' = [lastSent EXCEPT ![core] = ToSend]
          /\ ToSend.inst = fetchBuffers[core]
      BY <2>1, ClockReturnsKeeps
    <3>2. /\ lastSent = [c \in Core |-> lastSent[c]]
          /\ \A c \in Core : lastSent[c] # NoPacket =>
               lastSent[c].nextInstruction = fetchBuffers[c]
      BY DEF EngineInductive, PacketsInductive
    <3>3. \A c \in Core : c # core => lastSent'[c] = lastSent[c]
      BY <3>1, <3>2
    <3>4. lastSent'[core] = ToSend
      BY <3>1, <3>2
    <3> TAKE c \in Core
    <3>5. CASE c = core
      BY <3>1, <3>2, <3>4, <3>5
    <3>6. CASE c # core
      BY <3>3, <3>6
    <3> QED BY <3>5, <3>6
  <2>2. CASE ~ClockReturns
    <3>1. lastSent' = lastSent
      BY <2>2 DEF EngineNext, EngineStep, SetupCall, ClockCall, CallFetch, ReaderStep,
         ReceivesNothing, Receives, SetupReturns, EndOfCycle, Stopped, engineAll, engineVars,
         packetVars
    <3> QED BY <3>1
  <2> QED BY <2>1, <2>2
<1> QED BY <1>1, EngineIsInductive, PTL DEF EngineSpec, NextInstructionIsNext
-----------------------------------------------------------------------------
(***************************************************************************)
(* Responses are not dropped if the cores ask for no more bytes than they  *)
(* have slots for responses: an instruction has at least one byte.         *)
(***************************************************************************)
SlotsSuffice ==
  /\ \A x \in Instruction : InstSize[x] \in Nat \ {0}
  /\ ResponseSize = 0 \/ \A r \in Requests : r <= ResponseSize

Packet ==
  [inst : Instruction \cup {NoInstruction}, nextInstruction : Instruction \cup {NoInstruction}]

(***************************************************************************)
(* The responses to a core weigh no more than the instructions counted so  *)
(* far, less the one in the buffer; the cores behind it have none.         *)
(***************************************************************************)
ResponsesInductive ==
  /\ responses \in [Core -> Seq(Packet)]
  /\ stage = "setup" => \A c \in Core : responses[c] = <<>>
  /\ stage = "clock" => \A c \in Core : c >= core => responses[c] = <<>>
  /\ stage = "fetch" =>
       /\ \A c \in Core : c > core => responses[c] = <<>>
       /\ request \in Requests
       /\ weight \in Nat
       /\ Len(responses[core]) < weight
       /\ request = 0 => responses[core] = <<>>
       /\ request # 0 => weight < request

LEMMA ResponseFits ==
  ASSUME SlotsSuffice, EngineInductive, ResponsesInductive, ClockReturns
  PROVE  /\ responses' = [responses EXCEPT ![core] = Append(responses[core], ToSend)]
         /\ ToSend \in Packet
<1>1. /\ stage = "fetch" /\ core \in Core /\ responses[core] \in Seq(Packet)
      /\ Len(responses[core]) \in Nat
  BY LenProperties DEF ClockReturns, EngineInductive, LoopInductive, ResponsesInductive
<1>2. ResponseSize = 0 \/ Len(responses[core]) < ResponseSize
  <2>1. /\ request \in Requests /\ weight \in Nat /\ Len(responses[core]) < weight
        /\ request = 0 => responses[core] = <<>>
        /\ request # 0 => weight < request
    BY <1>1 DEF ResponsesInductive
  <2>2. request \in Nat /\ ResponseSize \in Nat
    BY <2>1, EngineAssumption
  <2>3. ResponseSize = 0 \/ request <= ResponseSize
    BY <2>1 DEF SlotsSuffice
  <2>4. CASE request = 0
    BY <2>1, <2>2, <2>4
  <2>5. CASE request # 0
    BY <1>1, <2>1, <2>2, <2>3, <2>5
  <2> QED BY <2>4, <2>5
<1>3. responses' = [responses EXCEPT ![core] = Append(responses[core], ToSend)]
  BY <1>2 DEF ClockReturns, SendResponse
<1>4. fetchBuffers[core] \in Instruction \cup {NoInstruction}
  BY <1>1 DEF EngineInductive, PacketsInductive
<1>5. Buffered \in Instruction \cup {NoInstruction}
  BY <1>1, BufferedIsInstruction
<1>6. ToSend \in Packet
  BY <1>4, <1>5 DEF ToSend, AddressOfBuffered, Packet
<1> QED BY <1>3, <1>6

LEMMA ResponsesKept ==
  ASSUME SlotsSuffice, EngineInductive, ResponsesInductive, [EngineNext]_engineAll
  PROVE  ResponsesInductive'
<1>0. /\ NumberOfFetchers \in Nat /\ NumberOfFetchers >= 1
      /\ core \in 0 .. NumberOfFetchers
      /\ responses \in [Core -> Seq(Packet)]
      /\ \A c \in Core : c \in Nat
  BY CoresAreThreads DEF EngineInductive, LoopInductive, ResponsesInductive, Core
<1>1. CASE \/ SetupCall \/ ClockCall \/ ReaderStep \/ Stopped \/ UNCHANGED engineAll
  <2>1. UNCHANGED <<stage, core, request, weight, responses>>
    BY <1>1 DEF SetupCall, ClockCall, CallFetch, ReaderStep, Stopped, engineAll, engineVars,
       loopVars, packetVars
  <2> QED BY <2>1 DEF ResponsesInductive
<1>2. CASE SetupReturns
  <2>1. stage = "setup" /\ stage' # "fetch" /\ responses' = responses
    BY <1>2 DEF SetupReturns
  <2> QED BY <2>1 DEF ResponsesInductive
<1>3. CASE ReceivesNothing
  <2>1. stage = "clock" /\ stage' = "clock" /\ core' = core + 1 /\ responses' = responses
    BY <1>3 DEF ReceivesNothing, NextCore, packetVars
  <2>2. \A c \in Core : c >= core' => c >= core
    BY <1>0, <2>1
  <2> QED BY <2>1, <2>2 DEF ResponsesInductive
<1>4. CASE \E r \in Requests : Receives(r)
  <2>1. PICK r \in Requests : Receives(r)
    BY <1>4
  <2>2. /\ stage = "clock" /\ core \in Core /\ responses' = responses
        /\ request' = r /\ weight' = InstSize[fetchBuffers[core]]
        /\ \/ stage' = "fetch" /\ core' = core /\ (r = 0 \/ weight' < r)
           \/ stage' = "clock" /\ core' = core + 1
    BY <2>1 DEF Receives, SizeOf, NextCore, packetVars
  <2>3. weight' \in Nat \ {0}
    BY <2>2 DEF EngineInductive, PacketsInductive, SlotsSuffice
  <2>4. responses[core] = <<>> /\ Len(responses[core]) = 0
    <3>1. core >= core
      BY <1>0
    <3> QED BY <2>2, <3>1 DEF ResponsesInductive
  <2>5. \A c \in Core : c >= core' \/ c > core' => c >= core
    BY <1>0, <2>2
  <2> QED BY <2>2, <2>3, <2>4, <2>5 DEF ResponsesInductive
<1>5. CASE ClockReturns
  <2>1. /\ responses' = [responses EXCEPT ![core] = Append(responses[core], ToSend)]
        /\ ToSend \in Packet
    BY <1>5, ResponseFits
  <2>2. stage = "fetch" /\ core \in Core
    BY <1>5 DEF ClockReturns, EngineInductive, LoopInductive
  <2>3. PICK new : new = Append(responses[core], ToSend)
    OBVIOUS
  <2>4. new \in Seq(Packet) /\ Len(new) = Len(responses[core]) + 1 /\ Len(responses[core]) \in Nat
    BY <1>0, <2>1, <2>2, <2>3, AppendProperties, LenProperties
  <2>5. /\ responses' \in [Core -> Seq(Packet)]
        /\ responses'[core] = new
        /\ \A c \in Core \ {core} : responses'[c] = responses[c]
    BY <1>0, <2>1, <2>2, <2>3, <2>4
  <2>6. \/ stage' = "clock" /\ core' = core + 1
        \/ /\ stage' = "fetch" /\ core' = core /\ request' = request /\ request # 0
           /\ weight' = weight + InstSize[Buffered] /\ weight' < request
    BY <1>5, <2>2 DEF ClockReturns, NextCore, WeightWith, SizeOf
  <2>7. Buffered \in Instruction
    BY <2>2, BufferedIsInstruction DEF EngineInductive, PacketsInductive
  <2>8. InstSize[Buffered] \in Nat \ {0}
    BY <2>7 DEF SlotsSuffice
  <2>9. \A c \in Core : c > core => responses'[c] = <<>>
    <3> TAKE c \in Core
    <3>1. c > core => c # core
      BY <1>0
    <3> QED BY <2>2, <2>5, <3>1 DEF ResponsesInductive
  <2>10. CASE stage' = "clock" /\ core' = core + 1
    <3>1. \A c \in Core : c >= core' => c > core
      BY <1>0, <2>10
    <3> QED BY <2>5, <2>9, <2>10, <3>1 DEF ResponsesInductive
  <2>11. CASE /\ stage' = "fetch" /\ core' = core /\ request' = request /\ request # 0
              /\ weight' = weight + InstSize[Buffered] /\ weight' < request
    <3>1. request \in Requests /\ weight \in Nat /\ Len(responses[core]) < weight
      BY <2>2 DEF ResponsesInductive
    <3>2. weight' \in Nat /\ Len(responses'[core]) < weight'
      BY <2>4, <2>5, <2>8, <2>11, <3>1
    <3> QED BY <2>5, <2>9, <2>11, <3>1, <3>2 DEF ResponsesInductive
  <2> QED BY <2>6, <2>10, <2>11
<1>6. CASE EndOfCycle
  <2>1. stage' # "fetch" /\ responses' = [c \in Core |-> <<>>]
    BY <1>6 DEF EndOfCycle
  <2> QED BY <2>1 DEF ResponsesInductive
<1> QED BY <1>1, <1>2, <1>3, <1>4, <1>5, <1>6 DEF EngineNext, EngineStep

(***************************************************************************)
(* No instruction is dropped if the cores ask for no more bytes than they  *)
(* have slots, for every number of cores, every size of instructions and   *)
(* all trace files: the check of engine.cpp:146 never warns.               *)
(***************************************************************************)
THEOREM NothingIsDropped ==
  ASSUME SlotsSuffice
  PROVE  EngineSpec => NoInstructionIsDropped
<1> DEFINE Handed ==
      stage = "fetch" /\ calling /\ ~calling' =>
        responses'[core] = Append(responses[core], lastSent'[core])
<1>1. EngineInit => ResponsesInductive
  BY DEF EngineInit, ResponsesInductive
<1>2. EngineInductive /\ ResponsesInductive /\ [EngineNext]_engineAll => ResponsesInductive'
  BY ResponsesKept
<1>3. EngineInductive /\ ResponsesInductive /\ [EngineNext]_engineAll => [Handed]_engineAll
  <2> SUFFICES ASSUME EngineInductive, ResponsesInductive, [EngineNext]_engineAll,
                      stage = "fetch", calling, ~calling'
               PROVE  responses'[core] = Append(responses[core], lastSent'[core])
    OBVIOUS
  <2>1. ClockReturns
    BY DEF EngineNext, EngineStep, SetupCall, ClockCall, CallFetch, ReaderStep,
       ReceivesNothing, Receives, SetupReturns, EndOfCycle, Stopped, engineAll, engineVars
  <2>2. responses' = [responses EXCEPT ![core] = Append(responses[core], ToSend)]
    BY <2>1, ResponseFits
  <2>3. core \in Core /\ lastSent' = [lastSent EXCEPT ![core] = ToSend]
    BY <2>1, ClockReturnsKeeps
  <2>4. /\ lastSent = [c \in Core |-> lastSent[c]]
        /\ responses \in [Core -> Seq(Packet)]
    BY DEF EngineInductive, PacketsInductive, ResponsesInductive
  <2>5. lastSent'[core] = ToSend
    BY <2>3, <2>4
  <2>6. responses'[core] = Append(responses[core], ToSend)
    BY <2>2, <2>3, <2>4
  <2> QED BY <2>5, <2>6
<1> QED BY <1>1, <1>2, <1>3, EngineIsInductive, PTL DEF EngineSpec, NoInstructionIsDropped
=============================================================================
