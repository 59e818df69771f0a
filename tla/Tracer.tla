------------------------------- MODULE Tracer -------------------------------
(***************************************************************************)
(* The pintool (src/x86_trace_generator/sinuca3_pintool.cpp).  The threads *)
(* of an OpenMP program call its analysis routines; a routine first asks   *)
(* WasThreadCreated, mostly without threadAnalysisLock, then works on      *)
(* threadDataVec under that lock.  What a routine does under the lock is   *)
(* one step, except that an event for all threads is added to one writer   *)
(* per step.                                                               *)
(*                                                                         *)
(* The program, libgomp and Pin are external.  All threads run the same    *)
(* points of the program: a block, a barrier (an event, then the meeting), *)
(* a critical region (an event, then acquire; an event, then release), and *)
(* start and end, the calls of gomp_team_start and gomp_team_end that only *)
(* thread 0 makes.  Workers are created once thread 0 waits for them to    *)
(* meet.  An exit stops all threads outside of the routines; then Pin      *)
(* calls OnThreadFini for each of them.  At the end the files are read.    *)
(***************************************************************************)
EXTENDS TraceFile, FiniteSets, SequencesExt

CONSTANTS
  TotalThreads,
  Block,
  BlockSize,          \* the number of instructions of a block
  Accesses,           \* Accesses[b]: what the instruction of b that accesses
                      \* memory may do, {} if there is none
  Programs,           \* the programs: sequences of points
  Limits,             \* values of knobNumberOfInstructions
  NoLimit,            \* UINT_MAX, its default
  NoThread

Thread == 0 .. TotalThreads - 1

Events == {"BarrierSync", "CriticalStart", "CriticalEnd", "AbruptEnd"}

EventAt ==
  [start |-> "BarrierSync", end |-> "BarrierSync", barrier |-> "BarrierSync",
   cs |-> "CriticalStart", ce |-> "CriticalEnd"]

Points == DOMAIN EventAt \cup {"block", "meet", "acquire", "release"}

MemoryOp == [memopType : {"load", "store"}, maskOn : BOOLEAN]

(***************************************************************************)
(* With more than three threads, the unsigned difference of                *)
(* WasThreadCreated would be positive for a thread that comes long before  *)
(* the others, and its routines would index threadDataVec past its end.    *)
(***************************************************************************)
ASSUME TracerAssumption ==
  /\ TotalThreads \in 1 .. 3
  /\ Block # {}
  /\ BlockSize \in [Block -> Nat \ {0}]
  /\ \A b \in Block : \A info \in Accesses[b] : info \in Seq(MemoryOp)
  /\ \A p \in Programs : p \in Seq(Points)
  /\ Limits \subseteq Nat \cup {NoLimit}
  /\ NoLimit \notin Int
  /\ NoThread \notin Int

(***************************************************************************)
(* The programs are teams as libgomp runs them: all threads meet before    *)
(* the first region starts, a barrier is an event and then the meeting,    *)
(* and OpenMP has no barrier inside of a critical region.                  *)
(***************************************************************************)
IsTeamProgram(p) ==
  /\ \E first \in DOMAIN p :
       /\ p[first] = "meet"
       /\ \A i \in DOMAIN p : p[i] \in {"start", "end", "barrier"} => first < i
  /\ \A i \in DOMAIN p : p[i] = "barrier" => i + 1 \in DOMAIN p /\ p[i + 1] = "meet"
  /\ \A i, j \in DOMAIN p :
       i < j /\ p[i] = "cs" /\ p[j] = "barrier" => \E k \in i .. j : p[k] = "ce"

ASSUME TeamAssumption == \A p \in Programs : IsTeamProgram(p)

VARIABLES
  program,            \* the program that is traced
  pos,                \* the point every thread is at, 0 before it starts
  owner,              \* the thread that is in a critical region
  call,               \* the routine every thread is in
  lock,               \* the thread that adds an event to all writers
  threadDataVec,      \* the threads, in the order in which they registered
  threadCount,        \* of staticTrace
  dynamicTrace, memoryTrace,   \* the writers of every thread
  numberOfExecInst,
  limit,              \* knobNumberOfInstructions
  exiting, stopped,   \* is Pin asked to end the program; has it ended?
  written,            \* history: the records of every thread's two files
  reader,             \* the reader of the file that is being read
  filesRead           \* the number of files read to their end

appVars    == <<program, owner>>
readVars   == <<reader, filesRead>>
exitVars   == <<limit, exiting, stopped>>
tracerVars == <<appVars, pos, call, lock, threadDataVec, threadCount, dynamicTrace,
                memoryTrace, numberOfExecInst, exitVars, written, readVars>>

Idle == <<"idle">>

Init ==
  /\ program \in Programs
  /\ limit \in Limits
  /\ pos = [t \in Thread |-> 0]
  /\ call = [t \in Thread |-> Idle]
  /\ owner = NoThread
  /\ lock = NoThread
  /\ threadDataVec = <<>>
  /\ threadCount = 0
  /\ dynamicTrace = [t \in Thread |-> OpenFile]
  /\ memoryTrace = [t \in Thread |-> OpenFile]
  /\ numberOfExecInst = 0
  /\ exiting = FALSE
  /\ stopped = FALSE
  /\ written = [t \in Thread |-> [dyn |-> <<>>, mem |-> <<>>]]
  /\ reader = NewReader
  /\ filesRead = 0

-----------------------------------------------------------------------------
(***************************************************************************)
(* threadDataVec[tid] (tid counts from 0) and its writers.  Slip: a thread *)
(* counts as created when the next one is.                                 *)
(***************************************************************************)
ThreadDataOf(tid) == threadDataVec[tid + 1]

WasNextThreadCreated(tid) == Len(threadDataVec) - tid > 1

WasThreadCreated(tid) == Len(threadDataVec) - tid # 0

AddDynamicRecord(t, record, n) ==
  /\ dynamicTrace' = [dynamicTrace EXCEPT ![t] =
                        AddRecord(IncExecutedInstructions(@, n), record)]
  /\ written' = [written EXCEPT ![t].dyn = Append(@, record)]

(***************************************************************************)
(* Thread t is at point p of the program, and leaves it.                   *)
(***************************************************************************)
IsAt(t, p) ==
  /\ ~stopped
  /\ call[t] = Idle
  /\ pos[t] \in DOMAIN program
  /\ program[pos[t]] = p

Continue(t) ==
  /\ call' = [call EXCEPT ![t] = Idle]
  /\ pos' = [pos EXCEPT ![t] = @ + 1]

Enter(t, c) ==
  /\ call' = [call EXCEPT ![t] = c]
  /\ UNCHANGED pos

(***************************************************************************)
(* OnThreadStart opens the files, waits for the lock and registers.        *)
(***************************************************************************)
StartsThread(t) ==
  /\ ~stopped
  /\ pos[t] = 0 /\ call[t] = Idle
  /\ t # 0 => \E i \in 1 .. pos[0] : program[i] = "meet"
  /\ Enter(t, <<"start">>)
  /\ UNCHANGED <<appVars, lock, threadDataVec, threadCount, dynamicTrace,
                 memoryTrace, numberOfExecInst, exitVars, written, readVars>>

RegistersThread(t) ==
  /\ call[t] = <<"start">>
  /\ lock = NoThread
  /\ threadDataVec' = Append(threadDataVec, t)
  /\ threadCount' = threadCount + 1
  /\ Continue(t)
  /\ UNCHANGED <<appVars, lock, dynamicTrace, memoryTrace, numberOfExecInst,
                 exitVars, written, readVars>>

OnThreadStart(t) == StartsThread(t) \/ RegistersThread(t)

-----------------------------------------------------------------------------
(***************************************************************************)
(* The routines that OnTrace puts into block b: the one for the block, and *)
(* the one for its instruction that accesses memory.  The first is put     *)
(* anywhere into the block (IPOINT_ANYWHERE), so that each of the two may  *)
(* be called before the other.  The other one is called also if the first  *)
(* returned early.                                                         *)
(***************************************************************************)
RoutinesOf(b) == IF Accesses[b] = {} THEN {"block"} ELSE {"block", "mem"}

(***************************************************************************)
(* Thread t calls routine r of block b, and then those in rest.            *)
(***************************************************************************)
ToCall(t, r, b, rest) ==
  \/ /\ IsAt(t, "block")
     /\ r \in RoutinesOf(b)
     /\ rest = RoutinesOf(b) \ {r}
  \/ /\ ~stopped
     /\ call[t] = <<"rest", b, {r}>>
     /\ rest = {}

LeaveRoutine(t, b, rest) ==
  IF rest = {} THEN Continue(t) ELSE Enter(t, <<"rest", b, rest>>)

(***************************************************************************)
(* AppendToDynamicTrace.                                                   *)
(***************************************************************************)
ReachesBlock(t) ==
  /\ \E b \in Block, rest \in SUBSET {"mem"} :
       /\ ToCall(t, "block", b, rest)
       /\ IF WasThreadCreated(t) THEN Enter(t, <<"block", b, rest>>)
                                 ELSE LeaveRoutine(t, b, rest)
  /\ UNCHANGED <<appVars, lock, threadDataVec, threadCount, dynamicTrace,
                 memoryTrace, numberOfExecInst, exitVars, written, readVars>>

(***************************************************************************)
(* Slip: the limit is compared with what the thread itself executed.       *)
(***************************************************************************)
IsOwnLimitReached(t) ==
  limit # NoLimit /\ dynamicTrace[ThreadDataOf(t)].header > limit

IsLimitReached(t) == limit # NoLimit /\ numberOfExecInst > limit

AppendsBlock(t) ==
  /\ call[t][1] = "block"
  /\ lock = NoThread
  /\ ~IsLimitReached(t)
  /\ LET b == call[t][2] IN
       /\ numberOfExecInst' = numberOfExecInst + BlockSize[b]
       /\ AddDynamicRecord(ThreadDataOf(t), <<"block", b>>, BlockSize[b])
       /\ LeaveRoutine(t, b, call[t][3])
  /\ UNCHANGED <<appVars, lock, threadDataVec, threadCount, memoryTrace,
                 exitVars, readVars>>

ExceedsLimit(t) ==
  /\ call[t][1] = "block"
  /\ lock = NoThread
  /\ IsLimitReached(t)
  /\ lock' = t
  /\ Enter(t, <<"all", "AbruptEnd", 0>>)
  /\ UNCHANGED <<appVars, threadDataVec, threadCount, dynamicTrace, memoryTrace,
                 numberOfExecInst, exitVars, written, readVars>>

AppendToDynamicTrace(t) == ReachesBlock(t) \/ AppendsBlock(t) \/ ExceedsLimit(t)

(***************************************************************************)
(* AppendToMemTrace takes no lock.  The header has the number of           *)
(* operations that are not masked out.                                     *)
(*                                                                         *)
(* Slip: the header counts the masked operations as well.                  *)
(***************************************************************************)
MaskOn(info) ==
  LET upTo[n \in 0 .. Len(info)] ==
        IF n = 0 THEN <<>>
        ELSE IF info[n].maskOn THEN Append(upTo[n - 1], info[n])
        ELSE upTo[n - 1]
  IN  upTo[Len(info)]

AllOps(info) == Len(info)

TotalOps(info) == Len(MaskOn(info))

MemoryRecords(info) ==
  <<<<"header", TotalOps(info)>>>> \o
  [i \in 1 .. Len(MaskOn(info)) |-> <<MaskOn(info)[i].memopType, 0>>]

AddRecords(w, records) ==
  LET upTo[n \in 0 .. Len(records)] ==
        IF n = 0 THEN w ELSE AddRecord(upTo[n - 1], records[n])
  IN  upTo[Len(records)]

AppendToMemTrace(t) ==
  /\ \E b \in Block, rest \in SUBSET {"block"} :
       /\ ToCall(t, "mem", b, rest)
       /\ LeaveRoutine(t, b, rest)
       /\ \E info \in Accesses[b] :
            IF WasThreadCreated(t)
              THEN LET u == ThreadDataOf(t) IN
                   /\ memoryTrace' = [memoryTrace EXCEPT ![u] = AddRecords(@, MemoryRecords(info))]
                   /\ written' = [written EXCEPT ![u].mem = @ \o MemoryRecords(info)]
              ELSE UNCHANGED <<memoryTrace, written>>
  /\ UNCHANGED <<appVars, lock, threadDataVec, threadCount, dynamicTrace,
                 numberOfExecInst, exitVars, readVars>>

-----------------------------------------------------------------------------
(***************************************************************************)
(* OnThreadEvent.  start and end are events of the master only, and are    *)
(* added to its own file first.  Slip: a barrier is treated alike.         *)
(***************************************************************************)
IsAnyBarrier(p) == p \in {"start", "end", "barrier"}

IsMasterEvent(p) == p \in {"start", "end"}

ReachesEvent(t) ==
  /\ \E p \in DOMAIN EventAt :
       /\ IsAt(t, p)
       /\ IF WasThreadCreated(t) /\ (IsMasterEvent(p) => t = 0)
            THEN Enter(t, <<"event", p>>) ELSE Continue(t)
  /\ UNCHANGED <<appVars, lock, threadDataVec, threadCount, dynamicTrace,
                 memoryTrace, numberOfExecInst, exitVars, written, readVars>>

AddsOwnEvent(t) ==
  /\ call[t][1] = "event"
  /\ lock = NoThread
  /\ LET p == call[t][2] IN
       /\ AddDynamicRecord(ThreadDataOf(t), <<"event", EventAt[p]>>, 0)
       /\ IF IsMasterEvent(p)
            THEN lock' = t /\ Enter(t, <<"all", EventAt[p], 1>>)
            ELSE UNCHANGED lock /\ Continue(t)
  /\ UNCHANGED <<appVars, threadDataVec, threadCount, memoryTrace,
                 numberOfExecInst, exitVars, readVars>>

(***************************************************************************)
(* The loops over all writers, of OnThreadEvent and for the abrupt end.    *)
(* Slip: the last writer is left out.                                      *)
(***************************************************************************)
IsBeforeLast(it) == it + 1 < Len(threadDataVec)

IsInVec(it) == it < Len(threadDataVec)

AddsEventToNext(t) ==
  /\ call[t][1] = "all"
  /\ IsInVec(call[t][3])
  /\ AddDynamicRecord(ThreadDataOf(call[t][3]), <<"event", call[t][2]>>, 0)
  /\ Enter(t, <<"all", call[t][2], call[t][3] + 1>>)
  /\ UNCHANGED <<appVars, lock, threadDataVec, threadCount, memoryTrace,
                 numberOfExecInst, exitVars, readVars>>

(***************************************************************************)
(* After the loop the lock is released.  After an abrupt end the thread    *)
(* calls PIN_ExitApplication, which does not return.                       *)
(***************************************************************************)
EndsLoop(t) ==
  /\ call[t][1] = "all"
  /\ ~IsInVec(call[t][3])
  /\ lock' = NoThread
  /\ IF call[t][2] = "AbruptEnd"
       THEN Enter(t, <<"gone">>) /\ exiting' = TRUE
       ELSE Continue(t) /\ UNCHANGED exiting
  /\ UNCHANGED <<appVars, threadDataVec, threadCount, dynamicTrace, memoryTrace,
                 numberOfExecInst, limit, stopped, written, readVars>>

OnThreadEvent(t) ==
  ReachesEvent(t) \/ AddsOwnEvent(t) \/ AddsEventToNext(t) \/ EndsLoop(t)

-----------------------------------------------------------------------------
(***************************************************************************)
(* What the threads do without a routine: they meet at barriers and        *)
(* exclude each other from critical regions.                               *)
(***************************************************************************)
Meets(t) ==
  /\ IsAt(t, "meet")
  /\ \A u \in Thread : pos[u] >= pos[t]
  /\ UNCHANGED owner

Acquires(t) ==
  /\ IsAt(t, "acquire")
  /\ owner = NoThread
  /\ owner' = t

Releases(t) ==
  /\ IsAt(t, "release")
  /\ owner' = NoThread

Synchronises(t) ==
  /\ Meets(t) \/ Acquires(t) \/ Releases(t)
  /\ Continue(t)
  /\ UNCHANGED <<program, lock, threadDataVec, threadCount, dynamicTrace,
                 memoryTrace, numberOfExecInst, exitVars, written, readVars>>

(***************************************************************************)
(* The program exits when thread 0 is through.  Pin stops all threads when *)
(* none is inside of a routine.                                            *)
(***************************************************************************)
Exits ==
  /\ ~exiting
  /\ pos[0] = Len(program) + 1
  /\ exiting' = TRUE
  /\ UNCHANGED <<appVars, pos, call, lock, threadDataVec, threadCount, dynamicTrace,
                 memoryTrace, numberOfExecInst, limit, stopped, written, readVars>>

Stops ==
  /\ exiting /\ ~stopped
  /\ \A t \in Thread : call[t][1] \in {"idle", "rest", "gone"}
  /\ stopped' = TRUE
  /\ UNCHANGED <<appVars, pos, call, lock, threadDataVec, threadCount, dynamicTrace,
                 memoryTrace, numberOfExecInst, limit, exiting, written, readVars>>

(***************************************************************************)
(* OnThreadFini deletes the writers of the thread, which closes its files. *)
(***************************************************************************)
OnThreadFini(t) ==
  /\ stopped
  /\ pos[t] > 0
  /\ WasThreadCreated(t)
  /\ LET u == ThreadDataOf(t) IN
       /\ ~dynamicTrace[u].closed
       /\ dynamicTrace' = [dynamicTrace EXCEPT ![u] = CloseFile(@)]
       /\ memoryTrace' = [memoryTrace EXCEPT ![u] = CloseFile(@)]
  /\ UNCHANGED <<appVars, pos, call, lock, threadDataVec, threadCount,
                 numberOfExecInst, exitVars, written, readVars>>

-----------------------------------------------------------------------------
(***************************************************************************)
(* The simulator reads the files of the threads that the static trace      *)
(* counts, here one after the other, the dynamic one of each before the    *)
(* memory one.                                                             *)
(***************************************************************************)
AreFilesComplete ==
  stopped /\ \A t \in 0 .. threadCount - 1 : dynamicTrace[t].closed

ThreadRead == filesRead \div 2

IsDynamicRead == filesRead % 2 = 0

ReadsRecord ==
  /\ AreFilesComplete
  /\ filesRead < 2 * threadCount
  /\ ~reader.reachedEnd /\ ~reader.failed
  /\ reader' = IF IsDynamicRead
                 THEN ReadDynamicRecord(reader, dynamicTrace[ThreadRead].file)
                 ELSE ReadMemoryRecord(reader, memoryTrace[ThreadRead].file)
  /\ UNCHANGED <<appVars, pos, call, lock, threadDataVec, threadCount, dynamicTrace,
                 memoryTrace, numberOfExecInst, exitVars, written, filesRead>>

OpensNextFile ==
  /\ reader.reachedEnd /\ ~reader.failed
  /\ reader' = NewReader
  /\ filesRead' = filesRead + 1
  /\ UNCHANGED <<appVars, pos, call, lock, threadDataVec, threadCount, dynamicTrace,
                 memoryTrace, numberOfExecInst, exitVars, written>>

Routine(t) ==
  \/ OnThreadStart(t)
  \/ AppendToDynamicTrace(t)
  \/ AppendToMemTrace(t)
  \/ OnThreadEvent(t)
  \/ Synchronises(t)
  \/ OnThreadFini(t)

Next ==
  \/ \E t \in Thread : Routine(t)
  \/ Exits
  \/ Stops
  \/ ReadsRecord
  \/ OpensNextFile

(***************************************************************************)
(* Every thread runs, gets the lock, and Pin ends a program that exits.    *)
(* The points of a program are finitely many, so that weak fairness is     *)
(* enough for the lock.                                                    *)
(***************************************************************************)
Spec ==
  /\ Init /\ [][Next]_tracerVars
  /\ \A t \in Thread : WF_tracerVars(Routine(t))
  /\ WF_tracerVars(Exits \/ Stops)
  /\ WF_tracerVars(ReadsRecord \/ OpensNextFile)

-----------------------------------------------------------------------------
Count(w, record) == Cardinality({i \in DOMAIN w : w[i] = record})

BarrierSync == <<"event", "BarrierSync">>

AbruptEnd == <<"event", "AbruptEnd">>

HasEndedAbruptly == \E t \in Thread : call[t] = <<"gone">>

(***************************************************************************)
(* Type invariant, with the lock and the record arrays: the lock is held   *)
(* exactly by the thread that adds an event to all writers, so that there  *)
(* is one at a time, and a record array has space for the next record,     *)
(* which AddDynamicRecord and AddMemoryRecord do not check.                *)
(***************************************************************************)
TracerInvariant ==
  /\ pos \in [Thread -> 0 .. Len(program) + 1]
  /\ owner \in Thread \cup {NoThread}
  /\ threadDataVec \in Seq(Thread)
  /\ IsInjective(threadDataVec)
  /\ threadCount = Len(threadDataVec)
  /\ numberOfExecInst \in Nat
  /\ stopped => exiting
  /\ filesRead \in 0 .. 2 * TotalThreads
  /\ \A t \in Thread :
       /\ lock = t <=> call[t][1] = "all"
       /\ call[t][1] = "all" => call[t][2] \in Events
       /\ call[t][1] \in {"block", "event"} => t < Len(threadDataVec)
       /\ Len(dynamicTrace[t].recordArray) < RECORD_ARRAY_SIZE
       /\ Len(memoryTrace[t].recordArray) < RECORD_ARRAY_SIZE

(***************************************************************************)
(* A file that is closed tells what was traced: the number of instructions *)
(* in its header, from which the engine knows when the simulation is over, *)
(* is the number of instructions of the blocks in it, and the readers hand *)
(* out all its records in order, across the boundaries of the record       *)
(* arrays, with as many operations as each instruction has.                *)
(***************************************************************************)
InstructionsIn(w) ==
  LET upTo[n \in 0 .. Len(w)] ==
        IF n = 0 THEN 0
        ELSE IF w[n][1] = "block" THEN upTo[n - 1] + BlockSize[w[n][2]]
        ELSE upTo[n - 1]
  IN  upTo[Len(w)]

FilesTellTheTrace ==
  /\ \A t \in Thread : dynamicTrace[t].closed =>
       /\ dynamicTrace[t].headerInFile = InstructionsIn(written[t].dyn)
       /\ memoryTrace[t].headerInFile = 0
  /\ ~reader.failed
  /\ reader.reachedEnd =>
       reader.got = IF IsDynamicRead THEN written[ThreadRead].dyn
                                     ELSE written[ThreadRead].mem

(***************************************************************************)
(* Every file has the same number of barriers in the end, although some    *)
(* barriers are recorded by each thread and others by the master for all:  *)
(* the trace reader opens a barrier when totalThreads records were read.   *)
(***************************************************************************)
BarriersAgree ==
  stopped /\ ~HasEndedAbruptly =>
    /\ threadCount = TotalThreads
    /\ \A t, u \in Thread :
         Count(written[t].dyn, BarrierSync) = Count(written[u].dyn, BarrierSync)

(***************************************************************************)
(* No barrier is inside of a critical region, if the program separates its *)
(* critical regions by a barrier of its own from the start and the end of  *)
(* the parallel region, as test_programs/pi.c does.  (The master records   *)
(* start and end for workers that may be anywhere in the region; the trace *)
(* reader does not come out of a barrier inside of a critical region.)     *)
(***************************************************************************)
IsSeparated ==
  \A i, j \in DOMAIN program :
    program[i] = "cs" /\ program[j] \in {"start", "end"} =>
      \E k \in (i .. j) \cup (j .. i) : program[k] = "barrier"

RegionsHoldNoBarrier ==
  IsSeparated =>
    \A t \in Thread : LET w == written[t].dyn IN
      \A i, j \in DOMAIN w :
        i < j /\ w[i] = <<"event", "CriticalStart">> /\ w[j] = BarrierSync
          => \E k \in i .. j : w[k] = <<"event", "CriticalEnd">>

(***************************************************************************)
(* The limit is exceeded by at most the largest block, and then the end is *)
(* abrupt for all: no file has a block behind an abrupt end, and one       *)
(* without an abrupt end has no block at all.                              *)
(***************************************************************************)
AbruptEndStopsAll ==
  /\ limit # NoLimit =>
       \E b \in Block : numberOfExecInst <= limit + BlockSize[b]
  /\ HasEndedAbruptly /\ lock = NoThread =>
       \A t \in Range(threadDataVec) :
         \A i \in DOMAIN written[t].dyn : written[t].dyn[i][1] = "block" =>
           \E j \in DOMAIN written[t].dyn :
             /\ written[t].dyn[j] = AbruptEnd
             /\ \A k \in 1 .. j : written[t].dyn[k] = AbruptEnd => i < k

(***************************************************************************)
(* The two files of a thread fit: the memory file has a header for every   *)
(* instruction that accesses memory in the blocks of the dynamic file.     *)
(* While a block is executed a header is missing if its routine was first, *)
(* and one is too many if the routine for memory was first: for good if    *)
(* the program is stopped there, or if the limit is found exceeded then.   *)
(* This needs the threads to register in the order of their identifiers:   *)
(* one that comes early has the routine for a block return early and       *)
(* perhaps not the one for its memory operations.                          *)
(***************************************************************************)
InOrder == \A i \in DOMAIN threadDataVec : threadDataVec[i] = i - 1

HeadersTooMany(c) ==
  CASE c[1] = "rest" -> IF c[3] = {"mem"} THEN {-1} ELSE {1}
    [] c[1] = "block" -> IF c[3] = {} /\ Accesses[c[2]] # {} THEN {1} ELSE {0}
    [] c[1] = "gone" \/ (c[1] = "all" /\ c[2] = "AbruptEnd") -> {0, 1}
    [] OTHER -> {0}

MemoryMatchesBlocks ==
  InOrder => \A t \in Thread :
    LET Instructions == {i \in DOMAIN written[t].dyn :
                           /\ written[t].dyn[i][1] = "block"
                           /\ Accesses[written[t].dyn[i][2]] # {}}
        Headers == {i \in DOMAIN written[t].mem : written[t].mem[i][1] = "header"}
    IN Cardinality(Headers) - Cardinality(Instructions) \in HeadersTooMany(call[t])

(***************************************************************************)
(* Tracing ends, normally or abruptly, with all files closed and readable  *)
(* to their ends, given that the threads register in order (otherwise a    *)
(* thread whose predecessor never registered leaves its files open).       *)
(***************************************************************************)
AllFilesComplete ==
  <>[](InOrder => threadCount > 0 /\ filesRead = 2 * threadCount)
=============================================================================
