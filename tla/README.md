# SiNUCA3 in TLA+

SiNUCA3 is a trace-driven simulator of computer architectures.  A pintool
records what a (multi-threaded, OpenMP) program executes; the simulator replays
the recording through *components* - cores, fetchers, predictors, caches,
queues - that a YAML file wires together.  The modules here specify the parts
every simulation depends on: the buffers, the message passing between
components, the reader of the traces, the engine that clocks everything and
hands out instructions, the two fetchers that ask for them, the predictors, the
TLB and the queues around them, and the pintool whose files all of this reads.

## The system

| Part | State | Operations | Interacts with |
|---|---|---|---|
| `CircularBuffer` (`src/utils`) | memory, occupation, size, two indices | Allocate, Enqueue (grows when unbounded), Dequeue, Flush | owned by a connection or a component |
| `Connection`, `Linkable` (`src/engine`) | two request and two response buffers per connection | Connect, send and receive of both kinds, PosClock (swap and flush) | called by the two components it joins, and by the engine |
| `Engine` | components, one buffered instruction per core, end/error flags | Simulate (loop), Clock, Fetch, SendBufferedAndFetch | clocks all components; answers fetch requests from the trace reader |
| `SinucaTraceReader` | per thread: files, block, position, awake flag; counters of open regions and of threads at a barrier | OpenTrace, Fetch, FetchBasicBlock, FetchMemoryData | called by the engine only |
| `Fetcher`, `BoomFetch` | fetch buffer with flags, penalty and interval counters | Clock | engine, predictors, instruction memory |
| Predictors (RAS, BTB, gshare, hardwired) | circular stack; banked entries; counters with history | query, update | fetchers |
| Queue, DelayQueue | delay buffer | Clock | any component |
| iTLB, CacheMemory, policies, simple memories | sets and ways, timestamps, pending requests, penalty | read, write, Clock | cores, fetchers |
| Pintool and trace writers | the registered threads, two files with a record array per thread, the count of instructions, a lock | OnThreadStart, OnThreadFini, OnThreadEvent, AppendToDynamicTrace, AppendToMemTrace | called by the threads of the program; produces what the reader reads |
| SimpleCore, execution unit, simple memories | counters | Clock: answer at once | fetchers, engine |
| Config, YAML parser, Map, Arena | - | parse and build, before the first cycle | engine builder |

The simulator has one thread.  What is hard in it is *simulated* concurrency
and order: components are called one after another but must behave as if
clocked at once; a message lives for one cycle exactly; threads of the trace
put each other to sleep and wake each other up from inside nested calls; an
answer "nothing now" travels through code written for "here is an instruction".
The pintool runs inside the threads of the traced program and is concurrent.

What makes each part correct: a buffer is a FIFO queue whatever the wrapping,
growth and flushing; message passing is synchronous; a core gets the
instructions of its thread once and in order; critical regions exclude and
barriers hold in the replay; the simulation ends; a fetcher neither loses nor
overflows; predictors answer what they were taught; a cache keeps what its
policy says and a miss is answered; queues keep order and time; the files of
all threads agree with each other and with what is read from them.

## Modules

    Fifo              what a CircularBuffer promises
    CircularBuffer    its operations, on a record with the fields of the object
    BufferCalls       one buffer and any calls          implements Fifo
    Connection        four buffers, swap                EXTENDS CircularBuffer
    SynchronousCycle  what message passing promises
    Linkable          components, Clock/PosClock loops  EXTENDS Connection,
                                                        implements SynchronousCycle
    Replay            what the engine expects of a trace reader
    TraceReader       SinucaTraceReader                 implements Replay
    Engine            the engine over the reader        EXTENDS TraceReader
    Fetcher           the fetch unit of a core, with its neighbours
    BranchPredictors  return stack, branch target buffer, saturating counter
    BoomFetch         the fetch unit with both inside   EXTENDS Fetcher,
                                                        BranchPredictors
    CacheMemory       sets, ways and replacement policies
    ITLB              the instruction TLB over it       EXTENDS CacheMemory
    DelayQueue        DelayQueue, and Queue as one without a delay
    TraceFile         record arrays of writers and readers
    Tracer            the pintool in the threads of an OpenMP program
                                                        EXTENDS TraceFile
    *Proofs           theorems of the modules they are named after; those of
                      TraceReader are in EngineProofs, of BoomFetch in
                      FetcherProofs, of TraceFile in TracerProofs
    MC*               instances for TLC

**CircularBuffer.**  The record has the fields of the object; memory is a
function from slots to elements (one slot is `elementSize` bytes), unwritten
memory is a value of its own so that reading it is visible.  `Grow` is the
reallocation with its two copies, written once as "slot i receives the i-th
oldest element".  `LargestSize` bounds growth where the program would run out
of memory.

**Connection, Linkable.**  `connections[k]["request"][SOURCE_ID]` is
`requestBuffers[SOURCE_ID]` of connection k.  `EnterClock`, `Send`, `Receive`
and `ReturnFromClock` are the run of one component's `Clock`, whose sends and
receives are any sequence: what a component does with messages is not
restricted.  `PosClock` is one call of `Linkable::PosClock`.  The order of the
components is left open in both loops, although the program has a fixed one:
the specification shows that none matters.  Every connection has two distinct
roles: `User` called Connect, `Owner` holds it and swaps it.

**TraceReader.**  One step per call of `Fetch` that does not read records, and
one step per record `FetchBasicBlock` reads.  `reading` is the thread it reads
for (`NoThread`: no call is active), `answer` is the return value and the packet.
The contents of the files are not fixed in advance: a read returns any record
that may come next in the trace of an OpenMP program - regions are closed by
who opened them, no barrier lies inside one, all threads come to `Barriers`
barriers - or a damaged one if `DamagedFiles`.  `recordsRead`, `depth` and
`arrived` are history variables that say what was read; no code depends on
them.  An abrupt end may come anywhere.  A file that is truncated or missing
records of one thread is not a trace of that kind and is not modelled.

The counters `criticalCont` and `barrierCont` are static variables of
`FetchBasicBlock` in the code; the model starts them at 0, as in a process with
one reader.

**Engine.**  `SetupCall`/`SetupReturns` are `SetupSimulation`; `Receives`,
`ClockCall`, `ReaderStep` and `ClockReturns` are `Clock`, `Fetch` and
`SendBufferedAndFetch`, split where the reader is called; `EndOfCycle` is the
rest of the loop of `Simulate`.  Connections are not repeated here: `Linkable`
shows that they deliver a request one cycle later and forget a response after
one cycle, so that the model lets the core ask for anything in `Requests` and
empties `responses` at the end of a cycle.  `fresh` and `lastSent` are history.

**Fetcher.**  Each helper of `Fetcher::Clock` is an action, `step` the one that
is called next; the end of `Clock` is split into the three ways it deals with
penalties.  `Elsewhere` is what engine and predictor do in the same cycle, and
the swap.  A channel is what is written in this cycle and what was written in
the last; a request therefore is answered two cycles after it was made, and an
answer the fetcher does not receive in its cycle is gone - the model keeps this
round trip exactly, since the three special cycles of a penalty depend on it.
The memory takes whatever it is sent.  A predictor is absent, prompt (answers
in the cycle in which it gets the query, as `HardwiredPredictor` and
`GsharePredictor` do) or late (answers in order, whenever it likes), and right
or wrong.  Interval, penalty, predictor and the sizes of the instructions are
variables that never change, so that one run covers all their combinations.

**BoomFetch, BranchPredictors.**  The predictors are operators on their states;
`BoomFetch` owns one of each and calls them from its helpers, so that a request
written in one cycle is handled and its answer read in the next.  As in
`Fetcher` each helper of `Clock` is an action; the actions of the penalty, of
the reception and of the requests are those of `Fetcher`, because the code is
the same.  Here instructions have addresses, kinds and targets: `Code` is a
static program, `Walks` are its executions.  `stale` is what is left in the
unused places of the buffer, since the scans of the code are bounded by flags
and not by the number of entries.  `rasFlushed` is history.  What the code does
that may surprise: a call pushes the address it leads to, not the one behind it
(`boom_fetch.cpp:108`); the stack takes one request in a cycle and the others
are flushed; a new branch target entry keeps the counter of its bank and the
other banks of the block it replaces; three silent predictors are a
misprediction, one right answer of three is none.

**CacheMemory, ITLB.**  The cache is a record with the lines, the ages of LRU
and the turns of round robin; `Write` is the set of the caches that may result,
since a random victim is any way.  A step of `ITLB` is a cycle: one request of
every connection is received, then the penalty is paid, or ends, or the next
request hits or misses.  `received` and `responses` are history.

**DelayQueue.**  Each iteration of the two loops of `Clock` is an action.  The
buffer inside is a sequence, as `BufferImplementsFifo` allows.  Both ways of
losing a message are modelled: the output is full, or the delay buffer is, and
what is still in the connections is then flushed.

**TraceFile, Tracer.**  `TraceFile` has the writers' record array, which is
written to the file when it is full and when the file is closed, and the
readers' one, which is filled from the file.  In `Tracer` what a routine does
under `threadAnalysisLock` is one step, except for the loops that append an
event to the files of all threads; what it asks before it takes the lock, and
`AppendToMemTrace`, which takes none, are steps of their own.  A block has at
most one instruction that accesses memory, and its routine comes before or
behind the one of the block, which `OnTrace` puts anywhere into the block
(`IPOINT_ANYWHERE`, line 456 of the pintool).  `written` is history.  External,
and modelled from how the pintool uses them: the program is a sequence of
points that all threads run; libgomp has teams of one size, whose workers start
once thread 0 waits in `gomp_team_start`; an exit stops the threads while they
are outside of the routines, and `OnThreadFini` comes after that.  Writes to the
files succeed.  There are at most three threads: with four, the unsigned
difference in `WasThreadCreated` is not 0 for a thread that comes before two
others have registered, and its routines would index the vector past its end.

## Runs

| Run | Instance | Shows |
|---|---|---|
| `BufferCalls` | 2 messages; a bounded buffer of 3 slots; an unbounded one from 2 slots, growing up to 8 | the indices stay consistent; the buffer is a FIFO queue (`Fifo`) |
| `Linkable` | 2 components, connected both ways, sizes 1 and unbounded (from 1 slot up to 2), 3 cycles | well-formedness; no component disturbs what another one reads in this cycle; `SynchronousCycle` is implemented |
| `TraceReader` | 3 threads, 2 barriers, up to 6 records each, nested regions, damaged files | consistency; mutual exclusion of regions; barriers hold; `Replay` is implemented |
| `Engine` | 2 cores, 2 threads, 2 barriers, 6 records each; requests of 0 or 3 bytes, 3 response slots | a packet names its successor; none is dropped; a core is never served from an empty buffer; `Simulate` returns |
| `Fetcher` | buffer of 4 bytes; intervals 1-3, penalties 1-4; no, prompt and late predictor; all programs of 5 instructions of 1 or 3 bytes | order in the buffer; responses meet the right entries; space; with which parameters nothing is lost and everything is delivered |
| `BoomFetch` | buffer of 4 bytes; intervals and penalties 1-3; 2 entries of 1 or 2 banks, a stack of 2; all executions of 11 instructions of a loop with two nested calls; a prompt predictor | the assertions on responses; no loop leaves the buffer; the stack is one; a hit of a jump has its target; nothing is lost and everything is delivered |
| `ITLB` | 2 clients, 3 pages, 5 requests; 1 set of 2 ways or 2 sets of 1; all policies; penalties 1 and 2 | every request answered once and in order; what LRU and round robin keep; the queue is served |
| `DelayQueue` | delays 0-3, throughputs 0-2 (0: unlimited), bursts of up to 3, 7 cycles | one queue in two places; on time and in order; after `delay` quiet cycles nothing is lost |
| `Tracer` | 3 threads, 3 programs, 2 blocks, with and without a limit; arrays of 2 records | the files tell the trace; their barriers agree; no barrier in a region; an abrupt end stops all; memory and blocks fit; tracing ends |
| `BarrierMeetsRegion` | 2 threads, regions may start while a thread waits at a barrier | violation, see below |
| `NopSendsAgain` | as `Engine`, undamaged files | violation, see below |
| `BufferOverrun` | buffer of 4 bytes, interval 1, penalty 3, prompt predictor, 10 instructions of 1 or 3 bytes | violation, see below |

Bounds.  Two messages tell order apart from loss and duplication; a buffer of 3
slots wraps at every offset and one of 2 grows twice, once with a wrapped start.
Three cycles let a message be written, swapped, read and flushed, and the buffer
be used again on the other side.  Three threads are the least for which "one
arrived", "all but one arrived" and "all arrived" differ, two barriers the least
for reuse of the counter, 6 records the least for a nested region besides two
barriers.  In the engine run a request of 3 bytes over instructions of 1 and 2
bytes gives the loop zero, one or two rounds.  In the fetcher run a request is
answered by nothing, one, two or three instructions, five instructions are
enough for requests to overlap with two successive penalties, and the penalties
lie on both sides of the three cycles that the code treats specially.  Five
instructions are too few for the overrun of `BufferOverrun`, which has ten; in
buffers of 2 and 3 bytes TLC finds none with ten either.  That `HasSpace` excepts
these parameters, and no others, was found by proving it for every size.

Eleven instructions of the program in `MCBoomFetch` go around its loop with and
without the calls, start with a return for which nothing was pushed, and make
the branches compete for the entries.  Five requests for three pages evict in
every order from two ways, and queue up behind a penalty.  Seven cycles fill
the longest delay line with a burst and see it empty again.  Three threads let
two workers register in either order; the programs of `MCTracer` are one like
`test_programs/pi.c`, one whose critical region has no barrier around it, and
one with two parallel regions; with arrays of 2 records the files have several
boundaries, and the operations of one instruction lie on both sides of one.

Deadlock is checked for `TraceReader`, `Fetcher`, `BoomFetch`, `ITLB`,
`DelayQueue` and `Engine` (the last two have an explicit stuttering step for the
end of the simulation).  `BufferCalls` stops where memory is used up, `Linkable`
after `MaxCycle` cycles and `Tracer` when all files were read, hence
`CHECK_DEADLOCK FALSE`.

Fairness (`Engine`).  Weak fairness of the engine's own step: the program keeps
running.  Strong fairness of each core asking for one instruction when it is its
turn: `SimpleCore::Clock` sends a request of 0 in every cycle.  Nothing is
assumed of what the files contain besides their bounded length.  Fairness of
`Fetcher`, `BoomFetch` and `ITLB` is weak fairness of the next step: the engine
keeps calling `Clock`.  In `Tracer` every thread keeps running (weak fairness of
its routines: a program has finitely many points, so that the lock and the
critical region are free for ever in the end), Pin ends a program that exits,
and the files are read.

## Three disagreements

* `BarrierMeetsRegion`: the end of the outermost critical region sets
  `isThreadAwake` of every thread (`trace_reader.cpp:263-268`), also of those
  that sleep at a barrier, and they run past it before the barrier is complete
  - against the code's own account of when a barrier wakes its threads (line
  277).  It needs a thread that enters a region while another one already waits
  at the barrier.  The passing runs therefore set `RegionsMeetBarriers = FALSE`:
  regions start only while all threads have come to the same number of
  barriers.  (With TRUE the engine may also wait for ever: a woken thread
  reaches the next barrier early and the counter mixes arrivals of both.)
* `NopSendsAgain`: `SendBufferedAndFetch` sends the buffered instruction
  before it knows whether the thread had a next one; for a sleeping thread the
  same instruction is sent with every request, and counted as fetched.
* `BufferOverrun`: "We're guaranteed to have space because we asked only enough
  bytes to fill the buffer" (`fetcher.cpp:166`) is wrong for a penalty of 3 with
  the default interval of 1.  In the last cycles of a penalty the fetcher asks
  in every cycle, each time for all free bytes, and an answer comes two cycles
  after the request.  As a rule the engine has few bytes left to send for the
  second request, since instructions follow each other; but if the predictor is
  wrong or silent, which `ClockCheckPredictor` treats the same, the first answer
  arrives in the cycle that starts the next penalty and is flushed, and when
  small instructions follow a large one both other answers are full.
  `ClockFetch` stores them without looking at the size of the buffer.  When they
  fill it, the loop has already written behind its end: it ends with a receive
  that fails, and a failing receive sets the packet it was given to 0
  (`circular_buffer.cpp:130`), here the one behind the last entry.  This is what
  the run shows in a buffer of 4 bytes; in larger ones there may also be more
  instructions than places.  (The model goes on after such a write as if the
  memory behind the array were free.)  `BoomFetch` has the same loop
  (`boom_fetch.cpp:391`); there, in a buffer of 5 bytes, instructions of one byte
  that arrive this way, all of them sent, fill the buffer, and then the scan of
  `boom_fetch.cpp:155` also runs past it.  (The loss itself contradicts the comment on the
  forced requests, `fetcher.cpp:188`: with a penalty of 2 it happens after every
  penalty, with a larger one if the interval is 1.  `SafelyPaced` names the
  parameters with which nothing is lost.)

## What the properties require

Some properties hold under a condition on parameters or programs that the code
does not check.  The conditions are named in the definitions; without them TLC
finds the property violated.

* `RegionsHoldNoBarrier` requires `IsSeparated`: the program has a barrier of
  its own between a critical region and the start and end of the parallel
  region.  The master appends both events to the files of workers that may be
  anywhere in the region, so that otherwise a barrier lies inside a critical
  region of the file.  `TraceReader` assumes traces without such barriers; the
  reader would not come out of one.
* `MemoryMatchesBlocks` and `AllFilesComplete` require `InOrder`: the threads
  register in the order of their identifiers.  `threadDataVec` is indexed by
  identifier but filled in the order of registration; a thread that comes early
  writes to the files of another one or to none, and if its routine for a block
  returns early the one for its memory operations may not.
  `MemoryMatchesBlocks` allows a difference of one header while a thread is
  between the two routines of a block, and for good if the program is stopped
  there, or if the routine for memory was first and the limit is then found
  exceeded.
* `HasSpace`, `LoopsStayInside` and the properties of lost instructions require
  a predictor that answers in the cycle of the query, or none (with a late one a
  full buffer asks for 0 bytes, which the engine reads as "one instruction").
  `HasSpace` and `LoopsStayInside` except the parameters of `BufferOverrun`; the
  properties of lost instructions require `SafelyPaced` parameters.
* `DirectHitsAreRight` is about one bank.  With more a hit may come from a bank
  of the block that had the entry before.
* `RasIsAStack` holds until the first request to the stack is flushed.
* `AnswersInOrder` and `AllAnswered` require a penalty of at least 1: after a
  miss with a penalty of 0 the request is never answered.
* `RecoversFromBursts` speaks of messages that come after `delay` cycles with at
  most `throughput` messages each: a burst loses messages.

## Proofs

TLAPS checks the theorems below for every value of the constants allowed by the
assumptions next to their declarations.

* `BufferIsWellFormed`, `BufferImplementsFifo` (any sizes, any elements).  The
  inductive invariant is `WellFormed` itself: `endOfBuffer` is the slot after
  the last element and every occupied slot was written.  The lemmas of
  `CircularBufferProofs` say what each operation does to `Contents`; `Grow`
  leaves it unchanged, which is the heart of the FIFO refinement.
* `LinkableIsWellFormed`, `ClockOrderIsInvisible`, `LinkableIsSynchronous` (any
  components, connections and sizes).  The refinement maps connections that
  were not yet swapped in the PosClock loop to what they will be after it: the
  abstract cycle ends with the last `Clock`.
* `ReaderIsConsistent`, `RegionsExclude` (any number of threads and traces).
  The invariant of the first needs the second and conversely
  (`ReaderInductive`): a thread whose records are read is awake because no other
  thread can be in a region, and that is so because others sleep.  The counter
  of regions is tied to the history (`RegionsCounted`).
* `BarriersAreBarriers` (assumes `~RegionsMeetBarriers`).  `BarrierInductive`:
  the arrivals of two threads differ by at most one, those ahead are exactly the
  sleeping ones counted by `barrierCont`, and there are none while a region is
  open.
* `ReaderReplays`: the reader implements `Replay`, the rest of a thread's block
  being the abstract queue.
* `EngineIsConsistent`, `PacketsAreChained` (any cores, requests and traces).
  `EngineInductive` adds to the reader's invariant what the engine knows of an
  answer, where its loops are, and that the last packet of a core names what is
  in its buffer (`PacketsInductive`).  `EngineReplaysTraces`: an engine step is a
  step of the reader or leaves it alone, so that the four theorems above hold of
  the reader inside the engine.
* `NothingIsDropped` assumes `SlotsSuffice`: an instruction has at least a byte
  and no request is for more bytes than there are slots for responses (0 slots:
  unbounded).  `ResponsesInductive` bounds the responses by the bytes counted.
* `QueueIsOneQueue`, `QueueIsOnTimeInOrder` (any delay, throughput and
  messages).  `QueueInductive`: what is in the queue is numbered in the order of
  arrival, due `delay` cycles after it and not overdue, and what left it came
  before.  `QueueRecoversFromBursts` needs counting: the messages in the queue
  came in at most `delay` cycles, each with at most `throughput` of them, which
  is what the buffer holds (`BurstInductive`).
* `ITLBAnswersInOrder`, `CacheHoldsPagesOnce` (any clients, geometry, policy
  and penalty).  What was answered, what is being answered and what is pending
  make up what was received; a page is written only when it was not found, in
  the set where it is looked for (`CacheInductive`), also if the number of sets
  is not a power of two and is rounded.
* `LruIsLru`, `TurnsAreFifo` (the same constants).  Every lookup is reduced to
  the one way it touches (`ClockLooksUp`: found, first empty, or victim).  For
  LRU, `LruFits` gives each valid way the position of the last lookup of its
  page, the ages being in the reverse order of the positions, and every page
  that was looked up is held or older than all that are; counting the pages
  since a lookup then makes the set the last pages (`LruHoldsTheNewest`).  For
  round robin, `QueueInWays` lays the queue into the ways from the one whose
  turn it is, which is the first until the set is full.
* `FetcherIsInOrder`, `PredictionsBelongToTheHead` (any sizes, interval,
  penalty and kind of predictor).  `FetcherInductive`: the flags are those of
  three prefixes of the buffer, and the responses of the predictor, what it was
  asked, and the queries on their way continue each other along the buffer
  (`Pipelined`).
* `TheBufferHasSpace`, `NoInstructionIsLost` (the same constants).  Both need
  the round trip of a request cycle by cycle: `FetcherPaced` says which of the
  requests made in this cycle and in the last one are still unanswered, given
  the counters of the penalty and of the interval, and bounds the bytes in the
  buffer together with those that are on their way.  For the bytes, the size of
  a part of the program is the sum of the sizes of its parts.  The bound is strict,
  for the sake of the failing receive: an answer has fewer instructions than the
  buffer has places, and the next one finds the buffer empty.  What
  `FetcherAccounted` adds is that delivered, buffered and arriving instructions
  are the numbers 1, 2, ... without a gap, which holds because with `SafelyPaced`
  parameters no answer is readable in a cycle that does not receive.
* `BoomTypeCorrect`, `AnswersReachTheFirst` (any program, execution, sizes,
  interval, penalty and predictors).  `BoomInductive`: the entries are in the
  order of the program, their flags agree with their kinds, and those sent and
  those predicted lead; the responses of the predictor, what it was asked and
  the queries on their way are together the entries that were sent and are not
  yet predicted, in their order; and the queries that the branch target buffer
  reads next are those of the entries that await it, so that its responses,
  which skip the updates between them, are for the first of these.
* `DirectHitsLead` (the same constants).  `TargetsAreRight`: with one bank an
  entry of the table is empty or holds the address, the target and the type that
  were added for one and the same branch of the execution, whatever was queried
  or replaced in between.  The table after the requests of a cycle is a recursive
  function of their number; that it stays right is proved along it.
* `RasAnswersTheCall` (the same constants, any number of entries of the stack).
  The circular array, which does not know how many of its entries are in use,
  holds from its top down what an abstract stack of that size holds (`Holds`),
  also after it has gone around or was popped while empty.
  `DeliveredFirst` and `RasFollows`: the array has done the calls and returns
  among the first so many delivered instructions, and, until one of them is
  flushed, the requests on their way are exactly those of the others.
* `TracerIsConsistent` (any programs, blocks, record arrays and limits, up to
  three threads).  `TracerInductive`: a thread that runs has registered, once,
  and the call it is in tells whether it holds the lock and where in the vector
  it may look.  That a thread that counts as created has an entry in the vector
  needs the bound of three threads.
* `AbruptEndIsForAll`.  `AbruptInductive`: a thread that has begun the abrupt
  end saw the limit exceeded, from then on no block is written, and the loop has
  marked the files before its iterator.  What is added last, when the limit was
  reached but not exceeded, is at most the largest block.
* `TwoFilesMatch` compares the cardinalities of the two sets of records:
  whatever the order of the two routines, their difference is told by the call
  the thread is in (`HeadersTooMany`).
* `FilesAreFaithful`.  `FilesInductive`: file and record array together are what
  was traced, the header is the sum of the blocks, in the memory file every
  header announces just the operations behind it (`Announces`), and a reader has
  handed out a prefix of the file that its offset and index determine.
* `TheBarriersAgree`, `NoBarrierInARegion` assume `TeamAssumption`: all threads
  meet before the first region, a barrier is recorded before the threads meet at
  it, and no barrier lies inside a critical region of the program, as in every
  program that libgomp runs.  `TeamInductive` says where the threads are
  (`PlacesFit`: a routine is called at its point of the program, and no thread is
  through a meeting before all have come to it), so that all threads are
  registered at an event of the team; that the barriers in a file are those the
  thread has passed, those the master has passed for all, and the one the master
  is just adding, if its loop has come by (`BarriersFit`); and that a file in
  which a region is open belongs to a thread in its region (`RegionFits`).  When
  the program is over no loop is active and everyone has passed every barrier.

Recursive functions (`MaskOn`, `AddRecords`, `InstructionsIn`, `NewRequests`,
`QueueOf`) are local to their operators, so that each has a lemma that the
function exists and one on what it computes.  The induction theorems of the library cannot be
instantiated by the provers; these lemmas use instead that a nonempty set of
numbers has a least element (`LeastNumber`, `Induction`).

Only model-checked:

* all liveness, which is beyond the prover, as `ENABLED` is;
* `LoopsStayInside` and `BoomLosesNothing` of `BoomFetch`.  TLC was also run with
  buffers of 1 to 7 bytes and penalties up to 5.  Both are about how
  many bytes are in the buffer or on their way in each cycle of a penalty, as
  the two theorems on the space of `Fetcher`, but here an entry leaves when three
  predictors, which flush what they do not read, have answered; the first is also
  about the flags left in places that are no longer used.

No module declares a RECURSIVE operator.

## Plan

1. Done: buffers, message passing, trace reader, engine, fetchers, predictors,
   TLB and cache, queues, tracer and its files; proofs of every safety
   invariant that a run checks but the two named above.
2. Left: those two, on top of a counting invariant like `FetcherPaced`.

## Not modelled

* SimpleCore, the execution unit and the simple memories answer what they are
  asked in the same cycle and keep only counters; the models of their
  neighbours use this.
* The gshare predictor: the program cannot instantiate it.  The hardwired
  predictor is an answer that is right or wrong.
* Configuration, YAML parsing, Map and Arena, logging: sequential, before the
  first cycle, and without state that the simulation changes.
* The static trace, and decoding of instructions: written by instrumentation
  that Pin serialises and read in one pass; in the models a constant.
* Writes that fail in the pintool: `OnThreadEvent` then returns with the lock
  held.  Teams of different sizes: `OnThreadFini` leaves a pointer to deleted
  writers.  Both are listed as hazards without a property.
* Addresses above 2^32 in `BoomFetch` (`boom_fetch.cpp:315` keeps one in an
  `unsigned int`).
* Intel Pin with its libraries, which is vendored in the repository and by far
  the largest part of its lines, is external.
