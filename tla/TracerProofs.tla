---------------------------- MODULE TracerProofs ----------------------------
(***************************************************************************)
(* The pintool, for every program, every size of the blocks and of the     *)
(* record arrays and every limit: the lock and the record arrays are used  *)
(* as they should be, an abrupt end ends all files, the two files of a     *)
(* thread fit, the simulator reads back what was traced, the barriers of   *)
(* all files agree, and none is inside of a critical region.               *)
(***************************************************************************)
EXTENDS Tracer, FiniteSetTheorems, SequenceTheorems, WellFoundedInduction, TLAPS

(***************************************************************************)
(* The routines of block b that may still be to come.                      *)
(***************************************************************************)
MayRemain(b, rest) ==
  rest = {} \/ (Accesses[b] # {} /\ rest \in {{"mem"}, {"block"}})

BlockCalls == {c \in {"block"} \X Block \X {{}, {"mem"}} : MayRemain(c[2], c[3])}

RestCalls == {c \in {"rest"} \X Block \X {{"mem"}, {"block"}} : MayRemain(c[2], c[3])}

Calls ==
  {Idle, <<"start">>, <<"gone">>}
    \cup BlockCalls \cup RestCalls
    \cup ({"event"} \X DOMAIN EventAt)
    \cup ({"all"} \X Events \X Nat)

DynamicRecord == ({"block"} \X Block) \cup ({"event"} \X Events)

MemoryRecord == ({"header"} \X Nat) \cup ({"load", "store"} \X {0})

Writer(R) ==
  [file : Seq(R), recordArray : Seq(R), header : Nat, headerInFile : Nat, closed : BOOLEAN]

HasSpaceIn(w) == Len(w.recordArray) < RECORD_ARRAY_SIZE

(***************************************************************************)
(* The threads, the lock and the vector of the threads.                    *)
(***************************************************************************)
IsRegistered(t) == \E i \in 1 .. Len(threadDataVec) : threadDataVec[i] = t

CallFits(t) ==
  /\ lock = t <=> call[t][1] = "all"
  /\ call[t] = <<"start">> => pos[t] = 0
  /\ call[t][1] \in {"block", "rest", "event", "all"} => pos[t] \in 1 .. Len(program)
  /\ call[t][1] \in {"block", "event"} => t < Len(threadDataVec)
  /\ t # 0 /\ (pos[t] > 0 \/ call[t] # Idle) => pos[0] > 0

ThreadsFit ==
  /\ program \in Seq(Points)
  /\ pos \in [Thread -> 0 .. Len(program) + 1]
  /\ call \in [Thread -> Calls]
  /\ lock \in Thread \cup {NoThread}
  /\ owner \in Thread \cup {NoThread}
  /\ threadDataVec \in Seq(Thread)
  /\ threadCount = Len(threadDataVec)
  /\ \A i, j \in 1 .. Len(threadDataVec) : threadDataVec[i] = threadDataVec[j] => i = j
  /\ \A t \in Thread : IsRegistered(t) <=> pos[t] > 0
  /\ \A t \in Thread : CallFits(t)

(***************************************************************************)
(* The files and what is known of the end.                                 *)
(***************************************************************************)
FilesFit ==
  /\ dynamicTrace \in [Thread -> Writer(DynamicRecord)]
  /\ memoryTrace \in [Thread -> Writer(MemoryRecord)]
  /\ \A t \in Thread : HasSpaceIn(dynamicTrace[t]) /\ HasSpaceIn(memoryTrace[t])
  /\ written \in [Thread -> [dyn : Seq(DynamicRecord), mem : Seq(MemoryRecord)]]
  /\ numberOfExecInst \in Nat
  /\ limit \in Nat \cup {NoLimit}

EndFits ==
  /\ exiting \in BOOLEAN /\ stopped \in BOOLEAN
  /\ stopped => exiting
  /\ filesRead \in 0 .. 2 * threadCount
  /\ reader.reachedEnd => filesRead < 2 * threadCount

TracerInductive == ThreadsFit /\ FilesFit /\ EndFits

(***************************************************************************)
(* The abrupt end.  A thread that has begun it has seen the limit exceeded *)
(* and no block is written from then on; the loop over the writers has     *)
(* come to its iterator.                                                   *)
(***************************************************************************)
IsLimitExceeded == limit # NoLimit /\ numberOfExecInst > limit

EndsAbruptly(t) == call[t][1] = "all" /\ call[t][2] = "AbruptEnd"

HasAbruptEnd(t) == \E j \in DOMAIN written[t].dyn : written[t].dyn[j] = AbruptEnd

HasBlock(t) == \E i \in DOMAIN written[t].dyn : written[t].dyn[i][1] = "block"

BlocksComeFirst(t) ==
  \A i, j \in DOMAIN written[t].dyn :
    written[t].dyn[i][1] = "block" /\ written[t].dyn[j] = AbruptEnd => i < j

LimitFits ==
  limit # NoLimit => \E b \in Block : numberOfExecInst <= limit + BlockSize[b]

AbruptFits(t) ==
  /\ call[t] = <<"gone">> \/ EndsAbruptly(t) \/ HasAbruptEnd(t) => IsLimitExceeded
  /\ BlocksComeFirst(t)
  /\ pos[t] = 0 => ~HasBlock(t)
  /\ EndsAbruptly(t) =>
       \A i \in 1 .. Len(threadDataVec) :
         i <= call[t][3] => HasAbruptEnd(threadDataVec[i])
  /\ HasEndedAbruptly /\ HasBlock(t) => HasAbruptEnd(t)

AbruptInductive == LimitFits /\ \A t \in Thread : AbruptFits(t)

(***************************************************************************)
(* The files and their readers.  Announces(w, d): in a memory file with    *)
(* the records w, d[k] operations are due after the first k records.       *)
(***************************************************************************)
Content(w) == IF w.closed THEN w.file ELSE w.file \o w.recordArray

Announces(w, d) ==
  /\ d \in [0 .. Len(w) -> Nat]
  /\ d[0] = 0 /\ d[Len(w)] = 0
  /\ \A k \in 1 .. Len(w) :
       IF w[k][1] = "header" THEN d[k - 1] = 0 /\ d[k] = w[k][2]
                             ELSE d[k - 1] # 0 /\ d[k] = d[k - 1] - 1

ContentFits(t) ==
  /\ Content(dynamicTrace[t]) = written[t].dyn
  /\ Content(memoryTrace[t]) = written[t].mem
  /\ dynamicTrace[t].header = InstructionsIn(written[t].dyn)
  /\ memoryTrace[t].header = 0
  /\ dynamicTrace[t].closed <=> memoryTrace[t].closed
  /\ dynamicTrace[t].closed =>
       /\ stopped
       /\ dynamicTrace[t].headerInFile = dynamicTrace[t].header
       /\ memoryTrace[t].headerInFile = 0
  /\ \E d : Announces(written[t].mem, d)

StopFits ==
  stopped => \A t \in Thread : call[t][1] \in {"idle", "rest", "gone"}

ReaderState ==
  [offset : Nat, numberOfRecordsRead : Nat, recordArrayIndex : Nat, left : Nat,
   reachedEnd : BOOLEAN, failed : BOOLEAN, got : Seq(DynamicRecord \cup MemoryRecord)]

HasRead(r, w, k) ==
  k \in 0 .. Len(w) /\ Len(r.got) = k /\ \A i \in 1 .. k : r.got[i] = w[i]

DynamicReaderFits(r, w) ==
  /\ r.offset <= Len(w)
  /\ r.numberOfRecordsRead <= r.offset
  /\ IF r.reachedEnd \/ r.numberOfRecordsRead = 0
       THEN HasRead(r, w, r.offset) /\ (r.reachedEnd => r.offset = Len(w))
       ELSE /\ r.recordArrayIndex < r.numberOfRecordsRead
            /\ HasRead(r, w, r.offset - r.numberOfRecordsRead + r.recordArrayIndex + 1)

MemoryReaderFits(r, w, d) ==
  LET k == r.offset - r.numberOfRecordsRead + r.recordArrayIndex IN
  /\ r.offset <= Len(w)
  /\ r.numberOfRecordsRead <= r.offset
  /\ r.recordArrayIndex <= r.numberOfRecordsRead
  /\ HasRead(r, w, k)
  /\ r.left = d[k]
  /\ r.reachedEnd => k = Len(w)

ReaderFits ==
  /\ reader \in ReaderState
  /\ ~reader.failed
  /\ reader # NewReader =>
       /\ AreFilesComplete /\ filesRead < 2 * threadCount
       /\ IF IsDynamicRead
            THEN DynamicReaderFits(reader, written[ThreadRead].dyn)
            ELSE \E d : /\ Announces(written[ThreadRead].mem, d)
                        /\ MemoryReaderFits(reader, written[ThreadRead].mem, d)

FilesInductive == StopFits /\ (\A t \in Thread : ContentFits(t)) /\ ReaderFits
-----------------------------------------------------------------------------
(***************************************************************************)
(* Numbers and sequences.                                                  *)
(***************************************************************************)
LEMMA LeastNumber ==
  ASSUME NEW T \in SUBSET Nat, T # {}
  PROVE  \E x \in T : \A y \in T : x <= y
<1> DEFINE R == {ss \in Nat \X Nat : ss[1] < ss[2]}
<1>1. IsWellFoundedOn(R, Nat)
  BY NatLessThanWellFounded DEF OpToRel
<1>2. \A x, y \in Nat : y < x => <<y, x>> \in R
  OBVIOUS
<1> HIDE DEF R
<1>3. PICK x \in T : \A y \in T : ~(<<y, x>> \in R)
  BY <1>1, WFMin
<1>4. \A y \in T : x <= y
  <2> TAKE y \in T
  <2>1. x \in Nat /\ y \in Nat
    OBVIOUS
  <2>2. ~(y < x)
    BY <1>2, <1>3, <2>1, Zenon
  <2> QED BY <2>1, <2>2
<1> QED BY <1>4

LEMMA Induction ==
  ASSUME NEW S \in SUBSET Nat, 0 \in S, \A n \in S : n + 1 \in S
  PROVE  S = Nat
<1> SUFFICES ASSUME Nat \ S # {} PROVE FALSE
  OBVIOUS
<1>1. PICK x \in Nat \ S : \A y \in Nat \ S : x <= y
  BY LeastNumber
<1> QED BY <1>1, x - 1 \in Nat, x - 1 \in S

(***************************************************************************)
(* MaskOn and AddRecords go through a sequence: what they define exists.   *)
(***************************************************************************)
MaskStep(info, f, n) ==
  IF n = 0 THEN <<>>
  ELSE IF info[n].maskOn THEN Append(f[n - 1], info[n])
  ELSE f[n - 1]

LEMMA MaskExists ==
  ASSUME NEW info, Len(info) \in Nat
  PROVE  \E f : f = [n \in 0 .. Len(info) |-> MaskStep(info, f, n)]
<1> DEFINE S == {k \in Nat : \E f : f = [n \in 0 .. k |-> MaskStep(info, f, n)]}
<1>1. 0 \in S
  <2> DEFINE f == [n \in 0 .. 0 |-> <<>>]
  <2>1. f = [n \in 0 .. 0 |-> MaskStep(info, f, n)]
    <3>1. \A n \in 0 .. 0 : n = 0
      OBVIOUS
    <3> QED BY <3>1 DEF MaskStep
  <2> HIDE DEF f
  <2> QED BY <2>1
<1>2. ASSUME NEW k \in S PROVE k + 1 \in S
  <2>1. k \in Nat
    OBVIOUS
  <2>2. PICK f : f = [n \in 0 .. k |-> MaskStep(info, f, n)]
    OBVIOUS
  <2> DEFINE g == [n \in 0 .. k + 1 |-> IF n = k + 1 THEN MaskStep(info, f, n) ELSE f[n]]
  <2>3. \A n \in 0 .. k : f[n] = MaskStep(info, f, n)
    BY <2>2
  <2>4. \A n \in 0 .. k : g[n] = f[n]
    BY <2>1
  <2>5. \A n \in 0 .. k + 1 : g[n] = MaskStep(info, f, n)
    <3> TAKE n \in 0 .. k + 1
    <3>1. CASE n = k + 1
      BY <3>1
    <3>2. CASE n # k + 1
      <4>1. n \in 0 .. k
        BY <2>1, <3>2
      <4> QED BY <2>3, <2>4, <4>1
    <3> QED BY <3>1, <3>2
  <2>6. \A n \in 0 .. k + 1 : MaskStep(info, g, n) = MaskStep(info, f, n)
    <3> TAKE n \in 0 .. k + 1
    <3>1. CASE n = 0
      BY <3>1 DEF MaskStep
    <3>2. CASE n # 0
      <4>1. n - 1 \in 0 .. k
        BY <2>1, <3>2
      <4>2. g[n - 1] = f[n - 1]
        BY <2>4, <4>1
      <4> HIDE DEF g
      <4> QED BY <4>2 DEF MaskStep
    <3> QED BY <3>1, <3>2
  <2>7. g = [n \in 0 .. k + 1 |-> g[n]]
    OBVIOUS
  <2> HIDE DEF g
  <2>8. g = [n \in 0 .. k + 1 |-> MaskStep(info, g, n)]
    BY <2>5, <2>6, <2>7
  <2>9. k + 1 \in Nat
    BY <2>1
  <2> QED BY <2>8, <2>9
<1>3. S \in SUBSET Nat
  OBVIOUS
<1> HIDE DEF S
<1>4. Len(info) \in S
  BY <1>1, <1>2, <1>3, Induction
<1> QED BY <1>4 DEF S

LEMMA MaskType ==
  ASSUME NEW info \in Seq(MemoryOp)
  PROVE  MaskOn(info) \in Seq(MemoryOp)
<1>0. Len(info) \in Nat /\ \A n \in 1 .. Len(info) : info[n] \in MemoryOp
  BY ElementOfSeq, LenProperties
<1> DEFINE upTo == CHOOSE f : f = [n \in 0 .. Len(info) |-> MaskStep(info, f, n)]
<1>1. upTo = [n \in 0 .. Len(info) |-> MaskStep(info, upTo, n)]
  BY <1>0, MaskExists
<1>2. MaskOn(info) = upTo[Len(info)]
  BY DEF MaskOn, MaskStep
<1> HIDE DEF upTo
<1>3. \A n \in 0 .. Len(info) : upTo[n] = MaskStep(info, upTo, n)
  BY <1>1
<1> DEFINE S == {n \in Nat : n <= Len(info) => upTo[n] \in Seq(MemoryOp)}
<1>4. 0 \in S
  <2>1. 0 \in 0 .. Len(info)
    BY <1>0
  <2>2. MaskStep(info, upTo, 0) = <<>>
    BY DEF MaskStep
  <2>3. upTo[0] = <<>>
    BY <1>3, <2>1, <2>2, Zenon
  <2>4. upTo[0] \in Seq(MemoryOp)
    BY <2>3, EmptySeq, Zenon
  <2> QED BY <2>4
<1>5. ASSUME NEW n \in S PROVE n + 1 \in S
  <2> SUFFICES ASSUME n + 1 <= Len(info) PROVE upTo[n + 1] \in Seq(MemoryOp)
    OBVIOUS
  <2>1. n \in Nat /\ upTo[n] \in Seq(MemoryOp)
    BY <1>0
  <2>2. n + 1 \in 1 .. Len(info) /\ n + 1 \in 0 .. Len(info)
    BY <1>0, <2>1
  <2>3. (n + 1) - 1 = n /\ n + 1 # 0
    BY <2>1
  <2>4. upTo[n + 1] = MaskStep(info, upTo, n + 1)
    BY <1>3, <2>2
  <2>5. info[n + 1] \in MemoryOp
    BY <1>0, <2>2
  <2>6. upTo[n + 1] = upTo[n] \/ upTo[n + 1] = Append(upTo[n], info[n + 1])
    BY <2>3, <2>4 DEF MaskStep
  <2>7. Append(upTo[n], info[n + 1]) \in Seq(MemoryOp)
    BY <2>1, <2>5, AppendProperties
  <2> QED BY <2>1, <2>6, <2>7
<1>6. S \in SUBSET Nat
  OBVIOUS
<1> HIDE DEF S
<1>7. Len(info) \in S
  BY <1>0, <1>4, <1>5, <1>6, Induction
<1> QED BY <1>0, <1>2, <1>7 DEF S
StepRecord(w, records, f, n) == IF n = 0 THEN w ELSE AddRecord(f[n - 1], records[n])

LEMMA AddRecordsExist ==
  ASSUME NEW w, NEW records, Len(records) \in Nat
  PROVE  \E f : f = [n \in 0 .. Len(records) |-> StepRecord(w, records, f, n)]
<1> DEFINE S == {k \in Nat : \E f : f = [n \in 0 .. k |-> StepRecord(w, records, f, n)]}
<1>1. 0 \in S
  <2> DEFINE f == [n \in 0 .. 0 |-> w]
  <2>1. f = [n \in 0 .. 0 |-> StepRecord(w, records, f, n)]
    <3>1. \A n \in 0 .. 0 : n = 0
      OBVIOUS
    <3> QED BY <3>1 DEF StepRecord
  <2> HIDE DEF f
  <2> QED BY <2>1
<1>2. ASSUME NEW k \in S PROVE k + 1 \in S
  <2>1. k \in Nat
    OBVIOUS
  <2>2. PICK f : f = [n \in 0 .. k |-> StepRecord(w, records, f, n)]
    OBVIOUS
  <2> DEFINE g == [n \in 0 .. k + 1 |-> IF n = k + 1 THEN StepRecord(w, records, f, n) ELSE f[n]]
  <2>3. \A n \in 0 .. k : f[n] = StepRecord(w, records, f, n)
    BY <2>2
  <2>4. \A n \in 0 .. k : g[n] = f[n]
    BY <2>1
  <2>5. \A n \in 0 .. k + 1 : g[n] = StepRecord(w, records, f, n)
    <3> TAKE n \in 0 .. k + 1
    <3>1. CASE n = k + 1
      BY <3>1
    <3>2. CASE n # k + 1
      <4>1. n \in 0 .. k
        BY <2>1, <3>2
      <4> QED BY <2>3, <2>4, <4>1
    <3> QED BY <3>1, <3>2
  <2>6. \A n \in 0 .. k + 1 : StepRecord(w, records, g, n) = StepRecord(w, records, f, n)
    <3> TAKE n \in 0 .. k + 1
    <3>1. CASE n = 0
      BY <3>1 DEF StepRecord
    <3>2. CASE n # 0
      <4>1. n - 1 \in 0 .. k
        BY <2>1, <3>2
      <4>2. g[n - 1] = f[n - 1]
        BY <2>4, <4>1
      <4> HIDE DEF g
      <4> QED BY <4>2 DEF StepRecord
    <3> QED BY <3>1, <3>2
  <2>7. g = [n \in 0 .. k + 1 |-> g[n]]
    OBVIOUS
  <2> HIDE DEF g
  <2>8. g = [n \in 0 .. k + 1 |-> StepRecord(w, records, g, n)]
    BY <2>5, <2>6, <2>7
  <2>9. k + 1 \in Nat
    BY <2>1
  <2> QED BY <2>8, <2>9
<1>3. S \in SUBSET Nat
  OBVIOUS
<1> HIDE DEF S
<1>4. Len(records) \in S
  BY <1>1, <1>2, <1>3, Induction
<1> QED BY <1>4 DEF S

(***************************************************************************)
(* A writer with space in its record array has space after every record:   *)
(* CheckRecordArray empties an array that has become full.                 *)
(***************************************************************************)
LEMMA AddRecordFits ==
  ASSUME NEW R, NEW w \in Writer(R), NEW record \in R, HasSpaceIn(w)
  PROVE  AddRecord(w, record) \in Writer(R) /\ HasSpaceIn(AddRecord(w, record))
<1> DEFINE v == [w EXCEPT !.recordArray = Append(@, record)]
<1>1. w.recordArray \in Seq(R) /\ w.file \in Seq(R) /\ Len(w.recordArray) \in Nat
  BY LenProperties DEF Writer
<1>2. /\ Append(w.recordArray, record) \in Seq(R)
      /\ Len(Append(w.recordArray, record)) = Len(w.recordArray) + 1
  BY <1>1, AppendProperties
<1>3. v \in Writer(R) /\ v.recordArray = Append(w.recordArray, record)
  BY <1>2 DEF Writer
<1>4. AddRecord(w, record) = CheckRecordArray(v)
  BY DEF AddRecord
<1> HIDE DEF v
<1>5. RECORD_ARRAY_SIZE \in Nat \ {0}
  BY TraceFileAssumption
<1>6. CASE IsRecordArrayFull(v)
  <2> DEFINE u == FlushRecordArray(v)
  <2>1. v.file \o v.recordArray \in Seq(R)
    BY <1>3, ConcatProperties DEF Writer
  <2>2. u \in Writer(R)
    BY <1>3, <2>1 DEF FlushRecordArray, Writer
  <2> HIDE DEF u
  <2>3. <<>> \in Seq(R) /\ Len(<<>>) = 0
    OBVIOUS
  <2>4. ResetRecordArray(u) \in Writer(R) /\ ResetRecordArray(u).recordArray = <<>>
    BY <2>2, <2>3 DEF ResetRecordArray, Writer
  <2>5. CheckRecordArray(v) = ResetRecordArray(u)
    BY <1>6 DEF CheckRecordArray, u
  <2> QED BY <1>4, <1>5, <2>3, <2>4, <2>5 DEF HasSpaceIn
<1>7. CASE ~IsRecordArrayFull(v)
  <2>1. CheckRecordArray(v) = v
    BY <1>7 DEF CheckRecordArray
  <2>2. Len(v.recordArray) # RECORD_ARRAY_SIZE
    BY <1>7 DEF IsRecordArrayFull
  <2>3. Len(v.recordArray) < RECORD_ARRAY_SIZE
    BY <1>1, <1>2, <1>3, <1>5, <2>2 DEF HasSpaceIn
  <2> QED BY <1>3, <1>4, <2>1, <2>3 DEF HasSpaceIn
<1> QED BY <1>6, <1>7

LEMMA AddRecordsFit ==
  ASSUME NEW R, NEW w \in Writer(R), NEW records \in Seq(R), HasSpaceIn(w)
  PROVE  AddRecords(w, records) \in Writer(R) /\ HasSpaceIn(AddRecords(w, records))
<1>0. Len(records) \in Nat /\ \A n \in 1 .. Len(records) : records[n] \in R
  BY ElementOfSeq, LenProperties
<1> DEFINE upTo == CHOOSE f : f = [n \in 0 .. Len(records) |-> StepRecord(w, records, f, n)]
<1>1. upTo = [n \in 0 .. Len(records) |-> StepRecord(w, records, upTo, n)]
  BY <1>0, AddRecordsExist
<1>2. AddRecords(w, records) = upTo[Len(records)]
  BY DEF AddRecords, StepRecord
<1> HIDE DEF upTo
<1>3. \A n \in 0 .. Len(records) : upTo[n] = StepRecord(w, records, upTo, n)
  BY <1>1
<1> DEFINE S == {n \in Nat : n <= Len(records) => upTo[n] \in Writer(R) /\ HasSpaceIn(upTo[n])}
<1>4. 0 \in S
  <2>1. 0 \in 0 .. Len(records)
    BY <1>0
  <2>2. upTo[0] = w
    BY <1>3, <2>1 DEF StepRecord
  <2> QED BY <2>2
<1>5. ASSUME NEW n \in S PROVE n + 1 \in S
  <2> SUFFICES ASSUME n + 1 <= Len(records)
               PROVE upTo[n + 1] \in Writer(R) /\ HasSpaceIn(upTo[n + 1])
    OBVIOUS
  <2>1. n \in Nat /\ upTo[n] \in Writer(R) /\ HasSpaceIn(upTo[n])
    BY <1>0
  <2>2. n + 1 \in 1 .. Len(records) /\ n + 1 \in 0 .. Len(records)
    BY <1>0, <2>1
  <2>3. (n + 1) - 1 = n /\ n + 1 # 0
    BY <2>1
  <2>4. upTo[n + 1] = AddRecord(upTo[n], records[n + 1])
    BY <1>3, <2>2, <2>3 DEF StepRecord
  <2>5. records[n + 1] \in R
    BY <1>0, <2>2
  <2> QED BY <2>1, <2>4, <2>5, AddRecordFits
<1>6. S \in SUBSET Nat
  OBVIOUS
<1> HIDE DEF S
<1>7. Len(records) \in S
  BY <1>0, <1>4, <1>5, <1>6, Induction
<1> QED BY <1>0, <1>2, <1>7 DEF S

(***************************************************************************)
(* The records of an instruction are one header and its operations.        *)
(***************************************************************************)
LEMMA MemoryRecordsFit ==
  ASSUME NEW info \in Seq(MemoryOp)
  PROVE  /\ MemoryRecords(info) \in Seq(MemoryRecord)
         /\ Len(MemoryRecords(info)) \in Nat \ {0}
         /\ MemoryRecords(info)[1][1] = "header"
         /\ MemoryRecords(info)[1][2] = Len(MemoryRecords(info)) - 1
         /\ \A i \in 2 .. Len(MemoryRecords(info)) : MemoryRecords(info)[i][1] # "header"
<1> DEFINE on  == MaskOn(info)
           ops == [i \in 1 .. Len(on) |-> <<on[i].memopType, 0>>]
<1>1. on \in Seq(MemoryOp)
  BY MaskType
<1> HIDE DEF on
<1>2. Len(on) \in Nat /\ \A i \in 1 .. Len(on) : on[i] \in MemoryOp
  BY <1>1, ElementOfSeq, LenProperties
<1>3. \A i \in 1 .. Len(on) : <<on[i].memopType, 0>> \in {"load", "store"} \X {0}
  BY <1>2 DEF MemoryOp
<1>4. ops \in Seq({"load", "store"} \X {0}) /\ Len(ops) = Len(on)
  BY <1>2, <1>3
<1> DEFINE h == <<<<"header", Len(on)>>>>
<1>5. h \in Seq({"header"} \X Nat) /\ Len(h) = 1 /\ h[1] = <<"header", Len(on)>>
  BY <1>2
<1>6. MemoryRecords(info) = h \o ops
  BY DEF MemoryRecords, TotalOps, on
<1>7. \A i \in 1 .. Len(ops) : ops[i] \in {"load", "store"} \X {0}
  BY <1>3, <1>4
<1> HIDE DEF h, ops
<1>8. h \in Seq(MemoryRecord) /\ ops \in Seq(MemoryRecord)
  <2>1. {"header"} \X Nat \subseteq MemoryRecord /\ {"load", "store"} \X {0} \subseteq MemoryRecord
    BY DEF MemoryRecord
  <2> QED BY <1>4, <1>5, <2>1
<1>9. /\ h \o ops \in Seq(MemoryRecord)
      /\ Len(h \o ops) = 1 + Len(on)
      /\ \A i \in 1 .. Len(h \o ops) : (h \o ops)[i] = IF i <= 1 THEN h[i] ELSE ops[i - 1]
  <2>1. /\ h \o ops \in Seq(MemoryRecord)
        /\ Len(h \o ops) = Len(h) + Len(ops)
        /\ \A i \in 1 .. Len(h) + Len(ops) :
             (h \o ops)[i] = IF i <= Len(h) THEN h[i] ELSE ops[i - Len(h)]
    BY <1>8, ConcatProperties
  <2> QED BY <1>4, <1>5, <2>1
<1>10. (h \o ops)[1] = <<"header", Len(on)>>
  BY <1>2, <1>5, <1>9
<1>11. \A i \in 2 .. Len(h \o ops) : (h \o ops)[i][1] # "header"
  <2> TAKE i \in 2 .. Len(h \o ops)
  <2>1. i \in 1 .. Len(h \o ops) /\ ~(i <= 1) /\ i - 1 \in 1 .. Len(ops)
    BY <1>2, <1>4, <1>9
  <2>2. (h \o ops)[i] \in {"load", "store"} \X {0}
    BY <1>7, <1>9, <2>1
  <2> QED BY <2>2
<1> QED BY <1>2, <1>6, <1>9, <1>10, <1>11
-----------------------------------------------------------------------------
(***************************************************************************)
(* What a call has, by its kind.                                           *)
(***************************************************************************)
LEMMA CallShapes ==
  ASSUME NEW c \in Calls
  PROVE  /\ c[1] \in {"idle", "start", "gone", "block", "rest", "event", "all"}
         /\ c[1] \in {"block", "rest"} => c[2] \in Block /\ MayRemain(c[2], c[3])
         /\ c[1] = "block" => c[3] \in {{}, {"mem"}}
         /\ c[1] = "rest" => c[3] \in {{"mem"}, {"block"}}
         /\ c[1] = "event" => c[2] \in DOMAIN EventAt
         /\ c[1] = "all" => c[2] \in Events /\ c[3] \in Nat
         /\ c[1] = "gone" <=> c = <<"gone">>
         /\ c[1] = "start" <=> c = <<"start">>
         /\ c[1] = "idle" <=> c = Idle
<1> HIDE DEF EventAt
<1>1. CASE c \in {Idle, <<"start">>, <<"gone">>}
  BY <1>1 DEF Idle
<1>2. CASE c \in BlockCalls
  <2>1. c[1] = "block" /\ c[2] \in Block /\ c[3] \in {{}, {"mem"}} /\ MayRemain(c[2], c[3])
    BY <1>2 DEF BlockCalls
  <2> QED BY <2>1 DEF Idle
<1>3. CASE c \in RestCalls
  <2>1. /\ c[1] = "rest" /\ c[2] \in Block
        /\ c[3] \in {{"mem"}, {"block"}} /\ MayRemain(c[2], c[3])
    BY <1>3 DEF RestCalls
  <2> QED BY <2>1 DEF Idle
<1>4. CASE c \in {"event"} \X DOMAIN EventAt
  <2>1. c[1] = "event" /\ c[2] \in DOMAIN EventAt
    BY <1>4
  <2> QED BY <2>1 DEF Idle
<1>5. CASE c \in {"all"} \X Events \X Nat
  <2>1. c[1] = "all" /\ c[2] \in Events /\ c[3] \in Nat
    BY <1>5
  <2> QED BY <2>1 DEF Idle
<1> QED BY <1>1, <1>2, <1>3, <1>4, <1>5 DEF Calls

LEMMA CallsHave ==
  /\ Idle \in Calls /\ <<"start">> \in Calls /\ <<"gone">> \in Calls
  /\ \A b \in Block, rest \in {{}, {"mem"}} :
       MayRemain(b, rest) => <<"block", b, rest>> \in Calls
  /\ \A b \in Block, rest \in {{"mem"}, {"block"}} :
       MayRemain(b, rest) => <<"rest", b, rest>> \in Calls
  /\ \A p \in DOMAIN EventAt : <<"event", p>> \in Calls
  /\ \A e \in Events, n \in Nat : <<"all", e, n>> \in Calls
<1> HIDE DEF EventAt
<1>1. Idle \in Calls /\ <<"start">> \in Calls /\ <<"gone">> \in Calls
  BY DEF Calls
<1>2. ASSUME NEW b \in Block, NEW rest \in {{}, {"mem"}}, MayRemain(b, rest)
      PROVE  <<"block", b, rest>> \in Calls
  <2> DEFINE c == <<"block", b, rest>>
  <2>1. c \in {"block"} \X Block \X {{}, {"mem"}} /\ c[2] = b /\ c[3] = rest
    OBVIOUS
  <2> HIDE DEF c
  <2>2. c \in BlockCalls
    BY <1>2, <2>1 DEF BlockCalls
  <2>3. c \in Calls
    BY <2>2, Zenon DEF Calls
  <2> QED BY <2>3 DEF c
<1>3. ASSUME NEW b \in Block, NEW rest \in {{"mem"}, {"block"}}, MayRemain(b, rest)
      PROVE  <<"rest", b, rest>> \in Calls
  <2> DEFINE c == <<"rest", b, rest>>
  <2>1. c \in {"rest"} \X Block \X {{"mem"}, {"block"}} /\ c[2] = b /\ c[3] = rest
    OBVIOUS
  <2> HIDE DEF c
  <2>2. c \in RestCalls
    BY <1>3, <2>1 DEF RestCalls
  <2>3. c \in Calls
    BY <2>2, Zenon DEF Calls
  <2> QED BY <2>3 DEF c
<1>4. ASSUME NEW p \in DOMAIN EventAt PROVE <<"event", p>> \in Calls
  <2>1. <<"event", p>> \in {"event"} \X DOMAIN EventAt
    OBVIOUS
  <2> QED BY <2>1, Zenon DEF Calls
<1>5. ASSUME NEW e \in Events, NEW n \in Nat PROVE <<"all", e, n>> \in Calls
  <2>1. <<"all", e, n>> \in {"all"} \X Events \X Nat
    OBVIOUS
  <2> QED BY <2>1, Zenon DEF Calls
<1> QED BY <1>1, <1>2, <1>3, <1>4, <1>5

(***************************************************************************)
(* Where a routine of a block is called, and what may come after it.       *)
(***************************************************************************)
LEMMA RoutineIsCalled ==
  ASSUME call \in [Thread -> Calls], NEW t \in Thread, NEW b \in Block, NEW r, NEW rest,
         ToCall(t, r, b, rest)
  PROVE  /\ ~stopped
         /\ \/ /\ call[t] = Idle /\ call[t][1] = "idle"
               /\ pos[t] \in DOMAIN program /\ program[pos[t]] = "block"
               /\ rest = RoutinesOf(b) \ {r}
            \/ call[t][1] = "rest" /\ call[t][3] = {r} /\ rest = {} /\ Accesses[b] # {}
         /\ r = "block" => rest \in {{}, {"mem"}} /\ MayRemain(b, rest)
         /\ r = "mem" => rest \in {{}, {"block"}} /\ MayRemain(b, rest) /\ Accesses[b] # {}
<1>1. CASE IsAt(t, "block") /\ r \in RoutinesOf(b) /\ rest = RoutinesOf(b) \ {r}
  <2>1. /\ ~stopped /\ call[t] = Idle /\ call[t][1] = "idle"
        /\ pos[t] \in DOMAIN program /\ program[pos[t]] = "block"
    BY <1>1 DEF IsAt, Idle
  <2>2. CASE Accesses[b] = {}
    <3>1. r = "block" /\ rest = {}
      BY <1>1, <2>2 DEF RoutinesOf
    <3> QED BY <1>1, <2>1, <3>1 DEF MayRemain
  <2>3. CASE Accesses[b] # {}
    <3>1. RoutinesOf(b) = {"block", "mem"}
      BY <2>3 DEF RoutinesOf
    <3>2. r = "block" => rest = {"mem"}
      BY <1>1, <3>1
    <3>3. r = "mem" => rest = {"block"}
      BY <1>1, <3>1
    <3> QED BY <1>1, <2>1, <2>3, <3>2, <3>3 DEF MayRemain
  <2> QED BY <2>2, <2>3
<1>2. CASE ~stopped /\ call[t] = <<"rest", b, {r}>> /\ rest = {}
  <2>1. call[t][1] = "rest" /\ call[t][2] = b /\ call[t][3] = {r}
    BY <1>2
  <2>2. MayRemain(b, {r})
    BY <2>1, CallShapes
  <2>3. Accesses[b] # {}
    BY <2>2 DEF MayRemain
  <2> QED BY <1>2, <2>1, <2>3 DEF MayRemain
<1> QED BY <1>1, <1>2 DEF ToCall

(***************************************************************************)
(* WasThreadCreated tells less than its name, but with up to three threads *)
(* it is enough: the master registers first or second, so that a thread    *)
(* that is registered and does not find the vector as long as its          *)
(* identifier finds it longer.                                             *)
(***************************************************************************)
LEMMA CreatedIsInVec ==
  ASSUME ThreadsFit, NEW t \in Thread, pos[t] > 0, WasThreadCreated(t)
  PROVE  t < Len(threadDataVec) /\ ThreadDataOf(t) \in Thread
<1>1. TotalThreads \in 1 .. 3
  BY TracerAssumption
<1>2. t \in {0, 1, 2} /\ 0 \in Thread
  BY <1>1 DEF Thread
<1>3. threadDataVec \in Seq(Thread) /\ Len(threadDataVec) \in Nat
  BY LenProperties DEF ThreadsFit
<1>4. Len(threadDataVec) # t
  BY <1>2, <1>3 DEF WasThreadCreated
<1>5. PICK i \in 1 .. Len(threadDataVec) : threadDataVec[i] = t
  BY DEF ThreadsFit, IsRegistered
<1>6. t < Len(threadDataVec)
  <2>1. CASE t \in {0, 1}
    BY <1>3, <1>4, <1>5, <2>1
  <2>2. CASE t = 2
    <3>1. pos[0] > 0
      BY <2>2 DEF ThreadsFit, CallFits
    <3>2. PICK j \in 1 .. Len(threadDataVec) : threadDataVec[j] = 0
      BY <1>2, <3>1 DEF ThreadsFit, IsRegistered
    <3>3. i # j
      BY <1>5, <2>2, <3>2
    <3> QED BY <1>3, <1>4, <1>5, <2>2, <3>2, <3>3
  <2> QED BY <1>2, <2>1, <2>2
<1>7. t + 1 \in 1 .. Len(threadDataVec)
  BY <1>2, <1>3, <1>6
<1> QED BY <1>3, <1>6, <1>7, ElementOfSeq DEF ThreadDataOf

LEMMA VecIsShort ==
  ASSUME ThreadsFit
  PROVE  Len(threadDataVec) \in 0 .. TotalThreads
<1>1. threadDataVec \in Seq(Thread) /\ Len(threadDataVec) \in Nat
  BY LenProperties DEF ThreadsFit
<1>2. \A i \in 1 .. Len(threadDataVec) : threadDataVec[i] \in 0 .. TotalThreads - 1
  BY <1>1, ElementOfSeq DEF Thread
<1>3. \A i, j \in 1 .. Len(threadDataVec) : threadDataVec[i] = threadDataVec[j] => i = j
  BY DEF ThreadsFit
<1>4. TotalThreads \in {1, 2, 3}
  BY TracerAssumption
<1> SUFFICES ASSUME Len(threadDataVec) > TotalThreads PROVE FALSE
  BY <1>1, <1>4
<1>5. \A i \in 1 .. TotalThreads + 1 : i \in 1 .. Len(threadDataVec)
  BY <1>1, <1>4
<1> DEFINE a == threadDataVec[1]
           b == threadDataVec[2]
           c == threadDataVec[3]
           d == threadDataVec[4]
<1>6. CASE TotalThreads = 1
  <2>1. 1 \in 1 .. TotalThreads + 1 /\ 2 \in 1 .. TotalThreads + 1
    BY <1>6
  <2>2. 1 \in 1 .. Len(threadDataVec) /\ 2 \in 1 .. Len(threadDataVec)
    BY <1>5, <2>1
  <2> QED BY <1>2, <1>3, <1>6, <2>2
<1>7. CASE TotalThreads = 2
  <2>1. 1 \in 1 .. TotalThreads + 1 /\ 2 \in 1 .. TotalThreads + 1 /\ 3 \in 1 .. TotalThreads + 1
    BY <1>7
  <2>2. 1 \in 1 .. Len(threadDataVec) /\ 2 \in 1 .. Len(threadDataVec) /\ 3 \in 1 .. Len(threadDataVec)
    BY <1>5, <2>1
  <2>3. a \in 0 .. 1 /\ b \in 0 .. 1 /\ c \in 0 .. 1
    BY <1>2, <1>7, <2>2
  <2>4. a # b /\ a # c /\ b # c
    BY <1>3, <2>2
  <2> HIDE DEF a, b, c
  <2> QED BY <2>3, <2>4
<1>8. CASE TotalThreads = 3
  <2>1. /\ 1 \in 1 .. TotalThreads + 1 /\ 2 \in 1 .. TotalThreads + 1
        /\ 3 \in 1 .. TotalThreads + 1 /\ 4 \in 1 .. TotalThreads + 1
    BY <1>8
  <2>2. /\ 1 \in 1 .. Len(threadDataVec) /\ 2 \in 1 .. Len(threadDataVec)
        /\ 3 \in 1 .. Len(threadDataVec) /\ 4 \in 1 .. Len(threadDataVec)
    BY <1>5, <2>1
  <2>3. a \in 0 .. 2 /\ b \in 0 .. 2 /\ c \in 0 .. 2 /\ d \in 0 .. 2
    BY <1>2, <1>8, <2>2
  <2>4. a # b /\ a # c /\ a # d /\ b # c /\ b # d /\ c # d
    BY <1>3, <2>2
  <2> HIDE DEF a, b, c, d
  <2> QED BY <2>3, <2>4
<1> QED BY <1>4, <1>6, <1>7, <1>8
-----------------------------------------------------------------------------
(***************************************************************************)
(* A thread that goes from one routine or point to another, with what it   *)
(* must observe for the threads still to fit.                              *)
(***************************************************************************)
LEMMA ThreadMoves ==
  ASSUME ThreadsFit, NEW t \in Thread, NEW c \in Calls, NEW p \in 0 .. Len(program) + 1,
         call' = [call EXCEPT ![t] = c],
         pos' = [pos EXCEPT ![t] = p],
         UNCHANGED <<program, threadDataVec, threadCount>>,
         owner' \in Thread \cup {NoThread},
         lock' \in Thread \cup {NoThread},
         lock' = t <=> c[1] = "all",
         \A u \in Thread \ {t} : lock' = u <=> lock = u,
         pos[t] > 0 <=> p > 0,
         c = <<"start">> => p = 0,
         c[1] \in {"block", "rest", "event", "all"} => p \in 1 .. Len(program),
         c[1] \in {"block", "event"} => t < Len(threadDataVec),
         t # 0 => pos[0] > 0
  PROVE  ThreadsFit'
<1>1. /\ program \in Seq(Points) /\ pos \in [Thread -> 0 .. Len(program) + 1]
      /\ call \in [Thread -> Calls] /\ threadDataVec \in Seq(Thread)
      /\ threadCount = Len(threadDataVec)
      /\ \A i, j \in 1 .. Len(threadDataVec) : threadDataVec[i] = threadDataVec[j] => i = j
      /\ \A u \in Thread : IsRegistered(u) <=> pos[u] > 0
      /\ \A u \in Thread : CallFits(u)
  BY DEF ThreadsFit
<1>2. \A u \in Thread : IsRegistered(u)' <=> IsRegistered(u)
  BY DEF IsRegistered
<1>3. pos' \in [Thread -> 0 .. Len(program) + 1] /\ call' \in [Thread -> Calls]
  BY <1>1
<1>4. pos'[t] = p /\ call'[t] = c
  BY <1>1
<1>5. \A u \in Thread \ {t} : pos'[u] = pos[u] /\ call'[u] = call[u]
  BY <1>1
<1>6. \A u \in Thread : pos'[u] > 0 <=> pos[u] > 0
  BY <1>4, <1>5
<1>7. \A u \in Thread : IsRegistered(u)' <=> pos'[u] > 0
  BY <1>1, <1>2, <1>6
<1>8. 0 \in Thread
  BY TracerAssumption DEF Thread
<1>9. \A u \in Thread : CallFits(u)'
  <2> TAKE u \in Thread
  <2>1. CASE u = t
    BY <1>4, <1>6, <1>8, <2>1 DEF CallFits
  <2>2. CASE u # t
    <3>1. u \in Thread \ {t}
      BY <2>2
    <3>2. CallFits(u) /\ pos'[u] = pos[u] /\ call'[u] = call[u] /\ (lock' = u <=> lock = u)
      BY <1>1, <1>5, <3>1
    <3>3. pos'[0] > 0 <=> pos[0] > 0
      BY <1>6, <1>8
    <3> QED BY <3>2, <3>3 DEF CallFits
  <2> QED BY <2>1, <2>2
<1> QED BY <1>1, <1>3, <1>7, <1>9 DEF ThreadsFit

(***************************************************************************)
(* Enter and Continue of a thread that has started.                        *)
(***************************************************************************)
LEMMA EnterFits ==
  ASSUME ThreadsFit, NEW t \in Thread, NEW c \in Calls, Enter(t, c),
         UNCHANGED <<program, owner, threadDataVec, threadCount>>,
         lock' \in Thread \cup {NoThread},
         lock' = t <=> c[1] = "all",
         \A u \in Thread \ {t} : lock' = u <=> lock = u,
         c = <<"start">> => pos[t] = 0,
         c[1] \in {"block", "rest", "event", "all"} => pos[t] \in 1 .. Len(program),
         c[1] \in {"block", "event"} => t < Len(threadDataVec),
         t # 0 => pos[0] > 0
  PROVE  ThreadsFit'
<1>1. pos \in [Thread -> 0 .. Len(program) + 1] /\ owner \in Thread \cup {NoThread}
  BY DEF ThreadsFit
<1>2. pos' = [pos EXCEPT ![t] = pos[t]] /\ pos[t] \in 0 .. Len(program) + 1
  BY <1>1 DEF Enter
<1>3. call' = [call EXCEPT ![t] = c]
  BY DEF Enter
<1>4. owner' \in Thread \cup {NoThread}
  BY <1>1
<1> QED BY <1>2, <1>3, <1>4, ThreadMoves

LEMMA ContinueFits ==
  ASSUME ThreadsFit, NEW t \in Thread, Continue(t), pos[t] \in 1 .. Len(program),
         UNCHANGED <<program, threadDataVec, threadCount>>,
         owner' \in Thread \cup {NoThread},
         lock' \in Thread \cup {NoThread}, lock' # t,
         \A u \in Thread \ {t} : lock' = u <=> lock = u
  PROVE  ThreadsFit'
<1>1. pos \in [Thread -> 0 .. Len(program) + 1] /\ Len(program) \in Nat
  BY LenProperties DEF ThreadsFit
<1>2. /\ pos' = [pos EXCEPT ![t] = pos[t] + 1]
      /\ pos[t] + 1 \in 0 .. Len(program) + 1
      /\ pos[t] > 0 /\ pos[t] + 1 > 0
  BY <1>1 DEF Continue
<1>3. call' = [call EXCEPT ![t] = Idle] /\ Idle \in Calls
  BY CallsHave DEF Continue
<1>4. Idle[1] = "idle" /\ Idle # <<"start">>
  BY DEF Idle
<1>5. t # 0 => pos[0] > 0
  BY <1>2 DEF ThreadsFit, CallFits
<1> DEFINE p == pos[t] + 1
<1>6. pos' = [pos EXCEPT ![t] = p] /\ p \in 0 .. Len(program) + 1 /\ (pos[t] > 0 <=> p > 0)
  BY <1>2
<1> HIDE DEF p
<1> QED BY <1>3, <1>4, <1>5, <1>6, ThreadMoves

(***************************************************************************)
(* A thread that is at a point has started, and is not in the loop.        *)
(***************************************************************************)
LEMMA StartedThread ==
  ASSUME ThreadsFit, NEW t \in Thread,
         (call[t] = Idle /\ pos[t] \in DOMAIN program) \/ call[t][1] \in {"block", "rest", "event", "all"}
  PROVE  /\ pos[t] \in 1 .. Len(program) /\ pos[t] > 0
         /\ t # 0 => pos[0] > 0
         /\ call[t][1] # "all" => lock # t
         /\ call[t][1] = "all" => lock = t
         /\ call[t] \in Calls
         /\ lock \in Thread \cup {NoThread}
         /\ owner \in Thread \cup {NoThread}
<1>1. /\ program \in Seq(Points) /\ call \in [Thread -> Calls] /\ CallFits(t)
      /\ lock \in Thread \cup {NoThread} /\ owner \in Thread \cup {NoThread}
  BY DEF ThreadsFit
<1>2. DOMAIN program = 1 .. Len(program) /\ Len(program) \in Nat
  BY <1>1, LenProperties
<1>3. pos[t] \in 1 .. Len(program)
  BY <1>1, <1>2 DEF CallFits
<1>4. pos[t] > 0
  BY <1>2, <1>3
<1> QED BY <1>1, <1>3, <1>4 DEF CallFits

(***************************************************************************)
(* A thread that registers.                                                *)
(***************************************************************************)
LEMMA RegisterFits ==
  ASSUME ThreadsFit, NEW t \in Thread, RegistersThread(t)
  PROVE  ThreadsFit'
<1>1. /\ program \in Seq(Points) /\ pos \in [Thread -> 0 .. Len(program) + 1]
      /\ call \in [Thread -> Calls] /\ threadDataVec \in Seq(Thread)
      /\ threadCount = Len(threadDataVec)
      /\ \A i, j \in 1 .. Len(threadDataVec) : threadDataVec[i] = threadDataVec[j] => i = j
      /\ \A u \in Thread : IsRegistered(u) <=> pos[u] > 0
      /\ \A u \in Thread : CallFits(u)
      /\ lock \in Thread \cup {NoThread} /\ owner \in Thread \cup {NoThread}
  BY DEF ThreadsFit
<1>2. /\ call[t] = <<"start">> /\ lock = NoThread
      /\ threadDataVec' = Append(threadDataVec, t) /\ threadCount' = threadCount + 1
      /\ call' = [call EXCEPT ![t] = Idle] /\ pos' = [pos EXCEPT ![t] = pos[t] + 1]
      /\ lock' = lock /\ owner' = owner /\ program' = program
  BY DEF RegistersThread, Continue, appVars
<1>3. pos[t] = 0 /\ Len(program) \in Nat
  BY <1>1, <1>2, LenProperties DEF CallFits
<1>4. /\ threadDataVec' \in Seq(Thread)
      /\ Len(threadDataVec) \in Nat
      /\ Len(threadDataVec') = Len(threadDataVec) + 1
      /\ \A i \in 1 .. Len(threadDataVec) : threadDataVec'[i] = threadDataVec[i]
      /\ threadDataVec'[Len(threadDataVec) + 1] = t
  BY <1>1, <1>2, AppendProperties, LenProperties
<1>5. \A i \in 1 .. Len(threadDataVec) : threadDataVec[i] # t
  BY <1>1, <1>3 DEF IsRegistered
<1>6. \A i, j \in 1 .. Len(threadDataVec') : threadDataVec'[i] = threadDataVec'[j] => i = j
  <2> TAKE i, j \in 1 .. Len(threadDataVec')
  <2>1. /\ i \in 1 .. Len(threadDataVec) \/ i = Len(threadDataVec) + 1
        /\ j \in 1 .. Len(threadDataVec) \/ j = Len(threadDataVec) + 1
    BY <1>4
  <2> QED BY <1>1, <1>4, <1>5, <2>1
<1>7. pos' \in [Thread -> 0 .. Len(program) + 1] /\ pos'[t] = 1 /\ call'[t] = Idle
  BY <1>1, <1>2, <1>3
<1>8. call' \in [Thread -> Calls]
  BY <1>1, <1>2, CallsHave
<1>9. \A u \in Thread \ {t} : pos'[u] = pos[u] /\ call'[u] = call[u]
  BY <1>1, <1>2
<1>10. \A u \in Thread : IsRegistered(u)' <=> pos'[u] > 0
  <2> TAKE u \in Thread
  <2>1. CASE u = t
    <3>1. Len(threadDataVec) + 1 \in 1 .. Len(threadDataVec')
      BY <1>4
    <3> QED BY <1>4, <1>7, <2>1, <3>1 DEF IsRegistered
  <2>2. CASE u # t
    <3>1. IsRegistered(u) => IsRegistered(u)'
      <4> SUFFICES ASSUME NEW i \in 1 .. Len(threadDataVec), threadDataVec[i] = u
                   PROVE IsRegistered(u)'
        BY DEF IsRegistered
      <4>1. i \in 1 .. Len(threadDataVec')
        BY <1>4
      <4> QED BY <1>4, <4>1 DEF IsRegistered
    <3>2. IsRegistered(u)' => IsRegistered(u)
      <4> SUFFICES ASSUME NEW i \in 1 .. Len(threadDataVec'), threadDataVec'[i] = u
                   PROVE IsRegistered(u)
        BY DEF IsRegistered
      <4>1. i \in 1 .. Len(threadDataVec)
        BY <1>4, <2>2
      <4> QED BY <1>4, <4>1 DEF IsRegistered
    <3> QED BY <1>1, <1>9, <2>2, <3>1, <3>2
  <2> QED BY <2>1, <2>2
<1>11. 0 \in Thread /\ NoThread \notin Thread
  BY TracerAssumption DEF Thread
<1>12. \A u \in Thread : CallFits(u)'
  <2> TAKE u \in Thread
  <2>0. pos[0] > 0 => pos'[0] > 0
    BY <1>3, <1>9, <1>11
  <2>1. CASE u = t
    <3>1. t # 0 => pos[0] > 0
      BY <1>1, <1>2 DEF CallFits, Idle
    <3> QED BY <1>2, <1>7, <1>11, <2>0, <2>1, <3>1 DEF CallFits, Idle
  <2>2. CASE u # t
    <3>1. CallFits(u) /\ pos'[u] = pos[u] /\ call'[u] = call[u]
      BY <1>1, <1>9, <2>2
    <3>2. u < Len(threadDataVec) => u < Len(threadDataVec')
      BY <1>4 DEF Thread
    <3> QED BY <1>2, <2>0, <3>1, <3>2 DEF CallFits
  <2> QED BY <2>1, <2>2
<1>13. threadCount' = Len(threadDataVec')
  BY <1>1, <1>2, <1>4
<1> QED BY <1>1, <1>2, <1>4, <1>6, <1>7, <1>8, <1>10, <1>12, <1>13 DEF ThreadsFit
(***************************************************************************)
(* The threads, routine by routine.                                        *)
(***************************************************************************)
LEMMA LeaveRoutineFits ==
  ASSUME ThreadsFit, NEW t \in Thread, NEW b \in Block, NEW rest, MayRemain(b, rest),
         LeaveRoutine(t, b, rest),
         pos[t] \in 1 .. Len(program), lock # t, t # 0 => pos[0] > 0,
         UNCHANGED <<program, owner, lock, threadDataVec, threadCount>>
  PROVE  ThreadsFit'
<1>1. lock \in Thread \cup {NoThread} /\ owner \in Thread \cup {NoThread}
  BY DEF ThreadsFit
<1>2. CASE rest = {}
  <2>1. Continue(t)
    BY <1>2 DEF LeaveRoutine
  <2> QED BY <1>1, <2>1, ContinueFits
<1>3. CASE rest # {}
  <2> DEFINE c == <<"rest", b, rest>>
  <2>1. Enter(t, c)
    BY <1>3 DEF LeaveRoutine
  <2>2. rest \in {{"mem"}, {"block"}}
    BY <1>3 DEF MayRemain
  <2>3. c \in Calls /\ c[1] = "rest" /\ c # <<"start">>
    BY <2>2, CallsHave
  <2> HIDE DEF c
  <2> QED BY <1>1, <2>1, <2>3, EnterFits
<1> QED BY <1>2, <1>3

LEMMA RoutineThreadsFit ==
  ASSUME ThreadsFit, NEW t \in Thread, Routine(t)
  PROVE  ThreadsFit'
<1> DEFINE U == UNCHANGED <<program, threadDataVec, threadCount>>
<1>0. /\ lock \in Thread \cup {NoThread} /\ owner \in Thread \cup {NoThread}
      /\ call \in [Thread -> Calls]
      /\ NoThread \notin Thread /\ 0 \in Thread
  BY TracerAssumption DEF ThreadsFit, Thread
<1>1. CASE StartsThread(t)
  <2>1. Enter(t, <<"start">>) /\ pos[t] = 0 /\ call[t] = Idle
    BY <1>1 DEF StartsThread
  <2>2. U /\ UNCHANGED <<owner, lock>>
    BY <1>1 DEF StartsThread, appVars
  <2>3. t # 0 => pos[0] > 0
    <3>1. t # 0 => \E i \in 1 .. pos[0] : program[i] = "meet"
      BY <1>1 DEF StartsThread
    <3>2. pos[0] \in Int
      BY <1>0 DEF ThreadsFit
    <3> QED BY <3>1, <3>2
  <2>4. lock # t
    BY <2>1 DEF ThreadsFit, CallFits, Idle
  <2>5. <<"start">> \in Calls /\ <<"start">>[1] = "start"
    BY CallsHave
  <2> QED BY <1>0, <2>1, <2>2, <2>3, <2>4, <2>5, EnterFits
<1>2. CASE RegistersThread(t)
  BY <1>2, RegisterFits
<1>3. CASE ReachesBlock(t)
  <2>1. PICK b \in Block, rest \in SUBSET {"mem"} :
          /\ ToCall(t, "block", b, rest)
          /\ IF WasThreadCreated(t) THEN Enter(t, <<"block", b, rest>>)
                                    ELSE LeaveRoutine(t, b, rest)
    BY <1>3 DEF ReachesBlock
  <2>2. U /\ UNCHANGED <<owner, lock>>
    BY <1>3 DEF ReachesBlock, appVars
  <2>3. /\ (call[t] = Idle /\ pos[t] \in DOMAIN program) \/ call[t][1] = "rest"
        /\ rest \in {{}, {"mem"}} /\ MayRemain(b, rest)
    BY <1>0, <2>1, RoutineIsCalled
  <2>4. pos[t] \in 1 .. Len(program) /\ pos[t] > 0 /\ (t # 0 => pos[0] > 0) /\ lock # t
    BY <2>3, StartedThread DEF Idle
  <2>5. CASE WasThreadCreated(t)
    <3> DEFINE c == <<"block", b, rest>>
    <3>1. Enter(t, c)
      BY <2>1, <2>5
    <3>2. t < Len(threadDataVec)
      BY <2>4, <2>5, CreatedIsInVec
    <3>3. c \in Calls /\ c[1] = "block" /\ c # <<"start">>
      BY <2>3, CallsHave
    <3> HIDE DEF c
    <3> QED BY <1>0, <2>2, <2>4, <3>1, <3>2, <3>3, EnterFits
  <2>6. CASE ~WasThreadCreated(t)
    BY <2>1, <2>2, <2>3, <2>4, <2>6, LeaveRoutineFits
  <2> QED BY <2>5, <2>6
<1>4. CASE AppendsBlock(t)
  <2>1. call[t][1] = "block" /\ LeaveRoutine(t, call[t][2], call[t][3])
    BY <1>4 DEF AppendsBlock
  <2>2. U /\ UNCHANGED <<owner, lock>>
    BY <1>4 DEF AppendsBlock, appVars
  <2>3. pos[t] \in 1 .. Len(program) /\ (t # 0 => pos[0] > 0) /\ lock # t
    BY <2>1, StartedThread
  <2>4. call[t][2] \in Block /\ MayRemain(call[t][2], call[t][3])
    BY <1>0, <2>1, CallShapes
  <2> QED BY <2>1, <2>2, <2>3, <2>4, LeaveRoutineFits
<1>5. CASE ExceedsLimit(t)
  <2>1. /\ call[t][1] = "block" /\ lock = NoThread /\ lock' = t
        /\ Enter(t, <<"all", "AbruptEnd", 0>>)
    BY <1>5 DEF ExceedsLimit
  <2>2. U /\ UNCHANGED owner
    BY <1>5 DEF ExceedsLimit, appVars
  <2>3. pos[t] \in 1 .. Len(program) /\ (t # 0 => pos[0] > 0)
    BY <2>1, StartedThread
  <2> DEFINE c == <<"all", "AbruptEnd", 0>>
  <2>4. c \in Calls /\ c[1] = "all" /\ c # <<"start">>
    BY CallsHave DEF Events
  <2>5. Enter(t, c)
    BY <2>1
  <2> HIDE DEF c
  <2> QED BY <1>0, <2>1, <2>2, <2>3, <2>4, <2>5, EnterFits
<1>6. CASE AppendToMemTrace(t)
  <2>1. PICK b \in Block, rest \in SUBSET {"block"} :
          ToCall(t, "mem", b, rest) /\ LeaveRoutine(t, b, rest)
    BY <1>6 DEF AppendToMemTrace
  <2>2. U /\ UNCHANGED <<owner, lock>>
    BY <1>6 DEF AppendToMemTrace, appVars
  <2>3. /\ (call[t] = Idle /\ pos[t] \in DOMAIN program) \/ call[t][1] = "rest"
        /\ MayRemain(b, rest)
    BY <1>0, <2>1, RoutineIsCalled
  <2>4. pos[t] \in 1 .. Len(program) /\ (t # 0 => pos[0] > 0) /\ lock # t
    BY <2>3, StartedThread DEF Idle
  <2> QED BY <2>1, <2>2, <2>3, <2>4, LeaveRoutineFits
<1>7. CASE ReachesEvent(t)
  <2>1. PICK p \in DOMAIN EventAt :
          /\ IsAt(t, p)
          /\ IF WasThreadCreated(t) /\ (IsMasterEvent(p) => t = 0)
               THEN Enter(t, <<"event", p>>) ELSE Continue(t)
    BY <1>7 DEF ReachesEvent
  <2>2. U /\ UNCHANGED <<owner, lock>>
    BY <1>7 DEF ReachesEvent, appVars
  <2>3. pos[t] \in 1 .. Len(program) /\ pos[t] > 0 /\ (t # 0 => pos[0] > 0) /\ lock # t
    BY <2>1, StartedThread DEF Idle, IsAt
  <2>4. CASE WasThreadCreated(t) /\ (IsMasterEvent(p) => t = 0)
    <3>1. Enter(t, <<"event", p>>)
      BY <2>1, <2>4
    <3>2. t < Len(threadDataVec)
      BY <2>3, <2>4, CreatedIsInVec
    <3>3. <<"event", p>> \in Calls /\ <<"event", p>>[1] = "event" /\ <<"event", p>> # <<"start">>
      BY CallsHave
    <3> QED BY <1>0, <2>2, <2>3, <3>1, <3>2, <3>3, EnterFits
  <2>5. CASE ~(WasThreadCreated(t) /\ (IsMasterEvent(p) => t = 0))
    <3>1. Continue(t)
      BY <2>1, <2>5
    <3> QED BY <1>0, <2>2, <2>3, <3>1, ContinueFits
  <2> QED BY <2>4, <2>5
<1>8. CASE AddsOwnEvent(t)
  <2> DEFINE p == call[t][2]
             c == <<"all", EventAt[p], 1>>
  <2>1. /\ call[t][1] = "event" /\ lock = NoThread
        /\ IF IsMasterEvent(p) THEN lock' = t /\ Enter(t, c)
                               ELSE UNCHANGED lock /\ Continue(t)
    BY <1>8 DEF AddsOwnEvent
  <2>2. U /\ UNCHANGED owner
    BY <1>8 DEF AddsOwnEvent, appVars
  <2>3. pos[t] \in 1 .. Len(program) /\ (t # 0 => pos[0] > 0)
    BY <2>1, StartedThread
  <2>4. CASE IsMasterEvent(p)
    <3>1. EventAt[p] = "BarrierSync"
      BY <2>4 DEF IsMasterEvent, EventAt
    <3>2. c \in Calls /\ c[1] = "all" /\ c # <<"start">>
      BY <3>1, CallsHave DEF Events
    <3>3. lock' = t /\ Enter(t, c)
      BY <2>1, <2>4
    <3> HIDE DEF c
    <3> QED BY <1>0, <2>1, <2>2, <2>3, <3>2, <3>3, EnterFits
  <2>5. CASE ~IsMasterEvent(p)
    <3>1. UNCHANGED lock /\ Continue(t)
      BY <2>1, <2>5
    <3> QED BY <1>0, <2>1, <2>2, <2>3, <3>1, ContinueFits
  <2> QED BY <2>4, <2>5
<1>9. CASE AddsEventToNext(t)
  <2> DEFINE c == <<"all", call[t][2], call[t][3] + 1>>
  <2>1. call[t][1] = "all" /\ Enter(t, c)
    BY <1>9 DEF AddsEventToNext
  <2>2. U /\ UNCHANGED <<owner, lock>>
    BY <1>9 DEF AddsEventToNext, appVars
  <2>3. pos[t] \in 1 .. Len(program) /\ (t # 0 => pos[0] > 0) /\ lock = t
    BY <2>1, StartedThread
  <2>4. call[t][2] \in Events /\ call[t][3] + 1 \in Nat
    BY <1>0, <2>1, CallShapes
  <2>5. c \in Calls /\ c[1] = "all" /\ c # <<"start">>
    BY <2>4, CallsHave
  <2> HIDE DEF c
  <2> QED BY <1>0, <2>1, <2>2, <2>3, <2>5, EnterFits
<1>10. CASE EndsLoop(t)
  <2>1. /\ call[t][1] = "all" /\ lock' = NoThread
        /\ IF call[t][2] = "AbruptEnd" THEN Enter(t, <<"gone">>) /\ exiting' = TRUE
                                       ELSE Continue(t) /\ UNCHANGED exiting
    BY <1>10 DEF EndsLoop
  <2>2. U /\ UNCHANGED owner
    BY <1>10 DEF EndsLoop, appVars
  <2>3. pos[t] \in 1 .. Len(program) /\ (t # 0 => pos[0] > 0) /\ lock = t
    BY <2>1, StartedThread
  <2>4. CASE call[t][2] = "AbruptEnd"
    <3>1. Enter(t, <<"gone">>)
      BY <2>1, <2>4
    <3>2. <<"gone">> \in Calls /\ <<"gone">>[1] = "gone" /\ <<"gone">> # <<"start">>
      BY CallsHave
    <3> QED BY <1>0, <2>1, <2>2, <2>3, <3>1, <3>2, EnterFits
  <2>5. CASE call[t][2] # "AbruptEnd"
    <3>1. Continue(t)
      BY <2>1, <2>5
    <3> QED BY <1>0, <2>1, <2>2, <2>3, <3>1, ContinueFits
  <2> QED BY <2>4, <2>5
<1>11. CASE Synchronises(t)
  <2>1. /\ call[t] = Idle /\ pos[t] \in DOMAIN program /\ Continue(t)
        /\ owner' = owner \/ owner' = t \/ owner' = NoThread
    BY <1>11 DEF Synchronises, Meets, Acquires, Releases, IsAt
  <2>2. U /\ UNCHANGED lock
    BY <1>11 DEF Synchronises
  <2>3. pos[t] \in 1 .. Len(program) /\ lock # t
    BY <2>1, StartedThread DEF Idle
  <2>4. owner' \in Thread \cup {NoThread}
    BY <1>0, <2>1
  <2> QED BY <1>0, <2>1, <2>2, <2>3, <2>4, ContinueFits
<1>12. CASE OnThreadFini(t)
  BY <1>12 DEF OnThreadFini, ThreadsFit, IsRegistered, CallFits, appVars
<1> QED BY <1>1, <1>2, <1>3, <1>4, <1>5, <1>6, <1>7, <1>8, <1>9, <1>10, <1>11, <1>12
        DEF Routine, OnThreadStart, AppendToDynamicTrace, OnThreadEvent
-----------------------------------------------------------------------------
(***************************************************************************)
(* The files, routine by routine.                                          *)
(***************************************************************************)
LEMMA DataOfIndex ==
  ASSUME ThreadsFit, NEW n \in Nat, n < Len(threadDataVec)
  PROVE  n + 1 \in 1 .. Len(threadDataVec) /\ ThreadDataOf(n) \in Thread
<1>1. threadDataVec \in Seq(Thread) /\ Len(threadDataVec) \in Nat
  BY LenProperties DEF ThreadsFit
<1>2. n + 1 \in 1 .. Len(threadDataVec)
  BY <1>1
<1> QED BY <1>1, <1>2, ElementOfSeq DEF ThreadDataOf

LEMMA EventsAt ==
  ASSUME NEW p \in DOMAIN EventAt
  PROVE  EventAt[p] \in {"BarrierSync", "CriticalStart", "CriticalEnd"}
<1>1. DOMAIN EventAt = {"start", "end", "barrier", "cs", "ce"}
  BY DEF EventAt
<1>2. p \in {"start", "end", "barrier", "cs", "ce"}
  BY <1>1
<1> QED BY <1>2 DEF EventAt

LEMMA AddDynamicFits ==
  ASSUME FilesFit, NEW u \in Thread, NEW record \in DynamicRecord, NEW n \in Nat,
         AddDynamicRecord(u, record, n),
         UNCHANGED <<memoryTrace, limit>>, numberOfExecInst' \in Nat
  PROVE  FilesFit'
<1>1. /\ dynamicTrace \in [Thread -> Writer(DynamicRecord)]
      /\ memoryTrace \in [Thread -> Writer(MemoryRecord)]
      /\ \A t \in Thread : HasSpaceIn(dynamicTrace[t]) /\ HasSpaceIn(memoryTrace[t])
      /\ written \in [Thread -> [dyn : Seq(DynamicRecord), mem : Seq(MemoryRecord)]]
      /\ limit \in Nat \cup {NoLimit}
  BY DEF FilesFit
<1> DEFINE v == IncExecutedInstructions(dynamicTrace[u], n)
           w == AddRecord(v, record)
<1>2. dynamicTrace[u] \in Writer(DynamicRecord) /\ HasSpaceIn(dynamicTrace[u])
  BY <1>1
<1>3. v \in Writer(DynamicRecord) /\ v.recordArray = dynamicTrace[u].recordArray
  BY <1>2 DEF IncExecutedInstructions, Writer
<1>4. HasSpaceIn(v)
  BY <1>2, <1>3 DEF HasSpaceIn
<1>5. w \in Writer(DynamicRecord) /\ HasSpaceIn(w)
  BY <1>3, <1>4, AddRecordFits
<1>6. dynamicTrace' = [dynamicTrace EXCEPT ![u] = w]
  BY DEF AddDynamicRecord
<1> HIDE DEF w
<1>7. /\ dynamicTrace' \in [Thread -> Writer(DynamicRecord)]
      /\ \A t \in Thread : HasSpaceIn(dynamicTrace'[t])
  BY <1>1, <1>5, <1>6
<1>8. written' = [written EXCEPT ![u].dyn = Append(@, record)]
  BY DEF AddDynamicRecord
<1>9. Append(written[u].dyn, record) \in Seq(DynamicRecord)
  BY <1>1, AppendProperties
<1>10. written' \in [Thread -> [dyn : Seq(DynamicRecord), mem : Seq(MemoryRecord)]]
  BY <1>1, <1>8, <1>9
<1> QED BY <1>1, <1>7, <1>10 DEF FilesFit

LEMMA CloseFits ==
  ASSUME NEW R, NEW w \in Writer(R), HasSpaceIn(w)
  PROVE  CloseFile(w) \in Writer(R) /\ HasSpaceIn(CloseFile(w))
<1>1. w.file \o w.recordArray \in Seq(R)
  BY ConcatProperties DEF Writer
<1> DEFINE v == FlushRecordArray(w)
<1>2. v \in Writer(R) /\ v.recordArray = w.recordArray
  BY <1>1 DEF FlushRecordArray, Writer
<1>3. CloseFile(w) \in Writer(R) /\ CloseFile(w).recordArray = w.recordArray
  <2>1. CloseFile(w) = [v EXCEPT !.headerInFile = w.header, !.closed = TRUE]
    BY DEF CloseFile
  <2>2. w.header \in Nat
    BY DEF Writer
  <2> HIDE DEF v
  <2> QED BY <1>2, <2>1, <2>2 DEF Writer
<1> QED BY <1>3 DEF HasSpaceIn

LEMMA RoutineFilesFit ==
  ASSUME ThreadsFit, FilesFit, NEW t \in Thread, Routine(t)
  PROVE  FilesFit'
<1> DEFINE U == UNCHANGED <<dynamicTrace, memoryTrace, written, numberOfExecInst, limit>>
<1>0. U => FilesFit'
  BY DEF FilesFit
<1>1. /\ call \in [Thread -> Calls] /\ t \in Nat
      /\ dynamicTrace \in [Thread -> Writer(DynamicRecord)]
      /\ memoryTrace \in [Thread -> Writer(MemoryRecord)]
      /\ \A u \in Thread : HasSpaceIn(dynamicTrace[u]) /\ HasSpaceIn(memoryTrace[u])
      /\ written \in [Thread -> [dyn : Seq(DynamicRecord), mem : Seq(MemoryRecord)]]
      /\ numberOfExecInst \in Nat
      /\ limit \in Nat \cup {NoLimit}
  BY TracerAssumption DEF FilesFit, ThreadsFit, Thread
<1>2. CASE StartsThread(t) \/ RegistersThread(t) \/ ReachesBlock(t) \/ ExceedsLimit(t)
  BY <1>0, <1>2 DEF StartsThread, RegistersThread, ReachesBlock, ExceedsLimit, exitVars
<1>3. CASE ReachesEvent(t) \/ EndsLoop(t) \/ Synchronises(t)
  BY <1>0, <1>3 DEF ReachesEvent, EndsLoop, Synchronises, exitVars
<1>4. CASE AppendsBlock(t)
  <2> DEFINE b == call[t][2]
  <2>1. /\ call[t][1] = "block"
        /\ numberOfExecInst' = numberOfExecInst + BlockSize[b]
        /\ AddDynamicRecord(ThreadDataOf(t), <<"block", b>>, BlockSize[b])
        /\ UNCHANGED <<memoryTrace, limit>>
    BY <1>4 DEF AppendsBlock, exitVars
  <2>2. b \in Block
    BY <1>1, <2>1, CallShapes
  <2>3. BlockSize[b] \in Nat /\ <<"block", b>> \in DynamicRecord
    BY <2>2, TracerAssumption DEF DynamicRecord
  <2>4. t < Len(threadDataVec)
    BY <2>1 DEF ThreadsFit, CallFits
  <2>5. ThreadDataOf(t) \in Thread
    BY <1>1, <2>4, DataOfIndex
  <2>6. numberOfExecInst' \in Nat
    BY <1>1, <2>1, <2>3
  <2> QED BY <2>1, <2>3, <2>5, <2>6, AddDynamicFits
<1>5. CASE AddsOwnEvent(t)
  <2> DEFINE p == call[t][2]
  <2>1. /\ call[t][1] = "event"
        /\ AddDynamicRecord(ThreadDataOf(t), <<"event", EventAt[p]>>, 0)
        /\ UNCHANGED <<memoryTrace, limit, numberOfExecInst>>
    BY <1>5 DEF AddsOwnEvent, exitVars
  <2>2. p \in DOMAIN EventAt
    BY <1>1, <2>1, CallShapes
  <2>3. EventAt[p] \in Events
    BY <2>2, EventsAt DEF Events
  <2>4. <<"event", EventAt[p]>> \in DynamicRecord
    BY <2>3 DEF DynamicRecord
  <2>5. t < Len(threadDataVec)
    BY <2>1 DEF ThreadsFit, CallFits
  <2>6. ThreadDataOf(t) \in Thread
    BY <1>1, <2>5, DataOfIndex
  <2> QED BY <1>1, <2>1, <2>4, <2>6, AddDynamicFits
<1>6. CASE AddsEventToNext(t)
  <2>1. /\ call[t][1] = "all" /\ call[t][3] < Len(threadDataVec)
        /\ AddDynamicRecord(ThreadDataOf(call[t][3]), <<"event", call[t][2]>>, 0)
        /\ UNCHANGED <<memoryTrace, limit, numberOfExecInst>>
    BY <1>6 DEF AddsEventToNext, IsInVec, exitVars
  <2>2. call[t][2] \in Events /\ call[t][3] \in Nat
    BY <1>1, <2>1, CallShapes
  <2>3. <<"event", call[t][2]>> \in DynamicRecord
    BY <2>2 DEF DynamicRecord
  <2>4. ThreadDataOf(call[t][3]) \in Thread
    BY <2>1, <2>2, DataOfIndex
  <2> QED BY <1>1, <2>1, <2>3, <2>4, AddDynamicFits
<1>7. CASE AppendToMemTrace(t)
  <2>0. UNCHANGED <<dynamicTrace, limit, numberOfExecInst>>
    BY <1>7 DEF AppendToMemTrace, exitVars
  <2>1. PICK b \in Block, rest \in SUBSET {"block"} :
          /\ ToCall(t, "mem", b, rest)
          /\ \E info \in Accesses[b] :
               IF WasThreadCreated(t)
                 THEN LET u == ThreadDataOf(t) IN
                      /\ memoryTrace' = [memoryTrace EXCEPT ![u] = AddRecords(@, MemoryRecords(info))]
                      /\ written' = [written EXCEPT ![u].mem = @ \o MemoryRecords(info)]
                 ELSE UNCHANGED <<memoryTrace, written>>
    BY <1>7 DEF AppendToMemTrace
  <2>2. CASE ~WasThreadCreated(t)
    BY <1>0, <2>0, <2>1, <2>2
  <2>3. CASE WasThreadCreated(t)
    <3> DEFINE u == ThreadDataOf(t)
    <3>1. PICK info \in Accesses[b] :
            /\ memoryTrace' = [memoryTrace EXCEPT ![u] = AddRecords(@, MemoryRecords(info))]
            /\ written' = [written EXCEPT ![u].mem = @ \o MemoryRecords(info)]
      BY <2>1, <2>3
    <3>2. u \in Thread
      <4>1. (call[t] = Idle /\ pos[t] \in DOMAIN program) \/ call[t][1] = "rest"
        BY <1>1, <2>1, RoutineIsCalled
      <4>2. pos[t] > 0
        BY <4>1, StartedThread
      <4> QED BY <2>3, <4>2, CreatedIsInVec
    <3>3. info \in Seq(MemoryOp)
      BY <3>1, TracerAssumption
    <3> DEFINE records == MemoryRecords(info)
               w == AddRecords(memoryTrace[u], records)
    <3>4. records \in Seq(MemoryRecord)
      BY <3>3, MemoryRecordsFit
    <3> HIDE DEF u, records
    <3>5. memoryTrace[u] \in Writer(MemoryRecord) /\ HasSpaceIn(memoryTrace[u])
      BY <1>1, <3>2
    <3>6. w \in Writer(MemoryRecord) /\ HasSpaceIn(w)
      BY <3>4, <3>5, AddRecordsFit
    <3>7. memoryTrace' = [memoryTrace EXCEPT ![u] = w]
      BY <3>1 DEF records
    <3> HIDE DEF w
    <3>8. /\ memoryTrace' \in [Thread -> Writer(MemoryRecord)]
          /\ \A v \in Thread : HasSpaceIn(memoryTrace'[v])
      BY <1>1, <3>2, <3>6, <3>7
    <3>9. written[u].mem \o records \in Seq(MemoryRecord)
      BY <1>1, <3>2, <3>4, ConcatProperties
    <3>10. written' = [written EXCEPT ![u].mem = @ \o records]
      BY <3>1 DEF records
    <3>11. written' \in [Thread -> [dyn : Seq(DynamicRecord), mem : Seq(MemoryRecord)]]
      BY <1>1, <3>2, <3>9, <3>10
    <3> QED BY <1>1, <2>0, <3>8, <3>11 DEF FilesFit
  <2> QED BY <2>2, <2>3
<1>8. CASE OnThreadFini(t)
  <2> DEFINE u == ThreadDataOf(t)
             d == CloseFile(dynamicTrace[u])
             m == CloseFile(memoryTrace[u])
  <2>1. /\ pos[t] > 0 /\ WasThreadCreated(t)
        /\ dynamicTrace' = [dynamicTrace EXCEPT ![u] = d]
        /\ memoryTrace' = [memoryTrace EXCEPT ![u] = m]
        /\ UNCHANGED <<written, numberOfExecInst, limit>>
    BY <1>8 DEF OnThreadFini, exitVars
  <2>2. u \in Thread
    BY <2>1, CreatedIsInVec
  <2>3. dynamicTrace[u] \in Writer(DynamicRecord) /\ memoryTrace[u] \in Writer(MemoryRecord)
        /\ HasSpaceIn(dynamicTrace[u]) /\ HasSpaceIn(memoryTrace[u])
    BY <1>1, <2>2
  <2>4. d \in Writer(DynamicRecord) /\ HasSpaceIn(d) /\ m \in Writer(MemoryRecord) /\ HasSpaceIn(m)
    BY <2>3, CloseFits
  <2> HIDE DEF d, m, u
  <2> QED BY <1>1, <2>1, <2>2, <2>4 DEF FilesFit
<1> QED BY <1>2, <1>3, <1>4, <1>5, <1>6, <1>7, <1>8
        DEF Routine, OnThreadStart, AppendToDynamicTrace, OnThreadEvent
-----------------------------------------------------------------------------
(***************************************************************************)
(* The end of the program and the reading of the files.                    *)
(***************************************************************************)
LEMMA RoutineEndFits ==
  ASSUME ThreadsFit, EndFits, NEW t \in Thread, Routine(t)
  PROVE  EndFits'
<1>1. UNCHANGED <<exiting, stopped, reader, filesRead, threadCount>> => EndFits'
  BY DEF EndFits
<1>2. CASE StartsThread(t) \/ ReachesBlock(t) \/ AppendsBlock(t) \/ ExceedsLimit(t) \/ AppendToMemTrace(t)
  BY <1>1, <1>2 DEF StartsThread, ReachesBlock, AppendsBlock, ExceedsLimit, AppendToMemTrace,
                    exitVars, readVars
<1>3. CASE ReachesEvent(t) \/ AddsOwnEvent(t) \/ AddsEventToNext(t) \/ Synchronises(t) \/ OnThreadFini(t)
  BY <1>1, <1>3 DEF ReachesEvent, AddsOwnEvent, AddsEventToNext, Synchronises, OnThreadFini,
                    exitVars, readVars
<1>4. CASE RegistersThread(t)
  <2>1. threadCount' = threadCount + 1 /\ UNCHANGED <<exiting, stopped, reader, filesRead>>
    BY <1>4 DEF RegistersThread, exitVars, readVars
  <2>2. threadCount \in Nat
    BY LenProperties DEF ThreadsFit
  <2> QED BY <2>1, <2>2 DEF EndFits
<1>5. CASE EndsLoop(t)
  <2>1. exiting' = TRUE \/ exiting' = exiting
    BY <1>5 DEF EndsLoop
  <2>2. UNCHANGED <<stopped, reader, filesRead, threadCount>>
    BY <1>5 DEF EndsLoop, readVars
  <2> QED BY <2>1, <2>2 DEF EndFits
<1> QED BY <1>2, <1>3, <1>4, <1>5
        DEF Routine, OnThreadStart, AppendToDynamicTrace, OnThreadEvent

LEMMA TracerStep ==
  ASSUME TracerInductive, [Next]_tracerVars
  PROVE  TracerInductive'
<1>1. ThreadsFit /\ FilesFit /\ EndFits
  BY DEF TracerInductive
<1> DEFINE T == UNCHANGED <<program, owner, pos, call, lock, threadDataVec, threadCount>>
           F == UNCHANGED <<dynamicTrace, memoryTrace, written, numberOfExecInst, limit>>
<1>2. T => ThreadsFit'
  BY <1>1 DEF ThreadsFit, IsRegistered, CallFits
<1>3. F => FilesFit'
  BY <1>1 DEF FilesFit
<1>4. threadCount \in Nat
  BY <1>1, LenProperties DEF ThreadsFit
<1>5. CASE UNCHANGED tracerVars
  <2>1. T /\ F /\ UNCHANGED <<exiting, stopped, reader, filesRead>>
    BY <1>5 DEF tracerVars, appVars, exitVars, readVars
  <2> QED BY <1>1, <1>2, <1>3, <2>1 DEF EndFits, TracerInductive
<1>6. ASSUME NEW t \in Thread, Routine(t) PROVE TracerInductive'
  BY <1>1, <1>6, RoutineThreadsFit, RoutineFilesFit, RoutineEndFits DEF TracerInductive
<1>7. CASE Exits \/ Stops
  <2>1. T /\ F /\ UNCHANGED <<reader, filesRead>>
    BY <1>7 DEF Exits, Stops, appVars, readVars
  <2>2. exiting' \in BOOLEAN /\ stopped' \in BOOLEAN /\ (stopped' => exiting')
    BY <1>1, <1>7 DEF Exits, Stops, EndFits
  <2> QED BY <1>1, <1>2, <1>3, <2>1, <2>2 DEF EndFits, TracerInductive
<1>8. CASE ReadsRecord
  <2>1. T /\ F /\ UNCHANGED <<exiting, stopped, filesRead>> /\ filesRead < 2 * threadCount
    BY <1>8 DEF ReadsRecord, appVars, exitVars
  <2> QED BY <1>1, <1>2, <1>3, <2>1 DEF EndFits, TracerInductive
<1>9. CASE OpensNextFile
  <2>1. T /\ F /\ UNCHANGED <<exiting, stopped>>
    BY <1>9 DEF OpensNextFile, appVars, exitVars
  <2>2. reader.reachedEnd /\ reader' = NewReader /\ filesRead' = filesRead + 1
    BY <1>9 DEF OpensNextFile
  <2>3. filesRead' \in 0 .. 2 * threadCount' /\ ~reader'.reachedEnd
    BY <1>1, <1>4, <2>1, <2>2 DEF EndFits, NewReader
  <2> QED BY <1>1, <1>2, <1>3, <2>1, <2>3 DEF EndFits, TracerInductive
<1> QED BY <1>5, <1>6, <1>7, <1>8, <1>9 DEF Next

LEMMA TracerStart ==
  ASSUME Init
  PROVE  TracerInductive
<1>1. ThreadsFit
  <2>1. program \in Seq(Points)
    BY TracerAssumption DEF Init
  <2>2. Len(program) \in Nat
    BY <2>1, LenProperties
  <2>3. /\ pos \in [Thread -> 0 .. Len(program) + 1]
        /\ call \in [Thread -> Calls]
        /\ threadDataVec \in Seq(Thread) /\ threadCount = Len(threadDataVec)
        /\ Len(threadDataVec) = 0
    BY <2>2, CallsHave DEF Init
  <2>4. \A t \in Thread : ~IsRegistered(t) /\ ~(pos[t] > 0)
    BY <2>3 DEF IsRegistered, Init
  <2>5. \A t \in Thread : CallFits(t)
    BY TracerAssumption DEF CallFits, Init, Idle, Thread
  <2>6. \A i, j \in 1 .. Len(threadDataVec) : threadDataVec[i] = threadDataVec[j] => i = j
    BY <2>3
  <2> QED BY <2>1, <2>3, <2>4, <2>5, <2>6 DEF ThreadsFit, Init
<1>2. FilesFit
  <2>1. \A R : OpenFile \in Writer(R)
    BY DEF OpenFile, Writer
  <2>2. HasSpaceIn(OpenFile)
    BY TraceFileAssumption DEF OpenFile, HasSpaceIn
  <2>3. limit \in Nat \cup {NoLimit}
    BY TracerAssumption DEF Init
  <2>4. written \in [Thread -> [dyn : Seq(DynamicRecord), mem : Seq(MemoryRecord)]]
    BY DEF Init
  <2>5. /\ dynamicTrace \in [Thread -> Writer(DynamicRecord)]
        /\ memoryTrace \in [Thread -> Writer(MemoryRecord)]
        /\ \A t \in Thread : HasSpaceIn(dynamicTrace[t]) /\ HasSpaceIn(memoryTrace[t])
    BY <2>1, <2>2 DEF Init
  <2> QED BY <2>3, <2>4, <2>5 DEF FilesFit, Init
<1>3. EndFits
  <2>1. exiting = FALSE /\ stopped = FALSE /\ filesRead = 0 /\ threadCount = 0
    BY DEF Init
  <2>2. ~reader.reachedEnd
    BY DEF Init, NewReader
  <2>3. filesRead \in 0 .. 2 * threadCount
    BY <2>1
  <2>4. exiting \in BOOLEAN /\ stopped \in BOOLEAN /\ ~stopped
    BY <2>1
  <2> QED BY <2>2, <2>3, <2>4 DEF EndFits
<1> QED BY <1>1, <1>2, <1>3 DEF TracerInductive

(***************************************************************************)
(* The threads use the lock, the vector and the record arrays as they      *)
(* should: one thread at a time adds an event to all writers, no routine   *)
(* indexes threadDataVec past its end, no thread registers twice, and no   *)
(* record is put behind the end of a record array.                         *)
(***************************************************************************)
THEOREM TracerIsConsistent == Spec => []TracerInvariant
<1>1. TracerInductive => TracerInvariant
  <2> SUFFICES ASSUME TracerInductive PROVE TracerInvariant
    OBVIOUS
  <2>1. ThreadsFit /\ FilesFit /\ EndFits
    BY DEF TracerInductive
  <2>2. Len(threadDataVec) \in 0 .. TotalThreads /\ TotalThreads \in Nat
    BY <2>1, VecIsShort, TracerAssumption
  <2>3. filesRead \in 0 .. 2 * TotalThreads
    BY <2>1, <2>2 DEF EndFits, ThreadsFit
  <2>4. IsInjective(threadDataVec)
    <3>1. DOMAIN threadDataVec = 1 .. Len(threadDataVec)
      BY <2>1, LenProperties DEF ThreadsFit
    <3> QED BY <2>1, <3>1 DEF IsInjective, ThreadsFit
  <2>5. \A t \in Thread : call[t][1] = "all" => call[t][2] \in Events
    BY <2>1, CallShapes DEF ThreadsFit
  <2>6. \A t \in Thread : /\ Len(dynamicTrace[t].recordArray) < RECORD_ARRAY_SIZE
                          /\ Len(memoryTrace[t].recordArray) < RECORD_ARRAY_SIZE
    BY <2>1 DEF FilesFit, HasSpaceIn
  <2>7. \A t \in Thread : /\ lock = t <=> call[t][1] = "all"
                          /\ call[t][1] \in {"block", "event"} => t < Len(threadDataVec)
    BY <2>1 DEF ThreadsFit, CallFits
  <2>8. /\ pos \in [Thread -> 0 .. Len(program) + 1] /\ owner \in Thread \cup {NoThread}
        /\ threadDataVec \in Seq(Thread) /\ threadCount = Len(threadDataVec)
        /\ numberOfExecInst \in Nat /\ (stopped => exiting)
    BY <2>1 DEF ThreadsFit, FilesFit, EndFits
  <2> QED BY <2>3, <2>4, <2>5, <2>6, <2>7, <2>8 DEF TracerInvariant
<1>2. Init => TracerInductive
  BY TracerStart
<1>3. TracerInductive /\ [Next]_tracerVars => TracerInductive'
  BY TracerStep
<1> QED BY <1>1, <1>2, <1>3, PTL DEF Spec
-----------------------------------------------------------------------------
(***************************************************************************)
(* The abrupt end.  First what a record that is added changes.             *)
(***************************************************************************)
LEMMA DynamicAppend ==
  ASSUME FilesFit, NEW u \in Thread, NEW record \in DynamicRecord, NEW n,
         AddDynamicRecord(u, record, n)
  PROVE  LET old == written[u].dyn
             new == written'[u].dyn
         IN  /\ Len(old) \in Nat
             /\ DOMAIN old = 1 .. Len(old) /\ DOMAIN new = 1 .. Len(old) + 1
             /\ \A i \in 1 .. Len(old) : new[i] = old[i]
             /\ new[Len(old) + 1] = record
             /\ \A v \in Thread : written'[v].mem = written[v].mem
             /\ \A v \in Thread \ {u} : written'[v].dyn = written[v].dyn
<1>1. written \in [Thread -> [dyn : Seq(DynamicRecord), mem : Seq(MemoryRecord)]]
  BY DEF FilesFit
<1>2. written' = [written EXCEPT ![u].dyn = Append(@, record)]
  BY DEF AddDynamicRecord
<1>3. /\ written'[u].dyn = Append(written[u].dyn, record)
      /\ \A v \in Thread : written'[v].mem = written[v].mem
      /\ \A v \in Thread \ {u} : written'[v].dyn = written[v].dyn
  BY <1>1, <1>2
<1>4. written[u].dyn \in Seq(DynamicRecord)
  BY <1>1
<1>5. Len(written[u].dyn) \in Nat /\ DOMAIN written[u].dyn = 1 .. Len(written[u].dyn)
  BY <1>4, LenProperties
<1>6. /\ Append(written[u].dyn, record) \in Seq(DynamicRecord)
      /\ Len(Append(written[u].dyn, record)) = Len(written[u].dyn) + 1
      /\ \A i \in 1 .. Len(written[u].dyn) : Append(written[u].dyn, record)[i] = written[u].dyn[i]
      /\ Append(written[u].dyn, record)[Len(written[u].dyn) + 1] = record
  BY <1>4, AppendProperties
<1>7. DOMAIN Append(written[u].dyn, record) = 1 .. Len(written[u].dyn) + 1
  BY <1>6, LenProperties
<1> QED BY <1>3, <1>5, <1>6, <1>7

LEMMA EventAppend ==
  ASSUME FilesFit, NEW u \in Thread, NEW e \in Events,
         AddDynamicRecord(u, <<"event", e>>, 0)
  PROVE  \A v \in Thread :
           /\ HasBlock(v)' <=> HasBlock(v)
           /\ HasAbruptEnd(v)' <=> HasAbruptEnd(v) \/ (v = u /\ e = "AbruptEnd")
           /\ BlocksComeFirst(v) => BlocksComeFirst(v)'
<1> TAKE v \in Thread
<1> DEFINE old == written[u].dyn
           new == written'[u].dyn
<1>1. <<"event", e>> \in DynamicRecord
  BY DEF DynamicRecord
<1>2. /\ Len(old) \in Nat /\ DOMAIN old = 1 .. Len(old) /\ DOMAIN new = 1 .. Len(old) + 1
      /\ \A i \in 1 .. Len(old) : new[i] = old[i]
      /\ new[Len(old) + 1] = <<"event", e>>
      /\ \A x \in Thread \ {u} : written'[x].dyn = written[x].dyn
  BY <1>1, DynamicAppend
<1>3. new[Len(old) + 1][1] # "block"
  BY <1>2
<1>4. new[Len(old) + 1] = AbruptEnd <=> e = "AbruptEnd"
  BY <1>2 DEF AbruptEnd
<1>5. \A i \in 1 .. Len(old) + 1 : i \in 1 .. Len(old) \/ i = Len(old) + 1
  BY <1>2
<1>6. \A i \in 1 .. Len(old) : i \in 1 .. Len(old) + 1 /\ i < Len(old) + 1
  BY <1>2
<1>7. CASE v # u
  <2>1. written'[v].dyn = written[v].dyn
    BY <1>2, <1>7
  <2> QED BY <1>7, <2>1 DEF HasBlock, HasAbruptEnd, BlocksComeFirst
<1>8. CASE v = u
  <2> HIDE DEF old, new
  <2>1. HasBlock(v) <=> \E i \in DOMAIN old : old[i][1] = "block"
    BY <1>8 DEF HasBlock, old
  <2>2. HasBlock(v)' <=> \E i \in DOMAIN new : new[i][1] = "block"
    BY <1>8 DEF HasBlock, new
  <2>3. HasAbruptEnd(v) <=> \E i \in DOMAIN old : old[i] = AbruptEnd
    BY <1>8 DEF HasAbruptEnd, old
  <2>4. HasAbruptEnd(v)' <=> \E i \in DOMAIN new : new[i] = AbruptEnd
    BY <1>8 DEF HasAbruptEnd, AbruptEnd, new
  <2>5. Len(old) + 1 \in 1 .. Len(old) + 1
    BY <1>2
  <2>6. HasBlock(v)' <=> HasBlock(v)
    BY <1>2, <1>3, <1>5, <1>6, <2>1, <2>2
  <2>7. HasAbruptEnd(v)' <=> HasAbruptEnd(v) \/ e = "AbruptEnd"
    BY <1>2, <1>4, <1>5, <1>6, <2>3, <2>4, <2>5
  <2>8. ASSUME BlocksComeFirst(v) PROVE BlocksComeFirst(v)'
    <3>1. \A i, j \in DOMAIN old : old[i][1] = "block" /\ old[j] = AbruptEnd => i < j
      BY <1>8, <2>8 DEF BlocksComeFirst, old
    <3>2. \A i, j \in DOMAIN new : new[i][1] = "block" /\ new[j] = AbruptEnd => i < j
      BY <1>2, <1>3, <1>5, <1>6, <3>1
    <3> QED BY <1>8, <3>2 DEF BlocksComeFirst, AbruptEnd, new
  <2> QED BY <1>8, <2>6, <2>7, <2>8
<1> QED BY <1>7, <1>8

LEMMA BlockAppend ==
  ASSUME FilesFit, NEW u \in Thread, NEW b \in Block, NEW n,
         AddDynamicRecord(u, <<"block", b>>, n)
  PROVE  \A v \in Thread :
           /\ v # u => (HasBlock(v)' <=> HasBlock(v))
           /\ HasAbruptEnd(v)' => HasAbruptEnd(v)
           /\ ~HasAbruptEnd(v) => BlocksComeFirst(v)'
<1> TAKE v \in Thread
<1> DEFINE old == written[u].dyn
           new == written'[u].dyn
<1>1. <<"block", b>> \in DynamicRecord
  BY DEF DynamicRecord
<1>2. /\ Len(old) \in Nat /\ DOMAIN old = 1 .. Len(old) /\ DOMAIN new = 1 .. Len(old) + 1
      /\ \A i \in 1 .. Len(old) : new[i] = old[i]
      /\ new[Len(old) + 1] = <<"block", b>>
      /\ \A x \in Thread \ {u} : written'[x].dyn = written[x].dyn
  BY <1>1, DynamicAppend
<1>3. new[Len(old) + 1] # AbruptEnd
  BY <1>2 DEF AbruptEnd
<1>4. \A i \in 1 .. Len(old) + 1 : i \in 1 .. Len(old) \/ i = Len(old) + 1
  BY <1>2
<1>5. HasAbruptEnd(v)' => HasAbruptEnd(v)
  <2>1. CASE v # u
    BY <1>2, <2>1 DEF HasAbruptEnd, AbruptEnd
  <2>2. CASE v = u
    <3> SUFFICES ASSUME NEW j \in DOMAIN new, new[j] = AbruptEnd
                 PROVE  \E i \in DOMAIN old : old[i] = AbruptEnd
      BY <2>2 DEF HasAbruptEnd, AbruptEnd
    <3> QED BY <1>2, <1>3, <1>4
  <2> QED BY <2>1, <2>2
<1>6. v # u => (HasBlock(v)' <=> HasBlock(v))
  BY <1>2 DEF HasBlock
<1>7. ~HasAbruptEnd(v)' => BlocksComeFirst(v)'
  BY DEF HasAbruptEnd, BlocksComeFirst
<1> QED BY <1>5, <1>6, <1>7
(***************************************************************************)
(* Steps that neither add records to the dynamic files nor begin or end an *)
(* abrupt end.                                                             *)
(***************************************************************************)
LEMMA QuietStep ==
  ASSUME AbruptInductive,
         UNCHANGED <<limit, numberOfExecInst, threadDataVec>>,
         threadDataVec \in Seq(Thread),
         \A u \in Thread : written'[u].dyn = written[u].dyn,
         \A u \in Thread : pos'[u] = 0 => pos[u] = 0,
         \A u \in Thread : \/ call'[u] = call[u]
                           \/ call'[u] # <<"gone">> /\ ~EndsAbruptly(u)'
  PROVE  AbruptInductive'
<1>1. LimitFits' /\ (IsLimitExceeded' <=> IsLimitExceeded)
  BY DEF AbruptInductive, LimitFits, IsLimitExceeded
<1>2. \A u \in Thread : /\ HasBlock(u)' <=> HasBlock(u)
                        /\ HasAbruptEnd(u)' <=> HasAbruptEnd(u)
                        /\ BlocksComeFirst(u)' <=> BlocksComeFirst(u)
  BY DEF HasBlock, HasAbruptEnd, BlocksComeFirst, AbruptEnd
<1>3. \A u \in Thread : EndsAbruptly(u)' => EndsAbruptly(u) /\ call'[u] = call[u]
  BY DEF EndsAbruptly
<1>4. HasEndedAbruptly' => HasEndedAbruptly
  BY DEF HasEndedAbruptly
<1>5. \A i \in 1 .. Len(threadDataVec) : threadDataVec[i] \in Thread
  BY ElementOfSeq
<1>6. ASSUME NEW u \in Thread PROVE AbruptFits(u)'
  <2>1. AbruptFits(u)
    BY DEF AbruptInductive
  <2>2. call'[u] = <<"gone">> => call[u] = <<"gone">>
    OBVIOUS
  <2>3. call'[u] = <<"gone">> \/ EndsAbruptly(u)' \/ HasAbruptEnd(u)' => IsLimitExceeded'
    BY <1>1, <1>2, <1>3, <2>1, <2>2 DEF AbruptFits
  <2>4. BlocksComeFirst(u)' /\ (pos'[u] = 0 => ~HasBlock(u)')
    BY <1>2, <2>1 DEF AbruptFits
  <2>5. ASSUME EndsAbruptly(u)', NEW i \in 1 .. Len(threadDataVec), i <= call'[u][3]
        PROVE  HasAbruptEnd(threadDataVec[i])'
    <3>1. HasAbruptEnd(threadDataVec[i])
      BY <1>3, <2>1, <2>5 DEF AbruptFits
    <3>2. threadDataVec[i] \in Thread /\ threadDataVec'[i] = threadDataVec[i]
      BY <1>5
    <3> DEFINE x == threadDataVec[i]
    <3>3. HasAbruptEnd(x)
      BY <3>1
    <3>4. written'[x].dyn = written[x].dyn
      BY <3>2
    <3> QED BY <3>1, <3>2, <3>4 DEF HasAbruptEnd, AbruptEnd
  <2>6. HasEndedAbruptly' /\ HasBlock(u)' => HasAbruptEnd(u)'
    BY <1>2, <1>4, <2>1 DEF AbruptFits
  <2> QED BY <2>3, <2>4, <2>5, <2>6 DEF AbruptFits
<1> QED BY <1>1, <1>6 DEF AbruptInductive
(***************************************************************************)
(* An event that is added to the file of u, perhaps as a step of the loop  *)
(* of an abrupt end.                                                       *)
(***************************************************************************)
LEMMA EventStep ==
  ASSUME AbruptInductive, FilesFit,
         NEW u \in Thread, NEW e \in Events, AddDynamicRecord(u, <<"event", e>>, 0),
         UNCHANGED <<limit, numberOfExecInst, threadDataVec>>,
         threadDataVec \in Seq(Thread),
         e = "AbruptEnd" => IsLimitExceeded,
         \A x \in Thread : pos'[x] = 0 => pos[x] = 0,
         \A x \in Thread :
           \/ call'[x] = call[x]
           \/ /\ call'[x] # <<"gone">>
              /\ EndsAbruptly(x)' =>
                   /\ EndsAbruptly(x) /\ e = "AbruptEnd"
                   /\ call[x][3] \in Nat /\ call'[x][3] = call[x][3] + 1
                   /\ threadDataVec[call[x][3] + 1] = u
  PROVE  AbruptInductive'
<1>1. LimitFits' /\ (IsLimitExceeded' <=> IsLimitExceeded)
  BY DEF AbruptInductive, LimitFits, IsLimitExceeded
<1>2. \A x \in Thread : /\ HasBlock(x)' <=> HasBlock(x)
                        /\ HasAbruptEnd(x)' <=> HasAbruptEnd(x) \/ (x = u /\ e = "AbruptEnd")
                        /\ BlocksComeFirst(x) => BlocksComeFirst(x)'
  BY EventAppend
<1>3. \A x \in Thread : EndsAbruptly(x)' => EndsAbruptly(x)
  BY DEF EndsAbruptly
<1>4. HasEndedAbruptly' => HasEndedAbruptly
  BY DEF HasEndedAbruptly
<1>5. \A i \in 1 .. Len(threadDataVec) : threadDataVec[i] \in Thread
  BY ElementOfSeq
<1>6. ASSUME NEW x \in Thread PROVE AbruptFits(x)'
  <2>1. AbruptFits(x)
    BY DEF AbruptInductive
  <2>2. call'[x] = <<"gone">> => call[x] = <<"gone">>
    OBVIOUS
  <2>3. call'[x] = <<"gone">> \/ EndsAbruptly(x)' \/ HasAbruptEnd(x)' => IsLimitExceeded'
    BY <1>1, <1>2, <1>3, <2>1, <2>2 DEF AbruptFits
  <2>4. BlocksComeFirst(x)' /\ (pos'[x] = 0 => ~HasBlock(x)')
    BY <1>2, <2>1 DEF AbruptFits
  <2>5. ASSUME EndsAbruptly(x)', NEW i \in 1 .. Len(threadDataVec), i <= call'[x][3]
        PROVE  HasAbruptEnd(threadDataVec[i])'
    <3> DEFINE v == threadDataVec[i]
    <3>1. v \in Thread /\ threadDataVec' = threadDataVec
      BY <1>5
    <3>2. EndsAbruptly(x)
      BY <1>3, <2>5
    <3>3. \E j \in DOMAIN written'[v].dyn : written'[v].dyn[j] = AbruptEnd
      <4>1. CASE i <= call[x][3]
        <5>1. HasAbruptEnd(v)
          BY <2>1, <3>2, <4>1 DEF AbruptFits
        <5> QED BY <1>2, <3>1, <5>1 DEF HasAbruptEnd, AbruptEnd
      <4>2. CASE ~(i <= call[x][3])
        <5>1. call'[x] # call[x]
          BY <2>5, <4>2
        <5>2. /\ e = "AbruptEnd" /\ call[x][3] \in Nat /\ call'[x][3] = call[x][3] + 1
              /\ threadDataVec[call[x][3] + 1] = u
          BY <2>5, <5>1
        <5>3. i = call[x][3] + 1
          BY <2>5, <4>2, <5>2
        <5>4. v = u
          BY <5>2, <5>3
        <5> QED BY <1>2, <3>1, <5>2, <5>4 DEF HasAbruptEnd, AbruptEnd
      <4> QED BY <4>1, <4>2
    <3> QED BY <3>1, <3>3 DEF HasAbruptEnd, AbruptEnd
  <2>6. HasEndedAbruptly' /\ HasBlock(x)' => HasAbruptEnd(x)'
    BY <1>2, <1>4, <2>1 DEF AbruptFits
  <2> QED BY <2>3, <2>4, <2>5, <2>6 DEF AbruptFits
<1> QED BY <1>1, <1>6 DEF AbruptInductive

(***************************************************************************)
(* A block is written only while the limit is not exceeded, so that nobody *)
(* has begun an abrupt end.                                                *)
(***************************************************************************)
LEMMA BlockStep ==
  ASSUME AbruptInductive, TracerInductive, TracerInductive',
         NEW t \in Thread, AppendsBlock(t)
  PROVE  AbruptInductive'
<1> DEFINE b == call[t][2]
           u == ThreadDataOf(t)
<1>1. /\ call[t][1] = "block" /\ ~IsLimitExceeded
      /\ numberOfExecInst' = numberOfExecInst + BlockSize[b]
      /\ AddDynamicRecord(u, <<"block", b>>, BlockSize[b])
      /\ LeaveRoutine(t, b, call[t][3]) /\ UNCHANGED <<limit, threadDataVec>>
  BY DEF AppendsBlock, IsLimitReached, IsLimitExceeded, exitVars
<1>2. ThreadsFit /\ FilesFit /\ call \in [Thread -> Calls] /\ t \in Nat
  <2>1. ThreadsFit /\ FilesFit
    BY DEF TracerInductive
  <2>2. t \in Nat
    BY TracerAssumption DEF Thread
  <2>3. call \in [Thread -> Calls]
    BY <2>1 DEF ThreadsFit
  <2> QED BY <2>1, <2>2, <2>3
<1>3. b \in Block
  BY <1>1, <1>2, CallShapes
<1>4. t < Len(threadDataVec)
  BY <1>1, <1>2 DEF ThreadsFit, CallFits
<1>5. t + 1 \in 1 .. Len(threadDataVec) /\ u \in Thread
  BY <1>2, <1>4, DataOfIndex
<1>6. pos[u] > 0
  BY <1>2, <1>5 DEF ThreadsFit, IsRegistered, ThreadDataOf
<1>7. \A x \in Thread : ~HasAbruptEnd(x) /\ ~EndsAbruptly(x) /\ call[x] # <<"gone">>
  BY <1>1 DEF AbruptInductive, AbruptFits
<1>8. \A x \in Thread : /\ x # u => (HasBlock(x)' <=> HasBlock(x))
                        /\ HasAbruptEnd(x)' => HasAbruptEnd(x)
                        /\ ~HasAbruptEnd(x) => BlocksComeFirst(x)'
  BY <1>1, <1>2, <1>3, <1>5, BlockAppend
<1>9. \/ call' = [call EXCEPT ![t] = Idle]
      \/ call' = [call EXCEPT ![t] = <<"rest", b, call[t][3]>>]
  BY <1>1 DEF LeaveRoutine, Enter, Continue
<1>10. \A x \in Thread : ~EndsAbruptly(x)' /\ call'[x] # <<"gone">>
  BY <1>2, <1>7, <1>9 DEF EndsAbruptly, Idle
<1>11. \A x \in Thread : pos'[x] = 0 => pos[x] = 0
  <2>1. pos' = pos \/ pos' = [pos EXCEPT ![t] = pos[t] + 1]
    BY <1>1 DEF LeaveRoutine, Enter, Continue
  <2>2. pos \in [Thread -> 0 .. Len(program) + 1]
    BY <1>2 DEF ThreadsFit
  <2> QED BY <2>1, <2>2
<1>12. LimitFits'
  <2> SUFFICES ASSUME limit # NoLimit
               PROVE numberOfExecInst' <= limit + BlockSize[b]
    BY <1>1, <1>3 DEF LimitFits
  <2>1. limit \in Nat /\ numberOfExecInst \in Nat /\ BlockSize[b] \in Nat
    BY <1>2, <1>3, TracerAssumption DEF FilesFit
  <2>2. numberOfExecInst <= limit
    BY <1>1, <2>1 DEF IsLimitExceeded
  <2> QED BY <1>1, <2>1, <2>2
<1>13. ASSUME NEW x \in Thread PROVE AbruptFits(x)'
  <2>1. AbruptFits(x)
    BY DEF AbruptInductive
  <2>2. ~HasAbruptEnd(x)' /\ BlocksComeFirst(x)'
    BY <1>7, <1>8
  <2>3. pos'[x] = 0 => ~HasBlock(x)'
    BY <1>6, <1>8, <1>11, <2>1 DEF AbruptFits
  <2>4. ~HasEndedAbruptly'
    BY <1>10 DEF HasEndedAbruptly
  <2> QED BY <1>10, <2>2, <2>3, <2>4 DEF AbruptFits
<1> QED BY <1>12, <1>13 DEF AbruptInductive
LEMMA RoutineAbruptEnd ==
  ASSUME AbruptInductive, TracerInductive, TracerInductive',
         NEW t \in Thread, Routine(t)
  PROVE  AbruptInductive'
<1>0. ThreadsFit /\ FilesFit
  BY DEF TracerInductive
<1>1. /\ call \in [Thread -> Calls] /\ threadDataVec \in Seq(Thread) /\ t \in Nat
      /\ pos \in [Thread -> 0 .. Len(program) + 1]
      /\ \A u \in Thread : lock = u <=> call[u][1] = "all"
      /\ written \in [Thread -> [dyn : Seq(DynamicRecord), mem : Seq(MemoryRecord)]]
      /\ NoThread \notin Thread
  <2>1. t \in Nat /\ NoThread \notin Thread
    BY TracerAssumption DEF Thread
  <2>2. \A u \in Thread : lock = u <=> call[u][1] = "all"
    BY <1>0 DEF ThreadsFit, CallFits
  <2>3. /\ call \in [Thread -> Calls] /\ threadDataVec \in Seq(Thread)
        /\ pos \in [Thread -> 0 .. Len(program) + 1]
    BY <1>0 DEF ThreadsFit
  <2>4. written \in [Thread -> [dyn : Seq(DynamicRecord), mem : Seq(MemoryRecord)]]
    BY <1>0 DEF FilesFit
  <2> QED BY <2>1, <2>2, <2>3, <2>4
<1>2. Continue(t) \/ (\E c : Enter(t, c)) => \A u \in Thread : pos'[u] = 0 => pos[u] = 0
  BY <1>1 DEF Continue, Enter
<1>3. \A u \in Thread : Continue(t) => \/ call'[u] = call[u]
                                       \/ call'[u] # <<"gone">> /\ ~EndsAbruptly(u)'
  BY <1>1 DEF Continue, Idle, EndsAbruptly
<1>4. ASSUME NEW c, Enter(t, c), c # <<"gone">>, ~(c[1] = "all" /\ c[2] = "AbruptEnd")
      PROVE  \A u \in Thread : \/ call'[u] = call[u]
                               \/ call'[u] # <<"gone">> /\ ~EndsAbruptly(u)'
  BY <1>1, <1>4 DEF Enter, EndsAbruptly
<1> DEFINE U == UNCHANGED <<limit, numberOfExecInst, threadDataVec, written>>
           Moves == \/ Continue(t)
                    \/ \E c : Enter(t, c) /\ c # <<"gone">> /\ ~(c[1] = "all" /\ c[2] = "AbruptEnd")
<1>5. Moves => /\ \A u \in Thread : pos'[u] = 0 => pos[u] = 0
               /\ \A u \in Thread : \/ call'[u] = call[u]
                                    \/ call'[u] # <<"gone">> /\ ~EndsAbruptly(u)'
  BY <1>2, <1>3, <1>4
<1> HIDE DEF Moves
<1>6. U /\ Moves => AbruptInductive'
  <2> SUFFICES ASSUME U, Moves PROVE AbruptInductive'
    OBVIOUS
  <2>1. \A u \in Thread : written'[u].dyn = written[u].dyn
    OBVIOUS
  <2> QED BY <1>1, <1>5, <2>1, QuietStep
<1>7. CASE StartsThread(t)
  <2>1. Enter(t, <<"start">>) /\ U
    BY <1>7 DEF StartsThread, exitVars
  <2>2. Moves
    BY <2>1 DEF Moves
  <2> QED BY <1>6, <2>1, <2>2
<1>8. CASE RegistersThread(t)
  <2>1. /\ lock = NoThread /\ Continue(t)
        /\ threadDataVec' = Append(threadDataVec, t)
        /\ UNCHANGED <<limit, numberOfExecInst, written>>
    BY <1>8 DEF RegistersThread, exitVars
  <2>2. \A u \in Thread : ~EndsAbruptly(u) /\ ~EndsAbruptly(u)'
    BY <1>1, <2>1 DEF EndsAbruptly, Continue, Idle
  <2>3. LimitFits' /\ (IsLimitExceeded' <=> IsLimitExceeded)
    BY <2>1 DEF AbruptInductive, LimitFits, IsLimitExceeded
  <2>4. \A u \in Thread : /\ HasBlock(u)' <=> HasBlock(u)
                          /\ HasAbruptEnd(u)' <=> HasAbruptEnd(u)
                          /\ BlocksComeFirst(u)' <=> BlocksComeFirst(u)
    BY <2>1 DEF HasBlock, HasAbruptEnd, BlocksComeFirst, AbruptEnd
  <2>5. \A u \in Thread : call'[u] = <<"gone">> => call[u] = <<"gone">>
    BY <1>1, <2>1 DEF Continue, Idle
  <2>6. HasEndedAbruptly' => HasEndedAbruptly
    BY <2>5 DEF HasEndedAbruptly
  <2>7. ASSUME NEW u \in Thread PROVE AbruptFits(u)'
    <3>1. AbruptFits(u)
      BY DEF AbruptInductive
    <3>2. pos'[u] = 0 => pos[u] = 0
      BY <1>2, <2>1
    <3> QED BY <2>2, <2>3, <2>4, <2>5, <2>6, <3>1, <3>2 DEF AbruptFits
  <2> QED BY <2>3, <2>7 DEF AbruptInductive
<1>9. CASE ReachesBlock(t)
  <2>1. U
    BY <1>9 DEF ReachesBlock, exitVars
  <2>2. PICK b \in Block, rest \in SUBSET {"mem"} :
          IF WasThreadCreated(t) THEN Enter(t, <<"block", b, rest>>)
                                 ELSE LeaveRoutine(t, b, rest)
    BY <1>9 DEF ReachesBlock
  <2>3. Enter(t, <<"block", b, rest>>) \/ Enter(t, <<"rest", b, rest>>) \/ Continue(t)
    BY <2>2 DEF LeaveRoutine
  <2>4. Moves
    BY <2>3 DEF Moves
  <2> QED BY <1>6, <2>1, <2>4
<1>10. CASE AppendsBlock(t)
  BY <1>10, BlockStep
<1>11. CASE ExceedsLimit(t)
  <2> DEFINE c == <<"all", "AbruptEnd", 0>>
  <2>1. /\ lock = NoThread /\ U /\ IsLimitExceeded
        /\ call' = [call EXCEPT ![t] = c] /\ pos' = pos
    BY <1>11 DEF ExceedsLimit, IsLimitReached, IsLimitExceeded, Enter, exitVars
  <2>2. \A u \in Thread : ~EndsAbruptly(u)
    BY <1>1, <2>1 DEF EndsAbruptly
  <2>3. LimitFits' /\ IsLimitExceeded'
    BY <2>1 DEF AbruptInductive, LimitFits, IsLimitExceeded
  <2>4. \A u \in Thread : /\ HasBlock(u)' <=> HasBlock(u)
                          /\ HasAbruptEnd(u)' <=> HasAbruptEnd(u)
                          /\ BlocksComeFirst(u)' <=> BlocksComeFirst(u)
    BY <2>1 DEF HasBlock, HasAbruptEnd, BlocksComeFirst, AbruptEnd
  <2>5. call'[t] = c /\ \A u \in Thread \ {t} : call'[u] = call[u]
    BY <1>1, <2>1
  <2>6. c # <<"gone">> /\ c[3] = 0
    OBVIOUS
  <2> HIDE DEF c
  <2>7. HasEndedAbruptly' => HasEndedAbruptly
    BY <2>5, <2>6 DEF HasEndedAbruptly
  <2>8. ASSUME NEW u \in Thread PROVE AbruptFits(u)'
    <3>1. AbruptFits(u)
      BY DEF AbruptInductive
    <3>2. EndsAbruptly(u)' => call'[u][3] = 0
      BY <2>2, <2>5, <2>6 DEF EndsAbruptly
    <3>3. \A i \in 1 .. Len(threadDataVec') : ~(i <= 0)
      OBVIOUS
    <3>4. EndsAbruptly(u)' =>
            \A i \in 1 .. Len(threadDataVec') : i <= call'[u][3] => HasAbruptEnd(threadDataVec[i])'
      BY <3>2, <3>3
    <3> QED BY <2>1, <2>3, <2>4, <2>7, <3>1, <3>4 DEF AbruptFits
  <2> QED BY <2>3, <2>8 DEF AbruptInductive
<1>12. CASE AppendToMemTrace(t)
  <2>0. PICK b \in Block, rest \in SUBSET {"block"} : LeaveRoutine(t, b, rest)
    BY <1>12 DEF AppendToMemTrace
  <2>1. /\ UNCHANGED <<limit, numberOfExecInst, threadDataVec>>
        /\ \/ written' = written
           \/ \E m, u : written' = [written EXCEPT ![u].mem = m]
    BY <1>12 DEF AppendToMemTrace, exitVars
  <2>2. \A u \in Thread : written'[u].dyn = written[u].dyn
    <3>1. CASE written' = written
      BY <3>1
    <3>2. CASE \E m, u : written' = [written EXCEPT ![u].mem = m]
      <4>1. PICK m, u : written' = [written EXCEPT ![u].mem = m]
        BY <3>2
      <4> TAKE v \in Thread
      <4>2. written[v] \in [dyn : Seq(DynamicRecord), mem : Seq(MemoryRecord)]
        BY <1>1
      <4>3. written'[v] = written[v] \/ written'[v] = [written[v] EXCEPT !.mem = m]
        BY <1>1, <4>1
      <4> QED BY <4>2, <4>3
    <3> QED BY <2>1, <3>1, <3>2
  <2>3. Enter(t, <<"rest", b, rest>>) \/ Continue(t)
    BY <2>0 DEF LeaveRoutine
  <2>4. Moves
    BY <2>3 DEF Moves
  <2> QED BY <1>1, <1>5, <2>1, <2>2, <2>4, QuietStep
<1>13. CASE ReachesEvent(t)
  <2>1. U
    BY <1>13 DEF ReachesEvent, exitVars
  <2>2. (\E p : Enter(t, <<"event", p>>)) \/ Continue(t)
    BY <1>13 DEF ReachesEvent
  <2>3. ASSUME NEW p, Enter(t, <<"event", p>>) PROVE Moves
    <3>1. <<"event", p>> # <<"gone">> /\ <<"event", p>>[1] # "all"
      OBVIOUS
    <3> QED BY <2>3, <3>1 DEF Moves
  <2>4. Moves
    BY <2>2, <2>3 DEF Moves
  <2> QED BY <1>6, <2>1, <2>4
<1>14. CASE AddsOwnEvent(t)
  <2> DEFINE p == call[t][2]
             u == ThreadDataOf(t)
             e == EventAt[p]
  <2>1. /\ call[t][1] = "event"
        /\ AddDynamicRecord(u, <<"event", e>>, 0)
        /\ Enter(t, <<"all", e, 1>>) \/ Continue(t)
        /\ UNCHANGED <<limit, numberOfExecInst, threadDataVec>>
    BY <1>14 DEF AddsOwnEvent, exitVars
  <2>2. p \in DOMAIN EventAt
    BY <1>1, <2>1, CallShapes
  <2>3. e \in Events /\ e # "AbruptEnd"
    BY <2>2, EventsAt DEF Events
  <2>4. t < Len(threadDataVec)
    BY <1>0, <2>1 DEF ThreadsFit, CallFits
  <2>5. u \in Thread
    BY <1>0, <1>1, <2>4, DataOfIndex
  <2> HIDE DEF e, u
  <2>6. <<"all", e, 1>>[2] # "AbruptEnd" /\ <<"all", e, 1>> # <<"gone">>
    BY <2>3
  <2>7. Moves
    BY <2>1, <2>6 DEF Moves
  <2> QED BY <1>0, <1>1, <1>5, <2>1, <2>3, <2>5, <2>7, EventStep
<1>15. CASE AddsEventToNext(t)
  <2> DEFINE n == call[t][3]
             u == ThreadDataOf(n)
             e == call[t][2]
  <2>1. /\ call[t][1] = "all" /\ n < Len(threadDataVec)
        /\ AddDynamicRecord(u, <<"event", e>>, 0)
        /\ call' = [call EXCEPT ![t] = <<"all", e, n + 1>>] /\ pos' = pos
        /\ UNCHANGED <<limit, numberOfExecInst, threadDataVec>>
    BY <1>15 DEF AddsEventToNext, IsInVec, Enter, exitVars
  <2>2. e \in Events /\ n \in Nat
    BY <1>1, <2>1, CallShapes
  <2>3. u \in Thread /\ threadDataVec[n + 1] = u
    BY <1>0, <2>1, <2>2, DataOfIndex DEF ThreadDataOf
  <2>4. e = "AbruptEnd" => EndsAbruptly(t) /\ IsLimitExceeded
    BY <2>1 DEF EndsAbruptly, AbruptInductive, AbruptFits
  <2>5. call'[t] = <<"all", e, n + 1>> /\ \A x \in Thread \ {t} : call'[x] = call[x]
    BY <1>1, <2>1
  <2>6. EndsAbruptly(t)' => e = "AbruptEnd"
    BY <2>5 DEF EndsAbruptly
  <2>7. call'[t][3] = n + 1 /\ call'[t] # <<"gone">>
    BY <2>5
  <2>8. \A x \in Thread :
          \/ call'[x] = call[x]
          \/ /\ call'[x] # <<"gone">>
             /\ EndsAbruptly(x)' =>
                  /\ EndsAbruptly(x) /\ e = "AbruptEnd"
                  /\ call[x][3] \in Nat /\ call'[x][3] = call[x][3] + 1
                  /\ threadDataVec[call[x][3] + 1] = u
    BY <2>2, <2>3, <2>4, <2>5, <2>6, <2>7
  <2>9. \A x \in Thread : pos'[x] = 0 => pos[x] = 0
    BY <2>1
  <2> HIDE DEF e, u, n
  <2> QED BY <1>0, <1>1, <2>1, <2>2, <2>3, <2>4, <2>8, <2>9, EventStep
<1>16. CASE EndsLoop(t)
  <2>1. /\ call[t][1] = "all" /\ ~(call[t][3] < Len(threadDataVec)) /\ U
        /\ IF call[t][2] = "AbruptEnd" THEN Enter(t, <<"gone">>) ELSE Continue(t)
    BY <1>16 DEF EndsLoop, IsInVec
  <2>2. CASE call[t][2] # "AbruptEnd"
    <3>1. Moves
      BY <2>1, <2>2 DEF Moves
    <3> QED BY <1>6, <2>1, <3>1
  <2>3. CASE call[t][2] = "AbruptEnd"
    <3>1. call' = [call EXCEPT ![t] = <<"gone">>] /\ pos' = pos
      BY <2>1, <2>3 DEF Enter
    <3>2. EndsAbruptly(t)
      BY <2>1, <2>3 DEF EndsAbruptly
    <3>3. IsLimitExceeded
      BY <3>2 DEF AbruptInductive, AbruptFits
    <3>4. LimitFits' /\ IsLimitExceeded'
      BY <2>1, <3>3 DEF AbruptInductive, LimitFits, IsLimitExceeded
    <3>5. \A u \in Thread : ~EndsAbruptly(u)'
      BY <1>1, <2>1, <3>1 DEF EndsAbruptly
    <3>6. \A u \in Thread : /\ HasBlock(u)' <=> HasBlock(u)
                            /\ HasAbruptEnd(u)' <=> HasAbruptEnd(u)
                            /\ BlocksComeFirst(u)' <=> BlocksComeFirst(u)
      BY <2>1 DEF HasBlock, HasAbruptEnd, BlocksComeFirst, AbruptEnd
    <3>7. \A i \in 1 .. Len(threadDataVec) : HasAbruptEnd(threadDataVec[i])
      <4> TAKE i \in 1 .. Len(threadDataVec)
      <4>1. i <= call[t][3]
        <5>1. call[t][3] \in Nat /\ Len(threadDataVec) \in Nat
          BY <1>1, <2>1, CallShapes, LenProperties
        <5> QED BY <2>1, <5>1
      <4>2. AbruptFits(t)
        BY DEF AbruptInductive
      <4> QED BY <3>2, <4>1, <4>2 DEF AbruptFits
    <3>8. ASSUME NEW u \in Thread PROVE AbruptFits(u)'
      <4>1. AbruptFits(u)
        BY DEF AbruptInductive
      <4>2. HasBlock(u) => HasAbruptEnd(u)
        <5> SUFFICES ASSUME HasBlock(u) PROVE HasAbruptEnd(u)
          OBVIOUS
        <5>1. pos[u] > 0
          <6>1. pos[u] # 0
            BY <4>1 DEF AbruptFits
          <6>2. pos[u] \in 0 .. Len(program) + 1
            BY <1>1
          <6> QED BY <6>1, <6>2
        <5>2. IsRegistered(u)
          BY <1>0, <5>1 DEF ThreadsFit
        <5>3. PICK i \in 1 .. Len(threadDataVec) : threadDataVec[i] = u
          BY <5>2 DEF IsRegistered
        <5> QED BY <3>7, <5>3
      <4> QED BY <3>1, <3>4, <3>5, <3>6, <4>1, <4>2 DEF AbruptFits
    <3> QED BY <3>4, <3>8 DEF AbruptInductive
  <2> QED BY <2>2, <2>3
<1>17. CASE Synchronises(t)
  <2>1. Continue(t) /\ U
    BY <1>17 DEF Synchronises, exitVars
  <2>2. Moves
    BY <2>1 DEF Moves
  <2> QED BY <1>6, <2>1, <2>2
<1>18. CASE OnThreadFini(t)
  <2>1. U /\ call' = call /\ pos' = pos
    BY <1>18 DEF OnThreadFini, exitVars
  <2> QED BY <1>1, <2>1, QuietStep
<1> QED BY <1>7, <1>8, <1>9, <1>10, <1>11, <1>12, <1>13, <1>14, <1>15, <1>16, <1>17, <1>18
        DEF Routine, OnThreadStart, AppendToDynamicTrace, OnThreadEvent
(***************************************************************************)
(* However the threads interleave, the limit on the instructions is        *)
(* exceeded by at most the size of a block, and once a thread has ended    *)
(* the program abruptly, every file that has blocks has an abrupt end,     *)
(* with all of its blocks before the first one: the simulator stops all    *)
(* cores.                                                                  *)
(***************************************************************************)
THEOREM AbruptEndIsForAll == Spec => []AbruptEndStopsAll
<1>1. TracerInductive /\ AbruptInductive => AbruptEndStopsAll
  <2> SUFFICES ASSUME TracerInductive, AbruptInductive PROVE AbruptEndStopsAll
    OBVIOUS
  <2>1. threadDataVec \in Seq(Thread)
    BY DEF TracerInductive, ThreadsFit
  <2>2. limit # NoLimit => \E b \in Block : numberOfExecInst <= limit + BlockSize[b]
    BY DEF AbruptInductive, LimitFits
  <2>3. ASSUME HasEndedAbruptly, NEW t \in Range(threadDataVec),
               NEW i \in DOMAIN written[t].dyn, written[t].dyn[i][1] = "block"
        PROVE  \E j \in DOMAIN written[t].dyn :
                 /\ written[t].dyn[j] = AbruptEnd
                 /\ \A k \in 1 .. j : written[t].dyn[k] = AbruptEnd => i < k
    <3>1. t \in Thread
      BY <2>1, ElementOfSeq, LenProperties DEF Range
    <3>2. AbruptFits(t)
      BY <3>1 DEF AbruptInductive
    <3>3. HasAbruptEnd(t)
      BY <2>3, <3>2 DEF AbruptFits, HasBlock
    <3>4. PICK j \in DOMAIN written[t].dyn : written[t].dyn[j] = AbruptEnd
      BY <3>3 DEF HasAbruptEnd
    <3>5. \A k \in DOMAIN written[t].dyn : written[t].dyn[k] = AbruptEnd => i < k
      BY <2>3, <3>2 DEF AbruptFits, BlocksComeFirst
    <3>6. \A k \in 1 .. j : k \in DOMAIN written[t].dyn
      <4>1. written[t].dyn \in Seq(DynamicRecord)
        BY <3>1 DEF TracerInductive, FilesFit
      <4>2. DOMAIN written[t].dyn = 1 .. Len(written[t].dyn) /\ Len(written[t].dyn) \in Nat
        BY <4>1, LenProperties
      <4> QED BY <3>4, <4>2
    <3> QED BY <3>4, <3>5, <3>6
  <2> QED BY <2>2, <2>3 DEF AbruptEndStopsAll
<1>2. Init => TracerInductive
  BY TracerStart
<1>3. Init => AbruptInductive
  <2> SUFFICES ASSUME Init PROVE AbruptInductive
    OBVIOUS
  <2>1. LimitFits
    <3> SUFFICES ASSUME limit # NoLimit
                 PROVE \E b \in Block : numberOfExecInst <= limit + BlockSize[b]
      BY DEF LimitFits
    <3>1. PICK b : b \in Block
      BY TracerAssumption
    <3>2. limit \in Nat /\ BlockSize[b] \in Nat /\ numberOfExecInst = 0
      BY <3>1, TracerAssumption DEF Init
    <3> QED BY <3>1, <3>2
  <2>2. ASSUME NEW t \in Thread PROVE AbruptFits(t)
    <3>1. written[t].dyn = <<>> /\ call[t] = Idle
      BY DEF Init
    <3>2. ~HasBlock(t) /\ ~HasAbruptEnd(t) /\ BlocksComeFirst(t)
      BY <3>1 DEF HasBlock, HasAbruptEnd, BlocksComeFirst
    <3>3. ~EndsAbruptly(t) /\ call[t] # <<"gone">>
      BY <3>1 DEF EndsAbruptly, Idle
    <3> QED BY <3>2, <3>3 DEF AbruptFits
  <2> QED BY <2>1, <2>2 DEF AbruptInductive
<1>4. TracerInductive /\ [Next]_tracerVars => TracerInductive'
  BY TracerStep
<1>5. TracerInductive /\ TracerInductive' /\ AbruptInductive /\ [Next]_tracerVars => AbruptInductive'
  <2> SUFFICES ASSUME TracerInductive, TracerInductive', AbruptInductive, [Next]_tracerVars
               PROVE  AbruptInductive'
    OBVIOUS
  <2>1. CASE \E t \in Thread : Routine(t)
    BY <2>1, RoutineAbruptEnd
  <2>2. CASE Exits \/ Stops \/ ReadsRecord \/ OpensNextFile \/ UNCHANGED tracerVars
    <3>1. UNCHANGED <<limit, numberOfExecInst, threadDataVec, written, pos, call>>
      BY <2>2 DEF Exits, Stops, ReadsRecord, OpensNextFile, tracerVars, exitVars
    <3>2. threadDataVec \in Seq(Thread)
      BY DEF TracerInductive, ThreadsFit
    <3> QED BY <3>1, <3>2, QuietStep
  <2> QED BY <2>1, <2>2 DEF Next
<1> QED BY <1>1, <1>2, <1>3, <1>4, <1>5, PTL DEF Spec
-----------------------------------------------------------------------------
(***************************************************************************)
(* The instructions that access memory in a dynamic file, the headers in a *)
(* memory file, and how their numbers grow.                                *)
(***************************************************************************)
InstructionsOf(w) == {i \in DOMAIN w : w[i][1] = "block" /\ Accesses[w[i][2]] # {}}

HeadersOf(w) == {i \in DOMAIN w : w[i][1] = "header"}

FilesMatch(t) ==
  Cardinality(HeadersOf(written[t].mem)) - Cardinality(InstructionsOf(written[t].dyn))
    \in HeadersTooMany(call[t])

LEMMA TooManyOfCall ==
  ASSUME NEW c
  PROVE  /\ c[1] \in {"idle", "start", "event"} => HeadersTooMany(c) = {0}
         /\ c[1] = "rest" => HeadersTooMany(c) = IF c[3] = {"mem"} THEN {-1} ELSE {1}
         /\ c[1] = "block" =>
              HeadersTooMany(c) = IF c[3] = {} /\ Accesses[c[2]] # {} THEN {1} ELSE {0}
         /\ c[1] = "all" =>
              HeadersTooMany(c) = IF c[2] = "AbruptEnd" THEN {0, 1} ELSE {0}
         /\ c[1] = "gone" => HeadersTooMany(c) = {0, 1}
BY DEF HeadersTooMany

LEMMA CountsAreNumbers ==
  ASSUME NEW S, NEW w \in Seq(S)
  PROVE  /\ IsFiniteSet(InstructionsOf(w)) /\ Cardinality(InstructionsOf(w)) \in Nat
         /\ IsFiniteSet(HeadersOf(w)) /\ Cardinality(HeadersOf(w)) \in Nat
<1>1. Len(w) \in Nat /\ DOMAIN w = 1 .. Len(w)
  BY LenProperties
<1>2. IsFiniteSet(1 .. Len(w))
  BY <1>1, FS_Interval
<1>3. InstructionsOf(w) \subseteq 1 .. Len(w) /\ HeadersOf(w) \subseteq 1 .. Len(w)
  BY <1>1 DEF InstructionsOf, HeadersOf
<1>4. IsFiniteSet(InstructionsOf(w)) /\ IsFiniteSet(HeadersOf(w))
  BY <1>2, <1>3, FS_Subset
<1> QED BY <1>4, FS_CardinalityType

LEMMA InstructionCounts ==
  ASSUME FilesFit, NEW u \in Thread, NEW record \in DynamicRecord, NEW n,
         AddDynamicRecord(u, record, n)
  PROVE  Cardinality(InstructionsOf(written'[u].dyn)) =
           Cardinality(InstructionsOf(written[u].dyn)) +
             IF record[1] = "block" /\ Accesses[record[2]] # {} THEN 1 ELSE 0
<1> DEFINE old == written[u].dyn
           new == written'[u].dyn
<1>1. /\ Len(old) \in Nat /\ DOMAIN old = 1 .. Len(old) /\ DOMAIN new = 1 .. Len(old) + 1
      /\ \A i \in 1 .. Len(old) : new[i] = old[i]
      /\ new[Len(old) + 1] = record
  BY DynamicAppend
<1>2. old \in Seq(DynamicRecord)
  BY DEF FilesFit
<1> HIDE DEF old, new
<1>3. IsFiniteSet(InstructionsOf(old)) /\ Cardinality(InstructionsOf(old)) \in Nat
  BY <1>2, CountsAreNumbers
<1>4. 1 .. Len(old) + 1 = 1 .. Len(old) \cup {Len(old) + 1} /\ Len(old) + 1 \notin 1 .. Len(old)
  BY <1>1
<1>5. CASE record[1] = "block" /\ Accesses[record[2]] # {}
  <2>1. InstructionsOf(new) = InstructionsOf(old) \cup {Len(old) + 1}
    BY <1>1, <1>4, <1>5 DEF InstructionsOf
  <2>2. Len(old) + 1 \notin InstructionsOf(old)
    BY <1>1, <1>4 DEF InstructionsOf
  <2>3. Cardinality(InstructionsOf(new)) = Cardinality(InstructionsOf(old)) + 1
    BY <1>3, <2>1, <2>2, FS_AddElement
  <2> QED BY <1>5, <2>3 DEF old, new
<1>6. CASE ~(record[1] = "block" /\ Accesses[record[2]] # {})
  <2>1. InstructionsOf(new) = InstructionsOf(old)
    BY <1>1, <1>4, <1>6 DEF InstructionsOf
  <2> QED BY <1>3, <1>6, <2>1 DEF old, new
<1> QED BY <1>5, <1>6

LEMMA HeaderCounts ==
  ASSUME NEW w \in Seq(MemoryRecord), NEW records \in Seq(MemoryRecord),
         Len(records) \in Nat \ {0}, records[1][1] = "header",
         \A i \in 2 .. Len(records) : records[i][1] # "header"
  PROVE  Cardinality(HeadersOf(w \o records)) = Cardinality(HeadersOf(w)) + 1
<1> DEFINE new == w \o records
<1>1. /\ new \in Seq(MemoryRecord)
      /\ Len(new) = Len(w) + Len(records)
      /\ \A i \in 1 .. Len(w) + Len(records) :
           new[i] = IF i <= Len(w) THEN w[i] ELSE records[i - Len(w)]
  BY ConcatProperties
<1>2. Len(w) \in Nat /\ DOMAIN w = 1 .. Len(w) /\ DOMAIN new = 1 .. Len(w) + Len(records)
  BY <1>1, LenProperties
<1> HIDE DEF new
<1>3. ASSUME NEW i \in 1 .. Len(w) + Len(records)
      PROVE  new[i][1] = "header" <=> (i \in 1 .. Len(w) /\ w[i][1] = "header") \/ i = Len(w) + 1
  <2>1. CASE i <= Len(w)
    BY <1>1, <1>2, <2>1
  <2>2. CASE i = Len(w) + 1
    <3>1. new[i] = records[1]
      BY <1>1, <1>2, <2>2
    <3> QED BY <2>2, <3>1
  <2>3. CASE i > Len(w) + 1
    <3>1. i - Len(w) \in 2 .. Len(records)
      BY <1>2, <2>3
    <3>2. new[i] = records[i - Len(w)]
      BY <1>1, <1>2, <2>3
    <3>3. records[i - Len(w)][1] # "header"
      BY <3>1
    <3> QED BY <1>2, <2>3, <3>2, <3>3
  <2> QED BY <1>2, <2>1, <2>2, <2>3
<1>4. Len(w) + 1 \in 1 .. Len(w) + Len(records) /\ Len(w) + 1 \notin 1 .. Len(w)
  BY <1>2
<1>5. \A i \in 1 .. Len(w) : i \in 1 .. Len(w) + Len(records)
  BY <1>2
<1>6. HeadersOf(new) = HeadersOf(w) \cup {Len(w) + 1}
  BY <1>2, <1>3, <1>4, <1>5 DEF HeadersOf
<1>7. Len(w) + 1 \notin HeadersOf(w)
  BY <1>2, <1>4 DEF HeadersOf
<1>8. IsFiniteSet(HeadersOf(w))
  BY CountsAreNumbers
<1> QED BY <1>6, <1>7, <1>8, FS_AddElement DEF new
(***************************************************************************)
(* Threads that register in order find their own writers.                  *)
(***************************************************************************)
LEMMA OrderWasThere ==
  ASSUME threadDataVec \in Seq(Thread), InOrder',
         \/ threadDataVec' = threadDataVec
         \/ \E t \in Thread : threadDataVec' = Append(threadDataVec, t)
  PROVE  InOrder
<1>1. CASE threadDataVec' = threadDataVec
  BY <1>1 DEF InOrder
<1>2. ASSUME NEW t \in Thread, threadDataVec' = Append(threadDataVec, t) PROVE InOrder
  <2>1. Len(threadDataVec) \in Nat /\ DOMAIN threadDataVec = 1 .. Len(threadDataVec)
    BY LenProperties
  <2>2. /\ threadDataVec' \in Seq(Thread) /\ Len(threadDataVec') = Len(threadDataVec) + 1
        /\ \A i \in 1 .. Len(threadDataVec) : threadDataVec'[i] = threadDataVec[i]
    BY <1>2, AppendProperties
  <2>3. DOMAIN threadDataVec' = 1 .. Len(threadDataVec) + 1
    BY <2>2, LenProperties
  <2> QED BY <2>1, <2>2, <2>3 DEF InOrder
<1> QED BY <1>1, <1>2

LEMMA OwnWriters ==
  ASSUME ThreadsFit, InOrder, NEW t \in Thread, pos[t] > 0
  PROVE  WasThreadCreated(t) /\ ThreadDataOf(t) = t
<1>1. threadDataVec \in Seq(Thread) /\ t \in Nat
  BY TracerAssumption DEF ThreadsFit, Thread
<1>2. Len(threadDataVec) \in Nat /\ DOMAIN threadDataVec = 1 .. Len(threadDataVec)
  BY <1>1, LenProperties
<1>3. PICK i \in 1 .. Len(threadDataVec) : threadDataVec[i] = t
  BY DEF ThreadsFit, IsRegistered
<1>4. t = i - 1
  BY <1>2, <1>3 DEF InOrder
<1>5. t + 1 = i
  BY <1>4, <1>3
<1>6. ThreadDataOf(t) = t
  BY <1>3, <1>5 DEF ThreadDataOf
<1>7. Len(threadDataVec) - t # 0
  <2> DEFINE n == Len(threadDataVec)
  <2>1. i \in 1 .. n /\ n \in Nat
    BY <1>2, <1>3
  <2> HIDE DEF n
  <2>2. t < n
    BY <1>1, <1>5, <2>1
  <2>3. n - t # 0
    BY <1>1, <2>1, <2>2
  <2> QED BY <2>3 DEF n
<1> QED BY <1>6, <1>7 DEF WasThreadCreated

LEMMA RoutineMatches ==
  ASSUME TracerInductive, NEW t \in Thread, Routine(t), InOrder,
         \A u \in Thread : FilesMatch(u)
  PROVE  \A u \in Thread : FilesMatch(u)'
<1>0. ThreadsFit /\ FilesFit
  BY DEF TracerInductive
<1>1. /\ call \in [Thread -> Calls] /\ threadDataVec \in Seq(Thread) /\ t \in Nat
      /\ written \in [Thread -> [dyn : Seq(DynamicRecord), mem : Seq(MemoryRecord)]]
      /\ pos \in [Thread -> 0 .. Len(program) + 1]
  BY <1>0, TracerAssumption DEF ThreadsFit, FilesFit, Thread
<1> DEFINE Same == /\ HeadersTooMany(call[t]) \subseteq HeadersTooMany(call'[t])
                   /\ \A u \in Thread \ {t} : call'[u] = call[u]
<1>2. Same => \A u \in Thread : HeadersTooMany(call[u]) \subseteq HeadersTooMany(call'[u])
  OBVIOUS
<1>3. written' = written /\ Same => \A u \in Thread : FilesMatch(u)'
  BY <1>2 DEF FilesMatch
<1>4. Continue(t) /\ HeadersTooMany(call[t]) = {0} => Same
  <2>1. Idle[1] = "idle"
    BY DEF Idle
  <2>2. HeadersTooMany(Idle) = {0}
    BY <2>1, TooManyOfCall
  <2> QED BY <1>1, <2>2 DEF Continue
<1>5. ASSUME NEW c, Enter(t, c), HeadersTooMany(call[t]) \subseteq HeadersTooMany(c) PROVE Same
  BY <1>1, <1>5 DEF Enter
<1> HIDE DEF Same
<1>6. ASSUME NEW u \in Thread, NEW e \in Events, AddDynamicRecord(u, <<"event", e>>, 0), Same
      PROVE  \A v \in Thread : FilesMatch(v)'
  <2> DEFINE record == <<"event", e>>
  <2>1. record \in DynamicRecord /\ record[1] = "event"
    BY DEF DynamicRecord
  <2> HIDE DEF record
  <2>2. AddDynamicRecord(u, record, 0)
    BY <1>6 DEF record
  <2>3. /\ \A v \in Thread : written'[v].mem = written[v].mem
        /\ \A v \in Thread \ {u} : written'[v].dyn = written[v].dyn
    BY <1>0, <2>1, <2>2, DynamicAppend
  <2>4. Cardinality(InstructionsOf(written'[u].dyn)) = Cardinality(InstructionsOf(written[u].dyn)) + 0
    BY <1>0, <2>1, <2>2, InstructionCounts
  <2>5. Cardinality(InstructionsOf(written[u].dyn)) \in Nat
    BY <1>1, CountsAreNumbers
  <2> TAKE v \in Thread
  <2>6. Cardinality(InstructionsOf(written'[v].dyn)) = Cardinality(InstructionsOf(written[v].dyn))
    BY <2>3, <2>4, <2>5
  <2> QED BY <1>2, <1>6, <2>3, <2>6 DEF FilesMatch
<1>7. CASE StartsThread(t)
  <2>1. Enter(t, <<"start">>) /\ call[t] = Idle /\ written' = written
    BY <1>7 DEF StartsThread
  <2>2. <<"start">>[1] = "start" /\ call[t][1] = "idle"
    BY <2>1 DEF Idle
  <2>3. HeadersTooMany(call[t]) = {0} /\ HeadersTooMany(<<"start">>) = {0}
    BY <2>2, TooManyOfCall
  <2> QED BY <1>3, <1>5, <2>1, <2>3
<1>8. CASE RegistersThread(t)
  <2>1. Continue(t) /\ call[t] = <<"start">> /\ written' = written
    BY <1>8 DEF RegistersThread
  <2>2. call[t][1] = "start"
    BY <2>1
  <2>3. HeadersTooMany(call[t]) = {0}
    BY <2>2, TooManyOfCall
  <2> QED BY <1>3, <1>4, <2>1, <2>3
<1>9. CASE ReachesBlock(t)
  <2>0. written' = written
    BY <1>9 DEF ReachesBlock
  <2>1. PICK b \in Block, rest \in SUBSET {"mem"} :
          /\ ToCall(t, "block", b, rest)
          /\ IF WasThreadCreated(t) THEN Enter(t, <<"block", b, rest>>)
                                    ELSE LeaveRoutine(t, b, rest)
    BY <1>9 DEF ReachesBlock
  <2>2. \/ /\ call[t] = Idle /\ call[t][1] = "idle"
           /\ pos[t] \in DOMAIN program /\ rest = RoutinesOf(b) \ {"block"}
        \/ call[t][1] = "rest" /\ call[t][3] = {"block"} /\ rest = {} /\ Accesses[b] # {}
    BY <1>1, <2>1, RoutineIsCalled
  <2>3. pos[t] > 0
    BY <1>0, <2>2, StartedThread
  <2> DEFINE c == <<"block", b, rest>>
  <2>4. Enter(t, c)
    BY <1>0, <2>1, <2>3, OwnWriters
  <2>5. c[1] = "block" /\ c[2] = b /\ c[3] = rest
    OBVIOUS
  <2> HIDE DEF c
  <2>6. HeadersTooMany(c) = IF rest = {} /\ Accesses[b] # {} THEN {1} ELSE {0}
    BY <2>5, TooManyOfCall
  <2>7. HeadersTooMany(call[t]) = HeadersTooMany(c)
    <3>1. CASE call[t][1] = "idle" /\ rest = RoutinesOf(b) \ {"block"}
      <4>1. HeadersTooMany(call[t]) = {0}
        BY <3>1, TooManyOfCall
      <4>2. Accesses[b] # {} => "mem" \in rest
        BY <3>1 DEF RoutinesOf
      <4> QED BY <2>6, <4>1, <4>2
    <3>2. CASE call[t][1] = "rest" /\ call[t][3] = {"block"} /\ rest = {} /\ Accesses[b] # {}
      <4>1. {"block"} # {"mem"}
        OBVIOUS
      <4>2. HeadersTooMany(call[t]) = {1}
        BY <3>2, <4>1, TooManyOfCall
      <4> QED BY <2>6, <3>2, <4>2
    <3> QED BY <2>2, <3>1, <3>2
  <2> QED BY <1>3, <1>5, <2>0, <2>4, <2>7
<1>10. CASE AppendsBlock(t)
  <2> DEFINE b == call[t][2]
             rest == call[t][3]
             record == <<"block", b>>
             h == Cardinality(HeadersOf(written[t].mem))
             n == Cardinality(InstructionsOf(written[t].dyn))
  <2>1. /\ call[t][1] = "block" /\ LeaveRoutine(t, b, rest)
        /\ AddDynamicRecord(ThreadDataOf(t), record, BlockSize[b])
    BY <1>10 DEF AppendsBlock
  <2>2. b \in Block /\ rest \in {{}, {"mem"}} /\ MayRemain(b, rest)
    BY <1>1, <2>1, CallShapes
  <2>3. record \in DynamicRecord /\ record[1] = "block" /\ record[2] = b
    BY <2>2 DEF DynamicRecord
  <2>4. pos[t] > 0
    BY <1>0, <2>1, StartedThread
  <2>5. AddDynamicRecord(t, record, BlockSize[b])
    BY <1>0, <2>1, <2>4, OwnWriters
  <2>6. HeadersTooMany(call[t]) = IF rest = {} /\ Accesses[b] # {} THEN {1} ELSE {0}
    BY <2>1, TooManyOfCall
  <2> HIDE DEF record, b, rest
  <2>7. /\ \A v \in Thread : written'[v].mem = written[v].mem
        /\ \A v \in Thread \ {t} : written'[v].dyn = written[v].dyn
    BY <1>0, <2>3, <2>5, DynamicAppend
  <2>8. Cardinality(InstructionsOf(written'[t].dyn)) = n + IF Accesses[b] # {} THEN 1 ELSE 0
    BY <1>0, <2>3, <2>5, InstructionCounts
  <2>9. n \in Nat /\ h \in Nat
    BY <1>1, CountsAreNumbers
  <2>10. h - n \in HeadersTooMany(call[t])
    BY DEF FilesMatch
  <2>11. Cardinality(HeadersOf(written'[t].mem)) = h
    BY <2>7
  <2> HIDE DEF h, n
  <2> DEFINE m == Cardinality(InstructionsOf(written'[t].dyn))
  <2>12. h - m \in HeadersTooMany(call'[t])
    <3>1. CASE rest = {}
      <4>1. call'[t] = Idle
        BY <1>1, <2>1, <3>1 DEF LeaveRoutine, Continue
      <4>2. call'[t][1] = "idle"
        BY <4>1 DEF Idle
      <4>3. HeadersTooMany(call'[t]) = {0}
        BY <4>2, TooManyOfCall
      <4>4. h - m = 0
        BY <2>6, <2>8, <2>9, <2>10, <3>1
      <4> QED BY <4>3, <4>4
    <3>2. CASE rest # {}
      <4>1. rest = {"mem"} /\ Accesses[b] # {}
        BY <2>2, <3>2 DEF MayRemain
      <4>2. call'[t] = <<"rest", b, rest>>
        BY <1>1, <2>1, <3>2 DEF LeaveRoutine, Enter
      <4>3. call'[t][1] = "rest" /\ call'[t][3] = rest
        BY <4>2
      <4>4. HeadersTooMany(call'[t]) = {-1}
        BY <4>1, <4>3, TooManyOfCall
      <4>5. h - m = -1
        BY <2>6, <2>8, <2>9, <2>10, <3>2, <4>1
      <4> QED BY <4>4, <4>5
    <3> QED BY <3>1, <3>2
  <2>13. FilesMatch(t)'
    BY <2>11, <2>12 DEF FilesMatch
  <2>14. \A v \in Thread \ {t} : call'[v] = call[v]
    BY <1>1, <2>1 DEF LeaveRoutine, Enter, Continue
  <2>15. \A v \in Thread \ {t} : FilesMatch(v)'
    BY <2>7, <2>14 DEF FilesMatch
  <2> QED BY <2>13, <2>15
<1>11. CASE ExceedsLimit(t)
  <2> DEFINE c == <<"all", "AbruptEnd", 0>>
  <2>1. call[t][1] = "block" /\ Enter(t, c) /\ written' = written
    BY <1>11 DEF ExceedsLimit
  <2>2. c[1] = "all" /\ c[2] = "AbruptEnd"
    OBVIOUS
  <2> HIDE DEF c
  <2>3. HeadersTooMany(call[t]) = {0} \/ HeadersTooMany(call[t]) = {1}
    BY <2>1, TooManyOfCall
  <2>4. HeadersTooMany(c) = {0, 1}
    BY <2>2, TooManyOfCall
  <2> QED BY <1>3, <1>5, <2>1, <2>3, <2>4
<1>12. CASE AppendToMemTrace(t)
  <2>1. PICK b \in Block, rest \in SUBSET {"block"} :
          /\ ToCall(t, "mem", b, rest)
          /\ LeaveRoutine(t, b, rest)
          /\ \E info \in Accesses[b] :
               IF WasThreadCreated(t)
                 THEN LET u == ThreadDataOf(t) IN
                      /\ memoryTrace' = [memoryTrace EXCEPT ![u] = AddRecords(@, MemoryRecords(info))]
                      /\ written' = [written EXCEPT ![u].mem = @ \o MemoryRecords(info)]
                 ELSE UNCHANGED <<memoryTrace, written>>
    BY <1>12 DEF AppendToMemTrace
  <2>2. /\ Accesses[b] # {}
        /\ \/ /\ call[t] = Idle /\ call[t][1] = "idle"
              /\ pos[t] \in DOMAIN program /\ rest = RoutinesOf(b) \ {"mem"}
           \/ call[t][1] = "rest" /\ call[t][3] = {"mem"} /\ rest = {}
    BY <1>1, <2>1, RoutineIsCalled
  <2>3. pos[t] > 0
    BY <1>0, <2>2, StartedThread
  <2>4. WasThreadCreated(t) /\ ThreadDataOf(t) = t
    BY <1>0, <2>3, OwnWriters
  <2>5. PICK info \in Accesses[b] :
          written' = [written EXCEPT ![t].mem = @ \o MemoryRecords(info)]
    BY <2>1, <2>4
  <2>6. info \in Seq(MemoryOp)
    BY <2>5, TracerAssumption
  <2> DEFINE records == MemoryRecords(info)
  <2>7. /\ records \in Seq(MemoryRecord)
        /\ Len(records) \in Nat \ {0}
        /\ records[1][1] = "header"
        /\ \A i \in 2 .. Len(records) : records[i][1] # "header"
    BY <2>6, MemoryRecordsFit
  <2>8. written' = [written EXCEPT ![t].mem = @ \o records]
    BY <2>5
  <2> HIDE DEF records
  <2>9. /\ written'[t].mem = written[t].mem \o records
        /\ written'[t].dyn = written[t].dyn
        /\ \A v \in Thread \ {t} : written'[v] = written[v]
    BY <1>1, <2>8
  <2> DEFINE h == Cardinality(HeadersOf(written[t].mem))
             n == Cardinality(InstructionsOf(written[t].dyn))
             k == Cardinality(HeadersOf(written'[t].mem))
  <2>10. written[t].mem \in Seq(MemoryRecord)
    BY <1>1
  <2>11. k = h + 1
    BY <2>7, <2>9, <2>10, HeaderCounts
  <2>12. h \in Nat /\ n \in Nat
    BY <1>1, CountsAreNumbers
  <2>13. h - n \in HeadersTooMany(call[t])
    BY DEF FilesMatch
  <2>14. Cardinality(InstructionsOf(written'[t].dyn)) = n
    BY <2>9
  <2> HIDE DEF h, n, k
  <2>15. k - n \in HeadersTooMany(call'[t])
    <3>1. CASE call[t][1] = "idle" /\ rest = RoutinesOf(b) \ {"mem"}
      <4>1. rest = {"block"}
        <5>1. RoutinesOf(b) = {"block", "mem"}
          BY <2>2 DEF RoutinesOf
        <5> QED BY <3>1, <5>1
      <4>2. rest # {} /\ rest # {"mem"}
        BY <4>1
      <4>3. call'[t] = <<"rest", b, rest>>
        BY <1>1, <2>1, <4>2 DEF LeaveRoutine, Enter
      <4>4. call'[t][1] = "rest" /\ call'[t][3] = rest
        BY <4>3
      <4>5. HeadersTooMany(call'[t]) = {1}
        BY <4>2, <4>4, TooManyOfCall
      <4>6. HeadersTooMany(call[t]) = {0}
        BY <3>1, TooManyOfCall
      <4>7. k - n = 1
        BY <2>11, <2>12, <2>13, <4>6
      <4> QED BY <4>5, <4>7
    <3>2. CASE call[t][1] = "rest" /\ call[t][3] = {"mem"} /\ rest = {}
      <4>1. call'[t] = Idle
        BY <1>1, <2>1, <3>2 DEF LeaveRoutine, Continue
      <4>2. call'[t][1] = "idle"
        BY <4>1 DEF Idle
      <4>3. HeadersTooMany(call'[t]) = {0}
        BY <4>2, TooManyOfCall
      <4>4. HeadersTooMany(call[t]) = {-1}
        BY <3>2, TooManyOfCall
      <4>5. k - n = 0
        BY <2>11, <2>12, <2>13, <4>4
      <4> QED BY <4>3, <4>5
    <3> QED BY <2>2, <3>1, <3>2
  <2>16. FilesMatch(t)'
    BY <2>14, <2>15 DEF FilesMatch, k
  <2>17. \A v \in Thread \ {t} : call'[v] = call[v]
    BY <1>1, <2>1 DEF LeaveRoutine, Enter, Continue
  <2>18. \A v \in Thread \ {t} : FilesMatch(v)'
    BY <2>9, <2>17 DEF FilesMatch
  <2> QED BY <2>16, <2>18
<1>13. CASE ReachesEvent(t)
  <2>1. PICK p \in DOMAIN EventAt :
          call[t] = Idle /\ (Enter(t, <<"event", p>>) \/ Continue(t))
    BY <1>13 DEF ReachesEvent, IsAt
  <2>2. <<"event", p>>[1] = "event" /\ call[t][1] = "idle"
    BY <2>1 DEF Idle
  <2>3. written' = written
    BY <1>13 DEF ReachesEvent
  <2>4. HeadersTooMany(call[t]) = {0} /\ HeadersTooMany(<<"event", p>>) = {0}
    BY <2>2, TooManyOfCall
  <2> QED BY <1>3, <1>4, <1>5, <2>1, <2>3, <2>4
<1>14. CASE AddsOwnEvent(t)
  <2> DEFINE e == EventAt[call[t][2]]
             c == <<"all", e, 1>>
  <2>1. /\ call[t][1] = "event"
        /\ AddDynamicRecord(ThreadDataOf(t), <<"event", e>>, 0)
        /\ Enter(t, c) \/ Continue(t)
    BY <1>14 DEF AddsOwnEvent
  <2>2. call[t][2] \in DOMAIN EventAt
    BY <1>1, <2>1, CallShapes
  <2>3. e \in Events
    BY <2>2, EventsAt DEF Events
  <2>4. pos[t] > 0
    BY <1>0, <2>1, StartedThread
  <2>5. ThreadDataOf(t) = t
    BY <1>0, <2>4, OwnWriters
  <2>6. c[1] = "all"
    OBVIOUS
  <2> HIDE DEF c, e
  <2>7. HeadersTooMany(call[t]) = {0} /\ {0} \subseteq HeadersTooMany(c)
    BY <2>1, <2>6, TooManyOfCall
  <2>8. Same
    BY <1>4, <1>5, <2>1, <2>7
  <2>9. AddDynamicRecord(t, <<"event", e>>, 0)
    BY <2>1, <2>5
  <2> QED BY <1>6, <2>3, <2>8, <2>9
<1>15. CASE AddsEventToNext(t)
  <2> DEFINE e == call[t][2]
             c == <<"all", e, call[t][3] + 1>>
             u == ThreadDataOf(call[t][3])
  <2>1. /\ call[t][1] = "all" /\ call[t][3] < Len(threadDataVec)
        /\ AddDynamicRecord(u, <<"event", e>>, 0) /\ Enter(t, c)
    BY <1>15 DEF AddsEventToNext, IsInVec
  <2>2. e \in Events /\ call[t][3] \in Nat
    BY <1>1, <2>1, CallShapes
  <2>3. u \in Thread
    BY <1>0, <2>1, <2>2, DataOfIndex
  <2>4. c[1] = "all" /\ c[2] = call[t][2]
    OBVIOUS
  <2> HIDE DEF c, e, u
  <2>5. HeadersTooMany(c) = HeadersTooMany(call[t])
    BY <2>1, <2>4, TooManyOfCall
  <2>6. Same
    BY <1>5, <2>1, <2>5
  <2> QED BY <1>6, <2>1, <2>2, <2>3, <2>6
<1>16. CASE EndsLoop(t)
  <2>1. /\ call[t][1] = "all" /\ written' = written
        /\ IF call[t][2] = "AbruptEnd" THEN Enter(t, <<"gone">>) ELSE Continue(t)
    BY <1>16 DEF EndsLoop
  <2>2. HeadersTooMany(call[t]) = IF call[t][2] = "AbruptEnd" THEN {0, 1} ELSE {0}
    BY <2>1, TooManyOfCall
  <2>3. HeadersTooMany(<<"gone">>) = {0, 1}
    <3>1. <<"gone">>[1] = "gone"
      OBVIOUS
    <3> QED BY <3>1, TooManyOfCall
  <2> QED BY <1>3, <1>4, <1>5, <2>1, <2>2, <2>3
<1>17. CASE Synchronises(t)
  <2>1. call[t] = Idle /\ Continue(t) /\ written' = written
    BY <1>17 DEF Synchronises, Meets, Acquires, Releases, IsAt
  <2>2. call[t][1] = "idle"
    BY <2>1 DEF Idle
  <2>3. HeadersTooMany(call[t]) = {0}
    BY <2>2, TooManyOfCall
  <2> QED BY <1>3, <1>4, <2>1, <2>3
<1>18. CASE OnThreadFini(t)
  <2>1. call' = call /\ written' = written
    BY <1>18 DEF OnThreadFini
  <2> QED BY <2>1 DEF FilesMatch
<1> QED BY <1>7, <1>8, <1>9, <1>10, <1>11, <1>12, <1>13, <1>14, <1>15, <1>16, <1>17, <1>18
        DEF Routine, OnThreadStart, AppendToDynamicTrace, OnThreadEvent

(***************************************************************************)
(* If the threads register in the order of their identifiers, the memory   *)
(* file of every thread has the headers that the trace reader asks for     *)
(* while it goes through the blocks of the dynamic file, in whatever order *)
(* the two routines of a block are called.  The block that is being        *)
(* executed may miss its header, or have it before its record.             *)
(***************************************************************************)
THEOREM TwoFilesMatch == Spec => []MemoryMatchesBlocks
<1> DEFINE Match == InOrder => \A t \in Thread : FilesMatch(t)
<1>1. Match => MemoryMatchesBlocks
  BY DEF MemoryMatchesBlocks, FilesMatch, InstructionsOf, HeadersOf
<1>2. Init => TracerInductive
  BY TracerStart
<1>3. Init => Match
  <2> SUFFICES ASSUME Init, NEW t \in Thread PROVE FilesMatch(t)
    OBVIOUS
  <2>1. written[t].dyn = <<>> /\ written[t].mem = <<>> /\ call[t] = Idle
    BY DEF Init
  <2>2. InstructionsOf(<<>>) = {} /\ HeadersOf(<<>>) = {}
    BY DEF InstructionsOf, HeadersOf
  <2>3. HeadersTooMany(call[t]) = {0}
    <3>1. call[t][1] = "idle"
      BY <2>1 DEF Idle
    <3> QED BY <3>1, TooManyOfCall
  <2>4. Cardinality(InstructionsOf(<<>>)) = 0 /\ Cardinality(HeadersOf(<<>>)) = 0
    BY <2>2, FS_EmptySet
  <2> QED BY <2>1, <2>3, <2>4 DEF FilesMatch
<1>4. TracerInductive /\ [Next]_tracerVars => TracerInductive'
  BY TracerStep
<1>5. TracerInductive /\ Match /\ [Next]_tracerVars => Match'
  <2> SUFFICES ASSUME TracerInductive, Match, [Next]_tracerVars, InOrder'
               PROVE  \A t \in Thread : FilesMatch(t)'
    OBVIOUS
  <2>1. threadDataVec \in Seq(Thread)
    BY DEF TracerInductive, ThreadsFit
  <2>2. CASE \E t \in Thread : Routine(t)
    <3>1. PICK t \in Thread : Routine(t)
      BY <2>2
    <3>2. threadDataVec' = threadDataVec \/ threadDataVec' = Append(threadDataVec, t)
      BY <3>1 DEF Routine, OnThreadStart, AppendToDynamicTrace, OnThreadEvent, StartsThread,
                  RegistersThread, ReachesBlock, AppendsBlock, ExceedsLimit, AppendToMemTrace,
                  ReachesEvent, AddsOwnEvent, AddsEventToNext, EndsLoop, Synchronises, OnThreadFini
    <3>3. InOrder
      BY <2>1, <3>2, OrderWasThere
    <3> QED BY <3>1, <3>3, RoutineMatches
  <2>3. CASE Exits \/ Stops \/ ReadsRecord \/ OpensNextFile \/ UNCHANGED tracerVars
    <3>1. UNCHANGED <<threadDataVec, written, call>>
      BY <2>3 DEF Exits, Stops, ReadsRecord, OpensNextFile, tracerVars
    <3>2. InOrder
      BY <2>1, <3>1, OrderWasThere
    <3> QED BY <3>1, <3>2 DEF FilesMatch
  <2> QED BY <2>2, <2>3 DEF Next
<1> HIDE DEF Match
<1> QED BY <1>1, <1>2, <1>3, <1>4, <1>5, PTL DEF Spec
-----------------------------------------------------------------------------
(***************************************************************************)
(* What is in a file and in the record array of its writer, together, is   *)
(* what was added to it.                                                   *)
(***************************************************************************)
LEMMA AppendBehind ==
  ASSUME NEW R, NEW a \in Seq(R), NEW b \in Seq(R), NEW e \in R
  PROVE  a \o Append(b, e) = Append(a \o b, e)
<1> DEFINE c == Append(b, e)
           d == a \o b
<1>1. /\ Len(a) \in Nat /\ Len(b) \in Nat
      /\ c \in Seq(R) /\ Len(c) = Len(b) + 1 /\ c[Len(b) + 1] = e
      /\ \A i \in 1 .. Len(b) : c[i] = b[i]
  BY AppendProperties, LenProperties
<1>2. /\ d \in Seq(R) /\ Len(d) = Len(a) + Len(b)
      /\ \A i \in 1 .. Len(a) + Len(b) : d[i] = IF i <= Len(a) THEN a[i] ELSE b[i - Len(a)]
  BY ConcatProperties
<1> HIDE DEF c, d
<1>3. /\ a \o c \in Seq(R) /\ Len(a \o c) = Len(a) + Len(c)
      /\ \A i \in 1 .. Len(a) + Len(c) : (a \o c)[i] = IF i <= Len(a) THEN a[i] ELSE c[i - Len(a)]
  BY <1>1, ConcatProperties
<1>4. /\ Append(d, e) \in Seq(R) /\ Len(Append(d, e)) = Len(d) + 1
      /\ \A i \in 1 .. Len(d) : Append(d, e)[i] = d[i]
      /\ Append(d, e)[Len(d) + 1] = e
  <2>1. d \in Seq(R)
    BY <1>2
  <2> QED BY <2>1, AppendProperties
<1>5. ASSUME NEW i \in 1 .. Len(a \o c) PROVE (a \o c)[i] = Append(d, e)[i]
  <2>1. i \in 1 .. Len(a) + Len(b) + 1
    BY <1>1, <1>3
  <2>2. CASE i <= Len(a)
    BY <1>1, <1>2, <1>3, <1>4, <2>1, <2>2
  <2>3. CASE i > Len(a) /\ i <= Len(a) + Len(b)
    <3>1. i - Len(a) \in 1 .. Len(b) /\ i \in 1 .. Len(d) /\ ~(i <= Len(a))
      BY <1>1, <1>2, <2>1, <2>3
    <3>2. (a \o c)[i] = b[i - Len(a)]
      BY <1>1, <1>3, <3>1
    <3>3. d[i] = b[i - Len(a)]
      BY <1>1, <1>2, <2>3, <3>1
    <3>4. Append(d, e)[i] = d[i]
      BY <1>4, <3>1
    <3> QED BY <3>2, <3>3, <3>4
  <2>4. CASE i = Len(a) + Len(b) + 1
    <3>1. i - Len(a) = Len(b) + 1 /\ ~(i <= Len(a)) /\ i = Len(d) + 1
      BY <1>1, <1>2, <2>4
    <3>2. (a \o c)[i] = c[Len(b) + 1]
      BY <1>3, <3>1
    <3> QED BY <1>1, <1>4, <3>1, <3>2
  <2>5. i <= Len(a) \/ (i > Len(a) /\ i <= Len(a) + Len(b)) \/ i = Len(a) + Len(b) + 1
    BY <1>1, <2>1
  <2> QED BY <2>2, <2>3, <2>4, <2>5
<1>6. Len(a \o c) = Len(Append(d, e))
  BY <1>1, <1>2, <1>3, <1>4
<1>7. a \o c = Append(d, e)
  BY <1>3, <1>4, <1>5, <1>6, SeqEqual
<1> QED BY <1>7 DEF c, d

LEMMA AddRecordContent ==
  ASSUME NEW R, NEW w \in Writer(R), NEW record \in R, ~w.closed
  PROVE  LET v == AddRecord(w, record)
         IN  /\ Content(v) = Append(Content(w), record)
             /\ ~v.closed /\ v.header = w.header /\ v.headerInFile = w.headerInFile
<1> DEFINE v == [w EXCEPT !.recordArray = Append(@, record)]
<1>1. w.recordArray \in Seq(R) /\ w.file \in Seq(R)
  BY DEF Writer
<1>2. Append(w.recordArray, record) \in Seq(R)
  BY <1>1, AppendProperties
<1>3. /\ v \in Writer(R) /\ v.file = w.file /\ v.recordArray = Append(w.recordArray, record)
      /\ ~v.closed /\ v.header = w.header /\ v.headerInFile = w.headerInFile
  BY <1>2 DEF Writer
<1>4. AddRecord(w, record) = CheckRecordArray(v)
  BY DEF AddRecord
<1> HIDE DEF v
<1>5. v.file \o v.recordArray = Append(w.file \o w.recordArray, record)
  <2> DEFINE a == w.file
             b == w.recordArray
  <2>1. a \in Seq(R) /\ b \in Seq(R)
    BY <1>1
  <2>2. v.file = a /\ v.recordArray = Append(b, record)
    BY <1>3
  <2> HIDE DEF a, b
  <2>3. a \o Append(b, record) = Append(a \o b, record)
    BY <2>1, AppendBehind
  <2> QED BY <2>2, <2>3 DEF a, b
<1>6. Content(w) = w.file \o w.recordArray
  BY DEF Content
<1>7. CASE IsRecordArrayFull(v)
  <2> DEFINE f == FlushRecordArray(v)
             u == ResetRecordArray(f)
  <2>1. v.file \o v.recordArray \in Seq(R)
    BY <1>3, ConcatProperties DEF Writer
  <2>2. /\ f \in Writer(R) /\ f.file = v.file \o v.recordArray
        /\ f.closed = v.closed /\ f.header = v.header /\ f.headerInFile = v.headerInFile
    BY <1>3, <2>1 DEF FlushRecordArray, Writer
  <2> HIDE DEF f
  <2>3. /\ u.file = f.file /\ u.recordArray = <<>>
        /\ u.closed = f.closed /\ u.header = f.header /\ u.headerInFile = f.headerInFile
    BY <2>2 DEF ResetRecordArray, Writer
  <2>4. AddRecord(w, record) = u
    BY <1>4, <1>7 DEF CheckRecordArray, f
  <2> HIDE DEF u
  <2>5. u.file \o u.recordArray = v.file \o v.recordArray
    BY <2>1, <2>2, <2>3, ConcatEmptySeq
  <2>6. Content(u) = u.file \o u.recordArray
    BY <1>3, <2>2, <2>3 DEF Content
  <2> QED BY <1>3, <1>5, <1>6, <2>2, <2>3, <2>4, <2>5, <2>6
<1>8. CASE ~IsRecordArrayFull(v)
  <2>1. AddRecord(w, record) = v
    BY <1>4, <1>8 DEF CheckRecordArray
  <2>2. Content(v) = v.file \o v.recordArray
    BY <1>3 DEF Content
  <2> QED BY <1>3, <1>5, <1>6, <2>1, <2>2
<1> QED BY <1>7, <1>8

LEMMA ContentIsASeq ==
  ASSUME NEW R, NEW w \in Writer(R)
  PROVE  Content(w) \in Seq(R)
BY ConcatProperties DEF Content, Writer

LEMMA AddRecordsContent ==
  ASSUME NEW R, NEW w \in Writer(R), NEW records \in Seq(R), HasSpaceIn(w), ~w.closed
  PROVE  LET v == AddRecords(w, records)
         IN  /\ Content(v) = Content(w) \o records
             /\ ~v.closed /\ v.header = w.header /\ v.headerInFile = w.headerInFile
<1>0. Len(records) \in Nat /\ \A n \in 1 .. Len(records) : records[n] \in R
  BY ElementOfSeq, LenProperties
<1> DEFINE upTo == CHOOSE f : f = [n \in 0 .. Len(records) |-> StepRecord(w, records, f, n)]
<1>1. upTo = [n \in 0 .. Len(records) |-> StepRecord(w, records, upTo, n)]
  BY <1>0, AddRecordsExist
<1>2. AddRecords(w, records) = upTo[Len(records)]
  BY DEF AddRecords, StepRecord
<1> HIDE DEF upTo
<1>3. \A n \in 0 .. Len(records) : upTo[n] = StepRecord(w, records, upTo, n)
  BY <1>1
<1> DEFINE L == Len(Content(w))
           OK(n) == /\ upTo[n] \in Writer(R) /\ HasSpaceIn(upTo[n])
                    /\ Len(Content(upTo[n])) = L + n
                    /\ \A i \in 1 .. L : Content(upTo[n])[i] = Content(w)[i]
                    /\ \A i \in 1 .. n : Content(upTo[n])[L + i] = records[i]
                    /\ ~upTo[n].closed
                    /\ upTo[n].header = w.header /\ upTo[n].headerInFile = w.headerInFile
           S == {n \in Nat : n <= Len(records) => OK(n)}
<1>4. Content(w) \in Seq(R) /\ L \in Nat
  BY ContentIsASeq, LenProperties
<1>5. 0 \in S
  <2>1. 0 \in 0 .. Len(records)
    BY <1>0
  <2>2. upTo[0] = w
    BY <1>3, <2>1 DEF StepRecord
  <2>3. OK(0)
    BY <1>4, <2>2
  <2> HIDE DEF OK
  <2> QED BY <2>3
<1>6. ASSUME NEW n \in S PROVE n + 1 \in S
  <2> SUFFICES ASSUME n + 1 <= Len(records) PROVE OK(n + 1)
    OBVIOUS
  <2> HIDE DEF OK
  <2>1. n \in Nat /\ OK(n)
    BY <1>0
  <2>2. n + 1 \in 1 .. Len(records) /\ n + 1 \in 0 .. Len(records)
    BY <1>0, <2>1
  <2>3. (n + 1) - 1 = n /\ n + 1 # 0
    BY <2>1
  <2>4. upTo[n + 1] = AddRecord(upTo[n], records[n + 1])
    BY <1>3, <2>2, <2>3 DEF StepRecord
  <2>5. records[n + 1] \in R
    BY <1>0, <2>2
  <2> DEFINE u == upTo[n]
             v == upTo[n + 1]
             r == records[n + 1]
  <2>6. /\ u \in Writer(R) /\ HasSpaceIn(u) /\ Len(Content(u)) = L + n /\ ~u.closed
        /\ \A i \in 1 .. L : Content(u)[i] = Content(w)[i]
        /\ \A i \in 1 .. n : Content(u)[L + i] = records[i]
        /\ u.header = w.header /\ u.headerInFile = w.headerInFile
    BY <2>1 DEF OK
  <2>7. v = AddRecord(u, r) /\ r \in R
    BY <2>4, <2>5
  <2> HIDE DEF u, v, r, L
  <2>8. v \in Writer(R) /\ HasSpaceIn(v)
    BY <2>6, <2>7, AddRecordFits
  <2>9. /\ Content(v) = Append(Content(u), r)
        /\ ~v.closed /\ v.header = u.header /\ v.headerInFile = u.headerInFile
    BY <2>6, <2>7, AddRecordContent
  <2>10. Content(u) \in Seq(R)
    BY <2>6, ContentIsASeq
  <2>11. /\ Len(Content(v)) = L + n + 1
         /\ \A i \in 1 .. L + n : Content(v)[i] = Content(u)[i]
         /\ Content(v)[L + n + 1] = r
    BY <2>6, <2>7, <2>9, <2>10, AppendProperties
  <2>12. Len(Content(v)) = L + (n + 1)
    BY <1>4, <2>1, <2>11
  <2>13. \A i \in 1 .. L : Content(v)[i] = Content(w)[i]
    BY <1>4, <2>1, <2>6, <2>11
  <2>14. \A i \in 1 .. n + 1 : Content(v)[L + i] = records[i]
    <3> TAKE i \in 1 .. n + 1
    <3>1. CASE i = n + 1
      <4>1. L + i = L + n + 1
        BY <1>4, <2>1, <3>1
      <4> QED BY <2>11, <3>1, <4>1 DEF r
    <3>2. CASE i # n + 1
      <4>1. i \in 1 .. n /\ L + i \in 1 .. L + n
        BY <1>4, <2>1, <3>2
      <4> QED BY <2>6, <2>11, <4>1
    <3> QED BY <3>1, <3>2
  <2> QED BY <2>6, <2>8, <2>9, <2>12, <2>13, <2>14 DEF OK, v
<1>7. S \in SUBSET Nat
  OBVIOUS
<1> HIDE DEF OK
<1>8. Len(records) \in S
  <2> HIDE DEF S
  <2> QED BY <1>0, <1>5, <1>6, <1>7, Induction
<1>9. OK(Len(records))
  BY <1>0, <1>8
<1> DEFINE v == AddRecords(w, records)
<1>10. /\ v \in Writer(R) /\ Len(Content(v)) = L + Len(records)
       /\ \A i \in 1 .. L : Content(v)[i] = Content(w)[i]
       /\ \A i \in 1 .. Len(records) : Content(v)[L + i] = records[i]
       /\ ~v.closed /\ v.header = w.header /\ v.headerInFile = w.headerInFile
  BY <1>2, <1>9 DEF OK
<1> HIDE DEF v
<1>11. Content(v) \in Seq(R)
  BY <1>10, ContentIsASeq
<1>12. /\ Content(w) \o records \in Seq(R)
       /\ Len(Content(w) \o records) = L + Len(records)
       /\ \A i \in 1 .. L + Len(records) :
            (Content(w) \o records)[i] = IF i <= L THEN Content(w)[i] ELSE records[i - L]
  BY <1>4, ConcatProperties
<1> HIDE DEF L
<1>13. \A i \in 1 .. L + Len(records) : Content(v)[i] = (Content(w) \o records)[i]
  <2> TAKE i \in 1 .. L + Len(records)
  <2>1. CASE i <= L
    BY <1>0, <1>4, <1>10, <1>12, <2>1
  <2>2. CASE ~(i <= L)
    <3>1. i - L \in 1 .. Len(records) /\ L + (i - L) = i
      BY <1>0, <1>4, <2>2
    <3> QED BY <1>10, <1>12, <2>2, <3>1
  <2> QED BY <2>1, <2>2
<1>14. Content(v) = Content(w) \o records
  BY <1>10, <1>11, <1>12, <1>13, SeqEqual
<1> QED BY <1>10, <1>14 DEF v
(***************************************************************************)
(* The number of instructions grows by those of a block that is added.     *)
(***************************************************************************)
CountStep(w, f, n) ==
  IF n = 0 THEN 0
  ELSE IF w[n][1] = "block" THEN f[n - 1] + BlockSize[w[n][2]]
  ELSE f[n - 1]

LEMMA CountExists ==
  ASSUME NEW w, Len(w) \in Nat
  PROVE  \E f : f = [n \in 0 .. Len(w) |-> CountStep(w, f, n)]
<1> DEFINE S == {k \in Nat : \E f : f = [n \in 0 .. k |-> CountStep(w, f, n)]}
<1>1. 0 \in S
  <2> DEFINE f == [n \in 0 .. 0 |-> 0]
  <2>1. f = [n \in 0 .. 0 |-> CountStep(w, f, n)]
    <3>1. \A n \in 0 .. 0 : n = 0
      OBVIOUS
    <3> QED BY <3>1 DEF CountStep
  <2> HIDE DEF f
  <2> QED BY <2>1
<1>2. ASSUME NEW k \in S PROVE k + 1 \in S
  <2>1. k \in Nat
    OBVIOUS
  <2>2. PICK f : f = [n \in 0 .. k |-> CountStep(w, f, n)]
    OBVIOUS
  <2> DEFINE g == [n \in 0 .. k + 1 |-> IF n = k + 1 THEN CountStep(w, f, n) ELSE f[n]]
  <2>3. \A n \in 0 .. k : f[n] = CountStep(w, f, n)
    BY <2>2
  <2>4. \A n \in 0 .. k : g[n] = f[n]
    BY <2>1
  <2>5. \A n \in 0 .. k + 1 : g[n] = CountStep(w, f, n)
    <3> TAKE n \in 0 .. k + 1
    <3>1. CASE n = k + 1
      BY <3>1
    <3>2. CASE n # k + 1
      <4>1. n \in 0 .. k
        BY <2>1, <3>2
      <4> QED BY <2>3, <2>4, <4>1
    <3> QED BY <3>1, <3>2
  <2>6. \A n \in 0 .. k + 1 : CountStep(w, g, n) = CountStep(w, f, n)
    <3> TAKE n \in 0 .. k + 1
    <3>1. CASE n = 0
      BY <3>1 DEF CountStep
    <3>2. CASE n # 0
      <4>1. n - 1 \in 0 .. k
        BY <2>1, <3>2
      <4>2. g[n - 1] = f[n - 1]
        BY <2>4, <4>1
      <4> HIDE DEF g
      <4> QED BY <4>2 DEF CountStep
    <3> QED BY <3>1, <3>2
  <2>7. g = [n \in 0 .. k + 1 |-> g[n]]
    OBVIOUS
  <2> HIDE DEF g
  <2>8. g = [n \in 0 .. k + 1 |-> CountStep(w, g, n)]
    BY <2>5, <2>6, <2>7
  <2>9. k + 1 \in Nat
    BY <2>1
  <2> QED BY <2>8, <2>9
<1>3. S \in SUBSET Nat
  OBVIOUS
<1> HIDE DEF S
<1>4. Len(w) \in S
  BY <1>1, <1>2, <1>3, Induction
<1> QED BY <1>4 DEF S

LEMMA InstructionsInAppend ==
  ASSUME NEW w \in Seq(DynamicRecord), NEW r \in DynamicRecord
  PROVE  InstructionsIn(Append(w, r)) =
           IF r[1] = "block" THEN InstructionsIn(w) + BlockSize[r[2]] ELSE InstructionsIn(w)
<1> DEFINE a == Append(w, r)
           L == Len(w)
<1>1. L \in Nat /\ Len(a) = L + 1 /\ a[L + 1] = r /\ \A i \in 1 .. L : a[i] = w[i]
  BY AppendProperties, LenProperties
<1> DEFINE f == CHOOSE f : f = [n \in 0 .. Len(w) |-> CountStep(w, f, n)]
<1>2. f = [n \in 0 .. Len(w) |-> CountStep(w, f, n)]
  BY <1>1, CountExists
<1>3. InstructionsIn(w) = f[Len(w)]
  BY DEF InstructionsIn, CountStep
<1> HIDE DEF f, a
<1> DEFINE g == CHOOSE g : g = [n \in 0 .. Len(a) |-> CountStep(a, g, n)]
<1>4. g = [n \in 0 .. Len(a) |-> CountStep(a, g, n)]
  BY <1>1, CountExists
<1>5. InstructionsIn(a) = g[Len(a)]
  BY DEF InstructionsIn, CountStep
<1> HIDE DEF g, L
<1>6. \A n \in 0 .. L : f[n] = CountStep(w, f, n)
  BY <1>2 DEF L
<1>7. \A n \in 0 .. L + 1 : g[n] = CountStep(a, g, n)
  BY <1>1, <1>4
<1> DEFINE S == {n \in Nat : n <= L => g[n] = f[n]}
<1>8. 0 \in S
  <2>1. 0 \in 0 .. L /\ 0 \in 0 .. L + 1
    BY <1>1
  <2>2. CountStep(w, f, 0) = 0 /\ CountStep(a, g, 0) = 0
    BY DEF CountStep
  <2> QED BY <1>6, <1>7, <2>1, <2>2
<1>9. ASSUME NEW n \in S PROVE n + 1 \in S
  <2> SUFFICES ASSUME n + 1 <= L PROVE g[n + 1] = f[n + 1]
    OBVIOUS
  <2>1. n \in Nat /\ g[n] = f[n]
    BY <1>1
  <2>2. n + 1 \in 1 .. L /\ n + 1 \in 0 .. L /\ n + 1 \in 0 .. L + 1 /\ n + 1 # 0 /\ (n + 1) - 1 = n
    BY <1>1, <2>1
  <2>3. a[n + 1] = w[n + 1]
    BY <1>1, <2>2
  <2>4. CountStep(a, g, n + 1) = CountStep(w, f, n + 1)
    BY <2>1, <2>2, <2>3 DEF CountStep
  <2> QED BY <1>6, <1>7, <2>2, <2>4
<1>10. S \in SUBSET Nat
  OBVIOUS
<1> HIDE DEF S
<1>11. L \in S
  BY <1>1, <1>8, <1>9, <1>10, Induction
<1>12. g[L] = f[L]
  BY <1>1, <1>11 DEF S
<1>13. L + 1 \in 0 .. L + 1 /\ L + 1 # 0 /\ (L + 1) - 1 = L
  BY <1>1
<1>14. g[L + 1] = IF r[1] = "block" THEN g[L] + BlockSize[r[2]] ELSE g[L]
  BY <1>1, <1>7, <1>13 DEF CountStep
<1> QED BY <1>1, <1>3, <1>5, <1>12, <1>14 DEF a, L

(***************************************************************************)
(* The records of one more instruction are announced by their header.      *)
(***************************************************************************)
LEMMA AnnouncesMore ==
  ASSUME NEW w \in Seq(MemoryRecord), NEW d, Announces(w, d),
         NEW records \in Seq(MemoryRecord),
         Len(records) \in Nat \ {0}, records[1][1] = "header",
         records[1][2] = Len(records) - 1,
         \A i \in 2 .. Len(records) : records[i][1] # "header"
  PROVE  \E e : Announces(w \o records, e)
<1> DEFINE new == w \o records
           L == Len(w)
           m == Len(records)
           e == [k \in 0 .. L + m |-> IF k <= L THEN d[k] ELSE L + m - k]
<1>1. /\ new \in Seq(MemoryRecord)
      /\ Len(new) = L + m
      /\ \A i \in 1 .. L + m : new[i] = IF i <= L THEN w[i] ELSE records[i - L]
  BY ConcatProperties
<1>2. L \in Nat /\ m \in Nat \ {0}
  BY LenProperties
<1> HIDE DEF new
<1>3. /\ d \in [0 .. L -> Nat] /\ d[0] = 0 /\ d[L] = 0
      /\ \A k \in 1 .. L :
           IF w[k][1] = "header" THEN d[k - 1] = 0 /\ d[k] = w[k][2]
                                 ELSE d[k - 1] # 0 /\ d[k] = d[k - 1] - 1
  BY DEF Announces
<1>4. records[1][1] = "header" /\ records[1][2] = m - 1 /\ \A i \in 2 .. m : records[i][1] # "header"
  OBVIOUS
<1> HIDE DEF L, m
<1>5. e \in [0 .. L + m -> Nat]
  <2>1. \A k \in 0 .. L + m : (IF k <= L THEN d[k] ELSE L + m - k) \in Nat
    BY <1>2, <1>3
  <2> QED BY <2>1
<1>6. \A k \in 0 .. L + m : e[k] = IF k <= L THEN d[k] ELSE L + m - k
  OBVIOUS
<1> HIDE DEF e
<1>7. e[0] = 0 /\ e[L + m] = 0
  BY <1>2, <1>3, <1>6
<1>8. ASSUME NEW k \in 1 .. L + m
      PROVE  IF new[k][1] = "header" THEN e[k - 1] = 0 /\ e[k] = new[k][2]
                                     ELSE e[k - 1] # 0 /\ e[k] = e[k - 1] - 1
  <2>1. CASE k <= L
    <3>1. new[k] = w[k] /\ k \in 1 .. L /\ e[k] = d[k] /\ e[k - 1] = d[k - 1]
      <4>1. k \in 1 .. L /\ k \in 0 .. L + m /\ k - 1 \in 0 .. L + m /\ k - 1 <= L
        BY <1>2, <2>1
      <4> QED BY <1>1, <1>6, <2>1, <4>1
    <3> QED BY <1>3, <3>1
  <2>2. CASE k = L + 1
    <3>1. k - L = 1 /\ ~(k <= L) /\ k - 1 = L
      BY <1>2, <2>2
    <3>2. new[k] = records[1]
      BY <1>1, <3>1
    <3>3. e[k - 1] = 0
      BY <1>2, <1>3, <1>6, <2>2
    <3>4. e[k] = m - 1
      BY <1>2, <1>6, <2>2
    <3> QED BY <1>4, <3>2, <3>3, <3>4
  <2>3. CASE k > L + 1
    <3>1. k - L \in 2 .. m /\ ~(k <= L)
      BY <1>2, <2>3
    <3>2. new[k] = records[k - L]
      BY <1>1, <3>1
    <3>3. new[k][1] # "header"
      BY <1>4, <3>1, <3>2
    <3>4. e[k] = L + m - k /\ e[k - 1] = L + m - (k - 1)
      BY <1>2, <1>6, <2>3
    <3>5. e[k - 1] # 0 /\ e[k] = e[k - 1] - 1
      <4>1. L + m - (k - 1) # 0 /\ L + m - k = (L + m - (k - 1)) - 1
        BY <1>2, <2>3
      <4> QED BY <3>4, <4>1
    <3> QED BY <3>3, <3>5
  <2> QED BY <1>2, <2>1, <2>2, <2>3
<1>9. Announces(new, e)
  BY <1>1, <1>5, <1>7, <1>8 DEF Announces
<1> QED BY <1>9 DEF new
-----------------------------------------------------------------------------
(***************************************************************************)
(* The readers hand out a file record by record.                           *)
(***************************************************************************)
Record == DynamicRecord \cup MemoryRecord

LEMMA LoadFits ==
  ASSUME NEW r \in ReaderState, NEW file \in Seq(Record), r.offset <= Len(file)
  PROVE  LET s == LoadRecordArray(r, file)
             n == RecordsLeft(r, file)
         IN  /\ n \in Nat /\ (n = 0 <=> r.offset = Len(file))
             /\ s \in ReaderState
             /\ s.offset = r.offset + n /\ s.offset <= Len(file)
             /\ s.numberOfRecordsRead = n /\ s.recordArrayIndex = 0
             /\ s.left = r.left /\ s.got = r.got /\ s.failed = r.failed
             /\ s.reachedEnd <=> n = 0
<1> DEFINE n == RecordsLeft(r, file)
<1>1. Len(file) \in Nat /\ RECORD_ARRAY_SIZE \in Nat \ {0} /\ r.offset \in Nat
  BY LenProperties, TraceFileAssumption DEF ReaderState
<1>2. n \in Nat /\ (n = 0 <=> r.offset = Len(file)) /\ r.offset + n <= Len(file)
  <2>1. CASE Len(file) - r.offset < RECORD_ARRAY_SIZE
    <3>1. n = Len(file) - r.offset
      BY <2>1 DEF RecordsLeft
    <3> HIDE DEF n
    <3> QED BY <1>1, <3>1
  <2>2. CASE ~(Len(file) - r.offset < RECORD_ARRAY_SIZE)
    <3>1. n = RECORD_ARRAY_SIZE
      BY <2>2 DEF RecordsLeft
    <3> HIDE DEF n
    <3> QED BY <1>1, <2>2, <3>1
  <2> QED BY <2>1, <2>2
<1> DEFINE end == (n = 0)
           off == r.offset + n
<1>3. LoadRecordArray(r, file) =
        [r EXCEPT !.offset = off, !.numberOfRecordsRead = n,
                  !.recordArrayIndex = 0, !.reachedEnd = end]
  BY DEF LoadRecordArray
<1> HIDE DEF n
<1>4. off \in Nat /\ end \in BOOLEAN
  BY <1>1, <1>2
<1> DEFINE s == LoadRecordArray(r, file)
<1> HIDE DEF end, off
<1>5. s \in ReaderState
  <2>1. n \in Nat
    BY <1>2
  <2> DEFINE a == [r EXCEPT !.offset = off]
             b == [a EXCEPT !.numberOfRecordsRead = n]
             c == [b EXCEPT !.recordArrayIndex = 0]
             d == [c EXCEPT !.reachedEnd = end]
  <2>2. s = d
    BY <1>3
  <2>3. a \in ReaderState
    BY <1>4 DEF ReaderState
  <2> HIDE DEF a
  <2>4. b \in ReaderState
    BY <2>1, <2>3 DEF ReaderState
  <2> HIDE DEF b
  <2>5. c \in ReaderState
    BY <2>4 DEF ReaderState
  <2> HIDE DEF c
  <2>6. d \in ReaderState
    BY <1>4, <2>5 DEF ReaderState
  <2> QED BY <2>2, <2>6
<1>6. /\ s.offset = off /\ s.numberOfRecordsRead = n /\ s.recordArrayIndex = 0
      /\ s.left = r.left /\ s.got = r.got /\ s.failed = r.failed
      /\ s.reachedEnd = end
  BY <1>3 DEF ReaderState
<1>7. s.reachedEnd <=> n = 0
  BY <1>6 DEF end
<1>8. s.offset = r.offset + n /\ s.offset <= Len(file)
  BY <1>2, <1>6 DEF off
<1> QED BY <1>2, <1>5, <1>6, <1>7, <1>8 DEF n

LEMMA GetNext ==
  ASSUME NEW w \in Seq(Record), NEW k \in Nat, k < Len(w),
         NEW r \in ReaderState, HasRead(r, w, k),
         NEW s, s.got = Append(r.got, w[k + 1])
  PROVE  HasRead(s, w, k + 1) /\ Append(r.got, w[k + 1]) \in Seq(Record) /\ w[k + 1] \in Record
<1>1. Len(w) \in Nat /\ r.got \in Seq(Record)
  BY LenProperties DEF ReaderState, Record
<1>2. k + 1 \in 1 .. Len(w)
  BY <1>1
<1>3. w[k + 1] \in Record
  BY <1>2, ElementOfSeq
<1>4. Len(r.got) = k /\ \A i \in 1 .. k : r.got[i] = w[i]
  BY DEF HasRead
<1>5. /\ Append(r.got, w[k + 1]) \in Seq(Record)
      /\ Len(s.got) = k + 1
      /\ \A i \in 1 .. k : s.got[i] = r.got[i]
      /\ s.got[k + 1] = w[k + 1]
  BY <1>1, <1>3, <1>4, AppendProperties
<1>6. \A i \in 1 .. k + 1 : s.got[i] = w[i]
  <2> TAKE i \in 1 .. k + 1
  <2>1. i \in 1 .. k \/ i = k + 1
    OBVIOUS
  <2> QED BY <1>4, <1>5, <2>1
<1>7. k + 1 \in 0 .. Len(w)
  BY <1>2
<1> QED BY <1>3, <1>5, <1>6, <1>7 DEF HasRead

LEMMA DynamicRead ==
  ASSUME NEW w \in Seq(Record), NEW r \in ReaderState, ~r.reachedEnd, ~r.failed,
         DynamicReaderFits(r, w)
  PROVE  LET s == ReadDynamicRecord(r, w)
         IN  s \in ReaderState /\ ~s.failed /\ DynamicReaderFits(s, w)
<1> DEFINE n == r.numberOfRecordsRead
           i == NextIndex(r)
           result == ReadDynamicRecord(r, w)
<1>1. /\ Len(w) \in Nat /\ r.offset \in Nat /\ n \in Nat /\ r.recordArrayIndex \in Nat
      /\ r.offset <= Len(w) /\ n <= r.offset
  BY LenProperties DEF ReaderState, DynamicReaderFits
<1>2. CASE i = n
  <2> DEFINE s == LoadRecordArray(r, w)
             m == RecordsLeft(r, w)
  <2>1. HasRead(r, w, r.offset)
    <3>1. CASE n = 0
      BY <3>1 DEF DynamicReaderFits
    <3>2. CASE n # 0
      <4>1. HasRead(r, w, r.offset - n + r.recordArrayIndex + 1) /\ r.recordArrayIndex + 1 = n
        BY <1>2, <3>2 DEF DynamicReaderFits, NextIndex
      <4>2. r.offset - n + r.recordArrayIndex + 1 = r.offset
        BY <1>1, <4>1
      <4> QED BY <4>1, <4>2
    <3> QED BY <3>1, <3>2
  <2>2. /\ m \in Nat /\ (m = 0 <=> r.offset = Len(w))
        /\ s \in ReaderState
        /\ s.offset = r.offset + m /\ s.offset <= Len(w)
        /\ s.numberOfRecordsRead = m /\ s.recordArrayIndex = 0
        /\ s.got = r.got /\ s.failed = r.failed
        /\ s.reachedEnd <=> m = 0
    BY <1>1, LoadFits
  <2>3. result = IF s.reachedEnd THEN s ELSE [s EXCEPT !.got = Append(@, RecordAt(s, w))]
    BY <1>2 DEF ReadDynamicRecord
  <2> HIDE DEF s, m, result
  <2>4. CASE s.reachedEnd
    <3>1. result = s /\ m = 0 /\ s.offset = r.offset /\ r.offset = Len(w)
      BY <1>1, <2>2, <2>3, <2>4
    <3>2. HasRead(s, w, s.offset)
      BY <2>1, <2>2, <3>1 DEF HasRead
    <3>3. DynamicReaderFits(s, w)
      BY <1>1, <2>2, <2>4, <3>1, <3>2 DEF DynamicReaderFits
    <3> QED BY <2>2, <3>1, <3>3 DEF result
  <2>5. CASE ~s.reachedEnd
    <3>1. m # 0 /\ r.offset < Len(w)
      BY <1>1, <2>2, <2>5
    <3>2. RecordAt(s, w) = w[r.offset + 1]
      <4>1. s.offset - s.numberOfRecordsRead + s.recordArrayIndex + 1 = r.offset + 1
        BY <1>1, <2>2
      <4> QED BY <4>1 DEF RecordAt
    <3>3. result = [s EXCEPT !.got = Append(s.got, w[r.offset + 1])]
      BY <2>3, <2>5, <3>2
    <3>4. result.got = Append(r.got, w[r.offset + 1])
      BY <2>2, <3>3 DEF ReaderState
    <3>5. HasRead(result, w, r.offset + 1) /\ Append(r.got, w[r.offset + 1]) \in Seq(Record)
      BY <1>1, <2>1, <3>1, <3>4, GetNext
    <3>6. result \in ReaderState
      BY <2>2, <3>3, <3>5 DEF ReaderState, Record
    <3>7. /\ result.offset = s.offset /\ result.numberOfRecordsRead = m
          /\ result.recordArrayIndex = 0 /\ ~result.reachedEnd /\ ~result.failed
      BY <2>2, <2>5, <3>3 DEF ReaderState
    <3>8. result.offset - m + 0 + 1 = r.offset + 1
      BY <1>1, <2>2, <3>7
    <3>9. m <= result.offset /\ 0 < m /\ result.offset <= Len(w)
      BY <1>1, <2>2, <3>1, <3>7
    <3>10. DynamicReaderFits(result, w)
      BY <3>1, <3>5, <3>7, <3>8, <3>9 DEF DynamicReaderFits
    <3> QED BY <3>6, <3>7, <3>10 DEF result
  <2> QED BY <2>4, <2>5
<1>3. CASE i # n
  <2> DEFINE s == [r EXCEPT !.recordArrayIndex = i]
             k == r.offset - n + r.recordArrayIndex + 1
  <2>1. n # 0 /\ i = r.recordArrayIndex + 1
    BY <1>3 DEF NextIndex
  <2>2. HasRead(r, w, k) /\ r.recordArrayIndex < n
    BY <2>1 DEF DynamicReaderFits
  <2>3. /\ s \in ReaderState /\ s.recordArrayIndex = i /\ s.offset = r.offset
        /\ s.numberOfRecordsRead = n /\ s.got = r.got /\ ~s.reachedEnd /\ ~s.failed
    BY <1>1, <2>1 DEF ReaderState
  <2>4. result = IF s.reachedEnd THEN s ELSE [s EXCEPT !.got = Append(@, RecordAt(s, w))]
    BY <1>3 DEF ReadDynamicRecord
  <2> HIDE DEF s, result
  <2>5. k \in Nat /\ k < Len(w)
    BY <1>1, <1>3, <2>1, <2>2
  <2>6. RecordAt(s, w) = w[k + 1]
    <3>1. s.offset - s.numberOfRecordsRead + s.recordArrayIndex + 1 = k + 1
      <4>1. r.offset - n + (r.recordArrayIndex + 1) + 1 = k + 1
        BY <1>1
      <4> QED BY <2>1, <2>3, <4>1
    <3> QED BY <3>1 DEF RecordAt
  <2> HIDE DEF k
  <2>7. result = [s EXCEPT !.got = Append(s.got, w[k + 1])]
    BY <2>3, <2>4, <2>6
  <2>8. result.got = Append(r.got, w[k + 1])
    BY <2>3, <2>7 DEF ReaderState
  <2>9. HasRead(result, w, k + 1) /\ Append(r.got, w[k + 1]) \in Seq(Record)
    BY <2>2, <2>5, <2>8, GetNext
  <2>10. result \in ReaderState
    BY <2>3, <2>7, <2>9 DEF ReaderState, Record
  <2>11. /\ result.offset = r.offset /\ result.numberOfRecordsRead = n
         /\ result.recordArrayIndex = i /\ ~result.reachedEnd /\ ~result.failed
    BY <2>3, <2>7 DEF ReaderState
  <2>12. result.offset - n + i + 1 = k + 1
    BY <1>1, <2>1, <2>11 DEF k
  <2>13. i < n
    BY <1>1, <1>3, <2>1, <2>2
  <2>14. DynamicReaderFits(result, w)
    BY <1>1, <2>1, <2>9, <2>11, <2>12, <2>13 DEF DynamicReaderFits
  <2> QED BY <2>10, <2>11, <2>14 DEF result
<1> QED BY <1>2, <1>3
(***************************************************************************)
(* The memory reader finds a header exactly where one is due.              *)
(***************************************************************************)
LEMMA MemoryRead ==
  ASSUME NEW w \in Seq(MemoryRecord), NEW d, Announces(w, d),
         NEW r \in ReaderState, ~r.reachedEnd, ~r.failed, MemoryReaderFits(r, w, d)
  PROVE  LET s == ReadMemoryRecord(r, w)
         IN  s \in ReaderState /\ ~s.failed /\ MemoryReaderFits(s, w, d)
<1> DEFINE k == r.offset - r.numberOfRecordsRead + r.recordArrayIndex
           s == IF r.recordArrayIndex = r.numberOfRecordsRead THEN LoadRecordArray(r, w) ELSE r
           result == ReadMemoryRecord(r, w)
<1>1. w \in Seq(Record)
  BY DEF Record
<1>2. /\ Len(w) \in Nat /\ r.offset \in Nat /\ r.numberOfRecordsRead \in Nat
      /\ r.recordArrayIndex \in Nat
      /\ r.offset <= Len(w) /\ r.numberOfRecordsRead <= r.offset
      /\ r.recordArrayIndex <= r.numberOfRecordsRead
      /\ HasRead(r, w, k) /\ r.left = d[k]
  BY LenProperties DEF ReaderState, MemoryReaderFits
<1>3. k \in Nat /\ k <= Len(w)
  BY <1>2
<1>4. /\ s \in ReaderState /\ ~s.failed
      /\ s.offset <= Len(w) /\ s.numberOfRecordsRead <= s.offset
      /\ s.recordArrayIndex <= s.numberOfRecordsRead
      /\ s.offset - s.numberOfRecordsRead + s.recordArrayIndex = k
      /\ s.got = r.got /\ s.left = r.left
      /\ s.reachedEnd => k = Len(w)
      /\ ~s.reachedEnd => s.recordArrayIndex < s.numberOfRecordsRead
  <2>1. CASE r.recordArrayIndex = r.numberOfRecordsRead
    <3> DEFINE l == LoadRecordArray(r, w)
               m == RecordsLeft(r, w)
    <3>1. /\ m \in Nat /\ (m = 0 <=> r.offset = Len(w))
          /\ l \in ReaderState
          /\ l.offset = r.offset + m /\ l.offset <= Len(w)
          /\ l.numberOfRecordsRead = m /\ l.recordArrayIndex = 0
          /\ l.left = r.left /\ l.got = r.got /\ l.failed = r.failed
          /\ l.reachedEnd <=> m = 0
      BY <1>1, <1>2, LoadFits
    <3>2. s = l
      BY <2>1
    <3> HIDE DEF s, l, m
    <3>3. k = r.offset
      BY <1>2, <2>1
    <3>4. l.offset - l.numberOfRecordsRead + l.recordArrayIndex = k
      BY <1>2, <3>1, <3>3
    <3>5. l.numberOfRecordsRead <= l.offset /\ l.recordArrayIndex <= l.numberOfRecordsRead
      BY <1>2, <3>1
    <3>6. ~l.reachedEnd => l.recordArrayIndex < l.numberOfRecordsRead
      BY <3>1
    <3> QED BY <3>1, <3>2, <3>3, <3>4, <3>5, <3>6
  <2>2. CASE r.recordArrayIndex # r.numberOfRecordsRead
    <3>1. s = r
      BY <2>2
    <3> HIDE DEF s
    <3>2. r.recordArrayIndex < r.numberOfRecordsRead
      BY <1>2, <2>2
    <3> QED BY <1>2, <3>1, <3>2
  <2> QED BY <2>1, <2>2
<1> DEFINE record == RecordAt(s, w)
           isHeader == record[1] = "header"
           late == r.left > 0
           more == s.recordArrayIndex + 1
           due == IF isHeader THEN record[2] ELSE s.left - 1
<1>5. result = IF s.reachedEnd THEN [s EXCEPT !.failed = late]
               ELSE IF isHeader # (s.left = 0) THEN [s EXCEPT !.failed = TRUE]
               ELSE [s EXCEPT !.recordArrayIndex = more, !.left = due, !.got = Append(s.got, record)]
  BY DEF ReadMemoryRecord
<1>6. /\ d \in [0 .. Len(w) -> Nat] /\ d[Len(w)] = 0
      /\ \A i \in 1 .. Len(w) :
           IF w[i][1] = "header" THEN d[i - 1] = 0 /\ d[i] = w[i][2]
                                 ELSE d[i - 1] # 0 /\ d[i] = d[i - 1] - 1
  BY DEF Announces
<1> HIDE DEF result, s, k
<1>7. CASE s.reachedEnd
  <2>1. k = Len(w) /\ r.left = 0
    BY <1>2, <1>4, <1>6, <1>7
  <2>2. late = FALSE
    BY <2>1
  <2>3. result = [s EXCEPT !.failed = FALSE]
    BY <1>5, <1>7, <2>2
  <2>4. /\ result \in ReaderState /\ ~result.failed
        /\ result.offset = s.offset /\ result.numberOfRecordsRead = s.numberOfRecordsRead
        /\ result.recordArrayIndex = s.recordArrayIndex /\ result.got = s.got
        /\ result.left = s.left
    BY <1>4, <2>3 DEF ReaderState
  <2>5. HasRead(result, w, k)
    BY <1>2, <1>4, <2>4 DEF HasRead
  <2>6. MemoryReaderFits(result, w, d)
    BY <1>2, <1>4, <2>1, <2>4, <2>5 DEF MemoryReaderFits
  <2> QED BY <2>4, <2>6 DEF result
<1>8. CASE ~s.reachedEnd
  <2>1. k < Len(w) /\ k + 1 \in 1 .. Len(w) /\ (k + 1) - 1 = k
    <3>1. s.offset \in Nat /\ s.numberOfRecordsRead \in Nat /\ s.recordArrayIndex \in Nat
      BY <1>4 DEF ReaderState
    <3>2. k < s.offset
      BY <1>4, <1>8, <3>1
    <3> QED BY <1>2, <1>3, <1>4, <3>1, <3>2
  <2>2. record = w[k + 1]
    BY <1>4 DEF RecordAt
  <2>3. d[k] \in Nat /\ d[k + 1] \in Nat
    <3>1. k \in Nat
      BY <1>3
    <3>2. Len(w) \in Nat
      BY <1>2
    <3>3. k \in 0 .. Len(w) /\ k + 1 \in 0 .. Len(w)
      BY <2>1, <3>1, <3>2
    <3>4. d \in [0 .. Len(w) -> Nat]
      BY <1>6
    <3> QED BY <3>3, <3>4
  <2>4. IF isHeader THEN d[k] = 0 /\ d[k + 1] = record[2]
                    ELSE d[k] # 0 /\ d[k + 1] = d[k] - 1
    <3>1. IF w[k + 1][1] = "header" THEN d[(k + 1) - 1] = 0 /\ d[k + 1] = w[k + 1][2]
          ELSE d[(k + 1) - 1] # 0 /\ d[k + 1] = d[(k + 1) - 1] - 1
      BY <1>6, <2>1
    <3> QED BY <2>1, <2>2, <3>1
  <2>5. s.left = d[k]
    BY <1>2, <1>4
  <2>6. due = d[k + 1]
    BY <2>4, <2>5
  <2>7. isHeader <=> s.left = 0
    BY <2>4, <2>5
  <2>8. result = [s EXCEPT !.recordArrayIndex = more, !.left = due, !.got = Append(s.got, record)]
    BY <1>5, <1>8, <2>7
  <2> DEFINE g == Append(r.got, w[k + 1])
  <2>9. g \in Seq(Record)
    <3> DEFINE x == [got |-> g]
    <3>1. x.got = Append(r.got, w[k + 1])
      OBVIOUS
    <3> HIDE DEF x
    <3> QED BY <1>1, <1>2, <1>3, <2>1, <3>1, GetNext
  <2>10. result = [s EXCEPT !.recordArrayIndex = more, !.left = due, !.got = g]
    BY <1>4, <2>2, <2>8
  <2>11. more \in Nat /\ due \in Nat
    <3>1. s.recordArrayIndex \in Nat
      BY <1>4 DEF ReaderState
    <3>2. more \in Nat
      BY <3>1
    <3>3. due \in Nat
      BY <2>3, <2>6
    <3> QED BY <3>2, <3>3
  <2> HIDE DEF more, due, g
  <2>12. result \in ReaderState
    <3> DEFINE x == [s EXCEPT !.recordArrayIndex = more]
               y == [x EXCEPT !.left = due]
               z == [y EXCEPT !.got = g]
    <3>1. x \in ReaderState
      BY <1>4, <2>11 DEF ReaderState
    <3> HIDE DEF x
    <3>2. y \in ReaderState
      BY <2>11, <3>1 DEF ReaderState
    <3> HIDE DEF y
    <3>3. z \in ReaderState
      BY <2>9, <3>2 DEF ReaderState, Record
    <3> QED BY <2>10, <3>3 DEF x, y
  <2>13. /\ result.offset = s.offset /\ result.numberOfRecordsRead = s.numberOfRecordsRead
         /\ result.recordArrayIndex = more /\ result.got = g /\ result.left = due
         /\ result.failed = s.failed /\ result.reachedEnd = s.reachedEnd
    BY <1>4, <2>10 DEF ReaderState
  <2>14. HasRead(result, w, k + 1)
    BY <1>1, <1>2, <1>3, <2>1, <2>13, GetNext DEF g
  <2>15. result.offset - result.numberOfRecordsRead + result.recordArrayIndex = k + 1
    BY <1>4, <2>13 DEF more, ReaderState
  <2>16. result.recordArrayIndex <= result.numberOfRecordsRead
    BY <1>4, <1>8, <2>13 DEF more, ReaderState
  <2>17. result.left = d[k + 1]
    BY <2>6, <2>13
  <2>18. MemoryReaderFits(result, w, d)
    BY <1>4, <1>8, <2>13, <2>14, <2>15, <2>16, <2>17 DEF MemoryReaderFits
  <2> QED BY <1>4, <2>12, <2>13, <2>18 DEF result
<1> QED BY <1>7, <1>8
LEMMA NewReaderFits ==
  ASSUME NEW w \in Seq(Record)
  PROVE  /\ NewReader \in ReaderState /\ ~NewReader.failed /\ ~NewReader.reachedEnd
         /\ DynamicReaderFits(NewReader, w)
         /\ \A d : Announces(w, d) => MemoryReaderFits(NewReader, w, d)
<1>1. /\ NewReader.offset = 0 /\ NewReader.numberOfRecordsRead = 0
      /\ NewReader.recordArrayIndex = 0 /\ NewReader.left = 0 /\ NewReader.got = <<>>
      /\ ~NewReader.reachedEnd /\ ~NewReader.failed
  BY DEF NewReader
<1>2. NewReader \in ReaderState
  <2>1. <<>> \in Seq(DynamicRecord \cup MemoryRecord)
    OBVIOUS
  <2> QED BY <2>1 DEF NewReader, ReaderState
<1>3. Len(w) \in Nat /\ Len(NewReader.got) = 0
  BY <1>1, LenProperties
<1>4. HasRead(NewReader, w, 0)
  BY <1>3 DEF HasRead
<1> HIDE DEF NewReader
<1>5. DynamicReaderFits(NewReader, w)
  BY <1>1, <1>3, <1>4 DEF DynamicReaderFits
<1>6. ASSUME NEW d, Announces(w, d) PROVE MemoryReaderFits(NewReader, w, d)
  <2>1. d[0] = 0
    BY <1>6 DEF Announces
  <2>2. NewReader.offset - NewReader.numberOfRecordsRead + NewReader.recordArrayIndex = 0
    BY <1>1
  <2> QED BY <1>1, <1>3, <1>4, <2>1, <2>2 DEF MemoryReaderFits
<1> QED BY <1>1, <1>2, <1>5, <1>6

(***************************************************************************)
(* Of the routines, only OnThreadFini runs once the program has stopped.   *)
(***************************************************************************)
LEMMA StoppedRoutine ==
  ASSUME stopped, StopFits, NEW t \in Thread, Routine(t)
  PROVE  OnThreadFini(t)
<1>1. call[t][1] \in {"idle", "rest", "gone"}
  BY DEF StopFits
<1>2. ~StartsThread(t) /\ ~ReachesBlock(t) /\ ~AppendToMemTrace(t)
  BY DEF StartsThread, ReachesBlock, AppendToMemTrace, ToCall, IsAt
<1>3. ~ReachesEvent(t)
  BY DEF ReachesEvent, IsAt
<1>4. ~Synchronises(t)
  BY DEF Synchronises, Meets, Acquires, Releases, IsAt
<1>5. ~RegistersThread(t)
  BY <1>1 DEF RegistersThread
<1>6. ~AppendsBlock(t) /\ ~ExceedsLimit(t) /\ ~AddsOwnEvent(t) /\ ~AddsEventToNext(t) /\ ~EndsLoop(t)
  BY <1>1 DEF AppendsBlock, ExceedsLimit, AddsOwnEvent, AddsEventToNext, EndsLoop
<1> QED BY <1>2, <1>3, <1>4, <1>5, <1>6
        DEF Routine, OnThreadStart, AppendToDynamicTrace, OnThreadEvent

(***************************************************************************)
(* The routines keep the files true to what was traced.                    *)
(***************************************************************************)
LEMMA AddDynamicContent ==
  ASSUME FilesFit, ~stopped, \A v \in Thread : ContentFits(v),
         NEW u \in Thread, NEW record \in DynamicRecord, NEW n \in Nat,
         n = IF record[1] = "block" THEN BlockSize[record[2]] ELSE 0,
         AddDynamicRecord(u, record, n), UNCHANGED <<memoryTrace, stopped>>,
         NEW v \in Thread
  PROVE  ContentFits(v)'
<1>1. /\ dynamicTrace \in [Thread -> Writer(DynamicRecord)]
      /\ written \in [Thread -> [dyn : Seq(DynamicRecord), mem : Seq(MemoryRecord)]]
  BY DEF FilesFit
<1> DEFINE old == dynamicTrace[u]
           inc == IncExecutedInstructions(old, n)
           new == AddRecord(inc, record)
           more == Append(written[u].dyn, record)
<1>2. dynamicTrace' = [dynamicTrace EXCEPT ![u] = new] /\ written' = [written EXCEPT ![u].dyn = more]
  BY DEF AddDynamicRecord
<1>3. CASE v # u
  <2>1. dynamicTrace'[v] = dynamicTrace[v] /\ written'[v] = written[v] /\ memoryTrace'[v] = memoryTrace[v]
    BY <1>1, <1>2, <1>3
  <2> QED BY <2>1 DEF ContentFits
<1>4. CASE v = u
  <2>1. old \in Writer(DynamicRecord) /\ ~old.closed /\ Content(old) = written[u].dyn
        /\ old.header = InstructionsIn(written[u].dyn) /\ old.header \in Nat
    BY <1>1 DEF ContentFits, Writer
  <2>2. /\ inc \in Writer(DynamicRecord) /\ ~inc.closed /\ inc.header = old.header + n
        /\ inc.file = old.file /\ inc.recordArray = old.recordArray
    BY <2>1 DEF IncExecutedInstructions, Writer
  <2>3. Content(inc) = Content(old)
    BY <2>1, <2>2 DEF Content
  <2> HIDE DEF old, inc
  <2>4. Content(new) = Append(Content(inc), record) /\ ~new.closed /\ new.header = inc.header
    BY <2>2, AddRecordContent
  <2>5. InstructionsIn(more) = old.header + n
    <3>1. written[u].dyn \in Seq(DynamicRecord)
      BY <1>1
    <3>2. InstructionsIn(more) = IF record[1] = "block" THEN InstructionsIn(written[u].dyn) + BlockSize[record[2]]
                                                        ELSE InstructionsIn(written[u].dyn)
      BY <3>1, InstructionsInAppend
    <3> HIDE DEF more
    <3> QED BY <2>1, <3>2
  <2> HIDE DEF new
  <2>6. /\ dynamicTrace'[v] = new /\ written'[v].dyn = more /\ written'[v].mem = written[v].mem
        /\ memoryTrace'[v] = memoryTrace[v]
    BY <1>1, <1>2, <1>4
  <2>7. Content(new) = more
    BY <2>1, <2>3, <2>4
  <2>8. /\ Content(memoryTrace[v]) = written[v].mem /\ memoryTrace[v].header = 0
        /\ ~memoryTrace[v].closed /\ \E d : Announces(written[v].mem, d)
    BY <1>4, <2>1 DEF ContentFits, old
  <2> HIDE DEF more
  <2> QED BY <2>2, <2>4, <2>5, <2>6, <2>7, <2>8 DEF ContentFits
<1> QED BY <1>3, <1>4

LEMMA CloseContent ==
  ASSUME NEW R, NEW w \in Writer(R), ~w.closed
  PROVE  /\ Content(CloseFile(w)) = Content(w) /\ CloseFile(w).closed
         /\ CloseFile(w).header = w.header /\ CloseFile(w).headerInFile = w.header
<1>1. w.file \o w.recordArray \in Seq(R)
  BY ConcatProperties DEF Writer
<1> DEFINE v == FlushRecordArray(w)
           x == CloseFile(w)
<1>2. v \in Writer(R) /\ v.file = w.file \o w.recordArray /\ v.header = w.header
  BY <1>1 DEF FlushRecordArray, Writer
<1>3. x = [v EXCEPT !.headerInFile = w.header, !.closed = TRUE]
  BY DEF CloseFile
<1> HIDE DEF v, x
<1>4. x.file = w.file \o w.recordArray /\ x.closed /\ x.header = w.header /\ x.headerInFile = w.header
  BY <1>2, <1>3 DEF Writer
<1> QED BY <1>4 DEF Content, x
LEMMA RoutineContent ==
  ASSUME ThreadsFit, FilesFit, StopFits, \A v \in Thread : ContentFits(v),
         NEW t \in Thread, Routine(t), NEW v \in Thread
  PROVE  ContentFits(v)'
<1>1. /\ call \in [Thread -> Calls] /\ t \in Nat
      /\ dynamicTrace \in [Thread -> Writer(DynamicRecord)]
      /\ memoryTrace \in [Thread -> Writer(MemoryRecord)]
      /\ \A u \in Thread : HasSpaceIn(memoryTrace[u])
      /\ written \in [Thread -> [dyn : Seq(DynamicRecord), mem : Seq(MemoryRecord)]]
  BY TracerAssumption DEF FilesFit, ThreadsFit, Thread
<1>0. UNCHANGED <<dynamicTrace, memoryTrace, written, stopped>> => ContentFits(v)'
  <2> SUFFICES ASSUME UNCHANGED <<dynamicTrace, memoryTrace, written, stopped>> PROVE ContentFits(v)'
    OBVIOUS
  <2>1. ContentFits(v)
    OBVIOUS
  <2> QED BY <2>1 DEF ContentFits
<1>2. CASE StartsThread(t) \/ RegistersThread(t) \/ ReachesBlock(t) \/ ExceedsLimit(t)
  BY <1>0, <1>2 DEF StartsThread, RegistersThread, ReachesBlock, ExceedsLimit, exitVars
<1>3. CASE ReachesEvent(t) \/ EndsLoop(t) \/ Synchronises(t)
  BY <1>0, <1>3 DEF ReachesEvent, EndsLoop, Synchronises, exitVars
<1>4. CASE AppendsBlock(t)
  <2> DEFINE b == call[t][2]
             r == <<"block", b>>
  <2>1. /\ call[t][1] = "block"
        /\ AddDynamicRecord(ThreadDataOf(t), r, BlockSize[b])
        /\ UNCHANGED <<memoryTrace, stopped>>
    BY <1>4 DEF AppendsBlock, exitVars
  <2>2. b \in Block
    BY <1>1, <2>1, CallShapes
  <2>3. BlockSize[b] \in Nat /\ r \in DynamicRecord /\ r[1] = "block" /\ r[2] = b
    BY <2>2, TracerAssumption DEF DynamicRecord
  <2>4. t < Len(threadDataVec)
    BY <2>1 DEF ThreadsFit, CallFits
  <2>5. ThreadDataOf(t) \in Thread
    BY <1>1, <2>4, DataOfIndex
  <2>6. ~stopped
    BY <2>1 DEF StopFits
  <2> HIDE DEF r
  <2> QED BY <2>1, <2>3, <2>5, <2>6, AddDynamicContent
<1>5. CASE AddsOwnEvent(t)
  <2> DEFINE p == call[t][2]
             r == <<"event", EventAt[p]>>
  <2>1. /\ call[t][1] = "event"
        /\ AddDynamicRecord(ThreadDataOf(t), r, 0)
        /\ UNCHANGED <<memoryTrace, stopped>>
    BY <1>5 DEF AddsOwnEvent, exitVars
  <2>2. p \in DOMAIN EventAt
    BY <1>1, <2>1, CallShapes
  <2>3. EventAt[p] \in Events
    BY <2>2, EventsAt DEF Events
  <2>4. r \in DynamicRecord /\ r[1] # "block"
    BY <2>3 DEF DynamicRecord
  <2>5. t < Len(threadDataVec)
    BY <2>1 DEF ThreadsFit, CallFits
  <2>6. ThreadDataOf(t) \in Thread
    BY <1>1, <2>5, DataOfIndex
  <2>7. ~stopped
    BY <2>1 DEF StopFits
  <2> HIDE DEF r
  <2> QED BY <2>1, <2>4, <2>6, <2>7, AddDynamicContent
<1>6. CASE AddsEventToNext(t)
  <2> DEFINE r == <<"event", call[t][2]>>
  <2>1. /\ call[t][1] = "all" /\ call[t][3] < Len(threadDataVec)
        /\ AddDynamicRecord(ThreadDataOf(call[t][3]), r, 0)
        /\ UNCHANGED <<memoryTrace, stopped>>
    BY <1>6 DEF AddsEventToNext, IsInVec, exitVars
  <2>2. call[t][2] \in Events /\ call[t][3] \in Nat
    BY <1>1, <2>1, CallShapes
  <2>3. r \in DynamicRecord /\ r[1] # "block"
    BY <2>2 DEF DynamicRecord
  <2>4. ThreadDataOf(call[t][3]) \in Thread
    BY <2>1, <2>2, DataOfIndex
  <2>5. ~stopped
    BY <2>1 DEF StopFits
  <2> HIDE DEF r
  <2> QED BY <2>1, <2>3, <2>4, <2>5, AddDynamicContent
<1>7. CASE AppendToMemTrace(t)
  <2>1. PICK b \in Block, rest \in SUBSET {"block"} :
          /\ ToCall(t, "mem", b, rest)
          /\ \E info \in Accesses[b] :
               IF WasThreadCreated(t)
                 THEN LET u == ThreadDataOf(t) IN
                      /\ memoryTrace' = [memoryTrace EXCEPT ![u] = AddRecords(@, MemoryRecords(info))]
                      /\ written' = [written EXCEPT ![u].mem = @ \o MemoryRecords(info)]
                 ELSE UNCHANGED <<memoryTrace, written>>
    BY <1>7 DEF AppendToMemTrace
  <2>0. ~stopped /\ UNCHANGED <<dynamicTrace, stopped>>
    <3>1. UNCHANGED <<dynamicTrace, stopped>>
      BY <1>7 DEF AppendToMemTrace, exitVars
    <3>2. ~stopped
      BY <1>1, <2>1, RoutineIsCalled
    <3> QED BY <3>1, <3>2
  <2>2. CASE ~WasThreadCreated(t)
    BY <1>0, <2>0, <2>1, <2>2
  <2>3. CASE WasThreadCreated(t)
    <3> DEFINE u == ThreadDataOf(t)
    <3>1. PICK info \in Accesses[b] :
            /\ memoryTrace' = [memoryTrace EXCEPT ![u] = AddRecords(@, MemoryRecords(info))]
            /\ written' = [written EXCEPT ![u].mem = @ \o MemoryRecords(info)]
      BY <2>1, <2>3
    <3>2. u \in Thread
      <4>1. (call[t] = Idle /\ pos[t] \in DOMAIN program) \/ call[t][1] = "rest"
        BY <1>1, <2>1, RoutineIsCalled
      <4>2. pos[t] > 0
        BY <4>1, StartedThread
      <4> QED BY <2>3, <4>2, CreatedIsInVec
    <3>3. info \in Seq(MemoryOp)
      BY <3>1, TracerAssumption
    <3> DEFINE records == MemoryRecords(info)
               old == memoryTrace[u]
               new == AddRecords(old, records)
               more == written[u].mem \o records
    <3>4. /\ records \in Seq(MemoryRecord) /\ Len(records) \in Nat \ {0}
          /\ records[1][1] = "header" /\ records[1][2] = Len(records) - 1
          /\ \A i \in 2 .. Len(records) : records[i][1] # "header"
      BY <3>3, MemoryRecordsFit
    <3>5. memoryTrace' = [memoryTrace EXCEPT ![u] = new] /\ written' = [written EXCEPT ![u].mem = more]
      BY <3>1
    <3> HIDE DEF u, records
    <3>6. CASE v # u
      <4>1. dynamicTrace'[v] = dynamicTrace[v] /\ written'[v] = written[v] /\ memoryTrace'[v] = memoryTrace[v]
        BY <1>1, <2>0, <3>5, <3>6
      <4> QED BY <2>0, <4>1 DEF ContentFits
    <3>7. CASE v = u
      <4>1. /\ old \in Writer(MemoryRecord) /\ HasSpaceIn(old) /\ ~old.closed
            /\ Content(old) = written[u].mem /\ old.header = 0
            /\ ~dynamicTrace[u].closed
            /\ Content(dynamicTrace[u]) = written[u].dyn
            /\ dynamicTrace[u].header = InstructionsIn(written[u].dyn)
        BY <1>1, <2>0, <3>2 DEF ContentFits
      <4> HIDE DEF old
      <4>2. Content(new) = Content(old) \o records /\ ~new.closed /\ new.header = old.header
        <5>1. records \in Seq(MemoryRecord)
          BY <3>4
        <5>2. old \in Writer(MemoryRecord) /\ HasSpaceIn(old) /\ ~old.closed
          BY <4>1
        <5> QED BY <5>1, <5>2, AddRecordsContent
      <4>3. PICK d : Announces(written[u].mem, d)
        BY <3>2 DEF ContentFits
      <4>4. written[u].mem \in Seq(MemoryRecord)
        BY <1>1, <3>2
      <4>5. \E e : Announces(more, e)
        BY <3>4, <4>3, <4>4, AnnouncesMore
      <4>6. Content(new) = more
        BY <4>1, <4>2
      <4> HIDE DEF new, more
      <4>7. /\ memoryTrace'[v] = new /\ written'[v].mem = more /\ written'[v].dyn = written[u].dyn
            /\ dynamicTrace'[v] = dynamicTrace[u]
        BY <1>1, <2>0, <3>2, <3>5, <3>7
      <4> QED BY <2>0, <4>1, <4>2, <4>5, <4>6, <4>7 DEF ContentFits
    <3> QED BY <3>6, <3>7
  <2> QED BY <2>2, <2>3
<1>8. CASE OnThreadFini(t)
  <2> DEFINE u == ThreadDataOf(t)
             d == CloseFile(dynamicTrace[u])
             m == CloseFile(memoryTrace[u])
  <2>1. /\ pos[t] > 0 /\ WasThreadCreated(t) /\ stopped /\ stopped' = stopped
        /\ ~dynamicTrace[u].closed
        /\ dynamicTrace' = [dynamicTrace EXCEPT ![u] = d]
        /\ memoryTrace' = [memoryTrace EXCEPT ![u] = m]
        /\ UNCHANGED written
    BY <1>8 DEF OnThreadFini, exitVars
  <2>2. u \in Thread
    BY <2>1, CreatedIsInVec
  <2> HIDE DEF u
  <2>3. ContentFits(u)
    BY <2>2
  <2>4. /\ dynamicTrace[u] \in Writer(DynamicRecord) /\ memoryTrace[u] \in Writer(MemoryRecord)
        /\ ~dynamicTrace[u].closed /\ ~memoryTrace[u].closed
    BY <1>1, <2>1, <2>2, <2>3 DEF ContentFits
  <2>5. /\ Content(d) = Content(dynamicTrace[u]) /\ d.closed
        /\ d.header = dynamicTrace[u].header /\ d.headerInFile = dynamicTrace[u].header
    BY <2>4, CloseContent
  <2>6. /\ Content(m) = Content(memoryTrace[u]) /\ m.closed
        /\ m.header = memoryTrace[u].header /\ m.headerInFile = memoryTrace[u].header
    BY <2>4, CloseContent
  <2> HIDE DEF d, m
  <2>7. CASE v # u
    <3>1. dynamicTrace'[v] = dynamicTrace[v] /\ written'[v] = written[v] /\ memoryTrace'[v] = memoryTrace[v]
      BY <1>1, <2>1, <2>7
    <3>2. ContentFits(v)
      OBVIOUS
    <3> QED BY <2>1, <3>1, <3>2 DEF ContentFits
  <2>8. CASE v = u
    <3>1. dynamicTrace'[v] = d /\ written'[v] = written[u] /\ memoryTrace'[v] = m
      BY <1>1, <2>1, <2>2, <2>8
    <3> QED BY <2>1, <2>3, <2>5, <2>6, <3>1 DEF ContentFits
  <2> QED BY <2>7, <2>8
<1> QED BY <1>2, <1>3, <1>4, <1>5, <1>6, <1>7, <1>8
        DEF Routine, OnThreadStart, AppendToDynamicTrace, OnThreadEvent

(***************************************************************************)
(* The routines leave the reader alone, and what it reads.                 *)
(***************************************************************************)
LEMMA CountedThreads ==
  ASSUME ThreadsFit
  PROVE  threadCount \in Nat /\ \A x \in 0 .. threadCount - 1 : x \in Thread
<1>1. threadCount = Len(threadDataVec)
  BY DEF ThreadsFit
<1>2. threadCount \in 0 .. TotalThreads
  BY <1>1, VecIsShort
<1>3. TotalThreads \in 1 .. 3
  BY TracerAssumption
<1> QED BY <1>2, <1>3 DEF Thread

LEMMA RoutineReader ==
  ASSUME ThreadsFit, FilesFit, StopFits, ReaderFits, NEW t \in Thread, Routine(t)
  PROVE  ReaderFits' /\ StopFits'
<1>0. UNCHANGED <<reader, filesRead, stopped>>
  BY DEF Routine, OnThreadStart, AppendToDynamicTrace, OnThreadEvent, StartsThread,
         RegistersThread, ReachesBlock, AppendsBlock, ExceedsLimit, AppendToMemTrace, ReachesEvent,
         AddsOwnEvent, AddsEventToNext, EndsLoop, Synchronises, OnThreadFini, exitVars, readVars
<1>1. CASE ~stopped
  <2>1. reader = NewReader
    BY <1>1 DEF ReaderFits, AreFilesComplete
  <2>2. reader \in ReaderState /\ ~reader.failed
    BY DEF ReaderFits
  <2> QED BY <1>0, <1>1, <2>1, <2>2 DEF ReaderFits, StopFits
<1>2. CASE stopped
  <2> DEFINE u == ThreadDataOf(t)
             d == CloseFile(dynamicTrace[u])
  <2>1. OnThreadFini(t)
    BY <1>2, StoppedRoutine
  <2>2. /\ pos[t] > 0 /\ WasThreadCreated(t)
        /\ dynamicTrace' = [dynamicTrace EXCEPT ![u] = d]
        /\ UNCHANGED <<written, call, threadCount>>
    BY <2>1 DEF OnThreadFini
  <2>3. u \in Thread
    BY <2>2, CreatedIsInVec
  <2>4. dynamicTrace \in [Thread -> Writer(DynamicRecord)] /\ ~dynamicTrace[u].closed
    BY <2>1 DEF FilesFit, OnThreadFini
  <2> HIDE DEF u
  <2>5. d.closed
    BY <2>3, <2>4, CloseContent
  <2>6. StopFits'
    BY <1>0, <2>2 DEF StopFits
  <2> HIDE DEF d
  <2>7. AreFilesComplete => AreFilesComplete'
    <3>1. \A x \in Thread : dynamicTrace[x].closed => dynamicTrace'[x].closed
      BY <2>2, <2>3, <2>4, <2>5
    <3>2. \A x \in 0 .. threadCount - 1 : x \in Thread
      BY CountedThreads
    <3> QED BY <1>0, <2>2, <3>1, <3>2 DEF AreFilesComplete
  <2>8. IsDynamicRead' = IsDynamicRead /\ ThreadRead' = ThreadRead
    BY <1>0 DEF IsDynamicRead, ThreadRead
  <2>9. ReaderFits'
    BY <1>0, <2>2, <2>7, <2>8 DEF ReaderFits
  <2> QED BY <2>6, <2>9
<1> QED BY <1>1, <1>2
(***************************************************************************)
(* The reader that reads on.                                               *)
(***************************************************************************)
LEMMA ThreadReadIs ==
  ASSUME ThreadsFit, EndFits, filesRead < 2 * threadCount
  PROVE  ThreadRead \in 0 .. threadCount - 1 /\ ThreadRead \in Thread
<1>1. threadCount \in Nat /\ filesRead \in Nat
  BY CountedThreads DEF EndFits
<1>2. ThreadRead \in 0 .. threadCount - 1
  BY <1>1 DEF ThreadRead
<1> QED BY <1>2, CountedThreads

LEMMA ReadsOn ==
  ASSUME ThreadsFit, FilesFit, EndFits, ReaderFits, \A v \in Thread : ContentFits(v), ReadsRecord
  PROVE  ReaderFits'
<1> DEFINE T == ThreadRead
           dyn == written[T].dyn
           mem == written[T].mem
<1>1. /\ AreFilesComplete /\ filesRead < 2 * threadCount
      /\ ~reader.reachedEnd /\ ~reader.failed
      /\ reader' = IF IsDynamicRead
                     THEN ReadDynamicRecord(reader, dynamicTrace[T].file)
                     ELSE ReadMemoryRecord(reader, memoryTrace[T].file)
      /\ UNCHANGED <<threadCount, dynamicTrace, stopped, written, filesRead>>
  BY DEF ReadsRecord, exitVars
<1>2. T \in 0 .. threadCount - 1 /\ T \in Thread
  BY <1>1, ThreadReadIs
<1>3. dynamicTrace[T].closed
  BY <1>1, <1>2 DEF AreFilesComplete
<1>4. dynamicTrace[T].file = dyn /\ memoryTrace[T].file = mem
  BY <1>2, <1>3 DEF ContentFits, Content
<1>5. dyn \in Seq(Record) /\ mem \in Seq(MemoryRecord) /\ mem \in Seq(Record)
  <2>1. dyn \in Seq(DynamicRecord) /\ mem \in Seq(MemoryRecord)
    BY <1>2 DEF FilesFit
  <2> HIDE DEF dyn, mem
  <2> QED BY <2>1 DEF Record
<1>6. reader \in ReaderState
  BY DEF ReaderFits
<1>7. AreFilesComplete' /\ IsDynamicRead' = IsDynamicRead /\ ThreadRead' = T
      /\ written' = written /\ filesRead' < 2 * threadCount'
  BY <1>1 DEF AreFilesComplete, IsDynamicRead, ThreadRead
<1>8. CASE IsDynamicRead
  <2>1. reader' = ReadDynamicRecord(reader, dyn)
    BY <1>1, <1>4, <1>8
  <2>2. DynamicReaderFits(reader, dyn)
    <3>1. CASE reader = NewReader
      BY <1>5, <3>1, NewReaderFits
    <3>2. CASE reader # NewReader
      BY <1>8, <3>2 DEF ReaderFits
    <3> QED BY <3>1, <3>2
  <2> HIDE DEF dyn
  <2>3. reader' \in ReaderState /\ ~reader'.failed /\ DynamicReaderFits(reader', dyn)
    BY <1>1, <1>5, <1>6, <2>1, <2>2, DynamicRead
  <2> QED BY <1>7, <1>8, <2>3 DEF ReaderFits, dyn
<1>9. CASE ~IsDynamicRead
  <2>1. reader' = ReadMemoryRecord(reader, mem)
    BY <1>1, <1>4, <1>9
  <2>2. \E d : Announces(mem, d) /\ MemoryReaderFits(reader, mem, d)
    <3>1. CASE reader = NewReader
      <4>1. PICK d : Announces(mem, d)
        BY <1>2 DEF ContentFits
      <4> QED BY <1>5, <3>1, <4>1, NewReaderFits
    <3>2. CASE reader # NewReader
      BY <1>9, <3>2 DEF ReaderFits
    <3> QED BY <3>1, <3>2
  <2>3. PICK d : Announces(mem, d) /\ MemoryReaderFits(reader, mem, d)
    BY <2>2
  <2> HIDE DEF mem
  <2>4. reader' \in ReaderState /\ ~reader'.failed /\ MemoryReaderFits(reader', mem, d)
    BY <1>1, <1>5, <1>6, <2>1, <2>3, MemoryRead
  <2> QED BY <1>7, <1>9, <2>3, <2>4 DEF ReaderFits, mem
<1> QED BY <1>8, <1>9

LEMMA FilesStep ==
  ASSUME TracerInductive, FilesInductive, [Next]_tracerVars
  PROVE  FilesInductive'
<1>1. /\ ThreadsFit /\ FilesFit /\ EndFits /\ StopFits /\ ReaderFits
      /\ \A t \in Thread : ContentFits(t)
  BY DEF TracerInductive, FilesInductive
<1> DEFINE F == UNCHANGED <<dynamicTrace, memoryTrace, written>>
<1>2. F /\ (stopped => stopped') => \A t \in Thread : ContentFits(t)'
  <2> SUFFICES ASSUME F, stopped => stopped', NEW t \in Thread PROVE ContentFits(t)'
    OBVIOUS
  <2>1. ContentFits(t)
    BY <1>1
  <2> QED BY <2>1 DEF ContentFits
<1>3. F /\ UNCHANGED <<stopped, reader, filesRead, threadCount>> => ReaderFits'
  BY <1>1 DEF ReaderFits, AreFilesComplete, IsDynamicRead, ThreadRead
<1>4. UNCHANGED <<stopped, call>> => StopFits'
  BY <1>1 DEF StopFits
<1>5. CASE UNCHANGED tracerVars \/ Exits
  <2>1. F /\ UNCHANGED <<stopped, call, reader, filesRead, threadCount>>
    BY <1>5 DEF tracerVars, exitVars, readVars, Exits
  <2> QED BY <1>2, <1>3, <1>4, <2>1 DEF FilesInductive
<1>6. ASSUME NEW t \in Thread, Routine(t) PROVE FilesInductive'
  <2>1. \A v \in Thread : ContentFits(v)'
    BY <1>1, <1>6, RoutineContent
  <2>2. ReaderFits' /\ StopFits'
    BY <1>1, <1>6, RoutineReader
  <2> QED BY <2>1, <2>2 DEF FilesInductive
<1>7. CASE Stops
  <2>1. /\ F /\ UNCHANGED <<call, reader, filesRead, threadCount>> /\ ~stopped /\ stopped'
        /\ \A t \in Thread : call[t][1] \in {"idle", "rest", "gone"}
    BY <1>7 DEF Stops, readVars
  <2>2. StopFits'
    BY <2>1 DEF StopFits
  <2>3. reader = NewReader /\ reader \in ReaderState /\ ~reader.failed
    BY <1>1, <2>1 DEF ReaderFits, AreFilesComplete
  <2>4. ReaderFits'
    BY <2>1, <2>3 DEF ReaderFits
  <2> QED BY <1>2, <2>1, <2>2, <2>4 DEF FilesInductive
<1>8. CASE ReadsRecord
  <2>1. F /\ UNCHANGED <<stopped, call>>
    BY <1>8 DEF ReadsRecord, exitVars
  <2>2. ReaderFits'
    BY <1>1, <1>8, ReadsOn
  <2> QED BY <1>2, <1>4, <2>1, <2>2 DEF FilesInductive
<1>9. CASE OpensNextFile
  <2>1. F /\ UNCHANGED <<stopped, call>> /\ reader' = NewReader
    BY <1>9 DEF OpensNextFile, exitVars
  <2>2. NewReader \in ReaderState /\ ~NewReader.failed
    <3>1. <<>> \in Seq(Record)
      OBVIOUS
    <3> QED BY <3>1, NewReaderFits
  <2>3. ReaderFits'
    BY <2>1, <2>2 DEF ReaderFits
  <2> QED BY <1>2, <1>4, <2>1, <2>3 DEF FilesInductive
<1> QED BY <1>5, <1>6, <1>7, <1>8, <1>9 DEF Next

LEMMA FilesStart ==
  ASSUME Init PROVE FilesInductive
<1>1. stopped = FALSE /\ reader = NewReader
  BY DEF Init
<1>2. NewReader \in ReaderState /\ ~NewReader.failed
  <2>1. <<>> \in Seq(Record)
    OBVIOUS
  <2> QED BY <2>1, NewReaderFits
<1>3. ReaderFits /\ StopFits
  BY <1>1, <1>2 DEF ReaderFits, StopFits
<1>4. ASSUME NEW t \in Thread PROVE ContentFits(t)
  <2>1. dynamicTrace[t] = OpenFile /\ memoryTrace[t] = OpenFile
        /\ written[t].dyn = <<>> /\ written[t].mem = <<>>
    BY DEF Init
  <2>2. /\ OpenFile.header = 0 /\ ~OpenFile.closed
        /\ OpenFile.file = <<>> /\ OpenFile.recordArray = <<>>
    BY DEF OpenFile
  <2>3. Content(OpenFile) = <<>>
    BY <2>2, ConcatEmptySeq DEF Content
  <2>4. InstructionsIn(<<>>) = 0
    <3> DEFINE e == <<>>
               f == CHOOSE f : f = [n \in 0 .. Len(e) |-> CountStep(e, f, n)]
    <3>1. Len(e) = 0
      OBVIOUS
    <3>2. f = [n \in 0 .. Len(e) |-> CountStep(e, f, n)]
      BY <3>1, CountExists
    <3>3. InstructionsIn(e) = f[Len(e)]
      BY DEF InstructionsIn, CountStep
    <3> HIDE DEF f, e
    <3>4. f[0] = CountStep(e, f, 0)
      BY <3>1, <3>2
    <3>5. f[0] = 0
      BY <3>4 DEF CountStep
    <3> QED BY <3>1, <3>3, <3>5 DEF e
  <2>5. Announces(<<>>, [k \in 0 .. 0 |-> 0])
    <3>1. Len(<<>>) = 0
      OBVIOUS
    <3> QED BY <3>1 DEF Announces
  <2> QED BY <2>1, <2>2, <2>3, <2>4, <2>5 DEF ContentFits
<1> QED BY <1>3, <1>4 DEF FilesInductive

(***************************************************************************)
(* A reader that has come to the end has handed out the whole file.        *)
(***************************************************************************)
LEMMA HasReadAll ==
  ASSUME NEW r \in ReaderState, NEW w \in Seq(Record), HasRead(r, w, Len(w))
  PROVE  r.got = w
<1>1. r.got \in Seq(Record)
  BY DEF ReaderState, Record
<1>2. Len(r.got) = Len(w) /\ \A i \in 1 .. Len(w) : r.got[i] = w[i]
  BY DEF HasRead
<1> QED BY <1>1, <1>2, SeqEqual

(***************************************************************************)
(* What the tracer has traced is in the files when they are closed, with   *)
(* the number of its instructions in the header (the destructors of the    *)
(* writers), and the readers of the simulator hand out just that.          *)
(***************************************************************************)
THEOREM FilesAreFaithful == Spec => []FilesTellTheTrace
<1>1. TracerInductive /\ FilesInductive => FilesTellTheTrace
  <2> SUFFICES ASSUME TracerInductive, FilesInductive PROVE FilesTellTheTrace
    OBVIOUS
  <2>1. /\ ThreadsFit /\ FilesFit /\ EndFits /\ ReaderFits
        /\ \A t \in Thread : ContentFits(t)
    BY DEF TracerInductive, FilesInductive
  <2>2. \A t \in Thread : dynamicTrace[t].closed =>
          /\ dynamicTrace[t].headerInFile = InstructionsIn(written[t].dyn)
          /\ memoryTrace[t].headerInFile = 0
    BY <2>1 DEF ContentFits
  <2>3. ~reader.failed /\ reader \in ReaderState
    BY <2>1 DEF ReaderFits
  <2>4. ASSUME reader.reachedEnd
        PROVE  reader.got = IF IsDynamicRead THEN written[ThreadRead].dyn ELSE written[ThreadRead].mem
    <3> DEFINE dyn == written[ThreadRead].dyn
               mem == written[ThreadRead].mem
    <3>1. reader # NewReader
      BY <2>4 DEF NewReader
    <3>2. /\ filesRead < 2 * threadCount
          /\ IF IsDynamicRead THEN DynamicReaderFits(reader, dyn)
             ELSE \E d : Announces(mem, d) /\ MemoryReaderFits(reader, mem, d)
      BY <2>1, <3>1 DEF ReaderFits
    <3>3. ThreadRead \in Thread
      BY <2>1, <3>2, ThreadReadIs
    <3>4. dyn \in Seq(DynamicRecord) /\ mem \in Seq(MemoryRecord)
      BY <2>1, <3>3 DEF FilesFit
    <3> HIDE DEF dyn, mem
    <3>5. dyn \in Seq(Record) /\ mem \in Seq(Record)
      BY <3>4 DEF Record
    <3>6. CASE IsDynamicRead
      <4>1. HasRead(reader, dyn, Len(dyn))
        BY <2>4, <3>2, <3>6 DEF DynamicReaderFits
      <4> QED BY <2>3, <3>5, <3>6, <4>1, HasReadAll DEF dyn
    <3>7. CASE ~IsDynamicRead
      <4>1. HasRead(reader, mem, Len(mem))
        BY <2>4, <3>2, <3>7 DEF MemoryReaderFits
      <4> QED BY <2>3, <3>5, <3>7, <4>1, HasReadAll DEF mem
    <3> QED BY <3>6, <3>7
  <2> QED BY <2>2, <2>3, <2>4 DEF FilesTellTheTrace
<1>2. Init => TracerInductive /\ FilesInductive
  BY TracerStart, FilesStart
<1>3. TracerInductive /\ FilesInductive /\ [Next]_tracerVars => TracerInductive' /\ FilesInductive'
  BY TracerStep, FilesStep
<1> QED BY <1>1, <1>2, <1>3, PTL DEF Spec
-----------------------------------------------------------------------------
(***************************************************************************)
(* The barriers.  A routine is called at its point of the program, and no  *)
(* thread is through a meeting before all have come to it.                 *)
(***************************************************************************)
CallsAtPoint(t) ==
  /\ call[t][1] \in {"block", "rest"} => program[pos[t]] = "block"
  /\ call[t][1] = "event" =>
       program[pos[t]] = call[t][2] /\ (IsMasterEvent(call[t][2]) => t = 0)
  /\ call[t][1] = "all" /\ call[t][2] # "AbruptEnd" =>
       /\ t = 0 /\ call[t][2] = "BarrierSync" /\ IsMasterEvent(program[pos[t]])
       /\ call[t][3] >= 1

MeetingsHold ==
  \A k \in 1 .. Len(program) : program[k] = "meet" =>
    \A t, u \in Thread : pos[t] > k => pos[u] >= k

PlacesFit == program \in Programs /\ MeetingsHold /\ \A t \in Thread : CallsAtPoint(t)

(***************************************************************************)
(* The records of the barriers in the file that thread i writes to are the *)
(* barriers that i has passed, the ends of regions that the master has     *)
(* passed, and perhaps one that the master is adding to all files.         *)
(***************************************************************************)
Passed(t, K) == Cardinality({i \in 1 .. pos[t] - 1 : program[i] \in K})

Extra(i) ==
  IF call[0][1] = "all" /\ call[0][2] = "BarrierSync" /\ i < call[0][3] THEN 1 ELSE 0

FileOf(i) == written[ThreadDataOf(i)].dyn

BarriersFit(i) ==
  Count(FileOf(i), BarrierSync) = Passed(i, {"barrier"}) + Passed(0, {"start", "end"}) + Extra(i)

(***************************************************************************)
(* The critical regions.  A file in which one is open belongs to a thread  *)
(* that is in one.                                                         *)
(***************************************************************************)
CriticalStart == <<"event", "CriticalStart">>

CriticalEnd == <<"event", "CriticalEnd">>

IsOpen(w) ==
  \E a \in DOMAIN w : w[a] = CriticalStart /\ \A b \in DOMAIN w : a < b => w[b] # CriticalEnd

HoldsNoBarrier(w) ==
  \A i, j \in DOMAIN w :
    i < j /\ w[i] = CriticalStart /\ w[j] = BarrierSync => \E k \in i .. j : w[k] = CriticalEnd

InRegion(t) ==
  \E k \in 1 .. pos[t] - 1 :
    program[k] = "cs" /\ \A l \in k + 1 .. pos[t] - 1 : program[l] # "ce"

RegionFits(i) == IsOpen(FileOf(i)) => InRegion(i)

RecordsFit ==
  /\ \A t \in Thread : pos[t] = 0 => written[t].dyn = <<>>
  /\ \A i \in 0 .. Len(threadDataVec) - 1 : BarriersFit(i) /\ RegionFits(i)
  /\ IsSeparated => \A t \in Thread : HoldsNoBarrier(written[t].dyn)

(***************************************************************************)
(* An end that is not abrupt is the end of the program.                    *)
(***************************************************************************)
ExitFits == exiting /\ ~HasEndedAbruptly => pos[0] = Len(program) + 1

TeamInductive == PlacesFit /\ RecordsFit /\ ExitFits
-----------------------------------------------------------------------------
(***************************************************************************)
(* All threads have registered when one is at an event of the team.        *)
(***************************************************************************)
LEMMA AllRegistered ==
  ASSUME ThreadsFit, \A u \in Thread : pos[u] > 0
  PROVE  Len(threadDataVec) = TotalThreads
<1>1. Len(threadDataVec) \in 0 .. TotalThreads /\ TotalThreads \in {1, 2, 3}
  BY VecIsShort, TracerAssumption
<1>2. \A u \in Thread : \E i \in 1 .. Len(threadDataVec) : threadDataVec[i] = u
  BY DEF ThreadsFit, IsRegistered
<1> DEFINE n == Len(threadDataVec)
<1>3. CASE TotalThreads = 1
  <2>1. 0 \in Thread
    BY <1>3 DEF Thread
  <2> QED BY <1>1, <1>2, <1>3, <2>1
<1>4. CASE TotalThreads = 2
  <2>1. 0 \in Thread /\ 1 \in Thread
    BY <1>4 DEF Thread
  <2>2. PICK i \in 1 .. n, j \in 1 .. n : threadDataVec[i] = 0 /\ threadDataVec[j] = 1
    BY <1>2, <2>1
  <2>3. i # j
    BY <2>2
  <2> HIDE DEF n
  <2>4. n \in 0 .. 2 => n = 2
    BY <2>2, <2>3
  <2> QED BY <1>1, <1>4, <2>4 DEF n
<1>5. CASE TotalThreads = 3
  <2>1. 0 \in Thread /\ 1 \in Thread /\ 2 \in Thread
    BY <1>5 DEF Thread
  <2>2. PICK i \in 1 .. n, j \in 1 .. n, k \in 1 .. n :
          threadDataVec[i] = 0 /\ threadDataVec[j] = 1 /\ threadDataVec[k] = 2
    BY <1>2, <2>1
  <2>3. i # j /\ i # k /\ j # k
    BY <2>2
  <2> HIDE DEF n
  <2>4. n \in 0 .. 3 => n = 3
    BY <2>2, <2>3
  <2> QED BY <1>1, <1>5, <2>4 DEF n
<1> QED BY <1>1, <1>3, <1>4, <1>5

TeamEvents == {"start", "end", "barrier"}

LEMMA TeamIsComplete ==
  ASSUME ThreadsFit, PlacesFit, NEW t \in Thread, NEW k \in 1 .. Len(program),
         k <= pos[t], program[k] \in TeamEvents
  PROVE  /\ Len(threadDataVec) = TotalThreads
         /\ \A u \in Thread : pos[u] > 0 /\ WasThreadCreated(u) /\ u < Len(threadDataVec)
<1>1. /\ IsTeamProgram(program) /\ DOMAIN program = 1 .. Len(program) /\ Len(program) \in Nat
      /\ pos \in [Thread -> 0 .. Len(program) + 1]
  BY TeamAssumption, LenProperties DEF PlacesFit, ThreadsFit
<1>2. PICK first \in 1 .. Len(program) : program[first] = "meet" /\ first < k
  BY <1>1 DEF IsTeamProgram, TeamEvents
<1>3. pos[t] > first
  BY <1>1, <1>2
<1>4. \A u \in Thread : pos[u] >= first
  BY <1>2, <1>3 DEF PlacesFit, MeetingsHold
<1>5. \A u \in Thread : pos[u] > 0
  BY <1>1, <1>2, <1>4
<1>6. Len(threadDataVec) = TotalThreads
  BY <1>5, AllRegistered
<1>7. ASSUME NEW u \in Thread PROVE WasThreadCreated(u) /\ u < Len(threadDataVec)
  <2>1. u \in 0 .. TotalThreads - 1 /\ TotalThreads \in Nat
    BY TracerAssumption DEF Thread
  <2> QED BY <1>6, <2>1 DEF WasThreadCreated
<1> QED BY <1>5, <1>6, <1>7

(***************************************************************************)
(* How many points of some kind a thread has passed.                       *)
(***************************************************************************)
LEMMA PassedIsNumber ==
  ASSUME ThreadsFit, NEW t \in Thread, NEW K
  PROVE  /\ IsFiniteSet({i \in 1 .. pos[t] - 1 : program[i] \in K})
         /\ Passed(t, K) \in Nat
<1>1. pos[t] - 1 \in Int
  BY DEF ThreadsFit
<1>2. IsFiniteSet(1 .. pos[t] - 1)
  BY <1>1, FS_Interval
<1>3. IsFiniteSet({i \in 1 .. pos[t] - 1 : program[i] \in K})
  BY <1>2, FS_Subset
<1> QED BY <1>3, FS_CardinalityType DEF Passed

LEMMA PassedOn ==
  ASSUME ThreadsFit, NEW t \in Thread, NEW K, Continue(t), program' = program,
         pos[t] \in 1 .. Len(program)
  PROVE  /\ Passed(t, K)' = Passed(t, K) + IF program[pos[t]] \in K THEN 1 ELSE 0
         /\ \A u \in Thread \ {t} : Passed(u, K)' = Passed(u, K)
<1> DEFINE old == {i \in 1 .. pos[t] - 1 : program[i] \in K}
           new == {i \in 1 .. pos'[t] - 1 : program[i] \in K}
<1>1. /\ pos'[t] = pos[t] + 1 /\ \A u \in Thread \ {t} : pos'[u] = pos[u]
      /\ pos[t] \in Nat
  BY LenProperties DEF Continue, ThreadsFit
<1>2. IsFiniteSet(old) /\ Passed(t, K) = Cardinality(old) /\ Passed(t, K) \in Nat
  BY PassedIsNumber DEF Passed
<1>3. Passed(t, K)' = Cardinality(new)
  BY DEF Passed
<1>4. \A i : i \in 1 .. pos'[t] - 1 <=> i \in 1 .. pos[t] - 1 \/ i = pos[t]
  BY <1>1
<1>5. pos[t] \notin old
  BY <1>1
<1>6. ASSUME program[pos[t]] \in K PROVE Passed(t, K)' = Passed(t, K) + 1
  <2>1. new = old \cup {pos[t]}
    BY <1>4, <1>6
  <2> HIDE DEF old, new
  <2> QED BY <1>2, <1>3, <1>5, <2>1, FS_AddElement
<1>7. ASSUME program[pos[t]] \notin K PROVE Passed(t, K)' = Passed(t, K) + 0
  <2>1. new = old
    BY <1>4, <1>7
  <2> HIDE DEF old, new
  <2> QED BY <1>2, <1>3, <2>1
<1>8. \A u \in Thread \ {t} : Passed(u, K)' = Passed(u, K)
  BY <1>1 DEF Passed
<1> QED BY <1>6, <1>7, <1>8

LEMMA NothingPassed ==
  ASSUME ThreadsFit, PlacesFit, Len(threadDataVec) # TotalThreads, NEW t \in Thread,
         NEW K \in SUBSET TeamEvents
  PROVE  Passed(t, K) = 0
<1>1. pos \in [Thread -> 0 .. Len(program) + 1] /\ Len(program) \in Nat
  BY LenProperties DEF ThreadsFit
<1>2. {i \in 1 .. pos[t] - 1 : program[i] \in K} = {}
  <2> SUFFICES ASSUME NEW i \in 1 .. pos[t] - 1, program[i] \in K PROVE FALSE
    OBVIOUS
  <2>1. i \in 1 .. Len(program) /\ i <= pos[t]
    BY <1>1
  <2> QED BY <2>1, TeamIsComplete
<1> QED BY <1>2, FS_EmptySet DEF Passed
(***************************************************************************)
(* What one more record changes for the barriers and regions of a file.    *)
(***************************************************************************)
LEMMA CountIsNumber ==
  ASSUME NEW w \in Seq(DynamicRecord), NEW r
  PROVE  /\ IsFiniteSet({i \in DOMAIN w : w[i] = r}) /\ Count(w, r) \in Nat
<1>1. IsFiniteSet(1 .. Len(w)) /\ DOMAIN w = 1 .. Len(w)
  BY LenProperties, FS_Interval
<1>2. IsFiniteSet({i \in DOMAIN w : w[i] = r})
  BY <1>1, FS_Subset
<1> QED BY <1>2, FS_CardinalityType DEF Count

LEMMA OneMoreRecord ==
  ASSUME NEW w \in Seq(DynamicRecord), NEW v, NEW r, NEW n \in Nat, n = Len(w),
         DOMAIN v = 1 .. n + 1, v[n + 1] = r, \A i \in 1 .. n : v[i] = w[i]
  PROVE  /\ Count(v, BarrierSync) = Count(w, BarrierSync) + IF r = BarrierSync THEN 1 ELSE 0
         /\ IsOpen(v) => r = CriticalStart \/ (IsOpen(w) /\ r # CriticalEnd)
         /\ HoldsNoBarrier(w) /\ (r = BarrierSync => ~IsOpen(w)) => HoldsNoBarrier(v)
<1>1. DOMAIN w = 1 .. n
  BY LenProperties
<1>2. \A i : i \in 1 .. n + 1 <=> i \in 1 .. n \/ i = n + 1
  OBVIOUS
<1>3. n + 1 \notin 1 .. n /\ \A i \in 1 .. n : i < n + 1
  OBVIOUS
<1>4. Count(v, BarrierSync) = Count(w, BarrierSync) + IF r = BarrierSync THEN 1 ELSE 0
  <2> DEFINE old == {i \in DOMAIN w : w[i] = BarrierSync}
             new == {i \in DOMAIN v : v[i] = BarrierSync}
  <2>1. IsFiniteSet(old) /\ Count(w, BarrierSync) \in Nat /\ n + 1 \notin old
    BY <1>1, <1>3, CountIsNumber
  <2>2. Count(w, BarrierSync) = Cardinality(old) /\ Count(v, BarrierSync) = Cardinality(new)
    BY DEF Count
  <2>3. ASSUME r = BarrierSync PROVE Count(v, BarrierSync) = Count(w, BarrierSync) + 1
    <3>1. new = old \cup {n + 1}
      BY <1>1, <1>2, <2>3
    <3> HIDE DEF old, new
    <3> QED BY <2>1, <2>2, <3>1, FS_AddElement
  <2>4. ASSUME r # BarrierSync PROVE Count(v, BarrierSync) = Count(w, BarrierSync) + 0
    <3>1. new = old
      BY <1>1, <1>2, <2>4
    <3> HIDE DEF old, new
    <3> QED BY <2>1, <2>2, <3>1
  <2> QED BY <2>3, <2>4
<1>5. IsOpen(v) => r = CriticalStart \/ (IsOpen(w) /\ r # CriticalEnd)
  <2> SUFFICES ASSUME NEW a \in DOMAIN v, v[a] = CriticalStart,
                      \A b \in DOMAIN v : a < b => v[b] # CriticalEnd,
                      r # CriticalStart
               PROVE  IsOpen(w) /\ r # CriticalEnd
    BY DEF IsOpen
  <2>1. a \in 1 .. n
    BY <1>2
  <2>2. w[a] = CriticalStart /\ \A b \in DOMAIN w : a < b => w[b] # CriticalEnd
    BY <1>1, <1>2, <2>1
  <2>3. r # CriticalEnd
    BY <1>2, <1>3, <2>1
  <2> QED BY <1>1, <2>1, <2>2, <2>3 DEF IsOpen
<1>6. ASSUME HoldsNoBarrier(w), r = BarrierSync => ~IsOpen(w)
      PROVE  HoldsNoBarrier(v)
  <2> SUFFICES ASSUME NEW i \in DOMAIN v, NEW j \in DOMAIN v,
                      i < j, v[i] = CriticalStart, v[j] = BarrierSync
               PROVE  \E k \in i .. j : v[k] = CriticalEnd
    BY DEF HoldsNoBarrier
  <2>1. i \in 1 .. n
    BY <1>2
  <2>2. CASE j \in 1 .. n
    <3>1. PICK k \in i .. j : w[k] = CriticalEnd
      BY <1>1, <1>6, <2>1, <2>2 DEF HoldsNoBarrier
    <3>2. k \in 1 .. n
      BY <2>1, <2>2
    <3> QED BY <3>1, <3>2
  <2>3. CASE j = n + 1
    <3>1. ~IsOpen(w)
      BY <1>6, <2>3
    <3>2. PICK b \in 1 .. n : i < b /\ w[b] = CriticalEnd
      BY <1>1, <2>1, <3>1 DEF IsOpen
    <3>3. b \in i .. j /\ v[b] = CriticalEnd
      BY <2>1, <2>3, <3>2
    <3> QED BY <3>3
  <2> QED BY <1>2, <2>2, <2>3
<1> QED BY <1>4, <1>5, <1>6

LEMMA DifferentFiles ==
  ASSUME ThreadsFit, NEW i \in 0 .. Len(threadDataVec) - 1, NEW j \in 0 .. Len(threadDataVec) - 1
  PROVE  /\ ThreadDataOf(i) \in Thread /\ pos[ThreadDataOf(i)] > 0
         /\ ThreadDataOf(i) = ThreadDataOf(j) => i = j
<1>1. threadDataVec \in Seq(Thread) /\ Len(threadDataVec) \in Nat
  BY LenProperties DEF ThreadsFit
<1>2. i + 1 \in 1 .. Len(threadDataVec) /\ j + 1 \in 1 .. Len(threadDataVec)
  BY <1>1
<1>3. ThreadDataOf(i) \in Thread
  BY <1>1, <1>2, ElementOfSeq DEF ThreadDataOf
<1>4. pos[ThreadDataOf(i)] > 0
  BY <1>2, <1>3 DEF ThreadsFit, IsRegistered, ThreadDataOf
<1>5. ThreadDataOf(i) = ThreadDataOf(j) => i + 1 = j + 1
  BY <1>2 DEF ThreadsFit, ThreadDataOf
<1> QED BY <1>1, <1>3, <1>4, <1>5
-----------------------------------------------------------------------------
(***************************************************************************)
(* Where the threads are.                                                  *)
(***************************************************************************)
LEMMA PlaceMoves ==
  ASSUME ThreadsFit, PlacesFit, program' = program, NEW t \in Thread, NEW c,
         call' = [call EXCEPT ![t] = c], CallsAtPoint(t)',
         \/ pos' = pos
         \/ /\ pos' = [pos EXCEPT ![t] = pos[t] + 1]
            /\ pos[t] \in 1 .. Len(program) /\ program[pos[t]] = "meet" =>
                 \A u \in Thread : pos[u] >= pos[t]
  PROVE  PlacesFit'
<1>1. /\ pos \in [Thread -> 0 .. Len(program) + 1] /\ call \in [Thread -> Calls]
      /\ Len(program) \in Nat
  BY LenProperties DEF ThreadsFit
<1>2. \A u \in Thread \ {t} : call'[u] = call[u] /\ pos'[u] = pos[u]
  BY <1>1
<1>3. \A u \in Thread : CallsAtPoint(u)'
  <2> TAKE u \in Thread
  <2>1. CASE u = t
    BY <2>1
  <2>2. CASE u # t
    <3>1. call'[u] = call[u] /\ pos'[u] = pos[u] /\ CallsAtPoint(u)
      BY <1>2, <2>2 DEF PlacesFit
    <3> QED BY <3>1 DEF CallsAtPoint
  <2> QED BY <2>1, <2>2
<1>4. MeetingsHold'
  <2> SUFFICES ASSUME NEW k \in 1 .. Len(program), program[k] = "meet",
                      NEW u \in Thread, NEW v \in Thread, pos'[u] > k
               PROVE  pos'[v] >= k
    BY DEF MeetingsHold
  <2>1. pos[u] > k => pos[v] >= k
    BY DEF PlacesFit, MeetingsHold
  <2>2. pos'[v] >= pos[v] /\ pos[v] \in Int /\ pos'[v] \in Int /\ pos[u] \in Int
    BY <1>1
  <2>3. CASE pos[u] > k
    BY <2>1, <2>2, <2>3
  <2>4. CASE ~(pos[u] > k)
    <3>1. pos' = [pos EXCEPT ![t] = pos[t] + 1] /\ u = t /\ pos[t] = k
      BY <1>1, <2>2, <2>4
    <3>2. pos[v] >= pos[t]
      BY <1>1, <3>1
    <3> QED BY <2>2, <3>1, <3>2
  <2> QED BY <2>3, <2>4
<1> QED BY <1>3, <1>4 DEF PlacesFit

LEMMA PlaceEntered ==
  ASSUME ThreadsFit, PlacesFit, program' = program, NEW t \in Thread, NEW c, Enter(t, c),
         c[1] \in {"block", "rest"} => program[pos[t]] = "block",
         c[1] = "event" => program[pos[t]] = c[2] /\ (IsMasterEvent(c[2]) => t = 0),
         c[1] = "all" /\ c[2] # "AbruptEnd" =>
           /\ t = 0 /\ c[2] = "BarrierSync" /\ IsMasterEvent(program[pos[t]]) /\ c[3] >= 1
  PROVE  PlacesFit'
<1>1. call' = [call EXCEPT ![t] = c] /\ pos' = pos /\ call \in [Thread -> Calls]
  BY DEF Enter, ThreadsFit
<1>2. call'[t] = c
  BY <1>1
<1>3. CallsAtPoint(t)'
  BY <1>1, <1>2 DEF CallsAtPoint, IsMasterEvent
<1> QED BY <1>1, <1>3, PlaceMoves

LEMMA PlaceLeft ==
  ASSUME ThreadsFit, PlacesFit, program' = program, NEW t \in Thread, Continue(t),
         pos[t] \in 1 .. Len(program) /\ program[pos[t]] = "meet" =>
           \A u \in Thread : pos[u] >= pos[t]
  PROVE  PlacesFit'
<1>1. /\ call' = [call EXCEPT ![t] = Idle] /\ pos' = [pos EXCEPT ![t] = pos[t] + 1]
      /\ call \in [Thread -> Calls]
  BY DEF Continue, ThreadsFit
<1>2. call'[t] = Idle
  BY <1>1
<1>3. CallsAtPoint(t)'
  BY <1>2 DEF CallsAtPoint, Idle
<1> QED BY <1>1, <1>3, PlaceMoves

LEMMA PlaceOfBlock ==
  ASSUME ThreadsFit, PlacesFit, program' = program, NEW t \in Thread, NEW b, NEW rest,
         LeaveRoutine(t, b, rest), program[pos[t]] = "block"
  PROVE  PlacesFit'
<1>1. CASE rest = {}
  <2>1. Continue(t)
    BY <1>1 DEF LeaveRoutine
  <2> QED BY <2>1, PlaceLeft
<1>2. CASE rest # {}
  <2>1. Enter(t, <<"rest", b, rest>>)
    BY <1>2 DEF LeaveRoutine
  <2> QED BY <2>1, PlaceEntered
<1> QED BY <1>1, <1>2

LEMMA RoutinePlaces ==
  ASSUME ThreadsFit, PlacesFit, NEW t \in Thread, Routine(t)
  PROVE  PlacesFit'
<1>0. CallsAtPoint(t) /\ call \in [Thread -> Calls] /\ 0 \in Thread
  BY TracerAssumption DEF PlacesFit, ThreadsFit, Thread
<1>1. CASE StartsThread(t)
  <2>1. Enter(t, <<"start">>) /\ program' = program
    BY <1>1 DEF StartsThread, appVars
  <2> QED BY <2>1, PlaceEntered
<1>2. CASE RegistersThread(t)
  <2>1. Continue(t) /\ program' = program /\ pos[t] = 0
    BY <1>2 DEF RegistersThread, appVars, ThreadsFit, CallFits
  <2> QED BY <2>1, PlaceLeft
<1>3. CASE ReachesBlock(t)
  <2>1. PICK b \in Block, rest \in SUBSET {"mem"} :
          /\ ToCall(t, "block", b, rest)
          /\ Enter(t, <<"block", b, rest>>) \/ LeaveRoutine(t, b, rest)
    BY <1>3 DEF ReachesBlock
  <2>2. program' = program /\ program[pos[t]] = "block"
    <3>1. program[pos[t]] = "block" \/ call[t][1] = "rest"
      BY <1>0, <2>1, RoutineIsCalled
    <3>2. program' = program
      BY <1>3 DEF ReachesBlock, appVars
    <3> QED BY <1>0, <3>1, <3>2 DEF CallsAtPoint
  <2>3. CASE Enter(t, <<"block", b, rest>>)
    BY <2>2, <2>3, PlaceEntered
  <2> QED BY <2>1, <2>2, <2>3, PlaceOfBlock
<1>4. CASE AppendsBlock(t)
  <2>1. /\ LeaveRoutine(t, call[t][2], call[t][3])
        /\ program' = program /\ program[pos[t]] = "block"
    BY <1>0, <1>4 DEF AppendsBlock, appVars, CallsAtPoint
  <2> QED BY <2>1, PlaceOfBlock
<1>5. CASE ExceedsLimit(t)
  <2>1. Enter(t, <<"all", "AbruptEnd", 0>>) /\ program' = program
    BY <1>5 DEF ExceedsLimit, appVars
  <2> QED BY <2>1, PlaceEntered
<1>6. CASE AppendToMemTrace(t)
  <2>1. PICK b \in Block, rest \in SUBSET {"block"} :
          ToCall(t, "mem", b, rest) /\ LeaveRoutine(t, b, rest)
    BY <1>6 DEF AppendToMemTrace
  <2>2. program' = program /\ program[pos[t]] = "block"
    <3>1. program[pos[t]] = "block" \/ call[t][1] = "rest"
      BY <1>0, <2>1, RoutineIsCalled
    <3>2. program' = program
      BY <1>6 DEF AppendToMemTrace, appVars
    <3> QED BY <1>0, <3>1, <3>2 DEF CallsAtPoint
  <2> QED BY <2>1, <2>2, PlaceOfBlock
<1>7. CASE ReachesEvent(t)
  <2>1. PICK p \in DOMAIN EventAt :
          /\ IsAt(t, p)
          /\ IF WasThreadCreated(t) /\ (IsMasterEvent(p) => t = 0)
               THEN Enter(t, <<"event", p>>) ELSE Continue(t)
    BY <1>7 DEF ReachesEvent
  <2>2. program' = program /\ program[pos[t]] = p /\ p # "meet"
    BY <1>7, <2>1 DEF ReachesEvent, appVars, IsAt, EventAt
  <2>3. CASE WasThreadCreated(t) /\ (IsMasterEvent(p) => t = 0)
    <3>1. Enter(t, <<"event", p>>) /\ <<"event", p>>[1] = "event" /\ <<"event", p>>[2] = p
      BY <2>1, <2>3
    <3> QED BY <2>2, <2>3, <3>1, PlaceEntered
  <2>4. CASE ~(WasThreadCreated(t) /\ (IsMasterEvent(p) => t = 0))
    <3>1. Continue(t)
      BY <2>1, <2>4
    <3> QED BY <2>2, <3>1, PlaceLeft
  <2> QED BY <2>3, <2>4
<1>8. CASE AddsOwnEvent(t)
  <2> DEFINE p == call[t][2]
  <2>1. /\ program[pos[t]] = p /\ (IsMasterEvent(p) => t = 0) /\ program' = program
        /\ IF IsMasterEvent(p) THEN Enter(t, <<"all", EventAt[p], 1>>) ELSE Continue(t)
    BY <1>0, <1>8 DEF AddsOwnEvent, appVars, CallsAtPoint
  <2>2. p \in DOMAIN EventAt
    BY <1>0, <1>8, CallShapes DEF AddsOwnEvent
  <2>3. CASE IsMasterEvent(p)
    <3>1. EventAt[p] = "BarrierSync"
      BY <2>3 DEF IsMasterEvent, EventAt
    <3>2. Enter(t, <<"all", "BarrierSync", 1>>)
      BY <2>1, <2>3, <3>1
    <3> QED BY <2>1, <2>3, <3>2, PlaceEntered
  <2>4. CASE ~IsMasterEvent(p)
    <3>1. Continue(t) /\ program[pos[t]] # "meet"
      BY <2>1, <2>2, <2>4 DEF EventAt
    <3> QED BY <2>1, <3>1, PlaceLeft
  <2> QED BY <2>3, <2>4
<1>9. CASE AddsEventToNext(t)
  <2> DEFINE e == call[t][2]
             k == call[t][3]
  <2>1. /\ call[t][1] = "all" /\ Enter(t, <<"all", e, k + 1>>) /\ program' = program
    BY <1>9 DEF AddsEventToNext, appVars
  <2>2. k \in Nat
    BY <1>0, <2>1, CallShapes
  <2>3. e # "AbruptEnd" =>
          t = 0 /\ e = "BarrierSync" /\ IsMasterEvent(program[pos[t]]) /\ k >= 1
    BY <1>0, <2>1 DEF CallsAtPoint
  <2> DEFINE c == <<"all", e, k + 1>>
  <2>4. c[1] = "all" /\ c[2] = e /\ c[3] = k + 1 /\ Enter(t, c)
    BY <2>1
  <2> HIDE DEF c, e, k
  <2>5. k + 1 >= 1
    BY <2>2
  <2> QED BY <2>1, <2>3, <2>4, <2>5, PlaceEntered
<1>10. CASE EndsLoop(t)
  <2>1. /\ program' = program /\ call[t][1] = "all"
        /\ IF call[t][2] = "AbruptEnd" THEN Enter(t, <<"gone">>) ELSE Continue(t)
    BY <1>10 DEF EndsLoop, appVars
  <2>2. CASE call[t][2] = "AbruptEnd"
    <3>1. Enter(t, <<"gone">>)
      BY <2>1, <2>2
    <3> QED BY <2>1, <3>1, PlaceEntered
  <2>3. CASE call[t][2] # "AbruptEnd"
    <3>1. Continue(t) /\ program[pos[t]] # "meet"
      BY <1>0, <2>1, <2>3 DEF CallsAtPoint, IsMasterEvent
    <3> QED BY <2>1, <3>1, PlaceLeft
  <2> QED BY <2>2, <2>3
<1>11. CASE Synchronises(t)
  <2>1. Continue(t) /\ program' = program
    BY <1>11 DEF Synchronises
  <2>2. program[pos[t]] = "meet" => \A u \in Thread : pos[u] >= pos[t]
    BY <1>11 DEF Synchronises, Meets, Acquires, Releases, IsAt
  <2> QED BY <2>1, <2>2, PlaceLeft
<1>12. CASE OnThreadFini(t)
  BY <1>12 DEF OnThreadFini, PlacesFit, MeetingsHold, CallsAtPoint, IsMasterEvent, appVars
<1> QED BY <1>1, <1>2, <1>3, <1>4, <1>5, <1>6, <1>7, <1>8, <1>9, <1>10, <1>11, <1>12
        DEF Routine, OnThreadStart, AppendToDynamicTrace, OnThreadEvent
(***************************************************************************)
(* The records and the places.                                             *)
(***************************************************************************)
Marks(i) == Passed(i, {"barrier"}) + Passed(0, {"start", "end"}) + Extra(i)

LEMMA IndexIsThread ==
  ASSUME ThreadsFit, NEW i \in 0 .. Len(threadDataVec) - 1
  PROVE  i \in Thread /\ ThreadDataOf(i) \in Thread /\ Marks(i) \in Nat /\ 0 \in Thread
<1>1. Len(threadDataVec) \in 0 .. TotalThreads /\ TotalThreads \in Nat /\ 0 \in Thread
  BY VecIsShort, TracerAssumption DEF Thread
<1>2. i \in Thread
  BY <1>1 DEF Thread
<1>3. ThreadDataOf(i) \in Thread
  BY DifferentFiles
<1>4. Passed(i, {"barrier"}) \in Nat /\ Passed(0, {"start", "end"}) \in Nat
  BY <1>1, <1>2, PassedIsNumber
<1>5. Extra(i) \in Nat
  BY DEF Extra
<1> QED BY <1>1, <1>2, <1>3, <1>4, <1>5 DEF Marks

LEMMA RegionGoesOn ==
  ASSUME ThreadsFit, program' = program, NEW t \in Thread, NEW u \in Thread, InRegion(u),
         pos' = pos \/ (Continue(t) /\ (u = t => program[pos[t]] # "ce"))
  PROVE  InRegion(u)'
<1>1. pos \in [Thread -> 0 .. Len(program) + 1] /\ Len(program) \in Nat
  BY LenProperties DEF ThreadsFit
<1>2. PICK k \in 1 .. pos[u] - 1 :
        program[k] = "cs" /\ \A l \in k + 1 .. pos[u] - 1 : program[l] # "ce"
  BY DEF InRegion
<1>3. CASE pos'[u] = pos[u]
  BY <1>2, <1>3 DEF InRegion
<1>4. CASE pos'[u] # pos[u]
  <2>1. u = t /\ pos'[u] = pos[u] + 1 /\ program[pos[u]] # "ce" /\ pos[u] \in Int
    BY <1>1, <1>4 DEF Continue
  <2>2. k \in 1 .. pos'[u] - 1
    BY <2>1
  <2>3. \A l \in k + 1 .. pos'[u] - 1 : program[l] # "ce"
    <3> TAKE l \in k + 1 .. pos'[u] - 1
    <3>1. l = pos[u] \/ l \in k + 1 .. pos[u] - 1
      BY <2>1
    <3> QED BY <1>2, <2>1, <3>1
  <2> QED BY <1>2, <2>2, <2>3 DEF InRegion
<1> QED BY <1>3, <1>4

LEMMA RegionBegins ==
  ASSUME ThreadsFit, program' = program, NEW t \in Thread, Continue(t),
         pos[t] \in 1 .. Len(program), program[pos[t]] = "cs"
  PROVE  InRegion(t)'
<1>1. pos'[t] = pos[t] + 1 /\ pos[t] \in Int
  BY LenProperties DEF Continue, ThreadsFit
<1>2. pos[t] \in 1 .. pos'[t] - 1 /\ \A l \in pos[t] + 1 .. pos'[t] - 1 : FALSE
  BY <1>1
<1> QED BY <1>2 DEF InRegion

(***************************************************************************)
(* A thread that records a barrier is in no region, and when the master    *)
(* records one for all, a barrier of the program keeps the others out of   *)
(* their regions.                                                          *)
(***************************************************************************)
LEMMA NoRegionAtBarrier ==
  ASSUME ThreadsFit, PlacesFit, NEW t \in Thread, NEW j \in 1 .. Len(program), j <= pos[t],
         program[j] = "barrier"
  PROVE  \A k \in 1 .. j - 1 :
           program[k] = "cs" => \E l \in k + 1 .. pos[t] - 1 : program[l] = "ce"
<1>1. /\ IsTeamProgram(program) /\ DOMAIN program = 1 .. Len(program) /\ Len(program) \in Nat
      /\ pos[t] \in 0 .. Len(program) + 1
  BY TeamAssumption, LenProperties DEF PlacesFit, ThreadsFit
<1> SUFFICES ASSUME NEW k \in 1 .. j - 1, program[k] = "cs"
             PROVE  \E l \in k + 1 .. pos[t] - 1 : program[l] = "ce"
  OBVIOUS
<1>2. k \in 1 .. Len(program) /\ k < j
  BY <1>1
<1>3. PICK l \in k .. j : program[l] = "ce"
  BY <1>1, <1>2 DEF IsTeamProgram
<1>4. l # k /\ l # j
  BY <1>3
<1>5. l \in k + 1 .. pos[t] - 1
  BY <1>1, <1>2, <1>4
<1> QED BY <1>3, <1>5

LEMMA NoRegionAtEvent ==
  ASSUME ThreadsFit, PlacesFit, IsSeparated, NEW t \in Thread,
         pos[0] \in 1 .. Len(program), program[pos[0]] \in {"start", "end"}
  PROVE  ~InRegion(t)
<1>1. /\ IsTeamProgram(program) /\ DOMAIN program = 1 .. Len(program) /\ Len(program) \in Nat
      /\ pos[t] \in 0 .. Len(program) + 1 /\ 0 \in Thread
  BY TeamAssumption, TracerAssumption, LenProperties DEF PlacesFit, ThreadsFit, Thread
<1> SUFFICES ASSUME NEW k \in 1 .. pos[t] - 1, program[k] = "cs",
                    \A l \in k + 1 .. pos[t] - 1 : program[l] # "ce"
             PROVE  FALSE
  BY DEF InRegion
<1>2. k \in 1 .. Len(program)
  BY <1>1
<1>3. PICK m \in (k .. pos[0]) \cup (pos[0] .. k) : program[m] = "barrier"
  BY <1>1, <1>2 DEF IsSeparated
<1>4. m \in 1 .. Len(program) /\ m # k /\ m # pos[0]
  BY <1>1, <1>2, <1>3
<1>5. m + 1 \in 1 .. Len(program) /\ program[m + 1] = "meet"
  BY <1>1, <1>3, <1>4 DEF IsTeamProgram
<1>6. m + 1 # k /\ m + 1 # pos[0]
  BY <1>5
<1>7. \A u, v \in Thread : pos[u] > m + 1 => pos[v] >= m + 1
  BY <1>5 DEF PlacesFit, MeetingsHold
<1>8. CASE k < m /\ m < pos[0]
  <2>1. pos[0] > m + 1
    BY <1>1, <1>4, <1>6, <1>8
  <2>2. pos[t] >= m + 1
    BY <1>1, <1>7, <2>1
  <2>3. m <= pos[t] /\ k \in 1 .. m - 1
    BY <1>1, <1>2, <1>4, <1>8, <2>2
  <2> QED BY <1>3, <1>4, <2>3, NoRegionAtBarrier
<1>9. CASE pos[0] < m /\ m < k
  <2>1. pos[t] > m + 1
    BY <1>1, <1>2, <1>4, <1>6, <1>9
  <2>2. pos[0] >= m + 1
    BY <1>1, <1>7, <2>1
  <2> QED BY <1>1, <1>4, <1>9, <2>2
<1> QED BY <1>1, <1>2, <1>3, <1>4, <1>8, <1>9

(***************************************************************************)
(* Points that count for no file, and steps that leave the files as they   *)
(* are.                                                                    *)
(***************************************************************************)
LEMMA MarksStay ==
  ASSUME ThreadsFit, program' = program, threadDataVec' = threadDataVec, NEW t \in Thread,
         \/ pos' = pos
         \/ /\ Continue(t) /\ pos[t] \in 1 .. Len(program)
            /\ program[pos[t]] # "barrier" /\ (program[pos[t]] \in {"start", "end"} => t # 0),
         NEW i \in 0 .. Len(threadDataVec) - 1, Extra(i)' = Extra(i)
  PROVE  Marks(i)' = Marks(i)
<1>1. i \in Thread /\ 0 \in Thread
  BY IndexIsThread
<1>2. Passed(i, {"barrier"})' = Passed(i, {"barrier"})
  <2>1. CASE pos' = pos
    BY <2>1 DEF Passed
  <2>2. CASE Continue(t) /\ pos[t] \in 1 .. Len(program) /\ program[pos[t]] # "barrier"
    <3>1. Passed(t, {"barrier"})' = Passed(t, {"barrier"}) + 0
          /\ \A u \in Thread \ {t} : Passed(u, {"barrier"})' = Passed(u, {"barrier"})
      BY <2>2, PassedOn
    <3>2. Passed(t, {"barrier"}) \in Nat
      BY PassedIsNumber
    <3> QED BY <1>1, <3>1, <3>2
  <2> QED BY <2>1, <2>2
<1>3. Passed(0, {"start", "end"})' = Passed(0, {"start", "end"})
  <2>1. CASE pos' = pos
    BY <2>1 DEF Passed
  <2>2. CASE /\ Continue(t) /\ pos[t] \in 1 .. Len(program)
             /\ program[pos[t]] \in {"start", "end"} => t # 0
    <3>1. /\ Passed(t, {"start", "end"})' = Passed(t, {"start", "end"})
               + IF program[pos[t]] \in {"start", "end"} THEN 1 ELSE 0
          /\ \A u \in Thread \ {t} : Passed(u, {"start", "end"})' = Passed(u, {"start", "end"})
      BY <2>2, PassedOn
    <3>2. Passed(t, {"start", "end"}) \in Nat
      BY PassedIsNumber
    <3>3. CASE t = 0
      <4>1. program[pos[t]] \notin {"start", "end"}
        BY <2>2, <3>3
      <4>2. Passed(t, {"start", "end"})' = Passed(t, {"start", "end"}) + 0
        BY <3>1, <4>1
      <4> QED BY <3>2, <3>3, <4>2
    <3>4. CASE t # 0
      BY <1>1, <3>1, <3>4
    <3> QED BY <3>3, <3>4
  <2> QED BY <2>1, <2>2
<1> QED BY <1>2, <1>3 DEF Marks

LEMMA SameRecords ==
  ASSUME ThreadsFit, RecordsFit, program' = program, threadDataVec' = threadDataVec,
         \A u \in Thread : written'[u].dyn = written[u].dyn,
         \A u \in Thread : pos'[u] = 0 => pos[u] = 0,
         \A i \in 0 .. Len(threadDataVec) - 1 : Marks(i)' = Marks(i),
         \A i \in 0 .. Len(threadDataVec) - 1 : InRegion(i) => InRegion(i)'
  PROVE  RecordsFit'
<1>1. \A u \in Thread : pos'[u] = 0 => written'[u].dyn = <<>>
  BY DEF RecordsFit
<1>2. ASSUME NEW i \in 0 .. Len(threadDataVec) - 1 PROVE BarriersFit(i)' /\ RegionFits(i)'
  <2>1. ThreadDataOf(i) \in Thread /\ ThreadDataOf(i)' = ThreadDataOf(i)
    BY IndexIsThread DEF ThreadDataOf
  <2>2. FileOf(i)' = FileOf(i)
    BY <2>1 DEF FileOf
  <2>3. BarriersFit(i) /\ RegionFits(i)
    BY DEF RecordsFit
  <2>4. /\ BarriersFit(i) <=> Count(FileOf(i), BarrierSync) = Marks(i)
        /\ BarriersFit(i)' <=> Count(FileOf(i)', BarrierSync) = Marks(i)'
        /\ RegionFits(i) <=> (IsOpen(FileOf(i)) => InRegion(i))
        /\ RegionFits(i)' <=> (IsOpen(FileOf(i)') => InRegion(i)')
    BY DEF BarriersFit, Marks, RegionFits, BarrierSync, Count, IsOpen, CriticalStart, CriticalEnd
  <2> QED BY <2>2, <2>3, <2>4
<1>3. IsSeparated' => \A u \in Thread : HoldsNoBarrier(written'[u].dyn)
  BY DEF RecordsFit, IsSeparated
<1>4. \A u \in Thread : HoldsNoBarrier(written[u].dyn)' <=> HoldsNoBarrier(written'[u].dyn)
  BY DEF HoldsNoBarrier, BarrierSync, CriticalStart, CriticalEnd
<1> QED BY <1>1, <1>2, <1>3, <1>4 DEF RecordsFit

LEMMA QuietRecords ==
  ASSUME ThreadsFit, RecordsFit, program' = program, threadDataVec' = threadDataVec,
         \A u \in Thread : written'[u].dyn = written[u].dyn,
         \A i \in 0 .. Len(threadDataVec) - 1 : Extra(i)' = Extra(i),
         NEW t \in Thread,
         \/ pos' = pos
         \/ /\ Continue(t) /\ pos[t] \in 1 .. Len(program)
            /\ program[pos[t]] # "barrier" /\ (program[pos[t]] \in {"start", "end"} => t # 0)
            /\ program[pos[t]] = "ce" => ~(t < Len(threadDataVec))
  PROVE  RecordsFit'
<1>1. \A u \in Thread : pos'[u] = 0 => pos[u] = 0
  BY DEF Continue, ThreadsFit
<1>2. \A i \in 0 .. Len(threadDataVec) - 1 : Marks(i)' = Marks(i)
  BY MarksStay
<1>3. ASSUME NEW i \in 0 .. Len(threadDataVec) - 1, InRegion(i) PROVE InRegion(i)'
  <2>1. i < Len(threadDataVec) /\ i \in Thread
    BY IndexIsThread, LenProperties DEF ThreadsFit
  <2> QED BY <1>3, <2>1, RegionGoesOn
<1> QED BY <1>1, <1>2, <1>3, SameRecords
(***************************************************************************)
(* Steps that add a record to the file of index k.                         *)
(***************************************************************************)
LEMMA RecordIsAdded ==
  ASSUME ThreadsFit, FilesFit, RecordsFit, program' = program, threadDataVec' = threadDataVec,
         NEW k \in 0 .. Len(threadDataVec) - 1, NEW r \in DynamicRecord, NEW n,
         AddDynamicRecord(ThreadDataOf(k), r, n),
         \A u \in Thread : pos'[u] = 0 => pos[u] = 0,
         \A i \in 0 .. Len(threadDataVec) - 1 :
           Marks(i)' = Marks(i) + IF i = k /\ r = BarrierSync THEN 1 ELSE 0,
         \A i \in 0 .. Len(threadDataVec) - 1 :
           InRegion(i) /\ ~(i = k /\ r = CriticalEnd) => InRegion(i)',
         r = CriticalStart => InRegion(k)',
         r = BarrierSync /\ IsSeparated => ~InRegion(k)
  PROVE  RecordsFit'
<1> DEFINE f == ThreadDataOf(k)
           w == written[f].dyn
           v == written'[f].dyn
<1>1. f \in Thread /\ pos[f] > 0
  BY DifferentFiles
<1>2. /\ Len(w) \in Nat /\ DOMAIN v = 1 .. Len(w) + 1 /\ v[Len(w) + 1] = r
      /\ \A i \in 1 .. Len(w) : v[i] = w[i]
      /\ \A x \in Thread \ {f} : written'[x].dyn = written[x].dyn
  BY <1>1, DynamicAppend
<1>3. w \in Seq(DynamicRecord)
  BY <1>1 DEF FilesFit
<1>4. /\ Count(v, BarrierSync) = Count(w, BarrierSync) + IF r = BarrierSync THEN 1 ELSE 0
      /\ IsOpen(v) => r = CriticalStart \/ (IsOpen(w) /\ r # CriticalEnd)
      /\ HoldsNoBarrier(w) /\ (r = BarrierSync => ~IsOpen(w)) => HoldsNoBarrier(v)
  <2> HIDE DEF w, v, f
  <2> QED BY <1>2, <1>3, OneMoreRecord
<1>5. FileOf(k) = w /\ FileOf(k)' = v
  <2>1. ThreadDataOf(k)' = f
    BY DEF ThreadDataOf
  <2> QED BY <2>1 DEF FileOf
<1>6. ASSUME NEW i \in 0 .. Len(threadDataVec) - 1, i # k PROVE FileOf(i)' = FileOf(i)
  <2>1. ThreadDataOf(i) # f /\ ThreadDataOf(i) \in Thread
    BY <1>6, DifferentFiles
  <2>2. ThreadDataOf(i)' = ThreadDataOf(i)
    BY DEF ThreadDataOf
  <2> QED BY <1>2, <2>1, <2>2 DEF FileOf
<1> HIDE DEF w, v, f
<1>7. \A i \in 0 .. Len(threadDataVec) - 1 :
        /\ BarriersFit(i) <=> Count(FileOf(i), BarrierSync) = Marks(i)
        /\ BarriersFit(i)' <=> Count(FileOf(i)', BarrierSync) = Marks(i)'
        /\ RegionFits(i) <=> (IsOpen(FileOf(i)) => InRegion(i))
        /\ RegionFits(i)' <=> (IsOpen(FileOf(i)') => InRegion(i)')
  BY DEF BarriersFit, Marks, RegionFits, BarrierSync, Count, IsOpen, CriticalStart, CriticalEnd
<1>8. ASSUME NEW i \in 0 .. Len(threadDataVec) - 1 PROVE BarriersFit(i)' /\ RegionFits(i)'
  <2>1. BarriersFit(i) /\ RegionFits(i)
    BY DEF RecordsFit
  <2>2. CASE i = k
    <3>1. BarriersFit(i)'
      BY <1>4, <1>5, <1>7, <2>1, <2>2
    <3>2. RegionFits(i)'
      BY <1>4, <1>5, <1>7, <2>1, <2>2
    <3> QED BY <3>1, <3>2
  <2>3. CASE i # k
    <3>1. Marks(i)' = Marks(i) + 0 /\ Marks(i) \in Nat
      BY <2>3, IndexIsThread
    <3> QED BY <1>6, <1>7, <2>1, <2>3, <3>1
  <2> QED BY <2>2, <2>3
<1>9. ASSUME NEW u \in Thread, pos'[u] = 0 PROVE written'[u].dyn = <<>>
  <2>1. pos[u] = 0 /\ u # f
    BY <1>1, <1>9
  <2> QED BY <1>2, <2>1 DEF RecordsFit
<1>10. ASSUME IsSeparated', NEW u \in Thread PROVE HoldsNoBarrier(written'[u].dyn)
  <2>1. IsSeparated
    BY <1>10 DEF IsSeparated
  <2>2. HoldsNoBarrier(written[u].dyn)
    BY <2>1 DEF RecordsFit
  <2>3. CASE u = f
    <3>1. r = BarrierSync => ~IsOpen(w)
      BY <1>5, <1>7, <2>1 DEF RecordsFit
    <3>2. written[u].dyn = w /\ written'[u].dyn = v
      BY <2>3 DEF w, v
    <3> QED BY <1>4, <2>2, <3>1, <3>2
  <2>4. CASE u # f
    BY <1>2, <2>2, <2>4
  <2> QED BY <2>3, <2>4
<1>11. \A u \in Thread : HoldsNoBarrier(written[u].dyn)' <=> HoldsNoBarrier(written'[u].dyn)
  BY DEF HoldsNoBarrier, BarrierSync, CriticalStart, CriticalEnd
<1> QED BY <1>8, <1>9, <1>10, <1>11 DEF RecordsFit

(***************************************************************************)
(* A thread that registers finds its file empty, and nobody has come to an *)
(* event of the team.                                                      *)
(***************************************************************************)
LEMMA RegisteredRecords ==
  ASSUME ThreadsFit, PlacesFit, RecordsFit, NEW t \in Thread, RegistersThread(t)
  PROVE  RecordsFit'
<1>1. /\ threadDataVec' = Append(threadDataVec, t) /\ Continue(t) /\ program' = program
      /\ written' = written /\ call[t] = <<"start">> /\ pos[t] = 0
  BY DEF RegistersThread, appVars, ThreadsFit, CallFits
<1> DEFINE n == Len(threadDataVec)
<1>2. /\ n \in 0 .. TotalThreads /\ TotalThreads \in Nat /\ threadDataVec \in Seq(Thread)
      /\ 0 \in Thread
  BY VecIsShort, TracerAssumption DEF ThreadsFit, Thread
<1>3. /\ Len(threadDataVec') = n + 1 /\ threadDataVec'[n + 1] = t
      /\ \A i \in 1 .. n : threadDataVec'[i] = threadDataVec[i]
  BY <1>1, <1>2, AppendProperties
<1>4. n # TotalThreads
  <2> SUFFICES ASSUME n = TotalThreads PROVE FALSE
    OBVIOUS
  <2>1. TotalThreads \in {1, 2, 3}
    BY TracerAssumption
  <2>2. \A i, j \in 1 .. n : threadDataVec[i] = threadDataVec[j] => i = j
    BY DEF ThreadsFit
  <2>3. \A i \in 1 .. n : threadDataVec[i] \in 0 .. TotalThreads - 1 /\ threadDataVec[i] # t
    <3>1. \A i \in 1 .. n : threadDataVec[i] \in Thread
      BY <1>2, ElementOfSeq
    <3>2. ~IsRegistered(t)
      BY <1>1 DEF ThreadsFit
    <3> QED BY <3>1, <3>2 DEF IsRegistered, Thread
  <2>4. t \in 0 .. TotalThreads - 1
    BY DEF Thread
  <2> DEFINE a == threadDataVec[1]
             b == threadDataVec[2]
             c == threadDataVec[3]
  <2>5. CASE TotalThreads = 1
    <3>1. 1 \in 1 .. n
      BY <2>5
    <3> QED BY <2>3, <2>4, <2>5, <3>1
  <2>6. CASE TotalThreads = 2
    <3>1. 1 \in 1 .. n /\ 2 \in 1 .. n
      BY <2>6
    <3>2. a \in 0 .. 1 /\ b \in 0 .. 1 /\ t \in 0 .. 1 /\ a # t /\ b # t /\ a # b
      BY <2>2, <2>3, <2>4, <2>6, <3>1
    <3> HIDE DEF a, b
    <3> QED BY <3>2
  <2>7. CASE TotalThreads = 3
    <3>1. 1 \in 1 .. n /\ 2 \in 1 .. n /\ 3 \in 1 .. n
      BY <2>7
    <3>2. /\ a \in 0 .. 2 /\ b \in 0 .. 2 /\ c \in 0 .. 2 /\ t \in 0 .. 2
          /\ a # t /\ b # t /\ c # t /\ a # b /\ a # c /\ b # c
      BY <2>2, <2>3, <2>4, <2>7, <3>1
    <3> HIDE DEF a, b, c
    <3> QED BY <3>2
  <2> QED BY <2>1, <2>5, <2>6, <2>7
<1>5. \A i \in Thread : Passed(i, {"barrier"}) = 0 /\ Passed(i, {"start", "end"}) = 0
  <2>1. {"barrier"} \in SUBSET TeamEvents /\ {"start", "end"} \in SUBSET TeamEvents
    BY DEF TeamEvents
  <2> QED BY <1>4, <2>1, NothingPassed
<1>6. \A i \in Thread : Passed(i, {"barrier"})' = 0 /\ Passed(i, {"start", "end"})' = 0
  <2> TAKE i \in Thread
  <2>1. CASE i = t
    <3>1. pos'[i] - 1 = 0
      BY <1>1, <2>1 DEF Continue, ThreadsFit
    <3>2. \A j \in 1 .. pos'[i] - 1 : FALSE
      BY <3>1
    <3>3. /\ {j \in 1 .. pos'[i] - 1 : program'[j] \in {"barrier"}} = {}
          /\ {j \in 1 .. pos'[i] - 1 : program'[j] \in {"start", "end"}} = {}
      BY <3>2
    <3>4. Cardinality({}) = 0
      BY FS_EmptySet
    <3> QED BY <3>3, <3>4 DEF Passed
  <2>2. CASE i # t
    <3>1. pos'[i] = pos[i]
      BY <1>1, <2>2 DEF Continue, ThreadsFit
    <3>2. /\ Passed(i, {"barrier"})' = Passed(i, {"barrier"})
          /\ Passed(i, {"start", "end"})' = Passed(i, {"start", "end"})
      BY <1>1, <3>1 DEF Passed
    <3> QED BY <1>5, <3>2
  <2> QED BY <2>1, <2>2
<1>7. \A i : Extra(i)' = 0
  <2>1. call[0][1] = "all" => call[0][2] # "BarrierSync"
    <3> SUFFICES ASSUME call[0][1] = "all", call[0][2] = "BarrierSync" PROVE FALSE
      OBVIOUS
    <3>1. IsMasterEvent(program[pos[0]])
      BY <1>2 DEF PlacesFit, CallsAtPoint
    <3>2. pos[0] \in 1 .. Len(program)
      BY <1>2, StartedThread
    <3>3. pos[0] <= pos[0] /\ program[pos[0]] \in TeamEvents
      BY <3>1, <3>2 DEF IsMasterEvent, TeamEvents
    <3> QED BY <1>2, <1>4, <3>2, <3>3, TeamIsComplete
  <2>2. call' = [call EXCEPT ![t] = Idle] /\ call \in [Thread -> Calls]
    BY <1>1 DEF Continue, ThreadsFit
  <2>3. call'[0][1] = "all" => call'[0][2] # "BarrierSync"
    BY <1>2, <2>1, <2>2 DEF Idle
  <2> QED BY <2>3 DEF Extra
<1>8. ASSUME NEW u \in Thread, pos'[u] = 0 PROVE written'[u].dyn = <<>>
  <2>1. pos[u] = 0
    BY <1>1, <1>8 DEF Continue, ThreadsFit
  <2> QED BY <1>1, <2>1 DEF RecordsFit
<1>9. ASSUME NEW i \in 0 .. n PROVE BarriersFit(i)' /\ RegionFits(i)'
  <2>1. i \in Thread
    BY <1>2, <1>4 DEF Thread
  <2>2. CASE i = n
    <3>1. ThreadDataOf(i)' = t
      BY <1>3, <2>2 DEF ThreadDataOf
    <3>2. FileOf(i)' = <<>>
      BY <1>1, <3>1 DEF FileOf, RecordsFit
    <3>3. Count(<<>>, BarrierSync) = 0 /\ ~IsOpen(<<>>)
      <4>1. {j \in DOMAIN <<>> : <<>>[j] = BarrierSync} = {}
        OBVIOUS
      <4> QED BY <4>1, FS_EmptySet DEF Count, IsOpen
    <3>4. BarriersFit(i)' <=> Count(<<>>, BarrierSync) = 0
      BY <1>2, <1>6, <1>7, <2>1, <3>2 DEF BarriersFit, BarrierSync, Count
    <3>5. RegionFits(i)' <=> (IsOpen(<<>>) => InRegion(i)')
      BY <3>2 DEF RegionFits, IsOpen, CriticalStart, CriticalEnd
    <3> QED BY <3>3, <3>4, <3>5
  <2>3. CASE i # n
    <3>1. i \in 0 .. n - 1 /\ i + 1 \in 1 .. n
      BY <1>2, <2>3
    <3>2. ThreadDataOf(i)' = ThreadDataOf(i)
      BY <1>3, <3>1 DEF ThreadDataOf
    <3>3. FileOf(i)' = FileOf(i)
      BY <1>1, <3>2 DEF FileOf
    <3>4. BarriersFit(i) /\ RegionFits(i)
      BY <3>1 DEF RecordsFit
    <3>5. Marks(i) \in Nat /\ Extra(i) \in Nat
      BY <3>1, IndexIsThread DEF Extra
    <3>6. Extra(i) = 0
      BY <1>1, <1>7 DEF Extra, Continue, ThreadsFit, Idle
    <3>7. BarriersFit(i)'
      BY <1>2, <1>5, <1>6, <1>7, <2>1, <3>3, <3>4, <3>6 DEF BarriersFit, BarrierSync, Count
    <3>8. InRegion(i) => InRegion(i)'
      <4>1. CASE i = t
        BY <1>1, <4>1 DEF InRegion
      <4>2. CASE i # t
        BY <1>1, <2>1, <4>2, RegionGoesOn
      <4> QED BY <4>1, <4>2
    <3>9. RegionFits(i)'
      BY <3>3, <3>4, <3>8 DEF RegionFits, IsOpen, CriticalStart, CriticalEnd
    <3> QED BY <3>7, <3>9
  <2> QED BY <2>2, <2>3
<1>10. IsSeparated' => \A u \in Thread : HoldsNoBarrier(written[u].dyn)'
  BY <1>1 DEF RecordsFit, IsSeparated, HoldsNoBarrier, BarrierSync, CriticalStart, CriticalEnd
<1>11. Len(threadDataVec') - 1 = n
  BY <1>2, <1>3
<1> QED BY <1>8, <1>9, <1>10, <1>11 DEF RecordsFit
(***************************************************************************)
(* What a routine adds to the records.                                     *)
(***************************************************************************)
IsAddingBarrier(c) == c[1] = "all" /\ c[2] = "BarrierSync"

LEMMA ExtraStays ==
  ASSUME ThreadsFit, NEW t \in Thread, NEW c, call' = [call EXCEPT ![t] = c],
         ~IsAddingBarrier(call[t]), ~IsAddingBarrier(c), NEW i
  PROVE  Extra(i)' = Extra(i)
<1>1. call \in [Thread -> Calls] /\ 0 \in Thread
  BY TracerAssumption DEF ThreadsFit, Thread
<1>2. CASE t = 0
  BY <1>1, <1>2 DEF Extra, IsAddingBarrier
<1>3. CASE t # 0
  <2>1. call'[0] = call[0]
    BY <1>1, <1>3
  <2> QED BY <2>1 DEF Extra
<1> QED BY <1>2, <1>3

LEMMA QuietEnter ==
  ASSUME ThreadsFit, RecordsFit, program' = program, threadDataVec' = threadDataVec,
         \A u \in Thread : written'[u].dyn = written[u].dyn,
         NEW t \in Thread, NEW c, Enter(t, c), ~IsAddingBarrier(call[t]), ~IsAddingBarrier(c)
  PROVE  RecordsFit'
<1>1. call' = [call EXCEPT ![t] = c] /\ pos' = pos
  BY DEF Enter
<1>2. \A i \in 0 .. Len(threadDataVec) - 1 : Extra(i)' = Extra(i)
  BY <1>1, ExtraStays
<1> QED BY <1>1, <1>2, QuietRecords

LEMMA QuietContinue ==
  ASSUME ThreadsFit, RecordsFit, program' = program, threadDataVec' = threadDataVec,
         \A u \in Thread : written'[u].dyn = written[u].dyn,
         NEW t \in Thread, Continue(t), ~IsAddingBarrier(call[t]),
         pos[t] \in 1 .. Len(program),
         program[pos[t]] # "barrier", program[pos[t]] \in {"start", "end"} => t # 0,
         program[pos[t]] = "ce" => ~(t < Len(threadDataVec))
  PROVE  RecordsFit'
<1>1. call' = [call EXCEPT ![t] = Idle] /\ ~IsAddingBarrier(Idle)
  BY DEF Continue, Idle, IsAddingBarrier
<1>2. \A i \in 0 .. Len(threadDataVec) - 1 : Extra(i)' = Extra(i)
  BY <1>1, ExtraStays
<1> QED BY <1>2, QuietRecords

LEMMA QuietBlock ==
  ASSUME ThreadsFit, RecordsFit, program' = program, threadDataVec' = threadDataVec,
         \A u \in Thread : written'[u].dyn = written[u].dyn,
         NEW t \in Thread, NEW b, NEW rest, LeaveRoutine(t, b, rest),
         ~IsAddingBarrier(call[t]),
         pos[t] \in 1 .. Len(program), program[pos[t]] = "block"
  PROVE  RecordsFit'
<1>1. CASE rest = {}
  <2>1. Continue(t)
    BY <1>1 DEF LeaveRoutine
  <2> QED BY <2>1, QuietContinue
<1>2. CASE rest # {}
  <2>1. Enter(t, <<"rest", b, rest>>) /\ ~IsAddingBarrier(<<"rest", b, rest>>)
    BY <1>2 DEF LeaveRoutine, IsAddingBarrier
  <2> QED BY <2>1, QuietEnter
<1> QED BY <1>1, <1>2

(***************************************************************************)
(* An event that the analysis routine leaves out counts for no file: all   *)
(* threads are created at an event of the team.                            *)
(***************************************************************************)
LEMMA EventIsReached ==
  ASSUME ThreadsFit, PlacesFit, RecordsFit, NEW t \in Thread, ReachesEvent(t)
  PROVE  RecordsFit'
<1>1. PICK p \in DOMAIN EventAt :
        /\ IsAt(t, p)
        /\ IF WasThreadCreated(t) /\ (IsMasterEvent(p) => t = 0)
             THEN Enter(t, <<"event", p>>) ELSE Continue(t)
  BY DEF ReachesEvent
<1>2. /\ program' = program /\ threadDataVec' = threadDataVec /\ written' = written
      /\ program[pos[t]] = p /\ call[t] = Idle /\ pos[t] \in DOMAIN program
  BY <1>1 DEF ReachesEvent, appVars, IsAt
<1>3. ~IsAddingBarrier(call[t]) /\ pos[t] \in 1 .. Len(program)
  BY <1>2, StartedThread DEF Idle, IsAddingBarrier
<1>4. CASE WasThreadCreated(t) /\ (IsMasterEvent(p) => t = 0)
  <2>1. Enter(t, <<"event", p>>) /\ ~IsAddingBarrier(<<"event", p>>)
    BY <1>1, <1>4 DEF IsAddingBarrier
  <2> QED BY <1>2, <1>3, <2>1, QuietEnter
<1>5. CASE ~(WasThreadCreated(t) /\ (IsMasterEvent(p) => t = 0))
  <2>1. Continue(t)
    BY <1>1, <1>5
  <2>2. p \in TeamEvents => WasThreadCreated(t)
    <3>1. pos[t] <= pos[t]
      BY <1>3, LenProperties DEF ThreadsFit
    <3> QED BY <1>2, <1>3, <3>1, TeamIsComplete
  <2>3. p # "barrier" /\ (p \in {"start", "end"} => t # 0)
    BY <1>5, <2>2 DEF TeamEvents, IsMasterEvent
  <2>4. p = "ce" => ~(t < Len(threadDataVec))
    <3>1. t \in Nat /\ Len(threadDataVec) \in Nat
      BY LenProperties DEF ThreadsFit, Thread
    <3>2. p = "ce" => Len(threadDataVec) = t
      BY <1>5, <3>1 DEF WasThreadCreated, IsMasterEvent
    <3> QED BY <3>1, <3>2
  <2> QED BY <1>2, <1>3, <2>1, <2>3, <2>4, QuietContinue
<1> QED BY <1>4, <1>5
LEMMA BlockIsRecorded ==
  ASSUME ThreadsFit, FilesFit, PlacesFit, RecordsFit, NEW t \in Thread, AppendsBlock(t)
  PROVE  RecordsFit'
<1> DEFINE b == call[t][2]
           r == <<"block", b>>
<1>1. /\ call[t][1] = "block" /\ program' = program /\ threadDataVec' = threadDataVec
      /\ AddDynamicRecord(ThreadDataOf(t), r, BlockSize[b])
      /\ LeaveRoutine(t, b, call[t][3])
  BY DEF AppendsBlock, appVars
<1>2. /\ b \in Block /\ pos[t] \in 1 .. Len(program) /\ program[pos[t]] = "block"
      /\ t \in 0 .. Len(threadDataVec) - 1 /\ ~IsAddingBarrier(call[t])
  <2>1. call[t] \in Calls /\ CallFits(t) /\ CallsAtPoint(t)
    BY DEF ThreadsFit, PlacesFit
  <2>2. b \in Block
    BY <1>1, <2>1, CallShapes
  <2>3. t \in Nat /\ Len(threadDataVec) \in Nat /\ t < Len(threadDataVec)
    BY <1>1, <2>1, LenProperties DEF Thread, CallFits, ThreadsFit
  <2> QED BY <1>1, <2>1, <2>2, <2>3 DEF CallFits, CallsAtPoint, IsAddingBarrier
<1>3. r \in DynamicRecord /\ r # BarrierSync /\ r # CriticalStart /\ r # CriticalEnd
  <2>1. r \in {"block"} \X Block
    BY <1>2
  <2> QED BY <2>1 DEF DynamicRecord, BarrierSync, CriticalStart, CriticalEnd
<1> HIDE DEF r
<1>4. /\ pos' = pos \/ Continue(t)
      /\ \E c : call' = [call EXCEPT ![t] = c] /\ ~IsAddingBarrier(c)
  <2> DEFINE c == <<"rest", b, call[t][3]>>
  <2>1. CASE call[t][3] = {}
    BY <1>1, <2>1 DEF LeaveRoutine, Continue, Idle, IsAddingBarrier
  <2>2. CASE call[t][3] # {}
    <3>1. Enter(t, c) /\ ~IsAddingBarrier(c)
      BY <1>1, <2>2 DEF LeaveRoutine, IsAddingBarrier
    <3> HIDE DEF c
    <3> QED BY <3>1 DEF Enter
  <2> QED BY <2>1, <2>2
<1>5. \A i : Extra(i)' = Extra(i)
  BY <1>2, <1>4, ExtraStays
<1>6. \A i \in 0 .. Len(threadDataVec) - 1 :
        Marks(i)' = Marks(i) + IF i = t /\ r = BarrierSync THEN 1 ELSE 0
  <2> TAKE i \in 0 .. Len(threadDataVec) - 1
  <2>1. Marks(i)' = Marks(i) /\ Marks(i) \in Nat
    BY <1>1, <1>2, <1>4, <1>5, MarksStay, IndexIsThread
  <2> QED BY <1>3, <2>1
<1>7. \A i \in 0 .. Len(threadDataVec) - 1 :
        InRegion(i) /\ ~(i = t /\ r = CriticalEnd) => InRegion(i)'
  BY <1>1, <1>2, <1>4, IndexIsThread, RegionGoesOn
<1>8. \A u \in Thread : pos'[u] = 0 => pos[u] = 0
  BY <1>4 DEF Continue, ThreadsFit
<1> QED BY <1>1, <1>2, <1>3, <1>6, <1>7, <1>8, RecordIsAdded

LEMMA OwnEventIsRecorded ==
  ASSUME ThreadsFit, FilesFit, PlacesFit, RecordsFit, NEW t \in Thread, AddsOwnEvent(t)
  PROVE  RecordsFit'
<1> DEFINE p == call[t][2]
           r == <<"event", EventAt[p]>>
<1>1. /\ call[t][1] = "event" /\ program' = program /\ threadDataVec' = threadDataVec
      /\ AddDynamicRecord(ThreadDataOf(t), r, 0)
      /\ IF IsMasterEvent(p) THEN Enter(t, <<"all", EventAt[p], 1>>) ELSE Continue(t)
  BY DEF AddsOwnEvent, appVars
<1>2. /\ p \in DOMAIN EventAt /\ pos[t] \in 1 .. Len(program) /\ program[pos[t]] = p
      /\ IsMasterEvent(p) => t = 0
      /\ t \in 0 .. Len(threadDataVec) - 1 /\ ~IsAddingBarrier(call[t])
  <2>1. call[t] \in Calls /\ CallFits(t) /\ CallsAtPoint(t)
    BY DEF ThreadsFit, PlacesFit
  <2>2. p \in DOMAIN EventAt
    BY <1>1, <2>1, CallShapes
  <2>3. t \in Nat /\ Len(threadDataVec) \in Nat /\ t < Len(threadDataVec)
    BY <1>1, <2>1, LenProperties DEF Thread, CallFits, ThreadsFit
  <2> QED BY <1>1, <2>1, <2>2, <2>3 DEF CallFits, CallsAtPoint, IsAddingBarrier
<1>3. r \in DynamicRecord
  <2>1. EventAt[p] \in Events
    BY <1>2, EventsAt DEF Events
  <2>2. r \in {"event"} \X Events
    BY <2>1
  <2> QED BY <2>2 DEF DynamicRecord
<1>4. \A u \in Thread : pos'[u] = 0 => pos[u] = 0
  BY <1>1 DEF Continue, Enter, ThreadsFit
<1>5. p \in {"start", "end", "barrier", "cs", "ce"}
  BY <1>2 DEF EventAt
<1>6. \A i \in 0 .. Len(threadDataVec) - 1 :
        i \in Thread /\ Marks(i) \in Nat /\ Passed(i, {"barrier"}) \in Nat
          /\ Passed(0, {"start", "end"}) \in Nat /\ Extra(i) \in {0, 1}
  BY IndexIsThread, PassedIsNumber DEF Extra
<1>7. CASE IsMasterEvent(p)
  <2>1. /\ r = BarrierSync /\ EventAt[p] = "BarrierSync" /\ t = 0
        /\ program[pos[0]] \in {"start", "end"}
    BY <1>2, <1>7 DEF IsMasterEvent, EventAt, BarrierSync
  <2>2. Enter(0, <<"all", "BarrierSync", 1>>) /\ call \in [Thread -> Calls]
    BY <1>1, <1>7, <2>1 DEF ThreadsFit
  <2>3. pos' = pos /\ call'[0] = <<"all", "BarrierSync", 1>>
    BY <2>1, <2>2 DEF Enter
  <2>4. ASSUME NEW i \in 0 .. Len(threadDataVec) - 1
        PROVE  Marks(i)' = Marks(i) + IF i = t /\ r = BarrierSync THEN 1 ELSE 0
    <3>1. Extra(i) = 0
      BY <1>1, <2>1 DEF Extra
    <3>2. Extra(i)' = IF i < 1 THEN 1 ELSE 0
      BY <2>3 DEF Extra
    <3>3. Passed(i, {"barrier"})' = Passed(i, {"barrier"})
          /\ Passed(0, {"start", "end"})' = Passed(0, {"start", "end"})
      BY <1>1, <2>3 DEF Passed
    <3>4. Marks(i)' = Passed(i, {"barrier"}) + Passed(0, {"start", "end"}) + IF i < 1 THEN 1 ELSE 0
      BY <3>2, <3>3 DEF Marks
    <3>5. Marks(i) = Passed(i, {"barrier"}) + Passed(0, {"start", "end"}) + 0
      BY <3>1 DEF Marks
    <3>6. i < 1 <=> i = 0
      BY <1>2
    <3> QED BY <1>6, <2>1, <3>4, <3>5, <3>6
  <2>5. \A i \in 0 .. Len(threadDataVec) - 1 :
          InRegion(i) /\ ~(i = t /\ r = CriticalEnd) => InRegion(i)'
    BY <1>1, <1>6, <2>3, RegionGoesOn
  <2>6. IsSeparated => ~InRegion(t)
    BY <1>2, <2>1, NoRegionAtEvent
  <2>7. r # CriticalStart
    BY <2>1 DEF BarrierSync, CriticalStart
  <2> HIDE DEF r
  <2> QED BY <1>1, <1>2, <1>3, <1>4, <2>4, <2>5, <2>6, <2>7, RecordIsAdded
<1>8. CASE ~IsMasterEvent(p)
  <2>1. Continue(t) /\ p \in {"barrier", "cs", "ce"}
    BY <1>1, <1>5, <1>8 DEF IsMasterEvent
  <2>2. \A i : Extra(i)' = Extra(i)
    <3>1. call' = [call EXCEPT ![t] = Idle] /\ ~IsAddingBarrier(Idle)
      BY <2>1 DEF Continue, Idle, IsAddingBarrier
    <3> QED BY <1>2, <3>1, ExtraStays
  <2>3. r = BarrierSync <=> p = "barrier"
    BY <2>1 DEF BarrierSync, EventAt
  <2>4. r = CriticalStart <=> p = "cs"
    BY <2>1 DEF CriticalStart, EventAt
  <2>5. r = CriticalEnd <=> p = "ce"
    BY <2>1 DEF CriticalEnd, EventAt
  <2> HIDE DEF r
  <2>6. ASSUME NEW i \in 0 .. Len(threadDataVec) - 1
        PROVE  Marks(i)' = Marks(i) + IF i = t /\ r = BarrierSync THEN 1 ELSE 0
    <3>1. CASE p = "barrier"
      <4>1. /\ Passed(t, {"barrier"})' = Passed(t, {"barrier"})
                 + IF program[pos[t]] \in {"barrier"} THEN 1 ELSE 0
            /\ \A u \in Thread \ {t} : Passed(u, {"barrier"})' = Passed(u, {"barrier"})
        BY <1>1, <1>2, <2>1, PassedOn
      <4>2. /\ Passed(t, {"start", "end"})' = Passed(t, {"start", "end"})
                 + IF program[pos[t]] \in {"start", "end"} THEN 1 ELSE 0
            /\ \A u \in Thread \ {t} : Passed(u, {"start", "end"})' = Passed(u, {"start", "end"})
        BY <1>1, <1>2, <2>1, PassedOn
      <4>3. Passed(i, {"barrier"})' = Passed(i, {"barrier"}) + IF i = t THEN 1 ELSE 0
        BY <1>2, <1>6, <3>1, <4>1
      <4>4. Passed(0, {"start", "end"})' = Passed(0, {"start", "end"})
        <5>1. Passed(t, {"start", "end"})' = Passed(t, {"start", "end"}) + 0
          BY <1>2, <3>1, <4>2
        <5>2. 0 \in Thread /\ Passed(t, {"start", "end"}) \in Nat
          BY IndexIsThread, PassedIsNumber
        <5> QED BY <4>2, <5>1, <5>2
      <4>5. Marks(i)' = Passed(i, {"barrier"}) + (IF i = t THEN 1 ELSE 0)
                          + Passed(0, {"start", "end"}) + Extra(i)
        BY <2>2, <4>3, <4>4 DEF Marks
      <4>6. Marks(i) = Passed(i, {"barrier"}) + Passed(0, {"start", "end"}) + Extra(i)
        BY DEF Marks
      <4>7. /\ Passed(i, {"barrier"}) \in Int /\ Passed(0, {"start", "end"}) \in Int
            /\ Extra(i) \in Int
        BY <1>6
      <4>8. Marks(i)' = Marks(i) + IF i = t THEN 1 ELSE 0
        BY <4>5, <4>6, <4>7
      <4> QED BY <2>3, <3>1, <4>8
    <3>2. CASE p # "barrier"
      <4>1. Marks(i)' = Marks(i) + 0
        <5>1. program[pos[t]] # "barrier" /\ program[pos[t]] \notin {"start", "end"}
          BY <1>2, <2>1, <3>2
        <5>2. Marks(i)' = Marks(i)
          BY <1>1, <1>2, <2>1, <2>2, <5>1, MarksStay
        <5> QED BY <1>6, <5>2
      <4> QED BY <2>3, <3>2, <4>1
    <3> QED BY <3>1, <3>2
  <2>7. \A i \in 0 .. Len(threadDataVec) - 1 :
          InRegion(i) /\ ~(i = t /\ r = CriticalEnd) => InRegion(i)'
    BY <1>1, <1>2, <1>6, <2>1, <2>5, RegionGoesOn
  <2>8. r = CriticalStart => InRegion(t)'
    BY <1>1, <1>2, <2>1, <2>4, RegionBegins
  <2>9. r = BarrierSync => ~InRegion(t)
    <3> SUFFICES ASSUME p = "barrier", InRegion(t) PROVE FALSE
      BY <2>3
    <3>1. \A k \in 1 .. pos[t] - 1 :
            program[k] = "cs" => \E l \in k + 1 .. pos[t] - 1 : program[l] = "ce"
      <4>1. pos[t] <= pos[t]
        BY <1>2, LenProperties DEF ThreadsFit
      <4> QED BY <1>2, <4>1, NoRegionAtBarrier
    <3> QED BY <3>1 DEF InRegion
  <2> QED BY <1>1, <1>2, <1>3, <1>4, <2>6, <2>7, <2>8, <2>9, RecordIsAdded
<1> QED BY <1>7, <1>8
LEMMA EventIsAddedToNext ==
  ASSUME ThreadsFit, FilesFit, PlacesFit, RecordsFit, NEW t \in Thread, AddsEventToNext(t)
  PROVE  RecordsFit'
<1> DEFINE e == call[t][2]
           k == call[t][3]
           r == <<"event", e>>
           c == <<"all", e, k + 1>>
<1>1. /\ call[t][1] = "all" /\ k < Len(threadDataVec)
      /\ program' = program /\ threadDataVec' = threadDataVec
      /\ AddDynamicRecord(ThreadDataOf(k), r, 0) /\ Enter(t, c)
  BY DEF AddsEventToNext, IsInVec, appVars
<1>2. /\ e \in Events /\ k \in 0 .. Len(threadDataVec) - 1
      /\ e # "AbruptEnd" =>
           t = 0 /\ e = "BarrierSync" /\ IsMasterEvent(program[pos[t]]) /\ k >= 1
  <2>1. call[t] \in Calls /\ CallsAtPoint(t) /\ Len(threadDataVec) \in Nat
    BY LenProperties DEF ThreadsFit, PlacesFit
  <2>2. e \in Events /\ k \in Nat
    BY <1>1, <2>1, CallShapes
  <2> QED BY <1>1, <2>1, <2>2 DEF CallsAtPoint
<1>3. pos' = pos /\ call' = [call EXCEPT ![t] = c] /\ call \in [Thread -> Calls]
  BY <1>1 DEF Enter, ThreadsFit
<1>4. r \in DynamicRecord
  <2>1. r \in {"event"} \X Events
    BY <1>2
  <2> QED BY <2>1 DEF DynamicRecord
<1>5. /\ c[1] = "all" /\ c[2] = e /\ c[3] = k + 1
      /\ r = BarrierSync <=> e = "BarrierSync"
      /\ r = CriticalStart <=> e = "CriticalStart"
      /\ r = CriticalEnd <=> e = "CriticalEnd"
  BY DEF BarrierSync, CriticalStart, CriticalEnd
<1> HIDE DEF r, c
<1>6. \A i \in 0 .. Len(threadDataVec) - 1 :
        i \in Thread /\ Marks(i) \in Nat /\ (InRegion(i) => InRegion(i)')
  BY <1>1, <1>3, IndexIsThread, RegionGoesOn
<1>7. CASE e = "AbruptEnd"
  <2>1. ~IsAddingBarrier(call[t]) /\ ~IsAddingBarrier(c)
    BY <1>5, <1>7 DEF IsAddingBarrier
  <2>2. \A i : Extra(i)' = Extra(i)
    BY <1>3, <2>1, ExtraStays
  <2>3. ASSUME NEW i \in 0 .. Len(threadDataVec) - 1
        PROVE  Marks(i)' = Marks(i) + IF i = k /\ r = BarrierSync THEN 1 ELSE 0
    <3>1. Marks(i)' = Marks(i)
      BY <1>1, <1>3, <2>2, MarksStay
    <3>2. Marks(i)' = Marks(i) + 0
      BY <1>6, <3>1
    <3> QED BY <1>5, <1>7, <3>2
  <2> HIDE DEF e, k
  <2> QED BY <1>1, <1>2, <1>3, <1>4, <1>5, <1>6, <1>7, <2>3, RecordIsAdded
<1>8. CASE e # "AbruptEnd"
  <2>1. t = 0 /\ e = "BarrierSync" /\ IsMasterEvent(program[pos[0]]) /\ 0 \in Thread
    BY <1>2, <1>8
  <2>2. call'[0] = c /\ call[0][1] = "all" /\ call[0][2] = "BarrierSync" /\ call[0][3] = k
    BY <1>1, <1>3, <2>1
  <2>3. pos[0] \in 1 .. Len(program) /\ program[pos[0]] \in {"start", "end"}
    BY <2>1, <2>2, StartedThread DEF IsMasterEvent
  <2>4. ASSUME NEW i \in 0 .. Len(threadDataVec) - 1
        PROVE  Marks(i)' = Marks(i) + IF i = k /\ r = BarrierSync THEN 1 ELSE 0
    <3>1. Extra(i) = IF i < k THEN 1 ELSE 0
      BY <2>2 DEF Extra
    <3>2. Extra(i)' = IF i < k + 1 THEN 1 ELSE 0
      BY <1>5, <2>1, <2>2 DEF Extra
    <3>3. Extra(i)' = Extra(i) + IF i = k THEN 1 ELSE 0
      <4> HIDE DEF k
      <4> QED BY <1>2, <3>1, <3>2
    <3>4. Passed(i, {"barrier"})' = Passed(i, {"barrier"})
          /\ Passed(0, {"start", "end"})' = Passed(0, {"start", "end"})
      BY <1>1, <1>3 DEF Passed
    <3>5. Marks(i)' = Passed(i, {"barrier"}) + Passed(0, {"start", "end"})
                        + (Extra(i) + IF i = k THEN 1 ELSE 0)
      BY <3>3, <3>4 DEF Marks
    <3>6. Marks(i) = Passed(i, {"barrier"}) + Passed(0, {"start", "end"}) + Extra(i)
      BY DEF Marks
    <3>7. Passed(i, {"barrier"}) \in Int /\ Passed(0, {"start", "end"}) \in Int /\ Extra(i) \in Int
      <4>1. Passed(i, {"barrier"}) \in Nat /\ Passed(0, {"start", "end"}) \in Nat
        BY <1>6, <2>1, PassedIsNumber
      <4>2. Extra(i) \in Nat
        BY <3>1
      <4> QED BY <4>1, <4>2
    <3>8. Marks(i)' = Marks(i) + IF i = k THEN 1 ELSE 0
      <4> HIDE DEF k
      <4> QED BY <3>5, <3>6, <3>7
    <3> QED BY <1>5, <2>1, <3>8
  <2>5. IsSeparated => ~InRegion(k)
    BY <1>2, <1>6, <2>3, NoRegionAtEvent
  <2>6. r # CriticalStart /\ r # CriticalEnd
    BY <1>5, <2>1
  <2> HIDE DEF e, k
  <2> QED BY <1>1, <1>2, <1>3, <1>4, <1>6, <2>4, <2>5, <2>6, RecordIsAdded
<1> QED BY <1>7, <1>8

(***************************************************************************)
(* When the master has added a barrier to all files, it is through its     *)
(* point of the program.                                                   *)
(***************************************************************************)
LEMMA LoopEnds ==
  ASSUME ThreadsFit, PlacesFit, RecordsFit, NEW t \in Thread, EndsLoop(t)
  PROVE  RecordsFit'
<1>1. /\ call[t][1] = "all" /\ ~(call[t][3] < Len(threadDataVec))
      /\ program' = program /\ threadDataVec' = threadDataVec /\ written' = written
      /\ IF call[t][2] = "AbruptEnd" THEN Enter(t, <<"gone">>) ELSE Continue(t)
  BY DEF EndsLoop, IsInVec, appVars
<1>2. CASE call[t][2] = "AbruptEnd"
  <2>1. Enter(t, <<"gone">>) /\ ~IsAddingBarrier(call[t]) /\ ~IsAddingBarrier(<<"gone">>)
    BY <1>1, <1>2 DEF IsAddingBarrier
  <2> QED BY <1>1, <2>1, QuietEnter
<1>3. CASE call[t][2] # "AbruptEnd"
  <2>1. /\ Continue(t) /\ t = 0 /\ call[0][2] = "BarrierSync"
        /\ program[pos[0]] \in {"start", "end"} /\ call[0][3] \in Nat
        /\ pos[0] \in 1 .. Len(program) /\ 0 \in Thread
    <3>1. call[t] \in Calls /\ CallsAtPoint(t)
      BY DEF ThreadsFit, PlacesFit
    <3>2. call[t][3] \in Nat
      BY <1>1, <3>1, CallShapes
    <3>3. t = 0 /\ call[t][2] = "BarrierSync" /\ IsMasterEvent(program[pos[t]])
      BY <1>1, <1>3, <3>1 DEF CallsAtPoint
    <3>4. pos[t] \in 1 .. Len(program)
      BY <1>1, StartedThread
    <3> QED BY <1>1, <1>3, <3>2, <3>3, <3>4 DEF IsMasterEvent
  <2>2. call'[0] = Idle
    BY <2>1 DEF Continue, ThreadsFit
  <2>3. ASSUME NEW i \in 0 .. Len(threadDataVec) - 1
        PROVE  Marks(i)' = Marks(i) /\ (InRegion(i) => InRegion(i)')
    <3>1. i \in Thread /\ Len(threadDataVec) \in Nat
      BY IndexIsThread, LenProperties DEF ThreadsFit
    <3>2. i < call[0][3]
      BY <1>1, <2>1, <3>1
    <3>3. Extra(i) = 1
      BY <1>1, <2>1, <3>2 DEF Extra
    <3>4. Extra(i)' = 0
      BY <2>2 DEF Extra, Idle
    <3>5. Passed(i, {"barrier"})' = Passed(i, {"barrier"})
      <4>1. /\ Passed(0, {"barrier"})' = Passed(0, {"barrier"})
                 + IF program[pos[0]] \in {"barrier"} THEN 1 ELSE 0
            /\ \A u \in Thread \ {0} : Passed(u, {"barrier"})' = Passed(u, {"barrier"})
        BY <1>1, <2>1, PassedOn
      <4>2. Passed(0, {"barrier"})' = Passed(0, {"barrier"}) + 0 /\ Passed(0, {"barrier"}) \in Nat
        BY <2>1, <4>1, PassedIsNumber
      <4> QED BY <3>1, <4>1, <4>2
    <3>6. Passed(0, {"start", "end"})' = Passed(0, {"start", "end"}) + 1
      <4>1. Passed(0, {"start", "end"})' = Passed(0, {"start", "end"})
              + IF program[pos[0]] \in {"start", "end"} THEN 1 ELSE 0
        BY <1>1, <2>1, PassedOn
      <4> QED BY <2>1, <4>1
    <3>7. Passed(i, {"barrier"}) \in Int /\ Passed(0, {"start", "end"}) \in Int
      <4>1. Passed(i, {"barrier"}) \in Nat /\ Passed(0, {"start", "end"}) \in Nat
        BY <2>1, <3>1, PassedIsNumber
      <4> QED BY <4>1
    <3>8. Marks(i) = Passed(i, {"barrier"}) + Passed(0, {"start", "end"}) + 1
      BY <3>3 DEF Marks
    <3>9. Marks(i)' = Passed(i, {"barrier"}) + (Passed(0, {"start", "end"}) + 1) + 0
      BY <3>4, <3>5, <3>6 DEF Marks
    <3>10. InRegion(i) => InRegion(i)'
      BY <1>1, <2>1, <3>1, RegionGoesOn
    <3> QED BY <3>7, <3>8, <3>9, <3>10
  <2>4. \A u \in Thread : pos'[u] = 0 => pos[u] = 0
    BY <2>1 DEF Continue, ThreadsFit
  <2> QED BY <1>1, <2>3, <2>4, SameRecords
<1> QED BY <1>2, <1>3

LEMMA BlockIsCalled ==
  ASSUME ThreadsFit, PlacesFit, NEW t \in Thread, NEW b \in Block, NEW r, NEW rest,
         ToCall(t, r, b, rest)
  PROVE  /\ ~IsAddingBarrier(call[t])
         /\ pos[t] \in 1 .. Len(program) /\ program[pos[t]] = "block"
<1>1. call \in [Thread -> Calls] /\ CallsAtPoint(t)
  BY DEF ThreadsFit, PlacesFit
<1>2. \/ /\ call[t] = Idle /\ call[t][1] = "idle"
         /\ pos[t] \in DOMAIN program /\ program[pos[t]] = "block"
      \/ call[t][1] = "rest"
  BY <1>1, RoutineIsCalled
<1>3. pos[t] \in 1 .. Len(program)
  BY <1>2, StartedThread
<1> QED BY <1>1, <1>2, <1>3 DEF CallsAtPoint, IsAddingBarrier

LEMMA RoutineRecords ==
  ASSUME ThreadsFit, FilesFit, PlacesFit, RecordsFit, NEW t \in Thread, Routine(t)
  PROVE  RecordsFit'
<1>0. call \in [Thread -> Calls] /\ written \in [Thread -> [dyn : Seq(DynamicRecord), mem : Seq(MemoryRecord)]]
  BY DEF ThreadsFit, FilesFit
<1>1. CASE StartsThread(t)
  <2>1. /\ Enter(t, <<"start">>) /\ program' = program /\ threadDataVec' = threadDataVec
        /\ written' = written
        /\ ~IsAddingBarrier(call[t]) /\ ~IsAddingBarrier(<<"start">>)
    BY <1>1 DEF StartsThread, appVars, IsAddingBarrier, Idle
  <2> QED BY <2>1, QuietEnter
<1>2. CASE RegistersThread(t)
  BY <1>2, RegisteredRecords
<1>3. CASE ReachesBlock(t)
  <2>1. PICK b \in Block, rest \in SUBSET {"mem"} :
          /\ ToCall(t, "block", b, rest)
          /\ Enter(t, <<"block", b, rest>>) \/ LeaveRoutine(t, b, rest)
    BY <1>3 DEF ReachesBlock
  <2>2. program' = program /\ threadDataVec' = threadDataVec /\ written' = written
    BY <1>3 DEF ReachesBlock, appVars
  <2>3. /\ ~IsAddingBarrier(call[t]) /\ ~IsAddingBarrier(<<"block", b, rest>>)
        /\ pos[t] \in 1 .. Len(program) /\ program[pos[t]] = "block"
    BY <1>0, <2>1, BlockIsCalled DEF IsAddingBarrier
  <2>4. CASE Enter(t, <<"block", b, rest>>)
    BY <2>2, <2>3, <2>4, QuietEnter
  <2>5. CASE LeaveRoutine(t, b, rest)
    BY <2>2, <2>3, <2>5, QuietBlock
  <2> QED BY <2>1, <2>4, <2>5
<1>4. CASE AppendsBlock(t)
  BY <1>4, BlockIsRecorded
<1>5. CASE ExceedsLimit(t)
  <2> DEFINE c == <<"all", "AbruptEnd", 0>>
  <2>1. /\ Enter(t, c) /\ program' = program /\ threadDataVec' = threadDataVec
        /\ written' = written /\ ~IsAddingBarrier(call[t]) /\ ~IsAddingBarrier(c)
    BY <1>5 DEF ExceedsLimit, appVars, IsAddingBarrier
  <2> HIDE DEF c
  <2> QED BY <2>1, QuietEnter
<1>6. CASE AppendToMemTrace(t)
  <2>1. program' = program /\ threadDataVec' = threadDataVec
    BY <1>6 DEF AppendToMemTrace, appVars
  <2>2. PICK b \in Block, rest \in SUBSET {"block"} :
          ToCall(t, "mem", b, rest) /\ LeaveRoutine(t, b, rest)
    BY <1>6 DEF AppendToMemTrace
  <2>4. /\ ~IsAddingBarrier(call[t])
        /\ pos[t] \in 1 .. Len(program) /\ program[pos[t]] = "block"
    BY <1>0, <2>2, BlockIsCalled
  <2>3. \A u \in Thread : written'[u].dyn = written[u].dyn
    <3>1. written' = written
            \/ \E x, m : written' = [written EXCEPT ![x].mem = @ \o m]
      BY <1>6 DEF AppendToMemTrace
    <3>2. CASE written' = written
      BY <3>2
    <3>3. CASE \E x, m : written' = [written EXCEPT ![x].mem = @ \o m]
      BY <1>0, <3>3
    <3> QED BY <3>1, <3>2, <3>3
  <2> QED BY <2>1, <2>2, <2>3, <2>4, QuietBlock
<1>7. CASE ReachesEvent(t)
  BY <1>7, EventIsReached
<1>8. CASE AddsOwnEvent(t)
  BY <1>8, OwnEventIsRecorded
<1>9. CASE AddsEventToNext(t)
  BY <1>9, EventIsAddedToNext
<1>10. CASE EndsLoop(t)
  BY <1>10, LoopEnds
<1>11. CASE Synchronises(t)
  <2>1. /\ Continue(t) /\ program' = program /\ threadDataVec' = threadDataVec
        /\ written' = written
    BY <1>11 DEF Synchronises
  <2>2. /\ call[t] = Idle /\ pos[t] \in DOMAIN program
        /\ program[pos[t]] \in {"meet", "acquire", "release"}
    BY <1>11 DEF Synchronises, Meets, Acquires, Releases, IsAt
  <2>3. ~IsAddingBarrier(call[t]) /\ pos[t] \in 1 .. Len(program)
    BY <2>2, StartedThread DEF Idle, IsAddingBarrier
  <2> QED BY <2>1, <2>2, <2>3, QuietContinue
<1>12. CASE OnThreadFini(t)
  <2>1. /\ pos' = pos /\ call' = call /\ program' = program /\ threadDataVec' = threadDataVec
        /\ written' = written
    BY <1>12 DEF OnThreadFini, appVars
  <2>2. \A i : Extra(i)' = Extra(i)
    BY <2>1 DEF Extra
  <2> QED BY <2>1, <2>2, QuietRecords
<1> QED BY <1>1, <1>2, <1>3, <1>4, <1>5, <1>6, <1>7, <1>8, <1>9, <1>10, <1>11, <1>12
        DEF Routine, OnThreadStart, AppendToDynamicTrace, OnThreadEvent
LEMMA RoutineExit ==
  ASSUME ThreadsFit, ThreadsFit', ExitFits, NEW t \in Thread, Routine(t)
  PROVE  ExitFits'
<1>1. /\ call \in [Thread -> Calls] /\ pos \in [Thread -> 0 .. Len(program) + 1]
      /\ pos' \in [Thread -> 0 .. Len(program') + 1] /\ 0 \in Thread
      /\ Len(program) \in Nat
  <2>1. call \in [Thread -> Calls] /\ pos \in [Thread -> 0 .. Len(program) + 1]
    BY DEF ThreadsFit
  <2>2. pos' \in [Thread -> 0 .. Len(program') + 1]
    BY DEF ThreadsFit
  <2>3. program \in Seq(Points)
    BY DEF ThreadsFit
  <2>4. 0 \in Thread
    BY TracerAssumption DEF Thread
  <2> QED BY <2>1, <2>2, <2>3, <2>4, LenProperties
<1>2. program' = program
  BY DEF Routine, OnThreadStart, StartsThread, RegistersThread, AppendToDynamicTrace, ReachesBlock,
         AppendsBlock, ExceedsLimit, AppendToMemTrace, OnThreadEvent, ReachesEvent, AddsOwnEvent,
         AddsEventToNext, EndsLoop, Synchronises, OnThreadFini, appVars
<1>3. call' = call \/ Continue(t) \/ \E c : Enter(t, c)
  BY DEF Routine, OnThreadStart, StartsThread, RegistersThread, AppendToDynamicTrace, ReachesBlock,
         AppendsBlock, ExceedsLimit, AppendToMemTrace, OnThreadEvent, ReachesEvent, AddsOwnEvent,
         AddsEventToNext, EndsLoop, Synchronises, OnThreadFini, LeaveRoutine
<1>4. pos' = pos \/ Continue(t)
  BY DEF Routine, OnThreadStart, StartsThread, RegistersThread, AppendToDynamicTrace, ReachesBlock,
         AppendsBlock, ExceedsLimit, AppendToMemTrace, OnThreadEvent, ReachesEvent, AddsOwnEvent,
         AddsEventToNext, EndsLoop, Synchronises, OnThreadFini, LeaveRoutine, Enter
<1>5. pos'[0] >= pos[0]
  <2>1. pos[0] \in Int
    BY <1>1
  <2>2. pos'[0] = pos[0] \/ pos'[0] = pos[0] + 1
    BY <1>1, <1>4 DEF Continue
  <2> QED BY <2>1, <2>2
<1>6. call[t] = <<"gone">> => call' = call
  <2> SUFFICES ASSUME call[t] = <<"gone">> PROVE call' = call
    OBVIOUS
  <2>1. call[t][1] = "gone" /\ call[t] # Idle /\ call[t] # <<"start">>
    BY DEF Idle
  <2>2. call[t][1] # "rest" /\ call[t][1] # "idle"
    BY <2>1
  <2>3. ~ReachesBlock(t) /\ ~AppendToMemTrace(t)
    BY <1>1, <2>2, RoutineIsCalled DEF ReachesBlock, AppendToMemTrace
  <2> QED BY <2>1, <2>3 DEF Routine, OnThreadStart, StartsThread, RegistersThread,
         AppendToDynamicTrace, AppendsBlock, ExceedsLimit, OnThreadEvent, ReachesEvent,
         AddsOwnEvent, AddsEventToNext, EndsLoop, Synchronises, Meets, Acquires, Releases,
         OnThreadFini, IsAt
<1>7. HasEndedAbruptly => HasEndedAbruptly'
  <2> SUFFICES ASSUME NEW u \in Thread, call[u] = <<"gone">> PROVE HasEndedAbruptly'
    BY DEF HasEndedAbruptly
  <2>1. call'[u] = <<"gone">>
    BY <1>1, <1>3, <1>6 DEF Enter, Continue
  <2> QED BY <2>1 DEF HasEndedAbruptly
<1>8. exiting' = exiting \/ EndsLoop(t)
  BY DEF Routine, OnThreadStart, StartsThread, RegistersThread, AppendToDynamicTrace, ReachesBlock,
         AppendsBlock, ExceedsLimit, AppendToMemTrace, OnThreadEvent, ReachesEvent, AddsOwnEvent,
         AddsEventToNext, Synchronises, OnThreadFini, exitVars
<1>9. exiting' = exiting \/ HasEndedAbruptly'
  <2>1. CASE exiting' = exiting
    BY <2>1
  <2>2. CASE EndsLoop(t) /\ call[t][2] # "AbruptEnd"
    BY <2>2 DEF EndsLoop
  <2>3. CASE EndsLoop(t) /\ call[t][2] = "AbruptEnd"
    <3>1. call' = [call EXCEPT ![t] = <<"gone">>]
      BY <2>3 DEF EndsLoop, Enter
    <3>2. call'[t] = <<"gone">>
      BY <1>1, <3>1
    <3> QED BY <3>2 DEF HasEndedAbruptly
  <2> QED BY <1>8, <2>1, <2>2, <2>3
<1>10. pos[0] = Len(program) + 1 => pos'[0] = Len(program') + 1
  BY <1>1, <1>2, <1>5
<1> QED BY <1>7, <1>9, <1>10 DEF ExitFits

LEMMA TeamStep ==
  ASSUME TracerInductive, TracerInductive', TeamInductive, [Next]_tracerVars
  PROVE  TeamInductive'
<1>1. CASE \E t \in Thread : Routine(t)
  <2>1. PICK t \in Thread : Routine(t)
    BY <1>1
  <2>2. PlacesFit' /\ RecordsFit'
    BY <2>1, RoutinePlaces, RoutineRecords DEF TracerInductive, TeamInductive
  <2>3. ExitFits'
    BY <2>1, RoutineExit DEF TracerInductive, TeamInductive
  <2> QED BY <2>2, <2>3 DEF TeamInductive
<1>2. CASE Exits \/ Stops \/ ReadsRecord \/ OpensNextFile \/ UNCHANGED tracerVars
  <2>1. UNCHANGED <<program, pos, call, threadDataVec, written>>
    BY <1>2 DEF Exits, Stops, ReadsRecord, OpensNextFile, tracerVars, appVars
  <2>2. PlacesFit'
    BY <2>1 DEF TeamInductive, PlacesFit, MeetingsHold, CallsAtPoint, IsMasterEvent
  <2>3. RecordsFit'
    <3>1. 0 \in Thread /\ ThreadsFit
      BY TracerAssumption DEF TracerInductive, Thread
    <3>2. \A i : Extra(i)' = Extra(i)
      BY <2>1 DEF Extra
    <3> QED BY <2>1, <3>1, <3>2, QuietRecords DEF TeamInductive
  <2>4. ExitFits'
    <3>1. HasEndedAbruptly' <=> HasEndedAbruptly
      BY <2>1 DEF HasEndedAbruptly
    <3>2. exiting' = exiting \/ pos[0] = Len(program) + 1
      BY <1>2 DEF Exits, Stops, ReadsRecord, OpensNextFile, tracerVars, exitVars
    <3> QED BY <2>1, <3>1, <3>2 DEF TeamInductive, ExitFits
  <2> QED BY <2>2, <2>3, <2>4 DEF TeamInductive
<1> QED BY <1>1, <1>2 DEF Next

LEMMA TeamStart ==
  ASSUME Init
  PROVE  TeamInductive
<1>1. /\ program \in Programs /\ pos = [t \in Thread |-> 0] /\ call = [t \in Thread |-> Idle]
      /\ threadDataVec = <<>> /\ exiting = FALSE
      /\ written = [t \in Thread |-> [dyn |-> <<>>, mem |-> <<>>]]
  BY DEF Init
<1>2. \A t \in Thread : pos[t] = 0 /\ call[t] = Idle /\ written[t].dyn = <<>>
  BY <1>1
<1>3. PlacesFit
  <2>1. MeetingsHold
    <3>1. \A k \in 1 .. Len(program), t \in Thread : ~(pos[t] > k)
      BY <1>1, <1>2, LenProperties, TracerAssumption
    <3> QED BY <3>1 DEF MeetingsHold
  <2> QED BY <1>1, <1>2, <2>1 DEF PlacesFit, CallsAtPoint, Idle
<1>4. RecordsFit
  <2>1. \A i \in 0 .. Len(threadDataVec) - 1 : FALSE
    BY <1>1
  <2>2. \A t \in Thread : HoldsNoBarrier(written[t].dyn)
    BY <1>2 DEF HoldsNoBarrier
  <2> QED BY <1>2, <2>1, <2>2 DEF RecordsFit
<1> QED BY <1>1, <1>3, <1>4 DEF ExitFits, TeamInductive

(***************************************************************************)
(* At the end of a program all files have the same number of barriers, of  *)
(* which some are recorded by each thread for itself and some by the       *)
(* master for all: the threads have met after every barrier of their own.  *)
(***************************************************************************)
LEMMA SameBarriersPassed ==
  ASSUME ThreadsFit, PlacesFit, pos[0] = Len(program) + 1, NEW t \in Thread
  PROVE  /\ pos[t] > 0
         /\ Passed(t, {"barrier"}) = Cardinality({i \in 1 .. Len(program) : program[i] = "barrier"})
<1>1. /\ IsTeamProgram(program) /\ DOMAIN program = 1 .. Len(program) /\ Len(program) \in Nat
      /\ pos[t] \in 0 .. Len(program) + 1 /\ 0 \in Thread
  BY TeamAssumption, TracerAssumption, LenProperties DEF PlacesFit, ThreadsFit, Thread
<1>2. \A k \in 1 .. Len(program) : program[k] = "meet" => pos[t] >= k
  BY <1>1 DEF PlacesFit, MeetingsHold
<1>3. pos[t] > 0
  <2>1. PICK first \in 1 .. Len(program) : program[first] = "meet"
    BY <1>1 DEF IsTeamProgram
  <2> QED BY <1>1, <1>2, <2>1
<1>4. ASSUME NEW i \in 1 .. Len(program), program[i] = "barrier" PROVE i \in 1 .. pos[t] - 1
  <2>1. i + 1 \in 1 .. Len(program) /\ program[i + 1] = "meet"
    BY <1>1, <1>4 DEF IsTeamProgram
  <2>2. pos[t] >= i + 1
    BY <1>2, <2>1
  <2> QED BY <1>1, <2>2
<1>5. \A i : i \in 1 .. pos[t] - 1 => i \in 1 .. Len(program)
  BY <1>1
<1>6. {i \in 1 .. pos[t] - 1 : program[i] \in {"barrier"}}
        = {i \in 1 .. Len(program) : program[i] = "barrier"}
  BY <1>4, <1>5
<1> QED BY <1>3, <1>6 DEF Passed

LEMMA FilesHaveTheBarriers ==
  ASSUME TracerInductive, StopFits, TeamInductive
  PROVE  BarriersAgree
<1> SUFFICES ASSUME stopped, ~HasEndedAbruptly
             PROVE  /\ threadCount = TotalThreads
                    /\ \A t, u \in Thread : Count(written[t].dyn, BarrierSync)
                                              = Count(written[u].dyn, BarrierSync)
  BY DEF BarriersAgree
<1>1. ThreadsFit /\ PlacesFit /\ RecordsFit /\ 0 \in Thread
  BY TracerAssumption DEF TracerInductive, TeamInductive, Thread
<1>2. pos[0] = Len(program) + 1
  BY DEF TeamInductive, ExitFits, TracerInductive, EndFits
<1> DEFINE all == Cardinality({i \in 1 .. Len(program) : program[i] = "barrier"})
<1>3. \A t \in Thread : pos[t] > 0 /\ Passed(t, {"barrier"}) = all
  BY <1>1, <1>2, SameBarriersPassed
<1> HIDE DEF all
<1>4. threadCount = TotalThreads
  BY <1>1, <1>3, AllRegistered DEF ThreadsFit
<1>5. \A i : Extra(i) = 0
  BY <1>1 DEF StopFits, Extra
<1>6. ASSUME NEW t \in Thread
      PROVE  Count(written[t].dyn, BarrierSync) = all + Passed(0, {"start", "end"}) + 0
  <2>1. PICK n \in 1 .. Len(threadDataVec) : threadDataVec[n] = t
    BY <1>1, <1>3 DEF ThreadsFit, IsRegistered
  <2> DEFINE i == n - 1
  <2>2. i \in 0 .. Len(threadDataVec) - 1 /\ i + 1 = n
    BY LenProperties DEF TracerInductive, ThreadsFit
  <2> HIDE DEF i
  <2>3. FileOf(i) = written[t].dyn
    BY <2>1, <2>2 DEF FileOf, ThreadDataOf
  <2>4. BarriersFit(i) /\ i \in Thread
    BY <1>1, <2>2, IndexIsThread DEF RecordsFit
  <2> QED BY <1>3, <1>5, <2>3, <2>4 DEF BarriersFit
<1> QED BY <1>4, <1>6

THEOREM TheBarriersAgree == Spec => []BarriersAgree
<1>1. TracerInductive /\ FilesInductive /\ TeamInductive => BarriersAgree
  BY FilesHaveTheBarriers DEF FilesInductive
<1>2. Init => TracerInductive /\ FilesInductive /\ TeamInductive
  BY TracerStart, FilesStart, TeamStart
<1>3. TracerInductive /\ FilesInductive /\ TeamInductive /\ [Next]_tracerVars
        => TracerInductive' /\ FilesInductive' /\ TeamInductive'
  BY TracerStep, FilesStep, TeamStep
<1> QED BY <1>1, <1>2, <1>3, PTL DEF Spec

(***************************************************************************)
(* No file has a barrier inside of a critical region, if the program keeps *)
(* its regions apart from the start and the end of the team, although the  *)
(* master records these in the files of threads it does not wait for.      *)
(***************************************************************************)
THEOREM NoBarrierInARegion == Spec => []RegionsHoldNoBarrier
<1>1. TeamInductive => RegionsHoldNoBarrier
  BY DEF TeamInductive, RecordsFit, RegionsHoldNoBarrier, HoldsNoBarrier, CriticalStart, CriticalEnd
<1>2. Init => TracerInductive /\ TeamInductive
  BY TracerStart, TeamStart
<1>3. TracerInductive /\ TeamInductive /\ [Next]_tracerVars => TracerInductive' /\ TeamInductive'
  BY TracerStep, TeamStep
<1> QED BY <1>1, <1>2, <1>3, PTL DEF Spec
=============================================================================
