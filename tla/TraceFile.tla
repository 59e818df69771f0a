------------------------------ MODULE TraceFile ------------------------------
(***************************************************************************)
(* The trace files of one thread: how the tracer's writers                 *)
(* (src/x86_trace_generator/utils/dynamic_trace_writer.cpp and             *)
(* memory_trace_writer.cpp) put records into a file by way of a record     *)
(* array, and how the readers of the simulator                             *)
(* (src/src/tracer/sinuca/utils/dynamic_trace_reader.cpp and               *)
(* memory_trace_reader.cpp) get them back by way of another.  A record is  *)
(* a pair of its type and its data; the header of a file is the number of  *)
(* instructions that it claims.  Writes to a file do not fail.             *)
(***************************************************************************)
EXTENDS Integers, Sequences

CONSTANT RECORD_ARRAY_SIZE

ASSUME TraceFileAssumption == RECORD_ARRAY_SIZE \in Nat \ {0}

-----------------------------------------------------------------------------
(***************************************************************************)
(* Writers.  header is what the object has, headerInFile what is on disk:  *)
(* OpenFile only reserves the space.                                       *)
(***************************************************************************)
OpenFile ==
  [file |-> <<>>, recordArray |-> <<>>, header |-> 0, headerInFile |-> 0,
   closed |-> FALSE]

FlushRecordArray(w) == [w EXCEPT !.file = @ \o w.recordArray]

ResetRecordArray(w) == [w EXCEPT !.recordArray = <<>>]

(***************************************************************************)
(* Slip: the array is written when it is full and not emptied.             *)
(***************************************************************************)
IsRecordArrayFull(w) == Len(w.recordArray) = RECORD_ARRAY_SIZE

FlushOnly(w) == IF IsRecordArrayFull(w) THEN FlushRecordArray(w) ELSE w

CheckRecordArray(w) ==
  IF IsRecordArrayFull(w) THEN ResetRecordArray(FlushRecordArray(w)) ELSE w

AddRecord(w, record) ==
  CheckRecordArray([w EXCEPT !.recordArray = Append(@, record)])

IncExecutedInstructions(w, n) == [w EXCEPT !.header = @ + n]

(***************************************************************************)
(* The destructor writes what is left and then the header.                 *)
(* Slip: only the header is written.                                       *)
(***************************************************************************)
CloseUnflushed(w) == [w EXCEPT !.headerInFile = w.header, !.closed = TRUE]

CloseFile(w) ==
  [FlushRecordArray(w) EXCEPT !.headerInFile = w.header, !.closed = TRUE]

-----------------------------------------------------------------------------
(***************************************************************************)
(* Readers.  offset is the position in the file; the record array holds    *)
(* the last numberOfRecordsRead records before it.  left is the number of  *)
(* operations that the current instruction is still to get, and got what   *)
(* was handed out (history).                                               *)
(***************************************************************************)
NewReader ==
  [offset |-> 0, numberOfRecordsRead |-> 0, recordArrayIndex |-> 0, left |-> 0,
   reachedEnd |-> FALSE, failed |-> FALSE, got |-> <<>>]

RecordsLeft(r, file) ==
  IF Len(file) - r.offset < RECORD_ARRAY_SIZE THEN Len(file) - r.offset
                                              ELSE RECORD_ARRAY_SIZE

LoadRecordArray(r, file) ==
  LET n == RecordsLeft(r, file) IN
  [r EXCEPT !.offset = @ + n, !.numberOfRecordsRead = n,
            !.recordArrayIndex = 0, !.reachedEnd = (n = 0)]

RecordAt(r, file) ==
  file[r.offset - r.numberOfRecordsRead + r.recordArrayIndex + 1]

NextIndex(r) ==
  IF r.numberOfRecordsRead = 0 THEN 0 ELSE r.recordArrayIndex + 1

ReadDynamicRecord(r, file) ==
  LET i == NextIndex(r)
      s == IF i = r.numberOfRecordsRead
             THEN LoadRecordArray(r, file)
             ELSE [r EXCEPT !.recordArrayIndex = i]
  IN IF s.reachedEnd THEN s
                     ELSE [s EXCEPT !.got = Append(@, RecordAt(s, file))]

(***************************************************************************)
(* One record of ReadMemoryOperations: the header of an instruction, or    *)
(* one of the operations that its header announced.  The file may end only *)
(* where a header is due.                                                  *)
(***************************************************************************)
ReadMemoryRecord(r, file) ==
  LET s == IF r.recordArrayIndex = r.numberOfRecordsRead
             THEN LoadRecordArray(r, file) ELSE r
      record   == RecordAt(s, file)
      isHeader == record[1] = "header"
  IN IF s.reachedEnd THEN [s EXCEPT !.failed = r.left > 0]
     ELSE IF isHeader # (s.left = 0) THEN [s EXCEPT !.failed = TRUE]
     ELSE [s EXCEPT !.recordArrayIndex = @ + 1,
                    !.left = IF isHeader THEN record[2] ELSE @ - 1,
                    !.got = Append(@, record)]
=============================================================================
