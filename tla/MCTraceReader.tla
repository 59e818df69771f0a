---------------------------- MODULE MCTraceReader ----------------------------
(***************************************************************************)
(* All trace files of a few threads, over one block of two instructions,   *)
(* the second of which accesses memory.                                    *)
(***************************************************************************)
EXTENDS TraceReader

CONSTANT b

MCBlockSize == [x \in Block |-> 2]
MCMemoryInstruction == {<<b, 1>>}
=============================================================================
