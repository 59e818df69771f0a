--------------------------- MODULE MCBufferCalls ----------------------------
(***************************************************************************)
(* Two messages; a buffer of 3 slots that refuses and one that starts with *)
(* 2 slots and grows twice.                                                *)
(***************************************************************************)
EXTENDS BufferCalls

MCSizes == {0, 3}
=============================================================================
