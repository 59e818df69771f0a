----------------------------- MODULE Connection -----------------------------
(***************************************************************************)
(* The Connection class of src/src/engine/linkable.cpp: two request        *)
(* buffers and two response buffers.  The side that connected (SOURCE_ID)  *)
(* and the side it connected to (DEST_ID) each have one of every pair.     *)
(***************************************************************************)
EXTENDS CircularBuffer

SOURCE_ID == 0
DEST_ID   == 1
Sides     == {SOURCE_ID, DEST_ID}

Kind == {"request", "response"}

(***************************************************************************)
(* The side a kind of message is written on, and the side it is read on:   *)
(* SendRequestUnsafe and GetResponseUnsafe use SOURCE_ID, GetRequestUnsafe *)
(* and SendResponseUnsafe use DEST_ID.                                     *)
(***************************************************************************)
WriteSide(d) == IF d = "request" THEN SOURCE_ID ELSE DEST_ID
ReadSide(d)  == IF d = "request" THEN DEST_ID ELSE SOURCE_ID

Written(conn, d)  == conn[d][WriteSide(d)]
Readable(conn, d) == conn[d][ReadSide(d)]

(***************************************************************************)
(* The connection with the given buffers on the two sides of each pair.    *)
(***************************************************************************)
Pair(written, readable, d) ==
  [id \in Sides |-> IF id = WriteSide(d) THEN written ELSE readable]

CreateBuffers(bufferSize) ==
  [d \in Kind |-> [id \in Sides |-> Allocate(bufferSize)]]

(***************************************************************************)
(* Exchange the buffers of both pairs, then flush the one that will be     *)
(* written to in the next cycle: requestBuffers[SOURCE_ID] and             *)
(* responseBuffers[DEST_ID].  The slip is to flush SOURCE_ID of both.      *)
(***************************************************************************)
SwapFlushingSource(conn) ==
  [d \in Kind |-> [id \in Sides |->
     IF id = SOURCE_ID THEN Flush(conn[d][DEST_ID]) ELSE conn[d][SOURCE_ID]]]

SwapBuffers(conn) ==
  [d \in Kind |-> Pair(Flush(Readable(conn, d)), Written(conn, d), d)]

WithPair(conn, d, written, readable) ==
  [conn EXCEPT ![d] = Pair(written, readable, d)]

(***************************************************************************)
(* The sender fills its own side of the pair, which the receiver sees only *)
(* after the swap; the slip is to fill the side that is being read.        *)
(***************************************************************************)
InsertIntoReadSide(conn, d, m) ==
  WithPair(conn, d, Written(conn, d), Enqueue(Readable(conn, d), m))

InsertIntoBuffer(conn, d, m) ==
  WithPair(conn, d, Enqueue(Written(conn, d), m), Readable(conn, d))

RemoveFromBuffer(conn, d) ==
  WithPair(conn, d, Written(conn, d), Dequeue(Readable(conn, d)))

(***************************************************************************)
(* Both pairs are there and hold well formed buffers of the size given to  *)
(* Connect.                                                                *)
(***************************************************************************)
WellConnected(conn, bufferSize) ==
  /\ conn = [d \in Kind |-> [id \in Sides |-> conn[d][id]]]
  /\ \A d \in Kind, id \in Sides :
       /\ WellFormed(conn[d][id])
       /\ conn[d][id].maxBufferSize = bufferSize
=============================================================================
