--------------------------- MODULE LinkableProofs ---------------------------
(***************************************************************************)
(* For any components, connections, buffer sizes and messages, and for any *)
(* order of the components in the two loops of a cycle: linkable.cpp is    *)
(* the synchronous message passing of SynchronousCycle.                    *)
(***************************************************************************)
EXTENDS Linkable, CircularBufferProofs

-----------------------------------------------------------------------------
(***************************************************************************)
(* The two sides of a pair are different, and are all its sides.           *)
(***************************************************************************)
LEMMA SidesOfPair ==
  ASSUME NEW d \in Kind, NEW w, NEW r
  PROVE  /\ WriteSide(d) \in Sides /\ ReadSide(d) \in Sides
         /\ Pair(w, r, d)[WriteSide(d)] = w
         /\ Pair(w, r, d)[ReadSide(d)] = r
         /\ Pair(w, r, d) = [id \in Sides |-> Pair(w, r, d)[id]]
         /\ \A id \in Sides : Pair(w, r, d)[id] = w \/ Pair(w, r, d)[id] = r
  BY DEF Pair, WriteSide, ReadSide, Sides, SOURCE_ID, DEST_ID, Kind

(***************************************************************************)
(* Connect gives four empty buffers.                                       *)
(***************************************************************************)
LEMMA CreateConnects ==
  ASSUME NEW size \in Nat, NEW conn, conn = CreateBuffers(size)
  PROVE  /\ WellConnected(conn, size)
         /\ \A d \in Kind : /\ Contents(Written(conn, d)) = <<>>
                            /\ Contents(Readable(conn, d)) = <<>>
<1>1. \A d \in Kind, id \in Sides : conn[d][id] = Allocate(size)
  BY DEF CreateBuffers
<1>2. conn = [d \in Kind |-> [id \in Sides |-> conn[d][id]]]
  BY DEF CreateBuffers
<1>3. WellConnected(conn, size)
  BY <1>1, <1>2, AllocateEmpty DEF WellConnected
<1>4. ASSUME NEW d \in Kind
      PROVE  Written(conn, d) = Allocate(size) /\ Readable(conn, d) = Allocate(size)
  BY <1>1, SidesOfPair DEF Written, Readable
<1> QED BY <1>3, <1>4, AllocateEmpty

(***************************************************************************)
(* The buffers of a connection are well formed.                            *)
(***************************************************************************)
LEMMA BuffersOf ==
  ASSUME NEW conn, NEW size, WellConnected(conn, size), NEW d \in Kind
  PROVE  /\ WellFormed(Written(conn, d))  /\ Written(conn, d).maxBufferSize = size
         /\ WellFormed(Readable(conn, d)) /\ Readable(conn, d).maxBufferSize = size
  BY SidesOfPair DEF WellConnected, Written, Readable

(***************************************************************************)
(* Replacing one pair of a connection.                                     *)
(***************************************************************************)
LEMMA ReplacePair ==
  ASSUME NEW conn, NEW size, WellConnected(conn, size), NEW d \in Kind,
         NEW w, WellFormed(w), w.maxBufferSize = size,
         NEW r, WellFormed(r), r.maxBufferSize = size,
         NEW new, new = WithPair(conn, d, w, r)
  PROVE  /\ WellConnected(new, size)
         /\ Written(new, d) = w /\ Readable(new, d) = r
         /\ \A e \in Kind : e # d => /\ Written(new, e) = Written(conn, e)
                                     /\ Readable(new, e) = Readable(conn, e)
<1>1. conn = [e \in Kind |-> [id \in Sides |-> conn[e][id]]]
  BY DEF WellConnected
<1>2. \A e \in Kind : new[e] = IF e = d THEN Pair(w, r, d) ELSE conn[e]
  BY <1>1 DEF WithPair
<1>3. new = [e \in Kind |-> new[e]]
  BY <1>1 DEF WithPair
<1>p. /\ Pair(w, r, d) = [id \in Sides |-> Pair(w, r, d)[id]]
      /\ \A id \in Sides : Pair(w, r, d)[id] = w \/ Pair(w, r, d)[id] = r
  BY SidesOfPair
<1>4. \A e \in Kind : new[e] = [id \in Sides |-> new[e][id]]
  <2> TAKE e \in Kind
  <2>1. CASE e = d
    BY <2>1, <1>2, <1>p
  <2>2. CASE e # d
    <3>1. conn[e] = [id \in Sides |-> conn[e][id]]
      BY <1>1
    <3> QED BY <2>2, <3>1, <1>2
  <2> QED BY <2>1, <2>2
<1>5. \A e \in Kind, id \in Sides : WellFormed(new[e][id]) /\ new[e][id].maxBufferSize = size
  <2> TAKE e \in Kind, id \in Sides
  <2>1. CASE e = d
    BY <2>1, <1>2, <1>p
  <2>2. CASE e # d
    <3>1. WellFormed(conn[e][id]) /\ conn[e][id].maxBufferSize = size
      BY DEF WellConnected
    <3> QED BY <2>2, <3>1, <1>2
  <2> QED BY <2>1, <2>2
<1>6. WellConnected(new, size)
  BY <1>3, <1>4, <1>5 DEF WellConnected
<1>7. Written(new, d) = w /\ Readable(new, d) = r
  BY <1>2, SidesOfPair DEF Written, Readable
<1>8. \A e \in Kind : e # d => /\ Written(new, e) = Written(conn, e)
                               /\ Readable(new, e) = Readable(conn, e)
  BY <1>2 DEF Written, Readable
<1> QED BY <1>6, <1>7, <1>8

(***************************************************************************)
(* Sending appends to what is being written in that direction, if it fits. *)
(***************************************************************************)
LEMMA InsertSends ==
  ASSUME NEW conn, NEW size \in Nat, WellConnected(conn, size),
         NEW d \in Kind, NEW m \in Element,
         NEW new, new = InsertIntoBuffer(conn, d, m)
  PROVE  /\ WellConnected(new, size)
         /\ Contents(Written(new, d)) =
              IF size = 0 \/ Len(Contents(Written(conn, d))) < size
                THEN Append(Contents(Written(conn, d)), m)
                ELSE Contents(Written(conn, d))
         /\ Readable(new, d) = Readable(conn, d)
         /\ \A e \in Kind : e # d => /\ Written(new, e) = Written(conn, e)
                                     /\ Readable(new, e) = Readable(conn, e)
<1> DEFINE w == Written(conn, d)
<1>1. /\ WellFormed(w) /\ w.maxBufferSize = size
      /\ WellFormed(Readable(conn, d)) /\ Readable(conn, d).maxBufferSize = size
  BY BuffersOf
<1>2. /\ WellFormed(Enqueue(w, m)) /\ Enqueue(w, m).maxBufferSize = size
      /\ Contents(Enqueue(w, m)) =
           IF CanEnqueue(w) THEN Append(Contents(w), m) ELSE Contents(w)
  BY <1>1, EnqueueAppends
<1>3. CanEnqueue(w) <=> size = 0 \/ Len(Contents(w)) < size
  BY <1>1, RoomIsCapacity
<1>4. /\ WellConnected(new, size)
      /\ Written(new, d) = Enqueue(w, m) /\ Readable(new, d) = Readable(conn, d)
      /\ \A e \in Kind : e # d => /\ Written(new, e) = Written(conn, e)
                                  /\ Readable(new, e) = Readable(conn, e)
  <2>1. new = WithPair(conn, d, Enqueue(w, m), Readable(conn, d))
    BY DEF InsertIntoBuffer
  <2> HIDE DEF w
  <2> QED BY <1>1, <1>2, <2>1, ReplacePair
<1> QED BY <1>2, <1>3, <1>4

(***************************************************************************)
(* Receiving takes the head of what is readable in that direction.         *)
(***************************************************************************)
LEMMA RemoveReceives ==
  ASSUME NEW conn, NEW size, WellConnected(conn, size), NEW d \in Kind,
         NEW new, new = RemoveFromBuffer(conn, d)
  PROVE  /\ WellConnected(new, size)
         /\ IF Contents(Readable(conn, d)) = <<>>
              THEN Readable(new, d) = Readable(conn, d)
              ELSE Contents(Readable(new, d)) = Tail(Contents(Readable(conn, d)))
         /\ Written(new, d) = Written(conn, d)
         /\ \A e \in Kind : e # d => /\ Written(new, e) = Written(conn, e)
                                     /\ Readable(new, e) = Readable(conn, e)
<1> DEFINE r == Readable(conn, d)
<1>1. /\ WellFormed(Written(conn, d)) /\ Written(conn, d).maxBufferSize = size
      /\ WellFormed(r) /\ r.maxBufferSize = size
  BY BuffersOf
<1>2. /\ WellFormed(Dequeue(r)) /\ Dequeue(r).maxBufferSize = size
      /\ Contents(r) = <<>> => Dequeue(r) = r
      /\ Contents(r) # <<>> => Contents(Dequeue(r)) = Tail(Contents(r))
  BY <1>1, DequeueRemoves
<1>3. /\ WellConnected(new, size)
      /\ Written(new, d) = Written(conn, d) /\ Readable(new, d) = Dequeue(r)
      /\ \A e \in Kind : e # d => /\ Written(new, e) = Written(conn, e)
                                  /\ Readable(new, e) = Readable(conn, e)
  <2>1. new = WithPair(conn, d, Written(conn, d), Dequeue(r))
    BY DEF RemoveFromBuffer
  <2> HIDE DEF r
  <2> QED BY <1>1, <1>2, <2>1, ReplacePair
<1> QED BY <1>2, <1>3

(***************************************************************************)
(* SwapBuffers makes readable exactly what was written, and discards what  *)
(* was left unread.                                                        *)
(***************************************************************************)
LEMMA SwapDelivers ==
  ASSUME NEW conn, NEW size, WellConnected(conn, size),
         NEW new, new = SwapBuffers(conn)
  PROVE  /\ WellConnected(new, size)
         /\ \A d \in Kind : /\ Contents(Written(new, d)) = <<>>
                            /\ Readable(new, d) = Written(conn, d)
<1>1. \A d \in Kind : new[d] = Pair(Flush(Readable(conn, d)), Written(conn, d), d)
  BY DEF SwapBuffers
<1>2. new = [d \in Kind |-> new[d]]
  BY DEF SwapBuffers
<1>3. ASSUME NEW d \in Kind
      PROVE  /\ WellFormed(Flush(Readable(conn, d)))
             /\ Flush(Readable(conn, d)).maxBufferSize = size
             /\ Contents(Flush(Readable(conn, d))) = <<>>
             /\ WellFormed(Written(conn, d)) /\ Written(conn, d).maxBufferSize = size
  BY BuffersOf, FlushEmpties
<1>4. \A d \in Kind : new[d] = [id \in Sides |-> new[d][id]]
  BY <1>1, SidesOfPair
<1>5. \A d \in Kind, id \in Sides : WellFormed(new[d][id]) /\ new[d][id].maxBufferSize = size
  BY <1>1, <1>3, SidesOfPair
<1>6. WellConnected(new, size)
  BY <1>2, <1>4, <1>5 DEF WellConnected
<1>7. \A d \in Kind : /\ Written(new, d) = Flush(Readable(conn, d))
                      /\ Readable(new, d) = Written(conn, d)
  BY <1>1, SidesOfPair DEF Written, Readable
<1> QED BY <1>3, <1>6, <1>7

-----------------------------------------------------------------------------
(***************************************************************************)
(* The part of the invariant about the loops: the components already       *)
(* called, the one that is running, and the phase.                         *)
(***************************************************************************)
LoopInvariant ==
  /\ phase \in {"Clock", "PosClock"}
  /\ running \in Component \cup {NoComponent}
  /\ done \subseteq Component
  /\ done # Component
  /\ running # NoComponent => phase = "Clock" /\ running \notin done
  /\ totalCycles \in Nat

(***************************************************************************)
(* The part about the connections.                                         *)
(***************************************************************************)
ConnectionsInvariant ==
  /\ connections = [k \in Connections |-> connections[k]]
  /\ \A k \in Connections : WellConnected(connections[k], Size[k])

LEMMA TwoParts == LinkableInvariant <=> LoopInvariant /\ ConnectionsInvariant
  BY DEF LinkableInvariant, LoopInvariant, ConnectionsInvariant

(***************************************************************************)
(* An operation on one connection leaves the others alone.                 *)
(***************************************************************************)
LEMMA OneConnection ==
  ASSUME ConnectionsInvariant, NEW k \in Connections, NEW conn,
         WellConnected(conn, Size[k]),
         connections' = [connections EXCEPT ![k] = conn]
  PROVE  /\ ConnectionsInvariant'
         /\ connections'[k] = conn
         /\ \A j \in Connections : j # k => connections'[j] = connections[j]
<1>1. \A j \in Connections : connections'[j] = IF j = k THEN conn ELSE connections[j]
  BY DEF ConnectionsInvariant
<1>2. connections' = [j \in Connections |-> connections'[j]]
  BY DEF ConnectionsInvariant
<1>3. \A j \in Connections : WellConnected(connections'[j], Size[j])
  BY <1>1 DEF ConnectionsInvariant
<1>4. ConnectionsInvariant'
  BY <1>2, <1>3 DEF ConnectionsInvariant, WellConnected, WellFormed, Slot
<1> QED BY <1>1, <1>4

LEMMA SizesAreNat == \A k \in Connections : Size[k] \in Nat
  BY LinkableAssumption

(***************************************************************************)
(* The buffers of all connections stay well formed and the loops of the    *)
(* engine call every component once per cycle.                             *)
(***************************************************************************)
LEMMA SendKeeps ==
  ASSUME LinkableInvariant, NEW k \in Connections, NEW d \in Kind,
         NEW m \in Element, Send(k, d, m)
  PROVE  LinkableInvariant'
<1>1. WellConnected(InsertIntoBuffer(connections[k], d, m), Size[k])
  BY TwoParts, SizesAreNat, InsertSends DEF ConnectionsInvariant
<1>2. connections' = [connections EXCEPT ![k] = InsertIntoBuffer(connections[k], d, m)]
  BY DEF Send
<1>3. ConnectionsInvariant'
  BY <1>1, <1>2, TwoParts, OneConnection
<1>4. LoopInvariant'
  BY TwoParts DEF Send, LoopInvariant
<1> QED BY <1>3, <1>4 DEF LinkableInvariant, LoopInvariant, ConnectionsInvariant

LEMMA ReceiveKeeps ==
  ASSUME LinkableInvariant, NEW k \in Connections, NEW d \in Kind, Receive(k, d)
  PROVE  LinkableInvariant'
<1>1. WellConnected(RemoveFromBuffer(connections[k], d), Size[k])
  BY TwoParts, RemoveReceives DEF ConnectionsInvariant
<1>2. connections' = [connections EXCEPT ![k] = RemoveFromBuffer(connections[k], d)]
  BY DEF Receive
<1>3. ConnectionsInvariant'
  BY <1>1, <1>2, TwoParts, OneConnection
<1>4. LoopInvariant'
  BY TwoParts DEF Receive, LoopInvariant
<1> QED BY <1>3, <1>4 DEF LinkableInvariant, LoopInvariant, ConnectionsInvariant

LEMMA PosClockKeeps ==
  ASSUME LinkableInvariant, NEW c \in Component, PosClock(c)
  PROVE  LinkableInvariant'
<1>1. \A k \in Connections : connections'[k] = IF Owner[k] = c
                                                 THEN SwapBuffers(connections[k])
                                                 ELSE connections[k]
  BY DEF PosClock
<1>2. connections' = [k \in Connections |-> connections'[k]]
  BY DEF PosClock
<1>3. \A k \in Connections : WellConnected(connections'[k], Size[k])
  BY <1>1, TwoParts, SwapDelivers DEF ConnectionsInvariant
<1>4. ConnectionsInvariant'
  BY <1>2, <1>3 DEF ConnectionsInvariant, WellConnected, WellFormed, Slot
<1>5. LoopInvariant'
  <2>1. running' = NoComponent
    BY TwoParts DEF PosClock, LoopInvariant
  <2> QED BY <2>1, TwoParts, LinkableAssumption DEF PosClock, LoopInvariant
<1> QED BY <1>4, <1>5 DEF LinkableInvariant, LoopInvariant, ConnectionsInvariant

THEOREM LinkableIsWellFormed == Spec => []LinkableInvariant
<1>1. Init => LinkableInvariant
  <2> SUFFICES ASSUME Init PROVE LoopInvariant /\ ConnectionsInvariant
    BY TwoParts
  <2>1. LoopInvariant
    BY LinkableAssumption DEF Init, LoopInvariant
  <2>2. \A k \in Connections : connections[k] = CreateBuffers(Size[k])
    BY DEF Init
  <2>3. \A k \in Connections : WellConnected(connections[k], Size[k])
    BY <2>2, SizesAreNat, CreateConnects
  <2>4. connections = [k \in Connections |-> connections[k]]
    BY DEF Init
  <2> QED BY <2>1, <2>3, <2>4 DEF ConnectionsInvariant
<1>2. LinkableInvariant /\ [Next]_linkVars => LinkableInvariant'
  <2> SUFFICES ASSUME LinkableInvariant, [Next]_linkVars PROVE LinkableInvariant'
    OBVIOUS
  <2>l. LoopInvariant /\ ConnectionsInvariant
    BY TwoParts
  <2>u. ASSUME UNCHANGED connections PROVE ConnectionsInvariant'
    BY <2>u, <2>l DEF ConnectionsInvariant, WellConnected, WellFormed, Slot
  <2>1. ASSUME NEW c \in Component, EnterClock(c) PROVE LinkableInvariant'
    <3>1. LoopInvariant'
      BY <2>1, <2>l, LinkableAssumption DEF EnterClock, LoopInvariant
    <3>2. ConnectionsInvariant'
      BY <2>1, <2>u DEF EnterClock
    <3> QED BY <3>1, <3>2 DEF LinkableInvariant, LoopInvariant, ConnectionsInvariant
  <2>2. ASSUME NEW c \in Component, ReturnFromClock(c) PROVE LinkableInvariant'
    <3>1. LoopInvariant'
      BY <2>2, <2>l, LinkableAssumption DEF ReturnFromClock, LoopInvariant
    <3>2. ConnectionsInvariant'
      BY <2>2, <2>u DEF ReturnFromClock
    <3> QED BY <3>1, <3>2 DEF LinkableInvariant, LoopInvariant, ConnectionsInvariant
  <2>3. ASSUME NEW c \in Component, PosClock(c) PROVE LinkableInvariant'
    BY <2>3, PosClockKeeps
  <2>4. ASSUME NEW k \in Connections, NEW d \in Kind, Receive(k, d)
        PROVE  LinkableInvariant'
    BY <2>4, ReceiveKeeps
  <2>5. ASSUME NEW k \in Connections, NEW d \in Kind, NEW m \in Element, Send(k, d, m)
        PROVE  LinkableInvariant'
    BY <2>5, SendKeeps
  <2>6. CASE UNCHANGED linkVars
    <3>1. LoopInvariant'
      BY <2>6, <2>l DEF linkVars, LoopInvariant
    <3>2. ConnectionsInvariant'
      BY <2>6, <2>u DEF linkVars
    <3> QED BY <3>1, <3>2 DEF LinkableInvariant, LoopInvariant, ConnectionsInvariant
  <2> QED BY <2>1, <2>2, <2>3, <2>4, <2>5, <2>6 DEF Next
<1> QED BY <1>1, <1>2, PTL DEF Spec

-----------------------------------------------------------------------------
(***************************************************************************)
(* What the primed forms of the state functions are.                       *)
(***************************************************************************)
LEMMA PrimedChannels ==
  \A k \in Connections, d \in Kind :
    /\ Contents(Readable(connections[k], d))' = Contents(Readable(connections'[k], d))
    /\ Contents(Written(connections[k], d))' = Contents(Written(connections'[k], d))
    /\ Channel(k, d)' =
         IF phase' = "PosClock" /\ Owner[k] \notin done'
           THEN [written  |-> <<>>,
                 readable |-> Contents(Written(connections'[k], d))]
           ELSE [written  |-> Contents(Written(connections'[k], d)),
                 readable |-> Contents(Readable(connections'[k], d))]
  BY DEF Channel, Contents, Written, Readable, Slot, WriteSide, ReadSide

(***************************************************************************)
(* Someone who sends or receives is a component inside the Clock loop.     *)
(***************************************************************************)
LEMMA RunningInClock ==
  ASSUME LinkableInvariant, NEW k \in Connections, NEW d \in Kind,
         running = Writer(k, d) \/ running = Reader(k, d)
  PROVE  phase = "Clock"
<1>1. running \in Component
  BY LinkableAssumption DEF Writer, Reader, Kind
<1> QED BY <1>1, LinkableAssumption, TwoParts DEF LoopInvariant

(***************************************************************************)
(* What a send and a receive do to every channel.                          *)
(***************************************************************************)
LEMMA SendEffect ==
  ASSUME LinkableInvariant, NEW k \in Connections, NEW d \in Kind,
         NEW m \in Element, Send(k, d, m)
  PROVE  /\ \A j \in Connections, e \in Kind :
              (j # k \/ e # d) =>
                /\ Written(connections'[j], e) = Written(connections[j], e)
                /\ Readable(connections'[j], e) = Readable(connections[j], e)
         /\ Readable(connections'[k], d) = Readable(connections[k], d)
         /\ Contents(Written(connections'[k], d)) =
              IF Size[k] = 0 \/ Len(Contents(Written(connections[k], d))) < Size[k]
                THEN Append(Contents(Written(connections[k], d)), m)
                ELSE Contents(Written(connections[k], d))
<1> DEFINE new == InsertIntoBuffer(connections[k], d, m)
<1>1. /\ WellConnected(new, Size[k])
      /\ Contents(Written(new, d)) =
           IF Size[k] = 0 \/ Len(Contents(Written(connections[k], d))) < Size[k]
             THEN Append(Contents(Written(connections[k], d)), m)
             ELSE Contents(Written(connections[k], d))
      /\ Readable(new, d) = Readable(connections[k], d)
      /\ \A e \in Kind : e # d => /\ Written(new, e) = Written(connections[k], e)
                                  /\ Readable(new, e) = Readable(connections[k], e)
  BY TwoParts, SizesAreNat, InsertSends DEF ConnectionsInvariant
<1>2. connections' = [connections EXCEPT ![k] = new]
  BY DEF Send
<1> HIDE DEF new
<1>3. /\ connections'[k] = new
      /\ \A j \in Connections : j # k => connections'[j] = connections[j]
  BY <1>1, <1>2, TwoParts, OneConnection
<1> QED BY <1>1, <1>3

LEMMA ReceiveEffect ==
  ASSUME LinkableInvariant, NEW k \in Connections, NEW d \in Kind, Receive(k, d)
  PROVE  /\ \A j \in Connections, e \in Kind :
              (j # k \/ e # d) =>
                /\ Written(connections'[j], e) = Written(connections[j], e)
                /\ Readable(connections'[j], e) = Readable(connections[j], e)
         /\ Written(connections'[k], d) = Written(connections[k], d)
         /\ IF Contents(Readable(connections[k], d)) = <<>>
              THEN Readable(connections'[k], d) = Readable(connections[k], d)
              ELSE Contents(Readable(connections'[k], d)) =
                     Tail(Contents(Readable(connections[k], d)))
<1> DEFINE new == RemoveFromBuffer(connections[k], d)
<1>1. /\ WellConnected(new, Size[k])
      /\ IF Contents(Readable(connections[k], d)) = <<>>
           THEN Readable(new, d) = Readable(connections[k], d)
           ELSE Contents(Readable(new, d)) = Tail(Contents(Readable(connections[k], d)))
      /\ Written(new, d) = Written(connections[k], d)
      /\ \A e \in Kind : e # d => /\ Written(new, e) = Written(connections[k], e)
                                  /\ Readable(new, e) = Readable(connections[k], e)
  BY TwoParts, RemoveReceives DEF ConnectionsInvariant
<1>2. connections' = [connections EXCEPT ![k] = new]
  BY DEF Receive
<1> HIDE DEF new
<1>3. /\ connections'[k] = new
      /\ \A j \in Connections : j # k => connections'[j] = connections[j]
  BY <1>1, <1>2, TwoParts, OneConnection
<1> QED BY <1>1, <1>3

-----------------------------------------------------------------------------
(***************************************************************************)
(* No component can observe that another one ran before it in the same     *)
(* cycle: during the Clock loop what can be read only changes by reading.  *)
(***************************************************************************)
THEOREM ClockOrderIsInvisible == Spec => ReadersAreUndisturbed
<1>1. LinkableInvariant /\ [Next]_linkVars =>
        [ \A k \in Connections, d \in Kind :
            LET waiting == Contents(Readable(connections[k], d))
            IN  phase = "Clock" /\ waiting' # waiting =>
                  /\ running = Reader(k, d)
                  /\ waiting # <<>> /\ waiting' = Tail(waiting) ]_linkVars
  <2> SUFFICES ASSUME LinkableInvariant, Next, NEW j \in Connections, NEW e \in Kind,
                      phase = "Clock",
                      Contents(Readable(connections'[j], e)) #
                        Contents(Readable(connections[j], e))
               PROVE  /\ running = Reader(j, e)
                      /\ Contents(Readable(connections[j], e)) # <<>>
                      /\ Contents(Readable(connections'[j], e)) =
                           Tail(Contents(Readable(connections[j], e)))
    BY PrimedChannels
  <2>1. ASSUME NEW c \in Component, EnterClock(c) \/ ReturnFromClock(c) PROVE FALSE
    BY <2>1 DEF EnterClock, ReturnFromClock
  <2>2. ASSUME NEW c \in Component, PosClock(c) PROVE FALSE
    BY <2>2 DEF PosClock
  <2>3. ASSUME NEW k \in Connections, NEW d \in Kind, NEW m \in Element, Send(k, d, m)
        PROVE  FALSE
    BY <2>3, SendEffect
  <2>4. ASSUME NEW k \in Connections, NEW d \in Kind, Receive(k, d)
        PROVE  /\ running = Reader(j, e)
               /\ Contents(Readable(connections[j], e)) # <<>>
               /\ Contents(Readable(connections'[j], e)) =
                    Tail(Contents(Readable(connections[j], e)))
    <3>1. j = k /\ e = d
      BY <2>4, ReceiveEffect
    <3>2. running = Reader(j, e)
      BY <2>4, <3>1 DEF Receive
    <3> QED BY <2>4, <3>1, <3>2, ReceiveEffect
  <2> QED BY <2>1, <2>2, <2>3, <2>4 DEF Next
<1> QED BY <1>1, LinkableIsWellFormed, PTL DEF Spec, ReadersAreUndisturbed

-----------------------------------------------------------------------------
(***************************************************************************)
(* The channels of SynchronousCycle as a state function of the connections.*)
(***************************************************************************)
Channels == [k \in Connections |-> [d \in Kind |-> Channel(k, d)]]

LEMMA PrimedChannelsFunction ==
  Channels' = [k \in Connections |-> [d \in Kind |-> Channel(k, d)']]
  BY DEF Channels

(***************************************************************************)
(* In the Clock loop a channel is what its two buffers hold.               *)
(***************************************************************************)
LEMMA ChannelInClock ==
  ASSUME phase = "Clock", NEW k \in Connections, NEW d \in Kind
  PROVE  Channel(k, d) = [written  |-> Contents(Written(connections[k], d)),
                          readable |-> Contents(Readable(connections[k], d))]
  BY DEF Channel

(***************************************************************************)
(* A step that leaves connections, phase and done alone leaves every       *)
(* channel alone.                                                          *)
(***************************************************************************)
LEMMA SameChannels ==
  ASSUME UNCHANGED <<phase, done, connections>>
  PROVE  Channels' = Channels
<1>1. \A k \in Connections, d \in Kind : Channel(k, d)' = Channel(k, d)
  BY PrimedChannels DEF Channel
<1> QED BY <1>1, PrimedChannelsFunction DEF Channels

(***************************************************************************)
(* A step that changes one channel updates Channels at that channel.       *)
(***************************************************************************)
LEMMA OneChannel ==
  ASSUME NEW k \in Connections, NEW d \in Kind, NEW ch,
         Channel(k, d)' = ch,
         \A j \in Connections, e \in Kind :
           (j # k \/ e # d) => Channel(j, e)' = Channel(j, e)
  PROVE  Channels' = [Channels EXCEPT ![k][d] = ch]
<1> DEFINE row == [Channels[k] EXCEPT ![d] = ch]
<1>1. row = [e \in Kind |-> Channel(k, e)']
  <2>1. Channels[k] = [e \in Kind |-> Channel(k, e)]
    BY DEF Channels
  <2> QED BY <2>1
<1>2. \A j \in Connections : j # k =>
        [e \in Kind |-> Channel(j, e)'] = [e \in Kind |-> Channel(j, e)]
  OBVIOUS
<1>3. \A j \in Connections : Channels'[j] = [e \in Kind |-> Channel(j, e)']
  BY PrimedChannelsFunction
<1>4. \A j \in Connections : Channels[j] = [e \in Kind |-> Channel(j, e)]
  BY DEF Channels
<1>5. \A j \in Connections : Channels'[j] = IF j = k THEN row ELSE Channels[j]
  BY <1>1, <1>2, <1>3, <1>4
<1>6. DOMAIN Channels = Connections /\ Channels' = [j \in Connections |-> Channels'[j]]
  BY PrimedChannelsFunction DEF Channels
<1> HIDE DEF row
<1>7. Channels' = [Channels EXCEPT ![k] = row]
  <2>1. Channels = [j \in Connections |-> Channels[j]]
    BY DEF Channels
  <2> QED BY <1>5, <1>6, <2>1
<1> QED BY <1>7 DEF row

(***************************************************************************)
(* A send in the Clock loop is a Send of the specification, or nothing at  *)
(* all when the buffer is full.                                            *)
(***************************************************************************)
LEMMA SendImplements ==
  ASSUME LinkableInvariant, NEW k \in Connections, NEW d \in Kind,
         NEW m \in Element, Send(k, d, m)
  PROVE  Cycle!Send(k, d, m) \/ UNCHANGED Cycle!cycleVars
<1> DEFINE fits == Size[k] = 0 \/ Len(Contents(Written(connections[k], d))) < Size[k]
<1>1. phase = "Clock" /\ phase' = "Clock"
  BY RunningInClock DEF Send
<1>2. UNCHANGED <<phase, running, done, totalCycles>> /\ running = Writer(k, d)
  BY DEF Send
<1>3. \A j \in Connections, e \in Kind :
        Channel(j, e)' = [written  |-> Contents(Written(connections'[j], e)),
                          readable |-> Contents(Readable(connections'[j], e))]
  BY <1>1, PrimedChannels
<1>4. \A j \in Connections, e \in Kind :
        (j # k \/ e # d) => Channel(j, e)' = Channel(j, e)
  BY <1>1, <1>3, SendEffect, ChannelInClock
<1>5. CASE fits
  <2>1. Channel(k, d)' = [written  |-> Append(Channel(k, d).written, m),
                          readable |-> Channel(k, d).readable]
    <3>1. Contents(Written(connections'[k], d)) =
            Append(Contents(Written(connections[k], d)), m)
      BY <1>5, SendEffect
    <3>2. Readable(connections'[k], d) = Readable(connections[k], d)
      BY SendEffect
    <3>3. /\ Channel(k, d).written = Contents(Written(connections[k], d))
          /\ Channel(k, d).readable = Contents(Readable(connections[k], d))
      BY <1>1, ChannelInClock
    <3> QED BY <1>3, <3>1, <3>2, <3>3
  <2>2. Channels' = [Channels EXCEPT ![k][d] =
                       [written  |-> Append(Channels[k][d].written, m),
                        readable |-> Channels[k][d].readable]]
    <3>1. Channels[k][d] = Channel(k, d)
      BY DEF Channels
    <3>2. Channels' = [Channels EXCEPT ![k][d] = Channel(k, d)']
      BY <1>4, OneChannel
    <3> QED BY <2>1, <3>1, <3>2
  <2>3. Cycle!Fits(k, Channels[k][d].written)
    BY <1>1, <1>5, ChannelInClock DEF Cycle!Fits, Channels
  <2>4. running = Cycle!Writer(k, d)
    BY <1>2 DEF Writer, Cycle!Writer
  <2> QED BY <1>1, <1>2, <2>2, <2>3, <2>4 DEF Cycle!Send, Channels
<1>6. CASE ~fits
  <2>1. Channel(k, d)' = Channel(k, d)
    BY <1>1, <1>3, <1>6, SendEffect, ChannelInClock
  <2>2. Channels' = Channels
    BY <1>4, <2>1, PrimedChannelsFunction DEF Channels
  <2> QED BY <1>1, <1>2, <2>2 DEF Cycle!cycleVars, Channels
<1> QED BY <1>5, <1>6

LEMMA ReceiveImplements ==
  ASSUME LinkableInvariant, NEW k \in Connections, NEW d \in Kind, Receive(k, d)
  PROVE  Cycle!Receive(k, d) \/ UNCHANGED Cycle!cycleVars
<1> DEFINE waiting == Contents(Readable(connections[k], d))
<1>1. phase = "Clock" /\ phase' = "Clock"
  BY RunningInClock DEF Receive
<1>2. UNCHANGED <<phase, running, done, totalCycles>> /\ running = Reader(k, d)
  BY DEF Receive
<1>3. \A j \in Connections, e \in Kind :
        Channel(j, e)' = [written  |-> Contents(Written(connections'[j], e)),
                          readable |-> Contents(Readable(connections'[j], e))]
  BY <1>1, PrimedChannels
<1>4. \A j \in Connections, e \in Kind :
        (j # k \/ e # d) => Channel(j, e)' = Channel(j, e)
  BY <1>1, <1>3, ReceiveEffect, ChannelInClock
<1>5. CASE waiting # <<>>
  <2>1. Channel(k, d)' = [written  |-> Channel(k, d).written,
                          readable |-> Tail(Channel(k, d).readable)]
    BY <1>1, <1>3, <1>5, ReceiveEffect, ChannelInClock
  <2>2. Channels' = [Channels EXCEPT ![k][d] =
                       [written  |-> Channels[k][d].written,
                        readable |-> Tail(Channels[k][d].readable)]]
    <3>1. Channels[k][d] = Channel(k, d)
      BY DEF Channels
    <3>2. Channels' = [Channels EXCEPT ![k][d] = Channel(k, d)']
      BY <1>4, OneChannel
    <3> QED BY <2>1, <3>1, <3>2
  <2>3. Channels[k][d].readable # <<>>
    BY <1>1, <1>5, ChannelInClock DEF Channels
  <2>4. running = Cycle!Reader(k, d)
    BY <1>2 DEF Reader, Cycle!Reader
  <2> QED BY <1>1, <1>2, <2>2, <2>3, <2>4 DEF Cycle!Receive, Channels
<1>6. CASE waiting = <<>>
  <2>1. Channel(k, d)' = Channel(k, d)
    BY <1>1, <1>3, <1>6, ReceiveEffect, ChannelInClock
  <2>2. Channels' = Channels
    BY <1>4, <2>1, PrimedChannelsFunction DEF Channels
  <2> QED BY <1>1, <1>2, <2>2 DEF Cycle!cycleVars, Channels
<1> QED BY <1>5, <1>6

(***************************************************************************)
(* The return from a Clock() ends the turn of that component, and the      *)
(* cycle when it was the last one.                                         *)
(***************************************************************************)
LEMMA ReturnImplements ==
  ASSUME LinkableInvariant, NEW c \in Component, ReturnFromClock(c)
  PROVE  Cycle!End(c)
<1>1. phase = "Clock" /\ running = c /\ running' = NoComponent
  BY TwoParts, LinkableAssumption DEF ReturnFromClock, LoopInvariant
<1>2. UNCHANGED <<connections, totalCycles>>
  BY DEF ReturnFromClock
<1>3. CASE done \cup {c} = Component
  <2>1. phase' = "PosClock" /\ done' = {}
    BY <1>3 DEF ReturnFromClock
  <2>2. \A k \in Connections, d \in Kind :
          Channel(k, d)' = [written  |-> <<>>,
                            readable |-> Channel(k, d).written]
    BY <1>1, <1>2, <2>1, PrimedChannels, ChannelInClock
  <2>3. Channels' = [k \in Connections |-> [d \in Kind |->
                      [written |-> <<>>, readable |-> Channels[k][d].written]]]
    BY <2>2, PrimedChannelsFunction DEF Channels
  <2> QED BY <1>1, <1>2, <1>3, <2>1, <2>3 DEF Cycle!End, Channels, Kind, Cycle!Kind
<1>4. CASE done \cup {c} # Component
  <2>1. phase' = phase /\ done' = done \cup {c}
    BY <1>4 DEF ReturnFromClock
  <2>2. \A k \in Connections, d \in Kind : Channel(k, d)' = Channel(k, d)
    BY <1>1, <1>2, <2>1, PrimedChannels, ChannelInClock
  <2>3. Channels' = Channels
    BY <2>2, PrimedChannelsFunction DEF Channels
  <2> QED BY <1>1, <1>2, <1>4, <2>1, <2>3 DEF Cycle!End, Channels
<1> QED BY <1>3, <1>4

(***************************************************************************)
(* The PosClock() calls are invisible: each one does to its connections    *)
(* what the end of the cycle was already taken to have done.               *)
(***************************************************************************)
LEMMA PosClockImplements ==
  ASSUME LinkableInvariant, NEW c \in Component, PosClock(c)
  PROVE  UNCHANGED Cycle!cycleVars
<1>1. phase = "PosClock" /\ c \notin done /\ UNCHANGED running
  BY DEF PosClock
<1>2. \A k \in Connections : connections'[k] = IF Owner[k] = c
                                                 THEN SwapBuffers(connections[k])
                                                 ELSE connections[k]
  BY DEF PosClock
<1>3. /\ done \cup {c} = Component =>
           phase' = "Clock" /\ done' = {} /\ totalCycles' = totalCycles + 1
      /\ done \cup {c} # Component =>
           phase' = "PosClock" /\ done' = done \cup {c} /\ totalCycles' = totalCycles
  BY <1>1 DEF PosClock
<1>4. ASSUME NEW k \in Connections, NEW d \in Kind
      PROVE  Channel(k, d)' = Channel(k, d)
  <2>1. CASE Owner[k] = c
    <3>1. /\ Contents(Written(connections'[k], d)) = <<>>
          /\ Readable(connections'[k], d) = Written(connections[k], d)
      BY <2>1, <1>2, TwoParts, SwapDelivers DEF ConnectionsInvariant
    <3>2. Channel(k, d) = [written  |-> <<>>,
                           readable |-> Contents(Written(connections[k], d))]
      BY <1>1, <2>1 DEF Channel
    <3>3. ~(phase' = "PosClock" /\ Owner[k] \notin done')
      BY <1>3, <2>1
    <3> QED BY <3>1, <3>2, <3>3, PrimedChannels
  <2>2. CASE Owner[k] # c
    <3>1. connections'[k] = connections[k]
      BY <2>2, <1>2
    <3>2. Owner[k] \in Component
      BY LinkableAssumption
    <3>3. (phase' = "PosClock" /\ Owner[k] \notin done') <=>
            (phase = "PosClock" /\ Owner[k] \notin done)
      BY <1>1, <1>3, <2>2, <3>2
    <3> QED BY <3>1, <3>3, PrimedChannels DEF Channel
  <2> QED BY <2>1, <2>2
<1>5. Channels' = Channels
  BY <1>4, PrimedChannelsFunction DEF Channels
<1>6. /\ (IF phase = "Clock" THEN done ELSE {})' = (IF phase = "Clock" THEN done ELSE {})
      /\ (IF phase = "Clock" THEN totalCycles ELSE totalCycles + 1)' =
         (IF phase = "Clock" THEN totalCycles ELSE totalCycles + 1)
  BY <1>1, <1>3
<1> QED BY <1>1, <1>5, <1>6 DEF Cycle!cycleVars, Channels

-----------------------------------------------------------------------------
(***************************************************************************)
(* The double buffering of linkable.cpp under the two loops of the engine  *)
(* implements SynchronousCycle: a message is readable in exactly the cycle *)
(* after it was sent, and the order of Clock() and of PosClock() calls     *)
(* makes no difference to what is delivered.                               *)
(***************************************************************************)
THEOREM LinkableIsSynchronous == Spec => IsSynchronous
<1>1. Init => Cycle!Init
  <2> SUFFICES ASSUME Init PROVE Cycle!Init
    OBVIOUS
  <2>1. \A k \in Connections : connections[k] = CreateBuffers(Size[k])
    BY DEF Init
  <2>2. phase = "Clock" /\ running = NoComponent /\ done = {} /\ totalCycles = 0
    BY DEF Init
  <2>3. \A k \in Connections, d \in Kind :
          Channel(k, d) = [written |-> <<>>, readable |-> <<>>]
    BY <2>1, <2>2, SizesAreNat, CreateConnects, ChannelInClock
  <2>4. Channels = [k \in Connections |-> [d \in Kind |->
                      [written |-> <<>>, readable |-> <<>>]]]
    BY <2>3 DEF Channels
  <2> QED BY <2>2, <2>4 DEF Cycle!Init, Channels, Kind, Cycle!Kind
<1>2. LinkableInvariant /\ [Next]_linkVars => [Cycle!Next]_(Cycle!cycleVars)
  <2> SUFFICES ASSUME LinkableInvariant, [Next]_linkVars
               PROVE  Cycle!Next \/ UNCHANGED Cycle!cycleVars
    OBVIOUS
  <2>1. ASSUME NEW c \in Component, EnterClock(c) PROVE Cycle!Next
    <3>1. Channels' = Channels
      BY <2>1, SameChannels DEF EnterClock
    <3>2. Cycle!Begin(c)
      BY <2>1, <3>1 DEF EnterClock, Cycle!Begin, Channels
    <3> QED BY <3>2 DEF Cycle!Next
  <2>2. ASSUME NEW c \in Component, ReturnFromClock(c) PROVE Cycle!Next
    BY <2>2, ReturnImplements DEF Cycle!Next
  <2>3. ASSUME NEW c \in Component, PosClock(c) PROVE UNCHANGED Cycle!cycleVars
    BY <2>3, PosClockImplements
  <2>4. ASSUME NEW k \in Connections, NEW d \in Kind, Receive(k, d)
        PROVE  Cycle!Next \/ UNCHANGED Cycle!cycleVars
    BY <2>4, ReceiveImplements DEF Cycle!Next, Kind, Cycle!Kind
  <2>5. ASSUME NEW k \in Connections, NEW d \in Kind, NEW m \in Element, Send(k, d, m)
        PROVE  Cycle!Next \/ UNCHANGED Cycle!cycleVars
    BY <2>5, SendImplements DEF Cycle!Next, Kind, Cycle!Kind
  <2>6. CASE UNCHANGED linkVars
    <3>1. Channels' = Channels
      BY <2>6, SameChannels DEF linkVars
    <3> QED BY <2>6, <3>1 DEF linkVars, Cycle!cycleVars, Channels
  <2> QED BY <2>1, <2>2, <2>3, <2>4, <2>5, <2>6 DEF Next
<1> QED BY <1>1, <1>2, LinkableIsWellFormed, PTL DEF Spec, IsSynchronous, Cycle!Spec
=============================================================================
