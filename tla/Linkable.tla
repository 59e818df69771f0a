------------------------------ MODULE Linkable ------------------------------
(***************************************************************************)
(* The components of a simulation, their connections, and the loop of      *)
(* Engine::Simulate (src/src/engine/engine.cpp) that calls Clock() of      *)
(* every component and then PosClock() of every component.  A Clock() is   *)
(* any sequence of message operations of that component.  The program has  *)
(* one thread and a fixed order of components; the order is left open      *)
(* here, for Clock and for PosClock, because nothing may depend on it.     *)
(***************************************************************************)
EXTENDS Connection

CONSTANTS
  Component,    \* the objects in Engine::components
  Connections,  \* all connections of all of them
  User,         \* User[k]: the component that called Connect
  Owner,        \* Owner[k]: the component that holds k in its connections
  Size,         \* Size[k]: the argument of Connect
  NoComponent,
  LargestSize,  \* the largest buffer memory has room for
  MaxCycle      \* the cycles that are explored

ASSUME LinkableAssumption ==
  /\ User \in [Connections -> Component]
  /\ Owner \in [Connections -> Component]
  /\ Size \in [Connections -> Nat]
  /\ Component # {}    \* the engine itself is one
  /\ NoComponent \notin Component
  /\ LargestSize \in Nat
  /\ MaxCycle \in Nat

VARIABLES
  phase,        \* which of the two loops over the components is running
  running,      \* the component whose Clock() is being executed
  done,         \* the components the current loop has called
  connections,  \* connections[k]: the Connection object
  totalCycles

linkVars == <<phase, running, done, connections, totalCycles>>

Writer(k, d) == IF d = "request" THEN User[k] ELSE Owner[k]
Reader(k, d) == IF d = "request" THEN Owner[k] ELSE User[k]

Init ==
  /\ phase = "Clock"
  /\ running = NoComponent
  /\ done = {}
  /\ connections = [k \in Connections |-> CreateBuffers(Size[k])]
  /\ totalCycles = 0

EnterClock(c) ==
  /\ phase = "Clock"
  /\ running = NoComponent
  /\ c \notin done
  /\ totalCycles < MaxCycle
  /\ running' = c
  /\ UNCHANGED <<phase, done, connections, totalCycles>>

(***************************************************************************)
(* SendRequest and SendResponseToConnection; a full buffer returns 1 and   *)
(* leaves the connection as it is.                                         *)
(***************************************************************************)
Send(k, d, m) ==
  /\ running = Writer(k, d)
  /\ LET b == Written(connections[k], d)
     IN  IsFull(b) => b.maxBufferSize # 0 \/ 2 * b.bufferSize <= LargestSize
  /\ connections' = [connections EXCEPT ![k] = InsertIntoBuffer(@, d, m)]
  /\ UNCHANGED <<phase, running, done, totalCycles>>

(***************************************************************************)
(* ReceiveRequestFromConnection and ReceiveResponse.                       *)
(***************************************************************************)
Receive(k, d) ==
  /\ running = Reader(k, d)
  /\ connections' = [connections EXCEPT ![k] = RemoveFromBuffer(@, d)]
  /\ UNCHANGED <<phase, running, done, totalCycles>>

ReturnFromClock(c) ==
  /\ running = c
  /\ c \in Component
  /\ running' = NoComponent
  /\ IF done \cup {c} = Component
       THEN phase' = "PosClock" /\ done' = {}
       ELSE phase' = phase /\ done' = done \cup {c}
  /\ UNCHANGED <<connections, totalCycles>>

PosClock(c) ==
  /\ phase = "PosClock"
  /\ c \notin done
  /\ connections' = [k \in Connections |->
                       IF Owner[k] = c THEN SwapBuffers(connections[k])
                                       ELSE connections[k]]
  /\ IF done \cup {c} = Component
       THEN phase' = "Clock" /\ done' = {} /\ totalCycles' = totalCycles + 1
       ELSE phase' = phase /\ done' = done \cup {c} /\ totalCycles' = totalCycles
  /\ UNCHANGED running

Next ==
  \/ \E c \in Component : EnterClock(c) \/ ReturnFromClock(c) \/ PosClock(c)
  \/ \E k \in Connections, d \in Kind :
       \/ Receive(k, d)
       \/ \E m \in Element : Send(k, d, m)

Spec == Init /\ [][Next]_linkVars

-----------------------------------------------------------------------------
(***************************************************************************)
(* Type invariant.  The four buffers of a connection always are four well  *)
(* formed buffers of the size given to Connect, and whoever is running     *)
(* runs inside the Clock loop and has not run before in this cycle.        *)
(***************************************************************************)
LinkableInvariant ==
  /\ phase \in {"Clock", "PosClock"}
  /\ running \in Component \cup {NoComponent}
  /\ done \subseteq Component
  /\ done # Component
  /\ running # NoComponent => phase = "Clock" /\ running \notin done
  /\ totalCycles \in Nat
  /\ connections = [k \in Connections |-> connections[k]]
  /\ \A k \in Connections : WellConnected(connections[k], Size[k])

(***************************************************************************)
(* While a component runs, nothing it can read changes but by its own      *)
(* reading: in the Clock loop the messages waiting in a channel only ever  *)
(* lose their head, and only to the reader of that channel.  This is why   *)
(* the order of the components in the loop does not matter.                *)
(***************************************************************************)
ReadersAreUndisturbed ==
  [][ \A k \in Connections, d \in Kind :
        LET waiting == Contents(Readable(connections[k], d))
        IN  phase = "Clock" /\ waiting' # waiting =>
              /\ running = Reader(k, d)
              /\ waiting # <<>> /\ waiting' = Tail(waiting) ]_linkVars

(***************************************************************************)
(* linkable.cpp under the loop of the engine implements SynchronousCycle.  *)
(* In the PosClock loop the connections that were not swapped yet are seen *)
(* as they will be after their swap: the cycle ends when the last Clock()  *)
(* returns, whatever the order of the PosClock() calls that follow.        *)
(***************************************************************************)
Channel(k, d) ==
  IF phase = "PosClock" /\ Owner[k] \notin done
    THEN [written  |-> <<>>,
          readable |-> Contents(Written(connections[k], d))]
    ELSE [written  |-> Contents(Written(connections[k], d)),
          readable |-> Contents(Readable(connections[k], d))]

Cycle == INSTANCE SynchronousCycle WITH
  Connection <- Connections,
  clocked <- IF phase = "Clock" THEN done ELSE {},
  channel <- [k \in Connections |-> [d \in Kind |-> Channel(k, d)]],
  cycle   <- IF phase = "Clock" THEN totalCycles ELSE totalCycles + 1

IsSynchronous == Cycle!Spec
=============================================================================
