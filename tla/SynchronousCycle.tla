-------------------------- MODULE SynchronousCycle --------------------------
(***************************************************************************)
(* The message passing a simulated component is promised (the note on      *)
(* Component in src/src/engine/component.hpp): all components act once in  *)
(* a cycle, in whatever order; a message sent in a cycle can be read by    *)
(* its receiver during the next cycle, all of it and in the order of       *)
(* sending, and is discarded at the end of that cycle.                     *)
(*                                                                         *)
(* A connection is a pair of channels: requests flow from the component    *)
(* that connected (User) to the component it connected to (Owner), and     *)
(* responses flow back.  A channel is the sequence being written in this   *)
(* cycle and the sequence being read, which was written in the last one.   *)
(***************************************************************************)
EXTENDS Integers, Sequences, FiniteSets

CONSTANTS
  Component,    \* the simulated components, the engine being one of them
  Connection,   \* the connections between them
  Element,      \* the messages
  User,         \* User[k]: the component that called Connect
  Owner,        \* Owner[k]: the component it connected to
  Size,         \* Size[k]: the bufferSize of Connect, 0 meaning unbounded
  NoComponent   \* nobody is running

Kind == {"request", "response"}

VARIABLES
  running,      \* the component whose Clock() is being executed
  clocked,      \* the components whose Clock() already ran in this cycle
  channel,      \* channel[k][d]: the two sequences of a channel
  cycle         \* the number of completed cycles

cycleVars == <<running, clocked, channel, cycle>>

Writer(k, d) == IF d = "request" THEN User[k] ELSE Owner[k]
Reader(k, d) == IF d = "request" THEN Owner[k] ELSE User[k]

Fits(k, s) == Size[k] = 0 \/ Len(s) < Size[k]

Init ==
  /\ running = NoComponent
  /\ clocked = {}
  /\ channel = [k \in Connection |->
                  [d \in Kind |-> [written |-> <<>>, readable |-> <<>>]]]
  /\ cycle = 0

Begin(c) ==
  /\ running = NoComponent
  /\ c \notin clocked
  /\ running' = c
  /\ UNCHANGED <<clocked, channel, cycle>>

Send(k, d, m) ==
  /\ running = Writer(k, d)
  /\ Fits(k, channel[k][d].written)
  /\ channel' = [channel EXCEPT ![k][d] =
                   [written  |-> Append(channel[k][d].written, m),
                    readable |-> channel[k][d].readable]]
  /\ UNCHANGED <<running, clocked, cycle>>

Receive(k, d) ==
  /\ running = Reader(k, d)
  /\ channel[k][d].readable # <<>>
  /\ channel' = [channel EXCEPT ![k][d] =
                   [written  |-> channel[k][d].written,
                    readable |-> Tail(channel[k][d].readable)]]
  /\ UNCHANGED <<running, clocked, cycle>>

(***************************************************************************)
(* The last component of a cycle takes all channels to the next one.       *)
(***************************************************************************)
End(c) ==
  /\ running = c
  /\ c \in Component
  /\ running' = NoComponent
  /\ IF clocked \cup {c} = Component
       THEN /\ clocked' = {}
            /\ cycle' = cycle + 1
            /\ channel' = [k \in Connection |->
                             [d \in Kind |->
                                [written  |-> <<>>,
                                 readable |-> channel[k][d].written]]]
       ELSE /\ clocked' = clocked \cup {c}
            /\ UNCHANGED <<channel, cycle>>

Next ==
  \/ \E c \in Component : Begin(c) \/ End(c)
  \/ \E k \in Connection, d \in Kind :
       \/ Receive(k, d)
       \/ \E m \in Element : Send(k, d, m)

Spec == Init /\ [][Next]_cycleVars
=============================================================================
