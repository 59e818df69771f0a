------------------------------- MODULE Replay -------------------------------
(***************************************************************************)
(* What the engine relies on when it asks a TraceReader                    *)
(* (src/src/tracer/trace_reader.hpp) for "the next executed instruction"   *)
(* of a thread: a thread executes whole basic blocks, and the instructions *)
(* of a block are handed out one by one, all of them and in order.         *)
(***************************************************************************)
EXTENDS Integers, Sequences

CONSTANTS
  Thread,         \* the thread identifiers
  Block,          \* the basic blocks of the traced program
  BlockSize,      \* BlockSize[b]: the number of instructions of b
  NoThread,
  NoInstruction

VARIABLES
  due,            \* due[t]: the rest of the block that t is in
  answer          \* what the last Fetch returned

replayVars == <<due, answer>>

(***************************************************************************)
(* The instructions of block b from index i on.                            *)
(***************************************************************************)
From(b, i) == [n \in 1 .. BlockSize[b] - i |-> <<b, i + n - 1>>]

NoAnswer == [tid |-> NoThread, result |-> "none", inst |-> NoInstruction]

Init ==
  /\ due = [t \in Thread |-> <<>>]
  /\ answer = NoAnswer

(***************************************************************************)
(* The rest of the block if there is one, otherwise a whole new block.     *)
(***************************************************************************)
Continuations(t) ==
  IF due[t] # <<>> THEN {due[t]} ELSE {From(b, 0) : b \in Block}

HandOut(t) ==
  \E rest \in Continuations(t) :
    /\ answer' = [tid |-> t, result |-> "Ok", inst |-> Head(rest)]
    /\ due' = [due EXCEPT ![t] = Tail(rest)]

Decline(t, result) ==
  /\ answer' = [tid |-> t, result |-> result, inst |-> NoInstruction]
  /\ UNCHANGED due

(***************************************************************************)
(* A damaged memory trace can be noticed only when the block is known.     *)
(***************************************************************************)
Fail(t) ==
  \E rest \in Continuations(t) :
    /\ answer' = [tid |-> t, result |-> "Error", inst |-> Head(rest)]
    /\ due' = [due EXCEPT ![t] = rest]

Begin ==
  /\ answer' = NoAnswer
  /\ UNCHANGED due

Next ==
  \/ Begin
  \/ \E t \in Thread :
       \/ HandOut(t)
       \/ Fail(t)
       \/ \E result \in {"End", "Nop", "Error"} : Decline(t, result)

Spec == Init /\ [][Next]_replayVars
=============================================================================
