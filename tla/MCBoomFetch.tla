----------------------------- MODULE MCBoomFetch -----------------------------
(***************************************************************************)
(* A loop around a branch that may skip two nested calls, entered at three *)
(* places: in front of the branch, in the outer function and, with nothing *)
(* on the return stack, at a return.  The addresses compete for the two    *)
(* entries of the branch target buffer, and two branches share a block if  *)
(* a block has two addresses.                                              *)
(***************************************************************************)
EXTENDS BoomFetch

Inst(size, kind, nexts) == [size |-> size, kind |-> kind, nexts |-> nexts]

MCCode ==
  4  :> Inst(1, "Cond", {5, 7}) @@
  5  :> Inst(2, "Call", {10})   @@
  7  :> Inst(2, "Uncond", {4})  @@
  10 :> Inst(1, "None", {11})   @@
  11 :> Inst(2, "Call", {16})   @@
  13 :> Inst(1, "Ret", {7})     @@
  16 :> Inst(1, "Ret", {13})

MCInstructions == 11

WalksOf[n \in Nat] ==
  IF n = 0 THEN {<<a>> : a \in {4, 10, 13}}
  ELSE UNION {{Append(w, a) : a \in MCCode[Last(w)].nexts} : w \in WalksOf[n - 1]}

MCWalks == WalksOf[MCInstructions]
=============================================================================
