----------------------------- MODULE MCLinkable -----------------------------
(***************************************************************************)
(* Two components connected both ways: compB connects to compA with a      *)
(* buffer of one message, and compA to compB without a bound, so that the  *)
(* buffers wrap, refuse, grow and are flushed with messages left in them.  *)
(***************************************************************************)
EXTENDS Linkable

CONSTANTS compA, compB, toA, toB

MCUser  == [k \in Connections |-> IF k = toA THEN compB ELSE compA]
MCOwner == [k \in Connections |-> IF k = toA THEN compA ELSE compB]
MCSize  == [k \in Connections |-> IF k = toA THEN 1 ELSE 0]
=============================================================================
