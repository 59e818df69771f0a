------------------------------ MODULE MCEngine ------------------------------
(***************************************************************************)
(* Two cores that replay two threads through two barriers and any critical *)
(* regions, asking for one instruction or for 3 bytes, with room for 3     *)
(* responses.  The instructions of the block have 1 and 2 bytes.           *)
(***************************************************************************)
EXTENDS Engine, TLC

CONSTANT b

MCBlockSize == [x \in Block |-> 2]
MCMemoryInstruction == {<<b, 1>>}
MCInstSize == (<<b, 0>> :> 1) @@ (<<b, 1>> :> 2)
=============================================================================
