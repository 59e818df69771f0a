---------------------------- MODULE MCDelayQueue ----------------------------
(***************************************************************************)
(* Seven cycles with up to three messages each, through queues with and    *)
(* without a delay: bursts fill the buffer and have left it again.         *)
(***************************************************************************)
EXTENDS DelayQueue
=============================================================================
