------------------------------ MODULE MCFetcher ------------------------------
(***************************************************************************)
(* Fetchers with a buffer of 4 bytes over programs of 5 instructions of 1  *)
(* or 3 bytes, so that a request is answered by up to three instructions,  *)
(* with and without a predictor and with penalties on both sides of the    *)
(* three cycles the code singles out.                                      *)
(***************************************************************************)
EXTENDS Fetcher
=============================================================================
