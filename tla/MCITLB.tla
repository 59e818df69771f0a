------------------------------- MODULE MCITLB -------------------------------
(***************************************************************************)
(* Two components that ask for three pages, which compete for the 2 ways   *)
(* of one set, or for the only way of one of 2 sets (3 entries, of which   *)
(* fromNumSets makes 2 sets).                                              *)
(***************************************************************************)
EXTENDS ITLB

MCGeometries == {<<2, 2>>, <<3, 1>>}
=============================================================================
