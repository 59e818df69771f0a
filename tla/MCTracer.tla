------------------------------ MODULE MCTracer ------------------------------
(***************************************************************************)
(* Three threads and three programs: one like test_programs/pi.c, whose    *)
(* critical region is between barriers, one with a critical region alone,  *)
(* and one with two parallel regions.  The wide block has a second         *)
(* instruction that accesses memory: two loads, one of which is masked     *)
(* out, and a store.                                                       *)
(***************************************************************************)
EXTENDS Tracer

CONSTANTS narrow, wide

MCBlockSize == narrow :> 1 @@ wide :> 2

Op(type, on) == [memopType |-> type, maskOn |-> on]

MCAccesses ==
  narrow :> {} @@ wide :> {<<Op("load", TRUE), Op("load", FALSE), Op("store", TRUE)>>}

Region == <<"cs", "acquire", "ce", "release">>

MCPrograms == {
  <<"meet", "start", "barrier", "meet">> \o Region
    \o <<"barrier", "meet", "end", "meet">>,
  <<"block", "meet", "start">> \o Region \o <<"end", "meet">>,
  <<"meet", "start", "block", "end", "meet", "meet", "start", "end", "meet">>}
=============================================================================
