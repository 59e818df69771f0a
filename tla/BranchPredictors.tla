-------------------------- MODULE BranchPredictors --------------------------
(***************************************************************************)
(* The return address stack (src/src/std_components/predictors/ras.cpp)    *)
(* and the interleaved branch target buffer (interleavedBTB.cpp) with its  *)
(* saturating counters (src/src/utils/bimodal_counter.cpp), as operators   *)
(* on their states.  Statistics and the optional component sendTo, which   *)
(* gets a copy of the responses, are left out.                             *)
(***************************************************************************)
EXTENDS Integers, FiniteSetsExt, SequencesExt

-----------------------------------------------------------------------------
(***************************************************************************)
(* The return address stack r: a circular buffer, filled with 0, and the   *)
(* index of its top.  To move the top before reading it is a slip.         *)
(***************************************************************************)
RasInit(size) == [buffer |-> [i \in 0 .. size - 1 |-> 0], end |-> 0]

RasSize(r) == Cardinality(DOMAIN r.buffer)

RasBelowTop(r) == r.buffer[IF r.end = 0 THEN RasSize(r) - 1 ELSE r.end - 1]

RasTop(r) == r.buffer[r.end]

RasPop(r) == [r EXCEPT !.end = IF @ - 1 < 0 THEN RasSize(r) - 1 ELSE @ - 1]

RasPush(r, target) ==
  LET end == IF r.end + 1 >= RasSize(r) THEN 0 ELSE r.end + 1
  IN  [buffer |-> [r.buffer EXCEPT ![end] = target], end |-> end]

-----------------------------------------------------------------------------
(***************************************************************************)
(* BimodalCounter: a counter of two bits that starts at 2, "taken".        *)
(***************************************************************************)
GetPrediction(counter) == counter >= 2

UpdatePrediction(counter, taken) ==
  IF taken THEN Min({counter + 1, 3}) ELSE Max({counter - 1, 0})

(***************************************************************************)
(* The branch target buffer b, for the powers of two that Configure rounds *)
(* its parameters to.  An entry is a block of as many addresses as there   *)
(* are banks.  The tag of an entry that was never filled is 0.             *)
(***************************************************************************)
BTBInit(numEntries, interleavingFactor) ==
  [i \in 0 .. numEntries - 1 |->
     [tag   |-> 0,
      banks |-> [k \in 0 .. interleavingFactor - 1 |->
                   [target |-> 0, type |-> "None", counter |-> 2]]]]

Banks(b) == DOMAIN b[0].banks

CalculateBank(b, addr) == addr % Cardinality(Banks(b))

CalculateTag(b, addr) == addr \div Cardinality(Banks(b))

CalculateIndex(b, addr) == CalculateTag(b, addr) % Cardinality(DOMAIN b)

BranchTypeFromSinucaBranch(kind) == IF kind = "Cond" THEN "Conditional" ELSE "Unconditional"

(***************************************************************************)
(* AddEntry: tag and one bank are replaced, the counter of the bank and    *)
(* the other banks are what they were for the block before.  To leave the  *)
(* target of a block that is replaced is a slip.                           *)
(***************************************************************************)
AddTagOnly(b, addr, kind, target) ==
  [b EXCEPT ![CalculateIndex(b, addr)].tag = CalculateTag(b, addr),
            ![CalculateIndex(b, addr)].banks[CalculateBank(b, addr)].type =
               BranchTypeFromSinucaBranch(kind)]

AddEntry(b, addr, kind, target) ==
  [b EXCEPT ![CalculateIndex(b, addr)].tag = CalculateTag(b, addr),
            ![CalculateIndex(b, addr)].banks[CalculateBank(b, addr)] =
               [target  |-> target,
                type    |-> BranchTypeFromSinucaBranch(kind),
                counter |-> @.counter]]

(***************************************************************************)
(* Update: the counter of the bank, whichever block the entry is for by    *)
(* now.                                                                    *)
(***************************************************************************)
Update(b, addr, taken) ==
  IF b[CalculateIndex(b, addr)].tag = 0
    THEN b
    ELSE [b EXCEPT ![CalculateIndex(b, addr)].banks[CalculateBank(b, addr)].counter =
                      UpdatePrediction(@, taken)]

(***************************************************************************)
(* Query: a hit is a matching tag, and leads to the target of the first    *)
(* bank that is predicted taken; otherwise, and on a miss, to the address  *)
(* of the next block.                                                      *)
(***************************************************************************)
IsBTBHit(b, addr) == b[CalculateIndex(b, addr)].tag = CalculateTag(b, addr)

TakenBanks(b, addr) ==
  LET banks == b[CalculateIndex(b, addr)].banks
  IN  {k \in Banks(b) : banks[k].type = "Unconditional" \/ GetPrediction(banks[k].counter)}

QueriedTarget(b, addr) ==
  IF IsBTBHit(b, addr) /\ TakenBanks(b, addr) # {}
    THEN b[CalculateIndex(b, addr)].banks[Min(TakenBanks(b, addr))].target
    ELSE addr + Cardinality(Banks(b))
=============================================================================
