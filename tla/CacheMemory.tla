----------------------------- MODULE CacheMemory -----------------------------
(***************************************************************************)
(* A set-associative cache (src/src/utils/cache/cacheMemory.hpp) and its   *)
(* three replacement policies (src/src/utils/cache/replacement_policies)   *)
(* as operators on a record c.  An address is the number of the line it    *)
(* lies in: the offset in the line takes part in nothing.  The value that  *)
(* is stored with a line is what the caller passes, and the statistics are *)
(* only printed; both are left out.                                        *)
(***************************************************************************)
EXTENDS Integers, FiniteSetsExt

Policies == {"lru", "random", "roundrobin"}

(***************************************************************************)
(* fromNumSets complains about a number of sets that is no power of two    *)
(* and goes on with the bits of its logarithm; Alocate makes 2^bits sets   *)
(* of invalid lines, all bytes of which are 0.                             *)
(***************************************************************************)
RoundedSets(numSets) == Max({p \in 1 .. numSets : \E bits \in 0 .. numSets : p = 2 ^ bits})

SetsOf(c) == DOMAIN c.entries

WaysOf(c) == DOMAIN c.entries[0]

fromNumSets(numSets, associativity, policy) ==
  LET sets == 0 .. RoundedSets(numSets) - 1
      ways == 0 .. associativity - 1
  IN  [policy  |-> policy,
       entries |-> [s \in sets |-> [w \in ways |-> [isValid |-> FALSE, tag |-> 0]]],
       usage   |-> [s \in sets |-> [w \in ways |-> 0]],
       rrIndex |-> [s \in sets |-> 0]]

(***************************************************************************)
(* The low bits of the address select the set, the others are the tag.     *)
(***************************************************************************)
GetIndex(c, addr) == addr % Cardinality(SetsOf(c))

GetTag(c, addr) == addr \div Cardinality(SetsOf(c))

(***************************************************************************)
(* Acess, called by Read and Write: only LRU keeps the age of the ways of  *)
(* a set.  Not to age the others is a slip.                                *)
(***************************************************************************)
AcessOne(c, index, way) ==
  IF c.policy = "lru" THEN [c EXCEPT !.usage[index][way] = 0] ELSE c

Acess(c, index, way) ==
  IF c.policy = "lru"
    THEN [c EXCEPT !.usage[index] = [w \in WaysOf(c) |-> IF w = way THEN 0 ELSE @[w] + 1]]
    ELSE c

(***************************************************************************)
(* SelectVictim: the first of the ways of greatest age, any way, or the    *)
(* next one in turn.  These are the ways it may select.                    *)
(***************************************************************************)
OldestOf(ages) == Min({w \in DOMAIN ages : \A v \in DOMAIN ages : ages[v] <= ages[w]})

SelectVictim(c, index) ==
  CASE c.policy = "lru"        -> {OldestOf(c.usage[index])}
    [] c.policy = "random"     -> WaysOf(c)
    [] c.policy = "roundrobin" -> {c.rrIndex[index]}

(***************************************************************************)
(* The state of the policy after it selected a victim; an index that is    *)
(* not advanced is a slip.                                                 *)
(***************************************************************************)
StaysInTurn(c, index) == c

TakesTurn(c, index) ==
  IF c.policy = "roundrobin"
    THEN [c EXCEPT !.rrIndex[index] = (@ + 1) % Cardinality(WaysOf(c))]
    ELSE c

(***************************************************************************)
(* GetEntry and FindEmptyEntry: the ways that hold the address, and those  *)
(* that hold nothing; the code takes the first one.  A search that ends at *)
(* the first way is a slip.                                                *)
(***************************************************************************)
GetEntry(c, addr) ==
  {w \in WaysOf(c) : c.entries[GetIndex(c, addr)][w] = [isValid |-> TRUE, tag |-> GetTag(c, addr)]}

FindEmptyEntry(c, addr) == {w \in WaysOf(c) : ~c.entries[GetIndex(c, addr)][w].isValid}

IsInFirstWay(c, addr) == 0 \in GetEntry(c, addr)

IsHit(c, addr) == GetEntry(c, addr) # {}

ReadHit(c, addr) == Acess(c, GetIndex(c, addr), Min(GetEntry(c, addr)))

(***************************************************************************)
(* Write: the caches that may result.                                      *)
(***************************************************************************)
Fill(c, addr, way) ==
  Acess([c EXCEPT !.entries[GetIndex(c, addr)][way] =
                    [isValid |-> TRUE, tag |-> GetTag(c, addr)]],
        GetIndex(c, addr), way)

Write(c, addr) ==
  LET index == GetIndex(c, addr)
  IN  IF FindEmptyEntry(c, addr) # {}
        THEN {Fill(c, addr, Min(FindEmptyEntry(c, addr)))}
        ELSE {Fill(TakesTurn(c, index), addr, way) : way \in SelectVictim(c, index)}
=============================================================================
