-------------------------------- MODULE ITLB --------------------------------
(***************************************************************************)
(* The instruction TLB (src/src/std_components/memory/itlb.cpp) with its   *)
(* cache of pages, and the components connected to it.  One step is one    *)
(* cycle: Clock receives what was sent to it in the cycle before, and the  *)
(* response it sends is read in the next one.                              *)
(***************************************************************************)
EXTENDS CacheMemory, SequencesExt

CONSTANTS
  Geometries,     \* the pairs <<entries, associativity>> considered
  MissPenalties,  \* the missPenalty parameters
  Pages,          \* the pages that are asked for
  Clients,        \* the number of connections
  MaxRequests     \* bound: the number of requests received

ASSUME ITLBAssumption ==
  /\ \A g \in Geometries : g[2] \in Nat \ {0} /\ g[1] \in Nat /\ g[1] >= g[2]
  /\ MissPenalties \subseteq Nat
  /\ Pages \subseteq Nat
  /\ Clients \in Nat
  /\ MaxRequests \in Nat

NO_PENALTY == -1

NoMessage == -1

NoRequest == [id |-> 0, addr |-> 0]

VARIABLES
  missPenalty,      \* as configured
  cache,
  currentPenalty,
  curRequest,
  pendingRequests,
  received,         \* history: the requests Clock received
  responses         \* history: the responses that were sent

itlbVars == <<missPenalty, cache, currentPenalty, curRequest, pendingRequests,
              received, responses>>

(***************************************************************************)
(* Configure.  The first request of curRequest is not initialised, and not *)
(* read before it is set.                                                  *)
(***************************************************************************)
Init ==
  /\ missPenalty \in MissPenalties
  /\ \E g \in Geometries, policy \in Policies :
       cache = fromNumSets(g[1] \div g[2], g[2], policy)
  /\ currentPenalty = NO_PENALTY
  /\ curRequest = NoRequest
  /\ pendingRequests = <<>>
  /\ received = <<>>
  /\ responses = <<>>

-----------------------------------------------------------------------------
(***************************************************************************)
(* One request is received from every connection, in their order: first[i] *)
(* is the first message in connection i, if there is one.  Whatever else   *)
(* was sent in the same cycle is flushed and leaves no trace.              *)
(***************************************************************************)
NewRequests(first) ==
  LET upTo[n \in 0 .. Clients] ==
        IF n = 0 THEN <<>>
        ELSE IF first[n] = NoMessage THEN upTo[n - 1]
        ELSE Append(upTo[n - 1], [id |-> n, addr |-> first[n]])
  IN  upTo[Clients]

Receives(new) ==
  /\ Len(received) + Len(new) <= MaxRequests
  /\ received' = received \o new

(***************************************************************************)
(* The rest of Clock, with the requests Clock has received in this cycle.  *)
(***************************************************************************)
PaysPenalty(new) ==
  /\ currentPenalty > 1
  /\ currentPenalty' = currentPenalty - 1
  /\ pendingRequests' = pendingRequests \o new
  /\ UNCHANGED <<cache, curRequest, responses>>

\* The response sent when a penalty ends; to respond to the next request is a slip.
LatestRequest == IF pendingRequests = <<>> THEN curRequest ELSE Head(pendingRequests)

RequestServed == curRequest

EndsPenalty(new) ==
  /\ currentPenalty = 1
  /\ currentPenalty' = NO_PENALTY
  /\ responses' = Append(responses, RequestServed)
  /\ pendingRequests' = pendingRequests \o new
  /\ UNCHANGED <<cache, curRequest>>

Stalls(new) ==
  /\ currentPenalty <= 0
  /\ pendingRequests \o new = <<>>
  /\ UNCHANGED <<cache, currentPenalty, curRequest, pendingRequests, responses>>

Takes(new) ==
  /\ currentPenalty <= 0
  /\ pendingRequests \o new # <<>>
  /\ curRequest' = Head(pendingRequests \o new)
  /\ pendingRequests' = Tail(pendingRequests \o new)

Hits(new) ==
  /\ Takes(new)
  /\ IsHit(cache, curRequest'.addr)
  /\ cache' = ReadHit(cache, curRequest'.addr)
  /\ responses' = Append(responses, curRequest')
  /\ UNCHANGED currentPenalty

\* A penalty that is set one too short is a slip.
ShortPenalty == missPenalty - 1

PenaltyOfMiss == missPenalty

Misses(new) ==
  /\ Takes(new)
  /\ ~IsHit(cache, curRequest'.addr)
  /\ cache' \in Write(cache, curRequest'.addr)
  /\ currentPenalty' = PenaltyOfMiss
  /\ UNCHANGED responses

Clock(first) ==
  LET new == NewRequests(first)
  IN  /\ Receives(new)
      /\ UNCHANGED missPenalty
      /\ \/ PaysPenalty(new)
         \/ EndsPenalty(new)
         \/ Stalls(new)
         \/ Hits(new)
         \/ Misses(new)

Next == \E first \in [1 .. Clients -> Pages \cup {NoMessage}] : Clock(first)

Spec == Init /\ [][Next]_itlbVars /\ WF_itlbVars(Next)

-----------------------------------------------------------------------------
(***************************************************************************)
(* Properties.                                                             *)
(***************************************************************************)

(***************************************************************************)
(* The state is of its type, and no set holds a page twice, although Write *)
(* never looks for it: it is only called after Read missed (itlb.cpp:112). *)
(***************************************************************************)
ITLBInvariant ==
  /\ currentPenalty \in NO_PENALTY .. missPenalty
  /\ \A s \in SetsOf(cache) :
       /\ cache.rrIndex[s] \in WaysOf(cache)
       /\ \A v, w \in WaysOf(cache) :
            (cache.entries[s][v].isValid /\ cache.entries[s][v] = cache.entries[s][w]) => v = w

(***************************************************************************)
(* With a penalty of at least 1, every request is answered once, in the    *)
(* order in which the requests came and to the connection they came from,  *)
(* however the requests and the penalties overlap (itlb.cpp:93, 115).      *)
(***************************************************************************)
Outstanding ==
  (IF currentPenalty > 0 THEN <<curRequest>> ELSE <<>>) \o pendingRequests

AnswersInOrder == missPenalty > 0 => received = responses \o Outstanding

(***************************************************************************)
(* The pages that were looked up so far, and those of them that fall into  *)
(* a set and were looked up after the i-th.                                *)
(***************************************************************************)
LookedUp == [i \in 1 .. Len(received) - Len(pendingRequests) |-> received[i].addr]

Since(s, i) ==
  {LookedUp[j] : j \in {k \in i + 1 .. Len(LookedUp) : GetIndex(cache, LookedUp[k]) = s}}

(***************************************************************************)
(* The last n different pages of a set.                                    *)
(***************************************************************************)
Newest(n, s) ==
  {LookedUp[i] : i \in {k \in 1 .. Len(LookedUp) :
                          GetIndex(cache, LookedUp[k]) = s /\ Cardinality(Since(s, k)) < n}}

Held(s) == {p \in Pages : GetIndex(cache, p) = s /\ IsHit(cache, p)}

(***************************************************************************)
(* With LRU (lru.cpp:48-66) a set holds exactly the pages that were asked  *)
(* for last, as many as it has ways: counters of ages, victims and empty   *)
(* lines together make a true least recently used order.                   *)
(***************************************************************************)
LruKeepsTheRecent ==
  cache.policy = "lru" =>
    \A s \in SetsOf(cache) : Held(s) = Newest(Cardinality(WaysOf(cache)), s)

(***************************************************************************)
(* A queue of n places that takes the pages of a set it does not have      *)
(* already, and drops its first element when it is full.                   *)
(***************************************************************************)
QueueOf(n, s) ==
  LET upTo[k \in 0 .. Len(LookedUp)] ==
        IF k = 0 THEN <<>>
        ELSE IF GetIndex(cache, LookedUp[k]) # s \/ LookedUp[k] \in ToSet(upTo[k - 1])
          THEN upTo[k - 1]
        ELSE Append(IF Len(upTo[k - 1]) < n THEN upTo[k - 1] ELSE Tail(upTo[k - 1]), LookedUp[k])
  IN  upTo[Len(LookedUp)]

(***************************************************************************)
(* With round robin (roundRobin.cpp:42-49) the pages of a set are replaced *)
(* in the order in which they were filled, and a hit changes nothing: the  *)
(* index must never get out of step with the ways FindEmptyEntry fills.    *)
(***************************************************************************)
RoundRobinIsFifo ==
  cache.policy = "roundrobin" =>
    \A s \in SetsOf(cache) :
      Held(s) = ToSet(QueueOf(Cardinality(WaysOf(cache)), s))

(***************************************************************************)
(* With a penalty of at least 1 the component catches up with the requests *)
(* it received, as long as the engine clocks it: no miss is forgotten and  *)
(* the queue is served.                                                    *)
(***************************************************************************)
AllAnswered == missPenalty > 0 => []<>(Len(responses) = Len(received))
=============================================================================
