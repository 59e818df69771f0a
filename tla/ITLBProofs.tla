----------------------------- MODULE ITLBProofs -----------------------------
(***************************************************************************)
(* The instruction TLB answers its requests in order, its cache never      *)
(* holds a page twice, and with LRU or round robin a set holds exactly the *)
(* pages that the policy promises, for every geometry, policy and penalty  *)
(* and any number of clients and requests.                                 *)
(***************************************************************************)
EXTENDS ITLB, FiniteSetTheorems, SequenceTheorems, WellFoundedInduction, TLAPS

(***************************************************************************)
(* Induction.  A set of numbers has a least element, so a set that holds 0 *)
(* and the successor of each of its elements holds every number.           *)
(***************************************************************************)
LEMMA LeastNumber ==
  ASSUME NEW T \in SUBSET Nat, T # {}
  PROVE  \E x \in T : \A y \in T : x <= y
<1> DEFINE R == {ss \in Nat \X Nat : ss[1] < ss[2]}
<1>1. IsWellFoundedOn(R, Nat)
  BY NatLessThanWellFounded DEF OpToRel
<1>2. \A x, y \in Nat : y < x => <<y, x>> \in R
  OBVIOUS
<1> HIDE DEF R
<1>3. PICK x \in T : \A y \in T : ~(<<y, x>> \in R)
  BY <1>1, WFMin
<1>4. \A y \in T : x <= y
  <2> TAKE y \in T
  <2>1. x \in Nat /\ y \in Nat
    OBVIOUS
  <2>2. ~(y < x)
    BY <1>2, <1>3, <2>1, Zenon
  <2> QED BY <2>1, <2>2
<1> QED BY <1>4

LEMMA Induction ==
  ASSUME NEW S \in SUBSET Nat, 0 \in S, \A n \in S : n + 1 \in S
  PROVE  S = Nat
<1> SUFFICES ASSUME Nat \ S # {} PROVE FALSE
  OBVIOUS
<1>1. PICK x \in Nat \ S : \A y \in Nat \ S : x <= y
  BY LeastNumber
<1> QED BY <1>1, x - 1 \in Nat, x - 1 \in S

(***************************************************************************)
(* The requests of a cycle are a sequence, whichever clients have one.     *)
(***************************************************************************)
Request == [id : Nat, addr : Nat]

Asked == [id : Nat, addr : Pages]

Firsts == [1 .. Clients -> Pages \cup {NoMessage}]

Step(first, f, n) ==
  IF n = 0 THEN <<>>
  ELSE IF first[n] = NoMessage THEN f[n - 1]
  ELSE Append(f[n - 1], [id |-> n, addr |-> first[n]])

LEMMA RequestsExist ==
  ASSUME NEW first
  PROVE  \E f : f = [n \in 0 .. Clients |-> Step(first, f, n)]
<1>0. Clients \in Nat
  BY ITLBAssumption
<1> DEFINE S == {k \in Nat : \E f : f = [n \in 0 .. k |-> Step(first, f, n)]}
<1>1. 0 \in S
  <2> DEFINE f == [n \in 0 .. 0 |-> <<>>]
  <2>1. f = [n \in 0 .. 0 |-> Step(first, f, n)]
    <3>1. \A n \in 0 .. 0 : n = 0
      OBVIOUS
    <3> QED BY <3>1 DEF Step
  <2> HIDE DEF f
  <2> QED BY <2>1
<1>2. ASSUME NEW k \in S PROVE k + 1 \in S
  <2>1. k \in Nat
    OBVIOUS
  <2>2. PICK f : f = [n \in 0 .. k |-> Step(first, f, n)]
    OBVIOUS
  <2> DEFINE g == [n \in 0 .. k + 1 |-> IF n = k + 1 THEN Step(first, f, n) ELSE f[n]]
  <2>3. \A n \in 0 .. k : f[n] = Step(first, f, n)
    BY <2>2
  <2>4. \A n \in 0 .. k : g[n] = f[n]
    BY <2>1
  <2>5. \A n \in 0 .. k + 1 : g[n] = Step(first, f, n)
    <3> TAKE n \in 0 .. k + 1
    <3>1. CASE n = k + 1
      BY <3>1
    <3>2. CASE n # k + 1
      <4>1. n \in 0 .. k
        BY <2>1, <3>2
      <4> QED BY <2>3, <2>4, <4>1
    <3> QED BY <3>1, <3>2
  <2>6. \A n \in 0 .. k + 1 : Step(first, g, n) = Step(first, f, n)
    <3> TAKE n \in 0 .. k + 1
    <3>1. CASE n = 0
      BY <3>1 DEF Step
    <3>2. CASE n # 0
      <4>1. n - 1 \in 0 .. k
        BY <2>1, <3>2
      <4>2. g[n - 1] = f[n - 1]
        BY <2>4, <4>1
      <4> HIDE DEF g
      <4> QED BY <4>2 DEF Step
    <3> QED BY <3>1, <3>2
  <2>7. g = [n \in 0 .. k + 1 |-> g[n]]
    OBVIOUS
  <2> HIDE DEF g
  <2>8. g = [n \in 0 .. k + 1 |-> Step(first, g, n)]
    BY <2>5, <2>6, <2>7
  <2>9. k + 1 \in Nat
    BY <2>1
  <2> QED BY <2>8, <2>9
<1>3. S \in SUBSET Nat
  OBVIOUS
<1> HIDE DEF S
<1>4. Clients \in S
  BY <1>0, <1>1, <1>2, <1>3, Induction
<1> QED BY <1>4 DEF S

LEMMA NewRequestsAsked ==
  ASSUME NEW first \in Firsts
  PROVE  NewRequests(first) \in Seq(Asked)
<1>0. Clients \in Nat /\ Pages \subseteq Nat
  BY ITLBAssumption
<1> DEFINE upTo == CHOOSE f : f = [n \in 0 .. Clients |-> Step(first, f, n)]
<1>1. upTo = [n \in 0 .. Clients |-> Step(first, upTo, n)]
  BY RequestsExist
<1>2. NewRequests(first) = upTo[Clients]
  BY DEF NewRequests, Step
<1> HIDE DEF upTo
<1>3. \A n \in 0 .. Clients : upTo[n] = Step(first, upTo, n)
  BY <1>1
<1> DEFINE S == {n \in Nat : n <= Clients => upTo[n] \in Seq(Asked)}
<1>4. 0 \in S
  <2>1. 0 \in 0 .. Clients
    BY <1>0
  <2>2. Step(first, upTo, 0) = <<>>
    BY DEF Step
  <2>3. upTo[0] = <<>>
    BY <1>3, <2>1, <2>2, Zenon
  <2>4. upTo[0] \in Seq(Asked)
    BY <2>3, EmptySeq, Zenon
  <2> QED BY <2>4
<1>5. ASSUME NEW n \in S PROVE n + 1 \in S
  <2> SUFFICES ASSUME n + 1 <= Clients PROVE upTo[n + 1] \in Seq(Asked)
    OBVIOUS
  <2>1. n \in Nat /\ upTo[n] \in Seq(Asked)
    BY <1>0
  <2>2. n + 1 \in 1 .. Clients /\ n + 1 \in 0 .. Clients
    BY <1>0, <2>1
  <2>3. (n + 1) - 1 = n /\ n + 1 # 0
    BY <2>1
  <2>4. upTo[n + 1] = Step(first, upTo, n + 1)
    BY <1>3, <2>2
  <2>5. CASE first[n + 1] = NoMessage
    BY <2>1, <2>3, <2>4, <2>5 DEF Step
  <2>6. CASE first[n + 1] # NoMessage
    <3>1. first[n + 1] \in Pages
      BY <2>2, <2>6 DEF Firsts
    <3>2. [id |-> n + 1, addr |-> first[n + 1]] \in Asked
      BY <2>1, <3>1 DEF Asked
    <3>3. upTo[n + 1] = Append(upTo[n], [id |-> n + 1, addr |-> first[n + 1]])
      BY <2>3, <2>4, <2>6 DEF Step
    <3> QED BY <2>1, <3>2, <3>3, AppendProperties
  <2> QED BY <2>5, <2>6
<1>6. S \in SUBSET Nat
  OBVIOUS
<1> HIDE DEF S
<1>7. Clients \in S
  BY <1>0, <1>4, <1>5, <1>6, Induction
<1> QED BY <1>0, <1>2, <1>7 DEF S

LEMMA NewRequestsType ==
  ASSUME NEW first \in Firsts
  PROVE  NewRequests(first) \in Seq(Request)
<1>1. Pages \subseteq Nat
  BY ITLBAssumption
<1>2. Asked \subseteq Request
  BY <1>1 DEF Asked, Request
<1> QED BY <1>2, NewRequestsAsked
-----------------------------------------------------------------------------
(***************************************************************************)
(* The requests.                                                           *)
(***************************************************************************)
QueueTypeOK ==
  /\ missPenalty \in Nat
  /\ currentPenalty \in NO_PENALTY .. missPenalty
  /\ curRequest \in Request
  /\ pendingRequests \in Seq(Request)
  /\ received \in Seq(Request)
  /\ responses \in Seq(Request)

(***************************************************************************)
(* The first element of a sequence, and the rest.                          *)
(***************************************************************************)
LEMMA HeadThenTail ==
  ASSUME NEW S, NEW q \in Seq(S), q # <<>>
  PROVE  /\ Head(q) \in S /\ Tail(q) \in Seq(S)
         /\ <<Head(q)>> \o Tail(q) = q
<1>1. /\ Head(q) \in S /\ Tail(q) \in Seq(S) /\ Len(Tail(q)) = Len(q) - 1
      /\ \A i \in 1 .. Len(Tail(q)) : Tail(q)[i] = q[i + 1]
  BY HeadTailProperties
<1>2. /\ <<Head(q)>> \in Seq(S) /\ Len(<<Head(q)>>) = 1 /\ <<Head(q)>>[1] = Head(q)
      /\ Head(q) = q[1]
  BY <1>1
<1>3. Len(q) \in Nat \ {0}
  BY EmptySeq
<1>4. PICK r : r = <<Head(q)>> \o Tail(q)
  OBVIOUS
<1>5. /\ r \in Seq(S) /\ Len(r) = Len(q)
      /\ \A i \in 1 .. Len(q) : r[i] = IF i <= 1 THEN <<Head(q)>>[i] ELSE Tail(q)[i - 1]
  BY <1>1, <1>2, <1>3, <1>4, ConcatProperties
<1>6. \A i \in 1 .. Len(q) : r[i] = q[i]
  <2> TAKE i \in 1 .. Len(q)
  <2>1. CASE i = 1
    BY <1>2, <1>5, <2>1
  <2>2. CASE i # 1
    <3>1. i - 1 \in 1 .. Len(Tail(q)) /\ (i - 1) + 1 = i /\ ~(i <= 1)
      BY <1>1, <1>3, <2>2
    <3> QED BY <1>1, <1>5, <3>1
  <2> QED BY <2>1, <2>2
<1>7. r = q
  BY <1>5, <1>6, SeqEqual
<1> QED BY <1>1, <1>4, <1>7

(***************************************************************************)
(* Every step of the queue keeps its type.                                 *)
(***************************************************************************)
LEMMA TakesType ==
  ASSUME QueueTypeOK, NEW new \in Seq(Request), Takes(new)
  PROVE  /\ curRequest' \in Request /\ pendingRequests' \in Seq(Request)
         /\ <<curRequest'>> \o pendingRequests' = pendingRequests \o new
<1>1. pendingRequests \o new \in Seq(Request) /\ pendingRequests \o new # <<>>
  BY ConcatProperties DEF QueueTypeOK, Takes
<1> QED BY <1>1, HeadThenTail DEF Takes

LEMMA ClockType ==
  ASSUME QueueTypeOK, NEW first \in Firsts, Clock(first)
  PROVE  QueueTypeOK'
<1>1. PICK new : new = NewRequests(first)
  OBVIOUS
<1>2. new \in Seq(Request)
  BY <1>1, NewRequestsType
<1>3. /\ received' = received \o new /\ missPenalty' = missPenalty
      /\ \/ PaysPenalty(new) \/ EndsPenalty(new) \/ Stalls(new) \/ Hits(new) \/ Misses(new)
  BY <1>1 DEF Clock, Receives
<1>4. received' \in Seq(Request) /\ pendingRequests \o new \in Seq(Request)
  BY <1>2, <1>3, ConcatProperties DEF QueueTypeOK
<1>5. CASE PaysPenalty(new)
  BY <1>3, <1>4, <1>5 DEF PaysPenalty, QueueTypeOK, NO_PENALTY
<1>6. CASE EndsPenalty(new)
  <2>1. responses' \in Seq(Request)
    BY <1>6, AppendProperties DEF EndsPenalty, RequestServed, QueueTypeOK
  <2> QED BY <1>3, <1>4, <1>6, <2>1 DEF EndsPenalty, QueueTypeOK, NO_PENALTY
<1>7. CASE Stalls(new)
  BY <1>3, <1>4, <1>7 DEF Stalls, QueueTypeOK
<1>8. CASE Hits(new)
  <2>1. curRequest' \in Request /\ pendingRequests' \in Seq(Request)
    BY <1>2, <1>8, TakesType DEF Hits
  <2>2. responses' \in Seq(Request)
    BY <1>8, <2>1, AppendProperties DEF Hits, QueueTypeOK
  <2> QED BY <1>3, <1>4, <1>8, <2>1, <2>2 DEF Hits, QueueTypeOK
<1>9. CASE Misses(new)
  <2>1. curRequest' \in Request /\ pendingRequests' \in Seq(Request)
    BY <1>2, <1>9, TakesType DEF Misses
  <2> QED BY <1>3, <1>4, <1>9, <2>1 DEF Misses, PenaltyOfMiss, QueueTypeOK, NO_PENALTY
<1> QED BY <1>3, <1>5, <1>6, <1>7, <1>8, <1>9

(***************************************************************************)
(* What was received is what was answered and what is outstanding.         *)
(***************************************************************************)
LEMMA ClockAnswers ==
  ASSUME QueueTypeOK, AnswersInOrder, NEW first \in Firsts, Clock(first)
  PROVE  AnswersInOrder'
<1>1. PICK new : new = NewRequests(first)
  OBVIOUS
<1>2. new \in Seq(Request)
  BY <1>1, NewRequestsType
<1>3. /\ received' = received \o new /\ missPenalty' = missPenalty
      /\ \/ PaysPenalty(new) \/ EndsPenalty(new) \/ Stalls(new) \/ Hits(new) \/ Misses(new)
  BY <1>1 DEF Clock, Receives
<1> SUFFICES ASSUME missPenalty > 0
             PROVE  received' = responses' \o Outstanding'
  BY <1>3 DEF AnswersInOrder
<1>4. /\ pendingRequests \in Seq(Request) /\ responses \in Seq(Request)
      /\ <<curRequest>> \in Seq(Request) /\ curRequest \in Request
      /\ missPenalty \in Nat /\ currentPenalty \in Int
  BY DEF QueueTypeOK, NO_PENALTY
<1>5. PICK q : q = pendingRequests \o new
  OBVIOUS
<1>6. q \in Seq(Request)
  BY <1>2, <1>4, <1>5, ConcatProperties
<1>7. received = responses \o Outstanding
  BY DEF AnswersInOrder
<1>8. CASE currentPenalty > 0
  <2>1. Outstanding = <<curRequest>> \o pendingRequests /\ Outstanding \in Seq(Request)
    BY <1>4, <1>8, ConcatProperties DEF Outstanding
  <2>2. received' = responses \o (Outstanding \o new)
    BY <1>2, <1>3, <1>4, <1>7, <2>1, ConcatAssociative
  <2>3. Outstanding \o new = <<curRequest>> \o q
    BY <1>2, <1>4, <1>5, <2>1, ConcatAssociative
  <2>4. CASE PaysPenalty(new)
    <3>1. Outstanding' = <<curRequest>> \o q /\ responses' = responses
      BY <1>4, <1>5, <2>4 DEF PaysPenalty, Outstanding
    <3> QED BY <2>2, <2>3, <3>1
  <2>5. CASE EndsPenalty(new)
    <3>1. Outstanding' = <<>> \o q
      BY <1>5, <2>5 DEF EndsPenalty, Outstanding, NO_PENALTY
    <3>2. responses' = responses \o <<curRequest>>
      BY <1>4, <2>5, AppendIsConcat DEF EndsPenalty, RequestServed
    <3>3. Outstanding' = q
      BY <1>6, <3>1, ConcatEmptySeq
    <3>4. responses \o (<<curRequest>> \o q) = (responses \o <<curRequest>>) \o q
      BY <1>4, <1>6, ConcatAssociative
    <3> QED BY <2>2, <2>3, <3>2, <3>3, <3>4
  <2> QED BY <1>3, <1>4, <1>8, <2>4, <2>5 DEF Stalls, Hits, Misses, Takes
<1>9. CASE currentPenalty <= 0
  <2>1. Outstanding = <<>> \o pendingRequests
    BY <1>4, <1>9 DEF Outstanding
  <2>2. Outstanding = pendingRequests
    BY <1>4, <2>1, ConcatEmptySeq
  <2>3. received' = responses \o q
    BY <1>2, <1>3, <1>4, <1>5, <1>7, <2>2, ConcatAssociative
  <2>4. CASE Stalls(new)
    <3>1. pendingRequests = <<>> /\ q = <<>>
      BY <1>2, <1>4, <1>5, <2>4, ConcatEqualIffEmpty DEF Stalls
    <3>2. Outstanding' = <<>> \o pendingRequests /\ responses' = responses
      BY <1>4, <1>9, <2>4 DEF Stalls, Outstanding
    <3>3. Outstanding' = q
      BY <1>4, <3>1, <3>2, ConcatEmptySeq
    <3> QED BY <2>3, <3>2, <3>3
  <2>5. CASE Hits(new)
    <3>1. /\ curRequest' \in Request /\ pendingRequests' \in Seq(Request)
          /\ <<curRequest'>> \o pendingRequests' = q
      BY <1>2, <1>5, <2>5, TakesType DEF Hits
    <3>0. currentPenalty' = currentPenalty /\ responses' = Append(responses, curRequest')
      BY <2>5 DEF Hits
    <3>2. Outstanding' = <<>> \o pendingRequests' /\ responses' = Append(responses, curRequest')
      <4>1. ~(currentPenalty' > 0)
        BY <1>4, <1>9, <3>0
      <4> QED BY <3>0, <4>1, Zenon DEF Outstanding
    <3>3. Outstanding' = pendingRequests'
      BY <3>1, <3>2, ConcatEmptySeq
    <3>4. responses' = responses \o <<curRequest'>> /\ <<curRequest'>> \in Seq(Request)
      BY <1>4, <3>1, <3>2, AppendIsConcat
    <3>5. responses \o (<<curRequest'>> \o pendingRequests')
            = (responses \o <<curRequest'>>) \o pendingRequests'
      BY <1>4, <3>1, <3>4, ConcatAssociative
    <3> QED BY <2>3, <3>1, <3>3, <3>4, <3>5
  <2>6. CASE Misses(new)
    <3>1. <<curRequest'>> \o pendingRequests' = q
      BY <1>2, <1>5, <2>6, TakesType DEF Misses
    <3>2. Outstanding' = <<curRequest'>> \o pendingRequests' /\ responses' = responses
      BY <1>4, <2>6 DEF Misses, PenaltyOfMiss, Outstanding
    <3> QED BY <2>3, <3>1, <3>2
  <2> QED BY <1>3, <1>4, <1>9, <2>4, <2>5, <2>6 DEF PaysPenalty, EndsPenalty
<1> QED BY <1>4, <1>8, <1>9

LEMMA QueueStarts ==
  ASSUME Init
  PROVE  QueueTypeOK /\ AnswersInOrder
<1>1. QueueTypeOK
  BY ITLBAssumption DEF Init, QueueTypeOK, NoRequest, Request, NO_PENALTY
<1>2. Outstanding = <<>> \o <<>>
  BY DEF Init, Outstanding, NO_PENALTY
<1>3. <<>> \o <<>> = <<>>
  BY ConcatEmptySeq, EmptySeq
<1>4. received = responses \o Outstanding
  BY <1>2, <1>3 DEF Init
<1> QED BY <1>1, <1>4 DEF AnswersInOrder

LEMMA QueueStutters ==
  ASSUME UNCHANGED itlbVars, QueueTypeOK, AnswersInOrder
  PROVE  QueueTypeOK' /\ AnswersInOrder'
  BY DEF itlbVars, QueueTypeOK, AnswersInOrder, Outstanding

(***************************************************************************)
(* Every request is answered once, in the order of the requests and to the *)
(* client it came from, for every miss penalty of at least 1, however the  *)
(* requests of the clients and the penalties overlap (itlb.cpp:71-126).    *)
(***************************************************************************)
THEOREM ITLBAnswersInOrder == Spec => []AnswersInOrder
<1>1. Init => QueueTypeOK /\ AnswersInOrder
  BY QueueStarts
<1>2. QueueTypeOK /\ AnswersInOrder /\ [Next]_itlbVars => QueueTypeOK' /\ AnswersInOrder'
  <2> SUFFICES ASSUME QueueTypeOK, AnswersInOrder, [Next]_itlbVars
               PROVE  QueueTypeOK' /\ AnswersInOrder'
    OBVIOUS
  <2>1. CASE Next
    <3>1. PICK first \in Firsts : Clock(first)
      BY <2>1 DEF Next, Firsts
    <3> QED BY <3>1, ClockType, ClockAnswers
  <2> QED BY <2>1, QueueStutters
<1> QED BY <1>1, <1>2, PTL DEF Spec
-----------------------------------------------------------------------------
(***************************************************************************)
(* The cache.                                                              *)
(***************************************************************************)
Line == [isValid : BOOLEAN, tag : Nat]

Positive == Nat \ {0}

CacheOf(n, a) ==
  [policy  : Policies,
   entries : [0 .. n - 1 -> [0 .. a - 1 -> Line]],
   usage   : [0 .. n - 1 -> [0 .. a - 1 -> Nat]],
   rrIndex : [0 .. n - 1 -> 0 .. a - 1]]

(***************************************************************************)
(* No two ways of a set hold the same page.                                *)
(***************************************************************************)
NoPageTwice(c) ==
  \A s \in SetsOf(c) : \A v, w \in WaysOf(c) :
    (c.entries[s][v].isValid /\ c.entries[s][v] = c.entries[s][w]) => v = w

(***************************************************************************)
(* The ways of a cache, and where an address falls.                        *)
(***************************************************************************)
LEMMA CacheShape ==
  ASSUME NEW n \in Positive, NEW a \in Positive, NEW c \in CacheOf(n, a)
  PROVE  /\ SetsOf(c) = 0 .. n - 1 /\ Cardinality(SetsOf(c)) = n
         /\ WaysOf(c) = 0 .. a - 1 /\ Cardinality(WaysOf(c)) = a
<1>1. n \in Nat /\ a \in Nat /\ n > 0 /\ a > 0
  BY DEF Positive
<1>2. c.entries \in [0 .. n - 1 -> [0 .. a - 1 -> Line]]
  BY DEF CacheOf
<1>3. 0 \in 0 .. n - 1
  BY <1>1
<1>4. SetsOf(c) = 0 .. n - 1 /\ WaysOf(c) = 0 .. a - 1
  BY <1>2, <1>3 DEF SetsOf, WaysOf
<1>5. Cardinality(0 .. n - 1) = n /\ Cardinality(0 .. a - 1) = a
  BY <1>1, FS_Interval
<1> QED BY <1>4, <1>5

LEMMA AddressFalls ==
  ASSUME NEW n \in Positive, NEW a \in Positive, NEW c \in CacheOf(n, a), NEW addr \in Nat
  PROVE  GetIndex(c, addr) \in 0 .. n - 1 /\ GetTag(c, addr) \in Nat
<1>1. n \in Nat /\ n > 0
  BY DEF Positive
<1>2. GetIndex(c, addr) = addr % n /\ GetTag(c, addr) = addr \div n
  BY CacheShape DEF GetIndex, GetTag
<1>3. addr % n \in 0 .. n - 1
  BY <1>1
<1>4. addr \div n \in Nat
  BY <1>1
<1> QED BY <1>2, <1>3, <1>4

(***************************************************************************)
(* Acess only changes the ages.                                            *)
(***************************************************************************)
LEMMA AcessAges ==
  ASSUME NEW n \in Positive, NEW a \in Positive, NEW c \in CacheOf(n, a),
         NEW s \in 0 .. n - 1, NEW way
  PROVE  /\ Acess(c, s, way) \in CacheOf(n, a)
         /\ Acess(c, s, way).entries = c.entries
         /\ Acess(c, s, way).rrIndex = c.rrIndex
<1>1. CASE c.policy = "lru"
  <2> DEFINE ages == [w \in WaysOf(c) |-> IF w = way THEN 0 ELSE c.usage[s][w] + 1]
  <2>1. Acess(c, s, way) = [c EXCEPT !.usage = [c.usage EXCEPT ![s] = ages]]
    BY <1>1 DEF Acess, CacheOf
  <2>2. c.usage[s] \in [0 .. a - 1 -> Nat]
    BY DEF CacheOf
  <2>3. ages \in [0 .. a - 1 -> Nat]
    <3>1. WaysOf(c) = 0 .. a - 1
      BY CacheShape
    <3>2. \A w \in 0 .. a - 1 : c.usage[s][w] + 1 \in Nat
      <4> TAKE w \in 0 .. a - 1
      <4>1. c.usage[s][w] \in Nat
        BY <2>2
      <4> QED BY <4>1
    <3> QED BY <3>1, <3>2
  <2> HIDE DEF ages
  <2>4. [c.usage EXCEPT ![s] = ages] \in [0 .. n - 1 -> [0 .. a - 1 -> Nat]]
    BY <2>3 DEF CacheOf
  <2> QED BY <2>1, <2>4 DEF CacheOf
<1>2. CASE c.policy # "lru"
  BY <1>2 DEF Acess
<1> QED BY <1>1, <1>2

(***************************************************************************)
(* A least and a greatest way exist, so the policies select a way.         *)
(***************************************************************************)
LEMMA LeastWay ==
  ASSUME NEW T \in SUBSET Nat, T # {}
  PROVE  Min(T) \in T
<1>1. \E x \in T : \A y \in T : x <= y
  BY LeastNumber
<1> QED BY <1>1 DEF Min

LEMMA OldestExists ==
  ASSUME NEW a \in Positive, NEW ages \in [0 .. a - 1 -> Nat]
  PROVE  \E w \in 0 .. a - 1 : \A v \in 0 .. a - 1 : ages[v] <= ages[w]
<1>0. a \in Nat /\ a > 0
  BY DEF Positive
<1> DEFINE S == {k \in Nat : k < a => \E w \in 0 .. k : \A v \in 0 .. k : ages[v] <= ages[w]}
<1>1. 0 \in S
  <2>1. 0 \in 0 .. a - 1 /\ \A v \in 0 .. 0 : v = 0
    BY <1>0
  <2>2. ages[0] \in Nat
    BY <2>1
  <2>3. \A v \in 0 .. 0 : ages[v] <= ages[0]
    BY <2>1, <2>2
  <2> QED BY <2>3
<1>2. ASSUME NEW k \in S PROVE k + 1 \in S
  <2> SUFFICES ASSUME k + 1 < a
               PROVE  \E w \in 0 .. k + 1 : \A v \in 0 .. k + 1 : ages[v] <= ages[w]
    OBVIOUS
  <2>1. k \in Nat /\ k < a
    BY <1>0
  <2>2. PICK w \in 0 .. k : \A v \in 0 .. k : ages[v] <= ages[w]
    BY <2>1
  <2>3. w \in 0 .. k + 1 /\ k + 1 \in 0 .. k + 1 /\ \A v \in 0 .. k + 1 : v \in 0 .. k \/ v = k + 1
    BY <2>1
  <2>4. \A v \in 0 .. k + 1 : ages[v] \in Nat
    BY <1>0, <2>1
  <2>5. CASE ages[w] <= ages[k + 1]
    <3>1. \A v \in 0 .. k + 1 : ages[v] <= ages[k + 1]
      BY <2>2, <2>3, <2>4, <2>5
    <3> QED BY <2>3, <3>1
  <2>6. CASE ~(ages[w] <= ages[k + 1])
    <3>1. \A v \in 0 .. k + 1 : ages[v] <= ages[w]
      BY <2>2, <2>3, <2>4, <2>6
    <3> QED BY <2>3, <3>1
  <2> QED BY <2>5, <2>6
<1>3. S \in SUBSET Nat
  OBVIOUS
<1> HIDE DEF S
<1>4. a - 1 \in S
  <2>1. S = Nat
    BY <1>1, <1>2, <1>3, Induction
  <2> QED BY <1>0, <2>1
<1> QED BY <1>0, <1>4 DEF S

LEMMA VictimIsAWay ==
  ASSUME NEW n \in Positive, NEW a \in Positive, NEW c \in CacheOf(n, a),
         NEW s \in 0 .. n - 1
  PROVE  SelectVictim(c, s) \in SUBSET WaysOf(c) /\ SelectVictim(c, s) # {}
<1>0. WaysOf(c) = 0 .. a - 1 /\ a \in Nat /\ a > 0 /\ 0 \in 0 .. a - 1
  BY CacheShape DEF Positive
<1>1. CASE c.policy = "lru"
  <2> DEFINE ages == c.usage[s]
  <2>1. ages \in [0 .. a - 1 -> Nat] /\ DOMAIN ages = 0 .. a - 1
    BY DEF CacheOf
  <2> DEFINE oldest == {w \in DOMAIN ages : \A v \in DOMAIN ages : ages[v] <= ages[w]}
  <2>2. oldest \in SUBSET (0 .. a - 1) /\ oldest # {}
    BY <2>1, OldestExists
  <2>3. oldest \in SUBSET Nat
    BY <2>2
  <2>4. SelectVictim(c, s) = {Min(oldest)}
    BY <1>1 DEF SelectVictim, OldestOf
  <2> HIDE DEF oldest
  <2>5. Min(oldest) \in oldest
    BY <2>2, <2>3, LeastWay
  <2> QED BY <1>0, <2>2, <2>4, <2>5
<1>2. CASE c.policy = "random"
  BY <1>0, <1>2 DEF SelectVictim
<1>3. CASE c.policy = "roundrobin"
  <2>1. SelectVictim(c, s) = {c.rrIndex[s]}
    BY <1>3 DEF SelectVictim
  <2>2. c.rrIndex[s] \in 0 .. a - 1
    BY DEF CacheOf
  <2> QED BY <1>0, <2>1, <2>2
<1> QED BY <1>1, <1>2, <1>3 DEF CacheOf, Policies

(***************************************************************************)
(* The turn stays among the ways.                                          *)
(***************************************************************************)
LEMMA TurnIsKept ==
  ASSUME NEW n \in Positive, NEW a \in Positive, NEW c \in CacheOf(n, a),
         NEW s \in 0 .. n - 1
  PROVE  TakesTurn(c, s) \in CacheOf(n, a) /\ TakesTurn(c, s).entries = c.entries
<1>1. CASE c.policy = "roundrobin"
  <2> DEFINE turn == (c.rrIndex[s] + 1) % a
  <2>1. TakesTurn(c, s) = [c EXCEPT !.rrIndex = [c.rrIndex EXCEPT ![s] = turn]]
    BY <1>1, CacheShape DEF TakesTurn, CacheOf
  <2>2. c.rrIndex[s] \in 0 .. a - 1 /\ a \in Nat /\ a > 0
    <3>1. c.rrIndex \in [0 .. n - 1 -> 0 .. a - 1]
      BY DEF CacheOf
    <3> QED BY <3>1 DEF Positive
  <2>3. turn \in 0 .. a - 1
    BY <2>2
  <2> HIDE DEF turn
  <2>4. [c.rrIndex EXCEPT ![s] = turn] \in [0 .. n - 1 -> 0 .. a - 1]
    BY <2>3 DEF CacheOf
  <2> QED BY <2>1, <2>4 DEF CacheOf
<1>2. CASE c.policy # "roundrobin"
  BY <1>2 DEF TakesTurn
<1> QED BY <1>1, <1>2

(***************************************************************************)
(* To fill a way with an address that the set does not hold keeps the      *)
(* pages of the set different.                                             *)
(***************************************************************************)
LEMMA FillAddsANewPage ==
  ASSUME NEW n \in Positive, NEW a \in Positive, NEW c \in CacheOf(n, a),
         NEW addr \in Nat, ~IsHit(c, addr), NoPageTwice(c), NEW way \in WaysOf(c)
  PROVE  Fill(c, addr, way) \in CacheOf(n, a) /\ NoPageTwice(Fill(c, addr, way))
<1> DEFINE s == GetIndex(c, addr)
           line == [isValid |-> TRUE, tag |-> GetTag(c, addr)]
           lines == [c.entries EXCEPT ![s] = [c.entries[s] EXCEPT ![way] = line]]
           d == [c EXCEPT !.entries = lines]
<1>1. s \in 0 .. n - 1 /\ line \in Line
  BY AddressFalls DEF Line
<1>2. Fill(c, addr, way) = Acess(d, s, way)
  BY DEF Fill, CacheOf
<1>3. WaysOf(c) = 0 .. a - 1 /\ SetsOf(c) = 0 .. n - 1
  BY CacheShape
<1>4. \A w \in 0 .. a - 1 : c.entries[s][w] # line
  BY <1>3 DEF IsHit, GetEntry
<1>5. c.entries \in [0 .. n - 1 -> [0 .. a - 1 -> Line]]
  BY DEF CacheOf
<1>6. \A r \in 0 .. n - 1 : \A v, w \in 0 .. a - 1 :
        (c.entries[r][v].isValid /\ c.entries[r][v] = c.entries[r][w]) => v = w
  BY <1>3 DEF NoPageTwice
<1> HIDE DEF s, line
<1>7. /\ lines \in [0 .. n - 1 -> [0 .. a - 1 -> Line]]
      /\ \A r \in 0 .. n - 1 : \A v \in 0 .. a - 1 :
           lines[r][v] = IF r = s /\ v = way THEN line ELSE c.entries[r][v]
  BY <1>1, <1>3, <1>5
<1> HIDE DEF lines
<1>8. d \in CacheOf(n, a) /\ d.entries = lines
  BY <1>7 DEF CacheOf
<1> HIDE DEF d
<1>9. /\ Acess(d, s, way) \in CacheOf(n, a)
      /\ Acess(d, s, way).entries = lines
  BY <1>1, <1>8, AcessAges
<1>10. \A r \in 0 .. n - 1 : \A v, w \in 0 .. a - 1 :
         (lines[r][v].isValid /\ lines[r][v] = lines[r][w]) => v = w
  <2> SUFFICES ASSUME NEW r \in 0 .. n - 1, NEW v \in 0 .. a - 1, NEW w \in 0 .. a - 1,
                      lines[r][v].isValid, lines[r][v] = lines[r][w]
               PROVE  v = w
    BY Zenon
  <2>1. CASE r = s /\ (v = way \/ w = way)
    BY <1>4, <1>7, <2>1
  <2>2. CASE ~(r = s /\ (v = way \/ w = way))
    <3>1. lines[r][v] = c.entries[r][v] /\ lines[r][w] = c.entries[r][w]
      BY <1>7, <2>2
    <3> QED BY <1>6, <3>1
  <2> QED BY <2>1, <2>2
<1>11. SetsOf(Acess(d, s, way)) = 0 .. n - 1 /\ WaysOf(Acess(d, s, way)) = 0 .. a - 1
  BY <1>9, CacheShape
<1> QED BY <1>2, <1>9, <1>10, <1>11 DEF NoPageTwice

LEMMA WriteAddsANewPage ==
  ASSUME NEW n \in Positive, NEW a \in Positive, NEW c \in CacheOf(n, a),
         NEW addr \in Nat, ~IsHit(c, addr), NoPageTwice(c)
  PROVE  /\ Write(c, addr) # {}
         /\ \A d \in Write(c, addr) : d \in CacheOf(n, a) /\ NoPageTwice(d)
<1> DEFINE s == GetIndex(c, addr)
           empty == FindEmptyEntry(c, addr)
<1>1. s \in 0 .. n - 1
  BY AddressFalls
<1>2. CASE empty # {}
  <2>1. Write(c, addr) = {Fill(c, addr, Min(empty))}
    BY <1>2 DEF Write
  <2>2. empty \in SUBSET WaysOf(c) /\ WaysOf(c) \in SUBSET Nat
    BY CacheShape DEF FindEmptyEntry, Positive
  <2>3. Min(empty) \in WaysOf(c)
    BY <1>2, <2>2, LeastWay
  <2> QED BY <2>1, <2>3, FillAddsANewPage
<1>3. CASE empty = {}
  <2> DEFINE t == TakesTurn(c, s)
  <2>1. Write(c, addr) = {Fill(t, addr, way) : way \in SelectVictim(c, s)}
    BY <1>3 DEF Write
  <2>2. t \in CacheOf(n, a) /\ t.entries = c.entries
    BY <1>1, TurnIsKept
  <2>3. SelectVictim(c, s) \in SUBSET WaysOf(c) /\ SelectVictim(c, s) # {}
    BY <1>1, VictimIsAWay
  <2> HIDE DEF t
  <2>4. SetsOf(t) = SetsOf(c) /\ WaysOf(t) = WaysOf(c)
    BY <2>2 DEF SetsOf, WaysOf
  <2>5. NoPageTwice(t)
    BY <2>2, <2>4 DEF NoPageTwice
  <2>6. ~IsHit(t, addr)
    BY <2>2, <2>4 DEF IsHit, GetEntry, GetIndex, GetTag
  <2>7. \A way \in SelectVictim(c, s) :
          Fill(t, addr, way) \in CacheOf(n, a) /\ NoPageTwice(Fill(t, addr, way))
    BY <2>2, <2>3, <2>4, <2>5, <2>6, FillAddsANewPage
  <2> QED BY <2>1, <2>3, <2>7
<1> QED BY <1>2, <1>3

(***************************************************************************)
(* A cache is made with at least one set and one way, all lines of which   *)
(* are invalid.                                                            *)
(***************************************************************************)
LEMMA RoundedToASet ==
  ASSUME NEW m \in Positive
  PROVE  RoundedSets(m) \in Positive
<1>0. m \in Nat /\ m >= 1
  BY DEF Positive
<1> DEFINE P == {p \in 1 .. m : \E bits \in 0 .. m : p = 2 ^ bits}
           Q == {m - p : p \in P}
<1>1. 1 \in P
  <2>1. 2 ^ 0 = 1 /\ 0 \in 0 .. m /\ 1 \in 1 .. m
    BY <1>0
  <2> QED BY <2>1
<1>2. P \in SUBSET (1 .. m) /\ RoundedSets(m) = Max(P)
  BY DEF RoundedSets
<1> HIDE DEF P
<1>3. Q \in SUBSET Nat /\ Q # {}
  BY <1>0, <1>1, <1>2
<1>4. PICK q \in Q : \A r \in Q : q <= r
  BY <1>3, LeastNumber
<1>5. PICK x \in P : q = m - x
  OBVIOUS
<1>6. \A y \in P : m - x <= m - y
  BY <1>4, <1>5
<1>7. \A y \in P : x >= y
  BY <1>0, <1>2, <1>6
<1>8. Max(P) \in P
  BY <1>7 DEF Max
<1>9. Max(P) \in 1 .. m
  BY <1>2, <1>8
<1> QED BY <1>0, <1>2, <1>9 DEF Positive

LEMMA CacheIsMade ==
  ASSUME NEW g \in Geometries, NEW policy \in Policies
  PROVE  LET c == fromNumSets(g[1] \div g[2], g[2], policy)
         IN  /\ \E n, a \in Positive : c \in CacheOf(n, a)
             /\ NoPageTwice(c)
<1> DEFINE m == g[1] \div g[2]
           n == RoundedSets(m)
           a == g[2]
           c == fromNumSets(m, a, policy)
<1>1. a \in Positive /\ g[1] \in Nat /\ g[1] >= a
  BY ITLBAssumption DEF Positive
<1>2. m \in Positive
  <2>1. a \in Nat /\ a > 0 /\ g[1] = a * m + (g[1] % a) /\ m \in Int /\ g[1] % a \in 0 .. a - 1
    BY <1>1 DEF Positive
  <2> HIDE DEF m
  <2>2. m >= 1
    <3> SUFFICES ASSUME m <= 0 PROVE FALSE
      BY <2>1
    <3>1. \A x, y \in Int : x > 0 /\ y <= 0 => x * y <= 0
      OBVIOUS
    <3>2. a * m <= 0
      BY <2>1, <3>1
    <3>3. PICK r \in 0 .. a - 1 : g[1] = a * m + r
      BY <2>1
    <3> QED BY <1>1, <2>1, <3>2, <3>3
  <2> QED BY <2>1, <2>2 DEF Positive
<1> HIDE DEF m
<1>3. n \in Positive
  BY <1>2, RoundedToASet
<1> HIDE DEF n
<1>4. 0 \in 0 .. n - 1 /\ 0 \in 0 .. a - 1
  BY <1>1, <1>3 DEF Positive
<1>5. /\ c.policy = policy
      /\ c.entries = [s \in 0 .. n - 1 |-> [w \in 0 .. a - 1 |-> [isValid |-> FALSE, tag |-> 0]]]
      /\ c.usage = [s \in 0 .. n - 1 |-> [w \in 0 .. a - 1 |-> 0]]
      /\ c.rrIndex = [s \in 0 .. n - 1 |-> 0]
      /\ c = [policy |-> c.policy, entries |-> c.entries, usage |-> c.usage, rrIndex |-> c.rrIndex]
  BY DEF fromNumSets, n
<1> HIDE DEF c
<1>6. [isValid |-> FALSE, tag |-> 0] \in Line
  BY DEF Line
<1>7. c \in CacheOf(n, a)
  <2>1. c.entries \in [0 .. n - 1 -> [0 .. a - 1 -> Line]]
    BY <1>5, <1>6
  <2>2. c.usage \in [0 .. n - 1 -> [0 .. a - 1 -> Nat]]
    BY <1>5
  <2>3. c.rrIndex \in [0 .. n - 1 -> 0 .. a - 1]
    BY <1>4, <1>5
  <2> QED BY <1>5, <2>1, <2>2, <2>3 DEF CacheOf
<1>8. NoPageTwice(c)
  <2>1. SetsOf(c) = 0 .. n - 1 /\ WaysOf(c) = 0 .. a - 1
    BY <1>1, <1>3, <1>7, CacheShape
  <2>2. \A s \in 0 .. n - 1 : \A w \in 0 .. a - 1 : c.entries[s][w].isValid = FALSE
    BY <1>5
  <2> QED BY <2>1, <2>2 DEF NoPageTwice
<1> QED BY <1>1, <1>3, <1>7, <1>8 DEF c, m
-----------------------------------------------------------------------------
(***************************************************************************)
(* The inductive invariant of the component.                               *)
(***************************************************************************)
CacheInductive ==
  /\ QueueTypeOK
  /\ \E n, a \in Positive : cache \in CacheOf(n, a)
  /\ NoPageTwice(cache)

LEMMA CacheStarts ==
  ASSUME Init
  PROVE  CacheInductive
<1>1. QueueTypeOK
  BY QueueStarts
<1>2. PICK g \in Geometries, policy \in Policies :
        cache = fromNumSets(g[1] \div g[2], g[2], policy)
  BY DEF Init
<1> QED BY <1>1, <1>2, CacheIsMade DEF CacheInductive

LEMMA ClockKeepsTheShape ==
  ASSUME QueueTypeOK, NEW n \in Positive, NEW a \in Positive, cache \in CacheOf(n, a),
         NoPageTwice(cache), NEW first \in Firsts, Clock(first)
  PROVE  cache' \in CacheOf(n, a) /\ NoPageTwice(cache')
<1>1. PICK new : new = NewRequests(first)
  OBVIOUS
<1>2. new \in Seq(Request)
  BY <1>1, NewRequestsType
<1>3. PaysPenalty(new) \/ EndsPenalty(new) \/ Stalls(new) \/ Hits(new) \/ Misses(new)
  BY <1>1 DEF Clock
<1>7. CASE cache' = cache
  BY <1>7
<1>8. CASE Hits(new)
  <2>1. curRequest' \in Request
    BY <1>2, <1>8, TakesType DEF Hits
  <2>2. curRequest'.addr \in Nat
    BY <2>1 DEF Request
  <2>3. PICK s, way : cache' = Acess(cache, s, way) /\ s = GetIndex(cache, curRequest'.addr)
    BY <1>8 DEF Hits, ReadHit
  <2>4. s \in 0 .. n - 1
    BY <2>2, <2>3, AddressFalls
  <2>5. cache' \in CacheOf(n, a) /\ cache'.entries = cache.entries
    BY <2>3, <2>4, AcessAges
  <2>6. SetsOf(cache') = SetsOf(cache) /\ WaysOf(cache') = WaysOf(cache)
    BY <2>5 DEF SetsOf, WaysOf
  <2> QED BY <2>5, <2>6 DEF NoPageTwice
<1>9. CASE Misses(new)
  <2>1. curRequest' \in Request
    BY <1>2, <1>9, TakesType DEF Misses
  <2>2. curRequest'.addr \in Nat
    BY <2>1 DEF Request
  <2>3. cache' \in Write(cache, curRequest'.addr) /\ ~IsHit(cache, curRequest'.addr)
    BY <1>9 DEF Misses
  <2> QED BY <2>2, <2>3, WriteAddsANewPage
<1> QED BY <1>3, <1>7, <1>8, <1>9 DEF PaysPenalty, EndsPenalty, Stalls

LEMMA ClockKeepsTheCache ==
  ASSUME CacheInductive, NEW first \in Firsts, Clock(first)
  PROVE  CacheInductive'
<1>1. PICK n \in Positive, a \in Positive : cache \in CacheOf(n, a)
  BY DEF CacheInductive
<1>2. cache' \in CacheOf(n, a) /\ NoPageTwice(cache')
  BY <1>1, ClockKeepsTheShape DEF CacheInductive
<1> QED BY <1>2, ClockType DEF CacheInductive

(***************************************************************************)
(* The penalty, the turns and the lines are of their types, and no set     *)
(* holds a page twice, although Write does not look for the page before it *)
(* fills a line (cacheMemory.hpp): for every number of entries and ways    *)
(* and each of the three policies.                                         *)
(***************************************************************************)
THEOREM CacheHoldsPagesOnce == Spec => []ITLBInvariant
<1>1. Init => CacheInductive
  BY CacheStarts
<1>2. CacheInductive /\ [Next]_itlbVars => CacheInductive'
  <2> SUFFICES ASSUME CacheInductive, [Next]_itlbVars PROVE CacheInductive'
    OBVIOUS
  <2>1. CASE Next
    <3>1. PICK first \in Firsts : Clock(first)
      BY <2>1 DEF Next, Firsts
    <3> QED BY <3>1, ClockKeepsTheCache
  <2>2. CASE UNCHANGED itlbVars
    <3>1. cache' = cache /\ QueueTypeOK'
      BY <2>2 DEF itlbVars, CacheInductive, QueueTypeOK
    <3> QED BY <3>1 DEF CacheInductive
  <2> QED BY <2>1, <2>2
<1>3. CacheInductive => ITLBInvariant
  <2> SUFFICES ASSUME CacheInductive PROVE ITLBInvariant
    OBVIOUS
  <2>1. PICK n \in Positive, a \in Positive : cache \in CacheOf(n, a)
    BY DEF CacheInductive
  <2>2. SetsOf(cache) = 0 .. n - 1 /\ WaysOf(cache) = 0 .. a - 1
    BY <2>1, CacheShape
  <2>3. \A s \in SetsOf(cache) : cache.rrIndex[s] \in WaysOf(cache)
    <3>1. cache.rrIndex \in [0 .. n - 1 -> 0 .. a - 1]
      BY <2>1 DEF CacheOf
    <3> QED BY <2>2, <3>1
  <2>4. currentPenalty \in NO_PENALTY .. missPenalty /\ NoPageTwice(cache)
    BY DEF CacheInductive, QueueTypeOK
  <2> QED BY <2>3, <2>4 DEF ITLBInvariant, NoPageTwice
<1> QED BY <1>1, <1>2, <1>3, PTL DEF Spec
-----------------------------------------------------------------------------
(***************************************************************************)
(* The pages that were looked up are those of the requests that were       *)
(* received and are not pending: a request that is taken adds its own.     *)
(***************************************************************************)
QueueFits ==
  /\ received \in Seq(Asked) /\ pendingRequests \in Seq(Asked)
  /\ Len(pendingRequests) <= Len(received)
  /\ \A i \in 1 .. Len(pendingRequests) :
       pendingRequests[i] = received[Len(received) - Len(pendingRequests) + i]

LEMMA SuffixGrows ==
  ASSUME NEW S, NEW p \in Seq(S), NEW r \in Seq(S), NEW new \in Seq(S), Len(p) <= Len(r),
         \A i \in 1 .. Len(p) : p[i] = r[Len(r) - Len(p) + i],
         NEW q, q = p \o new, NEW t, t = r \o new
  PROVE  /\ q \in Seq(S) /\ t \in Seq(S) /\ Len(q) <= Len(t)
         /\ Len(t) - Len(q) = Len(r) - Len(p)
         /\ \A i \in 1 .. Len(q) : q[i] = t[Len(t) - Len(q) + i]
         /\ \A i \in 1 .. Len(r) : t[i] = r[i]
<1>1. Len(r) \in Nat /\ Len(p) \in Nat /\ Len(new) \in Nat
  OBVIOUS
<1>2. /\ t \in Seq(S) /\ Len(t) = Len(r) + Len(new)
      /\ \A i \in 1 .. Len(r) + Len(new) : t[i] = IF i <= Len(r) THEN r[i] ELSE new[i - Len(r)]
  BY ConcatProperties
<1>3. /\ q \in Seq(S) /\ Len(q) = Len(p) + Len(new)
      /\ \A i \in 1 .. Len(p) + Len(new) : q[i] = IF i <= Len(p) THEN p[i] ELSE new[i - Len(p)]
  BY ConcatProperties
<1> DEFINE k == Len(r) - Len(p)
<1>4. k \in Nat /\ k <= Len(r) /\ Len(t) - Len(q) = k /\ Len(q) <= Len(t)
  BY <1>1, <1>2, <1>3
<1>5. \A i \in 1 .. Len(q) : q[i] = t[k + i]
  <2> TAKE i \in 1 .. Len(q)
  <2>1. i \in 1 .. Len(p) + Len(new) /\ k + i \in 1 .. Len(r) + Len(new)
    BY <1>1, <1>2, <1>3
  <2>2. CASE i <= Len(p)
    <3>1. k + i <= Len(r) /\ i \in 1 .. Len(p)
      BY <1>1, <2>1, <2>2
    <3> QED BY <1>2, <1>3, <2>1, <2>2, <3>1
  <2>3. CASE ~(i <= Len(p))
    <3>1. ~(k + i <= Len(r)) /\ (k + i) - Len(r) = i - Len(p)
      BY <1>1, <2>1, <2>3
    <3> HIDE DEF k
    <3>2. t[k + i] = new[(k + i) - Len(r)]
      BY <1>2, <2>1, <3>1
    <3>3. q[i] = new[i - Len(p)]
      BY <1>3, <2>1, <2>3
    <3> QED BY <3>1, <3>2, <3>3
  <2> QED BY <2>2, <2>3
<1>6. \A i \in 1 .. Len(r) : t[i] = r[i]
  BY <1>1, <1>2
<1> QED BY <1>2, <1>3, <1>4, <1>5, <1>6

LEMMA NothingLookedUp ==
  ASSUME QueueFits, NEW new \in Seq(Asked),
         received' = received \o new, pendingRequests' = pendingRequests \o new
  PROVE  QueueFits' /\ LookedUp' = LookedUp
<1> DEFINE k == Len(received) - Len(pendingRequests)
<1>1. /\ received \in Seq(Asked) /\ pendingRequests \in Seq(Asked)
      /\ Len(received) \in Nat /\ Len(pendingRequests) \in Nat
      /\ k \in Nat /\ k <= Len(received)
  BY DEF QueueFits
<1>2. /\ received' \in Seq(Asked) /\ pendingRequests' \in Seq(Asked)
      /\ Len(pendingRequests') <= Len(received') /\ Len(received') - Len(pendingRequests') = k
      /\ \A i \in 1 .. Len(pendingRequests') :
           pendingRequests'[i] = received'[Len(received') - Len(pendingRequests') + i]
      /\ \A i \in 1 .. Len(received) : received'[i] = received[i]
  BY SuffixGrows DEF QueueFits
<1>3. \A i \in 1 .. k : received'[i] = received[i]
  BY <1>1, <1>2
<1>4. /\ LookedUp' = [i \in 1 .. k |-> received'[i].addr]
      /\ LookedUp = [i \in 1 .. k |-> received[i].addr]
  BY <1>2 DEF LookedUp
<1> HIDE DEF k
<1>5. LookedUp' = LookedUp
  BY <1>3, <1>4
<1> QED BY <1>2, <1>5 DEF QueueFits

LEMMA OneIsLookedUp ==
  ASSUME QueueFits, NEW new \in Seq(Asked), received' = received \o new, Takes(new)
  PROVE  /\ QueueFits' /\ curRequest'.addr \in Pages
         /\ LookedUp \in Seq(Pages)
         /\ LookedUp' = Append(LookedUp, curRequest'.addr)
<1> DEFINE q == pendingRequests \o new
           r == received \o new
           k == Len(received) - Len(pendingRequests)
<1>1. /\ received \in Seq(Asked) /\ pendingRequests \in Seq(Asked)
      /\ Len(received) \in Nat /\ Len(pendingRequests) \in Nat /\ Len(new) \in Nat
      /\ Len(pendingRequests) <= Len(received)
  BY DEF QueueFits
<1>2. /\ r \in Seq(Asked) /\ q \in Seq(Asked) /\ Len(r) - Len(q) = k
      /\ \A i \in 1 .. Len(q) : q[i] = r[Len(r) - Len(q) + i]
      /\ \A i \in 1 .. Len(received) : r[i] = received[i]
  BY SuffixGrows DEF QueueFits
<1>4. received' = r /\ q # <<>> /\ curRequest' = Head(q) /\ pendingRequests' = Tail(q)
  BY DEF Takes
<1> HIDE DEF q, r
<1>5. k \in Nat /\ k <= Len(received) /\ Len(r) - Len(q) = k /\ Len(q) \in Nat /\ Len(r) \in Nat
  BY <1>1, <1>2
<1>6. \A i \in 1 .. Len(q) : q[i] = r[k + i]
  BY <1>2
<1>7. \A i \in 1 .. k : r[i] = received[i]
  BY <1>1, <1>2, <1>5
<1>8. LookedUp = [i \in 1 .. k |-> received[i].addr]
  BY DEF LookedUp
<1>9. \A i \in 1 .. k : received[i] \in Asked
  BY <1>1, <1>5
<1> HIDE DEF k
<1>10. \A i \in 1 .. k : received[i].addr \in Pages
  BY <1>9 DEF Asked
<1>11. LookedUp \in Seq(Pages) /\ Len(LookedUp) = k
  BY <1>5, <1>8, <1>10
<1>12. /\ Head(q) \in Asked /\ Head(q) = q[1] /\ Tail(q) \in Seq(Asked)
       /\ Len(q) >= 1 /\ Len(Tail(q)) = Len(q) - 1
       /\ \A i \in 1 .. Len(Tail(q)) : Tail(q)[i] = q[i + 1]
  BY <1>2, <1>4, <1>5, HeadTailProperties, EmptySeq
<1>13. curRequest' = r[k + 1] /\ curRequest'.addr \in Pages
  BY <1>4, <1>5, <1>6, <1>12 DEF Asked
<1>14. \A i \in 1 .. Len(Tail(q)) : Tail(q)[i] = r[(k + 1) + i]
  <2> TAKE i \in 1 .. Len(Tail(q))
  <2>1. i + 1 \in 1 .. Len(q) /\ k + (i + 1) = (k + 1) + i
    BY <1>5, <1>12
  <2> QED BY <1>6, <1>12, <2>1
<1>15. Len(r) - Len(Tail(q)) = k + 1 /\ Len(Tail(q)) <= Len(r)
  BY <1>5, <1>12
<1>16. QueueFits'
  BY <1>2, <1>4, <1>12, <1>14, <1>15 DEF QueueFits
<1>17. LookedUp' = [i \in 1 .. k + 1 |-> r[i].addr]
  BY <1>4, <1>15 DEF LookedUp
<1> DEFINE M == Append(LookedUp, curRequest'.addr)
<1>18. /\ M \in Seq(Pages) /\ Len(M) = k + 1 /\ M[k + 1] = curRequest'.addr
       /\ \A i \in 1 .. k : M[i] = LookedUp[i]
  BY <1>5, <1>11, <1>13, AppendProperties
<1>19. M = [i \in 1 .. k + 1 |-> M[i]]
  BY <1>18
<1> HIDE DEF M
<1>20. \A i \in 1 .. k + 1 : M[i] = r[i].addr
  <2> TAKE i \in 1 .. k + 1
  <2>1. CASE i = k + 1
    BY <1>13, <1>18, <2>1
  <2>2. CASE i # k + 1
    <3>1. i \in 1 .. k
      BY <1>5, <2>2
    <3> QED BY <1>7, <1>8, <1>18, <3>1
  <2> QED BY <2>1, <2>2
<1>21. LookedUp' = M
  BY <1>17, <1>19, <1>20
<1> QED BY <1>11, <1>13, <1>16, <1>21 DEF M
-----------------------------------------------------------------------------
(***************************************************************************)
(* What a lookup does to the cache.  The way it touches holds the page     *)
(* afterwards and all others are as they were.                             *)
(***************************************************************************)
PageLine(c, p) == [isValid |-> TRUE, tag |-> GetTag(c, p)]

Holds(c, s, w, p) == c.entries[s][w] = PageLine(c, p)

Touches(c, d, p, way) ==
  LET s == GetIndex(c, p)
  IN  /\ d.policy = c.policy
      /\ \A r \in SetsOf(c) : \A v \in WaysOf(c) :
           d.entries[r][v] = IF r = s /\ v = way THEN PageLine(c, p) ELSE c.entries[r][v]
      /\ c.policy = "lru" =>
           \A r \in SetsOf(c) : \A v \in WaysOf(c) :
             d.usage[r][v] = IF r # s THEN c.usage[r][v]
                             ELSE IF v = way THEN 0 ELSE c.usage[r][v] + 1

(***************************************************************************)
(* The way was found, was the first empty one, or is the victim of the     *)
(* replacement policy.                                                     *)
(***************************************************************************)
FoundIn(c, d, p, way) ==
  Holds(c, GetIndex(c, p), way, p) /\ d.rrIndex = c.rrIndex

FirstEmpty(c, d, p, way) ==
  LET s == GetIndex(c, p)
  IN  /\ ~c.entries[s][way].isValid
      /\ \A v \in WaysOf(c) : ~c.entries[s][v].isValid => way <= v
      /\ d.rrIndex = c.rrIndex

Wrapped(w, a) == IF w < a THEN w ELSE w - a

Replaces(c, d, p, way) ==
  LET s == GetIndex(c, p)
  IN  /\ \A v \in WaysOf(c) : c.entries[s][v].isValid
      /\ c.policy = "lru" => \A v \in WaysOf(c) : c.usage[s][v] <= c.usage[s][way]
      /\ c.policy = "roundrobin" =>
           /\ way = c.rrIndex[s]
           /\ \A r \in SetsOf(c) :
                d.rrIndex[r] = IF r = s THEN Wrapped(c.rrIndex[s] + 1, Cardinality(WaysOf(c)))
                               ELSE c.rrIndex[r]

LEMMA AcessTouches ==
  ASSUME NEW n \in Positive, NEW a \in Positive, NEW c \in CacheOf(n, a),
         NEW p \in Nat, NEW way \in 0 .. a - 1, Holds(c, GetIndex(c, p), way, p)
  PROVE  Touches(c, Acess(c, GetIndex(c, p), way), p, way)
<1> DEFINE s == GetIndex(c, p)
           d == Acess(c, s, way)
<1>1. s \in 0 .. n - 1
  BY AddressFalls
<1>2. SetsOf(c) = 0 .. n - 1 /\ WaysOf(c) = 0 .. a - 1
  BY CacheShape
<1>3. d.entries = c.entries
  BY <1>1, AcessAges
<1>4. d.policy = c.policy
  BY DEF Acess, CacheOf
<1>5. ASSUME c.policy = "lru"
      PROVE  \A r \in 0 .. n - 1 : \A v \in 0 .. a - 1 :
               d.usage[r][v] = IF r # s THEN c.usage[r][v]
                               ELSE IF v = way THEN 0 ELSE c.usage[r][v] + 1
  <2> DEFINE ages == [w \in 0 .. a - 1 |-> IF w = way THEN 0 ELSE c.usage[s][w] + 1]
  <2>1. d.usage = [c.usage EXCEPT ![s] = ages]
    BY <1>2, <1>5 DEF Acess, CacheOf
  <2>2. c.usage \in [0 .. n - 1 -> [0 .. a - 1 -> Nat]]
    BY DEF CacheOf
  <2>3. \A v \in 0 .. a - 1 : ages[v] = IF v = way THEN 0 ELSE c.usage[s][v] + 1
    OBVIOUS
  <2> HIDE DEF ages, d, s
  <2>4. \A r \in 0 .. n - 1 : d.usage[r] = IF r = s THEN ages ELSE c.usage[r]
    BY <1>1, <2>1, <2>2
  <2> QED BY <2>3, <2>4
<1> HIDE DEF d
<1>6. \A r \in 0 .. n - 1 : \A v \in 0 .. a - 1 :
        d.entries[r][v] = IF r = s /\ v = way THEN PageLine(c, p) ELSE c.entries[r][v]
  BY <1>3 DEF Holds
<1> QED BY <1>2, <1>4, <1>5, <1>6 DEF Touches, d
LEMMA FillTouches ==
  ASSUME NEW n \in Positive, NEW a \in Positive, NEW c \in CacheOf(n, a),
         NEW p \in Nat, NEW way \in 0 .. a - 1
  PROVE  Touches(c, Fill(c, p, way), p, way) /\ Fill(c, p, way).rrIndex = c.rrIndex
<1> DEFINE s == GetIndex(c, p)
           line == PageLine(c, p)
           lines == [c.entries EXCEPT ![s] = [c.entries[s] EXCEPT ![way] = line]]
           b == [c EXCEPT !.entries = lines]
           d == Fill(c, p, way)
<1>1. s \in 0 .. n - 1 /\ line \in Line
  BY AddressFalls DEF Line, PageLine
<1>2. d = Acess(b, s, way)
  BY DEF Fill, CacheOf, PageLine
<1>3. c.entries \in [0 .. n - 1 -> [0 .. a - 1 -> Line]]
  BY DEF CacheOf
<1> HIDE DEF s, line, d
<1>4. /\ lines \in [0 .. n - 1 -> [0 .. a - 1 -> Line]]
      /\ \A r \in 0 .. n - 1 : \A v \in 0 .. a - 1 :
           lines[r][v] = IF r = s /\ v = way THEN line ELSE c.entries[r][v]
  BY <1>1, <1>3
<1> HIDE DEF lines
<1>5. /\ b \in CacheOf(n, a) /\ b.entries = lines /\ b.policy = c.policy
      /\ b.usage = c.usage /\ b.rrIndex = c.rrIndex
  BY <1>4 DEF CacheOf
<1> HIDE DEF b
<1>6. /\ SetsOf(c) = 0 .. n - 1 /\ WaysOf(c) = 0 .. a - 1
      /\ SetsOf(b) = 0 .. n - 1 /\ WaysOf(b) = 0 .. a - 1
  BY <1>5, CacheShape
<1>7. GetIndex(b, p) = s /\ PageLine(b, p) = line
  BY <1>6 DEF GetIndex, GetTag, PageLine, s, line
<1>8. Holds(b, GetIndex(b, p), way, p)
  BY <1>1, <1>4, <1>5, <1>7 DEF Holds
<1>9. Touches(b, d, p, way)
  BY <1>2, <1>5, <1>7, <1>8, AcessTouches
<1>10. d.rrIndex = c.rrIndex
  BY <1>1, <1>2, <1>5, AcessAges
<1>11. Touches(c, d, p, way)
  <2>1. d.policy = c.policy
    BY <1>5, <1>9 DEF Touches
  <2>2. \A r \in 0 .. n - 1 : \A v \in 0 .. a - 1 :
          d.entries[r][v] = IF r = s /\ v = way THEN line ELSE c.entries[r][v]
    <3>1. \A r \in 0 .. n - 1 : \A v \in 0 .. a - 1 :
            d.entries[r][v] = IF r = s /\ v = way THEN line ELSE lines[r][v]
      BY <1>5, <1>6, <1>7, <1>9 DEF Touches
    <3> QED BY <1>4, <3>1
  <2>3. c.policy = "lru" => \A r \in 0 .. n - 1 : \A v \in 0 .. a - 1 :
          d.usage[r][v] = IF r # s THEN c.usage[r][v]
                          ELSE IF v = way THEN 0 ELSE c.usage[r][v] + 1
    BY <1>5, <1>6, <1>7, <1>9 DEF Touches
  <2> QED BY <1>6, <2>1, <2>2, <2>3 DEF Touches, s, line
<1> QED BY <1>10, <1>11 DEF d

(***************************************************************************)
(* A lookup touches one way: Read of a page that is there, or Write of one *)
(* that is not.                                                            *)
(***************************************************************************)
LEMMA HitTouches ==
  ASSUME NEW n \in Positive, NEW a \in Positive, NEW c \in CacheOf(n, a),
         NEW p \in Nat, IsHit(c, p)
  PROVE  \E way \in 0 .. a - 1 :
           Touches(c, ReadHit(c, p), p, way) /\ FoundIn(c, ReadHit(c, p), p, way)
<1> DEFINE way == Min(GetEntry(c, p))
<1>1. WaysOf(c) = 0 .. a - 1 /\ GetIndex(c, p) \in 0 .. n - 1 /\ a \in Nat
  BY CacheShape, AddressFalls DEF Positive
<1>2. GetEntry(c, p) \in SUBSET (0 .. a - 1) /\ GetEntry(c, p) \in SUBSET Nat /\ GetEntry(c, p) # {}
  <2>1. GetEntry(c, p) \in SUBSET (0 .. a - 1) /\ GetEntry(c, p) # {}
    BY <1>1 DEF GetEntry, IsHit
  <2> QED BY <2>1
<1>3. way \in GetEntry(c, p) /\ way \in 0 .. a - 1
  BY <1>2, LeastWay
<1>4. ReadHit(c, p) = Acess(c, GetIndex(c, p), way)
  BY DEF ReadHit
<1> HIDE DEF way
<1>5. Holds(c, GetIndex(c, p), way, p)
  BY <1>3 DEF GetEntry, Holds, PageLine
<1>6. Touches(c, ReadHit(c, p), p, way)
  BY <1>3, <1>4, <1>5, AcessTouches
<1>7. ReadHit(c, p).rrIndex = c.rrIndex
  BY <1>1, <1>4, AcessAges
<1> QED BY <1>3, <1>5, <1>6, <1>7 DEF FoundIn

LEMMA LeastIsLeast ==
  ASSUME NEW T \in SUBSET Nat, T # {}
  PROVE  \A y \in T : Min(T) <= y
<1>1. \E x \in T : \A y \in T : x <= y
  BY LeastNumber
<1> QED BY <1>1 DEF Min

LEMMA OldestIsOldest ==
  ASSUME NEW a \in Positive, NEW ages \in [0 .. a - 1 -> Nat]
  PROVE  /\ OldestOf(ages) \in 0 .. a - 1
         /\ \A v \in 0 .. a - 1 : ages[v] <= ages[OldestOf(ages)]
<1> DEFINE oldest == {w \in DOMAIN ages : \A v \in DOMAIN ages : ages[v] <= ages[w]}
<1>1. DOMAIN ages = 0 .. a - 1 /\ a \in Nat
  BY DEF Positive
<1>2. oldest \in SUBSET Nat /\ oldest # {}
  <2>1. oldest \in SUBSET (0 .. a - 1) /\ oldest # {}
    BY <1>1, OldestExists
  <2> QED BY <2>1
<1>3. OldestOf(ages) = Min(oldest)
  BY DEF OldestOf
<1>4. Min(oldest) \in oldest
  BY <1>2, LeastWay
<1> QED BY <1>1, <1>3, <1>4

LEMMA WrapsAround ==
  ASSUME NEW a \in Positive, NEW w \in 0 .. a - 1
  PROVE  (w + 1) % a = Wrapped(w + 1, a)
<1>1. a \in Nat /\ a > 0 /\ w \in Nat
  BY DEF Positive
<1>2. CASE w + 1 < a
  BY <1>1, <1>2 DEF Wrapped
<1>3. CASE w + 1 = a
  BY <1>1, <1>3 DEF Wrapped
<1> QED BY <1>1, <1>2, <1>3
LEMMA MissTouches ==
  ASSUME NEW n \in Positive, NEW a \in Positive, NEW c \in CacheOf(n, a),
         NEW p \in Nat, NEW d \in Write(c, p)
  PROVE  \E way \in 0 .. a - 1 :
           Touches(c, d, p, way) /\ (FirstEmpty(c, d, p, way) \/ Replaces(c, d, p, way))
<1> DEFINE s == GetIndex(c, p)
           empty == FindEmptyEntry(c, p)
<1>1. /\ WaysOf(c) = 0 .. a - 1 /\ SetsOf(c) = 0 .. n - 1 /\ Cardinality(WaysOf(c)) = a
      /\ s \in 0 .. n - 1 /\ a \in Nat
  BY CacheShape, AddressFalls DEF Positive
<1>2. empty = {w \in 0 .. a - 1 : ~c.entries[s][w].isValid}
  BY <1>1 DEF FindEmptyEntry
<1>3. CASE empty # {}
  <2> DEFINE way == Min(empty)
  <2>1. d = Fill(c, p, way)
    BY <1>3 DEF Write
  <2>2. empty \in SUBSET Nat
    BY <1>2
  <2>3. way \in empty /\ \A v \in empty : way <= v
    BY <1>3, <2>2, LeastWay, LeastIsLeast
  <2> HIDE DEF way, empty
  <2>4. way \in 0 .. a - 1 /\ ~c.entries[s][way].isValid
    BY <1>2, <2>3
  <2>5. Touches(c, d, p, way) /\ d.rrIndex = c.rrIndex
    BY <2>1, <2>4, FillTouches
  <2>6. FirstEmpty(c, d, p, way)
    BY <1>1, <1>2, <2>3, <2>4, <2>5 DEF FirstEmpty
  <2> QED BY <2>4, <2>5, <2>6
<1>4. CASE empty = {}
  <2> DEFINE t == TakesTurn(c, s)
  <2>1. PICK way \in SelectVictim(c, s) : d = Fill(t, p, way)
    BY <1>4 DEF Write
  <2>2. way \in 0 .. a - 1
    BY <1>1, VictimIsAWay
  <2>3. t \in CacheOf(n, a) /\ t.entries = c.entries
    BY <1>1, TurnIsKept
  <2>4. t.policy = c.policy /\ t.usage = c.usage
    BY DEF TakesTurn, CacheOf
  <2>5. c.policy = "roundrobin" => \A r \in 0 .. n - 1 :
          t.rrIndex[r] = IF r = s THEN Wrapped(c.rrIndex[s] + 1, a) ELSE c.rrIndex[r]
    <3> SUFFICES ASSUME c.policy = "roundrobin" PROVE
          \A r \in 0 .. n - 1 :
            t.rrIndex[r] = IF r = s THEN Wrapped(c.rrIndex[s] + 1, a) ELSE c.rrIndex[r]
      OBVIOUS
    <3>1. c.rrIndex \in [0 .. n - 1 -> 0 .. a - 1]
      BY DEF CacheOf
    <3>2. c.rrIndex[s] \in 0 .. a - 1
      BY <1>1, <3>1
    <3>3. (c.rrIndex[s] + 1) % a = Wrapped(c.rrIndex[s] + 1, a)
      BY <3>2, WrapsAround
    <3>4. t.rrIndex = [c.rrIndex EXCEPT ![s] = (c.rrIndex[s] + 1) % a]
      BY <1>1 DEF TakesTurn, CacheOf
    <3> QED BY <1>1, <3>1, <3>3, <3>4
  <2> HIDE DEF t
  <2>6. Touches(t, d, p, way) /\ d.rrIndex = t.rrIndex
    BY <2>1, <2>2, <2>3, FillTouches
  <2>7. /\ SetsOf(t) = SetsOf(c) /\ WaysOf(t) = WaysOf(c)
        /\ GetIndex(t, p) = GetIndex(c, p) /\ PageLine(t, p) = PageLine(c, p)
    BY <2>3 DEF SetsOf, WaysOf, GetIndex, GetTag, PageLine
  <2>8. Touches(c, d, p, way)
    BY <2>3, <2>4, <2>6, <2>7 DEF Touches
  <2>9. \A v \in 0 .. a - 1 : c.entries[s][v].isValid
    BY <1>2, <1>4
  <2>10. c.policy = "lru" => \A v \in 0 .. a - 1 : c.usage[s][v] <= c.usage[s][way]
    <3>1. c.usage[s] \in [0 .. a - 1 -> Nat]
      BY <1>1 DEF CacheOf
    <3>2. c.policy = "lru" => way = OldestOf(c.usage[s])
      BY <2>1 DEF SelectVictim
    <3> QED BY <3>1, <3>2, OldestIsOldest
  <2>11. c.policy = "roundrobin" => way = c.rrIndex[s]
    BY <2>1 DEF SelectVictim
  <2>12. Replaces(c, d, p, way)
    BY <1>1, <2>5, <2>6, <2>9, <2>10, <2>11 DEF Replaces
  <2> QED BY <2>2, <2>8, <2>12
<1> QED BY <1>3, <1>4
-----------------------------------------------------------------------------
(***************************************************************************)
(* LRU.  L is the sequence of the pages that were looked up.  Every valid  *)
(* way w of a set holds the page of the lookup at[w], which was the last   *)
(* one of that page; a page that was looked up later is younger; and what  *)
(* the set does not hold any more is older than all that it holds.         *)
(***************************************************************************)
LastLookups(L, c, s, at) ==
  \A w \in WaysOf(c) : c.entries[s][w].isValid =>
    /\ at[w] \in 1 .. Len(L)
    /\ GetIndex(c, L[at[w]]) = s
    /\ Holds(c, s, w, L[at[w]])
    /\ \A j \in at[w] + 1 .. Len(L) : L[j] # L[at[w]]

AgesInOrder(c, s, at) ==
  \A v, w \in WaysOf(c) :
    c.entries[s][v].isValid /\ c.entries[s][w].isValid /\ at[v] < at[w] =>
      c.usage[s][w] < c.usage[s][v]

HeldOrOlder(L, c, s, at) ==
  \A j \in 1 .. Len(L) : GetIndex(c, L[j]) = s =>
    \/ \E w \in WaysOf(c) : Holds(c, s, w, L[j])
    \/ \A w \in WaysOf(c) : c.entries[s][w].isValid /\ j < at[w]

LruFits(L, c, s) ==
  \E at \in [WaysOf(c) -> Nat] :
    LastLookups(L, c, s, at) /\ AgesInOrder(c, s, at) /\ HeldOrOlder(L, c, s, at)

(***************************************************************************)
(* A page is known by its set and its tag.                                 *)
(***************************************************************************)
LEMMA SamePage ==
  ASSUME NEW n \in Positive, NEW a \in Positive, NEW c \in CacheOf(n, a),
         NEW p \in Nat, NEW q \in Nat, GetIndex(c, p) = GetIndex(c, q),
         PageLine(c, p) = PageLine(c, q)
  PROVE  p = q
<1>1. n \in Nat /\ n > 0
  BY DEF Positive
<1>2. GetTag(c, p) = GetTag(c, q)
  BY DEF PageLine
<1>3. p % n = q % n /\ p \div n = q \div n
  BY <1>2, CacheShape DEF GetIndex, GetTag
<1>4. p = n * (p \div n) + (p % n) /\ q = n * (q \div n) + (q % n)
  BY <1>1
<1> QED BY <1>3, <1>4

LEMMA SameShape ==
  ASSUME NEW n \in Positive, NEW a \in Positive, NEW c \in CacheOf(n, a), NEW d \in CacheOf(n, a)
  PROVE  /\ WaysOf(d) = WaysOf(c) /\ SetsOf(d) = SetsOf(c)
         /\ \A p : GetIndex(d, p) = GetIndex(c, p) /\ PageLine(d, p) = PageLine(c, p)
<1>1. WaysOf(d) = WaysOf(c) /\ SetsOf(d) = SetsOf(c)
  BY CacheShape
<1> QED BY <1>1 DEF GetIndex, GetTag, PageLine

(***************************************************************************)
(* A lookup in another set.                                                *)
(***************************************************************************)
LEMMA LruOtherSet ==
  ASSUME NEW n \in Positive, NEW a \in Positive, NEW c \in CacheOf(n, a), NEW d \in CacheOf(n, a),
         NEW L \in Seq(Nat), NEW p \in Nat, NEW s \in 0 .. n - 1, GetIndex(c, p) # s,
         \A v \in 0 .. a - 1 : d.entries[s][v] = c.entries[s][v],
         \A v \in 0 .. a - 1 : d.usage[s][v] = c.usage[s][v], LruFits(L, c, s)
  PROVE  LruFits(Append(L, p), d, s)
<1> DEFINE M == Append(L, p)
<1>1. /\ M \in Seq(Nat) /\ Len(M) = Len(L) + 1 /\ M[Len(L) + 1] = p /\ Len(L) \in Nat
      /\ \A i \in 1 .. Len(L) : M[i] = L[i]
  BY AppendProperties
<1> HIDE DEF M
<1>2. /\ WaysOf(d) = WaysOf(c) /\ WaysOf(c) = 0 .. a - 1
      /\ \A x : GetIndex(d, x) = GetIndex(c, x) /\ PageLine(d, x) = PageLine(c, x)
  BY SameShape, CacheShape
<1>3. PICK at \in [WaysOf(c) -> Nat] :
        LastLookups(L, c, s, at) /\ AgesInOrder(c, s, at) /\ HeldOrOlder(L, c, s, at)
  BY DEF LruFits
<1>4. LastLookups(M, d, s, at)
  <2> SUFFICES ASSUME NEW w \in WaysOf(c), c.entries[s][w].isValid
               PROVE  /\ at[w] \in 1 .. Len(M)
                      /\ GetIndex(c, M[at[w]]) = s
                      /\ c.entries[s][w] = PageLine(c, M[at[w]])
                      /\ \A j \in at[w] + 1 .. Len(M) : M[j] # M[at[w]]
    BY <1>2 DEF LastLookups, Holds
  <2>1. /\ at[w] \in 1 .. Len(L) /\ GetIndex(c, L[at[w]]) = s
        /\ c.entries[s][w] = PageLine(c, L[at[w]])
        /\ \A j \in at[w] + 1 .. Len(L) : L[j] # L[at[w]]
    BY <1>3 DEF LastLookups, Holds
  <2>2. at[w] \in 1 .. Len(M) /\ M[at[w]] = L[at[w]]
    BY <1>1, <2>1
  <2>3. ASSUME NEW j \in at[w] + 1 .. Len(M) PROVE M[j] # L[at[w]]
    <3>1. CASE j = Len(L) + 1
      BY <1>1, <2>1, <3>1
    <3>2. CASE j # Len(L) + 1
      <4>1. j \in at[w] + 1 .. Len(L) /\ j \in 1 .. Len(L)
        BY <1>1, <2>1, <3>2
      <4> QED BY <1>1, <2>1, <4>1
    <3> QED BY <3>1, <3>2
  <2> QED BY <2>1, <2>2, <2>3
<1>5. AgesInOrder(d, s, at)
  BY <1>2, <1>3 DEF AgesInOrder
<1>6. HeldOrOlder(M, d, s, at)
  <2> SUFFICES ASSUME NEW j \in 1 .. Len(M), GetIndex(c, M[j]) = s
               PROVE  \/ \E w \in WaysOf(c) : c.entries[s][w] = PageLine(c, M[j])
                      \/ \A w \in WaysOf(c) : c.entries[s][w].isValid /\ j < at[w]
    BY <1>2 DEF HeldOrOlder, Holds
  <2>1. j \in 1 .. Len(L) /\ M[j] = L[j]
    BY <1>1
  <2> QED BY <1>3, <2>1 DEF HeldOrOlder, Holds
<1> QED BY <1>2, <1>4, <1>5, <1>6 DEF LruFits, M
(***************************************************************************)
(* A lookup in the set itself: the page that was touched becomes the       *)
(* youngest, and a page that was replaced was the oldest.                  *)
(***************************************************************************)
LEMMA LruSameSet ==
  ASSUME NEW n \in Positive, NEW a \in Positive, NEW c \in CacheOf(n, a), NEW d \in CacheOf(n, a),
         c.policy = "lru", NoPageTwice(c), NEW L \in Seq(Nat), NEW p \in Nat,
         LruFits(L, c, GetIndex(c, p)), NEW way \in 0 .. a - 1, Touches(c, d, p, way),
         \/ FoundIn(c, d, p, way)
         \/ ~IsHit(c, p) /\ (FirstEmpty(c, d, p, way) \/ Replaces(c, d, p, way))
  PROVE  LruFits(Append(L, p), d, GetIndex(c, p))
<1> DEFINE M == Append(L, p)
           s == GetIndex(c, p)
           W == 0 .. a - 1
           E == c.entries[s]
           F == d.entries[s]
           U == c.usage[s]
           V == d.usage[s]
<1>1. /\ M \in Seq(Nat) /\ Len(M) = Len(L) + 1 /\ M[Len(L) + 1] = p /\ Len(L) \in Nat
      /\ \A i \in 1 .. Len(L) : M[i] = L[i] /\ L[i] \in Nat
  BY AppendProperties
<1>2. /\ WaysOf(d) = W /\ WaysOf(c) = W /\ SetsOf(c) = 0 .. n - 1
      /\ \A x : GetIndex(d, x) = GetIndex(c, x) /\ PageLine(d, x) = PageLine(c, x)
      /\ s \in 0 .. n - 1
  BY SameShape, CacheShape, AddressFalls
<1>3. PICK at \in [W -> Nat] :
        LastLookups(L, c, s, at) /\ AgesInOrder(c, s, at) /\ HeldOrOlder(L, c, s, at)
  BY <1>2 DEF LruFits
<1>4. \A v \in W : F[v] = IF v = way THEN PageLine(c, p) ELSE E[v]
  BY <1>2 DEF Touches
<1>5. \A v \in W : V[v] = IF v = way THEN 0 ELSE U[v] + 1
  BY <1>2 DEF Touches
<1>6. \A v \in W : U[v] \in Nat
  <2>1. U \in [W -> Nat]
    BY <1>2 DEF CacheOf
  <2> QED BY <2>1
<1>7. PageLine(c, p).isValid
  BY DEF PageLine
<1>8. \A v \in W : v # way => E[v] # PageLine(c, p)
  <2> TAKE v \in W
  <2> HAVE v # way
  <2>1. CASE FoundIn(c, d, p, way)
    <3>1. E[way] = PageLine(c, p)
      BY <2>1 DEF FoundIn, Holds
    <3> QED BY <1>2, <1>7, <3>1 DEF NoPageTwice
  <2>2. CASE ~IsHit(c, p)
    BY <1>2, <2>2 DEF IsHit, GetEntry, PageLine
  <2> QED BY <2>1, <2>2
<1>9. \A w \in W : E[w].isValid =>
        /\ at[w] \in 1 .. Len(L) /\ GetIndex(c, L[at[w]]) = s /\ E[w] = PageLine(c, L[at[w]])
        /\ \A j \in at[w] + 1 .. Len(L) : L[j] # L[at[w]]
  BY <1>2, <1>3 DEF LastLookups, Holds
<1>10. \A v, w \in W : E[v].isValid /\ E[w].isValid /\ at[v] < at[w] => U[w] < U[v]
  BY <1>2, <1>3 DEF AgesInOrder
<1>11. \A j \in 1 .. Len(L) : GetIndex(c, L[j]) = s =>
         \/ \E w \in W : E[w] = PageLine(c, L[j])
         \/ \A w \in W : E[w].isValid /\ j < at[w]
  BY <1>2, <1>3 DEF HeldOrOlder, Holds
<1>12. \A v, w \in W : E[v].isValid /\ E[v] = E[w] => v = w
  BY <1>2 DEF NoPageTwice
<1>13. \/ E[way] = PageLine(c, p)
       \/ ~E[way].isValid
       \/ (\A v \in W : E[v].isValid) /\ (\A v \in W : U[v] <= U[way])
  BY <1>2 DEF FoundIn, FirstEmpty, Replaces, Holds
<1> DEFINE new == [w \in W |-> IF w = way THEN Len(L) + 1 ELSE at[w]]
<1>14. new \in [W -> Nat] /\ \A w \in W : new[w] = IF w = way THEN Len(L) + 1 ELSE at[w]
  BY <1>1, <1>3
<1>15. \A w \in W : at[w] \in Nat
  BY <1>3
<1>17. \A x, y \in Nat :
         GetIndex(c, x) = s /\ GetIndex(c, y) = s /\ PageLine(c, x) = PageLine(c, y) => x = y
  BY SamePage
<1>18. s = GetIndex(c, p)
  OBVIOUS
<1> HIDE DEF M, s, W, E, F, U, V, new
<1>19. LastLookups(M, d, s, new)
  <2> SUFFICES ASSUME NEW w \in W, F[w].isValid
               PROVE  /\ new[w] \in 1 .. Len(M)
                      /\ GetIndex(c, M[new[w]]) = s
                      /\ F[w] = PageLine(c, M[new[w]])
                      /\ \A j \in new[w] + 1 .. Len(M) : M[j] # M[new[w]]
    BY <1>2 DEF LastLookups, Holds, F
  <2>1. CASE w = way
    <3>1. new[w] = Len(L) + 1
      BY <1>14, <2>1
    <3>2. \A j \in new[w] + 1 .. Len(M) : FALSE
      BY <1>1, <3>1
    <3>3. F[w] = PageLine(c, p)
      BY <1>4, <2>1
    <3> QED BY <1>1, <1>18, <3>1, <3>2, <3>3
  <2>2. CASE w # way
    <3>1. F[w] = E[w] /\ new[w] = at[w]
      BY <1>4, <1>14, <2>2
    <3>2. /\ at[w] \in 1 .. Len(L) /\ GetIndex(c, L[at[w]]) = s /\ E[w] = PageLine(c, L[at[w]])
          /\ \A j \in at[w] + 1 .. Len(L) : L[j] # L[at[w]]
      BY <1>9, <3>1
    <3>3. at[w] \in 1 .. Len(M) /\ M[at[w]] = L[at[w]]
      BY <1>1, <3>2
    <3>4. ASSUME NEW j \in at[w] + 1 .. Len(M) PROVE M[j] # L[at[w]]
      <4>1. CASE j = Len(L) + 1
        <5>1. L[at[w]] # p
          BY <1>8, <2>2, <3>2
        <5> QED BY <1>1, <4>1, <5>1
      <4>2. CASE j # Len(L) + 1
        <5>1. j \in at[w] + 1 .. Len(L) /\ j \in 1 .. Len(L)
          BY <1>1, <3>2, <4>2
        <5> QED BY <1>1, <3>2, <5>1
      <4> QED BY <4>1, <4>2
    <3> QED BY <3>1, <3>2, <3>3, <3>4
  <2> QED BY <2>1, <2>2
<1>20. AgesInOrder(d, s, new)
  <2> SUFFICES ASSUME NEW v \in W, NEW w \in W, F[v].isValid, F[w].isValid, new[v] < new[w]
               PROVE  V[w] < V[v]
    BY <1>2 DEF AgesInOrder, F, V
  <2>1. v # way
    <3> SUFFICES ASSUME v = way PROVE FALSE
      OBVIOUS
    <3>1. w # way
      BY <1>1, <1>14
    <3>2. E[w].isValid /\ new[w] = at[w]
      BY <1>4, <1>14, <3>1
    <3>3. at[w] <= Len(L)
      BY <1>9, <3>2
    <3> QED BY <1>1, <1>14, <1>15, <3>2, <3>3
  <2>2. V[v] = U[v] + 1 /\ U[v] \in Nat /\ E[v].isValid /\ new[v] = at[v]
    BY <1>4, <1>5, <1>6, <1>14, <2>1
  <2>3. CASE w = way
    BY <1>5, <2>2, <2>3
  <2>4. CASE w # way
    <3>1. V[w] = U[w] + 1 /\ U[w] \in Nat /\ E[w].isValid /\ new[w] = at[w]
      BY <1>4, <1>5, <1>6, <1>14, <2>4
    <3>2. U[w] < U[v]
      BY <1>10, <2>2, <3>1
    <3> QED BY <2>2, <3>1, <3>2
  <2> QED BY <2>3, <2>4
<1>21. HeldOrOlder(M, d, s, new)
  <2> SUFFICES ASSUME NEW j \in 1 .. Len(M), GetIndex(c, M[j]) = s,
                      \A w \in W : F[w] # PageLine(c, M[j])
               PROVE  \A w \in W : F[w].isValid /\ j < new[w]
    BY <1>2 DEF HeldOrOlder, Holds, F
  <2>1. j \in 1 .. Len(L) /\ M[j] = L[j] /\ L[j] \in Nat
    <3>1. j # Len(L) + 1
      BY <1>1, <1>4, way \in W DEF W
    <3> QED BY <1>1, <3>1
  <2>2. way \in W /\ F[way] = PageLine(c, p) /\ new[way] = Len(L) + 1 /\ j < Len(L) + 1
    BY <1>1, <1>4, <1>14, <2>1 DEF W
  <2>3. CASE \A w \in W : E[w].isValid /\ j < at[w]
    <3> TAKE w \in W
    <3>1. CASE w = way
      BY <1>7, <2>2, <3>1
    <3>2. CASE w # way
      BY <1>4, <1>14, <2>3, <3>2
    <3> QED BY <3>1, <3>2
  <2>4. CASE \E w \in W : E[w] = PageLine(c, L[j])
    <3>1. PICK u \in W : E[u] = PageLine(c, L[j])
      BY <2>4
    <3>2. u = way
      BY <1>4, <2>1, <3>1
    <3>3. E[way] # PageLine(c, p)
      BY <2>1, <2>2, <3>1, <3>2
    <3>4. E[way].isValid
      BY <3>1, <3>2 DEF PageLine
    <3>5. (\A v \in W : E[v].isValid) /\ (\A v \in W : U[v] <= U[way])
      BY <1>13, <3>3, <3>4
    <3>6. j <= at[way]
      <4> SUFFICES ASSUME ~(j <= at[way]) PROVE FALSE
        OBVIOUS
      <4>1. /\ at[way] \in 1 .. Len(L) /\ GetIndex(c, L[at[way]]) = s
            /\ E[way] = PageLine(c, L[at[way]])
        BY <1>9, <2>2, <3>4
      <4>2. L[at[way]] \in Nat
        BY <1>1, <4>1
      <4>3. L[j] = L[at[way]]
        BY <1>17, <2>1, <3>1, <3>2, <4>1, <4>2
      <4>4. j \in at[way] + 1 .. Len(L)
        BY <1>1, <2>1, <4>1
      <4> QED BY <1>9, <2>2, <3>4, <4>3, <4>4
    <3> TAKE w \in W
    <3>7. CASE w = way
      BY <1>7, <2>2, <3>7
    <3>8. CASE w # way
      <4>1. F[w] = E[w] /\ new[w] = at[w] /\ E[w].isValid
        BY <1>4, <1>14, <3>5, <3>8
      <4>2. ~(at[w] < at[way])
        <5> SUFFICES ASSUME at[w] < at[way] PROVE FALSE
          OBVIOUS
        <5>1. U[way] < U[w]
          BY <1>10, <2>2, <3>4, <4>1
        <5> QED BY <1>6, <2>2, <3>5, <5>1
      <4>3. at[w] # at[way]
        <5> SUFFICES ASSUME at[w] = at[way] PROVE FALSE
          OBVIOUS
        <5>1. E[w] = E[way]
          BY <1>9, <2>2, <3>4, <4>1
        <5> QED BY <1>12, <2>2, <3>8, <4>1, <5>1
      <4> QED BY <1>15, <2>1, <2>2, <3>6, <4>1, <4>2, <4>3
    <3> QED BY <3>7, <3>8
  <2> QED BY <1>11, <2>1, <2>3, <2>4
<1> QED BY <1>2, <1>14, <1>19, <1>20, <1>21 DEF LruFits, M, s
(***************************************************************************)
(* What a set holds are then the pages after whose last lookup fewer       *)
(* others than there are ways were looked up.                              *)
(***************************************************************************)
LEMMA ImageIsFinite ==
  ASSUME NEW S, IsFiniteSet(S), NEW f, NEW T, \A t \in T : \E x \in S : f[x] = t
  PROVE  IsFiniteSet(T) /\ Cardinality(T) <= Cardinality(S) /\ Cardinality(T) \in Nat
<1> DEFINE R == {f[x] : x \in S}
           g == [x \in S |-> f[x]]
<1>1. g \in Surjection(S, R)
  <2>1. g \in [S -> R] /\ \A t \in R : \E x \in S : g[x] = t
    OBVIOUS
  <2> QED BY <2>1 DEF Surjection
<1>2. IsFiniteSet(R) /\ Cardinality(R) <= Cardinality(S)
  BY <1>1, FS_Surjection
<1>3. T \in SUBSET R
  OBVIOUS
<1> HIDE DEF R
<1>4. IsFiniteSet(T) /\ Cardinality(T) <= Cardinality(R)
  BY <1>2, <1>3, FS_Subset
<1>5. Cardinality(T) \in Nat /\ Cardinality(R) \in Nat /\ Cardinality(S) \in Nat
  BY <1>2, <1>4, FS_CardinalityType
<1> QED BY <1>2, <1>4, <1>5

LEMMA LruHoldsTheNewest ==
  ASSUME NEW n \in Positive, NEW a \in Positive, cache \in CacheOf(n, a), NoPageTwice(cache),
         LookedUp \in Seq(Pages), NEW s \in 0 .. n - 1, LruFits(LookedUp, cache, s)
  PROVE  Held(s) = Newest(a, s)
<1> DEFINE L == LookedUp
           W == 0 .. a - 1
           E == cache.entries[s]
           I(x) == GetIndex(cache, x)
           P(x) == PageLine(cache, x)
           Later(i) == {k \in i + 1 .. Len(L) : I(L[k]) = s}
<1>0. a \in Nat /\ a > 0 /\ Pages \subseteq Nat
  BY ITLBAssumption DEF Positive
<1>1. /\ WaysOf(cache) = W /\ IsFiniteSet(W) /\ Cardinality(W) = a
      /\ Len(L) \in Nat /\ \A i \in 1 .. Len(L) : L[i] \in Pages /\ L[i] \in Nat
      /\ s \in SetsOf(cache)
  <2>1. WaysOf(cache) = W /\ Cardinality(W) = a /\ s \in SetsOf(cache)
    BY CacheShape
  <2>2. IsFiniteSet(W)
    BY <1>0, FS_Interval
  <2>3. L \in Seq(Pages)
    OBVIOUS
  <2> HIDE DEF L, W
  <2>4. Len(L) \in Nat /\ \A i \in 1 .. Len(L) : L[i] \in Pages
    BY <2>3
  <2> QED BY <1>0, <2>1, <2>2, <2>4
<1>2. PICK at \in [W -> Nat] :
        LastLookups(L, cache, s, at) /\ AgesInOrder(cache, s, at) /\ HeldOrOlder(L, cache, s, at)
  BY <1>1 DEF LruFits
<1>3. \A w \in W : E[w].isValid =>
        /\ at[w] \in 1 .. Len(L) /\ I(L[at[w]]) = s /\ E[w] = P(L[at[w]])
        /\ \A j \in at[w] + 1 .. Len(L) : L[j] # L[at[w]]
  BY <1>1, <1>2 DEF LastLookups, Holds
<1>4. \A j \in 1 .. Len(L) : I(L[j]) = s =>
        (\E w \in W : E[w] = P(L[j])) \/ (\A w \in W : E[w].isValid /\ j < at[w])
  BY <1>1, <1>2 DEF HeldOrOlder, Holds
<1>5. \A v, w \in W : E[v].isValid /\ E[v] = E[w] => v = w
  BY <1>1 DEF NoPageTwice
<1>6. \A x, y \in Nat : I(x) = s /\ I(y) = s /\ P(x) = P(y) => x = y
  BY SamePage
<1>7. \A p : P(p).isValid
  BY DEF PageLine
<1>8. \A p : p \in Held(s) <=> p \in Pages /\ I(p) = s /\ \E w \in W : E[w] = P(p)
  <2>1. \A p : I(p) = s => (IsHit(cache, p) <=> \E w \in W : E[w] = P(p))
    BY <1>1 DEF IsHit, GetEntry, PageLine
  <2> QED BY <2>1 DEF Held
<1>9. \A i : Since(s, i) = {L[k] : k \in Later(i)}
  BY DEF Since
<1>10. \A p : p \in Newest(a, s) <=>
         \E i \in 1 .. Len(L) : p = L[i] /\ I(L[i]) = s /\ Cardinality(Since(s, i)) < a
  BY DEF Newest
<1> HIDE DEF L, W, E, I, P
<1>11. ASSUME NEW p \in Held(s) PROVE p \in Newest(a, s)
  <2>1. PICK w \in W : E[w] = P(p) /\ p \in Pages /\ I(p) = s
    BY <1>8
  <2>2. /\ at[w] \in 1 .. Len(L) /\ I(L[at[w]]) = s /\ E[w] = P(L[at[w]])
        /\ \A j \in at[w] + 1 .. Len(L) : L[j] # L[at[w]]
    BY <1>3, <1>7, <2>1
  <2>3. p = L[at[w]]
    BY <1>0, <1>1, <1>6, <2>1, <2>2
  <2> DEFINE S == W \ {w}
             f == [v \in S |-> L[at[v]]]
  <2>4. IsFiniteSet(S) /\ Cardinality(S) = a - 1
    BY <1>1, FS_RemoveElement
  <2>5. ASSUME NEW t \in Since(s, at[w]) PROVE \E v \in S : f[v] = t
    <3>1. PICK k \in Later(at[w]) : t = L[k]
      BY <1>9
    <3>2. k \in at[w] + 1 .. Len(L) /\ I(L[k]) = s
      BY <3>1
    <3>3. k \in 1 .. Len(L) /\ at[w] < k /\ L[k] \in Nat
      BY <1>1, <2>2, <3>2
    <3>4. ~(k < at[w])
      BY <2>2, <3>3
    <3>5. PICK v \in W : E[v] = P(L[k])
      BY <1>4, <3>2, <3>3, <3>4
    <3>6. v # w
      <4> SUFFICES ASSUME v = w PROVE FALSE
        OBVIOUS
      <4>1. L[k] = L[at[w]]
        BY <1>1, <1>6, <2>2, <3>2, <3>3, <3>5
      <4> QED BY <2>2, <3>2, <4>1
    <3>7. at[v] \in 1 .. Len(L) /\ I(L[at[v]]) = s /\ E[v] = P(L[at[v]])
      BY <1>3, <1>7, <3>5
    <3>8. L[at[v]] = L[k]
      BY <1>1, <1>6, <3>2, <3>3, <3>5, <3>7
    <3> QED BY <3>1, <3>6, <3>8
  <2> HIDE DEF S, f
  <2>6. Cardinality(Since(s, at[w])) <= Cardinality(S) /\ Cardinality(Since(s, at[w])) \in Nat
    BY <2>4, <2>5, ImageIsFinite
  <2>7. Cardinality(Since(s, at[w])) < a
    BY <1>0, <2>4, <2>6
  <2> QED BY <1>10, <2>2, <2>3, <2>7
<1>12. ASSUME NEW p \in Newest(a, s) PROVE p \in Held(s)
  <2>1. PICK i \in 1 .. Len(L) : p = L[i] /\ I(L[i]) = s /\ Cardinality(Since(s, i)) < a
    BY <1>10
  <2>2. CASE \E w \in W : E[w] = P(L[i])
    BY <1>1, <1>8, <2>1, <2>2
  <2>3. CASE \A w \in W : E[w].isValid /\ i < at[w]
    <3> DEFINE f == [w \in W |-> L[at[w]]]
               T == Since(s, i)
    <3>1. f \in [W -> T]
      <4> SUFFICES ASSUME NEW w \in W PROVE L[at[w]] \in T
        OBVIOUS
      <4>1. at[w] \in 1 .. Len(L) /\ I(L[at[w]]) = s /\ i < at[w]
        BY <1>3, <2>3
      <4>2. at[w] \in i + 1 .. Len(L)
        BY <1>1, <4>1
      <4> QED BY <1>9, <4>1, <4>2
    <3>2. ASSUME NEW v \in W, NEW w \in W, f[v] = f[w] PROVE v = w
      <4>1. E[v] = P(L[at[v]]) /\ E[w] = P(L[at[w]]) /\ E[v].isValid
        BY <1>3, <2>3
      <4>2. L[at[v]] = L[at[w]]
        BY <3>2
      <4> QED BY <1>5, <4>1, <4>2
    <3>3. f \in Injection(W, T)
      BY <3>1, <3>2 DEF Injection, IsInjective
    <3>4. IsFiniteSet(T)
      <4>1. IsFiniteSet(1 .. Len(L))
        BY <1>1, FS_Interval
      <4>2. \A t \in T : \E k \in 1 .. Len(L) : L[k] = t
        BY <1>1, <1>9, <2>1
      <4> HIDE DEF T
      <4> QED BY <4>1, <4>2, ImageIsFinite
    <3> HIDE DEF f
    <3>5. Cardinality(W) <= Cardinality(T) /\ Cardinality(T) \in Nat
      BY <3>3, <3>4, FS_Injection, FS_CardinalityType
    <3> QED BY <1>0, <1>1, <2>1, <3>5
  <2> QED BY <1>4, <2>1, <2>2, <2>3
<1> QED BY <1>11, <1>12
(***************************************************************************)
(* A cycle of the component looks up nothing, or one page.                 *)
(***************************************************************************)
LooksUp(c, d, p, way) ==
  /\ Touches(c, d, p, way)
  /\ \/ FoundIn(c, d, p, way)
     \/ ~IsHit(c, p) /\ (FirstEmpty(c, d, p, way) \/ Replaces(c, d, p, way))

LEMMA ClockLooksUp ==
  ASSUME NEW n \in Positive, NEW a \in Positive, cache \in CacheOf(n, a), QueueFits,
         NEW first \in Firsts, Clock(first)
  PROVE  /\ QueueFits'
         /\ \/ cache' = cache /\ LookedUp' = LookedUp
            \/ /\ LookedUp \in Seq(Pages)
               /\ \E p \in Pages, way \in 0 .. a - 1 :
                    LookedUp' = Append(LookedUp, p) /\ LooksUp(cache, cache', p, way)
<1>1. PICK new : new = NewRequests(first)
  OBVIOUS
<1>2. new \in Seq(Asked) /\ pendingRequests \in Seq(Asked)
  BY <1>1, NewRequestsAsked DEF QueueFits
<1>3. /\ received' = received \o new
      /\ PaysPenalty(new) \/ EndsPenalty(new) \/ Stalls(new) \/ Hits(new) \/ Misses(new)
  BY <1>1 DEF Clock, Receives
<1>4. CASE PaysPenalty(new) \/ EndsPenalty(new)
  BY <1>2, <1>3, <1>4, NothingLookedUp DEF PaysPenalty, EndsPenalty
<1>5. CASE Stalls(new)
  <2>1. pendingRequests' = pendingRequests \o new /\ cache' = cache
    BY <1>2, <1>5, ConcatEqualIffEmpty DEF Stalls
  <2> QED BY <1>2, <1>3, <2>1, NothingLookedUp
<1>6. CASE Hits(new) \/ Misses(new)
  <2> DEFINE p == curRequest'.addr
  <2>1. QueueFits' /\ p \in Pages /\ LookedUp \in Seq(Pages) /\ LookedUp' = Append(LookedUp, p)
    BY <1>2, <1>3, <1>6, OneIsLookedUp DEF Hits, Misses
  <2>2. p \in Nat
    BY <2>1, ITLBAssumption
  <2>3. \E way \in 0 .. a - 1 : LooksUp(cache, cache', p, way)
    <3>1. CASE Hits(new)
      <4>1. IsHit(cache, p) /\ cache' = ReadHit(cache, p)
        BY <3>1 DEF Hits
      <4> HIDE DEF p
      <4> QED BY <2>2, <4>1, HitTouches DEF LooksUp
    <3>2. CASE Misses(new)
      <4>1. ~IsHit(cache, p) /\ cache' \in Write(cache, p)
        BY <3>2 DEF Misses
      <4> HIDE DEF p
      <4> QED BY <2>2, <4>1, MissTouches DEF LooksUp
    <3> QED BY <1>6, <3>1, <3>2
  <2> HIDE DEF p
  <2> QED BY <2>1, <2>3
<1> QED BY <1>3, <1>4, <1>5, <1>6

LEMMA LookupsStart ==
  ASSUME Init
  PROVE  QueueFits /\ LookedUp = <<>> /\ Len(LookedUp) = 0
<1>1. received = <<>> /\ pendingRequests = <<>>
  BY DEF Init
<1>2. QueueFits
  BY <1>1 DEF QueueFits
<1>3. 1 .. 0 = {} /\ Len(received) - Len(pendingRequests) = 0
  BY <1>1
<1>4. LookedUp \in Seq(Pages) /\ Len(LookedUp) = 0
  BY <1>3 DEF LookedUp
<1> QED BY <1>2, <1>4, EmptySeq

LEMMA CacheIsEmpty ==
  ASSUME Init, CacheInductive
  PROVE  \A s \in SetsOf(cache) :
           /\ cache.rrIndex[s] = 0
           /\ \A w \in WaysOf(cache) : cache.entries[s][w].isValid = FALSE
<1>1. PICK g \in Geometries, policy \in Policies :
        cache = fromNumSets(g[1] \div g[2], g[2], policy)
  BY DEF Init
<1> DEFINE sets == 0 .. RoundedSets(g[1] \div g[2]) - 1
           ways == 0 .. g[2] - 1
<1>2. /\ cache.entries = [s \in sets |-> [w \in ways |-> [isValid |-> FALSE, tag |-> 0]]]
      /\ cache.rrIndex = [s \in sets |-> 0]
  BY <1>1 DEF fromNumSets
<1>3. PICK n \in Positive, a \in Positive : cache \in CacheOf(n, a)
  BY DEF CacheInductive
<1>4. 0 \in SetsOf(cache)
  BY <1>3, CacheShape DEF Positive
<1> HIDE DEF sets, ways
<1>5. SetsOf(cache) = sets /\ WaysOf(cache) = ways
  BY <1>2, <1>4 DEF SetsOf, WaysOf
<1> QED BY <1>2, <1>5

(***************************************************************************)
(* The lookups of a set whose policy is LRU stay in order.                 *)
(***************************************************************************)
LruInductive ==
  /\ CacheInductive /\ QueueFits /\ LookedUp \in Seq(Pages)
  /\ cache.policy = "lru" => \A s \in SetsOf(cache) : LruFits(LookedUp, cache, s)

LEMMA LruStarts ==
  ASSUME Init, CacheInductive
  PROVE  LruInductive
<1>1. QueueFits /\ LookedUp = <<>> /\ Len(LookedUp) = 0
  BY LookupsStart
<1>3. \A s \in SetsOf(cache) : \A w \in WaysOf(cache) : cache.entries[s][w].isValid = FALSE
  BY CacheIsEmpty
<1>4. ASSUME NEW s \in SetsOf(cache) PROVE LruFits(LookedUp, cache, s)
  <2> DEFINE at == [w \in WaysOf(cache) |-> 0]
  <2>1. at \in [WaysOf(cache) -> Nat]
    OBVIOUS
  <2>2. LastLookups(LookedUp, cache, s, at) /\ AgesInOrder(cache, s, at)
    BY <1>3 DEF LastLookups, AgesInOrder
  <2>3. HeldOrOlder(LookedUp, cache, s, at)
    BY <1>1 DEF HeldOrOlder
  <2> HIDE DEF at
  <2> QED BY <2>1, <2>2, <2>3 DEF LruFits
<1>5. LookedUp \in Seq(Pages)
  BY <1>1, EmptySeq
<1> QED BY <1>1, <1>4, <1>5 DEF LruInductive

LEMMA WiderSeq ==
  ASSUME NEW S, NEW T, S \subseteq T, NEW q \in Seq(S)
  PROVE  q \in Seq(T)
  OBVIOUS

LEMMA ClockKeepsLru ==
  ASSUME LruInductive, NEW first \in Firsts, Clock(first)
  PROVE  LruInductive'
<1>1. PICK n \in Positive, a \in Positive : cache \in CacheOf(n, a)
  BY DEF LruInductive, CacheInductive
<1>2. QueueTypeOK /\ NoPageTwice(cache) /\ QueueFits /\ LookedUp \in Seq(Pages)
  BY DEF LruInductive, CacheInductive
<1>3. CacheInductive' /\ cache' \in CacheOf(n, a)
  BY <1>1, <1>2, ClockKeepsTheShape, ClockKeepsTheCache DEF LruInductive
<1>4. CASE cache' = cache /\ LookedUp' = LookedUp
  BY <1>1, <1>2, <1>3, <1>4, ClockLooksUp DEF LruInductive
<1>5. CASE \E p \in Pages, way \in 0 .. a - 1 :
             LookedUp' = Append(LookedUp, p) /\ LooksUp(cache, cache', p, way)
  <2>1. PICK p \in Pages, way \in 0 .. a - 1 :
          LookedUp' = Append(LookedUp, p) /\ LooksUp(cache, cache', p, way)
    BY <1>5
  <2>2. p \in Nat /\ LookedUp \in Seq(Nat)
    <3>1. Pages \subseteq Nat
      BY ITLBAssumption
    <3>2. LookedUp \in Seq(Nat)
      BY <1>2, <3>1, WiderSeq
    <3> QED BY <2>1, <3>1, <3>2
  <2>3. LookedUp' \in Seq(Pages) /\ QueueFits'
    BY <1>1, <1>2, <2>1, AppendProperties, ClockLooksUp
  <2>4. cache'.policy = cache.policy
    BY <2>1 DEF LooksUp, Touches
  <2>5. SetsOf(cache') = 0 .. n - 1 /\ SetsOf(cache) = 0 .. n - 1 /\ WaysOf(cache) = 0 .. a - 1
    BY <1>1, <1>3, CacheShape
  <2>6. ASSUME cache.policy = "lru", NEW s \in 0 .. n - 1
        PROVE  LruFits(Append(LookedUp, p), cache', s)
    <3>1. LruFits(LookedUp, cache, s)
      BY <2>5, <2>6 DEF LruInductive
    <3>2. CASE s = GetIndex(cache, p)
      BY <1>1, <1>2, <1>3, <2>1, <2>2, <2>6, <3>1, <3>2, LruSameSet DEF LooksUp
    <3>3. CASE s # GetIndex(cache, p)
      <4>1. \A v \in 0 .. a - 1 : cache'.entries[s][v] = cache.entries[s][v]
        BY <2>1, <2>5, <3>3 DEF LooksUp, Touches
      <4>2. \A v \in 0 .. a - 1 : cache'.usage[s][v] = cache.usage[s][v]
        BY <2>1, <2>5, <2>6, <3>3 DEF LooksUp, Touches
      <4> QED BY <1>1, <1>3, <2>2, <3>1, <3>3, <4>1, <4>2, LruOtherSet
    <3> QED BY <3>2, <3>3
  <2> QED BY <1>3, <2>1, <2>3, <2>4, <2>5, <2>6 DEF LruInductive
<1> QED BY <1>1, <1>2, <1>4, <1>5, ClockLooksUp

(***************************************************************************)
(* A set of an LRU cache holds exactly the pages looked up last, as many   *)
(* different ones as it has ways (lru.cpp:48-66): for every geometry and   *)
(* every sequence of requests the counters of ages make the true order.    *)
(***************************************************************************)
THEOREM LruIsLru == Spec => []LruKeepsTheRecent
<1>1. Init => LruInductive
  BY CacheStarts, LruStarts
<1>2. LruInductive /\ [Next]_itlbVars => LruInductive'
  <2> SUFFICES ASSUME LruInductive, [Next]_itlbVars PROVE LruInductive'
    OBVIOUS
  <2>1. CASE Next
    <3>1. PICK first \in Firsts : Clock(first)
      BY <2>1 DEF Next, Firsts
    <3> QED BY <3>1, ClockKeepsLru
  <2>2. CASE UNCHANGED itlbVars
    <3>1. cache' = cache /\ LookedUp' = LookedUp /\ QueueFits' /\ QueueTypeOK'
      BY <2>2 DEF itlbVars, LookedUp, LruInductive, CacheInductive, QueueFits, QueueTypeOK
    <3> QED BY <3>1 DEF LruInductive, CacheInductive
  <2> QED BY <2>1, <2>2
<1>3. LruInductive => LruKeepsTheRecent
  <2> SUFFICES ASSUME LruInductive, cache.policy = "lru", NEW s \in SetsOf(cache)
               PROVE  Held(s) = Newest(Cardinality(WaysOf(cache)), s)
    BY DEF LruKeepsTheRecent
  <2>1. PICK n \in Positive, a \in Positive : cache \in CacheOf(n, a)
    BY DEF LruInductive, CacheInductive
  <2>2. s \in 0 .. n - 1 /\ Cardinality(WaysOf(cache)) = a
    BY <2>1, CacheShape
  <2> QED BY <2>1, <2>2, LruHoldsTheNewest DEF LruInductive, CacheInductive
<1> QED BY <1>1, <1>2, <1>3, PTL DEF Spec
-----------------------------------------------------------------------------
(***************************************************************************)
(* Round robin.  What a queue of a places for the pages p of set s, those  *)
(* with p % m = s, holds after the lookups L: Enters is one lookup.        *)
(***************************************************************************)
Enters(q, p, m, a, s) ==
  IF p % m # s \/ p \in ToSet(q) THEN q
  ELSE Append(IF Len(q) < a THEN q ELSE Tail(q), p)

FifoStep(L, m, a, s, f, k) == IF k = 0 THEN <<>> ELSE Enters(f[k - 1], L[k], m, a, s)

FifoUpTo(L, m, a, s) == CHOOSE f : f = [k \in 0 .. Len(L) |-> FifoStep(L, m, a, s, f, k)]

FifoOf(L, m, a, s) == FifoUpTo(L, m, a, s)[Len(L)]

LEMMA FifoExists ==
  ASSUME NEW L, NEW m, NEW a, NEW s, Len(L) \in Nat
  PROVE  FifoUpTo(L, m, a, s) =
           [k \in 0 .. Len(L) |-> FifoStep(L, m, a, s, FifoUpTo(L, m, a, s), k)]
<1> DEFINE Q(f, k) == FifoStep(L, m, a, s, f, k)
           S == {i \in Nat : \E f : f = [k \in 0 .. i |-> Q(f, k)]}
<1>1. 0 \in S
  <2> DEFINE f == [k \in 0 .. 0 |-> <<>>]
  <2>1. f = [k \in 0 .. 0 |-> Q(f, k)]
    <3>1. \A k \in 0 .. 0 : k = 0
      OBVIOUS
    <3> QED BY <3>1 DEF FifoStep
  <2> HIDE DEF f
  <2> QED BY <2>1
<1>2. ASSUME NEW i \in S PROVE i + 1 \in S
  <2>1. i \in Nat
    OBVIOUS
  <2>2. PICK f : f = [k \in 0 .. i |-> Q(f, k)]
    OBVIOUS
  <2> DEFINE g == [k \in 0 .. i + 1 |-> IF k = i + 1 THEN Q(f, k) ELSE f[k]]
  <2>3. \A k \in 0 .. i : f[k] = Q(f, k)
    BY <2>2
  <2>4. \A k \in 0 .. i : g[k] = f[k]
    BY <2>1
  <2>5. \A k \in 0 .. i + 1 : g[k] = Q(f, k)
    <3> TAKE k \in 0 .. i + 1
    <3>1. CASE k = i + 1
      BY <3>1
    <3>2. CASE k # i + 1
      <4>1. k \in 0 .. i
        BY <2>1, <3>2
      <4> QED BY <2>3, <2>4, <4>1
    <3> QED BY <3>1, <3>2
  <2>6. \A k \in 0 .. i + 1 : Q(g, k) = Q(f, k)
    <3> TAKE k \in 0 .. i + 1
    <3>1. CASE k = 0
      BY <3>1 DEF FifoStep
    <3>2. CASE k # 0
      <4>1. k - 1 \in 0 .. i
        BY <2>1, <3>2
      <4>2. g[k - 1] = f[k - 1]
        BY <2>4, <4>1
      <4> HIDE DEF g
      <4> QED BY <4>2 DEF FifoStep
    <3> QED BY <3>1, <3>2
  <2>7. g = [k \in 0 .. i + 1 |-> g[k]]
    OBVIOUS
  <2> HIDE DEF g
  <2>8. g = [k \in 0 .. i + 1 |-> Q(g, k)]
    BY <2>5, <2>6, <2>7
  <2>9. i + 1 \in Nat
    BY <2>1
  <2> QED BY <2>8, <2>9
<1>3. S \in SUBSET Nat
  OBVIOUS
<1> HIDE DEF S
<1>4. Len(L) \in S
  BY <1>1, <1>2, <1>3, Induction
<1>5. \E f : f = [k \in 0 .. Len(L) |-> Q(f, k)]
  BY <1>4 DEF S
<1> QED BY <1>5 DEF FifoUpTo

LEMMA FifoEmpty ==
  ASSUME NEW m, NEW a, NEW s, NEW L, L = <<>>
  PROVE  FifoOf(L, m, a, s) = <<>>
<1>1. Len(L) = 0
  OBVIOUS
<1>2. FifoUpTo(L, m, a, s) = [k \in 0 .. 0 |-> FifoStep(L, m, a, s, FifoUpTo(L, m, a, s), k)]
  BY <1>1, FifoExists
<1>3. FifoUpTo(L, m, a, s)[0] = FifoStep(L, m, a, s, FifoUpTo(L, m, a, s), 0)
  BY <1>2
<1> QED BY <1>1, <1>3 DEF FifoOf, FifoStep

LEMMA FifoAppend ==
  ASSUME NEW S, NEW L \in Seq(S), NEW p \in S, NEW m, NEW a, NEW s
  PROVE  FifoOf(Append(L, p), m, a, s) = Enters(FifoOf(L, m, a, s), p, m, a, s)
<1> DEFINE M == Append(L, p)
           f == FifoUpTo(L, m, a, s)
           g == FifoUpTo(M, m, a, s)
<1>1. /\ Len(L) \in Nat /\ Len(M) = Len(L) + 1 /\ M[Len(L) + 1] = p
      /\ \A i \in 1 .. Len(L) : M[i] = L[i]
  BY AppendProperties
<1>2. \A k \in 0 .. Len(L) : f[k] = FifoStep(L, m, a, s, f, k)
  <2>1. f = [k \in 0 .. Len(L) |-> FifoStep(L, m, a, s, f, k)]
    BY <1>1, FifoExists
  <2> HIDE DEF f
  <2> QED BY <2>1
<1>3. \A k \in 0 .. Len(L) + 1 : g[k] = FifoStep(M, m, a, s, g, k)
  <2> HIDE DEF M
  <2>1. Len(M) \in Nat
    BY <1>1
  <2>2. g = [k \in 0 .. Len(M) |-> FifoStep(M, m, a, s, g, k)]
    BY <2>1, FifoExists
  <2> HIDE DEF g
  <2> QED BY <1>1, <2>2
<1>4. FifoOf(M, m, a, s) = g[Len(L) + 1] /\ FifoOf(L, m, a, s) = f[Len(L)]
  BY <1>1 DEF FifoOf
<1> HIDE DEF M, f, g
<1> DEFINE K == {k \in Nat : k <= Len(L) => g[k] = f[k]}
<1>5. 0 \in K
  <2>1. 0 \in 0 .. Len(L) /\ 0 \in 0 .. Len(L) + 1
    BY <1>1
  <2> QED BY <1>2, <1>3, <2>1 DEF FifoStep
<1>6. ASSUME NEW k \in K PROVE k + 1 \in K
  <2> SUFFICES ASSUME k + 1 <= Len(L) PROVE g[k + 1] = f[k + 1]
    OBVIOUS
  <2>1. /\ k \in Nat /\ k + 1 \in 0 .. Len(L) /\ k + 1 \in 0 .. Len(L) + 1 /\ k + 1 \in 1 .. Len(L)
        /\ (k + 1) - 1 = k /\ k + 1 # 0 /\ k <= Len(L)
    BY <1>1
  <2>2. g[k] = f[k] /\ M[k + 1] = L[k + 1]
    BY <1>1, <2>1
  <2>3. g[k + 1] = FifoStep(M, m, a, s, g, k + 1) /\ f[k + 1] = FifoStep(L, m, a, s, f, k + 1)
    BY <1>2, <1>3, <2>1
  <2> QED BY <2>1, <2>2, <2>3 DEF FifoStep
<1>7. K \in SUBSET Nat
  OBVIOUS
<1> HIDE DEF K
<1>8. g[Len(L)] = f[Len(L)]
  <2>1. K = Nat
    BY <1>5, <1>6, <1>7, Induction
  <2> QED BY <1>1, <2>1 DEF K
<1>9. /\ Len(L) + 1 \in 0 .. Len(L) + 1 /\ (Len(L) + 1) - 1 = Len(L) /\ Len(L) + 1 # 0
  BY <1>1
<1>10. g[Len(L) + 1] = FifoStep(M, m, a, s, g, Len(L) + 1)
  BY <1>3, <1>9
<1>11. g[Len(L) + 1] = Enters(f[Len(L)], p, m, a, s)
  BY <1>1, <1>8, <1>9, <1>10 DEF FifoStep
<1> QED BY <1>4, <1>11 DEF M

LEMMA QueueIsFifo ==
  ASSUME NEW n \in Positive, NEW a \in Positive, cache \in CacheOf(n, a), NEW s
  PROVE  QueueOf(a, s) = FifoOf(LookedUp, n, a, s)
<1>1. Cardinality(SetsOf(cache)) = n
  BY CacheShape
<1>2. QueueOf(a, s) = FifoOf(LookedUp, Cardinality(SetsOf(cache)), a, s)
  BY DEF QueueOf, FifoOf, FifoUpTo, FifoStep, Enters, GetIndex
<1> QED BY <1>1, <1>2
(***************************************************************************)
(* The queue lies in the ways of the set, from the way whose turn it is,   *)
(* which is the first one until the set is full.                           *)
(***************************************************************************)
QueueInWays(q, c, s, a) ==
  /\ q \in Seq(Pages) /\ Len(q) <= a
  /\ \A i \in 1 .. Len(q) : GetIndex(c, q[i]) = s
  /\ Len(q) < a => c.rrIndex[s] = 0
  /\ \A w \in WaysOf(c) : c.entries[s][w].isValid <=> w < Len(q)
  /\ \A i \in 1 .. Len(q) : Holds(c, s, Wrapped(c.rrIndex[s] + i - 1, a), q[i])

LEMMA TurnIsAWay ==
  ASSUME NEW a \in Positive, NEW turn \in 0 .. a - 1, NEW len \in Nat, len <= a, NEW i \in 1 .. len
  PROVE  Wrapped(turn + i - 1, a) \in 0 .. a - 1
<1>1. a \in Nat /\ a > 0
  BY DEF Positive
<1>2. turn \in Nat /\ i \in Nat /\ turn <= a - 1 /\ i >= 1 /\ i <= a
  BY <1>1
<1> QED BY <1>1, <1>2 DEF Wrapped

LEMMA NextTurn ==
  ASSUME NEW a \in Positive, NEW turn \in 0 .. a - 1, NEW i \in 1 .. a - 1
  PROVE  /\ Wrapped(Wrapped(turn + 1, a) + i - 1, a) = Wrapped(turn + (i + 1) - 1, a)
         /\ Wrapped(turn + (i + 1) - 1, a) # turn
         /\ Wrapped(turn + (i + 1) - 1, a) \in 0 .. a - 1
<1>1. /\ a \in Nat /\ turn \in Nat /\ i \in Nat /\ turn < a /\ 1 <= i /\ i < a
      /\ turn + (i + 1) - 1 = turn + i
  BY DEF Positive
<1>2. Wrapped(turn + i, a) # turn /\ Wrapped(turn + i, a) \in 0 .. a - 1
  BY <1>1 DEF Wrapped
<1>3. CASE turn + 1 < a
  <2>1. Wrapped(turn + 1, a) + i - 1 = turn + i
    BY <1>1, <1>3 DEF Wrapped
  <2> QED BY <1>1, <1>2, <2>1
<1>4. CASE turn + 1 = a
  <2>1. Wrapped(turn + 1, a) + i - 1 = i - 1
    BY <1>1, <1>4 DEF Wrapped
  <2>2. Wrapped(i - 1, a) = i - 1 /\ Wrapped(turn + i, a) = i - 1
    BY <1>1, <1>4 DEF Wrapped
  <2> QED BY <1>1, <1>2, <2>1, <2>2
<1> QED BY <1>1, <1>3, <1>4

LEMMA EveryWayHasATurn ==
  ASSUME NEW a \in Positive, NEW turn \in 0 .. a - 1, NEW len \in Nat, len <= a,
         len < a => turn = 0, NEW w \in 0 .. a - 1, w < len
  PROVE  \E i \in 1 .. len : Wrapped(turn + i - 1, a) = w
<1>0. a \in Nat /\ a > 0
  BY DEF Positive
<1>1. CASE turn <= w
  <2>1. w - turn + 1 \in 1 .. len /\ turn + (w - turn + 1) - 1 = w /\ w < a
    BY <1>0, <1>1
  <2> QED BY <2>1 DEF Wrapped
<1>2. CASE turn > w
  <2>1. len = a
    BY <1>0, <1>2
  <2>2. /\ w - turn + 1 + a \in 1 .. len /\ turn + (w - turn + 1 + a) - 1 = w + a
        /\ ~(w + a < a) /\ (w + a) - a = w
    BY <1>0, <1>2, <2>1
  <2> QED BY <2>2 DEF Wrapped
<1> QED BY <1>0, <1>1, <1>2

(***************************************************************************)
(* What the set holds is what the queue holds.                             *)
(***************************************************************************)
LEMMA HeldIsQueued ==
  ASSUME NEW n \in Positive, NEW a \in Positive, NEW c \in CacheOf(n, a), NEW s \in 0 .. n - 1,
         NEW q, QueueInWays(q, c, s, a), NEW p \in Pages, GetIndex(c, p) = s
  PROVE  p \in ToSet(q) <=> \E w \in 0 .. a - 1 : Holds(c, s, w, p)
<1>0. a \in Nat /\ a > 0 /\ Pages \subseteq Nat /\ p \in Nat
  BY ITLBAssumption DEF Positive
<1>1. WaysOf(c) = 0 .. a - 1 /\ c.rrIndex[s] \in 0 .. a - 1
  BY CacheShape DEF CacheOf
<1>2. /\ q \in Seq(Pages) /\ Len(q) \in Nat /\ Len(q) <= a /\ (Len(q) < a => c.rrIndex[s] = 0)
      /\ \A i \in 1 .. Len(q) : q[i] \in Pages /\ GetIndex(c, q[i]) = s
      /\ \A i \in 1 .. Len(q) : Holds(c, s, Wrapped(c.rrIndex[s] + i - 1, a), q[i])
      /\ \A w \in 0 .. a - 1 : c.entries[s][w].isValid <=> w < Len(q)
  BY <1>1 DEF QueueInWays
<1>3. p \in ToSet(q) <=> \E i \in 1 .. Len(q) : q[i] = p
  BY <1>2 DEF ToSet
<1>4. ASSUME NEW i \in 1 .. Len(q), q[i] = p PROVE \E w \in 0 .. a - 1 : Holds(c, s, w, p)
  <2>1. Wrapped(c.rrIndex[s] + i - 1, a) \in 0 .. a - 1
    BY <1>1, <1>2, TurnIsAWay
  <2>2. Holds(c, s, Wrapped(c.rrIndex[s] + i - 1, a), p)
    BY <1>2, <1>4
  <2> QED BY <2>1, <2>2
<1>5. ASSUME NEW w \in 0 .. a - 1, Holds(c, s, w, p) PROVE \E i \in 1 .. Len(q) : q[i] = p
  <2>1. c.entries[s][w].isValid
    BY <1>5 DEF Holds, PageLine
  <2>2. w < Len(q)
    BY <1>2, <2>1
  <2>3. PICK i \in 1 .. Len(q) : Wrapped(c.rrIndex[s] + i - 1, a) = w
    BY <1>1, <1>2, <2>2, EveryWayHasATurn
  <2>4. PageLine(c, q[i]) = PageLine(c, p) /\ GetIndex(c, q[i]) = s /\ q[i] \in Nat
    BY <1>0, <1>2, <1>5, <2>3 DEF Holds
  <2>5. q[i] = p
    BY <1>0, <2>4, SamePage
  <2> QED BY <2>5
<1> QED BY <1>3, <1>4, <1>5

LEMMA QueueOtherSet ==
  ASSUME NEW n \in Positive, NEW a \in Positive, NEW c \in CacheOf(n, a), NEW d \in CacheOf(n, a),
         NEW s \in 0 .. n - 1, NEW q, QueueInWays(q, c, s, a), d.rrIndex[s] = c.rrIndex[s],
         \A v \in 0 .. a - 1 : d.entries[s][v] = c.entries[s][v]
  PROVE  QueueInWays(q, d, s, a)
<1>1. /\ WaysOf(d) = WaysOf(c) /\ WaysOf(c) = 0 .. a - 1
      /\ \A x : GetIndex(d, x) = GetIndex(c, x) /\ PageLine(d, x) = PageLine(c, x)
  BY SameShape, CacheShape
<1>2. c.rrIndex[s] \in 0 .. a - 1
  BY DEF CacheOf
<1>3. \A i \in 1 .. Len(q) : Wrapped(c.rrIndex[s] + i - 1, a) \in 0 .. a - 1
  <2>1. Len(q) \in Nat /\ Len(q) <= a
    BY DEF QueueInWays
  <2> QED BY <1>2, <2>1, TurnIsAWay
<1>4. \A i \in 1 .. Len(q) : Holds(d, s, Wrapped(d.rrIndex[s] + i - 1, a), q[i])
  BY <1>1, <1>3 DEF QueueInWays, Holds
<1> QED BY <1>1, <1>4 DEF QueueInWays
(***************************************************************************)
(* A lookup in the set itself: a page that is found is in the queue, one   *)
(* that fills an empty way is put behind it, and one that replaces another *)
(* takes the way of the first, whose turn it was.                          *)
(***************************************************************************)
LEMMA QueueSameSet ==
  ASSUME NEW n \in Positive, NEW a \in Positive, NEW c \in CacheOf(n, a), NEW d \in CacheOf(n, a),
         c.policy = "roundrobin", NEW p \in Pages, NEW s \in 0 .. n - 1, s = GetIndex(c, p),
         NEW q, QueueInWays(q, c, s, a), NEW way \in 0 .. a - 1, LooksUp(c, d, p, way)
  PROVE  QueueInWays(Enters(q, p, n, a, s), d, s, a)
<1> DEFINE turn == c.rrIndex[s]
           E == c.entries[s]
           F == d.entries[s]
<1>0. a \in Nat /\ a > 0 /\ Pages \subseteq Nat /\ p \in Nat
  BY ITLBAssumption DEF Positive
<1>1. /\ WaysOf(d) = 0 .. a - 1 /\ WaysOf(c) = 0 .. a - 1 /\ Cardinality(WaysOf(c)) = a
      /\ SetsOf(c) = 0 .. n - 1 /\ turn \in 0 .. a - 1
      /\ \A x : GetIndex(d, x) = GetIndex(c, x) /\ PageLine(d, x) = PageLine(c, x)
  <2>1. turn \in 0 .. a - 1
    BY DEF CacheOf
  <2> QED BY <2>1, SameShape, CacheShape
<1>2. /\ q \in Seq(Pages) /\ Len(q) \in Nat /\ Len(q) <= a /\ (Len(q) < a => turn = 0)
      /\ \A i \in 1 .. Len(q) : q[i] \in Pages /\ GetIndex(c, q[i]) = s
      /\ \A i \in 1 .. Len(q) : E[Wrapped(turn + i - 1, a)] = PageLine(c, q[i])
      /\ \A w \in 0 .. a - 1 : E[w].isValid <=> w < Len(q)
  BY <1>1 DEF QueueInWays, Holds
<1>3. \A v \in 0 .. a - 1 : F[v] = IF v = way THEN PageLine(c, p) ELSE E[v]
  BY <1>1 DEF LooksUp, Touches
<1>4. p % n = s
  BY CacheShape DEF GetIndex
<1>5. p \in ToSet(q) <=> \E w \in 0 .. a - 1 : E[w] = PageLine(c, p)
  BY HeldIsQueued DEF Holds
<1>6. IsHit(c, p) <=> \E w \in 0 .. a - 1 : E[w] = PageLine(c, p)
  BY <1>1 DEF IsHit, GetEntry, PageLine
<1>7. PageLine(c, p).isValid = TRUE
  BY DEF PageLine
<1>8. CASE FoundIn(c, d, p, way)
  <2>1. E[way] = PageLine(c, p) /\ d.rrIndex = c.rrIndex
    BY <1>8 DEF FoundIn, Holds
  <2>2. Enters(q, p, n, a, s) = q
    BY <1>5, <2>1 DEF Enters
  <2>3. \A v \in 0 .. a - 1 : d.entries[s][v] = c.entries[s][v]
    BY <1>3, <2>1
  <2> QED BY <2>1, <2>2, <2>3, QueueOtherSet
<1>9. CASE ~IsHit(c, p) /\ FirstEmpty(c, d, p, way)
  <2>1. /\ ~E[way].isValid /\ d.rrIndex = c.rrIndex
        /\ \A v \in 0 .. a - 1 : ~E[v].isValid => way <= v
    BY <1>1, <1>9 DEF FirstEmpty
  <2>2. ~(way < Len(q))
    BY <1>2, <2>1
  <2>3. Len(q) < a /\ Len(q) \in 0 .. a - 1
    BY <1>0, <1>2, <2>2
  <2>4. ~E[Len(q)].isValid
    BY <1>2, <2>3
  <2>5. way = Len(q)
    BY <1>0, <1>2, <2>1, <2>2, <2>3, <2>4
  <2> DEFINE r == Append(q, p)
  <2>6. Enters(q, p, n, a, s) = r
    BY <1>4, <1>5, <1>6, <1>9, <2>3 DEF Enters
  <2>7. /\ r \in Seq(Pages) /\ Len(r) = Len(q) + 1 /\ r[Len(q) + 1] = p
        /\ \A i \in 1 .. Len(q) : r[i] = q[i]
    BY <1>2, AppendProperties
  <2> HIDE DEF r
  <2>8. turn = 0 /\ d.rrIndex[s] = 0
    BY <1>2, <2>1, <2>3
  <2>9. ASSUME NEW i \in 1 .. Len(r)
        PROVE  GetIndex(c, r[i]) = s /\ F[Wrapped(0 + i - 1, a)] = PageLine(c, r[i])
    <3>1. Wrapped(0 + i - 1, a) = i - 1 /\ i - 1 \in 0 .. a - 1
      BY <1>0, <1>2, <2>3, <2>7 DEF Wrapped
    <3>2. CASE i = Len(q) + 1
      <4>1. i - 1 = way /\ r[i] = p
        BY <1>2, <2>5, <2>7, <3>2
      <4> QED BY <1>3, <3>1, <4>1
    <3>3. CASE i # Len(q) + 1
      <4>1. i \in 1 .. Len(q) /\ i - 1 # way /\ r[i] = q[i]
        BY <1>2, <2>5, <2>7, <3>3
      <4>2. E[i - 1] = PageLine(c, q[i]) /\ GetIndex(c, q[i]) = s
        BY <1>2, <2>8, <3>1, <4>1
      <4> QED BY <1>3, <3>1, <4>1, <4>2
    <3> QED BY <3>2, <3>3
  <2>10. ASSUME NEW w \in 0 .. a - 1 PROVE F[w].isValid <=> w < Len(r)
    <3>1. CASE w = way
      <4>1. w < Len(r)
        BY <1>2, <2>5, <2>7, <3>1
      <4> QED BY <1>3, <1>7, <3>1, <4>1
    <3>2. CASE w # way
      <4>1. w < Len(r) <=> w < Len(q)
        BY <1>2, <2>5, <2>7, <3>2
      <4> QED BY <1>2, <1>3, <3>2, <4>1
    <3> QED BY <3>1, <3>2
  <2>11. Len(r) <= a
    BY <1>0, <1>2, <2>3, <2>7
  <2> QED BY <1>1, <2>6, <2>7, <2>8, <2>9, <2>10, <2>11 DEF QueueInWays, Holds
<1>10. CASE ~IsHit(c, p) /\ Replaces(c, d, p, way)
  <2>1. /\ \A v \in 0 .. a - 1 : E[v].isValid
        /\ way = turn /\ d.rrIndex[s] = Wrapped(turn + 1, a)
    BY <1>1, <1>10 DEF Replaces
  <2>2. Len(q) = a
    <3>1. a - 1 \in 0 .. a - 1
      BY <1>0
    <3>2. a - 1 < Len(q)
      BY <1>2, <2>1, <3>1
    <3> QED BY <1>0, <1>2, <3>2
  <2> DEFINE t == Tail(q)
             r == Append(t, p)
             next == Wrapped(turn + 1, a)
  <2>3. /\ t \in Seq(Pages) /\ Len(t) = a - 1
        /\ \A i \in 1 .. a - 1 : t[i] = q[i + 1]
    <3>1. q # <<>>
      BY <1>0, <2>2
    <3> QED BY <1>2, <2>2, <3>1, HeadTailProperties
  <2>4. Enters(q, p, n, a, s) = r
    BY <1>0, <1>4, <1>5, <1>6, <1>10, <2>2 DEF Enters
  <2> HIDE DEF t
  <2>5. /\ r \in Seq(Pages) /\ Len(r) = a /\ r[a] = p
        /\ \A i \in 1 .. a - 1 : r[i] = t[i]
    <3>1. /\ r \in Seq(Pages) /\ Len(r) = Len(t) + 1 /\ r[Len(t) + 1] = p
          /\ \A i \in 1 .. Len(t) : r[i] = t[i]
      BY <2>3, AppendProperties
    <3> HIDE DEF r
    <3> QED BY <1>0, <2>3, <3>1
  <2> HIDE DEF r
  <2>6. ASSUME NEW i \in 1 .. a
        PROVE  GetIndex(c, r[i]) = s /\ F[Wrapped(next + i - 1, a)] = PageLine(c, r[i])
    <3>0. i \in Nat /\ turn \in Nat /\ turn < a
      BY <1>0, <1>1
    <3>1. CASE i = a
      <4>1. Wrapped(next + i - 1, a) = way
        BY <1>0, <2>1, <3>0, <3>1 DEF Wrapped
      <4> QED BY <1>3, <2>5, <3>1, <4>1
    <3>2. CASE i # a
      <4>1. i \in 1 .. a - 1 /\ i + 1 \in 1 .. Len(q)
        BY <1>0, <2>2, <3>2
      <4>2. r[i] = q[i + 1]
        BY <2>3, <2>5, <4>1
      <4>3. /\ Wrapped(next + i - 1, a) = Wrapped(turn + (i + 1) - 1, a)
            /\ Wrapped(turn + (i + 1) - 1, a) # way
            /\ Wrapped(turn + (i + 1) - 1, a) \in 0 .. a - 1
        BY <1>1, <2>1, <4>1, NextTurn
      <4>4. E[Wrapped(turn + (i + 1) - 1, a)] = PageLine(c, q[i + 1]) /\ GetIndex(c, q[i + 1]) = s
        BY <1>2, <4>1
      <4> QED BY <1>3, <4>2, <4>3, <4>4
    <3> QED BY <3>1, <3>2
  <2>7. \A w \in 0 .. a - 1 : F[w].isValid <=> w < Len(r)
    <3>1. \A w \in 0 .. a - 1 : w < Len(r)
      BY <1>0, <2>5
    <3>2. \A w \in 0 .. a - 1 : F[w].isValid
      BY <1>3, <1>7, <2>1
    <3> QED BY <3>1, <3>2
  <2> HIDE DEF next
  <2>8. d.rrIndex[s] = next
    BY <2>1 DEF next
  <2> QED BY <1>0, <1>1, <2>4, <2>5, <2>6, <2>7, <2>8 DEF QueueInWays, Holds
<1> QED BY <1>8, <1>9, <1>10 DEF LooksUp
(***************************************************************************)
(* The queues of a round robin cache stay in its ways.                     *)
(***************************************************************************)
RoundRobinInductive ==
  /\ CacheInductive /\ QueueFits /\ LookedUp \in Seq(Pages)
  /\ cache.policy = "roundrobin" =>
       LET n == Cardinality(SetsOf(cache))
           a == Cardinality(WaysOf(cache))
       IN  \A s \in SetsOf(cache) : QueueInWays(FifoOf(LookedUp, n, a, s), cache, s, a)

LEMMA RoundRobinStarts ==
  ASSUME Init, CacheInductive
  PROVE  RoundRobinInductive
<1>1. QueueFits /\ LookedUp = <<>>
  BY LookupsStart
<1>2. PICK n \in Positive, a \in Positive : cache \in CacheOf(n, a)
  BY DEF CacheInductive
<1>3. Cardinality(SetsOf(cache)) = n /\ Cardinality(WaysOf(cache)) = a /\ WaysOf(cache) = 0 .. a - 1
  BY <1>2, CacheShape
<1>4. ASSUME NEW s \in SetsOf(cache) PROVE QueueInWays(FifoOf(LookedUp, n, a, s), cache, s, a)
  <2>1. FifoOf(LookedUp, n, a, s) = <<>>
    BY <1>1, FifoEmpty
  <2>2. /\ cache.rrIndex[s] = 0
        /\ \A w \in WaysOf(cache) : cache.entries[s][w].isValid = FALSE
    BY CacheIsEmpty
  <2>3. \A w \in WaysOf(cache) : ~(w < 0)
    BY <1>3
  <2>4. 0 <= a /\ <<>> \in Seq(Pages) /\ Len(<<>>) = 0
    BY DEF Positive
  <2>5. QueueInWays(<<>>, cache, s, a)
    BY <2>2, <2>3, <2>4 DEF QueueInWays
  <2> QED BY <2>1, <2>5
<1>5. LookedUp \in Seq(Pages)
  BY <1>1, EmptySeq
<1> QED BY <1>1, <1>3, <1>4, <1>5 DEF RoundRobinInductive

LEMMA ClockKeepsRoundRobin ==
  ASSUME RoundRobinInductive, NEW first \in Firsts, Clock(first)
  PROVE  RoundRobinInductive'
<1>1. PICK n \in Positive, a \in Positive : cache \in CacheOf(n, a)
  BY DEF RoundRobinInductive, CacheInductive
<1>2. QueueTypeOK /\ NoPageTwice(cache) /\ QueueFits /\ LookedUp \in Seq(Pages)
  BY DEF RoundRobinInductive, CacheInductive
<1>3. CacheInductive' /\ cache' \in CacheOf(n, a)
  BY <1>1, <1>2, ClockKeepsTheShape, ClockKeepsTheCache DEF RoundRobinInductive
<1>4. CASE cache' = cache /\ LookedUp' = LookedUp
  BY <1>1, <1>2, <1>3, <1>4, ClockLooksUp DEF RoundRobinInductive
<1>5. CASE \E p \in Pages, way \in 0 .. a - 1 :
             LookedUp' = Append(LookedUp, p) /\ LooksUp(cache, cache', p, way)
  <2>1. PICK p \in Pages, way \in 0 .. a - 1 :
          LookedUp' = Append(LookedUp, p) /\ LooksUp(cache, cache', p, way)
    BY <1>5
  <2>2. LookedUp' \in Seq(Pages) /\ QueueFits'
    BY <1>1, <1>2, <2>1, AppendProperties, ClockLooksUp
  <2>3. cache'.policy = cache.policy
    BY <2>1 DEF LooksUp, Touches
  <2>4. /\ SetsOf(cache) = 0 .. n - 1 /\ WaysOf(cache) = 0 .. a - 1
        /\ Cardinality(SetsOf(cache)) = n /\ Cardinality(WaysOf(cache)) = a
    BY <1>1, CacheShape
  <2>5. /\ SetsOf(cache') = 0 .. n - 1
        /\ Cardinality(SetsOf(cache')) = n /\ Cardinality(WaysOf(cache')) = a
    BY <1>3, CacheShape
  <2>6. ASSUME cache.policy = "roundrobin", NEW s \in 0 .. n - 1
        PROVE  QueueInWays(FifoOf(Append(LookedUp, p), n, a, s), cache', s, a)
    <3> DEFINE q == FifoOf(LookedUp, n, a, s)
    <3>1. QueueInWays(q, cache, s, a)
      BY <2>4, <2>6 DEF RoundRobinInductive
    <3>2. FifoOf(Append(LookedUp, p), n, a, s) = Enters(q, p, n, a, s)
      BY <1>2, FifoAppend
    <3> HIDE DEF q
    <3>3. CASE s = GetIndex(cache, p)
      BY <1>1, <1>3, <2>1, <2>6, <3>1, <3>2, <3>3, QueueSameSet
    <3>4. CASE s # GetIndex(cache, p)
      <4>1. \A v \in 0 .. a - 1 : cache'.entries[s][v] = cache.entries[s][v]
        BY <2>1, <2>4, <3>4 DEF LooksUp, Touches
      <4>2. cache'.rrIndex[s] = cache.rrIndex[s]
        BY <2>1, <2>4, <2>6, <3>4 DEF LooksUp, FoundIn, FirstEmpty, Replaces
      <4>3. p % n # s
        BY <2>4, <3>4 DEF GetIndex
      <4>4. Enters(q, p, n, a, s) = q
        BY <4>3 DEF Enters
      <4> QED BY <1>1, <1>3, <3>1, <3>2, <4>1, <4>2, <4>4, QueueOtherSet
    <3> QED BY <3>3, <3>4
  <2> QED BY <1>3, <2>1, <2>2, <2>3, <2>5, <2>6 DEF RoundRobinInductive
<1> QED BY <1>1, <1>2, <1>4, <1>5, ClockLooksUp

(***************************************************************************)
(* A set of a round robin cache holds what a queue of as many places as it *)
(* has ways holds (roundRobin.cpp:42-49): the index and the search for an  *)
(* empty way never get out of step, for every geometry and every sequence  *)
(* of requests.                                                            *)
(***************************************************************************)
THEOREM TurnsAreFifo == Spec => []RoundRobinIsFifo
<1>1. Init => RoundRobinInductive
  BY CacheStarts, RoundRobinStarts
<1>2. RoundRobinInductive /\ [Next]_itlbVars => RoundRobinInductive'
  <2> SUFFICES ASSUME RoundRobinInductive, [Next]_itlbVars PROVE RoundRobinInductive'
    OBVIOUS
  <2>1. CASE Next
    <3>1. PICK first \in Firsts : Clock(first)
      BY <2>1 DEF Next, Firsts
    <3> QED BY <3>1, ClockKeepsRoundRobin
  <2>2. CASE UNCHANGED itlbVars
    <3>1. cache' = cache /\ LookedUp' = LookedUp /\ QueueFits' /\ QueueTypeOK'
      BY <2>2 DEF itlbVars, LookedUp, RoundRobinInductive, CacheInductive, QueueFits, QueueTypeOK
    <3> QED BY <3>1 DEF RoundRobinInductive, CacheInductive
  <2> QED BY <2>1, <2>2
<1>3. RoundRobinInductive => RoundRobinIsFifo
  <2> SUFFICES ASSUME RoundRobinInductive, cache.policy = "roundrobin", NEW s \in SetsOf(cache)
               PROVE  Held(s) = ToSet(QueueOf(Cardinality(WaysOf(cache)), s))
    BY DEF RoundRobinIsFifo
  <2>1. PICK n \in Positive, a \in Positive : cache \in CacheOf(n, a)
    BY DEF RoundRobinInductive, CacheInductive
  <2>2. /\ s \in 0 .. n - 1 /\ Cardinality(WaysOf(cache)) = a /\ Cardinality(SetsOf(cache)) = n
        /\ WaysOf(cache) = 0 .. a - 1
    BY <2>1, CacheShape
  <2>3. PICK q : q = QueueOf(a, s)
    OBVIOUS
  <2>4. QueueInWays(q, cache, s, a)
    BY <2>1, <2>2, <2>3, QueueIsFifo DEF RoundRobinInductive
  <2>5. \A p \in Pages : GetIndex(cache, p) = s =>
          (p \in ToSet(q) <=> \E w \in 0 .. a - 1 : Holds(cache, s, w, p))
    BY <2>1, <2>2, <2>4, HeldIsQueued
  <2>6. \A p : GetIndex(cache, p) = s =>
          (IsHit(cache, p) <=> \E w \in 0 .. a - 1 : Holds(cache, s, w, p))
    BY <2>2 DEF IsHit, GetEntry, Holds, PageLine
  <2>7. \A p \in ToSet(q) : p \in Pages /\ GetIndex(cache, p) = s
    <3>1. q \in Seq(Pages) /\ \A i \in 1 .. Len(q) : GetIndex(cache, q[i]) = s
      BY <2>4 DEF QueueInWays
    <3> QED BY <3>1 DEF ToSet
  <2>8. Held(s) = ToSet(q)
    BY <2>5, <2>6, <2>7 DEF Held
  <2> QED BY <2>2, <2>3, <2>8
<1> QED BY <1>1, <1>2, <1>3, PTL DEF Spec
=============================================================================
