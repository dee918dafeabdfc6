------------------------- MODULE MqttQueueTheorems -------------------------
(***************************************************************************)
(* What one enqueue call does to the queue, for every capacity, every      *)
(* queue and every message: lemmas about the operators of MqttQueue that   *)
(* the invariants of MqttManager rest on.                                  *)
(***************************************************************************)
EXTENDS MqttQueue, SequenceTheorems, WellFoundedInduction, TLAPS

-----------------------------------------------------------------------------
(* Minimum, maximum, insertion and removal. *)

\* A nonempty set of naturals has a least element, the one Min chooses.
LEMMA MinExists ==
  ASSUME NEW S \in SUBSET Nat, S # {}
  PROVE  Min(S) \in S /\ \A y \in S : Min(S) <= y
<1> DEFINE R == {ss \in Nat \X Nat : ss[1] < ss[2]}
<1>1. IsWellFoundedOn(R, Nat)
  BY NatLessThanWellFounded DEF OpToRel
<1>2. \A x, y \in Nat : <<y, x>> \in R <=> y < x
  OBVIOUS
<1>3. \E x \in S : \A y \in S : x <= y
  <2> HIDE DEF R
  <2>1. PICK x \in S : \A y \in S : ~ (<<y, x>> \in R)
    BY <1>1, WFMin
  <2>2. \A y \in S : x <= y
    <3> TAKE y \in S
    <3>1. x \in Nat /\ y \in Nat
      OBVIOUS
    <3>2. ~ (y < x)
      BY <2>1, <1>2, <3>1, Zenon
    <3> QED BY <3>1, <3>2
  <2> QED BY <2>2
<1> QED BY <1>3 DEF Min

\* A nonempty set of positions has a greatest element, the one Max chooses.
LEMMA MaxExists ==
  ASSUME NEW n \in Nat, NEW S \in SUBSET (0..n), S # {}
  PROVE  Max(S) \in S /\ \A y \in S : y <= Max(S)
<1> DEFINE T == {n - x : x \in S}
<1>1. T \in SUBSET Nat
  OBVIOUS
<1>2. T # {}
  OBVIOUS
<1>3. PICK m \in S : Min(T) = n - m
  BY <1>1, <1>2, MinExists
<1>4. \A y \in S : m >= y
  <2> TAKE y \in S
  <2>1. n - y \in T
    OBVIOUS
  <2> QED BY <1>1, <1>3, <2>1, MinExists
<1> QED BY <1>4 DEF Max

\* InsertAt shifts the entries from position n on by one.
LEMMA InsertAtProperties ==
  ASSUME NEW S, NEW s \in Seq(S), NEW e \in S, NEW n \in 1..(Len(s) + 1)
  PROVE  /\ InsertAt(s, n, e) \in Seq(S)
         /\ Len(InsertAt(s, n, e)) = Len(s) + 1
         /\ \A i \in 1..(Len(s) + 1) :
              InsertAt(s, n, e)[i] = IF i < n THEN s[i] ELSE IF i = n THEN e ELSE s[i - 1]
<1> DEFINE a == SubSeq(s, 1, n - 1)
           b == SubSeq(s, n, Len(s))
<1>1. /\ a \in Seq(S) /\ Len(a) = n - 1
      /\ \A i \in 1..(n - 1) : a[i] = s[i]
  BY SubSeqProperties
<1>2. /\ b \in Seq(S) /\ Len(b) = Len(s) - n + 1
      /\ \A i \in 1..(Len(s) - n + 1) : b[i] = s[n + i - 1]
  BY SubSeqProperties
<1> HIDE DEF a, b
<1>3. <<e>> \in Seq(S) /\ Len(<<e>>) = 1 /\ <<e>>[1] = e
  OBVIOUS
<1>4. /\ a \o <<e>> \in Seq(S) /\ Len(a \o <<e>>) = n
      /\ \A i \in 1..n : (a \o <<e>>)[i] = IF i <= n - 1 THEN a[i] ELSE <<e>>[i - (n - 1)]
  BY <1>1, <1>3, ConcatProperties
<1>5. /\ (a \o <<e>>) \o b \in Seq(S) /\ Len((a \o <<e>>) \o b) = Len(s) + 1
      /\ \A i \in 1..(Len(s) + 1) :
            ((a \o <<e>>) \o b)[i] = IF i <= n THEN (a \o <<e>>)[i] ELSE b[i - n]
  BY <1>2, <1>4, ConcatProperties
<1>6. InsertAt(s, n, e) = (a \o <<e>>) \o b
  BY DEF InsertAt, a, b
<1> DEFINE c == (a \o <<e>>) \o b
<1>7. ASSUME NEW i \in 1..(Len(s) + 1)
      PROVE  c[i] = IF i < n THEN s[i] ELSE IF i = n THEN e ELSE s[i - 1]
  <2>0. i \in Int /\ n \in Int
    OBVIOUS
  <2>1. CASE i < n
    BY <2>1, <1>1, <1>4, <1>5
  <2>2. CASE i = n
    BY <2>2, <1>3, <1>4, <1>5
  <2>3. CASE i > n
    <3>1. i - n \in 1..(Len(s) - n + 1) /\ n + (i - n) - 1 = i - 1
      BY <2>3
    <3> QED BY <2>3, <3>1, <1>2, <1>5
  <2> HIDE DEF c
  <2> QED BY <2>0, <2>1, <2>2, <2>3
<1> QED BY <1>5, <1>6, <1>7

\* RemoveAt closes the gap left by position n.
LEMMA RemoveAtProperties ==
  ASSUME NEW S, NEW s \in Seq(S), NEW n \in 1..Len(s)
  PROVE  /\ RemoveAt(s, n) \in Seq(S)
         /\ Len(RemoveAt(s, n)) = Len(s) - 1
         /\ \A i \in 1..(Len(s) - 1) :
              RemoveAt(s, n)[i] = IF i < n THEN s[i] ELSE s[i + 1]
<1> DEFINE a == SubSeq(s, 1, n - 1)
           b == SubSeq(s, n + 1, Len(s))
<1>1. /\ a \in Seq(S) /\ Len(a) = n - 1
      /\ \A i \in 1..(n - 1) : a[i] = s[i]
  BY SubSeqProperties
<1>2. /\ b \in Seq(S) /\ Len(b) = Len(s) - n
      /\ \A i \in 1..(Len(s) - n) : b[i] = s[n + i]
  BY SubSeqProperties
<1> HIDE DEF a, b
<1>3. /\ a \o b \in Seq(S) /\ Len(a \o b) = Len(s) - 1
      /\ \A i \in 1..(Len(s) - 1) : (a \o b)[i] = IF i <= n - 1 THEN a[i] ELSE b[i - (n - 1)]
  BY <1>1, <1>2, ConcatProperties
<1>4. RemoveAt(s, n) = a \o b
  BY DEF RemoveAt, a, b
<1> DEFINE c == a \o b
<1>5. ASSUME NEW i \in 1..(Len(s) - 1)
      PROVE  c[i] = IF i < n THEN s[i] ELSE s[i + 1]
  <2>0. i \in Int /\ n \in Int
    OBVIOUS
  <2>1. CASE i < n
    BY <2>1, <1>1, <1>3
  <2>2. CASE i >= n
    <3>1. i - (n - 1) \in 1..(Len(s) - n) /\ n + (i - (n - 1)) = i + 1
      BY <2>2
    <3> QED BY <2>2, <3>1, <1>2, <1>3
  <2> HIDE DEF c
  <2> QED BY <2>0, <2>1, <2>2
<1> QED BY <1>3, <1>4, <1>5

-----------------------------------------------------------------------------
(* The scans. *)

\* A client message is of one of the telemetry kinds or an event.
LEMMA MessageKindType ==
  ASSUME NEW m \in Message
  PROVE  MessageKind(m) \in TelemetryKinds \cup {"event"}
BY DEF Message, MessageKind, TelemetryKinds

\* The entry enqueue builds for a client message is well formed.
LEMMA EntryType ==
  ASSUME NEW m \in Message, NEW p \in Nat
  PROVE  [topic |-> Topic(m), payload |-> p, kind |-> MessageKind(m)] \in Entry
<1>1. Topic(m) \in Topics
  BY MessageKindType DEF Topic, Topics, Message
<1>2. MessageKind(m) \in TelemetryKinds \cup ImportantKinds
  BY MessageKindType DEF ImportantKinds
<1>3. Topic(m).class = MessageKind(m)
  BY DEF Topic
<1> QED BY <1>1, <1>2, <1>3 DEF Entry

\* The insertion point separates the important prefix from what follows it.
LEMMA InsertionPointProperties ==
  ASSUME NEW q \in Seq(Entry)
  PROVE  /\ InsertionPoint(q) \in 1..(Len(q) + 1)
         /\ \A i \in 1..Len(q) : i < InsertionPoint(q) => Important(q[i])
         /\ InsertionPoint(q) <= Len(q) => ~ Important(q[InsertionPoint(q)])
<1> DEFINE B == {i \in DOMAIN q : ~ Important(q[i])}
<1>1. DOMAIN q = 1..Len(q) /\ Len(q) \in Nat
  BY LenProperties
<1>2. B \in SUBSET Nat /\ B \in SUBSET (1..Len(q))
  BY <1>1
<1>3. CASE B = {}
  <2>1. InsertionPoint(q) = Len(q) + 1
    BY <1>3 DEF InsertionPoint
  <2>2. \A i \in 1..Len(q) : Important(q[i])
    BY <1>1, <1>3
  <2> QED BY <1>1, <2>1, <2>2
<1>4. CASE B # {}
  <2>1. InsertionPoint(q) = Min(B)
    BY <1>4 DEF InsertionPoint
  <2>2. Min(B) \in B /\ \A y \in B : Min(B) <= y
    BY <1>2, <1>4, MinExists
  <2>3. ASSUME NEW i \in 1..Len(q), i < Min(B), ~ Important(q[i])
        PROVE  FALSE
    BY <1>1, <2>2, <2>3
  <2>4. Min(B) \in 1..Len(q) /\ ~ Important(q[Min(B)])
    BY <1>1, <2>2
  <2> QED BY <1>1, <2>1, <2>3, <2>4
<1> QED BY <1>3, <1>4

\* What Inserted leaves behind: the important prefix, e and the rest.
LEMMA InsertedProperties ==
  ASSUME NEW q \in Seq(Entry), NEW e \in Entry
  PROVE  /\ Inserted(q, e) \in Seq(Entry)
         /\ Len(Inserted(q, e)) = Len(q) + 1
         /\ \A i \in 1..(Len(q) + 1) :
              Inserted(q, e)[i] = IF i < InsertionPoint(q) THEN q[i]
                                  ELSE IF i = InsertionPoint(q) THEN e ELSE q[i - 1]
<1>1. InsertionPoint(q) \in 1..(Len(q) + 1)
  BY InsertionPointProperties
<1>2. ASSUME NEW n \in 1..(Len(q) + 1)
      PROVE  /\ InsertAt(q, n, e) \in Seq(Entry)
             /\ Len(InsertAt(q, n, e)) = Len(q) + 1
             /\ \A i \in 1..(Len(q) + 1) :
                  InsertAt(q, n, e)[i] = IF i < n THEN q[i] ELSE IF i = n THEN e ELSE q[i - 1]
  BY InsertAtProperties
<1>3. Inserted(q, e) = InsertAt(q, InsertionPoint(q), e)
  BY DEF Inserted
<1> QED BY <1>1, <1>2, <1>3

\* What is given up for an important message is never important itself, and when
\* nothing can be given up, everything queued is important.
LEMMA LowestPriorityProperties ==
  ASSUME NEW q \in Seq(Entry)
  PROVE  /\ LowestPriorityIndex(q) \in 0..Len(q)
         /\ LowestPriorityIndex(q) # 0 => ~ Important(q[LowestPriorityIndex(q)])
         /\ LowestPriorityIndex(q) = 0 => \A i \in 1..Len(q) : Important(q[i])
<1> DEFINE P(r) == PositionsOfKind(q, EvictionOrder[r])
           ranks == {r \in DOMAIN EvictionOrder : P(r) # {}}
<1>1. DOMAIN q = 1..Len(q) /\ Len(q) \in Nat
  BY LenProperties
<1>2. DOMAIN EvictionOrder = 1..4
  BY DEF EvictionOrder
<1>3. \A r \in 1..4 : EvictionOrder[r] \in TelemetryKinds
  BY DEF EvictionOrder, TelemetryKinds
<1>4. \A k \in TelemetryKinds : \E r \in 1..4 : EvictionOrder[r] = k
  BY DEF EvictionOrder, TelemetryKinds
<1>5. TelemetryKinds \cap ImportantKinds = {}
  BY DEF TelemetryKinds, ImportantKinds
<1>6. CASE ranks = {}
  <2>1. LowestPriorityIndex(q) = 0
    BY <1>6 DEF LowestPriorityIndex
  <2>2. ASSUME NEW i \in 1..Len(q), ~ Important(q[i])
        PROVE  FALSE
    <3>1. q[i] \in Entry
      BY ElementOfSeq
    <3>2. q[i].kind \in TelemetryKinds
      BY <2>2, <3>1 DEF Entry, Important
    <3>3. PICK r \in 1..4 : EvictionOrder[r] = q[i].kind
      BY <3>2, <1>4
    <3>4. i \in P(r)
      BY <1>1, <3>3 DEF PositionsOfKind
    <3> QED BY <1>2, <1>6, <3>4
  <2> QED BY <1>1, <2>1, <2>2
<1>7. CASE ranks # {}
  <2>1. ranks \in SUBSET Nat
    BY <1>2
  <2>2. Min(ranks) \in ranks
    BY <1>7, <2>1, MinExists
  <2> DEFINE r == Min(ranks)
  <2>3. r \in 1..4 /\ P(r) # {}
    BY <1>2, <2>2
  <2>4. P(r) \in SUBSET (0..Len(q)) /\ P(r) \in SUBSET (1..Len(q))
    BY <1>1 DEF PositionsOfKind
  <2>5. Max(P(r)) \in P(r)
    BY <1>1, <2>3, <2>4, MaxExists
  <2>6. LowestPriorityIndex(q) = Max(P(r))
    BY <1>7 DEF LowestPriorityIndex
  <2>7. q[Max(P(r))].kind = EvictionOrder[r]
    BY <2>5 DEF PositionsOfKind
  <2>8. ~ Important(q[Max(P(r))])
    BY <1>3, <1>5, <2>3, <2>7 DEF Important
  <2>9. Max(P(r)) \in 1..Len(q)
    BY <2>4, <2>5
  <2> QED BY <1>1, <2>6, <2>8, <2>9
<1> QED BY <1>6, <1>7

-----------------------------------------------------------------------------
(* The outcomes. *)

\* A queue whose important prefix is in order and whose payloads arrived up to n.
GoodQueue(q, n) ==
    /\ q \in Seq(Entry)
    /\ Ordered(q)
    /\ \A i \in 1..Len(q) : q[i].payload <= n

\* r keeps every important entry of q, and an important head in its place.
KeepsImportant(q, r) ==
    /\ \A i \in 1..Len(q) : Important(q[i]) => \E j \in 1..Len(r) : r[j] = q[i]
    /\ q # <<>> /\ Important(q[1]) => r # <<>> /\ r[1] = q[1]

\* Inserting a newer important entry behind the important prefix keeps the order.
LEMMA InsertedIsGood ==
  ASSUME NEW n \in Nat, NEW q, GoodQueue(q, n),
         NEW e \in Entry, Important(e), e.payload = n + 1
  PROVE  /\ GoodQueue(Inserted(q, e), n + 1)
         /\ Len(Inserted(q, e)) = Len(q) + 1
         /\ KeepsImportant(q, Inserted(q, e))
         /\ \E j \in 1..Len(Inserted(q, e)) : Inserted(q, e)[j] = e
<1> DEFINE k == InsertionPoint(q)
           r == Inserted(q, e)
<1>1. q \in Seq(Entry) /\ Len(q) \in Nat /\ DOMAIN q = 1..Len(q)
  BY LenProperties DEF GoodQueue
<1>2. /\ k \in 1..(Len(q) + 1)
      /\ \A i \in 1..Len(q) : i < k => Important(q[i])
      /\ k <= Len(q) => ~ Important(q[k])
  BY <1>1, InsertionPointProperties
<1>3. /\ r \in Seq(Entry) /\ Len(r) = Len(q) + 1
      /\ \A i \in 1..(Len(q) + 1) :
            r[i] = IF i < k THEN q[i] ELSE IF i = k THEN e ELSE q[i - 1]
  BY <1>1, InsertedProperties
<1>4. DOMAIN r = 1..(Len(q) + 1)
  BY <1>3, LenProperties
<1>5. \A i \in 1..Len(q) : i >= k => ~ Important(q[i])
  BY <1>1, <1>2 DEF GoodQueue, Ordered
<1>6. \A i \in 1..Len(q) : q[i].payload \in Nat /\ q[i].payload <= n
  BY <1>1, ElementOfSeq DEF GoodQueue, Entry
<1> HIDE DEF k, r
<1>7. Ordered(r)
  <2>1. SUFFICES ASSUME NEW i \in 1..(Len(q) + 1), NEW j \in 1..(Len(q) + 1), i < j,
                        Important(r[j])
                 PROVE  Important(r[i]) /\ r[i].payload < r[j].payload
    BY <1>4 DEF Ordered
  <2>2. j <= k
    <3>1. SUFFICES ASSUME j > k PROVE FALSE
      BY <1>1, <1>2
    <3>2. j - 1 \in 1..Len(q) /\ j - 1 >= k
      BY <1>1, <1>2, <3>1
    <3>3. r[j] = q[j - 1]
      BY <1>2, <1>3, <3>1
    <3> QED BY <1>5, <2>1, <3>2, <3>3
  <2>3. i < k /\ i \in 1..Len(q) /\ r[i] = q[i] /\ Important(q[i])
    BY <1>1, <1>2, <1>3, <2>1, <2>2
  <2>4. CASE j = k
    <3>1. r[j] = e
      BY <1>2, <1>3, <2>4
    <3> QED BY <1>6, <2>3, <3>1
  <2>5. CASE j < k
    <3>1. j \in 1..Len(q) /\ r[j] = q[j] /\ Important(q[j])
      BY <1>1, <1>2, <1>3, <2>5
    <3> QED BY <1>1, <2>1, <2>3, <3>1 DEF GoodQueue, Ordered
  <2> QED BY <1>2, <2>2, <2>4, <2>5
<1>8. \A i \in 1..Len(r) : r[i].payload <= n + 1
  <2>1. TAKE i \in 1..Len(r)
  <2>2. CASE i < k
    BY <1>1, <1>2, <1>3, <1>6, <2>2
  <2>3. CASE i = k
    <3>1. r[i] = e
      BY <1>2, <1>3, <2>3
    <3> QED BY <3>1
  <2>4. CASE i > k
    <3>1. r[i] = q[i - 1] /\ i - 1 \in 1..Len(q)
      BY <1>1, <1>2, <1>3, <2>4
    <3> QED BY <1>6, <3>1
  <2> QED BY <1>1, <1>2, <1>3, <2>2, <2>3, <2>4
<1>9. KeepsImportant(q, r)
  <2>1. ASSUME NEW i \in 1..Len(q), Important(q[i])
        PROVE  i \in 1..Len(r) /\ r[i] = q[i]
    BY <1>1, <1>2, <1>3, <1>5, <2>1
  <2>2. ASSUME q # <<>>, Important(q[1])
        PROVE  r # <<>> /\ r[1] = q[1]
    <3>1. 1 \in 1..Len(q)
      BY <1>1, <2>2, EmptySeq
    <3>2. r # <<>>
      BY <1>1, <1>3, EmptySeq
    <3> QED BY <2>1, <2>2, <3>1, <3>2
  <2> QED BY <2>1, <2>2 DEF KeepsImportant
<1>10. k \in 1..Len(r) /\ r[k] = e
  BY <1>1, <1>2, <1>3
<1> QED BY <1>3, <1>7, <1>8, <1>9, <1>10 DEF GoodQueue, r

\* Removing an entry that is not important keeps the order.
LEMMA RemovedIsGood ==
  ASSUME NEW n \in Nat, NEW q, GoodQueue(q, n),
         NEW k \in 1..Len(q), ~ Important(q[k])
  PROVE  /\ GoodQueue(RemoveAt(q, k), n)
         /\ Len(RemoveAt(q, k)) = Len(q) - 1
         /\ KeepsImportant(q, RemoveAt(q, k))
<1> DEFINE r == RemoveAt(q, k)
<1>1. q \in Seq(Entry) /\ Len(q) \in Nat /\ DOMAIN q = 1..Len(q)
  BY LenProperties DEF GoodQueue
<1>2. /\ r \in Seq(Entry) /\ Len(r) = Len(q) - 1
      /\ \A i \in 1..(Len(q) - 1) : r[i] = IF i < k THEN q[i] ELSE q[i + 1]
  BY <1>1, RemoveAtProperties
<1>3. DOMAIN r = 1..(Len(q) - 1)
  BY <1>2, LenProperties
<1>4. \A i \in 1..Len(q) : i >= k => ~ Important(q[i])
  BY <1>1 DEF GoodQueue, Ordered
<1> HIDE DEF r
<1>5. Ordered(r)
  <2>1. SUFFICES ASSUME NEW i \in 1..(Len(q) - 1), NEW j \in 1..(Len(q) - 1), i < j,
                        Important(r[j])
                 PROVE  Important(r[i]) /\ r[i].payload < r[j].payload
    BY <1>3 DEF Ordered
  <2>2. j < k
    <3>1. SUFFICES ASSUME j >= k PROVE FALSE
      BY <1>1
    <3>2. r[j] = q[j + 1] /\ j + 1 \in 1..Len(q) /\ j + 1 >= k
      BY <1>1, <1>2, <3>1
    <3> QED BY <1>4, <2>1, <3>2
  <2>3. r[i] = q[i] /\ r[j] = q[j] /\ i \in 1..Len(q) /\ j \in 1..Len(q)
    BY <1>1, <1>2, <2>1, <2>2
  <2> QED BY <1>1, <2>1, <2>3 DEF GoodQueue, Ordered
<1>6. \A i \in 1..Len(r) : r[i].payload <= n
  <2>1. TAKE i \in 1..Len(r)
  <2>2. \E j \in 1..Len(q) : r[i] = q[j]
    <3>1. CASE i < k
      BY <1>1, <1>2, <3>1
    <3>2. CASE i >= k
      <4>1. r[i] = q[i + 1] /\ i + 1 \in 1..Len(q)
        BY <1>1, <1>2, <3>2
      <4> QED BY <4>1
    <3> QED BY <1>1, <1>2, <3>1, <3>2
  <2> QED BY <2>2 DEF GoodQueue
<1>7. KeepsImportant(q, r)
  <2>1. ASSUME NEW i \in 1..Len(q), Important(q[i])
        PROVE  i \in 1..Len(r) /\ r[i] = q[i]
    <3>1. i < k
      BY <1>1, <1>4, <2>1
    <3> QED BY <1>1, <1>2, <3>1
  <2>2. ASSUME q # <<>>, Important(q[1])
        PROVE  r # <<>> /\ r[1] = q[1]
    <3>1. 1 \in 1..Len(q)
      BY <1>1, <2>2, EmptySeq
    <3>2. 1 \in 1..Len(r) /\ r[1] = q[1]
      BY <2>1, <2>2, <3>1
    <3>3. r # <<>>
      BY <1>2, <3>2, EmptySeq
    <3> QED BY <3>2, <3>3
  <2> QED BY <2>1, <2>2 DEF KeepsImportant
<1> QED BY <1>2, <1>5, <1>6, <1>7 DEF GoodQueue, r

\* _enqueue_important: the bound holds, the call is accounted for, no important
\* entry is lost, and a refusal means that only important entries are queued.
LEMMA EnqueueImportantIsGood ==
  ASSUME NEW n \in Nat, NEW q, GoodQueue(q, n), Len(q) <= Capacity,
         NEW e \in Entry, Important(e), e.payload = n + 1
  PROVE  LET r == EnqueueImportant(q, e) IN
         /\ r.dropped \in {0, 1} /\ r.coalesced \in {0, 1} /\ r.evicted \in {0, 1}
         /\ GoodQueue(r.queue, n + 1)
         /\ Len(r.queue) <= Capacity
         /\ r.dropped + r.coalesced + Len(r.queue) = Len(q) + 1
         /\ KeepsImportant(q, r.queue)
         /\ \/ \E j \in 1..Len(r.queue) : r.queue[j] = e
            \/ Len(q) = Capacity /\ \A i \in 1..Len(q) : Important(q[i])
<1> DEFINE k == LowestPriorityIndex(q)
           s == RemoveAt(q, k)
<1>1. q \in Seq(Entry) /\ Len(q) \in Nat /\ Capacity \in Nat /\ Capacity > 0
  BY LenProperties, QueueAssumption DEF GoodQueue
<1>2. CASE Len(q) < Capacity
  <2>1. EnqueueImportant(q, e) = Kept(Inserted(q, e))
    BY <1>2 DEF EnqueueImportant
  <2>2. /\ GoodQueue(Inserted(q, e), n + 1) /\ Len(Inserted(q, e)) = Len(q) + 1
        /\ KeepsImportant(q, Inserted(q, e))
        /\ \E j \in 1..Len(Inserted(q, e)) : Inserted(q, e)[j] = e
    BY InsertedIsGood
  <2> QED BY <1>1, <1>2, <2>1, <2>2 DEF Kept
<1>3. CASE Len(q) = Capacity /\ k = 0
  <2>1. EnqueueImportant(q, e) = Dropped(q)
    BY <1>1, <1>3 DEF EnqueueImportant
  <2>2. \A i \in 1..Len(q) : Important(q[i])
    BY <1>1, <1>3, LowestPriorityProperties
  <2>3. GoodQueue(q, n + 1)
    <3>1. \A i \in 1..Len(q) : q[i].payload \in Nat
      BY <1>1, ElementOfSeq DEF Entry
    <3> QED BY <3>1 DEF GoodQueue
  <2>4. KeepsImportant(q, q)
    BY DEF KeepsImportant
  <2> QED BY <1>1, <1>3, <2>1, <2>2, <2>3, <2>4 DEF Dropped
<1>4. CASE Len(q) = Capacity /\ k # 0
  <2>1. EnqueueImportant(q, e) = Evicted(Inserted(s, e))
    BY <1>1, <1>4 DEF EnqueueImportant
  <2>2. k \in 1..Len(q) /\ ~ Important(q[k])
    BY <1>1, <1>4, LowestPriorityProperties
  <2>3. GoodQueue(s, n) /\ Len(s) = Len(q) - 1 /\ KeepsImportant(q, s)
    BY <2>2, RemovedIsGood
  <2>4. /\ GoodQueue(Inserted(s, e), n + 1) /\ Len(Inserted(s, e)) = Len(s) + 1
        /\ KeepsImportant(s, Inserted(s, e))
        /\ \E j \in 1..Len(Inserted(s, e)) : Inserted(s, e)[j] = e
    BY <2>3, InsertedIsGood
  <2>5. KeepsImportant(q, Inserted(s, e))
    <3> DEFINE r == Inserted(s, e)
    <3> HIDE DEF r, s
    <3>1. KeepsImportant(q, s) /\ KeepsImportant(s, r)
      BY <2>3, <2>4 DEF r
    <3>2. ASSUME NEW i \in 1..Len(q), Important(q[i])
          PROVE  \E j \in 1..Len(r) : r[j] = q[i]
      <4>1. PICK h \in 1..Len(s) : s[h] = q[i]
        BY <3>1, <3>2 DEF KeepsImportant
      <4> QED BY <3>1, <3>2, <4>1 DEF KeepsImportant
    <3>3. ASSUME q # <<>>, Important(q[1])
          PROVE  r # <<>> /\ r[1] = q[1]
      BY <3>1, <3>3 DEF KeepsImportant
    <3> QED BY <3>2, <3>3 DEF KeepsImportant, r
  <2> QED BY <1>1, <1>4, <2>1, <2>3, <2>4, <2>5 DEF Evicted
<1> QED BY <1>1, <1>2, <1>3, <1>4

\* enqueue for telemetry: the bound holds, the call is accounted for, and no
\* important entry is replaced, moved or lost.
LEMMA EnqueueTelemetryIsGood ==
  ASSUME NEW n \in Nat, NEW q, GoodQueue(q, n), Len(q) <= Capacity,
         NEW e \in Entry, ~ Important(e), e.payload = n + 1
  PROVE  LET r == EnqueueTelemetry(q, e) IN
         /\ r.dropped \in {0, 1} /\ r.coalesced \in {0, 1} /\ r.evicted \in {0, 1}
         /\ GoodQueue(r.queue, n + 1)
         /\ Len(r.queue) <= Capacity
         /\ r.dropped + r.coalesced + Len(r.queue) = Len(q) + 1
         /\ KeepsImportant(q, r.queue)
         /\ q # <<>> => r.queue # <<>>
<1> DEFINE P == CoalescePositions(q, e.topic)
<1>1. /\ q \in Seq(Entry) /\ Len(q) \in Nat /\ DOMAIN q = 1..Len(q)
      /\ Capacity \in Nat /\ Capacity > 0
  BY LenProperties, QueueAssumption DEF GoodQueue
<1>2. \A i \in 1..Len(q) : q[i] \in Entry /\ q[i].payload \in Nat /\ q[i].payload <= n
  BY <1>1, ElementOfSeq DEF GoodQueue, Entry
<1>3. CASE P # {}
  <2> DEFINE k == Max(P)
             r == [q EXCEPT ![k] = e]
  <2>1. P \in SUBSET (0..Len(q)) /\ P \in SUBSET (1..Len(q))
    BY <1>1 DEF CoalescePositions
  <2>2. k \in P
    BY <1>1, <1>3, <2>1, MaxExists
  <2>3. k \in 1..Len(q) /\ q[k].topic = e.topic
    BY <2>1, <2>2 DEF CoalescePositions
  <2>4. ~ Important(q[k])
    BY <1>2, <2>3 DEF Entry, Important
  <2>5. EnqueueTelemetry(q, e) = Coalesced(r)
    BY <1>3 DEF EnqueueTelemetry
  <2>6. /\ r \in Seq(Entry) /\ Len(r) = Len(q)
        /\ \A j \in 1..Len(q) : r[j] = IF j = k THEN e ELSE q[j]
    BY <1>1, <2>3, ExceptSeq
  <2>7. DOMAIN r = 1..Len(q)
    BY <2>6, LenProperties
  <2> HIDE DEF k, r
  <2>8. Ordered(r)
    BY <1>1, <2>3, <2>4, <2>6, <2>7 DEF GoodQueue, Ordered
  <2>9. \A i \in 1..Len(r) : r[i].payload <= n + 1
    BY <1>2, <2>6
  <2>10. KeepsImportant(q, r)
    <3>1. ASSUME NEW i \in 1..Len(q), Important(q[i])
          PROVE  i \in 1..Len(r) /\ r[i] = q[i]
      BY <2>4, <2>6, <3>1
    <3>2. ASSUME q # <<>>, Important(q[1])
          PROVE  r # <<>> /\ r[1] = q[1]
      BY <1>1, <2>6, <3>1, <3>2, EmptySeq
    <3> QED BY <3>1, <3>2 DEF KeepsImportant
  <2>11. q # <<>> => r # <<>>
    BY <1>1, <2>6, EmptySeq
  <2> QED BY <1>1, <2>5, <2>6, <2>8, <2>9, <2>10, <2>11 DEF Coalesced, GoodQueue
<1>4. CASE P = {} /\ Len(q) >= Capacity
  <2>1. EnqueueTelemetry(q, e) = Dropped(q)
    BY <1>4 DEF EnqueueTelemetry
  <2>2. GoodQueue(q, n + 1)
    BY <1>1, <1>2 DEF GoodQueue
  <2>3. KeepsImportant(q, q)
    BY DEF KeepsImportant
  <2> QED BY <1>1, <2>1, <2>2, <2>3 DEF Dropped
<1>5. CASE P = {} /\ ~ (Len(q) >= Capacity)
  <2> DEFINE r == Append(q, e)
  <2>1. EnqueueTelemetry(q, e) = Kept(r)
    BY <1>5 DEF EnqueueTelemetry
  <2>2. /\ r \in Seq(Entry) /\ r # <<>> /\ Len(r) = Len(q) + 1
        /\ \A i \in 1..Len(q) : r[i] = q[i]
        /\ r[Len(q) + 1] = e
    BY <1>1, AppendProperties
  <2>3. DOMAIN r = 1..(Len(q) + 1)
    BY <2>2, LenProperties
  <2> HIDE DEF r
  <2>4. Ordered(r)
    <3>1. SUFFICES ASSUME NEW i \in 1..(Len(q) + 1), NEW j \in 1..(Len(q) + 1), i < j,
                          Important(r[j])
                   PROVE  Important(r[i]) /\ r[i].payload < r[j].payload
      BY <2>3 DEF Ordered
    <3>2. j \in 1..Len(q) /\ i \in 1..Len(q)
      BY <1>1, <2>2, <3>1
    <3> QED BY <1>1, <2>2, <3>1, <3>2 DEF GoodQueue, Ordered
  <2>5. \A i \in 1..Len(r) : r[i].payload <= n + 1
    <3> TAKE i \in 1..Len(r)
    <3>1. CASE i = Len(q) + 1
      BY <2>2, <3>1
    <3>2. CASE i # Len(q) + 1
      <4>1. i \in 1..Len(q) /\ r[i] = q[i]
        BY <1>1, <2>2, <3>2
      <4> QED BY <1>2, <4>1
    <3> QED BY <3>1, <3>2
  <2>6. KeepsImportant(q, r)
    <3>1. ASSUME NEW i \in 1..Len(q)
          PROVE  i \in 1..Len(r) /\ r[i] = q[i]
      BY <1>1, <2>2
    <3>2. q # <<>> => 1 \in 1..Len(q)
      BY <1>1, EmptySeq
    <3> QED BY <2>2, <3>1, <3>2 DEF KeepsImportant
  <2> QED BY <1>1, <1>5, <2>1, <2>2, <2>4, <2>5, <2>6 DEF Kept, GoodQueue
<1> QED BY <1>3, <1>4, <1>5

-----------------------------------------------------------------------------
(* One value per topic. *)

\* At most one entry of a topic waits, unless it is important.
Single(q) ==
    \A i, j \in 1..Len(q) : q[i].topic = q[j].topic /\ ~ Important(q[i]) => i = j

\* r holds nothing but e and what q holds.
Only(q, r, e) == \A i \in 1..Len(r) : r[i] = e \/ \E j \in 1..Len(q) : r[i] = q[j]

\* The topic of an entry tells whether it is important.
LEMMA TopicTellsImportance ==
  ASSUME NEW a \in Entry, NEW b \in Entry, a.topic = b.topic
  PROVE  Important(a) <=> Important(b)
BY DEF Entry, Important

\* An important entry shares no topic with telemetry.
LEMMA InsertedIsSingle ==
  ASSUME NEW q \in Seq(Entry), Single(q), NEW e \in Entry, Important(e)
  PROVE  Single(Inserted(q, e)) /\ Only(q, Inserted(q, e), e)
<1> DEFINE k == InsertionPoint(q)
           r == Inserted(q, e)
<1>1. q \in Seq(Entry) /\ k \in 1..(Len(q) + 1) /\ Len(q) \in Nat
  BY InsertionPointProperties
<1>2. /\ r \in Seq(Entry) /\ Len(r) = Len(q) + 1
      /\ \A i \in 1..(Len(q) + 1) :
            r[i] = IF i < k THEN q[i] ELSE IF i = k THEN e ELSE q[i - 1]
  BY <1>1, InsertedProperties
<1> DEFINE old(i) == IF i < k THEN i ELSE i - 1
<1> HIDE DEF k, r
<1>3. \A i \in 1..Len(r) : i # k => old(i) \in 1..Len(q) /\ r[i] = q[old(i)]
  BY <1>1, <1>2
<1>4. Only(q, r, e)
  BY <1>2, <1>3 DEF Only
<1>5. ASSUME NEW i \in 1..Len(r), NEW j \in 1..Len(r), r[i].topic = r[j].topic, ~ Important(r[i])
      PROVE  i = j
  <2>1. r[i] \in Entry /\ r[j] \in Entry
    BY <1>2, ElementOfSeq
  <2>2. i # k /\ j # k
    BY <1>1, <1>2, <1>5, <2>1, TopicTellsImportance
  <2>3. old(i) \in 1..Len(q) /\ old(j) \in 1..Len(q) /\ r[i] = q[old(i)] /\ r[j] = q[old(j)]
    BY <1>3, <2>2
  <2>4. old(i) = old(j)
    BY <1>5, <2>3 DEF Single
  <2> QED BY <1>1, <2>2, <2>4
<1> QED BY <1>4, <1>5 DEF Single, r

\* Taking an entry out leaves each topic with no more than it had.
LEMMA RemovedIsSingle ==
  ASSUME NEW q \in Seq(Entry), Single(q), NEW k \in 1..Len(q), NEW e
  PROVE  Single(RemoveAt(q, k)) /\ Only(q, RemoveAt(q, k), e)
<1> DEFINE r == RemoveAt(q, k)
           old(i) == IF i < k THEN i ELSE i + 1
<1>1. /\ r \in Seq(Entry) /\ Len(r) = Len(q) - 1 /\ Len(q) \in Nat
      /\ \A i \in 1..(Len(q) - 1) : r[i] = IF i < k THEN q[i] ELSE q[i + 1]
  BY RemoveAtProperties
<1> HIDE DEF r
<1>2. \A i \in 1..Len(r) : old(i) \in 1..Len(q) /\ r[i] = q[old(i)]
  BY <1>1
<1>3. ASSUME NEW i \in 1..Len(r), NEW j \in 1..Len(r), r[i].topic = r[j].topic, ~ Important(r[i])
      PROVE  i = j
  <2>1. old(i) = old(j)
    BY <1>2, <1>3 DEF Single
  <2> QED BY <2>1
<1> QED BY <1>2, <1>3 DEF Single, Only, r

\* _enqueue_important adds no second value to a telemetry topic and makes nothing up.
LEMMA EnqueueImportantIsSingle ==
  ASSUME NEW q \in Seq(Entry), Single(q), NEW e \in Entry, Important(e)
  PROVE  LET r == EnqueueImportant(q, e).queue IN Single(r) /\ Only(q, r, e)
<1> DEFINE k == LowestPriorityIndex(q)
           s == RemoveAt(q, k)
<1>1. CASE Len(q) < Capacity
  BY <1>1, InsertedIsSingle DEF EnqueueImportant, Kept
<1>2. CASE ~ (Len(q) < Capacity) /\ k = 0
  BY <1>2 DEF EnqueueImportant, Dropped, Only
<1>3. CASE ~ (Len(q) < Capacity) /\ k # 0
  <2>1. EnqueueImportant(q, e).queue = Inserted(s, e)
    BY <1>3 DEF EnqueueImportant, Evicted
  <2>2. k \in 1..Len(q)
    BY <1>3, LowestPriorityProperties
  <2> HIDE DEF k
  <2>3. s \in Seq(Entry) /\ Single(s) /\ Only(q, s, e)
    BY <2>2, RemoveAtProperties, RemovedIsSingle
  <2> HIDE DEF s
  <2>4. Single(Inserted(s, e)) /\ Only(s, Inserted(s, e), e)
    BY <2>3, InsertedIsSingle
  <2> QED BY <2>1, <2>3, <2>4 DEF Only
<1> QED BY <1>1, <1>2, <1>3

\* enqueue for telemetry replaces the value of its topic, or finds none.
LEMMA EnqueueTelemetryIsSingle ==
  ASSUME NEW q \in Seq(Entry), Single(q), NEW e \in Entry, ~ Important(e)
  PROVE  LET r == EnqueueTelemetry(q, e).queue IN Single(r) /\ Only(q, r, e)
<1> DEFINE P == CoalescePositions(q, e.topic)
<1>1. /\ Len(q) \in Nat /\ DOMAIN q = 1..Len(q)
      /\ \A i \in 1..Len(q) : q[i] \in Entry
  BY LenProperties, ElementOfSeq
<1>2. CASE P # {}
  <2> DEFINE k == Max(P)
             r == [q EXCEPT ![k] = e]
  <2>1. P \in SUBSET (0..Len(q)) /\ P \in SUBSET (1..Len(q))
    BY <1>1 DEF CoalescePositions
  <2>2. k \in P
    BY <1>1, <1>2, <2>1, MaxExists
  <2>3. k \in 1..Len(q) /\ q[k].topic = e.topic
    BY <2>1, <2>2 DEF CoalescePositions
  <2>4. EnqueueTelemetry(q, e).queue = r
    BY <1>2 DEF EnqueueTelemetry, Coalesced
  <2>5. /\ r \in Seq(Entry) /\ Len(r) = Len(q)
        /\ \A j \in 1..Len(q) : r[j] = IF j = k THEN e ELSE q[j]
    BY <1>1, <2>3, ExceptSeq
  <2> HIDE DEF k, r
  <2>6. \A i \in 1..Len(q) : r[i].topic = q[i].topic /\ (Important(r[i]) <=> Important(q[i]))
    BY <1>1, <2>3, <2>5, TopicTellsImportance
  <2>7. Single(r)
    BY <2>5, <2>6 DEF Single
  <2>8. Only(q, r, e)
    BY <2>5 DEF Only
  <2> QED BY <2>4, <2>7, <2>8
<1>3. CASE P = {} /\ Len(q) >= Capacity
  BY <1>3 DEF EnqueueTelemetry, Dropped, Only
<1>4. CASE P = {} /\ ~ (Len(q) >= Capacity)
  <2> DEFINE r == Append(q, e)
  <2>1. EnqueueTelemetry(q, e).queue = r
    BY <1>4 DEF EnqueueTelemetry, Kept
  <2>2. /\ r \in Seq(Entry) /\ Len(r) = Len(q) + 1
        /\ \A i \in 1..Len(q) : r[i] = q[i]
        /\ r[Len(q) + 1] = e
    BY <1>1, AppendProperties
  <2> HIDE DEF r
  <2>3. \A i \in 1..Len(q) : q[i].topic # e.topic
    <3>1. SUFFICES ASSUME NEW i \in 1..Len(q), q[i].topic = e.topic PROVE FALSE
      OBVIOUS
    <3>2. ~ Important(q[i])
      BY <1>1, <3>1, TopicTellsImportance
    <3>3. i \in P
      BY <1>1, <3>1, <3>2 DEF CoalescePositions, Important, ImportantKinds
    <3> QED BY <1>4, <3>3
  <2>4. Single(r)
    <3>1. SUFFICES ASSUME NEW i \in 1..Len(r), NEW j \in 1..Len(r), r[i].topic = r[j].topic,
                          ~ Important(r[i])
                   PROVE  i = j
      BY DEF Single
    <3>2. \A l \in 1..Len(r) : l = Len(q) + 1 \/ (l \in 1..Len(q) /\ r[l] = q[l])
      BY <1>1, <2>2
    <3> QED BY <1>1, <2>2, <2>3, <3>1, <3>2 DEF Single
  <2>5. Only(q, r, e)
    BY <1>1, <2>2 DEF Only
  <2> QED BY <2>1, <2>4, <2>5
<1> QED BY <1>2, <1>3, <1>4

-----------------------------------------------------------------------------
(* Values of a topic in the order of their measurement. *)

\* Nothing in s is newer than what q holds of its topic.
Newer(s, q) ==
    \A i \in 1..Len(s), j \in 1..Len(q) :
        s[i].topic = q[j].topic => s[i].payload <= q[j].payload

\* Nothing in s is newer than arrival n.
UpTo(s, n) == \A i \in 1..Len(s) : s[i].payload <= n

\* An arrival is newer than everything before it, whatever else a call removes.
LEMMA ArrivalIsNewer ==
  ASSUME NEW n \in Nat, NEW s \in Seq(Entry), NEW q \in Seq(Entry), NEW r \in Seq(Entry),
         NEW e \in Entry, e.payload = n + 1, Newer(s, q), UpTo(s, n), Only(q, r, e)
  PROVE  Newer(s, r) /\ UpTo(s, n + 1)
<1>1. \A i \in 1..Len(s) : s[i].payload \in Nat /\ s[i].payload <= n
  BY ElementOfSeq DEF Entry, UpTo
<1>2. ASSUME NEW i \in 1..Len(s), NEW j \in 1..Len(r), s[i].topic = r[j].topic
      PROVE  s[i].payload <= r[j].payload
  <2>1. CASE r[j] = e
    BY <1>1, <2>1
  <2>2. CASE r[j] # e
    <3>1. PICK h \in 1..Len(q) : r[j] = q[h]
      BY <2>2 DEF Only
    <3> QED BY <1>2, <3>1 DEF Newer
  <2> QED BY <2>1, <2>2
<1>3. UpTo(s, n + 1)
  BY <1>1 DEF UpTo
<1> QED BY <1>2, <1>3 DEF Newer

\* The head of the queue is the oldest of its topic: telemetry waits alone, and
\* events and responses wait in the order of their arrival.
LEMMA HeadIsOldest ==
  ASSUME NEW n \in Nat, NEW q, GoodQueue(q, n), Single(q), q # <<>>
  PROVE  \A j \in 1..Len(q) : q[1].topic = q[j].topic => q[1].payload <= q[j].payload
<1>1. /\ q \in Seq(Entry) /\ Len(q) \in Nat /\ DOMAIN q = 1..Len(q) /\ 1 \in 1..Len(q)
  BY LenProperties, EmptySeq DEF GoodQueue
<1>2. \A i \in 1..Len(q) : q[i] \in Entry /\ q[i].payload \in Nat
  BY <1>1, ElementOfSeq DEF Entry
<1>3. ASSUME NEW j \in 1..Len(q), q[1].topic = q[j].topic
      PROVE  q[1].payload <= q[j].payload
  <2>1. CASE Important(q[j])
    <3>1. j # 1 => q[1].payload < q[j].payload
      BY <1>1, <2>1 DEF GoodQueue, Ordered
    <3> QED BY <1>1, <1>2, <3>1
  <2>2. CASE ~ Important(q[j])
    <3>1. ~ Important(q[1])
      BY <1>1, <1>2, <1>3, <2>2, TopicTellsImportance
    <3>2. j = 1
      BY <1>1, <1>3, <3>1 DEF Single
    <3> QED BY <1>1, <1>2, <3>2
  <2> QED BY <2>1, <2>2
<1> QED BY <1>3

\* What follows the head of a queue keeps its order.
LEMMA TailKeepsOrder ==
  ASSUME NEW q \in Seq(Entry), q # <<>>, Single(q), NEW s, Newer(s, q)
  PROVE  Single(Tail(q)) /\ Newer(s, Tail(q)) /\ Newer(s, <<Head(q)>>)
<1> DEFINE r == Tail(q)
<1>1. /\ r \in Seq(Entry) /\ Len(r) = Len(q) - 1 /\ Len(q) \in Nat /\ 1 \in 1..Len(q)
      /\ \A i \in 1..Len(r) : r[i] = q[i + 1]
      /\ Head(q) = q[1]
  BY HeadTailProperties, LenProperties, EmptySeq
<1>2. Len(<<Head(q)>>) = 1 /\ <<Head(q)>>[1] = q[1]
  BY <1>1
<1> HIDE DEF r
<1>3. \A i \in 1..Len(r) : i + 1 \in 1..Len(q) /\ r[i] = q[i + 1]
  BY <1>1
<1>4. Single(r)
  <2>1. SUFFICES ASSUME NEW i \in 1..Len(r), NEW j \in 1..Len(r), r[i].topic = r[j].topic,
                        ~ Important(r[i])
                 PROVE  i = j
    BY DEF Single
  <2>2. i + 1 = j + 1
    BY <1>3, <2>1 DEF Single
  <2> QED BY <2>2
<1>5. Newer(s, r)
  BY <1>3 DEF Newer
<1>6. Newer(s, <<Head(q)>>)
  BY <1>1, <1>2 DEF Newer
<1> QED BY <1>4, <1>5, <1>6 DEF r

-----------------------------------------------------------------------------
(* What a call keeps and what it gives up. *)

\* No message waits twice.
Distinct(q) == \A i, j \in 1..Len(q) : q[i].payload = q[j].payload => i = j

\* Of what q holds and p, r keeps all and c is 0, or it keeps all but one and c is 1.
GivesUp(q, p, r, c) ==
    \/ c = 0 /\ Payloads(r) = Payloads(q) \cup {p}
    \/ c = 1 /\ \E x \in Payloads(q) \cup {p} : Payloads(r) = (Payloads(q) \cup {p}) \ {x}

\* The payloads of a sequence, by its positions.
LEMMA PayloadsOf ==
  ASSUME NEW q \in Seq(Entry)
  PROVE  \A v : v \in Payloads(q) <=> \E i \in 1..Len(q) : q[i].payload = v
<1>1. DOMAIN q = 1..Len(q)
  BY LenProperties
<1> QED BY <1>1 DEF Payloads

\* A message that has come to no queue yet is not in it.
LEMMA ArrivalIsNew ==
  ASSUME NEW n \in Nat, NEW q, GoodQueue(q, n)
  PROVE  n + 1 \notin Payloads(q)
<1>1. \A i \in 1..Len(q) : q[i].payload \in Nat /\ q[i].payload <= n
  BY ElementOfSeq DEF GoodQueue, Entry
<1>2. \A i \in 1..Len(q) : q[i].payload # n + 1
  BY <1>1
<1> QED BY <1>2, PayloadsOf DEF GoodQueue

\* Inserting keeps all.
LEMMA InsertedKeepsAll ==
  ASSUME NEW q \in Seq(Entry), Distinct(q), NEW e \in Entry, e.payload \notin Payloads(q)
  PROVE  /\ Distinct(Inserted(q, e))
         /\ Payloads(Inserted(q, e)) = Payloads(q) \cup {e.payload}
<1> DEFINE k == InsertionPoint(q)
           r == Inserted(q, e)
           old(i) == IF i < k THEN i ELSE i - 1
           new(i) == IF i < k THEN i ELSE i + 1
<1>1. k \in 1..(Len(q) + 1) /\ Len(q) \in Nat
  BY InsertionPointProperties
<1>2. /\ r \in Seq(Entry) /\ Len(r) = Len(q) + 1
      /\ \A i \in 1..(Len(q) + 1) :
            r[i] = IF i < k THEN q[i] ELSE IF i = k THEN e ELSE q[i - 1]
  BY <1>1, InsertedProperties
<1> HIDE DEF k, r
<1>3. \A i \in 1..Len(r) : i # k => old(i) \in 1..Len(q) /\ r[i] = q[old(i)]
  BY <1>1, <1>2
<1>4. \A i \in 1..Len(q) : new(i) \in 1..Len(r) /\ r[new(i)] = q[i]
  BY <1>1, <1>2
<1>5. k \in 1..Len(r) /\ r[k] = e
  BY <1>1, <1>2
<1>6. \A i \in 1..Len(q) : q[i].payload # e.payload
  BY PayloadsOf
<1>7. ASSUME NEW i \in 1..Len(r), NEW j \in 1..Len(r), r[i].payload = r[j].payload
      PROVE  i = j
  <2>1. CASE i # k /\ j # k
    <3>1. old(i) = old(j)
      BY <1>3, <1>7, <2>1 DEF Distinct
    <3> QED BY <1>1, <2>1, <3>1
  <2> HIDE DEF old, new
  <2>2. ASSUME NEW m \in 1..Len(r), m # k
        PROVE  r[m].payload # r[k].payload
    <3>1. old(m) \in 1..Len(q) /\ r[m] = q[old(m)]
      BY <1>3, <2>2
    <3> QED BY <1>5, <1>6, <3>1
  <2>3. i = k <=> j = k
    BY <1>5, <1>7, <2>2
  <2> QED BY <2>1, <2>3
<1>8. ASSUME NEW v
      PROVE  v \in Payloads(r) <=> v \in Payloads(q) \/ v = e.payload
  <2>1. v \in Payloads(r) <=> \E i \in 1..Len(r) : r[i].payload = v
    BY <1>2, PayloadsOf
  <2>2. v \in Payloads(q) <=> \E i \in 1..Len(q) : q[i].payload = v
    BY PayloadsOf
  <2> HIDE DEF old, new
  <2>3. v \in Payloads(q) => v \in Payloads(r)
    BY <1>4, <2>1, <2>2
  <2>4. v \in Payloads(r) => v \in Payloads(q) \/ v = e.payload
    BY <1>3, <1>5, <2>1, <2>2
  <2>5. e.payload \in Payloads(r)
    BY <1>2, <1>5, PayloadsOf
  <2> QED BY <2>3, <2>4, <2>5
<1>9. Payloads(r) = Payloads(q) \cup {e.payload}
  BY <1>8
<1> QED BY <1>7, <1>9 DEF Distinct, r

\* Removing gives up one.
LEMMA RemovedGivesUpOne ==
  ASSUME NEW q \in Seq(Entry), Distinct(q), NEW k \in 1..Len(q)
  PROVE  /\ Distinct(RemoveAt(q, k))
         /\ Payloads(RemoveAt(q, k)) = Payloads(q) \ {q[k].payload}
<1> DEFINE r == RemoveAt(q, k)
           old(i) == IF i < k THEN i ELSE i + 1
           new(i) == IF i < k THEN i ELSE i - 1
<1>1. /\ r \in Seq(Entry) /\ Len(r) = Len(q) - 1 /\ Len(q) \in Nat
      /\ \A i \in 1..(Len(q) - 1) : r[i] = IF i < k THEN q[i] ELSE q[i + 1]
  BY RemoveAtProperties
<1> HIDE DEF r
<1>2. \A i \in 1..Len(r) : old(i) \in 1..Len(q) /\ old(i) # k /\ r[i] = q[old(i)]
  BY <1>1
<1>3. \A i \in 1..Len(q) : i # k => new(i) \in 1..Len(r) /\ r[new(i)] = q[i]
  BY <1>1
<1>4. ASSUME NEW i \in 1..Len(r), NEW j \in 1..Len(r), r[i].payload = r[j].payload
      PROVE  i = j
  <2>1. old(i) = old(j)
    BY <1>2, <1>4 DEF Distinct
  <2> QED BY <2>1
<1> HIDE DEF old, new
<1>5. ASSUME NEW v
      PROVE  v \in Payloads(r) <=> v \in Payloads(q) /\ v # q[k].payload
  <2>1. v \in Payloads(r) <=> \E i \in 1..Len(r) : r[i].payload = v
    BY <1>1, PayloadsOf
  <2>2. v \in Payloads(q) <=> \E i \in 1..Len(q) : q[i].payload = v
    BY PayloadsOf
  <2>3. v \in Payloads(q) /\ v # q[k].payload => v \in Payloads(r)
    BY <1>3, <2>1, <2>2
  <2>4. v \in Payloads(r) => v \in Payloads(q) /\ v # q[k].payload
    BY <1>2, <2>1, <2>2 DEF Distinct
  <2> QED BY <2>3, <2>4
<1>6. Payloads(r) = Payloads(q) \ {q[k].payload}
  BY <1>5
<1> QED BY <1>4, <1>6 DEF Distinct, r

\* Appending is inserting at the end; replacing gives up what was there.
LEMMA AppendedKeepsAll ==
  ASSUME NEW q \in Seq(Entry), Distinct(q), NEW e \in Entry, e.payload \notin Payloads(q)
  PROVE  /\ Distinct(Append(q, e))
         /\ Payloads(Append(q, e)) = Payloads(q) \cup {e.payload}
<1> DEFINE r == Append(q, e)
<1>1. /\ r \in Seq(Entry) /\ Len(r) = Len(q) + 1 /\ Len(q) \in Nat
      /\ \A i \in 1..Len(q) : r[i] = q[i]
      /\ r[Len(q) + 1] = e
  BY AppendProperties, LenProperties
<1> HIDE DEF r
<1>2. \A i \in 1..Len(r) : (i \in 1..Len(q) /\ r[i] = q[i]) \/ (i = Len(q) + 1 /\ r[i] = e)
  BY <1>1
<1>3. \A i \in 1..Len(q) : i \in 1..Len(r) /\ q[i].payload # e.payload
  BY <1>1, PayloadsOf
<1>4. Distinct(r)
  BY <1>2, <1>3 DEF Distinct
<1>5. ASSUME NEW v
      PROVE  v \in Payloads(r) <=> v \in Payloads(q) \/ v = e.payload
  <2>1. v \in Payloads(r) <=> \E i \in 1..Len(r) : r[i].payload = v
    BY <1>1, PayloadsOf
  <2>2. v \in Payloads(q) <=> \E i \in 1..Len(q) : q[i].payload = v
    BY PayloadsOf
  <2>3. Len(q) + 1 \in 1..Len(r)
    BY <1>1
  <2> QED BY <1>1, <1>2, <1>3, <2>1, <2>2, <2>3
<1>6. Payloads(r) = Payloads(q) \cup {e.payload}
  BY <1>5
<1> QED BY <1>4, <1>6 DEF r

LEMMA ReplacedGivesUpOne ==
  ASSUME NEW q \in Seq(Entry), Distinct(q), NEW e \in Entry, e.payload \notin Payloads(q),
         NEW k \in 1..Len(q)
  PROVE  /\ Distinct([q EXCEPT ![k] = e])
         /\ Payloads([q EXCEPT ![k] = e]) = (Payloads(q) \cup {e.payload}) \ {q[k].payload}
<1> DEFINE r == [q EXCEPT ![k] = e]
<1>1. /\ r \in Seq(Entry) /\ Len(r) = Len(q)
      /\ \A i \in 1..Len(q) : r[i] = IF i = k THEN e ELSE q[i]
  BY ExceptSeq
<1> HIDE DEF r
<1>2. \A i \in 1..Len(q) : q[i].payload # e.payload
  BY PayloadsOf
<1>3. Distinct(r)
  BY <1>1, <1>2 DEF Distinct
<1>4. ASSUME NEW v
      PROVE  v \in Payloads(r) <=> (v \in Payloads(q) \/ v = e.payload) /\ v # q[k].payload
  <2>1. v \in Payloads(r) <=> \E i \in 1..Len(r) : r[i].payload = v
    BY <1>1, PayloadsOf
  <2>2. v \in Payloads(q) <=> \E i \in 1..Len(q) : q[i].payload = v
    BY PayloadsOf
  <2>3. v \in Payloads(r) => (v \in Payloads(q) \/ v = e.payload) /\ v # q[k].payload
    BY <1>1, <1>2, <2>1, <2>2 DEF Distinct
  <2>4. v \in Payloads(q) /\ v # q[k].payload => v \in Payloads(r)
    BY <1>1, <2>1, <2>2
  <2>5. e.payload \in Payloads(r)
    BY <1>1, PayloadsOf
  <2> QED BY <2>3, <2>4, <2>5
<1>5. Payloads(r) = (Payloads(q) \cup {e.payload}) \ {q[k].payload}
  BY <1>4
<1> QED BY <1>3, <1>5 DEF r

\* An important message makes room by giving up one counted message, or is refused and counted.
LEMMA EnqueueImportantGivesUp ==
  ASSUME NEW q \in Seq(Entry), Distinct(q), NEW e \in Entry, e.payload \notin Payloads(q)
  PROVE  LET r == EnqueueImportant(q, e) IN
         Distinct(r.queue) /\ GivesUp(q, e.payload, r.queue, r.dropped + r.coalesced)
<1> DEFINE k == LowestPriorityIndex(q)
           s == RemoveAt(q, k)
           r == EnqueueImportant(q, e)
<1>1. CASE Len(q) < Capacity
  <2>1. r.queue = Inserted(q, e) /\ r.dropped + r.coalesced = 0
    BY <1>1 DEF EnqueueImportant, Kept
  <2> HIDE DEF r
  <2>2. Distinct(r.queue) /\ Payloads(r.queue) = Payloads(q) \cup {e.payload}
    BY <2>1, InsertedKeepsAll
  <2>3. GivesUp(q, e.payload, r.queue, r.dropped + r.coalesced)
    BY <2>1, <2>2 DEF GivesUp
  <2> QED BY <2>2, <2>3 DEF r
<1>2. CASE ~ (Len(q) < Capacity) /\ k = 0
  <2>1. r.queue = q /\ r.dropped + r.coalesced = 1
    BY <1>2 DEF EnqueueImportant, Dropped
  <2> HIDE DEF r
  <2>2. Payloads(q) = (Payloads(q) \cup {e.payload}) \ {e.payload}
    OBVIOUS
  <2>3. GivesUp(q, e.payload, r.queue, r.dropped + r.coalesced)
    BY <2>1, <2>2 DEF GivesUp
  <2> QED BY <2>1, <2>3 DEF r
<1>3. CASE ~ (Len(q) < Capacity) /\ k # 0
  <2>1. r.queue = Inserted(s, e) /\ r.dropped + r.coalesced = 1
    BY <1>3 DEF EnqueueImportant, Evicted
  <2>2. k \in 1..Len(q)
    BY <1>3, LowestPriorityProperties
  <2> HIDE DEF k, r
  <2>3. s \in Seq(Entry) /\ Distinct(s) /\ Payloads(s) = Payloads(q) \ {q[k].payload}
    BY <2>2, RemoveAtProperties, RemovedGivesUpOne
  <2> HIDE DEF s
  <2>4. Distinct(r.queue) /\ Payloads(r.queue) = Payloads(s) \cup {e.payload}
    BY <2>1, <2>3, InsertedKeepsAll
  <2>5. q[k].payload \in Payloads(q) /\ q[k].payload # e.payload
    BY <2>2, PayloadsOf
  <2>6. Payloads(r.queue) = (Payloads(q) \cup {e.payload}) \ {q[k].payload}
    BY <2>3, <2>4, <2>5
  <2>7. GivesUp(q, e.payload, r.queue, r.dropped + r.coalesced)
    BY <2>1, <2>5, <2>6 DEF GivesUp
  <2> QED BY <2>4, <2>7 DEF r
<1> QED BY <1>1, <1>2, <1>3

\* Telemetry takes the place of one counted value, is refused and counted, or is appended.
LEMMA EnqueueTelemetryGivesUp ==
  ASSUME NEW q \in Seq(Entry), Distinct(q), NEW e \in Entry, e.payload \notin Payloads(q)
  PROVE  LET r == EnqueueTelemetry(q, e) IN
         Distinct(r.queue) /\ GivesUp(q, e.payload, r.queue, r.dropped + r.coalesced)
<1> DEFINE P == CoalescePositions(q, e.topic)
           r == EnqueueTelemetry(q, e)
<1>1. Len(q) \in Nat /\ DOMAIN q = 1..Len(q)
  BY LenProperties
<1>2. CASE P # {}
  <2> DEFINE k == Max(P)
  <2>1. P \in SUBSET (0..Len(q)) /\ P \in SUBSET (1..Len(q))
    BY <1>1 DEF CoalescePositions
  <2>2. k \in 1..Len(q)
    BY <1>1, <1>2, <2>1, MaxExists
  <2>3. r.queue = [q EXCEPT ![k] = e] /\ r.dropped + r.coalesced = 1
    BY <1>2 DEF EnqueueTelemetry, Coalesced
  <2> HIDE DEF k, r
  <2>4. /\ Distinct([q EXCEPT ![k] = e])
        /\ Payloads([q EXCEPT ![k] = e]) = (Payloads(q) \cup {e.payload}) \ {q[k].payload}
    BY <2>2, ReplacedGivesUpOne
  <2>5. q[k].payload \in Payloads(q)
    BY <2>2, PayloadsOf
  <2>6. GivesUp(q, e.payload, r.queue, r.dropped + r.coalesced)
    BY <2>3, <2>4, <2>5 DEF GivesUp
  <2> QED BY <2>3, <2>4, <2>6 DEF r
<1>3. CASE P = {} /\ Len(q) >= Capacity
  <2>1. r.queue = q /\ r.dropped + r.coalesced = 1
    BY <1>3 DEF EnqueueTelemetry, Dropped
  <2> HIDE DEF r
  <2>2. Payloads(q) = (Payloads(q) \cup {e.payload}) \ {e.payload}
    OBVIOUS
  <2>3. GivesUp(q, e.payload, r.queue, r.dropped + r.coalesced)
    BY <2>1, <2>2 DEF GivesUp
  <2> QED BY <2>1, <2>3 DEF r
<1>4. CASE P = {} /\ ~ (Len(q) >= Capacity)
  <2>1. r.queue = Append(q, e) /\ r.dropped + r.coalesced = 0
    BY <1>4 DEF EnqueueTelemetry, Kept
  <2> HIDE DEF r
  <2>2. Distinct(r.queue) /\ Payloads(r.queue) = Payloads(q) \cup {e.payload}
    BY <2>1, AppendedKeepsAll
  <2>3. GivesUp(q, e.payload, r.queue, r.dropped + r.coalesced)
    BY <2>1, <2>2 DEF GivesUp
  <2> QED BY <2>2, <2>3 DEF r
<1> QED BY <1>2, <1>3, <1>4
=============================================================================
