----------------------- MODULE GatewayLoggerTheorems -----------------------
(***************************************************************************)
(* Proofs that the ring of GatewayLogger shows its readers the newest      *)
(* records, for every capacity and every trim.  The inductive invariant    *)
(* says, without the modulus, which record each position of the list holds.*)
(***************************************************************************)
EXTENDS GatewayLogger, SequenceTheorems, TLAPS

\* The position before the oldest record of list q with cursor x: x in a full ring.
Start(q, x) == IF Len(q) = Capacity THEN x ELSE 0

\* The positions behind the cursor hold the older records, those before it the newer
\* ones, and together they are the newest Len(q) of the first n.
Holds(q, x, n) ==
    \A i \in 1..Len(q) :
        q[i] = IF i > Start(q, x) THEN n - Len(q) + i - Start(q, x) ELSE n - Start(q, x) + i

WellFormed(q, x, n) ==
    /\ q \in Seq(1..n) /\ Len(q) <= Capacity
    /\ x \in 0..(Capacity - 1) /\ (Len(q) < Capacity => x = 0)
    /\ Holds(q, x, n)

\* The flag of the memory watch is set exactly from the one warning of an episode to its end.
EpisodeInv ==
    /\ pressed \in BOOLEAN /\ warnings \in Nat
    /\ pressed <=> warned
    /\ warnings = IF pressed THEN 1 ELSE 0

IInv ==
    /\ WellFormed(items, next, added)
    /\ warned \in BOOLEAN /\ added \in Nat /\ trims \in Nat
    /\ EpisodeInv


-----------------------------------------------------------------------------
(* The modulus, used only on sums smaller than twice its second argument. *)

LEMMA ModOnce ==
    ASSUME NEW x \in Nat, NEW t \in Nat \ {0}, x < 2 * t
    PROVE  x % t = IF x < t THEN x ELSE x - t
OBVIOUS

\* From the newest-but-c record of a ring of t whose oldest record is at s + 1, k steps on.
LEMMA WalkIndex ==
    ASSUME NEW t \in Nat \ {0}, NEW s \in 0..(t - 1), NEW c \in 1..t, NEW k \in 1..c,
           NEW i, i = ((((s + t - c) % t) + k - 1) % t) + 1
    PROVE  /\ i \in 1..t
           /\ i > s => i = s + k - c + t
           /\ i <= s => i = s + k - c
PROOF
<1>1. PICK u \in Nat : u = (s + t - c) % t /\ u = (IF s + t - c < t THEN s + t - c ELSE s - c)
  <2>1. PICK x \in Nat : x = s + t - c /\ x < 2 * t
    OBVIOUS
  <2>2. x % t = IF x < t THEN x ELSE x - t
    BY <2>1, ModOnce
  <2>3. (IF s + t - c < t THEN s + t - c ELSE s - c) \in Nat
    OBVIOUS
  <2>4. s + t - c - t = s - c
    OBVIOUS
  <2> QED BY <2>1, <2>2, <2>3, <2>4
<1>2. PICK y \in Nat : y = u + k - 1 /\ y < 2 * t
  BY <1>1
<1>3. y % t = IF y < t THEN y ELSE y - t
  BY <1>2, ModOnce
<1>4. i = IF u + k - 1 < t THEN u + k ELSE u + k - t
  <2>1. i = (y % t) + 1
    BY <1>1, <1>2
  <2> QED BY <2>1, <1>3, <1>2
<1>5. u = IF s + t - c < t THEN s + t - c ELSE s - c
  BY <1>1
<1> QED BY <1>4, <1>5

-----------------------------------------------------------------------------
(* What the walk shared by entries and trim returns. *)

LEMMA NewestIs ==
    ASSUME LoggerAssumption, NEW log, NEW n \in Nat, WellFormed(log.items, log.next, n), NEW m \in Nat
    PROVE  LET count == Lesser(m, Len(log.items))
           IN  /\ count \in Nat /\ count <= Len(log.items) /\ count <= n
               /\ Newest(log, m) = [k \in 1..count |-> n - count + k]
PROOF
<1> DEFINE total == Len(log.items)
           count == Lesser(m, total)
           s     == Start(log.items, log.next)
           at(k) == ((((s + total - count) % total) + k - 1) % total) + 1
<1>1. /\ total \in Nat /\ total <= Capacity /\ Capacity \in Nat \ {0}
      /\ log.items \in Seq(1..n) /\ DOMAIN log.items = 1..total
      /\ s \in Nat /\ (total > 0 => s < total)
  BY DEF WellFormed, LoggerAssumption, Start
<1>2. count \in Nat /\ count <= total
  BY <1>1 DEF Lesser
<1>3. \A i \in 1..total : /\ log.items[i] \in 1..n
                          /\ i > s => log.items[i] = n - total + i - s
                          /\ i <= s => log.items[i] = n - s + i
  <2>1. TAKE i \in 1..total
  <2>2. log.items[i] \in 1..n
    BY <1>1
  <2>3. log.items[i] = IF i > s THEN n - total + i - s ELSE n - s + i
    BY DEF WellFormed, Holds
  <2> HIDE DEF s, total
  <2> QED BY <2>2, <2>3, <1>1
<1> HIDE DEF s, total, count
<1>4. count <= n
  <2>1. CASE total = 0
    BY <2>1, <1>2
  <2>2. CASE total > 0 /\ s = 0
    <3>1. 1 \in 1..total
      BY <2>2, <1>1
    <3>2. log.items[1] = n - total + 1 - s /\ log.items[1] \in 1..n
      BY <3>1, <2>2, <1>3
    <3> QED BY <3>2, <2>2, <1>1, <1>2
  <2>3. CASE total > 0 /\ s > 0
    <3>1. s + 1 \in 1..total /\ s \in 1..total
      BY <2>3, <1>1
    <3>2. n - total + 1 = log.items[s + 1]
      BY <3>1, <1>1, <1>3
    <3>3. log.items[s + 1] \in 1..n
      BY <3>1, <1>3
    <3> QED BY <3>2, <3>3, <1>1, <1>2
  <2> QED BY <2>1, <2>2, <2>3, <1>1
<1>5. ASSUME NEW k \in 1..count
      PROVE  log.items[at(k)] = n - count + k
  <2>1. total \in Nat \ {0} /\ s \in 0..(total - 1) /\ count \in 1..total
    BY <1>1, <1>2
  <2>2. PICK i : i = at(k)
    OBVIOUS
  <2>3. i \in 1..total /\ (i > s => i = s + k - count + total) /\ (i <= s => i = s + k - count)
    BY <2>1, <2>2, WalkIndex
  <2>4. log.items[i] = n - count + k
    <3>1. CASE i > s
      <4>1. log.items[i] = n - total + i - s
        BY <3>1, <2>3, <1>3
      <4> QED BY <4>1, <3>1, <2>1, <2>3
    <3>2. CASE i <= s
      <4>1. log.items[i] = n - s + i
        BY <3>2, <2>3, <1>3
      <4> QED BY <4>1, <3>2, <2>1, <2>3
    <3> QED BY <3>1, <3>2, <2>1, <2>3
  <2> QED BY <2>2, <2>4
<1>6. Newest(log, m) = [k \in 1..count |-> log.items[at(k)]]
  BY DEF Newest, Start, s, total, count
<1> HIDE DEF at
<1>7. Newest(log, m) = [k \in 1..count |-> n - count + k]
  BY <1>5, <1>6
<1> QED BY <1>2, <1>4, <1>7 DEF count, total

-----------------------------------------------------------------------------
(* The two operations keep a log well formed. *)

LEMMA AppendIsGood ==
    ASSUME LoggerAssumption, NEW q, NEW n \in Nat, WellFormed(q, 0, n), Len(q) < Capacity
    PROVE  WellFormed(Append(q, n + 1), 0, n + 1)
PROOF
<1>1. PICK t \in Nat : t = Len(q) /\ t < Capacity
  BY DEF WellFormed
<1>2. q \in Seq(1..n) /\ DOMAIN q = 1..t /\ Capacity \in Nat \ {0}
  BY <1>1 DEF WellFormed, LoggerAssumption
<1>3. \A i \in 1..t : q[i] \in 1..n /\ q[i] = n - t + i
  <2>1. TAKE i \in 1..t
  <2>2. q[i] \in 1..n
    BY <1>2
  <2>3. Start(q, 0) = 0
    BY DEF Start
  <2>4. q[i] = n - t + i - 0
    BY <1>1, <2>3 DEF WellFormed, Holds
  <2> QED BY <2>2, <2>4, <1>1
<1>4. PICK r : r = Append(q, n + 1)
  OBVIOUS
<1>5. q \in Seq(1..(n + 1))
  <2>1. \A i \in 1..t : q[i] \in 1..(n + 1)
    BY <1>3
  <2> QED BY <2>1, <1>2
<1>6. r \in Seq(1..(n + 1)) /\ Len(r) = t + 1
  BY <1>1, <1>4, <1>5
<1>7. \A i \in 1..(t + 1) : r[i] = IF i = t + 1 THEN n + 1 ELSE q[i]
  BY <1>1, <1>2, <1>4
<1>8. \A i \in 1..(t + 1) : r[i] = (n + 1) - (t + 1) + i - 0
  <2>1. TAKE i \in 1..(t + 1)
  <2>2. CASE i = t + 1
    BY <2>2, <1>7
  <2>3. CASE i \in 1..t
    <3>1. q[i] = n - t + i /\ r[i] = q[i]
      BY <2>3, <1>3, <1>7
    <3> QED BY <3>1, <2>3
  <2> QED BY <2>2, <2>3
<1>9. Start(r, 0) = 0
  BY DEF Start
<1>10. Holds(r, 0, n + 1)
  <2>1. \A i \in 1..(t + 1) : i > 0
    OBVIOUS
  <2> QED BY <2>1, <1>6, <1>8, <1>9 DEF Holds
<1>11. Len(r) <= Capacity /\ 0 \in 0..(Capacity - 1)
  BY <1>1, <1>2, <1>6
<1> QED BY <1>4, <1>6, <1>10, <1>11 DEF WellFormed

LEMMA OverwriteIsGood ==
    ASSUME LoggerAssumption, NEW q, NEW x, NEW n \in Nat, WellFormed(q, x, n), Len(q) = Capacity
    PROVE  WellFormed([q EXCEPT ![x + 1] = n + 1], (x + 1) % Capacity, n + 1)
PROOF
<1>1. PICK t \in Nat \ {0} : t = Capacity
  BY DEF LoggerAssumption
<1>2. q \in Seq(1..n) /\ Len(q) = t /\ DOMAIN q = 1..t /\ x \in 0..(t - 1)
  BY <1>1 DEF WellFormed
<1>3. \A i \in 1..t : /\ q[i] \in 1..n
                      /\ i > x => q[i] = n - t + i - x
                      /\ i <= x => q[i] = n - x + i
  <2>1. TAKE i \in 1..t
  <2>2. q[i] \in 1..n
    BY <1>2
  <2>3. Start(q, x) = x
    BY DEF Start
  <2>4. q[i] = IF i > x THEN n - t + i - x ELSE n - x + i
    BY <1>2, <2>3 DEF WellFormed, Holds
  <2> QED BY <2>2, <2>4, <1>2
<1>4. PICK r : r = [q EXCEPT ![x + 1] = n + 1]
  OBVIOUS
<1>5. PICK y \in Nat : y = (x + 1) % t /\ y = (IF x + 1 < t THEN x + 1 ELSE 0)
  <2>1. PICK z \in Nat : z = x + 1 /\ z < 2 * t
    BY <1>2
  <2>2. z % t = IF z < t THEN z ELSE z - t
    BY <2>1, ModOnce
  <2>3. z >= t => z - t = 0
    BY <2>1, <1>2
  <2> QED BY <2>1, <2>2, <2>3
<1>6. DOMAIN r = 1..t /\ \A i \in 1..t : r[i] = IF i = x + 1 THEN n + 1 ELSE q[i]
  BY <1>2, <1>4
<1>7. r \in Seq(1..(n + 1)) /\ Len(r) = t
  <2>1. q \in Seq(1..(n + 1)) /\ Len(q) = t
    BY <1>2
  <2>2. x + 1 \in 1..Len(q) /\ n + 1 \in 1..(n + 1)
    BY <1>2, <2>1
  <2> QED BY <1>4, <2>1, <2>2, ExceptSeq
<1>8. Start(r, y) = y
  BY <1>1, <1>7 DEF Start
<1>9. ASSUME NEW i \in 1..t
      PROVE  r[i] = IF i > y THEN (n + 1) - t + i - y ELSE (n + 1) - y + i
  <2>1. r[i] = IF i = x + 1 THEN n + 1 ELSE q[i]
    BY <1>6
  <2>2. CASE i = x + 1
    BY <2>1, <2>2, <1>2, <1>5
  <2>3. CASE i > x + 1
    <3>1. q[i] = n - t + i - x
      BY <2>3, <1>2, <1>3
    <3> QED BY <3>1, <2>1, <2>3, <1>2, <1>5
  <2>4. CASE i <= x
    <3>1. q[i] = n - x + i
      BY <2>4, <1>2, <1>3
    <3> QED BY <3>1, <2>1, <2>4, <1>2, <1>5
  <2> QED BY <2>2, <2>3, <2>4, <1>2
<1>10. Holds(r, y, n + 1)
  BY <1>7, <1>8, <1>9 DEF Holds
<1>11. Len(r) <= Capacity /\ y \in 0..(Capacity - 1) /\ ~ (Len(r) < Capacity)
  BY <1>1, <1>2, <1>5, <1>7
<1>12. WellFormed(r, y, n + 1)
  BY <1>7, <1>10, <1>11 DEF WellFormed
<1> QED BY <1>1, <1>4, <1>5, <1>12

LEMMA AddToIsGood ==
    ASSUME LoggerAssumption, NEW log, NEW n \in Nat, WellFormed(log.items, log.next, n)
    PROVE  WellFormed(AddTo(log, n + 1).items, AddTo(log, n + 1).next, n + 1)
PROOF
<1>1. CASE Len(log.items) < Capacity
  <2>1. log.next = 0
    BY <1>1 DEF WellFormed
  <2>2. WellFormed(Append(log.items, n + 1), 0, n + 1)
    BY <1>1, <2>1, AppendIsGood
  <2> QED BY <1>1, <2>1, <2>2 DEF AddTo
<1>2. CASE ~ (Len(log.items) < Capacity)
  <2>1. Len(log.items) = Capacity
    BY <1>2 DEF WellFormed, LoggerAssumption
  <2>2. WellFormed([log.items EXCEPT ![log.next + 1] = n + 1], (log.next + 1) % Capacity, n + 1)
    BY <2>1, OverwriteIsGood
  <2> QED BY <1>2, <2>2 DEF AddTo
<1> QED BY <1>1, <1>2

LEMMA TrimmedIsGood ==
    ASSUME LoggerAssumption, NEW log, NEW n \in Nat, WellFormed(log.items, log.next, n), NEW m \in Nat
    PROVE  WellFormed(Trimmed(log, m).items, Trimmed(log, m).next, n)
PROOF
<1>1. CASE m >= Len(log.items)
  BY <1>1 DEF Trimmed
<1>2. CASE ~ (m >= Len(log.items))
  <2>1. Len(log.items) \in Nat /\ Len(log.items) <= Capacity /\ Capacity \in Nat \ {0}
    BY DEF WellFormed, LoggerAssumption
  <2>2. Lesser(m, Len(log.items)) = m /\ m < Len(log.items)
    BY <1>2, <2>1 DEF Lesser
  <2>3. PICK r : r = Newest(log, m)
    OBVIOUS
  <2>4. m <= n /\ r = [k \in 1..m |-> n - m + k]
    <3>1. LET count == Lesser(m, Len(log.items))
          IN  count <= n /\ Newest(log, m) = [k \in 1..count |-> n - count + k]
      BY NewestIs
    <3> QED BY <3>1, <2>2, <2>3
  <2>5. \A k \in 1..m : n - m + k \in 1..n
    BY <2>4
  <2>6. r \in Seq(1..n) /\ Len(r) = m
    BY <2>4, <2>5
  <2>7. Start(r, 0) = 0
    BY DEF Start
  <2>8. Holds(r, 0, n)
    <3>1. \A i \in 1..m : r[i] = n - m + i - 0 /\ i > 0
      BY <2>4
    <3> QED BY <3>1, <2>6, <2>7 DEF Holds
  <2>9. Len(r) <= Capacity /\ 0 \in 0..(Capacity - 1)
    BY <2>1, <2>2, <2>6
  <2>10. WellFormed(r, 0, n)
    BY <2>6, <2>8, <2>9 DEF WellFormed
  <2> QED BY <1>2, <2>3, <2>10 DEF Trimmed
<1> QED BY <1>1, <1>2

-----------------------------------------------------------------------------
(* The inductive invariant. *)

LEMMA InitIInv == ASSUME LoggerAssumption, Init PROVE IInv
PROOF
<1>1. items = <<>> /\ next = 0 /\ added = 0
  BY DEF Init
<1>2. items \in Seq(1..0) /\ Len(items) = 0
  BY <1>1
<1>3. WellFormed(items, next, 0)
  BY <1>1, <1>2 DEF WellFormed, Holds, LoggerAssumption
<1>4. WellFormed(items, next, added)
  BY <1>1, <1>3
<1>5. warned = FALSE /\ pressed = FALSE /\ warnings = 0 /\ trims = 0 /\ added \in Nat
  BY DEF Init
<1> QED BY <1>4, <1>5 DEF IInv, EpisodeInv

LEMMA WarnOnceIInv ==
    ASSUME LoggerAssumption, IInv, NEW log, WellFormed(log.items, log.next, added), WarnOnce(log),
           trims' \in Nat
    PROVE  IInv'
PROOF
<1>1. CASE warned
  BY <1>1 DEF WarnOnce, Becomes, IInv, EpisodeInv, WellFormed, Holds, Start
<1>2. CASE ~ warned
  <2> DEFINE new == AddTo(log, added + 1)
  <2>1. /\ items' = new.items /\ next' = new.next
        /\ added' = added + 1 /\ warned' = TRUE /\ pressed' = TRUE /\ warnings' = 1
    BY <1>2 DEF WarnOnce, Becomes, IInv, EpisodeInv
  <2>2. added \in Nat /\ WellFormed(new.items, new.next, added + 1)
    BY AddToIsGood DEF IInv
  <2> HIDE DEF new
  <2>3. WellFormed(items', next', added')
    BY <2>1, <2>2
  <2>4. added' \in Nat
    BY <2>1, <2>2
  <2> QED BY <2>1, <2>3, <2>4 DEF IInv, EpisodeInv, WellFormed, Holds, Start
<1> QED BY <1>1, <1>2

LEMMA NextIInv == ASSUME LoggerAssumption, IInv, [Next]_vars PROVE IInv'
PROOF
<1>1. WellFormed(Log.items, Log.next, added) /\ added \in Nat /\ TrimKeep \in Nat
  BY DEF IInv, Log, LoggerAssumption
<1>2. CASE Add
  <2> DEFINE new == AddTo(Log, added + 1)
  <2>1. /\ items' = new.items /\ next' = new.next
        /\ added' = added + 1 /\ warned' = warned
        /\ trims' = trims /\ pressed' = pressed /\ warnings' = warnings
    BY <1>2 DEF Add, Becomes, episode
  <2>2. WellFormed(new.items, new.next, added + 1)
    BY <1>1, AddToIsGood
  <2> HIDE DEF new
  <2>3. WellFormed(items', next', added')
    BY <2>1, <2>2
  <2>4. added' \in Nat
    BY <2>1, <1>1
  <2> QED BY <2>1, <2>3, <2>4 DEF IInv, EpisodeInv, WellFormed, Holds, Start
<1>3. CASE CriticalHeap
  <2>1. WellFormed(Trimmed(Log, TrimKeep).items, Trimmed(Log, TrimKeep).next, added)
    BY <1>1, TrimmedIsGood
  <2>2. trims' \in Nat
    BY <1>3 DEF CriticalHeap, IInv
  <2> QED BY <1>3, <2>1, <2>2, WarnOnceIInv DEF CriticalHeap
<1>4. CASE LowHeap
  <2>1. trims' \in Nat
    BY <1>4 DEF LowHeap, IInv
  <2> QED BY <1>1, <1>4, <2>1, WarnOnceIInv DEF LowHeap, Log
<1>5. CASE HeapInOrder
  BY <1>5 DEF HeapInOrder, IInv, EpisodeInv, WellFormed, Holds, Start
<1>6. CASE UNCHANGED vars
  BY <1>6 DEF vars, episode, IInv, EpisodeInv, WellFormed, Holds, Start
<1> QED BY <1>2, <1>3, <1>4, <1>5, <1>6 DEF Next

LEMMA Invariance == Spec => []IInv
BY LoggerAssumption, InitIInv, NextIInv, PTL DEF Spec

-----------------------------------------------------------------------------
(* The theorems. *)

\* The list stays within LOG_CAPACITY and the cursor of _add inside the list.
THEOREM TypeCorrect == Spec => []TypeOK
PROOF
<1>1. IInv => TypeOK
  BY DEF IInv, EpisodeInv, TypeOK, WellFormed
<1> QED BY <1>1, Invariance, PTL

\* entries(limit) returns the newest records in order, without gap or repetition, after
\* any mixture of writes, wraps and trims, for every capacity and every trim.
THEOREM ReadersSeeTheNewest == Spec => []EntriesAreNewest
PROOF
<1>1. ASSUME LoggerAssumption, IInv, NEW limit \in 0..(Capacity + 1)
      PROVE  LET count == Lesser(limit, Len(items))
             IN  Entries(limit) = [k \in 1..count |-> added - count + k]
  <2>1. limit \in Nat /\ added \in Nat /\ WellFormed(Log.items, Log.next, added)
    BY <1>1 DEF IInv, Log, LoggerAssumption
  <2>2. LET count == Lesser(limit, Len(Log.items))
        IN  Newest(Log, limit) = [k \in 1..count |-> added - count + k]
    BY <1>1, <2>1, NewestIs
  <2> QED BY <2>2 DEF Entries, Log
<1>2. LoggerAssumption /\ IInv => EntriesAreNewest
  BY <1>1 DEF EntriesAreNewest
<1> QED BY <1>2, LoggerAssumption, Invariance, PTL

\* The memory watch of start_gateway writes exactly one warning in each episode of heap
\* pressure: the flag is set by the first round of an episode, and only by that.
THEOREM WarnsOncePerEpisode == Spec => []OneWarningPerEpisode
PROOF
<1>1. IInv => OneWarningPerEpisode
  BY DEF IInv, EpisodeInv, OneWarningPerEpisode
<1> QED BY <1>1, Invariance, PTL

-----------------------------------------------------------------------------
(* The ring implements BoundedLog. *)

\* The newest t of the first n records.
Shown(n, t) == [k \in 1..t |-> n - t + k]

LEMMA ShownIsASequence ==
    ASSUME NEW n \in Nat, NEW t \in Nat, t <= n
    PROVE  Shown(n, t) \in Seq(Nat) /\ Len(Shown(n, t)) = t
PROOF
<1>1. \A k \in 1..t : n - t + k \in Nat
  OBVIOUS
<1> QED BY <1>1 DEF Shown

LEMMA RecordShown ==
    ASSUME LoggerAssumption, NEW n \in Nat, NEW t \in Nat, t <= n, t <= Capacity
    PROVE  Bounded!With(Shown(n, t), n + 1)
             = Shown(n + 1, IF t < Capacity THEN t + 1 ELSE Capacity)
PROOF
<1>1. PICK c \in Nat \ {0} : c = Capacity
  BY DEF LoggerAssumption
<1>2. PICK q \in Seq(Nat) : q = Shown(n, t) /\ Len(q) = t
  BY ShownIsASequence
<1>3. \A k \in 1..t : q[k] = n - t + k
  BY <1>2 DEF Shown
<1>4. CASE t < c
  <2>1. Append(q, n + 1) = [k \in 1..(t + 1) |-> IF k = t + 1 THEN n + 1 ELSE q[k]]
    BY <1>2
  <2>2. \A k \in 1..(t + 1) : (IF k = t + 1 THEN n + 1 ELSE q[k]) = (n + 1) - (t + 1) + k
    <3>1. TAKE k \in 1..(t + 1)
    <3>2. CASE k = t + 1
      BY <3>2
    <3>3. CASE k \in 1..t
      <4>1. q[k] = n - t + k
        BY <3>3, <1>3
      <4> QED BY <4>1, <3>3
    <3> QED BY <3>2, <3>3
  <2>3. Append(q, n + 1) = Shown(n + 1, t + 1)
    BY <2>1, <2>2 DEF Shown
  <2> QED BY <2>3, <1>1, <1>2, <1>4 DEF Bounded!With
<1>5. CASE t = c
  <2>1. PICK u \in Nat : t = u + 1
    <3>1. t - 1 \in Nat /\ t = (t - 1) + 1
      BY <1>5
    <3> QED BY <3>1
  <2>2. PICK r \in Seq(Nat) : r = Tail(q) /\ Len(r) = u /\ \A k \in 1..u : r[k] = q[k + 1]
    <3>1. q # <<>>
      BY <1>2, <2>1
    <3>2. Tail(q) \in Seq(Nat) /\ Len(Tail(q)) = Len(q) - 1 /\ \A k \in 1..Len(Tail(q)) : Tail(q)[k] = q[k + 1]
      BY <3>1, HeadTailProperties
    <3>3. PICK r : r = Tail(q)
      OBVIOUS
    <3>4. r \in Seq(Nat) /\ Len(r) = u
      BY <3>2, <3>3, <1>2, <2>1
    <3>5. \A k \in 1..u : r[k] = q[k + 1]
      BY <3>2, <3>3, <3>4
    <3> QED BY <3>3, <3>4, <3>5
  <2>3. Append(r, n + 1) = [k \in 1..(u + 1) |-> IF k = u + 1 THEN n + 1 ELSE r[k]]
    BY <2>2
  <2>4. \A k \in 1..t : (IF k = u + 1 THEN n + 1 ELSE r[k]) = (n + 1) - t + k
    <3>1. TAKE k \in 1..t
    <3>2. CASE k = t
      BY <3>2, <2>1
    <3>3. CASE k \in 1..u
      <4>1. k + 1 \in 1..t
        BY <3>3, <2>1
      <4>2. r[k] = n - t + (k + 1)
        BY <3>3, <4>1, <2>2, <1>3
      <4> QED BY <4>2, <3>3, <2>1
    <3> QED BY <3>2, <3>3, <2>1
  <2>5. Append(Tail(q), n + 1) = Shown(n + 1, t)
    BY <2>1, <2>2, <2>3, <2>4 DEF Shown
  <2>6. ~ (Len(q) < Capacity) /\ ~ (t < Capacity) /\ t = Capacity
    BY <1>1, <1>2, <1>5
  <2> HIDE DEF Shown
  <2> QED BY <2>5, <2>6, <1>2 DEF Bounded!With
<1> QED BY <1>1, <1>4, <1>5

LEMMA ReleaseShown ==
    ASSUME LoggerAssumption, NEW n \in Nat, NEW t \in Nat, t <= n
    PROVE  Bounded!Released(Shown(n, t)) = Shown(n, Lesser(TrimKeep, t))
PROOF
<1>1. PICK q \in Seq(Nat) : q = Shown(n, t) /\ Len(q) = t
  BY ShownIsASequence
<1>2. \A k \in 1..t : q[k] = n - t + k
  BY <1>1 DEF Shown
<1>3. PICK m \in Nat : m = TrimKeep
  BY DEF LoggerAssumption
<1>4. CASE t <= m
  <2>1. Lesser(TrimKeep, t) = t
    BY <1>3, <1>4 DEF Lesser
  <2> QED BY <2>1, <1>1, <1>3, <1>4 DEF Bounded!Released
<1>5. CASE ~ (t <= m)
  <2>1. SubSeq(q, t - m + 1, t) = [k \in 1..m |-> q[k + (t - m + 1) - 1]]
    <3>1. t - (t - m + 1) + 1 = m
      BY <1>3
    <3> QED BY <3>1, <1>1
  <2>2. \A k \in 1..m : q[k + (t - m + 1) - 1] = n - m + k
    <3>1. TAKE k \in 1..m
    <3>2. k + (t - m + 1) - 1 \in 1..t /\ k + (t - m + 1) - 1 = k + t - m
      BY <1>5
    <3>3. q[k + (t - m + 1) - 1] = n - t + (k + t - m)
      BY <3>2, <1>2
    <3> QED BY <3>3
  <2>3. SubSeq(q, t - m + 1, t) = Shown(n, m)
    BY <2>1, <2>2 DEF Shown
  <2>4. Lesser(TrimKeep, t) = m
    BY <1>3, <1>5 DEF Lesser
  <2> QED BY <2>3, <2>4, <1>1, <1>3, <1>5 DEF Bounded!Released
<1> QED BY <1>4, <1>5

\* What entries shows of a well-formed log.
LEMMA EntriesAreShown ==
    ASSUME LoggerAssumption, NEW log, NEW n \in Nat, WellFormed(log.items, log.next, n)
    PROVE  /\ Len(log.items) \in Nat /\ Len(log.items) <= n /\ Len(log.items) <= Capacity
           /\ Newest(log, Capacity) = Shown(n, Len(log.items))
PROOF
<1>1. Capacity \in Nat /\ Len(log.items) \in Nat /\ Len(log.items) <= Capacity
  BY DEF WellFormed, LoggerAssumption
<1>2. Lesser(Capacity, Len(log.items)) = Len(log.items)
  BY <1>1 DEF Lesser
<1>3. LET count == Lesser(Capacity, Len(log.items))
      IN  count <= n /\ Newest(log, Capacity) = [k \in 1..count |-> n - count + k]
  BY <1>1, NewestIs
<1> QED BY <1>1, <1>2, <1>3 DEF Shown

\* One call of _add, seen through entries.
LEMMA AddRecords ==
    ASSUME LoggerAssumption, NEW log, NEW n \in Nat, WellFormed(log.items, log.next, n)
    PROVE  Newest(AddTo(log, n + 1), Capacity) = Bounded!With(Newest(log, Capacity), n + 1)
PROOF
<1> DEFINE t   == Len(log.items)
           new == AddTo(log, n + 1)
<1>1. t \in Nat /\ t <= n /\ t <= Capacity /\ Newest(log, Capacity) = Shown(n, t)
  BY EntriesAreShown
<1>2. WellFormed(new.items, new.next, n + 1)
  BY AddToIsGood
<1>3. Len(new.items) = IF t < Capacity THEN t + 1 ELSE Capacity
  <2>1. log.items \in Seq(1..n) /\ Capacity \in Nat
    BY DEF WellFormed, LoggerAssumption
  <2>2. CASE t < Capacity
    <3>1. new.items = Append(log.items, n + 1)
      BY <2>2 DEF AddTo
    <3>2. PICK q \in Seq(1..n) : q = log.items
      BY <2>1
    <3>3. Len(Append(q, n + 1)) = Len(q) + 1
      BY <3>2
    <3> QED BY <3>1, <3>2, <3>3, <2>2
  <2>3. CASE ~ (t < Capacity)
    <3>1. new.items = [log.items EXCEPT ![log.next + 1] = n + 1]
      BY <2>3 DEF AddTo
    <3>2. PICK q \in Seq(1..n) : q = log.items
      BY <2>1
    <3>3. PICK r : r = [q EXCEPT ![log.next + 1] = n + 1]
      OBVIOUS
    <3>4. DOMAIN r = 1..Len(q) /\ Len(q) \in Nat
      BY <3>2, <3>3
    <3>5. Len(new.items) \in Nat /\ DOMAIN new.items = 1..Len(new.items)
      BY <1>2 DEF WellFormed
    <3>6. Len(new.items) = Len(q)
      BY <3>1, <3>2, <3>3, <3>4, <3>5
    <3> QED BY <3>2, <3>6, <2>1, <2>3, <1>1
  <2> QED BY <2>2, <2>3
<1>4. Newest(new, Capacity) = Shown(n + 1, Len(new.items))
  <2>1. n + 1 \in Nat
    OBVIOUS
  <2> QED BY <2>1, <1>2, EntriesAreShown
<1>5. Bounded!With(Shown(n, t), n + 1) = Shown(n + 1, IF t < Capacity THEN t + 1 ELSE Capacity)
  BY <1>1, RecordShown
<1> QED BY <1>1, <1>3, <1>4, <1>5

\* trim(keep), seen through entries.
LEMMA TrimReleases ==
    ASSUME LoggerAssumption, NEW log, NEW n \in Nat, WellFormed(log.items, log.next, n)
    PROVE  Newest(Trimmed(log, TrimKeep), Capacity) = Bounded!Released(Newest(log, Capacity))
PROOF
<1>0. PICK m \in Nat : m = TrimKeep
  BY DEF LoggerAssumption
<1> DEFINE t   == Len(log.items)
           new == Trimmed(log, m)
           c   == Lesser(m, t)
<1>1. t \in Nat /\ t <= n /\ t <= Capacity /\ Newest(log, Capacity) = Shown(n, t)
  BY EntriesAreShown
<1>2. c \in 0..t
  BY <1>1 DEF Lesser
<1>3. WellFormed(new.items, new.next, n)
  BY TrimmedIsGood
<1>4. Newest(new, Capacity) = Shown(n, Len(new.items))
  BY <1>3, EntriesAreShown
<1>5. Len(new.items) = c
  <2>1. CASE m >= t
    BY <2>1, <1>1 DEF Trimmed, Lesser
  <2>2. CASE ~ (m >= t)
    <3>1. c = m /\ new.items = Newest(log, m)
      BY <2>2, <1>1 DEF Trimmed, Lesser
    <3>2. c <= n /\ Newest(log, m) = [k \in 1..c |-> n - c + k]
      BY NewestIs
    <3>3. new.items = Shown(n, m) /\ m <= n
      BY <3>1, <3>2 DEF Shown
    <3> QED BY <3>1, <3>3, ShownIsASequence
  <2> QED BY <2>1, <2>2
<1>6. Bounded!Released(Shown(n, t)) = Shown(n, Lesser(TrimKeep, t))
  BY <1>1, ReleaseShown
<1> QED BY <1>0, <1>1, <1>4, <1>5, <1>6

\* GatewayLogger, read through entries, is a BoundedLog: for every capacity and every
\* amount a trim keeps, the ring shows what the abstract log would hold.
THEOREM RingIsABoundedLog == Spec => ImplementsBoundedLog
PROOF
<1> DEFINE kept == Entries(Capacity)
<1>1. LoggerAssumption /\ Init => Bounded!LogInit
  <2> SUFFICES ASSUME LoggerAssumption, Init PROVE kept = <<>> /\ trims = 0
    BY DEF Bounded!LogInit
  <2>1. WellFormed(Log.items, Log.next, 0)
    BY InitIInv DEF Init, IInv, Log
  <2>2. Len(Log.items) = 0
    BY DEF Init, Log
  <2>3. kept = Shown(0, 0)
    BY <2>1, <2>2, EntriesAreShown DEF Entries
  <2> QED BY <2>3 DEF Shown, Init
<1>2. ASSUME LoggerAssumption, IInv, [Next]_vars
      PROVE  [Bounded!Record \/ Bounded!Release]_<<kept, trims>>
  <2>1. added \in Nat /\ WellFormed(Log.items, Log.next, added)
    BY <1>2 DEF IInv, Log
  <2>2. ASSUME NEW log, Becomes(log) PROVE kept' = Newest(log, Capacity)
    BY <2>2 DEF Becomes, Entries, Log, Newest
  <2>3. kept = Newest(Log, Capacity)
    BY DEF Entries
  <2>4. CASE Add
    <3>1. added + 1 \in 1..MaxRecords /\ trims' = trims
      BY <2>1, <2>4, LoggerAssumption DEF Add, LoggerAssumption
    <3>2. kept' = Bounded!With(kept, added + 1)
      BY <2>1, <2>2, <2>3, <2>4, <1>2, AddRecords DEF Add
    <3> QED BY <3>1, <3>2 DEF Bounded!Record
  <2>5. CASE LowHeap
    <3>0. trims' = trims
      BY <2>5 DEF LowHeap
    <3>1. CASE warned
      BY <3>0, <3>1, <2>2, <2>3, <2>5 DEF LowHeap, WarnOnce
    <3>2. CASE ~ warned
      <4>1. added + 1 \in 1..MaxRecords
        BY <2>1, <2>5, <3>2, LoggerAssumption DEF LowHeap, WarnOnce, LoggerAssumption
      <4>2. kept' = Bounded!With(kept, added + 1)
        BY <2>1, <2>2, <2>3, <2>5, <3>2, <1>2, AddRecords DEF LowHeap, WarnOnce
      <4> QED BY <3>0, <4>1, <4>2 DEF Bounded!Record
    <3> QED BY <3>1, <3>2
  <2>6. CASE CriticalHeap
    <3> DEFINE log == Trimmed(Log, TrimKeep)
    <3>1. TrimKeep \in Nat /\ trims' = trims + 1
      BY <1>2, <2>6 DEF LoggerAssumption, CriticalHeap
    <3>2. Newest(log, Capacity) = Bounded!Released(kept)
      BY <2>1, <2>3, <1>2, TrimReleases
    <3>3. CASE warned
      <4>1. kept' = Bounded!Released(kept)
        BY <3>2, <3>3, <2>2, <2>6 DEF CriticalHeap, WarnOnce
      <4> QED BY <3>1, <4>1 DEF Bounded!Release
    <3>4. CASE ~ warned
      <4>1. added + 1 \in 1..MaxRecords
        BY <2>1, <2>6, <3>4, LoggerAssumption DEF CriticalHeap, WarnOnce, LoggerAssumption
      <4>2. WellFormed(log.items, log.next, added)
        BY <3>1, <2>1, <1>2, TrimmedIsGood
      <4>3. kept' = Newest(AddTo(log, added + 1), Capacity)
        BY <3>4, <2>2, <2>6 DEF CriticalHeap, WarnOnce
      <4> HIDE DEF log
      <4>4. kept' = Bounded!With(Newest(log, Capacity), added + 1)
        BY <4>2, <4>3, <2>1, <1>2, AddRecords
      <4>5. kept' = Bounded!With(Bounded!Released(kept), added + 1)
        BY <4>4, <3>2
      <4> QED BY <3>1, <4>1, <4>5 DEF Bounded!Release
    <3> QED BY <3>3, <3>4
  <2>7. CASE HeapInOrder
    BY <2>7 DEF HeapInOrder, Entries, Newest, Log
  <2>8. CASE UNCHANGED vars
    BY <2>8 DEF vars, Entries, Newest, Log
  <2> QED BY <2>4, <2>5, <2>6, <2>7, <2>8, <1>2 DEF Next
<1> QED BY <1>1, <1>2, LoggerAssumption, Invariance, PTL
        DEF Spec, ImplementsBoundedLog, Bounded!LogSpec, Bounded!logVars
=============================================================================
