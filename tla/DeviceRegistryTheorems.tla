----------------------- MODULE DeviceRegistryTheorems -----------------------
(***************************************************************************)
(* Proofs about DeviceRegistry for any set of keys and any capacity.  That *)
(* the most recent devices are listed is not inductive: RecencyInv says    *)
(* how the records and the evicted devices compare.  The sums of packets   *)
(* come next, and then the registry as a specification of its own.         *)
(***************************************************************************)
EXTENDS DeviceRegistry, FiniteSetTheorems, WellFoundedInduction, TLAPS

\* A record shows the last packet of its device; a device that was evicted left behind a
\* full registry of devices seen no earlier.
RecencyInv ==
    /\ \A k \in Known : devices[k].last_seen = latest[k]
    /\ \A k \in Keys : latest[k] <= now
    /\ \A k \in Keys \ Known : latest[k] > 0 =>
          /\ Cardinality(Known) = Capacity
          /\ \A j \in Known : latest[k] <= latest[j]

RegistryInv == RegistryTypeOK /\ RecencyInv

-----------------------------------------------------------------------------
\* What an update leaves: the keys are bounded, the new one is among them, and when one
\* had to go it was among the oldest of a full registry.
LEMMA UpdateKeeps ==
    ASSUME RegistryAssumption, RegistryTypeOK, NEW k \in Keys, NEW kept \in Kept(k)
    PROVE  /\ kept \subseteq Known /\ kept \cup {k} \subseteq Keys
           /\ Cardinality(kept \cup {k}) <= Capacity
           /\ \/ kept = Known /\ (k \in Known \/ Cardinality(Known) < Capacity)
              \/ /\ Cardinality(Known) = Capacity /\ Cardinality(kept \cup {k}) = Capacity
                 /\ k \notin Known
                 /\ \E old \in Oldest : kept = Known \ {old}
PROOF
<1>1. /\ Capacity \in Nat \ {0} /\ Known \subseteq Keys /\ Cardinality(Known) <= Capacity
      /\ IsFiniteSet(Known) /\ Cardinality(Known) \in Nat
  BY FS_Subset, FS_CardinalityType DEF RegistryAssumption, RegistryTypeOK
<1>2. CASE k \in Known
  <2>1. kept = Known /\ kept \cup {k} = Known
    BY <1>2 DEF Kept
  <2> QED BY <1>1, <2>1
<1>3. CASE k \notin Known /\ Cardinality(Known) < Capacity
  <2>1. kept = Known
    BY <1>3 DEF Kept
  <2>2. Cardinality(Known \cup {k}) = Cardinality(Known) + 1
    BY <1>1, <1>3, FS_AddElement
  <2> QED BY <1>1, <1>3, <2>1, <2>2
<1>4. CASE k \notin Known /\ ~ (Cardinality(Known) < Capacity)
  <2>1. PICK old \in Oldest : kept = Known \ {old}
    BY <1>4 DEF Kept
  <2>2. old \in Known
    BY DEF Oldest
  <2>3. IsFiniteSet(kept) /\ Cardinality(kept) = Cardinality(Known) - 1
    BY <1>1, <2>1, <2>2, FS_RemoveElement
  <2>4. k \notin kept
    BY <1>4, <2>1
  <2>5. Cardinality(kept \cup {k}) = Cardinality(kept) + 1
    BY <2>3, <2>4, FS_AddElement
  <2>6. Cardinality(Known) = Capacity /\ Cardinality(kept \cup {k}) = Capacity
    BY <1>1, <1>4, <2>3, <2>5
  <2> QED BY <1>1, <1>4, <2>1, <2>6
<1> QED BY <1>2, <1>3, <1>4

\* The registry after an update, whichever record made room.
LEMMA UpdateType ==
    ASSUME RegistryAssumption, RegistryTypeOK, NEW k \in Keys, Update(k)
    PROVE  /\ Known' \subseteq Keys /\ Cardinality(Known') <= Capacity
           /\ devices' \in [Known' -> [last_seen : 1..MaxTime, packet_count : Nat \ {0}]]
           /\ latest' \in [Keys -> 0..MaxTime] /\ forgotten' \in [Keys -> Nat]
PROOF
<1>1. PICK kept \in Kept(k) :
        /\ devices' = [j \in kept \cup {k} |->
                          IF j = k THEN [last_seen |-> now, packet_count |-> Count(k) + 1]
                                   ELSE devices[j]]
        /\ latest' = [latest EXCEPT ![k] = now]
        /\ forgotten' = [j \in Keys |-> forgotten[j] + (IF j \in Known \ kept THEN Count(j) ELSE 0)]
  BY DEF Update
<1>2. /\ now \in 1..MaxTime /\ MaxTime \in Nat /\ latest \in [Keys -> 0..MaxTime]
      /\ forgotten \in [Keys -> Nat]
      /\ devices \in [Known -> [last_seen : 1..MaxTime, packet_count : Nat \ {0}]]
  BY DEF RegistryTypeOK, RegistryAssumption
<1>3. Known' = kept \cup {k}
  BY <1>1 DEF Known
<1>4. kept \subseteq Known /\ kept \cup {k} \subseteq Keys /\ Cardinality(kept \cup {k}) <= Capacity
  BY UpdateKeeps
<1>5. \A j \in Keys : Count(j) \in Nat
  BY <1>2 DEF Count
<1>6. devices' \in [Known' -> [last_seen : 1..MaxTime, packet_count : Nat \ {0}]]
  <2>1. [last_seen |-> now, packet_count |-> Count(k) + 1]
           \in [last_seen : 1..MaxTime, packet_count : Nat \ {0}]
    BY <1>2, <1>5
  <2> QED BY <1>1, <1>2, <1>3, <1>4, <2>1
<1>7. latest' \in [Keys -> 0..MaxTime]
  BY <1>1, <1>2
<1>8. forgotten' \in [Keys -> Nat]
  BY <1>1, <1>2, <1>5
<1> QED BY <1>3, <1>4, <1>6, <1>7, <1>8

LEMMA UpdateRecency ==
    ASSUME RegistryAssumption, RegistryInv, NEW k \in Keys, Update(k), now' = now
    PROVE  RecencyInv'
PROOF
<1>1. PICK kept \in Kept(k) :
        /\ devices' = [j \in kept \cup {k} |->
                          IF j = k THEN [last_seen |-> now, packet_count |-> Count(k) + 1]
                                   ELSE devices[j]]
        /\ latest' = [latest EXCEPT ![k] = now]
  BY DEF Update
<1>2. RegistryTypeOK /\ RecencyInv
  BY DEF RegistryInv
<1>3. /\ now \in Nat \ {0} /\ latest \in [Keys -> Nat]
      /\ Known \subseteq Keys /\ \A j \in Known : devices[j].last_seen = latest[j]
      /\ \A j \in Keys : latest[j] <= now
  BY <1>2 DEF RegistryTypeOK, RecencyInv, RegistryAssumption
<1>4. Known' = kept \cup {k}
  BY <1>1 DEF Known
<1>5. /\ kept \subseteq Known
      /\ \/ kept = Known /\ (k \in Known \/ Cardinality(Known) < Capacity)
         \/ /\ Cardinality(Known) = Capacity /\ Cardinality(kept \cup {k}) = Capacity
            /\ k \notin Known
            /\ \E old \in Oldest : kept = Known \ {old}
  BY <1>2, UpdateKeeps
<1>6. latest'[k] = now /\ \A j \in Keys \ {k} : latest'[j] = latest[j]
  BY <1>1, <1>3
<1>7. \A j \in Known' : devices'[j].last_seen = latest'[j]
  BY <1>1, <1>3, <1>4, <1>5, <1>6
<1>8. \A j \in Keys : latest'[j] <= now'
  BY <1>3, <1>6
<1>9. ASSUME NEW a \in Keys \ Known', latest'[a] > 0
      PROVE  Cardinality(Known') = Capacity /\ \A j \in Known' : latest'[a] <= latest'[j]
  <2>1. a # k /\ a \notin kept /\ latest'[a] = latest[a] /\ latest[a] > 0
    BY <1>4, <1>6, <1>9
  <2>2. CASE kept = Known /\ (k \in Known \/ Cardinality(Known) < Capacity)
    <3>1. Cardinality(Known) = Capacity /\ \A j \in Known : latest[a] <= latest[j]
      BY <1>2, <2>1, <2>2 DEF RecencyInv
    <3>2. k \in Known
      BY <3>1, <2>2 DEF RegistryAssumption
    <3> QED BY <3>1, <3>2, <2>1, <2>2, <1>3, <1>4, <1>6
  <2>3. CASE /\ Cardinality(Known) = Capacity /\ Cardinality(kept \cup {k}) = Capacity
             /\ k \notin Known
             /\ \E old \in Oldest : kept = Known \ {old}
    <3>1. PICK old \in Oldest : kept = Known \ {old}
      BY <2>3
    <3>2. old \in Known /\ \A j \in Known : latest[old] <= latest[j]
      BY <1>3 DEF Oldest
    <3>3. \A j \in Known : latest[a] <= latest[j]
      <4>1. CASE a = old
        BY <3>2, <4>1
      <4>2. CASE a # old
        BY <1>2, <2>1, <3>1, <4>2 DEF RecencyInv
      <4> QED BY <4>1, <4>2
    <3> QED BY <3>3, <2>1, <2>3, <1>3, <1>4, <1>5, <1>6
  <2> QED BY <1>5, <2>2, <2>3
<1> QED BY <1>7, <1>8, <1>9 DEF RecencyInv

-----------------------------------------------------------------------------
(* The sums. *)

\* A nonempty set of naturals has a least element.
LEMMA LeastExists ==
    ASSUME NEW S \in SUBSET Nat, S # {}
    PROVE  \E x \in S : \A y \in S : x <= y
PROOF
<1> DEFINE R == {ss \in Nat \X Nat : ss[1] < ss[2]}
<1>1. IsWellFoundedOn(R, Nat)
  BY NatLessThanWellFounded DEF OpToRel
<1>2. \A x, y \in Nat : <<y, x>> \in R <=> y < x
  OBVIOUS
<1> HIDE DEF R
<1>3. PICK x \in S : \A y \in S : ~ (<<y, x>> \in R)
  BY <1>1, WFMin
<1>4. \A y \in S : x <= y
  <2> TAKE y \in S
  <2>1. x \in Nat /\ y \in Nat
    OBVIOUS
  <2>2. ~ (y < x)
    BY <1>2, <1>3, <2>1, Zenon
  <2> QED BY <2>1, <2>2
<1> QED BY <1>4

Any(s) == CHOOSE x \in s : TRUE

\* What the sum over s is, if f sums over the smaller sets: MapThenSumSet, unfolded once.
SumOver(p, s, f) == IF s = {} THEN 0 ELSE p[Any(s)] + f[s \ {Any(s)}]

\* f is the function of all sums of p over subsets of S.
Sums(p, S, f) == f = [s \in SUBSET S |-> SumOver(p, s, f)]

\* The subsets of a finite set, one smaller than the other.
LEMMA OneLess ==
    ASSUME NEW S, IsFiniteSet(S), NEW s \in SUBSET S
    PROVE  /\ Cardinality(s) \in Nat
           /\ s = {} => Cardinality(s) = 0
           /\ s # {} => /\ Any(s) \in s /\ s \ {Any(s)} \in SUBSET S
                        /\ Cardinality(s \ {Any(s)}) = Cardinality(s) - 1
                        /\ Cardinality(s) \in Nat \ {0}
PROOF
<1>1. IsFiniteSet(s)
  BY FS_Subset
<1>2. Cardinality(s) \in Nat /\ (s = {} => Cardinality(s) = 0)
  BY <1>1, FS_CardinalityType, FS_EmptySet
<1>3. ASSUME s # {}
      PROVE  /\ Any(s) \in s /\ Cardinality(s \ {Any(s)}) = Cardinality(s) - 1
             /\ Cardinality(s) # 0
  <2>1. Any(s) \in s
    BY <1>3 DEF Any
  <2> QED BY <1>1, <1>3, <2>1, FS_RemoveElement, FS_EmptySet
<1> QED BY <1>2, <1>3

\* The sums over a finite set exist: level by level, by the size of the subsets.
LEMMA SumsExist ==
    ASSUME NEW S, IsFiniteSet(S), NEW p \in [S -> Nat]
    PROVE  \E f \in [SUBSET S -> Nat] : Sums(p, S, f)
PROOF
<1> DEFINE Good(n, f) == \A s \in SUBSET S : Cardinality(s) <= n => f[s] = SumOver(p, s, f)
           bad == {n \in Nat : ~ \E f \in [SUBSET S -> Nat] : Good(n, f)}
<1>1. \E f \in [SUBSET S -> Nat] : Good(0, f)
  <2> DEFINE z == [s \in SUBSET S |-> 0]
  <2>1. ASSUME NEW s \in SUBSET S, Cardinality(s) <= 0 PROVE s = {}
    <3>1. s # {} => Cardinality(s) \in Nat \ {0}
      BY OneLess
    <3> QED BY <2>1, <3>1
  <2>2. Good(0, z)
    BY <2>1 DEF SumOver
  <2> QED BY <2>2
<1>2. ASSUME NEW n \in Nat, NEW f \in [SUBSET S -> Nat], Good(n, f)
      PROVE  \E g \in [SUBSET S -> Nat] : Good(n + 1, g)
  <2> DEFINE g == [s \in SUBSET S |-> IF Cardinality(s) <= n THEN f[s] ELSE SumOver(p, s, f)]
  <2>1. ASSUME NEW s \in SUBSET S PROVE SumOver(p, s, f) \in Nat
    <3>1. s # {} => Any(s) \in S /\ s \ {Any(s)} \in SUBSET S
      BY OneLess
    <3>2. s # {} => p[Any(s)] \in Nat /\ f[s \ {Any(s)}] \in Nat
      BY <3>1
    <3> QED BY <3>2 DEF SumOver
  <2>2. g \in [SUBSET S -> Nat]
    BY <2>1
  <2>3. ASSUME NEW s \in SUBSET S, Cardinality(s) <= n + 1 PROVE g[s] = SumOver(p, s, g)
    <3>1. g[s] = SumOver(p, s, f)
      BY <1>2
    <3>2. s # {} => g[s \ {Any(s)}] = f[s \ {Any(s)}]
      BY <2>3, OneLess
    <3> HIDE DEF g
    <3> QED BY <3>1, <3>2 DEF SumOver
  <2> HIDE DEF g
  <2> QED BY <2>2, <2>3
<1> HIDE DEF Good
<1>3. bad = {}
  <2> SUFFICES ASSUME bad # {} PROVE FALSE
    OBVIOUS
  <2>1. PICK n \in bad : \A y \in bad : n <= y
    BY LeastExists
  <2>2. n \in Nat \ {0}
    BY <1>1
  <2>3. n - 1 \in Nat /\ (n - 1) + 1 = n /\ ~ (n <= n - 1)
    BY <2>2
  <2>4. n - 1 \notin bad
    BY <2>1, <2>3, Zenon
  <2>5. PICK f \in [SUBSET S -> Nat] : Good(n - 1, f)
    BY <2>3, <2>4
  <2>6. \E h \in [SUBSET S -> Nat] : Good((n - 1) + 1, h)
    BY <1>2, <2>3, <2>5
  <2> QED BY <2>3, <2>6
<1>4. PICK f \in [SUBSET S -> Nat] : Good(Cardinality(S), f)
  <2>1. Cardinality(S) \in Nat
    BY FS_CardinalityType
  <2> QED BY <1>3, <2>1
<1>5. \A s \in SUBSET S : f[s] = SumOver(p, s, f)
  <2> TAKE s \in SUBSET S
  <2>1. Cardinality(s) <= Cardinality(S)
    BY FS_Subset
  <2> QED BY <1>4, <2>1 DEF Good
<1>6. Sums(p, S, f)
  BY <1>5 DEF Sums
<1> QED BY <1>6

\* One more at one key is one more in the sum.
LEMMA SumGrows ==
    ASSUME NEW S, IsFiniteSet(S), NEW k \in S, NEW p \in [S -> Nat], NEW q,
           \A x \in S : q[x] = IF x = k THEN p[x] + 1 ELSE p[x], NEW f, Sums(p, S, f), NEW g, Sums(q, S, g)
    PROVE  g[S] = f[S] + 1
PROOF
<1> DEFINE More(s) == f[s] \in Nat /\ g[s] = f[s] + (IF k \in s THEN 1 ELSE 0)
           bad == {n \in Nat : \E s \in SUBSET S : Cardinality(s) = n /\ ~ More(s)}
<1>1. \A s \in SUBSET S : f[s] = SumOver(p, s, f) /\ g[s] = SumOver(q, s, g)
  BY DEF Sums
<1>2. ASSUME NEW s \in SUBSET S, s = {} \/ More(s \ {Any(s)})
      PROVE  More(s)
  <2>1. CASE s = {}
    <3>1. f[s] = 0 /\ g[s] = 0 /\ k \notin s
      BY <1>1, <2>1 DEF SumOver
    <3> QED BY <3>1
  <2>2. CASE s # {}
    <3> DEFINE a == Any(s)
    <3>1. a \in s /\ a \in S
      BY <2>2, OneLess
    <3>2. f[s] = p[a] + f[s \ {a}] /\ g[s] = q[a] + g[s \ {a}]
      BY <1>1, <2>2 DEF SumOver
    <3>3. More(s \ {a})
      BY <1>2, <2>2
    <3> HIDE DEF a
    <3> QED BY <3>1, <3>2, <3>3
  <2> QED BY <2>1, <2>2
<1> HIDE DEF More
<1>3. bad = {}
  <2> SUFFICES ASSUME bad # {} PROVE FALSE
    OBVIOUS
  <2>1. PICK n \in bad : \A y \in bad : n <= y
    BY LeastExists
  <2>2. PICK s \in SUBSET S : Cardinality(s) = n /\ ~ More(s)
    BY <2>1
  <2>3. s # {} /\ s \ {Any(s)} \in SUBSET S /\ ~ More(s \ {Any(s)})
        /\ Cardinality(s \ {Any(s)}) = n - 1 /\ n \in Nat \ {0}
    BY <1>2, <2>2, OneLess
  <2>4. n - 1 \in bad
    BY <2>3
  <2> QED BY <2>1, <2>3, <2>4
<1>4. More(S)
  <2>1. Cardinality(S) \in Nat
    BY FS_CardinalityType
  <2> QED BY <1>3, <2>1
<1> QED BY <1>4 DEF More

\* Nothing at every key sums to nothing.
LEMMA SumOfNothing ==
    ASSUME NEW S, IsFiniteSet(S), NEW f, Sums([x \in S |-> 0], S, f)
    PROVE  f[S] = 0
PROOF
<1> DEFINE bad == {n \in Nat : \E s \in SUBSET S : Cardinality(s) = n /\ f[s] # 0}
           z == [x \in S |-> 0]
<1>1. \A s \in SUBSET S : f[s] = SumOver(z, s, f)
  BY DEF Sums
<1>2. ASSUME NEW s \in SUBSET S, s = {} \/ f[s \ {Any(s)}] = 0 PROVE f[s] = 0
  <2>1. s # {} => z[Any(s)] = 0
    BY OneLess
  <2> HIDE DEF z
  <2> QED BY <1>1, <1>2, <2>1 DEF SumOver
<1>3. bad = {}
  <2> SUFFICES ASSUME bad # {} PROVE FALSE
    OBVIOUS
  <2>1. PICK n \in bad : \A y \in bad : n <= y
    BY LeastExists
  <2>2. PICK s \in SUBSET S : Cardinality(s) = n /\ f[s] # 0
    BY <2>1
  <2>3. s # {} /\ s \ {Any(s)} \in SUBSET S /\ f[s \ {Any(s)}] # 0
        /\ Cardinality(s \ {Any(s)}) = n - 1 /\ n \in Nat \ {0}
    BY <1>2, <2>2, OneLess
  <2>4. n - 1 \in bad
    BY <2>3
  <2> QED BY <2>1, <2>3, <2>4
<1> QED BY <1>3, FS_CardinalityType

\* What the registry knows to have come, per key.
Came == [k \in Keys |-> Count(k) + forgotten[k]]

LEMMA CountedSums ==
    RegistryAssumption /\ Came \in [Keys -> Nat] =>
        \E h : Sums(Came, Keys, h) /\ (PacketsAddUp <=> packet_count = h[Keys])
PROOF
<1> SUFFICES ASSUME RegistryAssumption, Came \in [Keys -> Nat]
             PROVE  \E h : Sums(Came, Keys, h) /\ (PacketsAddUp <=> packet_count = h[Keys])
  OBVIOUS
<1> DEFINE P(f) == f = [s \in SUBSET Keys |->
                           IF s = {} THEN 0
                           ELSE LET x == CHOOSE x \in s : TRUE
                                IN  Count(x) + forgotten[x] + f[s \ {x}]]
           g == CHOOSE f : P(f)
<1>1. PacketsAddUp <=> packet_count = g[Keys]
  BY DEF PacketsAddUp, MapThenSumSet, MapThenFoldSet
<1>2. \A s \in SUBSET Keys : s # {} => Came[Any(s)] = Count(Any(s)) + forgotten[Any(s)]
  BY DEF Came, Any
<1>3. ASSUME NEW f PROVE P(f) <=> Sums(Came, Keys, f)
  BY <1>2 DEF Sums, SumOver, Any
<1>4. \E f : Sums(Came, Keys, f)
  BY SumsExist DEF RegistryAssumption
<1> HIDE DEF P
<1>5. P(g)
  BY <1>3, <1>4
<1> HIDE DEF g
<1> QED BY <1>1, <1>3, <1>5

\* An update adds one to what came, and the record that made room keeps what it counted.
LEMMA UpdateAdds ==
    ASSUME RegistryAssumption, RegistryTypeOK, NEW k \in Keys, Update(k),
           packet_count' = packet_count + 1, PacketsAddUp
    PROVE  PacketsAddUp'
PROOF
<1>1. PICK kept \in Kept(k) :
        /\ devices' = [j \in kept \cup {k} |->
                          IF j = k THEN [last_seen |-> now, packet_count |-> Count(k) + 1]
                                   ELSE devices[j]]
        /\ forgotten' = [j \in Keys |-> forgotten[j] + (IF j \in Known \ kept THEN Count(j) ELSE 0)]
  BY DEF Update
<1>2. kept \subseteq Known /\ Known \subseteq Keys /\ (k \in Known => kept = Known)
  BY UpdateKeeps DEF RegistryTypeOK, Kept
<1>3. /\ forgotten \in [Keys -> Nat] /\ \A j \in Keys : Count(j) \in Nat
      /\ Came = [j \in Keys |-> Count(j) + forgotten[j]]
  BY DEF RegistryTypeOK, Count, Came
<1>4. Came \in [Keys -> Nat]
  BY <1>3
<1>5. \A j \in Keys : Count(j)' = IF j = k THEN Count(k) + 1 ELSE IF j \in kept THEN Count(j) ELSE 0
  BY <1>1, <1>2 DEF Count, Known
<1>6. Came' = [Came EXCEPT ![k] = Came[k] + 1]
  <2>1. Came' = [j \in Keys |-> Count(j)' + forgotten'[j]]
    BY DEF Came
  <2>2. ASSUME NEW j \in Keys PROVE Count(j)' + forgotten'[j] = IF j = k THEN Came[k] + 1 ELSE Came[j]
    <3>1. forgotten'[j] = forgotten[j] + (IF j \in Known \ kept THEN Count(j) ELSE 0)
      BY <1>1
    <3>2. j \notin Known => Count(j) = 0
      BY DEF Count
    <3>3. CASE j = k
      BY <1>2, <1>3, <1>5, <3>1, <3>3
    <3>4. CASE j # k
      BY <1>2, <1>3, <1>5, <3>1, <3>2, <3>4
    <3> QED BY <3>3, <3>4
  <2> QED BY <1>4, <2>1, <2>2
<1>7. PICK f : Sums(Came, Keys, f) /\ packet_count = f[Keys]
  BY <1>4, CountedSums
<1>8. Came' \in [Keys -> Nat]
  BY <1>4, <1>6
<1>9. PICK g : Sums(Came', Keys, g) /\ (PacketsAddUp' <=> packet_count' = g[Keys])
  <2>1. (RegistryAssumption /\ Came \in [Keys -> Nat] =>
            \E h : Sums(Came, Keys, h) /\ (PacketsAddUp <=> packet_count = h[Keys]))'
    BY CountedSums, PTL
  <2> QED BY <1>8, <2>1 DEF RegistryAssumption
<1>10. g[Keys] = f[Keys] + 1
  <2> DEFINE p == Came
             q == Came'
  <2>1. IsFiniteSet(Keys) /\ p \in [Keys -> Nat] /\ (\A x \in Keys : q[x] = IF x = k THEN p[x] + 1 ELSE p[x])
        /\ Sums(p, Keys, f) /\ Sums(q, Keys, g)
    BY <1>4, <1>6, <1>7, <1>9 DEF RegistryAssumption
  <2> HIDE DEF p, q
  <2> QED BY <2>1, SumGrows
<1> QED BY <1>7, <1>9, <1>10

\* Without an update the sum stays.
LEMMA NothingAdds ==
    ASSUME UNCHANGED <<devices, forgotten, packet_count>>, PacketsAddUp
    PROVE  PacketsAddUp'
  BY DEF PacketsAddUp, Count, Known, MapThenSumSet, MapThenFoldSet

\* An empty registry has counted nothing.
LEMMA NothingCame ==
    RegistryAssumption /\ devices = NoDevices /\ forgotten = [k \in Keys |-> 0] /\ packet_count = 0
        => PacketsAddUp
PROOF
<1> SUFFICES ASSUME RegistryAssumption, devices = NoDevices, forgotten = [k \in Keys |-> 0],
                    packet_count = 0
             PROVE  PacketsAddUp
  OBVIOUS
<1>1. Came = [k \in Keys |-> 0]
  BY DEF Came, Count, Known, NoDevices
<1>2. PICK f : Sums(Came, Keys, f) /\ (PacketsAddUp <=> packet_count = f[Keys])
  BY <1>1, CountedSums
<1>3. f[Keys] = 0
  BY <1>1, <1>2, SumOfNothing DEF RegistryAssumption
<1> QED BY <1>2, <1>3

-----------------------------------------------------------------------------
(* The registry as a specification of its own. *)

\* Every packet keeps the types and the comparison with the evicted devices.
LEMMA NextRegistry ==
    ASSUME RegistryAssumption, RegistryInv, [RegistryNext]_registryVars
    PROVE  RegistryInv'
PROOF
<1>1. RegistryTypeOK /\ RecencyInv
  BY DEF RegistryInv
<1>2. CASE \E k \in Keys : Packet(k)
  <2>1. PICK k \in Keys : /\ Update(k) /\ now' = now
                          /\ packet_count' = packet_count + 1
    BY <1>2 DEF Packet
  <2>2. now' \in 1..MaxTime /\ packet_count' \in Nat
    BY <2>1, <1>1 DEF RegistryTypeOK
  <2> QED BY <2>1, <2>2, <1>1, UpdateType, UpdateRecency DEF RegistryInv, RegistryTypeOK
<1>3. CASE Tick
  <2>1. now' \in 1..MaxTime /\ now' > now
    BY <1>1, <1>3 DEF Tick, RegistryTypeOK, RegistryAssumption
  <2>2. devices' = devices /\ Known' = Known /\ latest' = latest /\ forgotten' = forgotten
        /\ packet_count' = packet_count
    BY <1>3 DEF Tick, registry, Known
  <2>3. RegistryTypeOK'
    BY <2>1, <2>2, <1>1 DEF RegistryTypeOK
  <2>4. \A k \in Keys : latest[k] \in Nat
    BY <1>1 DEF RegistryTypeOK, RegistryAssumption
  <2>5. \A k \in Keys : latest'[k] <= now'
    BY <2>1, <2>2, <2>4, <1>1 DEF RecencyInv, RegistryTypeOK
  <2> QED BY <2>2, <2>3, <2>5, <1>1 DEF RegistryInv, RecencyInv
<1>4. CASE Reset
  <2>1. /\ Known' = {} /\ devices' = NoDevices /\ latest' = [k \in Keys |-> 0]
        /\ forgotten' = [k \in Keys |-> 0] /\ now' = now /\ packet_count' = 0
    BY <1>4 DEF Reset, Known, NoDevices
  <2>2. Cardinality(Known') <= Capacity
    BY <2>1, FS_EmptySet DEF RegistryAssumption
  <2>3. devices' \in [Known' -> [last_seen : 1..MaxTime, packet_count : Nat \ {0}]]
    BY <2>1 DEF NoDevices
  <2>4. RegistryTypeOK'
    BY <2>1, <2>2, <2>3, <1>1 DEF RegistryTypeOK, RegistryAssumption
  <2>5. now \in Nat
    BY <1>1 DEF RegistryTypeOK
  <2> QED BY <2>1, <2>4, <2>5 DEF RegistryInv, RecencyInv
<1>5. CASE UNCHANGED registryVars
  <2>1. devices' = devices /\ Known' = Known /\ latest' = latest /\ forgotten' = forgotten
        /\ packet_count' = packet_count /\ now' = now
    BY <1>5 DEF registryVars, registry, Known
  <2> QED BY <2>1, <1>1 DEF RegistryInv, RegistryTypeOK, RecencyInv
<1> QED BY <1>2, <1>3, <1>4, <1>5 DEF RegistryNext

LEMMA RegistryInvariant == RegistrySpec => []RegistryInv
PROOF
<1>1. RegistryAssumption /\ RegistryInit => RegistryInv
  <2> SUFFICES ASSUME RegistryAssumption, RegistryInit PROVE RegistryInv
    OBVIOUS
  <2>1. Known = {} /\ devices \in [Known -> [last_seen : 1..MaxTime, packet_count : Nat \ {0}]]
    BY DEF RegistryInit, NoDevices, Known
  <2>2. Cardinality(Known) <= Capacity
    BY <2>1, FS_EmptySet DEF RegistryAssumption
  <2>3. RegistryTypeOK
    BY <2>1, <2>2 DEF RegistryInit, RegistryTypeOK, RegistryAssumption
  <2> QED BY <2>1, <2>3 DEF RegistryInit, RegistryInv, RecencyInv
<1> QED BY <1>1, RegistryAssumption, NextRegistry, PTL DEF RegistrySpec

\* The registry never holds more records than its capacity, whatever the packets.
THEOREM RegistryBounded == RegistrySpec => []RegistryTypeOK
PROOF
<1>1. RegistryInv => RegistryTypeOK
  BY DEF RegistryInv
<1> QED BY <1>1, RegistryInvariant, PTL

\* A device is missing only when at least as many others as the capacity were seen no
\* earlier: one eviction at a time keeps the most recent devices.
THEOREM MostRecentAreListed == RegistrySpec => []RecentAreListed
PROOF
<1>1. ASSUME RegistryAssumption, RegistryInv PROVE RecentAreListed
  <2> SUFFICES ASSUME NEW k \in Keys, latest[k] > 0, k \notin Known
               PROVE  ~ (Cardinality({j \in Keys \ {k} : latest[j] >= latest[k]}) < Capacity)
    BY DEF RecentAreListed
  <2> DEFINE others == {j \in Keys \ {k} : latest[j] >= latest[k]}
  <2>1. Cardinality(Known) = Capacity /\ \A j \in Known : latest[k] <= latest[j]
    BY <1>1 DEF RegistryInv, RecencyInv
  <2>2. Known \subseteq Keys /\ latest \in [Keys -> 0..MaxTime]
    BY <1>1 DEF RegistryInv, RegistryTypeOK
  <2>3. Known \subseteq others
    BY <2>1, <2>2
  <2>4. IsFiniteSet(others)
    BY <1>1, FS_Subset DEF RegistryAssumption
  <2> HIDE DEF others
  <2>5. Cardinality(Known) <= Cardinality(others) /\ Cardinality(others) \in Nat
    BY <2>3, <2>4, FS_Subset, FS_CardinalityType
  <2>6. ~ (Cardinality(others) < Capacity)
    BY <1>1, <2>1, <2>5 DEF RegistryAssumption
  <2> QED BY <2>6 DEF others
<1> QED BY <1>1, RegistryAssumption, RegistryInvariant, PTL

\* However many devices come, leave and come back, every packet is in the count of a listed
\* device or in those of evicted ones.
THEOREM EveryPacketCounted == RegistrySpec => []PacketsAddUp
PROOF
<1>1. RegistryAssumption /\ RegistryInit => PacketsAddUp
  BY NothingCame DEF RegistryInit
<1>2. RegistryAssumption /\ RegistryTypeOK /\ PacketsAddUp /\ [RegistryNext]_registryVars => PacketsAddUp'
  <2> SUFFICES ASSUME RegistryAssumption, RegistryTypeOK, PacketsAddUp, [RegistryNext]_registryVars
               PROVE  PacketsAddUp'
    OBVIOUS
  <2>1. ASSUME NEW k \in Keys, Packet(k) PROVE PacketsAddUp'
    BY <2>1, UpdateAdds DEF Packet
  <2>2. CASE Tick \/ UNCHANGED registryVars
    <3>1. UNCHANGED <<devices, forgotten, packet_count>>
      BY <2>2 DEF Tick, registryVars, registry
    <3> QED BY <3>1, NothingAdds
  <2>3. CASE Reset
    <3>1. devices' = NoDevices /\ forgotten' = [k \in Keys |-> 0] /\ packet_count' = 0
      BY <2>3 DEF Reset
    <3>2. (RegistryAssumption /\ devices = NoDevices /\ forgotten = [k \in Keys |-> 0] /\ packet_count = 0
             => PacketsAddUp)'
      BY NothingCame, PTL
    <3> QED BY <3>1, <3>2 DEF RegistryAssumption, NoDevices
  <2> QED BY <2>1, <2>2, <2>3 DEF RegistryNext
<1> QED BY <1>1, <1>2, RegistryAssumption, RegistryBounded, PTL DEF RegistrySpec
=============================================================================
