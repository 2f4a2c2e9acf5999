------------------------- MODULE CommandLine_proofs -------------------------
(***************************************************************************)
(* Proofs about CommandLine, for any files, dialogues and command lines:   *)
(* every certificate stays with its host, what was entered is scanned, and *)
(* each target, and each level of a result, is what its layers say.        *)
(***************************************************************************)
EXTENDS CommandLine, FiniteSetTheorems, TLAPS

-----------------------------------------------------------------------------
(* Picked lists: the positions in their order.                              *)

LEMMA Interval ==
  ASSUME NEW n \in Nat
  PROVE  IsFiniteSet(1..n) /\ Cardinality(1..n) = n
<1>1. Cardinality(1..n) = IF 1 > n THEN 0 ELSE n - 1 + 1
  BY FS_Interval
<1>2. IsFiniteSet(1..n)
  BY FS_Interval
<1>. QED
  BY <1>1, <1>2

\* How many positions there are up to one
Rank(positions, i) == Cardinality({j \in positions : j <= i})

\* The ranks are 1..Cardinality(positions), in the order of the positions
LEMMA Ranks ==
  ASSUME NEW n \in Nat, NEW I \in SUBSET (1..n)
  PROVE  /\ Cardinality(I) \in Nat
         /\ \A i \in I : Rank(I, i) \in 1..Cardinality(I)
         /\ \A i, k \in I : i < k => Rank(I, i) < Rank(I, k)
         /\ \A r \in 1..Cardinality(I) : \E i \in I : Rank(I, i) = r
<1>1. IsFiniteSet(I) /\ Cardinality(I) \in Nat
  BY Interval, FS_Subset, FS_CardinalityType
<1>2. ASSUME NEW i \in I
      PROVE  /\ IsFiniteSet({j \in I : j <= i})
             /\ Rank(I, i) \in 1..Cardinality(I)
  <2>1. PICK S : S = {j \in I : j <= i}
    OBVIOUS
  <2>2. IsFiniteSet(S) /\ Cardinality(S) <= Cardinality(I)
    BY <1>1, <2>1, FS_Subset
  <2>3. Cardinality(S) \in Nat /\ Cardinality(S) # 0
    BY <2>1, <2>2, FS_CardinalityType, FS_EmptySet
  <2>. QED
    BY <1>1, <2>1, <2>2, <2>3 DEF Rank
<1>3. ASSUME NEW i \in I, NEW k \in I, i < k
      PROVE  Rank(I, i) < Rank(I, k)
  <2>1. PICK S : S = {j \in I : j <= i}
    OBVIOUS
  <2>2. PICK T : T = {j \in I : j <= k}
    OBVIOUS
  <2>3. S \subseteq T /\ k \in T /\ k \notin S
    <3>1. \A j \in I : j \in Int
      OBVIOUS
    <3>2. ASSUME NEW j \in S PROVE j \in T
      BY <1>3, <2>1, <2>2, <3>1
    <3>3. k \in T
      BY <2>2, <3>1
    <3>4. k \notin S
      BY <1>3, <2>1, <3>1
    <3>. QED
      BY <3>2, <3>3, <3>4
  <2>4. IsFiniteSet(T) /\ IsFiniteSet(S)
    BY <1>2, <2>1, <2>2
  <2>5. Cardinality(S) <= Cardinality(T) /\ (Cardinality(S) = Cardinality(T) => S = T)
    BY <2>3, <2>4, FS_Subset
  <2>6. Cardinality(S) \in Nat /\ Cardinality(T) \in Nat
    BY <2>4, FS_CardinalityType
  <2>. QED
    BY <2>1, <2>2, <2>3, <2>5, <2>6 DEF Rank
<1>4. PICK f : f = [i \in I |-> Rank(I, i)]
  OBVIOUS
<1>5. f \in Injection(I, 1..Cardinality(I))
  <2>1. f \in [I -> 1..Cardinality(I)]
    BY <1>2, <1>4
  <2>2. ASSUME NEW i \in I, NEW k \in I, f[i] = f[k] PROVE i = k
    <3>1. f[i] \in 1..Cardinality(I) /\ f[k] \in 1..Cardinality(I)
      BY <2>1
    <3>2. (i < k => f[i] < f[k]) /\ (k < i => f[k] < f[i])
      BY <1>3, <1>4
    <3>. QED
      BY <1>1, <2>2, <3>1, <3>2
  <2>. QED
    BY <2>1, <2>2 DEF Injection, IsInjective
<1>6. f \in Surjection(I, 1..Cardinality(I))
  <2>1. IsFiniteSet(1..Cardinality(I)) /\ Cardinality(1..Cardinality(I)) = Cardinality(I)
    BY <1>1, Interval
  <2>. QED
    BY <1>1, <1>5, <2>1, FS_Injection
<1>7. ASSUME NEW r \in 1..Cardinality(I) PROVE \E i \in I : Rank(I, i) = r
  BY <1>4, <1>6 DEF Surjection
<1>. QED
  BY <1>1, <1>2, <1>3, <1>7

LEMMA NthRank ==
  ASSUME NEW n \in Nat, NEW I \in SUBSET (1..n)
  PROVE  /\ \A r \in 1..Cardinality(I) : Nth(I, r) \in I
         /\ \A r, s \in 1..Cardinality(I) : r < s => Nth(I, r) < Nth(I, s)
         /\ \A i \in I : \E r \in 1..Cardinality(I) : Nth(I, r) = i
<1>1. ASSUME NEW r \in 1..Cardinality(I)
      PROVE  Nth(I, r) \in I /\ Rank(I, Nth(I, r)) = r
  <2>1. \E i \in I : Rank(I, i) = r
    BY Ranks
  <2>. QED
    BY <2>1 DEF Nth, Rank
<1>2. ASSUME NEW r \in 1..Cardinality(I), NEW s \in 1..Cardinality(I), r < s
      PROVE  Nth(I, r) < Nth(I, s)
  <2>1. PICK i \in I : i = Nth(I, r) /\ Rank(I, i) = r
    BY <1>1
  <2>2. PICK k \in I : k = Nth(I, s) /\ Rank(I, k) = s
    BY <1>1
  <2>3. k < i => s < r
    BY <2>1, <2>2, Ranks
  <2>4. k # i /\ ~(k < i)
    BY <1>2, <2>1, <2>2, <2>3, Ranks
  <2>. QED
    BY <2>1, <2>2, <2>4
<1>3. ASSUME NEW i \in I PROVE \E r \in 1..Cardinality(I) : Nth(I, r) = i
  <2>1. PICK r \in 1..Cardinality(I) : r = Rank(I, i)
    BY Ranks
  <2>2. PICK k \in I : k = Nth(I, r) /\ Rank(I, k) = r
    BY <1>1
  <2>3. (i < k => r < r) /\ (k < i => r < r)
    BY <2>1, <2>2, Ranks
  <2>. QED
    BY <2>1, <2>2, <2>3, Ranks
<1>. QED
  BY <1>1, <1>2, <1>3

\* The first position is the least one
LEMMA NthFirst ==
  ASSUME NEW n \in Nat, NEW I \in SUBSET (1..n), I # {}
  PROVE  Nth(I, 1) \in I /\ \A i \in I : Nth(I, 1) <= i
<1>1. Cardinality(I) \in Nat /\ 1 \in 1..Cardinality(I)
  <2>1. PICK i : i \in I
    OBVIOUS
  <2>2. Cardinality(I) \in Nat /\ Rank(I, i) \in 1..Cardinality(I)
    BY <2>1, Ranks
  <2>. QED
    BY <2>2
<1>2. ASSUME NEW i \in I PROVE Nth(I, 1) <= i
  <2>1. PICK r \in 1..Cardinality(I) : Nth(I, r) = i
    BY NthRank
  <2>2. 1 < r => Nth(I, 1) < Nth(I, r)
    BY <1>1, NthRank
  <2>3. Nth(I, 1) \in 1..n /\ i \in 1..n
    BY <1>1, NthRank
  <2>. QED
    BY <1>1, <2>1, <2>2, <2>3
<1>. QED
  BY <1>1, <1>2, NthRank

LEMMA ElementOf ==
  ASSUME NEW S, NEW list \in Seq(S), NEW i \in DOMAIN list
  PROVE  list[i] \in S
OBVIOUS

LEMMA ListOf ==
  ASSUME NEW S, NEW n \in Nat, NEW list \in [1..n -> S]
  PROVE  list \in Seq(S) /\ Len(list) = n
OBVIOUS

LEMMA PickedList ==
  ASSUME NEW S, NEW list \in Seq(S), NEW I \in SUBSET DOMAIN list, NEW p, p = Picked(list, I)
  PROVE  /\ p \in Seq(S)
         /\ Len(p) = Cardinality(I)
         /\ \A k \in DOMAIN p : Nth(I, k) \in I /\ p[k] = list[Nth(I, k)]
         /\ \A i \in I : \E k \in DOMAIN p : Nth(I, k) = i
         /\ \A k, m \in DOMAIN p : k # m => Nth(I, k) # Nth(I, m)
         /\ p = << >> <=> I = {}
<1>1. I \in SUBSET (1..Len(list)) /\ Len(list) \in Nat
  OBVIOUS
<1>2. Cardinality(I) \in Nat /\ \A r \in 1..Cardinality(I) : Nth(I, r) \in I
  BY <1>1, Ranks, NthRank
<1>4. p = [k \in 1..Cardinality(I) |-> list[Nth(I, k)]]
  BY DEF Picked
<1>5. p \in Seq(S) /\ Len(p) = Cardinality(I) /\ DOMAIN p = 1..Cardinality(I)
  <2>1. ASSUME NEW k \in 1..Cardinality(I) PROVE list[Nth(I, k)] \in S
    BY <1>2
  <2>2. p \in [1..Cardinality(I) -> S]
    BY <1>4, <2>1
  <2>. QED
    BY <1>2, <1>4, <2>2
<1>6. \A i \in I : \E k \in DOMAIN p : Nth(I, k) = i
  BY <1>1, <1>5, NthRank
<1>7. ASSUME NEW k \in DOMAIN p, NEW m \in DOMAIN p, k # m PROVE Nth(I, k) # Nth(I, m)
  <2>1. (k < m => Nth(I, k) < Nth(I, m)) /\ (m < k => Nth(I, m) < Nth(I, k))
    BY <1>1, <1>5, NthRank
  <2>2. Nth(I, k) \in 1..Len(list) /\ Nth(I, m) \in 1..Len(list)
    BY <1>1, <1>2, <1>5
  <2>3. k \in Nat /\ m \in Nat
    BY <1>2, <1>5
  <2>. QED
    BY <1>7, <2>1, <2>2, <2>3
<1>8. p = << >> <=> I = {}
  <2>1. I = {} => Cardinality(I) = 0
    BY FS_EmptySet
  <2>2. I # {} => Cardinality(I) # 0
    BY <1>5, <1>6
  <2>. QED
    BY <1>5, <2>1, <2>2
<1>. QED
  BY <1>2, <1>4, <1>5, <1>6, <1>7, <1>8

-----------------------------------------------------------------------------
(* Merged lists of dictionaries.                                            *)

\* Two entries with the same value of a key keep it when they are merged
LEMMA UpdatedKey ==
  ASSUME NEW key, NEW item1, NEW item2, Get(item1, key, None) = Get(item2, key, None)
  PROVE  Get(Updated(item1, item2), key, None) = Get(item2, key, None)
BY DEF Get, Updated

\* The pair that the k-th turn of a nested loop looks at
Pair(n, k) == <<((k - 1) \div n) + 1, ((k - 1) % n) + 1>>

LEMMA PairAt ==
  ASSUME NEW m \in Nat, NEW n \in Nat, NEW turns \in Nat, turns = m * n, NEW k \in 1..turns
  PROVE  Pair(n, k) \in (1..m) \X (1..n)
<1>1. m # 0 /\ n # 0
  OBVIOUS
<1>2. ((k - 1) \div n) + 1 \in 1..m /\ ((k - 1) % n) + 1 \in 1..n
  BY <1>1
<1>. QED
  BY <1>2 DEF Pair

LEMMA TurnOf ==
  ASSUME NEW m \in Nat, NEW n \in Nat, NEW turns \in Nat, turns = m * n,
         NEW i \in 1..m, NEW j \in 1..n
  PROVE  \E k \in 1..turns : Pair(n, k) = <<i, j>>
<1> DEFINE k == (i - 1) * n + j
<1>1. m \in Nat \ {0}
  OBVIOUS
<1>2. k \in 1..turns /\ ((k - 1) \div n) + 1 = i /\ ((k - 1) % n) + 1 = j
  BY <1>1
<1> HIDE DEF k
<1>3. Pair(n, k) = <<i, j>>
  BY <1>2 DEF Pair
<1>. QED
  BY <1>2, <1>3

LEMMA SamePair ==
  ASSUME NEW m \in Nat, NEW n \in Nat, NEW turns \in Nat, turns = m * n,
         NEW k \in 1..turns, NEW l \in 1..turns, Pair(n, k) = Pair(n, l)
  PROVE  k = l
<1>1. m \in Nat \ {0} /\ n \in Nat \ {0} /\ k - 1 \in Nat /\ l - 1 \in Nat
  OBVIOUS
<1>2. /\ k - 1 = n * ((k - 1) \div n) + ((k - 1) % n)
      /\ l - 1 = n * ((l - 1) \div n) + ((l - 1) % n)
  BY <1>1
<1>3. (k - 1) \div n \in Int /\ (l - 1) \div n \in Int /\ (k - 1) % n \in Int /\ (l - 1) % n \in Int
  BY <1>1
<1>4. ((k - 1) \div n) + 1 = ((l - 1) \div n) + 1 /\ ((k - 1) % n) + 1 = ((l - 1) % n) + 1
  BY DEF Pair
<1>. QED
  BY <1>1, <1>2, <1>3, <1>4

LEMMA MatchPairs ==
  ASSUME NEW S, NEW list1 \in Seq(S), NEW list2 \in Seq(S), NEW key,
         NEW matches, matches = Matches(list1, list2, key)
  PROVE  /\ \E n \in Nat : DOMAIN matches = 1..n
         /\ \A k \in DOMAIN matches :
              \E i \in DOMAIN list1 : \E j \in DOMAIN list2 : matches[k] = <<i, j>>
         /\ \A k \in DOMAIN matches :
              Get(list1[matches[k][1]], key, None) = Get(list2[matches[k][2]], key, None)
         /\ \A k, l \in DOMAIN matches : k # l => matches[k] # matches[l]
         /\ \A i \in DOMAIN list1 : \A j \in DOMAIN list2 :
              Get(list1[i], key, None) = Get(list2[j], key, None) => \E k \in DOMAIN matches : matches[k] = <<i, j>>
<1>1. PICK m \in Nat, n \in Nat : m = Len(list1) /\ n = Len(list2)
  OBVIOUS
<1>6. PICK turns \in Nat : turns = m * n
  OBVIOUS
<1>2. PICK all : all = [k \in 1..turns |-> Pair(n, k)]
  OBVIOUS
<1>3. PICK I : I = {k \in DOMAIN all : Get(list1[all[k][1]], key, None) = Get(list2[all[k][2]], key, None)}
  OBVIOUS
<1>4. PICK p : p = Picked(all, I)
  OBVIOUS
<1>5. Matches(list1, list2, key) = p
  BY <1>1, <1>2, <1>3, <1>4, <1>6 DEF Matches, Pair
<1>7. all \in Seq((DOMAIN list1) \X (DOMAIN list2)) /\ DOMAIN all = 1..turns
  <2>1. ASSUME NEW k \in 1..turns PROVE Pair(n, k) \in (DOMAIN list1) \X (DOMAIN list2)
    <3>1. Pair(n, k) \in (1..m) \X (1..n)
      BY <1>6, PairAt
    <3>2. DOMAIN list1 = 1..m /\ DOMAIN list2 = 1..n
      BY <1>1
    <3>. QED
      BY <3>1, <3>2
  <2>2. PICK R : R = (DOMAIN list1) \X (DOMAIN list2)
    OBVIOUS
  <2>3. all \in [1..turns -> R]
    BY <1>2, <2>1, <2>2
  <2>. QED
    BY <2>2, <2>3
<1>8. I \in SUBSET DOMAIN all
  BY <1>3
<1>9. /\ \E r \in Nat : DOMAIN p = 1..r
      /\ \A k \in DOMAIN p : \E i \in DOMAIN list1 : \E j \in DOMAIN list2 : p[k] = <<i, j>>
      /\ \A k \in DOMAIN p : Nth(I, k) \in I /\ p[k] = all[Nth(I, k)]
      /\ \A i \in I : \E k \in DOMAIN p : Nth(I, k) = i
      /\ \A k, l \in DOMAIN p : k # l => Nth(I, k) # Nth(I, l)
  <2>1. PICK R : R = (DOMAIN list1) \X (DOMAIN list2)
    OBVIOUS
  <2>2. all \in Seq(R)
    BY <1>7, <2>1
  <2>3. /\ p \in Seq(R)
        /\ \A k \in DOMAIN p : Nth(I, k) \in I /\ p[k] = all[Nth(I, k)]
        /\ \A i \in I : \E k \in DOMAIN p : Nth(I, k) = i
        /\ \A k, l \in DOMAIN p : k # l => Nth(I, k) # Nth(I, l)
    BY <1>4, <1>8, <2>2, PickedList
  <2>4. ASSUME NEW k \in DOMAIN p PROVE p[k] \in R
    BY <2>3, ElementOf
  <2>. QED
    BY <2>1, <2>3, <2>4
<1>10. ASSUME NEW k \in DOMAIN p
       PROVE  Get(list1[p[k][1]], key, None) = Get(list2[p[k][2]], key, None)
  BY <1>3, <1>9
<1>11. ASSUME NEW k \in DOMAIN p, NEW l \in DOMAIN p, k # l PROVE p[k] # p[l]
  <2>1. PICK a, b : a = Nth(I, k) /\ b = Nth(I, l)
    OBVIOUS
  <2>2. a \in DOMAIN all /\ b \in DOMAIN all /\ a # b /\ p[k] = all[a] /\ p[l] = all[b]
    <3>1. a \in I /\ p[k] = all[a] /\ b \in I /\ p[l] = all[b]
      BY <1>9, <2>1
    <3>2. a # b
      BY <1>9, <1>11, <2>1
    <3>. QED
      BY <1>8, <3>1, <3>2
  <2>3. all[a] = Pair(n, a) /\ all[b] = Pair(n, b) /\ a \in 1..turns /\ b \in 1..turns
    BY <1>2, <2>2
  <2>4. ASSUME all[a] = all[b] PROVE FALSE
    <3>1. Pair(n, a) = Pair(n, b)
      BY <2>3, <2>4
    <3>2. a = b
      BY ZenonT(60), <1>6, <2>3, <3>1, SamePair
    <3>. QED
      BY <2>2, <3>2
  <2>. QED
    BY <2>2, <2>4
<1>12. ASSUME NEW i \in DOMAIN list1, NEW j \in DOMAIN list2,
              Get(list1[i], key, None) = Get(list2[j], key, None)
       PROVE  \E k \in DOMAIN p : p[k] = <<i, j>>
  <2>1. i \in 1..m /\ j \in 1..n
    BY <1>1
  <2>2. \E k \in 1..turns : Pair(n, k) = <<i, j>>
    BY ZenonT(60), <1>6, <2>1, TurnOf
  <2>3. PICK a \in 1..turns : Pair(n, a) = <<i, j>>
    BY <2>2
  <2>4. a \in DOMAIN all /\ all[a] = <<i, j>>
    BY <1>2, <2>3
  <2>5. a \in I
    BY <1>3, <1>12, <2>4
  <2>6. PICK k \in DOMAIN p : Nth(I, k) = a
    BY <1>9, <2>5
  <2>7. p[k] = all[a]
    BY <1>9, <2>6
  <2>. QED
    BY <2>4, <2>7
<1>. QED
  <2>1. matches = p
    BY <1>5
  <2>2. \E r \in Nat : DOMAIN matches = 1..r
    <3>1. PICK r \in Nat : DOMAIN p = 1..r
      BY <1>9
    <3>. QED
      BY <2>1, <3>1
  <2>3. \A k \in DOMAIN matches :
          \E i \in DOMAIN list1 : \E j \in DOMAIN list2 : matches[k] = <<i, j>>
    <3>1. ASSUME NEW k \in DOMAIN p
          PROVE  \E i \in DOMAIN list1 : \E j \in DOMAIN list2 : p[k] = <<i, j>>
      BY ONLY <1>9, <3>1
    <3>. QED
      BY ONLY <2>1, <3>1
  <2>4. \A k \in DOMAIN matches :
          Get(list1[matches[k][1]], key, None) = Get(list2[matches[k][2]], key, None)
    BY <1>10, <2>1
  <2>5. \A k, l \in DOMAIN matches : k # l => matches[k] # matches[l]
    BY <1>11, <2>1
  <2>. QED
    BY <1>12, <2>1, <2>2, <2>3, <2>4, <2>5

\* Concatenation, for which the provers need these facts in first-order form
Joined(a, b) == a \o b

LEMMA Concat ==
  ASSUME NEW S, NEW a \in Seq(S), NEW b \in Seq(S), NEW c, c = Joined(a, b)
  PROVE  /\ c \in Seq(S)
         /\ \A j \in DOMAIN a : j \in DOMAIN c /\ c[j] = a[j]
         /\ \A j \in DOMAIN b : Len(a) + j \in DOMAIN c /\ c[Len(a) + j] = b[j]
         /\ \A j \in DOMAIN c : j \in DOMAIN a \/ \E i \in DOMAIN b : j = Len(a) + i
<1>1. c \in Seq(S) /\ Len(c) = Len(a) + Len(b)
  BY DEF Joined
<1>2. DOMAIN c = 1..(Len(a) + Len(b)) /\ DOMAIN a = 1..Len(a) /\ DOMAIN b = 1..Len(b)
  BY <1>1
<1>3. Len(a) \in Nat /\ Len(b) \in Nat
  OBVIOUS
<1>4. ASSUME NEW j \in DOMAIN a PROVE j \in DOMAIN c /\ c[j] = a[j]
  BY <1>2, <1>3 DEF Joined
<1>5. ASSUME NEW j \in DOMAIN b PROVE Len(a) + j \in DOMAIN c /\ c[Len(a) + j] = b[j]
  BY <1>2, <1>3 DEF Joined
<1>6. ASSUME NEW j \in DOMAIN c PROVE j \in DOMAIN a \/ \E i \in DOMAIN b : j = Len(a) + i
  <2>1. j \in DOMAIN a \/ j - Len(a) \in DOMAIN b
    BY <1>2, <1>3
  <2>2. j = Len(a) + (j - Len(a))
    BY <1>2, <1>3
  <2>. QED
    BY <2>1, <2>2
<1>. QED
  BY <1>1, <1>4, <1>5, <1>6

LEMMA TwoJoined ==
  ASSUME NEW x, NEW y PROVE Joined(<<x>>, <<y>>) = <<x, y>>
<1>1. PICK a, b, T : a = <<x>> /\ b = <<y>> /\ T = {x, y}
  OBVIOUS
<1>2. /\ a \in Seq(T) /\ b \in Seq(T) /\ Len(a) = 1 /\ Len(b) = 1
      /\ DOMAIN a = {1} /\ DOMAIN b = {1} /\ a[1] = x /\ b[1] = y
  BY <1>1
<1>3. PICK c : c = Joined(a, b)
  OBVIOUS
<1>4. /\ c \in Seq(T)
      /\ \A j \in DOMAIN a : j \in DOMAIN c /\ c[j] = a[j]
      /\ \A j \in DOMAIN b : Len(a) + j \in DOMAIN c /\ c[Len(a) + j] = b[j]
      /\ \A j \in DOMAIN c : j \in DOMAIN a \/ \E i \in DOMAIN b : j = Len(a) + i
  BY <1>2, <1>3, Concat
<1>5. DOMAIN c = {1, 2} /\ c[1] = x /\ c[2] = y
  <2>1. 1 \in DOMAIN c /\ c[1] = x
    BY <1>2, <1>4
  <2>2. Len(a) + 1 \in DOMAIN c /\ c[Len(a) + 1] = y
    BY <1>2, <1>4
  <2>3. Len(a) + 1 = 2
    BY <1>2
  <2>4. ASSUME NEW j \in DOMAIN c PROVE j = 1 \/ j = 2
    BY <1>2, <1>4, <2>3
  <2>. QED
    BY <2>1, <2>2, <2>3, <2>4
<1>6. Len(c) = 2
  BY <1>4, <1>5
<1>7. c = <<x, y>>
  BY <1>4, <1>5, <1>6
<1>. QED
  BY <1>1, <1>3, <1>7

\* What Firsts picks has no counterpart in the other list; everything that has none has
\* the key of something it picks
LEMMA FirstEntries ==
  ASSUME NEW S, NEW list \in Seq(S), NEW other \in Seq(S), NEW key,
         NEW first, first = Firsts(list, other, key)
  PROVE  /\ first \in Seq(S)
         /\ \A k \in DOMAIN first : \E i \in DOMAIN list :
              first[k] = list[i] /\ ~Has(other, key, Get(list[i], key, None))
         /\ \A i \in DOMAIN list : ~Has(other, key, Get(list[i], key, None)) =>
              \E k \in DOMAIN first : Get(first[k], key, None) = Get(list[i], key, None)
         /\ Distinct(first, key)
<1>1. PICK I : I = {i \in DOMAIN list : LET value == Get(list[i], key, None)
                                       IN ~Has(SubSeq(list, 1, i - 1) \o other, key, value)}
  OBVIOUS
<1>2. PICK f : f = Picked(list, I)
  OBVIOUS
<1>3. Firsts(list, other, key) = f
  BY <1>1, <1>2 DEF Firsts
<1>4. ASSUME NEW i \in DOMAIN list, NEW value
      PROVE  Has(SubSeq(list, 1, i - 1) \o other, key, value)
               <=> \/ Has(other, key, value)
                   \/ \E j \in DOMAIN list : j < i /\ Get(list[j], key, None) = value
  <2>1. PICK a : a = SubSeq(list, 1, i - 1)
    OBVIOUS
  <2>2. a \in Seq(S) /\ Len(a) = i - 1 /\ \A j \in 1..(i - 1) : a[j] = list[j]
    <3>1. i - 1 \in Nat /\ i - 1 <= Len(list) /\ Len(list) \in Nat
      OBVIOUS
    <3>2. a = [j \in 1..(i - 1) |-> list[j]]
      BY <2>1, <3>1
    <3>3. a \in [1..(i - 1) -> S]
      BY <3>1, <3>2
    <3>4. a \in Seq(S) /\ Len(a) = i - 1
      BY SMTT(30), <3>1, <3>3
    <3>. QED
      BY <3>2, <3>4
  <2>8. PICK c : c = Joined(a, other)
    OBVIOUS
  <2>3. /\ \A j \in DOMAIN a : j \in DOMAIN c /\ c[j] = a[j]
        /\ \A j \in DOMAIN other : Len(a) + j \in DOMAIN c /\ c[Len(a) + j] = other[j]
        /\ \A j \in DOMAIN c : j \in DOMAIN a \/ \E b \in DOMAIN other : j = Len(a) + b
    <3>1. a \in Seq(S)
      BY <2>2
    <3>. QED
      BY <2>8, <3>1, Concat
  <2>7. DOMAIN a = 1..(i - 1) /\ i \in Nat /\ DOMAIN list = 1..Len(list)
    BY <2>2
  <2>4. ASSUME Has(c, key, value)
        PROVE  \/ Has(other, key, value)
               \/ \E j \in DOMAIN list : j < i /\ Get(list[j], key, None) = value
    <3>1. PICK j \in DOMAIN c : Get(c[j], key, None) = value
      BY <2>4 DEF Has
    <3>2. CASE j \in DOMAIN a
      BY <2>2, <2>3, <2>7, <3>1, <3>2
    <3>3. ASSUME NEW b \in DOMAIN other, j = Len(a) + b PROVE Has(other, key, value)
      BY <2>3, <3>1, <3>3 DEF Has
    <3>. QED
      BY <2>3, <3>2, <3>3
  <2>5. ASSUME Has(other, key, value) PROVE Has(c, key, value)
    BY <2>3, <2>5 DEF Has
  <2>6. ASSUME NEW j \in DOMAIN list, j < i, Get(list[j], key, None) = value
        PROVE  Has(c, key, value)
    <3>1. j \in DOMAIN c /\ c[j] = list[j]
      BY <2>2, <2>3, <2>6, <2>7
    <3>. QED
      BY <2>6, <3>1 DEF Has
  <2>. QED
    BY <2>1, <2>4, <2>5, <2>6, <2>8 DEF Joined
<1>5. I = {i \in DOMAIN list : /\ ~Has(other, key, Get(list[i], key, None))
                              /\ \A j \in DOMAIN list : j < i => Get(list[j], key, None) # Get(list[i], key, None)}
  BY <1>1, <1>4
<1>6. /\ f \in Seq(S)
      /\ \A k \in DOMAIN f : Nth(I, k) \in I /\ f[k] = list[Nth(I, k)]
      /\ \A i \in I : \E k \in DOMAIN f : Nth(I, k) = i
      /\ \A k, m \in DOMAIN f : k # m => Nth(I, k) # Nth(I, m)
  <2>1. I \in SUBSET DOMAIN list
    BY <1>5
  <2>. QED
    BY <1>2, <2>1, PickedList
<1>7. ASSUME NEW k \in DOMAIN f
      PROVE  \E i \in DOMAIN list : f[k] = list[i] /\ ~Has(other, key, Get(list[i], key, None))
  BY <1>5, <1>6
<1>8. ASSUME NEW i \in DOMAIN list, ~Has(other, key, Get(list[i], key, None))
      PROVE  \E k \in DOMAIN f : Get(f[k], key, None) = Get(list[i], key, None)
  <2>1. PICK J : J = {j \in DOMAIN list : Get(list[j], key, None) = Get(list[i], key, None)}
    OBVIOUS
  <2>2. J \in SUBSET (1..Len(list)) /\ J # {} /\ Len(list) \in Nat
    BY <2>1
  <2>3. PICK j \in J : \A b \in J : j <= b
    BY <2>2, NthFirst
  <2>4. ASSUME NEW b \in DOMAIN list, b < j PROVE Get(list[b], key, None) # Get(list[j], key, None)
    BY <2>1, <2>2, <2>3, <2>4
  <2>5. j \in I
    BY <1>5, <1>8, <2>1, <2>3, <2>4
  <2>. QED
    BY <1>6, <2>1, <2>3, <2>5
<1>9. Distinct(f, key)
  <2>1. ASSUME NEW k \in DOMAIN f, NEW m \in DOMAIN f, k # m
        PROVE  Get(f[k], key, None) # Get(f[m], key, None)
    <3>1. PICK a \in I, b \in I : a = Nth(I, k) /\ b = Nth(I, m) /\ a # b
      BY <1>6, <2>1
    <3>2. a \in 1..Len(list) /\ b \in 1..Len(list) /\ (a < b \/ b < a)
      BY <1>5, <3>1
    <3>3. a \in DOMAIN list /\ b \in DOMAIN list
      BY <1>5
    <3>4. Get(list[a], key, None) # Get(list[b], key, None)
      BY <1>5, <3>2, <3>3
    <3>. QED
      BY <1>6, <3>1, <3>4
  <2>. QED
    BY <2>1 DEF Distinct
<1>. QED
  BY <1>3, <1>6, <1>7, <1>8, <1>9

LEMMA DistinctJoined ==
  ASSUME NEW S, NEW a \in Seq(S), NEW b \in Seq(S), NEW c, c = Joined(a, b), NEW key,
         Distinct(a, key), Distinct(b, key),
         \A i \in DOMAIN a : \A j \in DOMAIN b : Get(a[i], key, None) # Get(b[j], key, None)
  PROVE  Distinct(c, key)
<1>1. SUFFICES ASSUME NEW k \in DOMAIN c, NEW l \in DOMAIN c, k # l
               PROVE  Get(c[k], key, None) # Get(c[l], key, None)
  BY DEF Distinct
<1>2. /\ \A j \in DOMAIN a : j \in DOMAIN c /\ c[j] = a[j]
      /\ \A j \in DOMAIN b : Len(a) + j \in DOMAIN c /\ c[Len(a) + j] = b[j]
      /\ \A j \in DOMAIN c : j \in DOMAIN a \/ \E i \in DOMAIN b : j = Len(a) + i
  BY Concat
<1>3. \A i, j \in DOMAIN a : i # j => Get(a[i], key, None) # Get(a[j], key, None)
  BY DEF Distinct
<1>4. \A i, j \in DOMAIN b : i # j => Get(b[i], key, None) # Get(b[j], key, None)
  BY DEF Distinct
<1>5. CASE k \in DOMAIN a /\ l \in DOMAIN a
  BY <1>1, <1>2, <1>3, <1>5
<1>6. ASSUME NEW j \in DOMAIN b, l = Len(a) + j, k \in DOMAIN a
      PROVE  Get(c[k], key, None) # Get(c[l], key, None)
  BY <1>2, <1>6
<1>7. ASSUME NEW i \in DOMAIN b, k = Len(a) + i, l \in DOMAIN a
      PROVE  Get(c[k], key, None) # Get(c[l], key, None)
  BY <1>2, <1>7
<1>8. ASSUME NEW i \in DOMAIN b, k = Len(a) + i, NEW j \in DOMAIN b, l = Len(a) + j
      PROVE  Get(c[k], key, None) # Get(c[l], key, None)
  <2>1. i # j
    BY <1>1, <1>8
  <2>. QED
    BY <1>2, <1>4, <1>8, <2>1
<1>. QED
  BY <1>2, <1>5, <1>6, <1>7, <1>8

-----------------------------------------------------------------------------
(* Lists merged by a key.                                                   *)

KeyOf(item, key) == Get(item, key, None)

OnlySecond(list1, list2, key) ==
  Picked(list2, {i \in DOMAIN list2 : ~Has(list1, key, KeyOf(list2[i], key))})

LEMMA SecondPart ==
  ASSUME NEW S, NEW list1 \in Seq(S), NEW list2 \in Seq(S), NEW key, NEW g, g = OnlySecond(list1, list2, key)
  PROVE  /\ g \in Seq(S)
         /\ \A k \in DOMAIN g : \E j \in DOMAIN list2 :
              g[k] = list2[j] /\ ~Has(list1, key, KeyOf(list2[j], key))
         /\ \A j \in DOMAIN list2 : ~Has(list1, key, KeyOf(list2[j], key)) =>
              \E k \in DOMAIN g : g[k] = list2[j]
         /\ Distinct(list2, key) => Distinct(g, key)
<1>1. PICK I : I = {i \in DOMAIN list2 : ~Has(list1, key, KeyOf(list2[i], key))}
  OBVIOUS
<1>2. g = Picked(list2, I)
  BY <1>1 DEF OnlySecond
<1>3. /\ g \in Seq(S)
      /\ \A k \in DOMAIN g : Nth(I, k) \in I /\ g[k] = list2[Nth(I, k)]
      /\ \A i \in I : \E k \in DOMAIN g : Nth(I, k) = i
      /\ \A k, l \in DOMAIN g : k # l => Nth(I, k) # Nth(I, l)
  <2>1. I \in SUBSET DOMAIN list2
    BY <1>1
  <2>. QED
    BY <1>2, <2>1, PickedList
<1>4. ASSUME Distinct(list2, key), NEW k \in DOMAIN g, NEW l \in DOMAIN g, k # l
      PROVE  Get(g[k], key, None) # Get(g[l], key, None)
  <2>1. PICK i \in DOMAIN list2, j \in DOMAIN list2 : i # j /\ g[k] = list2[i] /\ g[l] = list2[j]
    BY <1>1, <1>3, <1>4
  <2>. QED
    BY <1>4, <2>1 DEF Distinct
<1>5. ASSUME NEW k \in DOMAIN g
      PROVE  \E j \in DOMAIN list2 : g[k] = list2[j] /\ ~Has(list1, key, KeyOf(list2[j], key))
  <2>1. PICK j \in I : g[k] = list2[j]
    BY <1>3
  <2>. QED
    BY <1>1, <2>1
<1>6. ASSUME NEW j \in DOMAIN list2, ~Has(list1, key, KeyOf(list2[j], key))
      PROVE  \E k \in DOMAIN g : g[k] = list2[j]
  <2>1. j \in I
    BY <1>1, <1>6
  <2>. QED
    BY <1>3, <2>1
<1>. QED
  BY <1>3, <1>4, <1>5, <1>6 DEF Distinct

\* A merged list is its merged pairs a and entries whose key the other list lacks; it loses
\* no key, no entry of the second list whose key is new, and repeats no key if neither list does
MadeOf(list1, list2, key, a, c) ==
  /\ \A k \in DOMAIN c :
       \/ \E l \in DOMAIN a : c[k] = a[l]
       \/ \E i \in DOMAIN list1 : c[k] = list1[i] /\ ~Has(list2, key, KeyOf(list1[i], key))
       \/ \E j \in DOMAIN list2 : c[k] = list2[j] /\ ~Has(list1, key, KeyOf(list2[j], key))
  /\ \A l \in DOMAIN a : \E k \in DOMAIN c : c[k] = a[l]
  /\ \A i \in DOMAIN list1 : \E k \in DOMAIN c : KeyOf(c[k], key) = KeyOf(list1[i], key)
  /\ \A j \in DOMAIN list2 : \E k \in DOMAIN c : KeyOf(c[k], key) = KeyOf(list2[j], key)
  /\ \A j \in DOMAIN list2 : ~Has(list1, key, KeyOf(list2[j], key)) =>
       \E k \in DOMAIN c : c[k] = list2[j]
  /\ Distinct(list1, key) /\ Distinct(list2, key) => Distinct(c, key)

\* The pairs have no repeated key if neither list has
LEMMA PairsDistinct ==
  ASSUME NEW S, NEW list1 \in Seq(S), NEW list2 \in Seq(S), NEW key,
         NEW m, m = Matches(list1, list2, key),
         NEW a, DOMAIN a = DOMAIN m,
         \A k \in DOMAIN m : KeyOf(a[k], key) = KeyOf(list2[m[k][2]], key),
         Distinct(list1, key), Distinct(list2, key)
  PROVE  Distinct(a, key)
<1>1. /\ \A k \in DOMAIN m : KeyOf(list1[m[k][1]], key) = KeyOf(list2[m[k][2]], key)
      /\ \A k, l \in DOMAIN m : k # l => m[k] # m[l]
  BY MatchPairs DEF KeyOf
<1>2. \A k \in DOMAIN m : \E i \in DOMAIN list1 : \E j \in DOMAIN list2 : m[k] = <<i, j>>
  BY MatchPairs
<1>3. ASSUME NEW k \in DOMAIN a, NEW l \in DOMAIN a, k # l
      PROVE  KeyOf(a[k], key) # KeyOf(a[l], key)
  <2>1. PICK i \in DOMAIN list1, j \in DOMAIN list2 : m[k] = <<i, j>>
    BY <1>2
  <2>2. PICK x \in DOMAIN list1, y \in DOMAIN list2 : m[l] = <<x, y>>
    BY <1>2
  <2>3. i # x \/ j # y
    <3>1. m[k] # m[l]
      BY <1>1, <1>3
    <3>. QED
      BY <2>1, <2>2, <3>1
  <2>4. /\ KeyOf(a[k], key) = KeyOf(list1[i], key) /\ KeyOf(a[k], key) = KeyOf(list2[j], key)
        /\ KeyOf(a[l], key) = KeyOf(list1[x], key) /\ KeyOf(a[l], key) = KeyOf(list2[y], key)
    BY <1>1, <2>1, <2>2
  <2>5. /\ i # x => KeyOf(list1[i], key) # KeyOf(list1[x], key)
        /\ j # y => KeyOf(list2[j], key) # KeyOf(list2[y], key)
    BY DEF Distinct, KeyOf
  <2>. QED
    BY <2>3, <2>4, <2>5
<1>. QED
  BY <1>3 DEF Distinct, KeyOf

LEMMA MergedByKey ==
  ASSUME NEW S, NEW list1 \in Seq(S), NEW list2 \in Seq(S), NEW key,
         NEW m, m = Matches(list1, list2, key),
         NEW T, NEW a \in Seq(T), DOMAIN a = DOMAIN m,
         \A k \in DOMAIN m : KeyOf(a[k], key) = KeyOf(list2[m[k][2]], key),
         NEW c, c = Joined(a, Unmatched(list1, list2, key))
  PROVE  c \in Seq(S \cup T) /\ MadeOf(list1, list2, key, a, c)
<1>3. PICK f : f = Firsts(list1, list2, key)
  OBVIOUS
<1>4. PICK g : g = OnlySecond(list1, list2, key)
  OBVIOUS
<1>5. PICK b : b = Joined(f, g)
  OBVIOUS
<1>6. c = Joined(a, b)
  <2>1. Unmatched(list1, list2, key) = b
    BY <1>3, <1>4, <1>5 DEF Unmatched, OnlySecond, Joined, KeyOf
  <2>. QED
    BY <2>1
<1>7. \A i \in DOMAIN list1 : \A j \in DOMAIN list2 :
        KeyOf(list1[i], key) = KeyOf(list2[j], key) => \E k \in DOMAIN a : KeyOf(a[k], key) = KeyOf(list2[j], key)
  <2>1. ASSUME NEW i \in DOMAIN list1, NEW j \in DOMAIN list2, KeyOf(list1[i], key) = KeyOf(list2[j], key)
        PROVE  \E k \in DOMAIN a : KeyOf(a[k], key) = KeyOf(list2[j], key)
    <3>1. \E k \in DOMAIN m : m[k] = <<i, j>>
      BY <2>1, MatchPairs DEF KeyOf
    <3>2. PICK k \in DOMAIN m : m[k] = <<i, j>>
      BY <3>1
    <3>. QED
      BY <3>2
  <2>. QED
    BY <2>1
<1>8. /\ f \in Seq(S)
      /\ \A k \in DOMAIN f : \E i \in DOMAIN list1 :
           f[k] = list1[i] /\ ~Has(list2, key, KeyOf(list1[i], key))
      /\ \A i \in DOMAIN list1 : ~Has(list2, key, KeyOf(list1[i], key)) =>
           \E k \in DOMAIN f : KeyOf(f[k], key) = KeyOf(list1[i], key)
      /\ Distinct(f, key)
  BY <1>3, FirstEntries DEF KeyOf
<1>9. /\ g \in Seq(S)
      /\ \A k \in DOMAIN g : \E j \in DOMAIN list2 :
           g[k] = list2[j] /\ ~Has(list1, key, KeyOf(list2[j], key))
      /\ \A j \in DOMAIN list2 : ~Has(list1, key, KeyOf(list2[j], key)) =>
           \E k \in DOMAIN g : g[k] = list2[j]
      /\ Distinct(list2, key) => Distinct(g, key)
  <2>1. /\ g \in Seq(S)
        /\ \A k \in DOMAIN g : \E j \in DOMAIN list2 :
             g[k] = list2[j] /\ ~Has(list1, key, KeyOf(list2[j], key))
    BY <1>4, SecondPart
  <2>2. \A j \in DOMAIN list2 : ~Has(list1, key, KeyOf(list2[j], key)) =>
           \E k \in DOMAIN g : g[k] = list2[j]
    BY <1>4, SecondPart
  <2>3. Distinct(list2, key) => Distinct(g, key)
    BY <1>4, SecondPart
  <2>. QED
    BY <2>1, <2>2, <2>3
<1>10. PICK U : U = S \cup T
  OBVIOUS
<1>11. a \in Seq(U) /\ f \in Seq(U) /\ g \in Seq(U)
  BY <1>8, <1>9, <1>10
<1>12. /\ b \in Seq(U)
       /\ \A j \in DOMAIN f : j \in DOMAIN b /\ b[j] = f[j]
       /\ \A j \in DOMAIN g : Len(f) + j \in DOMAIN b /\ b[Len(f) + j] = g[j]
       /\ \A j \in DOMAIN b : j \in DOMAIN f \/ \E i \in DOMAIN g : j = Len(f) + i
  BY <1>5, <1>11, Concat
<1>13. /\ c \in Seq(U)
       /\ \A j \in DOMAIN a : j \in DOMAIN c /\ c[j] = a[j]
       /\ \A j \in DOMAIN b : Len(a) + j \in DOMAIN c /\ c[Len(a) + j] = b[j]
       /\ \A j \in DOMAIN c : j \in DOMAIN a \/ \E i \in DOMAIN b : j = Len(a) + i
  BY <1>6, <1>11, <1>12, Concat
<1>14. /\ \A j \in DOMAIN a : \E k \in DOMAIN c : c[k] = a[j]
       /\ \A j \in DOMAIN f : \E k \in DOMAIN c : c[k] = f[j]
       /\ \A j \in DOMAIN g : \E k \in DOMAIN c : c[k] = g[j]
  <2>1. \A j \in DOMAIN b : \E k \in DOMAIN c : c[k] = b[j]
    BY <1>13
  <2>2. \A j \in DOMAIN f : \E k \in DOMAIN c : c[k] = f[j]
    BY <1>12, <2>1
  <2>3. \A j \in DOMAIN g : \E k \in DOMAIN c : c[k] = g[j]
    BY <1>12, <2>1
  <2>. QED
    BY <1>13, <2>2, <2>3
<1>15. ASSUME NEW k \in DOMAIN c
       PROVE  \/ \E j \in DOMAIN a : c[k] = a[j]
              \/ \E j \in DOMAIN f : c[k] = f[j]
              \/ \E j \in DOMAIN g : c[k] = g[j]
  <2>1. CASE k \in DOMAIN a
    BY <1>13, <2>1
  <2>2. ASSUME NEW i \in DOMAIN b, k = Len(a) + i
        PROVE  (\E j \in DOMAIN f : c[k] = f[j]) \/ (\E j \in DOMAIN g : c[k] = g[j])
    <3>1. c[k] = b[i]
      BY <1>13, <2>2
    <3>2. (\E j \in DOMAIN f : b[i] = f[j]) \/ (\E j \in DOMAIN g : b[i] = g[j])
      BY <1>12
    <3>. QED
      BY <3>1, <3>2
  <2>. QED
    BY <1>13, <2>1, <2>2
<1>16. ASSUME NEW k \in DOMAIN c
       PROVE  \/ \E l \in DOMAIN a : c[k] = a[l]
              \/ \E i \in DOMAIN list1 : c[k] = list1[i] /\ ~Has(list2, key, KeyOf(list1[i], key))
              \/ \E j \in DOMAIN list2 : c[k] = list2[j] /\ ~Has(list1, key, KeyOf(list2[j], key))
  <2>1. ASSUME NEW j \in DOMAIN f, c[k] = f[j]
        PROVE  \E i \in DOMAIN list1 : c[k] = list1[i] /\ ~Has(list2, key, KeyOf(list1[i], key))
    BY <1>8, <2>1
  <2>2. ASSUME NEW j \in DOMAIN g, c[k] = g[j]
        PROVE  \E i \in DOMAIN list2 : c[k] = list2[i] /\ ~Has(list1, key, KeyOf(list2[i], key))
    BY <1>9, <2>2
  <2>. QED
    BY <1>15, <1>16, <2>1, <2>2
<1>17. ASSUME NEW i \in DOMAIN list1 PROVE \E k \in DOMAIN c : KeyOf(c[k], key) = KeyOf(list1[i], key)
  <2>1. CASE Has(list2, key, KeyOf(list1[i], key))
    <3>1. PICK j \in DOMAIN list2 : KeyOf(list2[j], key) = KeyOf(list1[i], key)
      BY <2>1 DEF Has, KeyOf
    <3>2. PICK k \in DOMAIN a : KeyOf(a[k], key) = KeyOf(list2[j], key)
      BY <1>7, <3>1
    <3>. QED
      BY <1>14, <3>1, <3>2
  <2>2. CASE ~Has(list2, key, KeyOf(list1[i], key))
    BY <1>8, <1>14, <2>2
  <2>. QED
    BY <2>1, <2>2
<1>18. ASSUME NEW j \in DOMAIN list2 PROVE \E k \in DOMAIN c : KeyOf(c[k], key) = KeyOf(list2[j], key)
  <2>1. CASE Has(list1, key, KeyOf(list2[j], key))
    <3>1. PICK i \in DOMAIN list1 : KeyOf(list1[i], key) = KeyOf(list2[j], key)
      BY <2>1 DEF Has, KeyOf
    <3>2. PICK k \in DOMAIN a : KeyOf(a[k], key) = KeyOf(list2[j], key)
      BY <1>7, <3>1
    <3>. QED
      BY <1>14, <3>2
  <2>2. CASE ~Has(list1, key, KeyOf(list2[j], key))
    BY <1>9, <1>14, <2>2
  <2>. QED
    BY <2>1, <2>2
<1>19. ASSUME NEW j \in DOMAIN list2, ~Has(list1, key, KeyOf(list2[j], key))
       PROVE  \E k \in DOMAIN c : c[k] = list2[j]
  BY <1>9, <1>14, <1>19
<1>20. ASSUME Distinct(list1, key), Distinct(list2, key)
       PROVE  Distinct(c, key)
  <2>1. ASSUME NEW i \in DOMAIN f, NEW j \in DOMAIN g PROVE KeyOf(f[i], key) # KeyOf(g[j], key)
    BY <1>8, <1>9, <2>1 DEF Has, KeyOf
  <2>2. Distinct(b, key)
    BY <1>5, <1>8, <1>9, <1>20, <2>1, DistinctJoined DEF KeyOf
  <2>3. Distinct(a, key)
    BY <1>20, PairsDistinct
  <2>4. ASSUME NEW i \in DOMAIN a
        PROVE  \E x \in DOMAIN list1 : \E y \in DOMAIN list2 :
                 KeyOf(a[i], key) = KeyOf(list1[x], key) /\ KeyOf(a[i], key) = KeyOf(list2[y], key)
    <3>1. \E x \in DOMAIN list1 : \E y \in DOMAIN list2 : m[i] = <<x, y>>
      BY MatchPairs
    <3>2. PICK x \in DOMAIN list1, y \in DOMAIN list2 : m[i] = <<x, y>>
      BY <3>1
    <3>3. KeyOf(list1[m[i][1]], key) = KeyOf(list2[m[i][2]], key)
      BY MatchPairs DEF KeyOf
    <3>. QED
      BY <3>2, <3>3
  <2>5. ASSUME NEW i \in DOMAIN a, NEW j \in DOMAIN f PROVE KeyOf(a[i], key) # KeyOf(f[j], key)
    BY <1>8, <2>4 DEF Has, KeyOf
  <2>6. ASSUME NEW i \in DOMAIN a, NEW j \in DOMAIN g PROVE KeyOf(a[i], key) # KeyOf(g[j], key)
    BY <1>9, <2>4 DEF Has, KeyOf
  <2>7. \A i \in DOMAIN a : \A j \in DOMAIN b : KeyOf(a[i], key) # KeyOf(b[j], key)
    BY <1>12, <2>5, <2>6
  <2>. QED
    BY <1>6, <1>11, <1>12, <2>2, <2>3, <2>7, DistinctJoined DEF KeyOf
<1>. QED
  BY <1>10, <1>13, <1>14, <1>16, <1>17, <1>18, <1>19, <1>20 DEF MadeOf

-----------------------------------------------------------------------------
(* Merged targets.                                                          *)

\* Entries that merging makes of those of a set
Merges(S) == {Updated(p[1], p[2]) : p \in S \X S}

LEMMA MergesOf ==
  ASSUME NEW S, NEW x \in S, NEW y \in S
  PROVE  Updated(x, y) \in Merges(S)
<1>1. <<x, y>> \in S \X S
  OBVIOUS
<1>. QED
  BY <1>1 DEF Merges

Host(item) == Get(item, "hostname", None)

\* What an entry of a merged list is made of
Source(list1, list2, item) ==
  \/ \E i \in DOMAIN list1 : \E j \in DOMAIN list2 :
       Host(list1[i]) = Host(list2[j]) /\ item = Updated(list1[i], list2[j])
  \/ \E i \in DOMAIN list1 : item = list1[i] /\ ~Has(list2, "hostname", Host(item))
  \/ \E j \in DOMAIN list2 : item = list2[j] /\ ~Has(list1, "hostname", Host(item))

\* The entries of _default_dict_merger
LEMMA MatchedPart ==
  ASSUME NEW S, NEW list1 \in Seq(S), NEW list2 \in Seq(S), NEW key,
         NEW m, m = Matches(list1, list2, key),
         NEW a, a = [k \in DOMAIN m |-> Updated(list1[m[k][1]], list2[m[k][2]])]
  PROVE  /\ a \in Seq(Merges(S)) /\ DOMAIN a = DOMAIN m
         /\ \A k \in DOMAIN m : KeyOf(a[k], key) = KeyOf(list2[m[k][2]], key)
         /\ \A k \in DOMAIN a : \E i \in DOMAIN list1 : \E j \in DOMAIN list2 :
              KeyOf(list1[i], key) = KeyOf(list2[j], key) /\ a[k] = Updated(list1[i], list2[j])
         /\ \A i \in DOMAIN list1 : \A j \in DOMAIN list2 :
              KeyOf(list1[i], key) = KeyOf(list2[j], key) => \E k \in DOMAIN a : a[k] = Updated(list1[i], list2[j])
<1>1. /\ \E n \in Nat : DOMAIN m = 1..n
      /\ \A k \in DOMAIN m : KeyOf(list1[m[k][1]], key) = KeyOf(list2[m[k][2]], key)
      /\ \A i \in DOMAIN list1 : \A j \in DOMAIN list2 :
           KeyOf(list1[i], key) = KeyOf(list2[j], key) => \E k \in DOMAIN m : m[k] = <<i, j>>
  BY MatchPairs DEF KeyOf
<1>2. \A k \in DOMAIN m : \E i \in DOMAIN list1 : \E j \in DOMAIN list2 : m[k] = <<i, j>>
  BY MatchPairs
<1>3. ASSUME NEW k \in DOMAIN m, NEW i \in DOMAIN list1, NEW j \in DOMAIN list2, m[k] = <<i, j>>
      PROVE  /\ a[k] = Updated(list1[i], list2[j]) /\ KeyOf(list1[i], key) = KeyOf(list2[j], key)
             /\ KeyOf(a[k], key) = KeyOf(list2[j], key)
  <2>1. a[k] = Updated(list1[i], list2[j]) /\ KeyOf(list1[i], key) = KeyOf(list2[j], key)
    BY <1>1, <1>3
  <2>. QED
    BY <2>1, UpdatedKey DEF KeyOf
<1>4. DOMAIN a = DOMAIN m
  OBVIOUS
<1>5. a \in Seq(Merges(S))
  <2>1. PICK T : T = Merges(S)
    OBVIOUS
  <2>2. ASSUME NEW k \in DOMAIN m PROVE a[k] \in T
    <3>1. PICK i \in DOMAIN list1, j \in DOMAIN list2 : m[k] = <<i, j>>
      BY <1>2
    <3>2. list1[i] \in S /\ list2[j] \in S
      BY <3>1, ElementOf
    <3>. QED
      BY <1>3, <2>1, <3>1, <3>2, MergesOf
  <2>3. PICK n \in Nat : DOMAIN m = 1..n
    BY <1>1
  <2>4. a \in [1..n -> T]
    BY <1>4, <2>2, <2>3
  <2>. QED
    BY <2>1, <2>3, <2>4, ListOf
<1>6. ASSUME NEW k \in DOMAIN m PROVE KeyOf(a[k], key) = KeyOf(list2[m[k][2]], key)
  <2>1. PICK i \in DOMAIN list1, j \in DOMAIN list2 : m[k] = <<i, j>>
    BY <1>2
  <2>. QED
    BY <1>3, <2>1
<1>7. ASSUME NEW k \in DOMAIN a
      PROVE  \E i \in DOMAIN list1 : \E j \in DOMAIN list2 :
               KeyOf(list1[i], key) = KeyOf(list2[j], key) /\ a[k] = Updated(list1[i], list2[j])
  BY <1>2, <1>3, <1>4
<1>8. ASSUME NEW i \in DOMAIN list1, NEW j \in DOMAIN list2, KeyOf(list1[i], key) = KeyOf(list2[j], key)
      PROVE  \E k \in DOMAIN a : a[k] = Updated(list1[i], list2[j])
  BY <1>1, <1>3, <1>4, <1>8
<1>. QED
  BY <1>4, <1>5, <1>6, <1>7, <1>8

\* All entries are from the two lists; no host is lost, no entry of the second list
\* whose host is new, and no host comes to be repeated
IsMerge(list1, list2, c) ==
  /\ \A k \in DOMAIN c : Source(list1, list2, c[k])
  /\ \A i \in DOMAIN list1 : \E k \in DOMAIN c : Host(c[k]) = Host(list1[i])
  /\ \A j \in DOMAIN list2 : \E k \in DOMAIN c : Host(c[k]) = Host(list2[j])
  /\ \A j \in DOMAIN list2 : ~Has(list1, "hostname", Host(list2[j])) =>
       \E k \in DOMAIN c : c[k] = list2[j]
  /\ Distinct(list1, "hostname") /\ Distinct(list2, "hostname") => Distinct(c, "hostname")

LEMMA MergedDicts ==
  ASSUME NEW S, NEW list1 \in Seq(S), NEW list2 \in Seq(S),
         NEW c, c = MergeDicts(list1, list2, "hostname")
  PROVE  /\ c \in Seq(S \cup Merges(S))
         /\ IsMerge(list1, list2, c)
<1>1. PICK m : m = Matches(list1, list2, "hostname")
  OBVIOUS
<1>2. PICK a : a = [k \in DOMAIN m |-> Updated(list1[m[k][1]], list2[m[k][2]])]
  OBVIOUS
<1>3. c = Joined(a, Unmatched(list1, list2, "hostname"))
  BY <1>1, <1>2 DEF MergeDicts, Joined
<1>4. /\ a \in Seq(Merges(S)) /\ DOMAIN a = DOMAIN m
      /\ \A k \in DOMAIN m : KeyOf(a[k], "hostname") = KeyOf(list2[m[k][2]], "hostname")
      /\ \A k \in DOMAIN a : \E i \in DOMAIN list1 : \E j \in DOMAIN list2 :
           KeyOf(list1[i], "hostname") = KeyOf(list2[j], "hostname") /\ a[k] = Updated(list1[i], list2[j])
  BY SMTT(30), <1>1, <1>2, MatchedPart
<1>5. c \in Seq(S \cup Merges(S)) /\ MadeOf(list1, list2, "hostname", a, c)
  BY <1>1, <1>3, <1>4, MergedByKey
<1>6. ASSUME NEW k \in DOMAIN c PROVE Source(list1, list2, c[k])
  <2>1. ASSUME NEW l \in DOMAIN a, c[k] = a[l] PROVE Source(list1, list2, c[k])
    BY <1>4, <2>1 DEF Source, Host, KeyOf
  <2>2. ASSUME NEW i \in DOMAIN list1, c[k] = list1[i], ~Has(list2, "hostname", Host(list1[i]))
        PROVE  Source(list1, list2, c[k])
    BY <2>2 DEF Source
  <2>3. ASSUME NEW j \in DOMAIN list2, c[k] = list2[j], ~Has(list1, "hostname", Host(list2[j]))
        PROVE  Source(list1, list2, c[k])
    BY <2>3 DEF Source
  <2>. QED
    BY <1>5, <2>1, <2>2, <2>3 DEF MadeOf, KeyOf, Host
<1>. QED
  BY <1>5, <1>6 DEF IsMerge, MadeOf, KeyOf, Host

LEMMA MergedTargets ==
  ASSUME NEW S, NEW list1 \in Seq(S), NEW list2 \in Seq(S),
         NEW c, c = MergeTargets(list1, list2)
  PROVE  /\ c \in Seq(S \cup Merges(S))
         /\ IsMerge(list1, list2, c)
<1>1. CASE list1 = << >>
  <2>1. c = list2 /\ DOMAIN list1 = {} /\ \A value : ~Has(list1, "hostname", value)
    BY <1>1 DEF MergeTargets, Has
  <2>. QED
    BY <2>1 DEF IsMerge, Source
<1>2. CASE list1 # << >> /\ list2 = << >>
  <2>1. c = list1 /\ DOMAIN list2 = {} /\ \A value : ~Has(list2, "hostname", value)
    BY <1>2 DEF MergeTargets, Has
  <2>. QED
    BY <2>1 DEF IsMerge, Source
<1>3. CASE list1 # << >> /\ list2 # << >>
  <2>1. c = MergeDicts(list1, list2, "hostname")
    BY <1>3 DEF MergeTargets
  <2>. QED
    BY <2>1, MergedDicts
<1>. QED
  BY <1>1, <1>2, <1>3

-----------------------------------------------------------------------------
(* Targets of a valid configuration and its layers.                         *)

Targets(conf) == Get(conf, "targets", << >>)
HasTargets(conf) == Targets(conf) # None => IsList(Targets(conf))

\* Two lists of targets that merge to valid ones
Valid(users, customs) ==
  /\ IsList(users) /\ IsList(customs)
  /\ \A i \in DOMAIN MergeTargets(users, customs) : Host(MergeTargets(users, customs)[i]) \in Domains

LEMMA ValidTargets ==
  ASSUME NEW user, NEW custom, HasTargets(user), HasTargets(custom), Validates(user, custom)
  PROVE  Valid(Targets(user), Targets(custom))
<1>1. Targets(user) # None /\ Targets(custom) # None
  BY DEF Validates, Lists, Targets
<1>2. IsList(Targets(user)) /\ IsList(Targets(custom))
  BY <1>1 DEF HasTargets
<1>. QED
  BY <1>2 DEF Validates, Valid, Targets, Host

\* Then all their entries name a host
LEMMA NamedHosts ==
  ASSUME NEW users, NEW customs, Valid(users, customs), NEW c, c = MergeTargets(users, customs)
  PROVE  /\ \A i \in DOMAIN users : "hostname" \in DOMAIN users[i] /\ users[i].hostname \in Domains
         /\ \A j \in DOMAIN customs : "hostname" \in DOMAIN customs[j] /\ customs[j].hostname \in Domains
<1>2. PICK S : S = ToSet(users) \cup ToSet(customs)
  OBVIOUS
<1>3. users \in Seq(S) /\ customs \in Seq(S)
  BY <1>2 DEF Valid, IsList
<1>4. /\ \A i \in DOMAIN users : \E k \in DOMAIN c : Host(c[k]) = Host(users[i])
      /\ \A j \in DOMAIN customs : \E k \in DOMAIN c : Host(c[k]) = Host(customs[j])
  <2>1. IsMerge(users, customs, c)
    BY <1>3, MergedTargets
  <2>. QED
    BY <2>1 DEF IsMerge
<1>5. \A k \in DOMAIN c : Host(c[k]) \in Domains
  BY DEF Valid
<1>6. ASSUME NEW item, Host(item) \in Domains
      PROVE  "hostname" \in DOMAIN item /\ item.hostname \in Domains
  BY <1>6, CommandLineAssumption DEF Host, Get
<1>7. ASSUME NEW i \in DOMAIN users PROVE Host(users[i]) \in Domains
  BY <1>4, <1>5
<1>8. ASSUME NEW j \in DOMAIN customs PROVE Host(customs[j]) \in Domains
  BY <1>4, <1>5
<1>. QED
  BY <1>6, <1>7, <1>8

\* What is merged, with its host
LEMMA MergedHosts ==
  ASSUME NEW users, NEW customs, Valid(users, customs), NEW c, c = MergeTargets(users, customs),
         NEW k \in DOMAIN c
  PROVE  /\ "hostname" \in DOMAIN c[k] /\ c[k].hostname \in Domains
         /\ \/ \E i \in DOMAIN users : \E j \in DOMAIN customs :
                 /\ users[i].hostname = c[k].hostname /\ customs[j].hostname = c[k].hostname
                 /\ c[k] = Updated(users[i], customs[j])
            \/ \E i \in DOMAIN users : c[k] = users[i] /\ \A j \in DOMAIN customs : customs[j].hostname # c[k].hostname
            \/ \E j \in DOMAIN customs : c[k] = customs[j] /\ \A i \in DOMAIN users : users[i].hostname # c[k].hostname
<1>1. PICK S : S = ToSet(users) \cup ToSet(customs)
  OBVIOUS
<1>2. users \in Seq(S) /\ customs \in Seq(S)
  BY <1>1 DEF Valid, IsList
<1>3. Source(users, customs, c[k])
  <2>1. IsMerge(users, customs, c)
    BY <1>2, MergedTargets
  <2>. QED
    BY <2>1 DEF IsMerge
<1>4. Host(c[k]) \in Domains
  BY DEF Valid
<1>5. "hostname" \in DOMAIN c[k] /\ c[k].hostname \in Domains /\ Host(c[k]) = c[k].hostname
  BY <1>4, CommandLineAssumption DEF Host, Get
<1>6. /\ \A i \in DOMAIN users : Host(users[i]) = users[i].hostname
      /\ \A j \in DOMAIN customs : Host(customs[j]) = customs[j].hostname
  BY NamedHosts DEF Host, Get
<1>7. ASSUME NEW i \in DOMAIN users, NEW j \in DOMAIN customs,
             Host(users[i]) = Host(customs[j]), c[k] = Updated(users[i], customs[j])
      PROVE  users[i].hostname = c[k].hostname /\ customs[j].hostname = c[k].hostname
  <2>1. Host(c[k]) = Host(customs[j])
    BY <1>7, UpdatedKey DEF Host
  <2>. QED
    BY <1>5, <1>6, <1>7, <2>1
<1>8. ASSUME ~Has(customs, "hostname", Host(c[k]))
      PROVE  \A j \in DOMAIN customs : customs[j].hostname # c[k].hostname
  BY <1>5, <1>6, <1>8 DEF Has, Host
<1>9. ASSUME ~Has(users, "hostname", Host(c[k]))
      PROVE  \A i \in DOMAIN users : users[i].hostname # c[k].hostname
  BY <1>5, <1>6, <1>9 DEF Has, Host
<1>. QED
  BY <1>3, <1>5, <1>7, <1>8, <1>9 DEF Source

\* The entries for a host, the custom file's first
Of(list, host) == Picked(list, {i \in DOMAIN list : list[i].hostname = host})
LayersIn(users, customs, host) == Joined(Of(customs, host), Of(users, host))

LEMMA LayersAre ==
  ASSUME NEW host
  PROVE  Layers(host) = LayersIn(Targets(scan.user), Targets(scan.custom), host)
BY DEF Layers, LayersIn, Of, Joined, Targets

LEMMA OfHost ==
  ASSUME NEW S, NEW list \in Seq(S), NEW host, NEW p, p = Of(list, host)
  PROVE  /\ p \in Seq(S)
         /\ \A k \in DOMAIN p : \E i \in DOMAIN list : list[i].hostname = host /\ p[k] = list[i]
         /\ \A i \in DOMAIN list : list[i].hostname = host => \E k \in DOMAIN p : p[k] = list[i]
<1>1. PICK I : I = {i \in DOMAIN list : list[i].hostname = host}
  OBVIOUS
<1>2. p = Picked(list, I)
  BY <1>1 DEF Of
<1>3. I \in SUBSET DOMAIN list
  BY <1>1
<1>4. /\ p \in Seq(S)
      /\ \A k \in DOMAIN p : Nth(I, k) \in I /\ p[k] = list[Nth(I, k)]
      /\ \A i \in I : \E k \in DOMAIN p : Nth(I, k) = i
  BY <1>2, <1>3, PickedList
<1>. QED
  BY <1>1, <1>4

LEMMA LayerEntries ==
  ASSUME NEW users, NEW customs, IsList(users), IsList(customs), NEW host,
         NEW layers, layers = LayersIn(users, customs, host)
  PROVE  /\ \A k \in DOMAIN layers :
              \/ \E i \in DOMAIN users : users[i].hostname = host /\ layers[k] = users[i]
              \/ \E j \in DOMAIN customs : customs[j].hostname = host /\ layers[k] = customs[j]
         /\ \A i \in DOMAIN users : users[i].hostname = host => users[i] \in ToSet(layers)
         /\ \A j \in DOMAIN customs : customs[j].hostname = host => customs[j] \in ToSet(layers)
<1>1. PICK S : S = ToSet(users) \cup ToSet(customs)
  OBVIOUS
<1>2. users \in Seq(S) /\ customs \in Seq(S)
  BY <1>1 DEF IsList
<1>3. PICK a : a = Of(customs, host)
  OBVIOUS
<1>4. PICK b : b = Of(users, host)
  OBVIOUS
<1>5. /\ a \in Seq(S)
      /\ \A k \in DOMAIN a : \E i \in DOMAIN customs : customs[i].hostname = host /\ a[k] = customs[i]
      /\ \A i \in DOMAIN customs : customs[i].hostname = host => \E k \in DOMAIN a : a[k] = customs[i]
  BY <1>2, <1>3, OfHost
<1>6. /\ b \in Seq(S)
      /\ \A k \in DOMAIN b : \E i \in DOMAIN users : users[i].hostname = host /\ b[k] = users[i]
      /\ \A i \in DOMAIN users : users[i].hostname = host => \E k \in DOMAIN b : b[k] = users[i]
  BY <1>2, <1>4, OfHost
<1>7. layers = Joined(a, b)
  BY <1>3, <1>4 DEF LayersIn
<1>8. /\ \A j \in DOMAIN a : j \in DOMAIN layers /\ layers[j] = a[j]
      /\ \A j \in DOMAIN b : Len(a) + j \in DOMAIN layers /\ layers[Len(a) + j] = b[j]
      /\ \A j \in DOMAIN layers : j \in DOMAIN a \/ \E i \in DOMAIN b : j = Len(a) + i
  BY <1>5, <1>6, <1>7, Concat
<1>9. ASSUME NEW k \in DOMAIN layers
      PROVE  \/ \E i \in DOMAIN users : users[i].hostname = host /\ layers[k] = users[i]
             \/ \E j \in DOMAIN customs : customs[j].hostname = host /\ layers[k] = customs[j]
  BY <1>5, <1>6, <1>8
<1>10. ASSUME NEW i \in DOMAIN users, users[i].hostname = host PROVE users[i] \in ToSet(layers)
  BY <1>6, <1>8, <1>10 DEF ToSet
<1>11. ASSUME NEW j \in DOMAIN customs, customs[j].hostname = host PROVE customs[j] \in ToSet(layers)
  BY <1>5, <1>8, <1>11 DEF ToSet
<1>. QED
  BY <1>9, <1>10, <1>11

LEMMA CompletedFields ==
  ASSUME NEW target, "hostname" \in DOMAIN target, NEW defaults, NEW t, t = Completed(target, defaults)
  PROVE  /\ "hostname" \in DOMAIN t /\ t.hostname = target.hostname
         /\ Get(t, "client_certificate", None) = Get(target, "client_certificate", None)
         /\ t.port = IF Get(target, "port", None) \in {None, 0} THEN 443 ELSE target.port
         /\ t.http_request_paths = {Get(defaults, "http_request_path", "/")}
                                   \cup Get(target, "http_request_paths", {})
<1>1. PICK r : r = [port |-> IF Get(target, "port", None) \in {None, 0} THEN 443 ELSE target.port,
                    http_request_paths |-> {Get(defaults, "http_request_path", "/")}
                                           \cup Get(target, "http_request_paths", {}),
                    skip |-> Get(defaults, "skip", {}) \cup Get(target, "skip", {})]
  OBVIOUS
<1>2. t = Updated(target, r)
  BY <1>1 DEF Completed
<1>3. /\ DOMAIN r = {"port", "http_request_paths", "skip"}
      /\ r.port = IF Get(target, "port", None) \in {None, 0} THEN 443 ELSE target.port
      /\ r.http_request_paths = {Get(defaults, "http_request_path", "/")}
                                \cup Get(target, "http_request_paths", {})
  BY <1>1
<1>4. /\ DOMAIN t = DOMAIN target \cup DOMAIN r
      /\ \A f \in DOMAIN t : t[f] = IF f \in DOMAIN r THEN r[f] ELSE target[f]
  BY <1>2 DEF Updated
<1>5. "hostname" \in DOMAIN t /\ t.hostname = target.hostname
  BY <1>3, <1>4
<1>6. Get(t, "client_certificate", None) = Get(target, "client_certificate", None)
  BY <1>3, <1>4 DEF Get
<1>7. t.port = r.port /\ t.http_request_paths = r.http_request_paths
  BY <1>3, <1>4
<1>. QED
  BY <1>3, <1>5, <1>6, <1>7

\* The targets of the merged configuration, one by one
LEMMA CombinedTargets ==
  ASSUME NEW user, NEW custom, NEW c, c = MergeTargets(Targets(user), Targets(custom)),
         NEW config, config = Combined(user, custom)
  PROVE  /\ DOMAIN config = {"defaults", "outputs", "evaluations", "targets"}
         /\ config.targets = [k \in DOMAIN c |-> Completed(c[k], config.defaults)]
         /\ config.defaults = Updated(Updated(Builtin.defaults, Get(user, "defaults", << >>)),
                                      Get(custom, "defaults", << >>))
BY DEF Combined, Targets

\* The certificate of a merged target is that of one of its layers
LEMMA CertificateFrom ==
  ASSUME NEW users, NEW customs, Valid(users, customs), NEW c, c = MergeTargets(users, customs),
         NEW k \in DOMAIN c, NEW layers, layers = LayersIn(users, customs, c[k].hostname)
  PROVE  \E layer \in ToSet(layers) :
           Get(c[k], "client_certificate", None) = Get(layer, "client_certificate", None)
<1>1. IsList(users) /\ IsList(customs)
  BY DEF Valid
<1>2. /\ \A i \in DOMAIN users : users[i].hostname = c[k].hostname => users[i] \in ToSet(layers)
      /\ \A j \in DOMAIN customs : customs[j].hostname = c[k].hostname => customs[j] \in ToSet(layers)
  BY <1>1, LayerEntries
<1>3. CASE \E i \in DOMAIN users : \E j \in DOMAIN customs :
             /\ users[i].hostname = c[k].hostname /\ customs[j].hostname = c[k].hostname
             /\ c[k] = Updated(users[i], customs[j])
  <2>1. PICK i \in DOMAIN users, j \in DOMAIN customs :
             /\ users[i].hostname = c[k].hostname /\ customs[j].hostname = c[k].hostname
             /\ c[k] = Updated(users[i], customs[j])
    BY <1>3
  <2>2. users[i] \in ToSet(layers) /\ customs[j] \in ToSet(layers)
    BY <1>2, <2>1
  <2>3. Get(c[k], "client_certificate", None) \in {Get(users[i], "client_certificate", None),
                                                   Get(customs[j], "client_certificate", None)}
    BY <2>1 DEF Get, Updated
  <2>. QED
    BY <2>2, <2>3
<1>4. CASE \E i \in DOMAIN users : c[k] = users[i]
  BY <1>2, <1>4
<1>5. CASE \E j \in DOMAIN customs : c[k] = customs[j]
  BY <1>2, <1>5
<1>. QED
  BY <1>3, <1>4, <1>5, MergedHosts

-----------------------------------------------------------------------------
(* What the layers say of a host, when no file repeats it.                  *)

SaysIn(layers, field, default) ==
  LET told == {i \in DOMAIN layers : field \in DOMAIN layers[i]}
  IN IF told = {} THEN default ELSE layers[Nth(told, 1)][field]

LEMMA SaysAre ==
  ASSUME NEW host, NEW field, NEW default
  PROVE  Says(host, field, default) = SaysIn(Layers(host), field, default)
BY DEF Says, SaysIn

LEMMA NoneSays ==
  ASSUME NEW layers, NEW field, NEW default, \A i \in DOMAIN layers : field \notin DOMAIN layers[i]
  PROVE  SaysIn(layers, field, default) = default
BY DEF SaysIn

\* The first layer that has the field decides
LEMMA FirstSays ==
  ASSUME NEW S, NEW layers \in Seq(S), NEW field, NEW default,
         NEW i \in DOMAIN layers, field \in DOMAIN layers[i],
         \A j \in DOMAIN layers : j < i => field \notin DOMAIN layers[j]
  PROVE  SaysIn(layers, field, default) = layers[i][field]
<1>1. PICK told : told = {j \in DOMAIN layers : field \in DOMAIN layers[j]}
  OBVIOUS
<1>2. told \in SUBSET (1..Len(layers)) /\ told # {} /\ i \in told /\ Len(layers) \in Nat
  BY <1>1
<1>3. Nth(told, 1) \in told /\ \A j \in told : Nth(told, 1) <= j
  BY <1>2, NthFirst
<1>4. PICK first : first = Nth(told, 1)
  OBVIOUS
<1>5. first \in told /\ first <= i /\ first \in 1..Len(layers) /\ i \in 1..Len(layers)
  BY <1>2, <1>3, <1>4
<1>6. ~(first < i)
  BY <1>1, <1>5
<1>7. first = i
  BY <1>5, <1>6
<1>. QED
  BY <1>1, <1>2, <1>4, <1>7 DEF SaysIn

LEMMA OfOne ==
  ASSUME NEW S, NEW list \in Seq(S), NEW host, NEW i \in DOMAIN list, list[i].hostname = host,
         \A k \in DOMAIN list : k # i => list[k].hostname # host
  PROVE  Of(list, host) = <<list[i]>>
<1>1. PICK I : I = {k \in DOMAIN list : list[k].hostname = host}
  OBVIOUS
<1>2. PICK p : p = Of(list, host)
  OBVIOUS
<1>3. I = {i}
  BY <1>1
<1>4. p = Picked(list, I) /\ I \in SUBSET DOMAIN list
  BY <1>1, <1>2 DEF Of
<1>5. /\ p \in Seq(S) /\ Len(p) = Cardinality(I)
      /\ \A k \in DOMAIN p : Nth(I, k) \in I /\ p[k] = list[Nth(I, k)]
  BY <1>4, PickedList
<1>6. Len(p) = 1
  BY <1>3, <1>5, FS_Singleton
<1>7. p[1] = list[i]
  <2>1. 1 \in DOMAIN p
    BY <1>5, <1>6
  <2>2. Nth(I, 1) = i /\ p[1] = list[Nth(I, 1)]
    BY <1>3, <1>5, <2>1
  <2>. QED
    BY <2>2
<1>8. p = <<list[i]>>
  BY <1>5, <1>6, <1>7
<1>. QED
  BY <1>2, <1>8

LEMMA OfNone ==
  ASSUME NEW S, NEW list \in Seq(S), NEW host, \A k \in DOMAIN list : list[k].hostname # host
  PROVE  Of(list, host) = << >>
<1>1. PICK I : I = {k \in DOMAIN list : list[k].hostname = host}
  OBVIOUS
<1>2. I = {} /\ I \in SUBSET DOMAIN list
  BY <1>1
<1>3. PICK p : p = Picked(list, I)
  OBVIOUS
<1>4. p = << >>
  BY <1>2, <1>3, PickedList
<1>. QED
  BY <1>1, <1>3, <1>4 DEF Of

\* Entries for one host: what the merged target says is what the layers say
LEMMA MergedSays ==
  ASSUME NEW users, NEW customs, Valid(users, customs),
         Distinct(users, "hostname"), Distinct(customs, "hostname"),
         NEW c, c = MergeTargets(users, customs), NEW k \in DOMAIN c, NEW field, NEW default
  PROVE  SaysIn(LayersIn(users, customs, c[k].hostname), field, default) = Get(c[k], field, default)
<1>1. PICK S : S = ToSet(users) \cup ToSet(customs)
  OBVIOUS
<1>2. users \in Seq(S) /\ customs \in Seq(S)
  BY <1>1 DEF Valid, IsList
<1>3. PICK host : host = c[k].hostname
  OBVIOUS
<1>4. PICK layers : layers = LayersIn(users, customs, host)
  OBVIOUS
<1>5. /\ \A i \in DOMAIN users : "hostname" \in DOMAIN users[i]
      /\ \A j \in DOMAIN customs : "hostname" \in DOMAIN customs[j]
  BY NamedHosts
<1>6. /\ \A i, j \in DOMAIN users : i # j => users[i].hostname # users[j].hostname
      /\ \A i, j \in DOMAIN customs : i # j => customs[i].hostname # customs[j].hostname
  BY <1>5 DEF Distinct, Get
<1>7. ASSUME NEW i \in DOMAIN users, NEW j \in DOMAIN customs,
             users[i].hostname = host, customs[j].hostname = host, c[k] = Updated(users[i], customs[j])
      PROVE  SaysIn(layers, field, default) = Get(c[k], field, default)
  <2>1. Of(users, host) = <<users[i]>>
    BY <1>2, <1>6, <1>7, OfOne
  <2>2. Of(customs, host) = <<customs[j]>>
    BY <1>2, <1>6, <1>7, OfOne
  <2>3. layers = <<customs[j], users[i]>>
    <3>1. layers = Joined(<<customs[j]>>, <<users[i]>>)
      BY <1>4, <2>1, <2>2 DEF LayersIn
    <3>. QED
      BY <3>1, TwoJoined
  <2>4. PICK T : T = {customs[j], users[i]}
    OBVIOUS
  <2>5. layers \in Seq(T) /\ DOMAIN layers = {1, 2} /\ layers[1] = customs[j] /\ layers[2] = users[i]
    BY <2>3, <2>4
  <2>6. CASE field \in DOMAIN customs[j]
    <3>1. SaysIn(layers, field, default) = layers[1][field]
      BY <2>5, <2>6, FirstSays
    <3>. QED
      BY <1>7, <2>5, <2>6, <3>1 DEF Get, Updated
  <2>7. CASE field \notin DOMAIN customs[j] /\ field \in DOMAIN users[i]
    <3>1. SaysIn(layers, field, default) = layers[2][field]
      BY <2>5, <2>7, FirstSays
    <3>. QED
      BY <1>7, <2>5, <2>7, <3>1 DEF Get, Updated
  <2>8. CASE field \notin DOMAIN customs[j] /\ field \notin DOMAIN users[i]
    <3>1. SaysIn(layers, field, default) = default
      BY <2>5, <2>8, NoneSays
    <3>. QED
      BY <1>7, <2>8, <3>1 DEF Get, Updated
  <2>. QED
    BY <2>6, <2>7, <2>8
<1>8. ASSUME NEW item, layers = <<item>>
      PROVE  SaysIn(layers, field, default) = Get(item, field, default)
  <2>1. layers \in Seq({item}) /\ DOMAIN layers = {1} /\ layers[1] = item
    BY <1>8
  <2>2. CASE field \in DOMAIN item
    <3>1. SaysIn(layers, field, default) = layers[1][field]
      BY <2>1, <2>2, FirstSays
    <3>. QED
      BY <2>1, <2>2, <3>1 DEF Get
  <2>3. CASE field \notin DOMAIN item
    <3>1. SaysIn(layers, field, default) = default
      BY <2>1, <2>3, NoneSays
    <3>. QED
      BY <2>3, <3>1 DEF Get
  <2>. QED
    BY <2>2, <2>3
<1>9. ASSUME NEW i \in DOMAIN users, c[k] = users[i], \A j \in DOMAIN customs : customs[j].hostname # host
      PROVE  layers = <<c[k]>>
  <2>1. Of(users, host) = <<users[i]>>
    BY <1>2, <1>3, <1>6, <1>9, OfOne
  <2>2. Of(customs, host) = << >>
    BY <1>2, <1>9, OfNone
  <2>. QED
    BY <1>4, <1>9, <2>1, <2>2 DEF LayersIn, Joined
<1>10. ASSUME NEW j \in DOMAIN customs, c[k] = customs[j], \A i \in DOMAIN users : users[i].hostname # host
       PROVE  layers = <<c[k]>>
  <2>1. Of(customs, host) = <<customs[j]>>
    BY <1>2, <1>3, <1>6, <1>10, OfOne
  <2>2. Of(users, host) = << >>
    BY <1>2, <1>10, OfNone
  <2>. QED
    BY <1>4, <1>10, <2>1, <2>2 DEF LayersIn, Joined
<1>11. SaysIn(layers, field, default) = Get(c[k], field, default)
  <2>1. \/ \E i \in DOMAIN users : \E j \in DOMAIN customs :
                 /\ users[i].hostname = host /\ customs[j].hostname = host
                 /\ c[k] = Updated(users[i], customs[j])
        \/ \E i \in DOMAIN users : c[k] = users[i] /\ \A j \in DOMAIN customs : customs[j].hostname # host
        \/ \E j \in DOMAIN customs : c[k] = customs[j] /\ \A i \in DOMAIN users : users[i].hostname # host
    BY <1>3, MergedHosts
  <2>. QED
    BY <1>7, <1>8, <1>9, <1>10, <2>1
<1>. QED
  BY <1>3, <1>4, <1>11

-----------------------------------------------------------------------------
(* Generated files.                                                         *)

LEMMA AnswerType ==
  ASSUME NEW answers \in Answers
  PROVE  /\ IsList(answers)
         /\ \A i \in DOMAIN answers : answers[i] \in [hostname : Domains, port : Nat]
BY CommandLineAssumption DEF ToSet

LEMMA GeneratedTargets ==
  ASSUME NEW answers \in Answers
  PROVE  /\ Targets(Generated(answers)) = [i \in DOMAIN answers |-> Target(answers[i])]
         /\ HasTargets(Generated(answers))
<1>1. PICK t : t = [i \in DOMAIN answers |-> Target(answers[i])]
  OBVIOUS
<1>2. Targets(Generated(answers)) = t
  BY <1>1 DEF Targets, Generated, Get
<1>3. answers \in Seq(ToSet(answers))
  BY AnswerType DEF IsList
<1>4. PICK n \in Nat : DOMAIN answers = 1..n
  BY <1>3
<1>5. t \in [1..n -> ToSet(t)]
  BY <1>1, <1>4 DEF ToSet
<1>6. IsList(t)
  BY <1>4, <1>5, ListOf DEF IsList
<1>. QED
  BY <1>1, <1>2, <1>6 DEF HasTargets

\* The port a target is scanned on is the one that was entered
LEMMA EnteredPort ==
  ASSUME NEW answer \in [hostname : Domains, port : Nat], NEW target, target = Target(answer)
  PROVE  /\ "hostname" \in DOMAIN target /\ target.hostname = answer.hostname
         /\ (IF Get(target, "port", None) \in {None, 0} THEN 443 ELSE target.port)
              = IF answer.port = 0 THEN 443 ELSE answer.port
<1>1. None \notin Nat
  BY CommandLineAssumption
<1>2. CASE answer.port \notin {0, 443}
  <2>1. target = answer /\ DOMAIN target = {"hostname", "port"} /\ answer.port \in Nat
    BY <1>2 DEF Target
  <2>. QED
    BY <1>1, <1>2, <2>1 DEF Get
<1>3. CASE answer.port \in {0, 443}
  <2>1. target = [hostname |-> answer.hostname]
    BY <1>3 DEF Target
  <2>2. DOMAIN target = {"hostname"} /\ target.hostname = answer.hostname
    BY <2>1
  <2>. QED
    BY <1>3, <2>2 DEF Get
<1>. QED
  BY <1>2, <1>3

LEMMA EnteredTargets ==
  ASSUME NEW answers \in Answers, NEW users, NEW customs, customs = Targets(Generated(answers)),
         Valid(users, customs), NEW c, c = MergeTargets(users, customs)
  PROVE  /\ \A k \in DOMAIN c : (\A i \in DOMAIN users : users[i].hostname # c[k].hostname) =>
              \E a \in ToSet(answers) :
                /\ c[k].hostname = a.hostname
                /\ (IF Get(c[k], "port", None) \in {None, 0} THEN 443 ELSE c[k].port)
                     = IF a.port = 0 THEN 443 ELSE a.port
         /\ \A a \in ToSet(answers) : (\A i \in DOMAIN users : users[i].hostname # a.hostname) =>
              \E k \in DOMAIN c :
                /\ c[k].hostname = a.hostname
                /\ (IF Get(c[k], "port", None) \in {None, 0} THEN 443 ELSE c[k].port)
                     = IF a.port = 0 THEN 443 ELSE a.port
<1>1. /\ DOMAIN customs = DOMAIN answers
      /\ \A j \in DOMAIN answers : customs[j] = Target(answers[j])
  BY GeneratedTargets
<1>2. ASSUME NEW j \in DOMAIN answers
      PROVE  /\ "hostname" \in DOMAIN customs[j] /\ customs[j].hostname = answers[j].hostname
             /\ (IF Get(customs[j], "port", None) \in {None, 0} THEN 443 ELSE customs[j].port)
                  = IF answers[j].port = 0 THEN 443 ELSE answers[j].port
  BY <1>1, AnswerType, EnteredPort
<1>3. ASSUME NEW k \in DOMAIN c, \A i \in DOMAIN users : users[i].hostname # c[k].hostname
      PROVE  \E j \in DOMAIN answers : c[k] = customs[j]
  <2>1. ASSUME NEW i \in DOMAIN users, c[k] = users[i] PROVE FALSE
    BY <1>3, <2>1
  <2>. QED
    BY <1>1, <1>3, <2>1, MergedHosts
<1>4. ASSUME NEW j \in DOMAIN answers, \A i \in DOMAIN users : users[i].hostname # answers[j].hostname
      PROVE  \E k \in DOMAIN c : c[k] = customs[j]
  <2>1. PICK S : S = ToSet(users) \cup ToSet(customs)
    OBVIOUS
  <2>2. users \in Seq(S) /\ customs \in Seq(S)
    BY <2>1 DEF Valid, IsList
  <2>3. IsMerge(users, customs, c)
    BY <2>2, MergedTargets
  <2>4. Host(customs[j]) = answers[j].hostname
    BY <1>2 DEF Host, Get
  <2>5. \A i \in DOMAIN users : Host(users[i]) = users[i].hostname
    BY NamedHosts DEF Host, Get
  <2>6. ~Has(users, "hostname", Host(customs[j]))
    BY <1>4, <2>4, <2>5 DEF Has, Host
  <2>. QED
    BY <1>1, <2>3, <2>6 DEF IsMerge
<1>5. ASSUME NEW k \in DOMAIN c, \A i \in DOMAIN users : users[i].hostname # c[k].hostname
      PROVE  \E a \in ToSet(answers) :
                /\ c[k].hostname = a.hostname
                /\ (IF Get(c[k], "port", None) \in {None, 0} THEN 443 ELSE c[k].port)
                     = IF a.port = 0 THEN 443 ELSE a.port
  <2>1. PICK j \in DOMAIN answers : c[k] = customs[j]
    BY <1>3, <1>5
  <2>2. answers[j] \in ToSet(answers)
    BY DEF ToSet
  <2>. QED
    BY <1>2, <2>1, <2>2
<1>6. ASSUME NEW a \in ToSet(answers), \A i \in DOMAIN users : users[i].hostname # a.hostname
      PROVE  \E k \in DOMAIN c :
                /\ c[k].hostname = a.hostname
                /\ (IF Get(c[k], "port", None) \in {None, 0} THEN 443 ELSE c[k].port)
                     = IF a.port = 0 THEN 443 ELSE a.port
  <2>1. PICK j \in DOMAIN answers : a = answers[j]
    BY DEF ToSet
  <2>2. PICK k \in DOMAIN c : c[k] = customs[j]
    BY <1>4, <1>6, <2>1
  <2>. QED
    BY <1>2, <2>1, <2>2
<1>. QED
  BY <1>5, <1>6

-----------------------------------------------------------------------------
(* The steps of generate and scan.                                          *)

\* The configuration a scan ends up with
Final(args, user, custom) ==
  LET config == Overridden(args, Combined(user, custom))
  IN [config EXCEPT !.defaults = Defaults(@)]

GenInv ==
  /\ gen \in [at : {"idle", "open", "write"}, answers : Answers \cup {<< >>}, path : Paths]
  /\ gen.at # "idle" => gen.answers \in Answers

FilesInv ==
  /\ files = [p \in Paths |-> files[p]]
  /\ entered = [p \in Paths |-> entered[p]]
  /\ \A p \in Paths :
       /\ files[p] \notin {None, Empty} => HasTargets(files[p])
       /\ entered[p] # None => entered[p] \in Answers /\ files[p] = Generated(entered[p])

ScanInv ==
  /\ scan = [at |-> scan.at, args |-> scan.args, custom |-> scan.custom, user |-> scan.user,
             config |-> scan.config, entered |-> scan.entered]
  /\ scan.at \in {"idle", "user", "options", "scanning", "failed"}
  /\ scan.at \in {"user", "options", "scanning"} =>
       /\ scan.args \in Commands /\ HasTargets(scan.custom)
       /\ scan.entered # None => scan.entered \in Answers /\ scan.custom = Generated(scan.entered)
  /\ scan.at \in {"options", "scanning"} =>
       HasTargets(scan.user) /\ Validates(scan.user, scan.custom)
  /\ scan.at = "options" => scan.config = Combined(scan.user, scan.custom)
  /\ scan.at = "scanning" => scan.config = Final(scan.args, scan.user, scan.custom)

Inv == GenInv /\ FilesInv /\ ScanInv

LEMMA NoTargets == HasTargets(<< >>)
<1>1. DOMAIN << >> = {} /\ << >> \in Seq(ToSet(<< >>))
  OBVIOUS
<1>. QED
  BY <1>1 DEF HasTargets, Targets, Get, IsList

LEMMA ConfTargets ==
  ASSUME NEW conf \in UserConfs \cup CustomConfs
  PROVE  HasTargets(conf)
BY CommandLineAssumption DEF IsConf, HasTargets, Targets

LEMMA InvInit == Init => Inv
<1>1. ASSUME Init PROVE GenInv
  BY <1>1 DEF Init, IdleGen, GenInv, Paths
<1>2. ASSUME Init PROVE FilesInv
  <2>1. PICK u \in UserConfs \cup {None, Empty}, c \in CustomConfs \cup {None, Empty} :
          files = [user |-> u, local |-> c, other |-> None]
    BY <1>2 DEF Init
  <2>2. /\ DOMAIN files = Paths /\ files = [p \in Paths |-> files[p]]
        /\ files["user"] = u /\ files["local"] = c /\ files["other"] = None
    BY <2>1 DEF Paths
  <2>3. /\ u \notin {None, Empty} => HasTargets(u)
        /\ c \notin {None, Empty} => HasTargets(c)
    BY <2>1, ConfTargets
  <2>4. ASSUME NEW p \in Paths, files[p] \notin {None, Empty} PROVE HasTargets(files[p])
    BY <2>2, <2>3, <2>4 DEF Paths
  <2>5. entered = [p \in Paths |-> None]
    BY <1>2 DEF Init
  <2>. QED
    BY <2>2, <2>4, <2>5 DEF FilesInv
<1>3. ASSUME Init PROVE ScanInv
  BY <1>3 DEF Init, IdleScan, ScanInv
<1>. QED
  BY <1>1, <1>2, <1>3 DEF Inv

LEMMA GenerateStep == Inv /\ Generate => Inv'
<1>. SUFFICES ASSUME Inv, Generate PROVE Inv'
  OBVIOUS
<1>1. GenInv'
  BY DEF Generate, GenInv
<1>2. FilesInv' /\ ScanInv'
  BY DEF Generate, Inv, FilesInv, ScanInv
<1>. QED
  BY <1>1, <1>2 DEF Inv

LEMMA OpenStep == Inv /\ OpenConfig => Inv'
<1>. SUFFICES ASSUME Inv, OpenConfig PROVE Inv'
  OBVIOUS
<1>1. GenInv'
  BY DEF OpenConfig, Inv, GenInv
<1>2. FilesInv'
  <2>1. gen.path \in Paths
    BY DEF Inv, GenInv
  <2>2. /\ files' = [files EXCEPT ![gen.path] = Empty]
        /\ entered' = [entered EXCEPT ![gen.path] = None]
    BY DEF OpenConfig
  <2>3. files' = [p \in Paths |-> files'[p]] /\ entered' = [p \in Paths |-> entered'[p]]
    BY <2>1, <2>2 DEF Inv, FilesInv
  <2>4. ASSUME NEW p \in Paths
        PROVE  /\ files'[p] \notin {None, Empty} => HasTargets(files'[p])
               /\ entered'[p] # None => entered'[p] \in Answers /\ files'[p] = Generated(entered'[p])
    BY <2>1, <2>2 DEF Inv, FilesInv
  <2>. QED
    BY <2>3, <2>4 DEF FilesInv
<1>3. ScanInv'
  BY DEF OpenConfig, Inv, ScanInv
<1>. QED
  BY <1>1, <1>2, <1>3 DEF Inv

LEMMA WriteStep == Inv /\ WriteConfig => Inv'
<1>. SUFFICES ASSUME Inv, WriteConfig PROVE Inv'
  OBVIOUS
<1>1. GenInv'
  BY DEF WriteConfig, IdleGen, GenInv, Paths
<1>2. FilesInv'
  <2>1. gen.path \in Paths /\ gen.answers \in Answers
    BY DEF WriteConfig, Inv, GenInv
  <2>2. /\ files' = [files EXCEPT ![gen.path] = Generated(gen.answers)]
        /\ entered' = [entered EXCEPT ![gen.path] = gen.answers]
    BY DEF WriteConfig
  <2>3. files' = [p \in Paths |-> files'[p]] /\ entered' = [p \in Paths |-> entered'[p]]
    BY <2>1, <2>2 DEF Inv, FilesInv
  <2>4. HasTargets(Generated(gen.answers))
    BY <2>1, GeneratedTargets
  <2>5. ASSUME NEW p \in Paths
        PROVE  /\ files'[p] \notin {None, Empty} => HasTargets(files'[p])
               /\ entered'[p] # None => entered'[p] \in Answers /\ files'[p] = Generated(entered'[p])
    <3>1. CASE p = gen.path
      <4>1. files'[p] = Generated(gen.answers) /\ entered'[p] = gen.answers
        BY <2>1, <2>2, <3>1 DEF Inv, FilesInv
      <4>. QED
        BY <2>1, <2>4, <4>1
    <3>2. CASE p # gen.path
      <4>1. files'[p] = files[p] /\ entered'[p] = entered[p]
        BY <2>2, <3>2 DEF Inv, FilesInv
      <4>. QED
        BY <4>1 DEF Inv, FilesInv
    <3>. QED
      BY <3>1, <3>2
  <2>. QED
    BY <2>3, <2>5 DEF FilesInv
<1>3. ScanInv'
  BY DEF WriteConfig, Inv, ScanInv
<1>. QED
  BY <1>1, <1>2, <1>3 DEF Inv

LEMMA StopStep == Inv /\ StopGenerate => Inv'
<1>. SUFFICES ASSUME Inv, StopGenerate PROVE Inv'
  OBVIOUS
<1>1. GenInv'
  BY DEF StopGenerate, IdleGen, GenInv, Paths
<1>2. FilesInv' /\ ScanInv'
  BY DEF StopGenerate, Inv, FilesInv, ScanInv
<1>. QED
  BY <1>1, <1>2 DEF Inv

\* A file that is found complete holds what was entered last
LEMMA CustomStep == Inv /\ LoadCustom => Inv'
<1>1. SUFFICES ASSUME Inv, NEW args \in Commands,
                     scan' = [IdleScan EXCEPT !.at = "user", !.args = args, !.entered = entered[args.config_file],
                                !.custom = IF files[args.config_file] \in {None, Empty} THEN << >>
                                           ELSE files[args.config_file]],
                     UNCHANGED <<files, gen, entered>>
              PROVE  Inv'
  BY DEF LoadCustom
<1>2. Inv
  BY <1>1
<1>3. GenInv' /\ FilesInv'
  BY <1>1 DEF Inv, GenInv, FilesInv
<1>4. PICK path \in Paths : path = args.config_file
  BY CommandLineAssumption
<1>5. PICK custom, answers :
        /\ custom = IF files[path] \in {None, Empty} THEN << >> ELSE files[path]
        /\ answers = entered[path]
  OBVIOUS
<1>6. HasTargets(custom)
  BY <1>2, <1>4, <1>5, NoTargets DEF Inv, FilesInv
<1>7. ASSUME answers # None
      PROVE  answers \in Answers /\ custom = Generated(answers)
  <2>1. answers \in Answers /\ files[path] = Generated(answers)
    BY <1>2, <1>4, <1>5, <1>7 DEF Inv, FilesInv
  <2>. QED
    BY <1>5, <2>1, FileAssumption
<1>8. scan' = [at |-> "user", args |-> args, custom |-> custom, user |-> None,
               config |-> None, entered |-> answers]
  BY <1>1, <1>4, <1>5 DEF IdleScan
<1>9. /\ scan'.at = "user" /\ scan'.args = args /\ scan'.custom = custom
      /\ scan'.entered = answers
      /\ scan' = [at |-> scan'.at, args |-> scan'.args, custom |-> scan'.custom, user |-> scan'.user,
                  config |-> scan'.config, entered |-> scan'.entered]
  BY <1>8
<1>10. ScanInv'
  BY <1>6, <1>7, <1>9 DEF ScanInv
<1>. QED
  BY <1>3, <1>10 DEF Inv

LEMMA UserStep == Inv /\ LoadUser => Inv'
<1>. SUFFICES ASSUME Inv, LoadUser PROVE Inv'
  OBVIOUS
<1>1. GenInv' /\ FilesInv'
  BY DEF LoadUser, Inv, GenInv, FilesInv
<1>2. /\ scan = [at |-> "user", args |-> scan.args, custom |-> scan.custom, user |-> scan.user,
                 config |-> scan.config, entered |-> scan.entered]
      /\ scan.args \in Commands /\ HasTargets(scan.custom)
      /\ scan.entered # None => scan.entered \in Answers /\ scan.custom = Generated(scan.entered)
  BY DEF LoadUser, Inv, ScanInv
<1>3. PICK user : user = IF files["user"] = None THEN << >> ELSE files["user"]
  OBVIOUS
<1>4. ASSUME user # Empty PROVE HasTargets(user)
  <2>1. "user" \in Paths
    BY DEF Paths
  <2>. QED
    BY <1>3, <1>4, <2>1, NoTargets DEF Inv, FilesInv
<1>5. CASE user # Empty /\ Validates(user, scan.custom)
  <2>1. scan' = [scan EXCEPT !.at = "options", !.user = user, !.config = Combined(user, scan.custom)]
    BY <1>3, <1>5 DEF LoadUser
  <2>2. PICK config : config = Combined(user, scan.custom)
    OBVIOUS
  <2>3. scan' = [at |-> "options", args |-> scan.args, custom |-> scan.custom, user |-> user,
                 config |-> config, entered |-> scan.entered]
    BY <1>2, <2>1, <2>2
  <2>4. ScanInv'
    BY <1>2, <1>4, <1>5, <2>2, <2>3 DEF ScanInv
  <2>. QED
    BY <1>1, <2>4 DEF Inv
<1>6. CASE ~(user # Empty /\ Validates(user, scan.custom))
  <2>1. scan' = [scan EXCEPT !.at = "failed"]
    BY <1>3, <1>6 DEF LoadUser
  <2>2. scan' = [at |-> "failed", args |-> scan.args, custom |-> scan.custom, user |-> scan.user,
                 config |-> scan.config, entered |-> scan.entered]
    BY <1>2, <2>1
  <2>3. ScanInv'
    BY <2>2 DEF ScanInv
  <2>. QED
    BY <1>1, <2>3 DEF Inv
<1>. QED
  BY <1>5, <1>6

LEMMA OptionsStep == Inv /\ ApplyOptions => Inv'
<1>. SUFFICES ASSUME Inv, ApplyOptions PROVE Inv'
  OBVIOUS
<1>1. GenInv' /\ FilesInv'
  BY DEF ApplyOptions, Inv, GenInv, FilesInv
<1>2. /\ scan = [at |-> "options", args |-> scan.args, custom |-> scan.custom, user |-> scan.user,
                 config |-> scan.config, entered |-> scan.entered]
      /\ scan.args \in Commands /\ HasTargets(scan.custom)
      /\ scan.entered # None => scan.entered \in Answers /\ scan.custom = Generated(scan.entered)
      /\ HasTargets(scan.user) /\ Validates(scan.user, scan.custom)
      /\ scan.config = Combined(scan.user, scan.custom)
  BY DEF ApplyOptions, Inv, ScanInv
<1>3. PICK final : final = Final(scan.args, scan.user, scan.custom)
  OBVIOUS
<1>4. CASE scan' = [scan EXCEPT !.at = "scanning", !.config = final]
  <2>1. scan' = [at |-> "scanning", args |-> scan.args, custom |-> scan.custom, user |-> scan.user,
                 config |-> final, entered |-> scan.entered]
    BY <1>2, <1>4
  <2>2. ScanInv'
    BY <1>2, <1>3, <2>1 DEF ScanInv
  <2>. QED
    BY <1>1, <2>2 DEF Inv
<1>5. CASE scan' = [scan EXCEPT !.at = "failed"]
  <2>1. scan' = [at |-> "failed", args |-> scan.args, custom |-> scan.custom, user |-> scan.user,
                 config |-> scan.config, entered |-> scan.entered]
    BY <1>2, <1>5
  <2>2. ScanInv'
    BY <2>1 DEF ScanInv
  <2>. QED
    BY <1>1, <2>2 DEF Inv
<1>6. \/ scan' = [scan EXCEPT !.at = "scanning", !.config = final]
      \/ scan' = [scan EXCEPT !.at = "failed"]
  BY <1>2, <1>3 DEF ApplyOptions, Final
<1>. QED
  BY <1>4, <1>5, <1>6

LEMMA EndStep == Inv /\ EndScan => Inv'
<1>. SUFFICES ASSUME Inv, EndScan PROVE Inv'
  OBVIOUS
<1>1. GenInv' /\ FilesInv'
  BY DEF EndScan, Inv, GenInv, FilesInv
<1>2. ScanInv'
  BY DEF EndScan, IdleScan, ScanInv
<1>. QED
  BY <1>1, <1>2 DEF Inv

LEMMA InvNext == Inv /\ [Next]_vars => Inv'
<1>1. Inv /\ UNCHANGED vars => Inv'
  BY DEF vars, Inv, GenInv, FilesInv, ScanInv
<1>. QED
  BY <1>1, GenerateStep, OpenStep, WriteStep, StopStep, CustomStep, UserStep, OptionsStep, EndStep DEF Next

LEMMA InvAlways == Spec => []Inv
BY InvInit, InvNext, PTL DEF Spec

-----------------------------------------------------------------------------
(* What is scanned.                                                         *)

\* The targets before the options are applied, one for each merged one
LEMMA BaseTargets ==
  ASSUME NEW user, NEW custom, HasTargets(user), HasTargets(custom), Validates(user, custom),
         NEW c, c = MergeTargets(Targets(user), Targets(custom)),
         NEW base, base = Combined(user, custom)
  PROVE  /\ Valid(Targets(user), Targets(custom))
         /\ IsList(base.targets) /\ DOMAIN base.targets = DOMAIN c
         /\ \A k \in DOMAIN c :
              /\ Host(base.targets[k]) = c[k].hostname /\ base.targets[k].hostname = c[k].hostname
              /\ Get(base.targets[k], "client_certificate", None) = Get(c[k], "client_certificate", None)
              /\ base.targets[k].port = IF Get(c[k], "port", None) \in {None, 0} THEN 443 ELSE c[k].port
              /\ base.targets[k].http_request_paths =
                   {Get(base.defaults, "http_request_path", "/")} \cup Get(c[k], "http_request_paths", {})
<1>1. Valid(Targets(user), Targets(custom))
  BY ValidTargets
<1>2. PICK S : S = ToSet(Targets(user)) \cup ToSet(Targets(custom))
  OBVIOUS
<1>3. Targets(user) \in Seq(S) /\ Targets(custom) \in Seq(S)
  BY <1>1, <1>2 DEF Valid, IsList
<1>4. PICK T : c \in Seq(T)
  BY <1>3, MergedTargets
<1>5. base.targets = [k \in DOMAIN c |-> Completed(c[k], base.defaults)]
  BY CombinedTargets
<1>6. IsList(base.targets) /\ DOMAIN base.targets = DOMAIN c
  <2>1. PICK t : t = base.targets
    OBVIOUS
  <2>2. PICK n \in Nat : DOMAIN c = 1..n
    BY <1>4
  <2>3. t \in [1..n -> ToSet(t)]
    BY <1>5, <2>1, <2>2 DEF ToSet
  <2>4. IsList(t)
    BY <2>2, <2>3, ListOf DEF IsList
  <2>. QED
    BY <1>5, <2>1, <2>4
<1>7. ASSUME NEW k \in DOMAIN c
      PROVE  /\ Host(base.targets[k]) = c[k].hostname /\ base.targets[k].hostname = c[k].hostname
             /\ Get(base.targets[k], "client_certificate", None) = Get(c[k], "client_certificate", None)
             /\ base.targets[k].port = IF Get(c[k], "port", None) \in {None, 0} THEN 443 ELSE c[k].port
             /\ base.targets[k].http_request_paths =
                  {Get(base.defaults, "http_request_path", "/")} \cup Get(c[k], "http_request_paths", {})
  <2>1. "hostname" \in DOMAIN c[k]
    BY <1>1, MergedHosts
  <2>2. base.targets[k] = Completed(c[k], base.defaults)
    BY <1>5
  <2>. QED
    <3>1. "hostname" \in DOMAIN base.targets[k] /\ base.targets[k].hostname = c[k].hostname
      BY <2>1, <2>2, CompletedFields
    <3>2. Host(base.targets[k]) = c[k].hostname
      BY <3>1 DEF Host, Get
    <3>. QED
      BY <2>1, <2>2, <3>2, CompletedFields
<1>. QED
  BY <1>1, <1>6, <1>7

\* No targets on the command line
NoneNamed(args) == args.targets = << >>

LEMMA UnnamedTargets ==
  ASSUME NEW args, NoneNamed(args), NEW user, NEW custom, NEW base, base = Combined(user, custom),
         NEW config, config = Final(args, user, custom)
  PROVE  config.targets = base.targets
<1>1. DOMAIN base = {"defaults", "outputs", "evaluations", "targets"}
  BY CombinedTargets
<1>2. PICK over : over = Overridden(args, base)
  OBVIOUS
<1>3. DOMAIN over = DOMAIN base /\ over.targets = base.targets
  BY <1>1, <1>2 DEF Overridden, NoneNamed
<1>4. config = [over EXCEPT !.defaults = Defaults(over.defaults)]
  BY <1>2 DEF Final
<1>. QED
  BY <1>1, <1>3, <1>4

LEMMA FinalTargets ==
  ASSUME NEW args, ~NoneNamed(args), NEW user, NEW custom, NEW base, base = Combined(user, custom),
         NEW config, config = Final(args, user, custom)
  PROVE  config.targets = [i \in DOMAIN args.targets |-> CliTarget(args, args.targets[i], base.targets)]
<1>1. DOMAIN base = {"defaults", "outputs", "evaluations", "targets"}
  BY CombinedTargets
<1>2. PICK over : over = Overridden(args, base)
  OBVIOUS
<1>3. /\ DOMAIN over = DOMAIN base
      /\ over.targets = [i \in DOMAIN args.targets |-> CliTarget(args, args.targets[i], base.targets)]
  BY <1>1, <1>2 DEF Overridden, NoneNamed
<1>4. config = [over EXCEPT !.defaults = Defaults(over.defaults)]
  BY <1>2 DEF Final
<1>5. config.targets = over.targets
  BY <1>1, <1>3, <1>4
<1>. QED
  BY <1>3, <1>5

\* A target named on the command line has its certificate from there or from a configured
\* target with the same host
LEMMA NamedTarget ==
  ASSUME NEW S, NEW targets \in Seq(S), NEW args, NEW named, NEW t, t = CliTarget(args, named, targets)
  PROVE  /\ t.hostname = named.hostname
         /\ \/ Get(t, "client_certificate", None) = args.client_pem
            \/ \E i \in DOMAIN targets :
                 /\ targets[i].hostname = named.hostname
                 /\ Get(t, "client_certificate", None) = Get(targets[i], "client_certificate", None)
<1>1. PICK plain : plain = [hostname |-> named.hostname,
                            port |-> IF named.port = None THEN 443 ELSE named.port,
                            client_certificate |-> args.client_pem,
                            http_request_paths |-> {args.http_path}]
  OBVIOUS
<1>2. /\ DOMAIN plain = {"hostname", "port", "client_certificate", "http_request_paths"}
      /\ plain.hostname = named.hostname /\ plain.client_certificate = args.client_pem
  BY <1>1
<1>3. PICK same : same = Of(targets, named.hostname)
  OBVIOUS
<1>4. /\ same \in Seq(S)
      /\ \A k \in DOMAIN same : \E i \in DOMAIN targets :
           targets[i].hostname = named.hostname /\ same[k] = targets[i]
  BY <1>3, OfHost
<1>5. CASE same = << >>
  <2>1. t = plain
    BY <1>1, <1>3, <1>5 DEF CliTarget, Of
  <2>. QED
    BY <1>2, <2>1 DEF Get
<1>6. CASE same # << >>
  <2>1. PICK r : r = [client_certificate |-> IF args.client_pem = None
                                             THEN Get(same[1], "client_certificate", None)
                                             ELSE args.client_pem,
                      http_request_paths |-> same[1].http_request_paths,
                      skip |-> same[1].skip]
    OBVIOUS
  <2>2. t = Updated(plain, r)
    BY <1>1, <1>3, <1>6, <2>1 DEF CliTarget, Of
  <2>3. /\ DOMAIN r = {"client_certificate", "http_request_paths", "skip"}
        /\ r.client_certificate \in {args.client_pem, Get(same[1], "client_certificate", None)}
    BY <2>1
  <2>4. t.hostname = named.hostname /\ Get(t, "client_certificate", None) = r.client_certificate
    BY <1>2, <2>2, <2>3 DEF Updated, Get
  <2>5. 1 \in DOMAIN same
    BY <1>4, <1>6
  <2>6. PICK i \in DOMAIN targets : targets[i].hostname = named.hostname /\ same[1] = targets[i]
    BY <1>4, <2>5
  <2>. QED
    BY <2>3, <2>4, <2>6
<1>. QED
  BY <1>5, <1>6

LEMMA LayeredScan ==
  ASSUME Inv, Ready
  PROVE  /\ scan.args \in Commands /\ HasTargets(scan.custom)
         /\ scan.entered # None => scan.entered \in Answers /\ scan.custom = Generated(scan.entered)
         /\ HasTargets(scan.user) /\ Validates(scan.user, scan.custom)
         /\ scan.config = Final(scan.args, scan.user, scan.custom)
BY DEF Inv, ScanInv, Ready

\* A client certificate from a configuration is shown to the host it was configured for
\* and to no other, whatever the files and the command line are: _merge_2_lists_of_dicts
\* never joins two hosts, and _scan_config looks for the named one.
THEOREM CertificatesOwn == Spec => []CertificateOwn
<1>1. ASSUME Inv PROVE CertificateOwn
  <2>1. SUFFICES ASSUME Ready, NEW i \in DOMAIN scan.config.targets
                 PROVE  Get(scan.config.targets[i], "client_certificate", None) \in
                          {None, scan.args.client_pem}
                          \cup {Get(layer, "client_certificate", None) :
                                  layer \in ToSet(Layers(scan.config.targets[i].hostname))}
    BY DEF CertificateOwn
  <2>2. /\ HasTargets(scan.custom) /\ HasTargets(scan.user) /\ Validates(scan.user, scan.custom)
        /\ scan.config = Final(scan.args, scan.user, scan.custom)
    BY <1>1, <2>1, LayeredScan
  <2>3. PICK base : base = Combined(scan.user, scan.custom)
    OBVIOUS
  <2>4. PICK c : c = MergeTargets(Targets(scan.user), Targets(scan.custom))
    OBVIOUS
  <2>5. /\ Valid(Targets(scan.user), Targets(scan.custom))
        /\ IsList(base.targets) /\ DOMAIN base.targets = DOMAIN c
        /\ \A k \in DOMAIN c :
             /\ base.targets[k].hostname = c[k].hostname
             /\ Get(base.targets[k], "client_certificate", None) = Get(c[k], "client_certificate", None)
    BY <2>2, <2>3, <2>4, BaseTargets
  <2>6. ASSUME NEW k \in DOMAIN base.targets
        PROVE  \E layer \in ToSet(Layers(base.targets[k].hostname)) :
                 Get(base.targets[k], "client_certificate", None) = Get(layer, "client_certificate", None)
    <3>1. PICK host : host = c[k].hostname
      OBVIOUS
    <3>2. PICK layers : layers = LayersIn(Targets(scan.user), Targets(scan.custom), host)
      OBVIOUS
    <3>3. \E layer \in ToSet(layers) :
            Get(c[k], "client_certificate", None) = Get(layer, "client_certificate", None)
      BY <2>4, <2>5, <3>1, <3>2, CertificateFrom
    <3>4. layers = Layers(base.targets[k].hostname)
      BY <2>5, <3>1, <3>2, LayersAre
    <3>. QED
      BY <2>5, <3>3, <3>4
  <2>7. CASE NoneNamed(scan.args)
    <3>1. scan.config.targets = base.targets
      BY <2>2, <2>3, <2>7, UnnamedTargets
    <3>. QED
      BY <2>1, <2>6, <3>1
  <2>8. CASE ~NoneNamed(scan.args)
    <3>1. scan.config.targets =
            [n \in DOMAIN scan.args.targets |-> CliTarget(scan.args, scan.args.targets[n], base.targets)]
      BY <2>2, <2>3, <2>8, FinalTargets
    <3>2. PICK named, t : /\ named = scan.args.targets[i] /\ t = scan.config.targets[i]
                          /\ t = CliTarget(scan.args, named, base.targets)
      BY <2>1, <3>1
    <3>3. base.targets \in Seq(ToSet(base.targets))
      BY <2>5 DEF IsList
    <3>4. /\ t.hostname = named.hostname
          /\ \/ Get(t, "client_certificate", None) = scan.args.client_pem
             \/ \E k \in DOMAIN base.targets :
                  /\ base.targets[k].hostname = named.hostname
                  /\ Get(t, "client_certificate", None) = Get(base.targets[k], "client_certificate", None)
      BY <3>2, <3>3, NamedTarget
    <3>5. ASSUME NEW k \in DOMAIN base.targets, base.targets[k].hostname = named.hostname,
                 Get(t, "client_certificate", None) = Get(base.targets[k], "client_certificate", None)
          PROVE  \E layer \in ToSet(Layers(t.hostname)) :
                   Get(t, "client_certificate", None) = Get(layer, "client_certificate", None)
      BY <2>6, <3>4, <3>5
    <3>. QED
      BY <3>2, <3>4, <3>5
  <2>. QED
    BY <2>7, <2>8
<1>2. Inv => CertificateOwn
  BY <1>1
<1>. QED
  BY <1>2, InvAlways, PTL

Scanned(targets) == {<<t.hostname, t.port>> : t \in ToSet(targets)}
Asked(answers) == {<<a.hostname, IF a.port = 0 THEN 443 ELSE a.port>> : a \in ToSet(answers)}
Foreign(users, host) == \A k \in DOMAIN users : users[k].hostname # host

\* What was entered into trivial generate is what a scan of that file scans, port by port,
\* beside the hosts of the user's file: the default port that _gather_target leaves out comes
\* back, and the merge neither drops nor adds one of its targets.
THEOREM EnteredAreScanned == Spec => []EnteredScanned
<1>1. ASSUME Inv PROVE EnteredScanned
  <2>0. SUFFICES ASSUME Ready, scan.entered # None, NoneNamed(scan.args)
                 PROVE  {x \in Scanned(scan.config.targets) : Foreign(Targets(scan.user), x[1])}
                          = {x \in Asked(scan.entered) : Foreign(Targets(scan.user), x[1])}
    BY DEF EnteredScanned, NoneNamed, Targets, Scanned, Asked, Foreign
  <2>1. SUFFICES ASSUME NEW users, users = Targets(scan.user),
                        NEW scanned, scanned = Scanned(scan.config.targets),
                        NEW asked, asked = Asked(scan.entered),
                        NEW x, Foreign(users, x[1])
                 PROVE  x \in scanned <=> x \in asked
    OBVIOUS
  <2>2. /\ HasTargets(scan.custom) /\ HasTargets(scan.user) /\ Validates(scan.user, scan.custom)
        /\ scan.config = Final(scan.args, scan.user, scan.custom)
        /\ scan.entered \in Answers /\ scan.custom = Generated(scan.entered)
    BY <1>1, <2>0, LayeredScan
  <2>3. PICK base : base = Combined(scan.user, scan.custom)
    OBVIOUS
  <2>4. PICK customs, c : customs = Targets(scan.custom) /\ c = MergeTargets(users, customs)
    OBVIOUS
  <2>5. /\ Valid(users, customs)
        /\ DOMAIN base.targets = DOMAIN c
        /\ \A k \in DOMAIN c :
             /\ base.targets[k].hostname = c[k].hostname
             /\ base.targets[k].port = IF Get(c[k], "port", None) \in {None, 0} THEN 443 ELSE c[k].port
    BY <2>1, <2>2, <2>3, <2>4, BaseTargets
  <2>6. scan.config.targets = base.targets
    BY <2>0, <2>2, <2>3, UnnamedTargets
  <2>7. /\ \A k \in DOMAIN c : (\A i \in DOMAIN users : users[i].hostname # c[k].hostname) =>
              \E a \in ToSet(scan.entered) :
                /\ c[k].hostname = a.hostname
                /\ (IF Get(c[k], "port", None) \in {None, 0} THEN 443 ELSE c[k].port)
                     = IF a.port = 0 THEN 443 ELSE a.port
        /\ \A a \in ToSet(scan.entered) : (\A i \in DOMAIN users : users[i].hostname # a.hostname) =>
              \E k \in DOMAIN c :
                /\ c[k].hostname = a.hostname
                /\ (IF Get(c[k], "port", None) \in {None, 0} THEN 443 ELSE c[k].port)
                     = IF a.port = 0 THEN 443 ELSE a.port
    <3>1. scan.entered \in Answers /\ customs = Targets(Generated(scan.entered))
      BY <2>2, <2>4
    <3>. QED
      BY <2>4, <2>5, <3>1, EnteredTargets
  <2>8. ASSUME x \in scanned PROVE x \in asked
    <3>1. PICK k \in DOMAIN c : x = <<base.targets[k].hostname, base.targets[k].port>>
      BY <2>1, <2>5, <2>6, <2>8 DEF ToSet, Scanned
    <3>2. \A i \in DOMAIN users : users[i].hostname # c[k].hostname
      BY <2>1, <2>5, <3>1 DEF Foreign
    <3>3. PICK a \in ToSet(scan.entered) :
                /\ c[k].hostname = a.hostname
                /\ (IF Get(c[k], "port", None) \in {None, 0} THEN 443 ELSE c[k].port)
                     = IF a.port = 0 THEN 443 ELSE a.port
      BY <2>7, <3>2
    <3>4. x = <<a.hostname, IF a.port = 0 THEN 443 ELSE a.port>>
      BY <2>5, <3>1, <3>3
    <3>. QED
      BY <2>1, <3>4 DEF Asked
  <2>9. ASSUME x \in asked PROVE x \in scanned
    <3>1. PICK a \in ToSet(scan.entered) : x = <<a.hostname, IF a.port = 0 THEN 443 ELSE a.port>>
      BY <2>1, <2>9 DEF Asked
    <3>2. \A i \in DOMAIN users : users[i].hostname # a.hostname
      BY <2>1, <3>1 DEF Foreign
    <3>3. PICK k \in DOMAIN c :
                /\ c[k].hostname = a.hostname
                /\ (IF Get(c[k], "port", None) \in {None, 0} THEN 443 ELSE c[k].port)
                     = IF a.port = 0 THEN 443 ELSE a.port
      BY <2>7, <3>2
    <3>4. x = <<base.targets[k].hostname, base.targets[k].port>>
      BY <2>5, <3>1, <3>3
    <3>5. base.targets[k] \in ToSet(scan.config.targets)
      BY <2>5, <2>6 DEF ToSet
    <3>. QED
      BY <2>1, <3>4, <3>5 DEF Scanned
  <2>. QED
    BY <2>8, <2>9
<1>2. Inv => EnteredScanned
  BY <1>1
<1>. QED
  BY <1>2, InvAlways, PTL

\* The path every target is asked for: the custom file's, then the user's, then "/"
LEMMA CombinedPath ==
  ASSUME NEW user, NEW custom, NEW base, base = Combined(user, custom)
  PROVE  Get(base.defaults, "http_request_path", "/")
           = Get(Get(custom, "defaults", << >>), "http_request_path",
                 Get(Get(user, "defaults", << >>), "http_request_path", "/"))
<1>1. PICK own : own = Get(custom, "defaults", << >>)
  OBVIOUS
<1>2. PICK users : users = Get(user, "defaults", << >>)
  OBVIOUS
<1>3. base.defaults = Updated(Updated(Builtin.defaults, users), own)
  <2>1. base.defaults = Updated(Updated(Builtin.defaults, Get(user, "defaults", << >>)),
                                Get(custom, "defaults", << >>))
    BY DEF Combined
  <2>. QED
    BY <1>1, <1>2, <2>1
<1>4. "http_request_path" \notin DOMAIN Builtin.defaults
  BY CommandLineAssumption
<1>5. Get(Updated(Updated(Builtin.defaults, users), own), "http_request_path", "/")
        = Get(own, "http_request_path", Get(users, "http_request_path", "/"))
  BY <1>4 DEF Get, Updated
<1>. QED
  BY <1>1, <1>2, <1>3, <1>5

\* The merged hosts are those of which some layer speaks
LEMMA LayeredHosts ==
  ASSUME NEW users, NEW customs, Valid(users, customs), NEW c, c = MergeTargets(users, customs)
  PROVE  /\ \A k \in DOMAIN c : c[k].hostname \in Domains /\ LayersIn(users, customs, c[k].hostname) # << >>
         /\ \A host \in Domains : LayersIn(users, customs, host) # << >> =>
              \E k \in DOMAIN c : c[k].hostname = host
<1>1. IsList(users) /\ IsList(customs)
  BY DEF Valid
<1>2. PICK S : S = ToSet(users) \cup ToSet(customs)
  OBVIOUS
<1>3. users \in Seq(S) /\ customs \in Seq(S)
  BY <1>1, <1>2 DEF IsList
<1>4. ASSUME NEW k \in DOMAIN c
      PROVE  c[k].hostname \in Domains /\ LayersIn(users, customs, c[k].hostname) # << >>
  <2>1. PICK layers : layers = LayersIn(users, customs, c[k].hostname)
    OBVIOUS
  <2>2. /\ \A i \in DOMAIN users : users[i].hostname = c[k].hostname => users[i] \in ToSet(layers)
        /\ \A j \in DOMAIN customs : customs[j].hostname = c[k].hostname => customs[j] \in ToSet(layers)
    BY <1>1, <2>1, LayerEntries
  <2>3. \/ \E i \in DOMAIN users : users[i].hostname = c[k].hostname
        \/ \E j \in DOMAIN customs : customs[j].hostname = c[k].hostname
    BY MergedHosts
  <2>4. \E item : item \in ToSet(layers)
    BY <2>2, <2>3
  <2>5. layers # << >>
    BY <2>4 DEF ToSet
  <2>. QED
    BY <2>1, <2>5, MergedHosts
<1>5. ASSUME NEW host \in Domains, LayersIn(users, customs, host) # << >>
      PROVE  \E k \in DOMAIN c : c[k].hostname = host
  <2>1. \/ \E i \in DOMAIN users : users[i].hostname = host
        \/ \E j \in DOMAIN customs : customs[j].hostname = host
    <3>1. ASSUME \A i \in DOMAIN users : users[i].hostname # host,
                 \A j \in DOMAIN customs : customs[j].hostname # host
          PROVE  FALSE
      <4>1. Of(users, host) = << >> /\ Of(customs, host) = << >>
        BY <1>3, <3>1, OfNone
      <4>2. LayersIn(users, customs, host) = << >>
        BY <4>1 DEF LayersIn, Joined
      <4>. QED
        BY <1>5, <4>2
    <3>. QED
      BY <3>1
  <2>2. \/ \E i \in DOMAIN users : Host(users[i]) = host
        \/ \E j \in DOMAIN customs : Host(customs[j]) = host
    BY <2>1, NamedHosts DEF Host, Get
  <2>3. IsMerge(users, customs, c)
    BY <1>3, MergedTargets
  <2>4. PICK k \in DOMAIN c : Host(c[k]) = host
    BY <2>2, <2>3 DEF IsMerge
  <2>5. Host(c[k]) = c[k].hostname
    BY MergedHosts DEF Host, Get
  <2>. QED
    BY <2>4, <2>5
<1>. QED
  BY <1>4, <1>5

\* Without targets on the command line every host of either file is scanned once, on the
\* port and with the certificate and the paths that the custom file gives, or else the user's,
\* or else the defaults, as long as no file names a host twice: what two rounds of nested loops
\* in _merge_2_lists_of_dicts put together is a lookup in two layers.
THEOREM TargetsAsLayered == Spec => []TargetsLayered
<1>1. ASSUME Inv PROVE TargetsLayered
  <2>1. SUFFICES ASSUME Layered, NoneNamed(scan.args),
                        NEW targets, targets = scan.config.targets,
                        NEW path, path = Get(Get(scan.custom, "defaults", << >>), "http_request_path",
                                             Get(Get(scan.user, "defaults", << >>), "http_request_path", "/"))
                 PROVE  /\ Distinct(targets, "hostname")
                        /\ {targets[i].hostname : i \in DOMAIN targets} = {h \in Domains : Layers(h) # << >>}
                        /\ \A i \in DOMAIN targets :
                             /\ targets[i].port = IF Says(targets[i].hostname, "port", 0) \in {0, None} THEN 443
                                                  ELSE Says(targets[i].hostname, "port", 0)
                             /\ Get(targets[i], "client_certificate", None)
                                  = Says(targets[i].hostname, "client_certificate", None)
                             /\ targets[i].http_request_paths
                                  = Says(targets[i].hostname, "http_request_paths", {}) \cup {path}
    BY DEF TargetsLayered, NoneNamed
  <2>2. /\ HasTargets(scan.custom) /\ HasTargets(scan.user) /\ Validates(scan.user, scan.custom)
        /\ scan.config = Final(scan.args, scan.user, scan.custom)
    BY <1>1, <2>1, LayeredScan DEF Layered
  <2>3. PICK users, customs : users = Targets(scan.user) /\ customs = Targets(scan.custom)
    OBVIOUS
  <2>4. PICK c : c = MergeTargets(users, customs)
    OBVIOUS
  <2>5. PICK base : base = Combined(scan.user, scan.custom)
    OBVIOUS
  <2>6. Get(base.defaults, "http_request_path", "/") = path
    BY <2>1, <2>5, CombinedPath
  <2>7. /\ Valid(users, customs)
        /\ DOMAIN base.targets = DOMAIN c
        /\ \A k \in DOMAIN c :
             /\ Host(base.targets[k]) = c[k].hostname /\ base.targets[k].hostname = c[k].hostname
             /\ Get(base.targets[k], "client_certificate", None) = Get(c[k], "client_certificate", None)
             /\ base.targets[k].port = IF Get(c[k], "port", None) \in {None, 0} THEN 443 ELSE c[k].port
             /\ base.targets[k].http_request_paths =
                  {Get(base.defaults, "http_request_path", "/")} \cup Get(c[k], "http_request_paths", {})
    BY <2>2, <2>3, <2>4, <2>5, BaseTargets
  <2>8. targets = base.targets
    BY <2>1, <2>2, <2>5, UnnamedTargets
  <2>9. Distinct(users, "hostname") /\ Distinct(customs, "hostname")
    BY <2>1, <2>3 DEF Layered, Targets
  <2>10. \A host : Layers(host) = LayersIn(users, customs, host)
    BY <2>3, LayersAre
  <2>11. \A k \in DOMAIN c : \A field, default :
           Says(c[k].hostname, field, default) = Get(c[k], field, default)
    <3>1. SUFFICES ASSUME NEW k \in DOMAIN c, NEW field, NEW default
                   PROVE  Says(c[k].hostname, field, default) = Get(c[k], field, default)
      OBVIOUS
    <3>2. SaysIn(LayersIn(users, customs, c[k].hostname), field, default) = Get(c[k], field, default)
      BY <2>4, <2>7, <2>9, MergedSays
    <3>3. Says(c[k].hostname, field, default) = SaysIn(Layers(c[k].hostname), field, default)
      BY SaysAre
    <3>. QED
      BY <2>10, <3>2, <3>3
  <2>12. Distinct(targets, "hostname")
    <3>1. PICK S : S = ToSet(users) \cup ToSet(customs)
      OBVIOUS
    <3>2. users \in Seq(S) /\ customs \in Seq(S)
      BY <2>7, <3>1 DEF Valid, IsList
    <3>3. IsMerge(users, customs, c)
      BY <2>4, <3>2, MergedTargets
    <3>4. \A i, j \in DOMAIN c : i # j => Host(c[i]) # Host(c[j])
      BY <2>9, <3>3 DEF IsMerge, Distinct, Host
    <3>5. \A k \in DOMAIN c : Host(c[k]) = c[k].hostname
      BY <2>4, <2>7, MergedHosts DEF Host, Get
    <3>6. \A i, j \in DOMAIN targets : i # j => Host(targets[i]) # Host(targets[j])
      BY <2>7, <2>8, <3>4, <3>5
    <3>. QED
      BY <3>6 DEF Distinct, Host
  <2>13. ASSUME NEW host
         PROVE  host \in {targets[i].hostname : i \in DOMAIN targets}
                  <=> host \in Domains /\ Layers(host) # << >>
    <3>1. host \in {targets[i].hostname : i \in DOMAIN targets} <=> \E k \in DOMAIN c : c[k].hostname = host
      BY <2>7, <2>8
    <3>2. /\ \A k \in DOMAIN c : c[k].hostname \in Domains /\ LayersIn(users, customs, c[k].hostname) # << >>
          /\ \A h \in Domains : LayersIn(users, customs, h) # << >> => \E k \in DOMAIN c : c[k].hostname = h
      BY <2>4, <2>7, LayeredHosts
    <3>. QED
      BY <2>10, <3>1, <3>2
  <2>14. ASSUME NEW i \in DOMAIN targets, NEW host, host = c[i].hostname
         PROVE  /\ targets[i].hostname = host
                /\ targets[i].port = IF Says(host, "port", 0) \in {0, None} THEN 443 ELSE Says(host, "port", 0)
                /\ Get(targets[i], "client_certificate", None) = Says(host, "client_certificate", None)
                /\ targets[i].http_request_paths = Says(host, "http_request_paths", {}) \cup {path}
    <3>1. /\ Says(host, "port", 0) = Get(c[i], "port", 0)
          /\ Says(host, "client_certificate", None) = Get(c[i], "client_certificate", None)
          /\ Says(host, "http_request_paths", {}) = Get(c[i], "http_request_paths", {})
      BY <2>7, <2>8, <2>11, <2>14
    <3>2. targets[i].hostname = host
      BY <2>7, <2>8, <2>14
    <3>3. targets[i].port = IF Get(c[i], "port", None) \in {None, 0} THEN 443 ELSE c[i].port
      BY <2>7, <2>8
    <3>4. targets[i].port = IF Says(host, "port", 0) \in {0, None} THEN 443 ELSE Says(host, "port", 0)
      BY <3>1, <3>3 DEF Get
    <3>5. Get(targets[i], "client_certificate", None) = Says(host, "client_certificate", None)
      BY <2>7, <2>8, <3>1
    <3>6. targets[i].http_request_paths = Says(host, "http_request_paths", {}) \cup {path}
      BY <2>6, <2>7, <2>8, <3>1
    <3>. QED
      BY <3>2, <3>4, <3>5, <3>6
  <2>15. {targets[i].hostname : i \in DOMAIN targets} = {h \in Domains : Layers(h) # << >>}
    BY <2>13
  <2>. QED
    BY <2>12, <2>14, <2>15
<1>2. Inv => TargetsLayered
  BY <1>1
<1>. QED
  BY <1>2, InvAlways, PTL
-----------------------------------------------------------------------------
(* Merged evaluations.                                                      *)

LEMMA SeqIsList ==
  ASSUME NEW S, NEW list \in Seq(S)
  PROVE  IsList(list)
<1>1. PICK n \in Nat : n = Len(list)
  OBVIOUS
<1>2. PICK T : T = ToSet(list)
  OBVIOUS
<1>3. list \in [1..n -> T]
  BY <1>1, <1>2 DEF ToSet
<1>4. list \in Seq(T)
  BY <1>3, ListOf
<1>. QED
  BY <1>2, <1>4 DEF IsList

Annotations(item) == Get(item, "annotate_results", << >>)

\* Annotations without the key by which they are merged
Unkeyed(list) == IsList(list) /\ \A k \in DOMAIN list : "value" \notin DOMAIN list[k]

\* As NamesOnce wants them
Proper(list) ==
  /\ Unkeyed(list) /\ Distinct(list, "result_value")
  /\ \A k \in DOMAIN list : {"result_value", "result_level"} \subseteq DOMAIN list[k]

Entries(list) ==
  /\ IsList(list)
  /\ \A i \in DOMAIN list : "key" \in DOMAIN list[i] /\ Unkeyed(Annotations(list[i]))

LEMMA NamedOnce ==
  ASSUME NEW list, NamesOnce(list)
  PROVE  /\ Entries(list) /\ Distinct(list, "key")
         /\ \A i \in DOMAIN list : Proper(Annotations(list[i]))
BY DEF NamesOnce, Entries, Proper, Unkeyed, Annotations

\* The levels that a list of annotations assigns are found in another one
Reports(list, annotations) ==
  \A k \in DOMAIN annotations :
    list # << >> /\ LevelFor(list, annotations[k].result_value) = annotations[k].result_level

LEMMA LevelsFrom ==
  ASSUME NEW annotations, Proper(annotations), NEW S, NEW list \in Seq(S),
         \A k \in DOMAIN list : \E j \in DOMAIN annotations :
           /\ list[k].result_value = annotations[j].result_value
           /\ list[k].result_level = annotations[j].result_level,
         \A j \in DOMAIN annotations : \E k \in DOMAIN list :
           list[k].result_value = annotations[j].result_value
  PROVE  Reports(list, annotations)
<1>1. SUFFICES ASSUME NEW j \in DOMAIN annotations, NEW value, value = annotations[j].result_value
               PROVE  list # << >> /\ LevelFor(list, value) = annotations[j].result_level
  BY DEF Reports
<1>2. PICK fit : fit = {k \in DOMAIN list : list[k].result_value = value}
  OBVIOUS
<1>3. fit # {}
  BY <1>1, <1>2
<1>4. fit \in SUBSET (1..Len(list)) /\ Len(list) \in Nat
  BY <1>2
<1>5. PICK first \in fit : first = Nth(fit, 1)
  BY <1>3, <1>4, NthFirst
<1>6. first \in DOMAIN list /\ list[first].result_value = value
  BY <1>2
<1>7. PICK k \in DOMAIN annotations :
        /\ list[first].result_value = annotations[k].result_value
        /\ list[first].result_level = annotations[k].result_level
  BY <1>6
<1>8. k = j
  <2>1. \A i \in DOMAIN annotations : Get(annotations[i], "result_value", None) = annotations[i].result_value
    BY DEF Proper, Get
  <2>2. \A x, y \in DOMAIN annotations :
          x # y => Get(annotations[x], "result_value", None) # Get(annotations[y], "result_value", None)
    BY DEF Proper, Distinct
  <2>3. Get(annotations[k], "result_value", None) = Get(annotations[j], "result_value", None)
    BY ZenonT(60), <1>1, <1>6, <1>7, <2>1
  <2>. QED
    BY <2>2, <2>3
<1>9. LevelFor(list, value) = list[first].result_level
  BY <1>2, <1>3, <1>5 DEF LevelFor
<1>10. list # << >>
  BY <1>6
<1>. QED
  BY <1>7, <1>8, <1>9, <1>10

\* A list assigns its own levels
LEMMA OwnLevels ==
  ASSUME NEW annotations, Proper(annotations)
  PROVE  Reports(annotations, annotations)
<1>1. PICK S : S = ToSet(annotations)
  OBVIOUS
<1>2. annotations \in Seq(S)
  BY <1>1 DEF Proper, Unkeyed, IsList
<1>. QED
  BY <1>2, LevelsFrom

\* Merging by a key that no entry has pairs every entry with every other one: each pair
\* has the result and the level of the second list's
LEMMA MergedAnnotations ==
  ASSUME NEW list1, Unkeyed(list1), NEW list2, Proper(list2), list2 # << >>,
         NEW c, c = MergeDicts(list1, list2, "value")
  PROVE  Unkeyed(c) /\ Reports(c, list2)
<1>1. PICK S : S = ToSet(list1) \cup ToSet(list2)
  OBVIOUS
<1>2. list1 \in Seq(S) /\ list2 \in Seq(S)
  BY <1>1 DEF Unkeyed, Proper, IsList
<1>3. PICK m : m = Matches(list1, list2, "value")
  OBVIOUS
<1>4. PICK a : a = [k \in DOMAIN m |-> Updated(list1[m[k][1]], list2[m[k][2]])]
  OBVIOUS
<1>5. c = Joined(a, Unmatched(list1, list2, "value"))
  BY <1>3, <1>4 DEF MergeDicts, Joined
<1>6. /\ a \in Seq(Merges(S)) /\ DOMAIN a = DOMAIN m
      /\ \A k \in DOMAIN m : KeyOf(a[k], "value") = KeyOf(list2[m[k][2]], "value")
      /\ \A k \in DOMAIN a : \E i \in DOMAIN list1 : \E j \in DOMAIN list2 :
           KeyOf(list1[i], "value") = KeyOf(list2[j], "value") /\ a[k] = Updated(list1[i], list2[j])
      /\ \A i \in DOMAIN list1 : \A j \in DOMAIN list2 :
           KeyOf(list1[i], "value") = KeyOf(list2[j], "value") =>
             \E k \in DOMAIN a : a[k] = Updated(list1[i], list2[j])
  BY SMTT(30), <1>2, <1>3, <1>4, MatchedPart
<1>7. c \in Seq(S \cup Merges(S)) /\ MadeOf(list1, list2, "value", a, c)
  BY <1>2, <1>3, <1>5, <1>6, MergedByKey
<1>8. /\ \A i \in DOMAIN list1 : KeyOf(list1[i], "value") = None
      /\ \A j \in DOMAIN list2 : KeyOf(list2[j], "value") = None
  BY DEF Unkeyed, Proper, KeyOf, Get
<1>9. ASSUME NEW i \in DOMAIN list1, NEW j \in DOMAIN list2, NEW item, item = Updated(list1[i], list2[j])
      PROVE  /\ item.result_value = list2[j].result_value /\ item.result_level = list2[j].result_level
             /\ "value" \notin DOMAIN item
  <2>1. "value" \notin DOMAIN list1[i] /\ "value" \notin DOMAIN list2[j]
    BY DEF Unkeyed, Proper
  <2>2. "result_value" \in DOMAIN list2[j] /\ "result_level" \in DOMAIN list2[j]
    BY DEF Proper
  <2>. QED
    BY <1>9, <2>1, <2>2 DEF Updated
<1>10. ASSUME NEW k \in DOMAIN c
       PROVE  /\ \E j \in DOMAIN list2 : /\ c[k].result_value = list2[j].result_value
                                         /\ c[k].result_level = list2[j].result_level
              /\ "value" \notin DOMAIN c[k]
  <2>1. ASSUME NEW l \in DOMAIN a, c[k] = a[l]
        PROVE  \E i \in DOMAIN list1 : \E j \in DOMAIN list2 : c[k] = Updated(list1[i], list2[j])
    BY <1>6, <2>1
  <2>2. \A i \in DOMAIN list1 : Has(list2, "value", KeyOf(list1[i], "value"))
    <3>1. 1 \in DOMAIN list2
      BY <1>2
    <3>. QED
      BY <1>8, <3>1 DEF Has, KeyOf
  <2>3. \/ \E i \in DOMAIN list1 : \E j \in DOMAIN list2 : c[k] = Updated(list1[i], list2[j])
        \/ \E j \in DOMAIN list2 : c[k] = list2[j]
    BY <1>7, <2>1, <2>2 DEF MadeOf
  <2>4. CASE \E i \in DOMAIN list1 : \E j \in DOMAIN list2 : c[k] = Updated(list1[i], list2[j])
    BY <1>9, <2>4
  <2>5. CASE \E j \in DOMAIN list2 : c[k] = list2[j]
    BY <2>5 DEF Proper, Unkeyed
  <2>. QED
    BY <2>3, <2>4, <2>5
<1>11. ASSUME NEW j \in DOMAIN list2
       PROVE  \E k \in DOMAIN c : c[k].result_value = list2[j].result_value
  <2>1. CASE list1 = << >>
    <3>1. ~Has(list1, "value", KeyOf(list2[j], "value"))
      BY <2>1 DEF Has
    <3>. QED
      BY <1>7, <3>1 DEF MadeOf
  <2>2. CASE list1 # << >>
    <3>1. 1 \in DOMAIN list1
      BY <1>2, <2>2
    <3>2. PICK l \in DOMAIN a : a[l] = Updated(list1[1], list2[j])
      BY <1>6, <1>8, <3>1
    <3>3. PICK k \in DOMAIN c : c[k] = a[l]
      BY <1>7 DEF MadeOf
    <3>. QED
      BY <1>9, <3>1, <3>2, <3>3
  <2>. QED
    BY <2>1, <2>2
<1>12. IsList(c)
  BY <1>7, SeqIsList
<1>13. Unkeyed(c)
  BY <1>10, <1>12 DEF Unkeyed
<1>14. Reports(c, list2)
  BY <1>7, <1>10, <1>11, LevelsFrom
<1>. QED
  BY <1>13, <1>14

LEMMA MergedEntry ==
  ASSUME NEW item1, NEW item2, NEW item, item = EvaluationMerge(item1, item2)
  PROVE  /\ KeyOf(item, "key") = KeyOf(item1, "key")
         /\ "key" \in DOMAIN item1 => "key" \in DOMAIN item /\ item.key = item1.key
         /\ Annotations(item) = IF Annotations(item2) = << >> THEN Annotations(item1)
                                ELSE MergeDicts(Annotations(item1), Annotations(item2), "value")
<1>1. PICK merged : merged = IF Annotations(item2) = << >> THEN Annotations(item1)
                             ELSE MergeDicts(Annotations(item1), Annotations(item2), "value")
  OBVIOUS
<1>2. PICK r : r = [label_as |-> Get(item2, "label_as", Get(item1, "label_as", None)),
                    annotate_results |-> merged]
  OBVIOUS
<1>3. item = Updated(item1, r)
  BY <1>1, <1>2 DEF EvaluationMerge, Annotations
<1>4. DOMAIN r = {"label_as", "annotate_results"} /\ r.annotate_results = merged
  BY <1>2
<1>5. /\ DOMAIN item = DOMAIN item1 \cup DOMAIN r
      /\ \A f \in DOMAIN item : item[f] = IF f \in DOMAIN r THEN r[f] ELSE item1[f]
  BY <1>3 DEF Updated
<1>6. Annotations(item) = merged
  BY <1>4, <1>5 DEF Annotations, Get
<1>7. "key" \notin DOMAIN r
  BY <1>4
<1>8. KeyOf(item, "key") = KeyOf(item1, "key")
  BY <1>5, <1>7 DEF KeyOf, Get
<1>9. "key" \in DOMAIN item1 => "key" \in DOMAIN item /\ item.key = item1.key
  BY <1>5, <1>7
<1>. QED
  BY <1>1, <1>6, <1>8, <1>9

\* The pairs of evaluations with the same key
EvaluationPairs(list1, list2, m) == [k \in DOMAIN m |-> EvaluationMerge(list1[m[k][1]], list2[m[k][2]])]

LEMMA MatchedEvaluations ==
  ASSUME NEW S, NEW list1 \in Seq(S), NEW list2 \in Seq(S),
         NEW m, m = Matches(list1, list2, "key"),
         NEW a, a = EvaluationPairs(list1, list2, m)
  PROVE  /\ IsList(a) /\ DOMAIN a = DOMAIN m
         /\ \A k \in DOMAIN m : KeyOf(a[k], "key") = KeyOf(list2[m[k][2]], "key")
         /\ \A k \in DOMAIN a : \E i \in DOMAIN list1 : \E j \in DOMAIN list2 :
              KeyOf(list1[i], "key") = KeyOf(list2[j], "key") /\ a[k] = EvaluationMerge(list1[i], list2[j])
<1>1. /\ \E n \in Nat : DOMAIN m = 1..n
      /\ \A k \in DOMAIN m : KeyOf(list1[m[k][1]], "key") = KeyOf(list2[m[k][2]], "key")
  BY MatchPairs DEF KeyOf
<1>2. \A k \in DOMAIN m : \E i \in DOMAIN list1 : \E j \in DOMAIN list2 : m[k] = <<i, j>>
  BY MatchPairs
<1>3. DOMAIN a = DOMAIN m /\ a = [k \in DOMAIN m |-> a[k]]
  BY DEF EvaluationPairs
<1>4. ASSUME NEW k \in DOMAIN m, NEW i \in DOMAIN list1, NEW j \in DOMAIN list2, m[k] = <<i, j>>
      PROVE  /\ a[k] = EvaluationMerge(list1[i], list2[j]) /\ KeyOf(list1[i], "key") = KeyOf(list2[j], "key")
             /\ KeyOf(a[k], "key") = KeyOf(list2[j], "key")
  <2>1. a[k] = EvaluationMerge(list1[i], list2[j])
    <3>1. m[k][1] = i /\ m[k][2] = j
      BY <1>4
    <3>. QED
      BY <3>1 DEF EvaluationPairs
  <2>2. KeyOf(list1[i], "key") = KeyOf(list2[j], "key")
    BY <1>1, <1>4
  <2>3. KeyOf(a[k], "key") = KeyOf(list1[i], "key")
    BY <2>1, MergedEntry
  <2>. QED
    BY <2>1, <2>2, <2>3
<1>5. IsList(a)
  <2>1. PICK n \in Nat : DOMAIN m = 1..n
    BY <1>1
  <2>2. PICK T : T = {a[k] : k \in 1..n}
    OBVIOUS
  <2>3. a \in [1..n -> T]
    BY ONLY <1>3, <2>1, <2>2
  <2>4. a \in Seq(T)
    BY <2>3, ListOf
  <2>. QED
    BY <2>4, SeqIsList
<1>6. ASSUME NEW k \in DOMAIN m PROVE KeyOf(a[k], "key") = KeyOf(list2[m[k][2]], "key")
  <2>1. PICK i \in DOMAIN list1, j \in DOMAIN list2 : m[k] = <<i, j>>
    BY <1>2
  <2>. QED
    BY <1>4, <2>1
<1>7. ASSUME NEW k \in DOMAIN a
      PROVE  \E i \in DOMAIN list1 : \E j \in DOMAIN list2 :
               KeyOf(list1[i], "key") = KeyOf(list2[j], "key") /\ a[k] = EvaluationMerge(list1[i], list2[j])
  BY <1>2, <1>3, <1>4
<1>. QED
  BY <1>3, <1>5, <1>6, <1>7

\* An evaluation has annotations in a list
Speaks(list, key) == \E i \in DOMAIN list : list[i].key = key /\ Annotations(list[i]) # << >>

\* What an entry of merged evaluations reports: the second list's annotations of it, or else
\* the first list's, or else nothing
FromLayers(list1, list2, item) ==
  \/ \E j \in DOMAIN list2 : /\ list2[j].key = item.key /\ Annotations(list2[j]) # << >>
                             /\ Reports(Annotations(item), Annotations(list2[j]))
  \/ /\ ~Speaks(list2, item.key)
     /\ \E i \in DOMAIN list1 : list1[i].key = item.key /\ Annotations(item) = Annotations(list1[i])
  \/ ~Speaks(list2, item.key) /\ \A i \in DOMAIN list1 : list1[i].key # item.key

EvaluationsMerged(list1, list2, c) ==
  /\ Entries(c)
  /\ Distinct(list1, "key") => Distinct(c, "key")
  /\ \A i \in DOMAIN list1 : \E k \in DOMAIN c : c[k].key = list1[i].key
  /\ \A j \in DOMAIN list2 : \E k \in DOMAIN c : c[k].key = list2[j].key
  /\ \A k \in DOMAIN c : FromLayers(list1, list2, c[k])

LEMMA EntryKey ==
  ASSUME NEW list, Entries(list)
  PROVE  \A i \in DOMAIN list : KeyOf(list[i], "key") = list[i].key
BY DEF Entries, KeyOf, Get

\* A pair reports the second entry's annotations, if it has any
LEMMA PairReports ==
  ASSUME NEW list1, Entries(list1), NEW list2, NamesOnce(list2),
         NEW i \in DOMAIN list1, NEW j \in DOMAIN list2, list1[i].key = list2[j].key,
         NEW item, item = EvaluationMerge(list1[i], list2[j])
  PROVE  /\ "key" \in DOMAIN item /\ item.key = list2[j].key /\ Unkeyed(Annotations(item))
         /\ FromLayers(list1, list2, item)
<1>1. PICK of1, of2 : of1 = Annotations(list1[i]) /\ of2 = Annotations(list2[j])
  OBVIOUS
<1>2. Unkeyed(of1) /\ Proper(of2)
  BY <1>1, NamedOnce DEF Entries
<1>3. /\ "key" \in DOMAIN item /\ item.key = list2[j].key /\ item.key = list1[i].key
      /\ Annotations(item) = IF of2 = << >> THEN of1 ELSE MergeDicts(of1, of2, "value")
  BY <1>1, MergedEntry DEF Entries
<1>4. CASE of2 = << >>
  <2>1. Annotations(item) = of1
    BY <1>3, <1>4
  <2>2. ~Speaks(list2, item.key)
    <3>1. \A k \in DOMAIN list2 : k # j => list2[k].key # list2[j].key
      <4>1. Distinct(list2, "key")
        BY NamedOnce
      <4>2. \A k \in DOMAIN list2 : Get(list2[k], "key", None) = list2[k].key
        BY NamedOnce, EntryKey DEF KeyOf
      <4>3. \A k \in DOMAIN list2 : k # j => Get(list2[k], "key", None) # Get(list2[j], "key", None)
        BY <4>1 DEF Distinct
      <4>. QED
        BY <4>2, <4>3
    <3>. QED
      BY <1>1, <1>3, <1>4, <3>1 DEF Speaks
  <2>. QED
    BY <1>1, <1>2, <1>3, <2>1, <2>2 DEF FromLayers
<1>5. CASE of2 # << >>
  <2>1. Unkeyed(Annotations(item)) /\ Reports(Annotations(item), of2)
    BY <1>2, <1>3, <1>5, MergedAnnotations
  <2>. QED
    BY <1>1, <1>3, <1>5, <2>1 DEF FromLayers
<1>. QED
  BY <1>4, <1>5

\* An entry of one list that the other one lacks
LEMMA LoneReports ==
  ASSUME NEW list1, Entries(list1), NEW list2, NamesOnce(list2), NEW item
  PROVE  /\ \A i \in DOMAIN list1 : item = list1[i] /\ ~Has(list2, "key", KeyOf(list1[i], "key")) =>
              FromLayers(list1, list2, item)
         /\ \A j \in DOMAIN list2 : item = list2[j] /\ ~Has(list1, "key", KeyOf(list2[j], "key")) =>
              FromLayers(list1, list2, item)
<1>1. /\ \A i \in DOMAIN list1 : KeyOf(list1[i], "key") = list1[i].key
      /\ \A j \in DOMAIN list2 : KeyOf(list2[j], "key") = list2[j].key
  BY NamedOnce, EntryKey
<1>2. ASSUME NEW i \in DOMAIN list1, item = list1[i], ~Has(list2, "key", KeyOf(list1[i], "key"))
      PROVE  FromLayers(list1, list2, item)
  <2>1. \A j \in DOMAIN list2 : list2[j].key # item.key
    BY <1>1, <1>2 DEF Has, KeyOf
  <2>. QED
    BY <1>2, <2>1 DEF FromLayers, Speaks
<1>3. ASSUME NEW j \in DOMAIN list2, item = list2[j], ~Has(list1, "key", KeyOf(list2[j], "key"))
      PROVE  FromLayers(list1, list2, item)
  <2>1. \A i \in DOMAIN list1 : list1[i].key # item.key
    BY <1>1, <1>3 DEF Has, KeyOf
  <2>2. CASE Annotations(list2[j]) # << >>
    <3>1. Reports(Annotations(item), Annotations(list2[j]))
      BY <1>3, NamedOnce, OwnLevels
    <3>. QED
      BY <1>3, <2>2, <3>1 DEF FromLayers
  <2>3. CASE Annotations(list2[j]) = << >>
    <3>1. \A k \in DOMAIN list2 : k # j => list2[k].key # list2[j].key
      <4>1. \A k \in DOMAIN list2 : k # j => Get(list2[k], "key", None) # Get(list2[j], "key", None)
        BY NamedOnce DEF Distinct
      <4>. QED
        BY <1>1, <4>1 DEF KeyOf
    <3>2. ~Speaks(list2, item.key)
      BY <1>3, <2>3, <3>1 DEF Speaks
    <3>. QED
      BY <2>1, <3>2 DEF FromLayers
  <2>. QED
    BY <2>2, <2>3
<1>. QED
  BY <1>2, <1>3

LEMMA MergedEvaluations ==
  ASSUME NEW list1, Entries(list1), NEW list2, NamesOnce(list2),
         NEW c, c = MergeEvaluations(list1, list2)
  PROVE  EvaluationsMerged(list1, list2, c)
<1>1. CASE list1 = << >>
  <2>1. c = list2 /\ DOMAIN list1 = {} /\ \A value : ~Has(list1, "key", value)
    BY <1>1 DEF MergeEvaluations, Has
  <2>2. \A k \in DOMAIN c : FromLayers(list1, list2, c[k])
    BY <2>1, LoneReports
  <2>. QED
    BY <2>1, <2>2, NamedOnce DEF EvaluationsMerged
<1>2. CASE list1 # << >> /\ list2 = << >>
  <2>1. c = list1 /\ DOMAIN list2 = {} /\ \A value : ~Has(list2, "key", value)
    BY <1>2 DEF MergeEvaluations, Has
  <2>2. \A k \in DOMAIN c : FromLayers(list1, list2, c[k])
    BY <2>1, LoneReports
  <2>. QED
    BY <2>1, <2>2 DEF EvaluationsMerged
<1>3. CASE list1 # << >> /\ list2 # << >>
  <2>1. PICK S : S = ToSet(list1) \cup ToSet(list2)
    OBVIOUS
  <2>2. Entries(list2) /\ Distinct(list2, "key")
    BY NamedOnce
  <2>3. list1 \in Seq(S) /\ list2 \in Seq(S)
    BY <2>1, <2>2 DEF Entries, IsList
  <2>4. PICK m : m = Matches(list1, list2, "key")
    OBVIOUS
  <2>5. PICK a : a = EvaluationPairs(list1, list2, m)
    OBVIOUS
  <2>6. c = Joined(a, Unmatched(list1, list2, "key"))
    BY <1>3, <2>4, <2>5 DEF MergeEvaluations, EvaluationPairs, Joined
  <2>7. /\ IsList(a) /\ DOMAIN a = DOMAIN m
        /\ \A k \in DOMAIN m : KeyOf(a[k], "key") = KeyOf(list2[m[k][2]], "key")
        /\ \A k \in DOMAIN a : \E i \in DOMAIN list1 : \E j \in DOMAIN list2 :
             KeyOf(list1[i], "key") = KeyOf(list2[j], "key") /\ a[k] = EvaluationMerge(list1[i], list2[j])
    BY <2>3, <2>4, <2>5, MatchedEvaluations
  <2>8. PICK T : a \in Seq(T)
    BY <2>7 DEF IsList
  <2>9. c \in Seq(S \cup T) /\ MadeOf(list1, list2, "key", a, c)
    BY <2>3, <2>4, <2>6, <2>7, <2>8, MergedByKey
  <2>10. /\ \A i \in DOMAIN list1 : KeyOf(list1[i], "key") = list1[i].key
         /\ \A j \in DOMAIN list2 : KeyOf(list2[j], "key") = list2[j].key
    BY <2>2, EntryKey
  <2>11. ASSUME NEW k \in DOMAIN c
         PROVE  "key" \in DOMAIN c[k] /\ Unkeyed(Annotations(c[k])) /\ FromLayers(list1, list2, c[k])
    <3>1. ASSUME NEW l \in DOMAIN a, c[k] = a[l]
          PROVE  "key" \in DOMAIN c[k] /\ Unkeyed(Annotations(c[k])) /\ FromLayers(list1, list2, c[k])
      <4>1. PICK i \in DOMAIN list1, j \in DOMAIN list2 :
              list1[i].key = list2[j].key /\ a[l] = EvaluationMerge(list1[i], list2[j])
        BY <2>7, <2>10
      <4>. QED
        BY <3>1, <4>1, PairReports
    <3>2. ASSUME NEW i \in DOMAIN list1, c[k] = list1[i], ~Has(list2, "key", KeyOf(list1[i], "key"))
          PROVE  "key" \in DOMAIN c[k] /\ Unkeyed(Annotations(c[k])) /\ FromLayers(list1, list2, c[k])
      BY <3>2, LoneReports DEF Entries
    <3>3. ASSUME NEW j \in DOMAIN list2, c[k] = list2[j], ~Has(list1, "key", KeyOf(list2[j], "key"))
          PROVE  "key" \in DOMAIN c[k] /\ Unkeyed(Annotations(c[k])) /\ FromLayers(list1, list2, c[k])
      BY <2>2, <3>3, LoneReports DEF Entries
    <3>. QED
      BY <2>9, <3>1, <3>2, <3>3 DEF MadeOf
  <2>12. IsList(c)
    BY <2>9, SeqIsList
  <2>13. Entries(c)
    BY <2>11, <2>12 DEF Entries
  <2>14. \A k \in DOMAIN c : KeyOf(c[k], "key") = c[k].key
    BY <2>13, EntryKey
  <2>15. /\ \A i \in DOMAIN list1 : \E k \in DOMAIN c : c[k].key = list1[i].key
         /\ \A j \in DOMAIN list2 : \E k \in DOMAIN c : c[k].key = list2[j].key
    <3>1. /\ \A i \in DOMAIN list1 : \E k \in DOMAIN c : KeyOf(c[k], "key") = KeyOf(list1[i], "key")
          /\ \A j \in DOMAIN list2 : \E k \in DOMAIN c : KeyOf(c[k], "key") = KeyOf(list2[j], "key")
      BY <2>9 DEF MadeOf
    <3>. QED
      BY <2>10, <2>14, <3>1
  <2>16. Distinct(list1, "key") => Distinct(c, "key")
    BY <2>2, <2>9 DEF MadeOf
  <2>. QED
    BY <2>11, <2>13, <2>15, <2>16 DEF EvaluationsMerged
<1>. QED
  BY <1>1, <1>2, <1>3

\* The layers that speak of an evaluation, the custom file's first
Speaking(list, key) ==
  Picked(list, {k \in DOMAIN list : list[k].key = key /\ Get(list[k], "annotate_results", << >>) # << >>})

LEMMA SpeakingEntry ==
  ASSUME NEW list, NamesOnce(list), NEW key, NEW p, p = Speaking(list, key)
  PROVE  /\ IsList(p)
         /\ ~Speaks(list, key) => p = << >>
         /\ \A j \in DOMAIN list : list[j].key = key /\ Annotations(list[j]) # << >> =>
              p # << >> /\ p[1] = list[j]
<1>1. PICK I : I = {k \in DOMAIN list : list[k].key = key /\ Annotations(list[k]) # << >>}
  OBVIOUS
<1>2. p = Picked(list, I)
  BY <1>1 DEF Speaking, Annotations
<1>3. PICK S : list \in Seq(S)
  BY DEF NamesOnce, IsList
<1>4. I \in SUBSET DOMAIN list
  BY <1>1
<1>5. /\ p \in Seq(S)
      /\ \A k \in DOMAIN p : Nth(I, k) \in I /\ p[k] = list[Nth(I, k)]
      /\ p = << >> <=> I = {}
  BY <1>2, <1>3, <1>4, PickedList
<1>6. ~Speaks(list, key) => I = {}
  BY <1>1 DEF Speaks
<1>7. ASSUME NEW j \in DOMAIN list, list[j].key = key, Annotations(list[j]) # << >>
      PROVE  p # << >> /\ p[1] = list[j]
  <2>1. p # << >>
    BY <1>1, <1>5, <1>7
  <2>2. 1 \in DOMAIN p
    BY <1>5, <2>1
  <2>3. PICK i \in I : p[1] = list[i]
    BY <1>5, <2>2
  <2>4. i \in DOMAIN list /\ list[i].key = list[j].key
    BY <1>1, <1>7
  <2>5. i = j
    <3>1. Get(list[i], "key", None) = list[i].key /\ Get(list[j], "key", None) = list[j].key
      BY <2>4, NamedOnce, EntryKey DEF KeyOf
    <3>2. i # j => Get(list[i], "key", None) # Get(list[j], "key", None)
      BY <2>4, NamedOnce DEF Distinct
    <3>. QED
      BY <2>4, <3>1, <3>2
  <2>. QED
    BY <2>1, <2>3, <2>5
<1>8. IsList(p)
  BY <1>5, SeqIsList
<1>. QED
  BY <1>5, <1>6, <1>7, <1>8

\* What a scan's configuration says of an evaluation
LEMMA FinalEvaluations ==
  ASSUME NEW args, NEW user, NEW custom, NEW config, config = Final(args, user, custom)
  PROVE  config.evaluations =
           MergeEvaluations(MergeEvaluations(Builtin.evaluations, Get(user, "evaluations", << >>)),
                            Get(custom, "evaluations", << >>))
<1>1. PICK base : base = Combined(user, custom)
  OBVIOUS
<1>2. DOMAIN base = {"defaults", "outputs", "evaluations", "targets"}
  BY <1>1, CombinedTargets
<1>3. PICK over : over = Overridden(args, base)
  OBVIOUS
<1>4. DOMAIN over = DOMAIN base /\ over.evaluations = base.evaluations
  BY <1>2, <1>3 DEF Overridden
<1>5. config = [over EXCEPT !.defaults = Defaults(over.defaults)]
  BY <1>1, <1>3 DEF Final
<1>6. config.evaluations = base.evaluations
  BY <1>2, <1>4, <1>5
<1>7. base.evaluations =
        MergeEvaluations(MergeEvaluations(Builtin.evaluations, Get(user, "evaluations", << >>)),
                         Get(custom, "evaluations", << >>))
  BY <1>1 DEF Combined
<1>. QED
  BY <1>6, <1>7

\* The head of the layers is what the entry reports
LEMMA HeadReported ==
  ASSUME NEW users, NamesOnce(users), NEW customs, NamesOnce(customs),
         NEW once, once = MergeEvaluations(Builtin.evaluations, users),
         NEW twice, twice = MergeEvaluations(once, customs),
         NEW i \in DOMAIN twice, NEW key, key = twice[i].key,
         NEW layers, layers = Joined(Speaking(customs, key), Speaking(users, key)), layers # << >>
  PROVE  /\ Reports(Annotations(twice[i]), Annotations(layers[1]))
         /\ Annotations(layers[1]) # << >> /\ Head(layers) = layers[1]
<1>1. NamesOnce(Builtin.evaluations)
  BY EvaluationAssumption DEF EvaluationAssumption
<1>2. EvaluationsMerged(Builtin.evaluations, users, once)
  BY <1>1, NamedOnce, MergedEvaluations
<1>3. EvaluationsMerged(once, customs, twice)
  <2>1. Entries(once)
    BY <1>2 DEF EvaluationsMerged
  <2>. QED
    BY <2>1, MergedEvaluations
<1>4. PICK own : own = Speaking(customs, key)
  OBVIOUS
<1>5. PICK his : his = Speaking(users, key)
  OBVIOUS
<1>6. /\ IsList(own)
      /\ ~Speaks(customs, key) => own = << >>
      /\ \A j \in DOMAIN customs : customs[j].key = key /\ Annotations(customs[j]) # << >> =>
           own # << >> /\ own[1] = customs[j]
  BY <1>4, SpeakingEntry
<1>7. /\ IsList(his)
      /\ ~Speaks(users, key) => his = << >>
      /\ \A j \in DOMAIN users : users[j].key = key /\ Annotations(users[j]) # << >> =>
           his # << >> /\ his[1] = users[j]
  BY <1>5, SpeakingEntry
<1>8. PICK S, T : own \in Seq(S) /\ his \in Seq(T)
  BY <1>6, <1>7 DEF IsList
<1>9. layers = Joined(own, his)
  BY <1>4, <1>5
<1>10. own # << >> => layers[1] = own[1]
  BY <1>8, <1>9 DEF Joined
<1>11. own = << >> => layers = his
  BY <1>8, <1>9 DEF Joined
<1>12. ASSUME NEW j \in DOMAIN customs, customs[j].key = key, Annotations(customs[j]) # << >>,
              Reports(Annotations(twice[i]), Annotations(customs[j]))
       PROVE  Reports(Annotations(twice[i]), Annotations(layers[1])) /\ Annotations(layers[1]) # << >>
  BY <1>6, <1>10, <1>12
<1>13. ASSUME ~Speaks(customs, key), NEW k \in DOMAIN once, once[k].key = key,
              Annotations(twice[i]) = Annotations(once[k])
       PROVE  Reports(Annotations(twice[i]), Annotations(layers[1])) /\ Annotations(layers[1]) # << >>
  <2>1. layers = his /\ Speaks(users, key)
    BY <1>6, <1>7, <1>11, <1>13
  <2>2. FromLayers(Builtin.evaluations, users, once[k])
    BY <1>2 DEF EvaluationsMerged
  <2>3. PICK j \in DOMAIN users : /\ users[j].key = key /\ Annotations(users[j]) # << >>
                                  /\ Reports(Annotations(once[k]), Annotations(users[j]))
    BY <1>13, <2>1, <2>2 DEF FromLayers
  <2>. QED
    BY <1>7, <1>13, <2>1, <2>3
<1>14. ASSUME ~Speaks(customs, key), \A k \in DOMAIN once : once[k].key # key
       PROVE  FALSE
  <2>1. \A j \in DOMAIN users : users[j].key # key
    BY <1>2, <1>14 DEF EvaluationsMerged
  <2>2. his = << >>
    BY <1>7, <2>1 DEF Speaks
  <2>. QED
    BY <1>6, <1>11, <1>14, <2>2
<1>15. FromLayers(once, customs, twice[i])
  BY <1>3 DEF EvaluationsMerged
<1>16. Head(layers) = layers[1]
  BY <1>8, <1>9 DEF Joined
<1>. QED
  BY <1>12, <1>13, <1>14, <1>15, <1>16 DEF FromLayers

\* A level that the uppermost layer assigns to a result of an evaluation is the one reported,
\* through the built-in annotations and those of other layers, and every built-in evaluation
\* keeps exactly one entry, as long as no file names an evaluation or a result of it twice:
\* _default_evaluation_merger merges annotations by a key that none of them has.
THEOREM OverridesWin == Spec => []OverrideWins
<1>1. ASSUME Inv PROVE OverrideWins
  <2>1. PICK users, customs : /\ users = Get(scan.user, "evaluations", << >>)
                              /\ customs = Get(scan.custom, "evaluations", << >>)
    OBVIOUS
  <2>2. PICK once : once = MergeEvaluations(Builtin.evaluations, users)
    OBVIOUS
  <2>3. PICK twice : twice = MergeEvaluations(once, customs)
    OBVIOUS
  <2>4. SUFFICES ASSUME Ready, NamesOnce(users), NamesOnce(customs)
                 PROVE  /\ \A k \in DOMAIN Builtin.evaluations :
                             Cardinality({i \in DOMAIN scan.config.evaluations :
                               scan.config.evaluations[i].key = Builtin.evaluations[k].key}) = 1
                        /\ \A i \in DOMAIN scan.config.evaluations :
                             LET e == scan.config.evaluations[i]
                                 layers == Joined(Speaking(customs, e.key), Speaking(users, e.key))
                             IN layers # << >> =>
                                  \A a \in ToSet(Head(layers).annotate_results) :
                                    LevelFor(e.annotate_results, a.result_value) = a.result_level
    BY <2>1 DEF OverrideWins, Joined, Speaking
  <2>5. scan.config = Final(scan.args, scan.user, scan.custom)
    BY <1>1, <2>4, LayeredScan
  <2>6. scan.config.evaluations = twice
    BY <2>1, <2>2, <2>3, <2>5, FinalEvaluations
  <2>7. NamesOnce(Builtin.evaluations)
    BY EvaluationAssumption DEF EvaluationAssumption
  <2>8. EvaluationsMerged(Builtin.evaluations, users, once)
    BY <2>2, <2>4, <2>7, NamedOnce, MergedEvaluations
  <2>9. EvaluationsMerged(once, customs, twice)
    <3>1. Entries(once)
      BY <2>8 DEF EvaluationsMerged
    <3>. QED
      BY <2>3, <2>4, <3>1, MergedEvaluations
  <2>10. Entries(twice) /\ Distinct(twice, "key")
    <3>1. Distinct(Builtin.evaluations, "key")
      BY <2>7, NamedOnce
    <3>. QED
      BY <2>8, <2>9, <3>1 DEF EvaluationsMerged
  <2>11. ASSUME NEW k \in DOMAIN Builtin.evaluations, NEW key, key = Builtin.evaluations[k].key
         PROVE  Cardinality({i \in DOMAIN twice : twice[i].key = key}) = 1
    <3>1. PICK j \in DOMAIN once : once[j].key = key
      BY <2>8, <2>11 DEF EvaluationsMerged
    <3>2. PICK i \in DOMAIN twice : twice[i].key = key
      BY <2>9, <3>1 DEF EvaluationsMerged
    <3>3. \A l \in DOMAIN twice : l # i => twice[l].key # key
      <4>1. \A l \in DOMAIN twice : l # i => Get(twice[l], "key", None) # Get(twice[i], "key", None)
        BY <2>10 DEF Distinct
      <4>2. \A l \in DOMAIN twice : Get(twice[l], "key", None) = twice[l].key
        BY <2>10, EntryKey DEF KeyOf
      <4>. QED
        BY <3>2, <4>1, <4>2
    <3>4. {l \in DOMAIN twice : twice[l].key = key} = {i}
      BY <3>2, <3>3
    <3>. QED
      BY <3>4, FS_Singleton
  <2>12. ASSUME NEW i \in DOMAIN twice, NEW key, key = twice[i].key,
                NEW layers, layers = Joined(Speaking(customs, key), Speaking(users, key)), layers # << >>,
                NEW a \in ToSet(Head(layers).annotate_results)
         PROVE  LevelFor(twice[i].annotate_results, a.result_value) = a.result_level
    <3>1. /\ Reports(Annotations(twice[i]), Annotations(layers[1]))
          /\ Annotations(layers[1]) # << >> /\ Head(layers) = layers[1]
      BY <2>2, <2>3, <2>4, <2>12, HeadReported
    <3>2. Annotations(layers[1]) = layers[1].annotate_results
      BY <3>1 DEF Annotations, Get
    <3>3. PICK j \in DOMAIN Annotations(layers[1]) : a = Annotations(layers[1])[j]
      BY <2>12, <3>1, <3>2 DEF ToSet
    <3>4. /\ LevelFor(Annotations(twice[i]), a.result_value) = a.result_level
          /\ Annotations(twice[i]) # << >>
      BY <3>1, <3>3 DEF Reports
    <3>5. Annotations(twice[i]) = twice[i].annotate_results
      BY <3>4 DEF Annotations, Get
    <3>. QED
      BY <3>4, <3>5
  <2>. QED
    BY <2>6, <2>11, <2>12
<1>2. Inv => OverrideWins
  BY <1>1
<1>. QED
  BY <1>2, InvAlways, PTL
=============================================================================
