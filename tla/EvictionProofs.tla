--------------------------- MODULE EvictionProofs ---------------------------
(***************************************************************************)
(* evict_old_items counts: it selects as many of the oldest unpinned rows  *)
(* as there are rows over the limit.  EvictionVictims says so with ranks,  *)
(* and the lemmas count them: ranks are different and leave no gap, which  *)
(* follows from the pigeonhole theorems on finite sets, so that exactly k  *)
(* rows have a rank below k if there are so many.                          *)
(***************************************************************************)
EXTENDS ClipStoreProofs, FiniteSetTheorems

Rank(U, i) == Cardinality({j \in U : j < i})

Oldest(U, k) == {i \in U : Rank(U, i) < k}

LEMMA RankType ==
  ASSUME NEW U \in SUBSET Nat, IsFiniteSet(U), NEW i \in U
  PROVE  Rank(U, i) \in 0 .. Cardinality(U) - 1
<1> DEFINE B == {j \in U : j < i}
<1>1. IsFiniteSet(B) /\ Cardinality(B) <= Cardinality(U)
      /\ (Cardinality(U) = Cardinality(B) => U = B)
  BY FS_Subset
<1>2. i \notin B
  OBVIOUS
<1>3. Cardinality(B) \in Nat /\ Cardinality(U) \in Nat
  BY <1>1, FS_CardinalityType
<1>4. Cardinality(B) # Cardinality(U)
  BY <1>1, <1>2
<1> HIDE DEF B
<1>5. Cardinality(B) \in 0 .. Cardinality(U) - 1
  BY <1>1, <1>3, <1>4
<1> QED BY <1>5 DEF Rank, B

LEMMA RankGrows ==
  ASSUME NEW U \in SUBSET Nat, IsFiniteSet(U), NEW i \in U, NEW j \in U, i < j
  PROVE  Rank(U, i) < Rank(U, j)
<1> DEFINE A == {x \in U : x < i}
           B == {x \in U : x < j}
<1>0. ASSUME NEW x \in U, x < i PROVE x < j
  <2>1. x \in Nat /\ i \in Nat /\ j \in Nat
    OBVIOUS
  <2> QED BY <1>0, <2>1
<1>1. A \in SUBSET B /\ i \in B /\ i \notin A
  <2>1. A \in SUBSET B
    BY <1>0
  <2>2. i \in B
    OBVIOUS
  <2>3. ~ (i < i)
    <3>1. i \in Nat
      OBVIOUS
    <3> QED BY <3>1
  <2> QED BY <2>1, <2>2, <2>3
<1>2. IsFiniteSet(B)
  BY FS_Subset
<1>3. Cardinality(A) <= Cardinality(B) /\ Cardinality(A) # Cardinality(B)
      /\ IsFiniteSet(A)
  BY <1>1, <1>2, FS_Subset
<1>4. Cardinality(A) \in Nat /\ Cardinality(B) \in Nat
  BY <1>2, <1>3, FS_CardinalityType
<1> HIDE DEF A, B
<1>5. Cardinality(A) < Cardinality(B)
  BY <1>3, <1>4
<1> QED BY <1>5 DEF Rank, A, B

LEMMA RankUnique ==
  ASSUME NEW U \in SUBSET Nat, IsFiniteSet(U), NEW i \in U, NEW j \in U,
         Rank(U, i) = Rank(U, j)
  PROVE  i = j
<1>1. Rank(U, i) \in Int /\ i \in Nat /\ j \in Nat
  BY RankType
<1>2. ~ (i < j) /\ ~ (j < i)
  BY <1>1, RankGrows
<1> QED BY <1>1, <1>2

(* Every number below the size of the set is the rank of some element.      *)
LEMMA RankOnto ==
  ASSUME NEW U \in SUBSET Nat, IsFiniteSet(U), NEW r \in 0 .. Cardinality(U) - 1
  PROVE  \E i \in U : Rank(U, i) = r
<1> DEFINE n == Cardinality(U)
           T == 0 .. n - 1
           f == [i \in U |-> Rank(U, i)]
<1>1. n \in Nat
  BY FS_CardinalityType
<1>2. f \in [U -> T]
  BY RankType
<1>3. f \in Injection(U, T)
  <2>1. \A i, j \in U : f[i] = f[j] => i = j
    BY RankUnique
  <2> HIDE DEF f
  <2> QED BY <1>2, <2>1 DEF Injection, IsInjective
<1>4. IsFiniteSet(T) /\ Cardinality(T) = n
  <2> HIDE DEF n
  <2> QED BY <1>1, FS_Interval
<1>5. f \in Surjection(U, T)
  <2> HIDE DEF f, T
  <2> QED BY <1>3, <1>4, FS_Injection
<1> QED BY <1>5 DEF Surjection

(* No more than k elements are among the k oldest.                          *)
LEMMA OldestAtMost ==
  ASSUME NEW U \in SUBSET Nat, IsFiniteSet(U), NEW k \in Nat
  PROVE  Cardinality(Oldest(U, k)) <= k
<1> DEFINE V == Oldest(U, k)
           T == 0 .. k - 1
           f == [i \in V |-> Rank(U, i)]
<1>1. f \in [V -> T]
  <2>1. ASSUME NEW i \in V PROVE Rank(U, i) \in T
    <3>1. i \in U /\ Rank(U, i) < k
      BY DEF Oldest
    <3>2. Rank(U, i) \in Nat
      BY <3>1, RankType
    <3> QED BY <3>1, <3>2
  <2> QED BY <2>1
<1>2. f \in Injection(V, T)
  <2>1. \A i, j \in V : f[i] = f[j] => i = j
    BY RankUnique DEF Oldest
  <2> HIDE DEF f
  <2> QED BY <1>1, <2>1 DEF Injection, IsInjective
<1>3. IsFiniteSet(T) /\ Cardinality(T) = k
  BY FS_Interval
<1> HIDE DEF f, T
<1>4. Cardinality(V) <= Cardinality(T)
  BY <1>2, <1>3, FS_Injection
<1> QED BY <1>3, <1>4

(* If somebody is left, no fewer either.                                    *)
LEMMA OldestAtLeast ==
  ASSUME NEW U \in SUBSET Nat, IsFiniteSet(U), NEW k \in Nat,
         Oldest(U, k) # U
  PROVE  k <= Cardinality(Oldest(U, k))
<1> DEFINE V == Oldest(U, k)
           T == 0 .. k - 1
           f == [i \in V |-> Rank(U, i)]
<1>1. k <= Cardinality(U) /\ Cardinality(U) \in Nat
  <2>1. PICK i \in U : i \notin V
    BY DEF Oldest
  <2>2. ~ (Rank(U, i) < k)
    BY <2>1 DEF Oldest
  <2>3. Rank(U, i) \in 0 .. Cardinality(U) - 1
    BY RankType
  <2>4. Cardinality(U) \in Nat
    BY FS_CardinalityType
  <2> QED BY <2>2, <2>3, <2>4
<1>2. \A i \in V : f[i] \in T
  <2> TAKE i \in V
  <2>1. i \in U /\ Rank(U, i) < k
    BY DEF Oldest
  <2>2. Rank(U, i) \in Nat
    BY <2>1, RankType
  <2> QED BY <2>1, <2>2
<1>3. \A r \in T : \E i \in V : f[i] = r
  <2> TAKE r \in T
  <2>1. r \in 0 .. Cardinality(U) - 1 /\ r < k
    BY <1>1
  <2>2. PICK i \in U : Rank(U, i) = r
    BY <2>1, RankOnto
  <2>3. i \in V
    BY <2>1, <2>2 DEF Oldest
  <2> QED BY <2>2, <2>3
<1>4. f \in Surjection(V, T)
  <2>1. f \in [V -> T]
    BY <1>2
  <2> HIDE DEF f
  <2> QED BY <1>3, <2>1 DEF Surjection
<1>5. IsFiniteSet(V)
  BY FS_Subset DEF Oldest
<1>6. Cardinality(T) = k
  BY FS_Interval
<1> HIDE DEF f, T
<1>7. Cardinality(T) <= Cardinality(V)
  BY <1>4, <1>5, FS_Surjection
<1> QED BY <1>6, <1>7

-----------------------------------------------------------------------------
LEMMA EvictionCounts ==
  ASSUME StoreTypeOK, NEW m \in Int, EvictOldItems(m)
  PROVE  /\ \A i \in Ids \ Ids' : ~ history[i].pinned
         /\ \A i \in Ids \ Ids', j \in Ids' : history[j].pinned \/ i < j
         /\ Cardinality(Ids') <= m \/ \A j \in Ids' : history[j].pinned
         /\ Ids' # Ids => Cardinality(Ids') >= m
<1> DEFINE k == Cardinality(Ids) - m
           V == Oldest(Unpinned, k)
<1>1. IsFiniteSet(Ids) /\ Ids \in SUBSET Nat /\ Cardinality(Ids) \in Nat
  <2>1. Ids \in SUBSET (1 .. seq) /\ seq \in Nat
    BY DEF StoreTypeOK
  <2>2. IsFiniteSet(1 .. seq)
    BY <2>1, FS_Interval
  <2>3. IsFiniteSet(Ids)
    BY <2>1, <2>2, FS_Subset
  <2> QED BY <2>1, <2>3, FS_CardinalityType
<1>2. Unpinned \in SUBSET Nat /\ Unpinned \in SUBSET Ids /\ IsFiniteSet(Unpinned)
  BY <1>1, FS_Subset DEF Unpinned
<1>3. V = EvictionVictims(m) /\ V \in SUBSET Unpinned
  BY DEF EvictionVictims, Oldest, Rank
<1>4. Ids' = Ids \ V /\ Ids \ Ids' = V
  BY <1>2, <1>3 DEF EvictOldItems, Discard, Ids
<1>5. k \in Int
  BY <1>1
<1>6. /\ IsFiniteSet(V) /\ Cardinality(V) \in Nat
      /\ Cardinality(Ids') = Cardinality(Ids) - Cardinality(V)
  <2>1. IsFiniteSet(V) /\ Cardinality(V) \in Nat
    BY <1>2, <1>3, FS_Subset, FS_CardinalityType
  <2>2. Ids \cap V = V
    BY <1>2, <1>3
  <2>3. Cardinality(Ids \ V) = Cardinality(Ids) - Cardinality(Ids \cap V)
    BY <1>1, FS_Difference
  <2> QED BY <1>4, <2>1, <2>2, <2>3
<1> HIDE DEF k
<1>7. \A i \in Ids \ Ids' : ~ history[i].pinned
  BY <1>3, <1>4 DEF Unpinned
<1>8. ASSUME NEW i \in Ids \ Ids', NEW j \in Ids', ~ history[j].pinned
      PROVE  i < j
  <2>1. i \in Unpinned /\ Rank(Unpinned, i) < k
    BY <1>4 DEF Oldest
  <2>2. j \in Unpinned /\ ~ (Rank(Unpinned, j) < k)
    BY <1>4, <1>8 DEF Oldest, Unpinned
  <2>3. Rank(Unpinned, i) \in Int /\ Rank(Unpinned, j) \in Int /\ i \in Nat /\ j \in Nat
    BY <1>2, <2>1, <2>2, RankType
  <2>4. ~ (j < i) /\ i # j
    BY <1>2, <1>5, <2>1, <2>2, <2>3, RankGrows
  <2> QED BY <2>3, <2>4
<1>9. ASSUME NEW j \in Ids', ~ history[j].pinned PROVE Cardinality(Ids') <= m
  <2>1. j \in Unpinned /\ j \notin V
    BY <1>4, <1>9 DEF Unpinned
  <2>2. CASE k \in Nat
    <3>1. k <= Cardinality(V)
      BY <1>2, <2>1, <2>2, OldestAtLeast
    <3> QED BY <1>1, <1>6, <3>1 DEF k
  <2>3. CASE k < 0
    BY <1>1, <1>6, <2>3 DEF k
  <2> QED BY <1>5, <2>2, <2>3
<1>10. ASSUME Ids' # Ids PROVE Cardinality(Ids') >= m
  <2>1. PICK i \in Unpinned : Rank(Unpinned, i) < k
    BY <1>4, <1>10 DEF Oldest
  <2>2. Rank(Unpinned, i) \in Nat
    BY <1>2, RankType
  <2>3. k \in Nat
    BY <1>5, <2>1, <2>2
  <2>4. Cardinality(V) <= k
    BY <1>2, <2>3, OldestAtMost
  <2> QED BY <1>1, <1>6, <2>4 DEF k
<1> QED BY <1>7, <1>8, <1>9, <1>10

(* "Pinned items are never evicted", the oldest go first, and as many as    *)
(* the limit asks for or pins allow: for any table and any limit, negative  *)
(* ones included.                                                           *)
THEOREM EvictionTakesOldest == StoreSpec => EvictionIsOldestFirst
<1> DEFINE Right ==
      \A m \in Limits : EvictOldItems(m) =>
         /\ \A i \in Ids \ Ids' : ~ history[i].pinned
         /\ \A i \in Ids \ Ids', j \in Ids' : history[j].pinned \/ i < j
         /\ Cardinality(Ids') <= m \/ \A j \in Ids' : history[j].pinned
         /\ Ids' # Ids => Cardinality(Ids') >= m
<1>1. StoreTypeOK => Right
  BY EvictionCounts, StoreAssumption
<1> QED BY <1>1, StoreTypesCorrect, PTL DEF EvictionIsOldestFirst
=============================================================================
