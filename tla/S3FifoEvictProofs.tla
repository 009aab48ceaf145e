------------------------- MODULE S3FifoEvictProofs -------------------------
(***************************************************************************)
(* What the operators of QueueOps return for every argument, the inductive *)
(* invariant of S3Fifo, and its eviction loop: every turn keeps the        *)
(* invariant and uses up some of the work there is.                        *)
(***************************************************************************)
EXTENDS S3Fifo, FiniteSetTheorems, SequenceTheorems, TLAPS

----------------------------------------------------------------------------
(* The operators of QueueOps. *)

(***************************************************************************)
(* The elements of a sequence over E are elements of E, and finitely many. *)
(***************************************************************************)
LEMMA ElemsType ==
    ASSUME NEW E, NEW q \in Seq(E)
    PROVE  Elems(q) \in SUBSET E /\ IsFiniteSet(Elems(q))
<1>1. Len(q) \in Nat /\ \A i \in 1..Len(q) : q[i] \in E
  BY LenProperties
<1>2. IsFiniteSet(1..Len(q))
  BY <1>1, FS_Interval
<1> DEFINE f == [i \in 1..Len(q) |-> q[i]]
<1>3. f \in Surjection(1..Len(q), Elems(q))
  BY DEF Elems, Surjection
<1>4. IsFiniteSet(Elems(q))
  BY <1>2, <1>3, FS_Surjection
<1> QED BY <1>1, <1>4 DEF Elems

(***************************************************************************)
(* Popping the front of a queue without duplicates removes exactly its     *)
(* head.                                                                   *)
(***************************************************************************)
LEMMA PopFront ==
    ASSUME NEW E, NEW q \in Seq(E), q # <<>>, NoDup(q)
    PROVE  /\ Head(q) \in Elems(q)
           /\ Tail(q) \in Seq(E)
           /\ NoDup(Tail(q))
           /\ Elems(Tail(q)) = Elems(q) \ {Head(q)}
<1>1. /\ Len(q) \in Nat \ {0}
      /\ Head(q) = q[1]
      /\ Tail(q) \in Seq(E)
      /\ Len(Tail(q)) = Len(q) - 1
      /\ \A i \in 1..Len(Tail(q)) : Tail(q)[i] = q[i + 1]
  BY HeadTailProperties, EmptySeq
<1>2. Head(q) \in Elems(q)
  BY <1>1 DEF Elems
<1>3. NoDup(Tail(q))
  BY <1>1 DEF NoDup
<1>4. ASSUME NEW x \in Elems(Tail(q))
      PROVE  x \in Elems(q) \ {Head(q)}
  <2>1. PICK i \in 1..Len(Tail(q)) : x = Tail(q)[i]
    BY DEF Elems
  <2>2. i + 1 \in 1..Len(q) /\ x = q[i + 1] /\ i + 1 # 1
    BY <1>1, <2>1
  <2> QED BY <1>1, <2>2 DEF Elems, NoDup
<1>5. ASSUME NEW x \in Elems(q) \ {Head(q)}
      PROVE  x \in Elems(Tail(q))
  <2>1. PICK i \in 1..Len(q) : x = q[i]
    BY DEF Elems
  <2>2. i # 1
    BY <1>1, <2>1
  <2>3. i - 1 \in 1..Len(Tail(q)) /\ Tail(q)[i - 1] = x
    BY <1>1, <2>1, <2>2
  <2> QED BY <2>3 DEF Elems
<1> QED BY <1>1, <1>2, <1>3, <1>4, <1>5

(***************************************************************************)
(* Pushing a new element at the back adds exactly that element.            *)
(***************************************************************************)
LEMMA PushBack ==
    ASSUME NEW E, NEW q \in Seq(E), NEW e \in E, e \notin Elems(q), NoDup(q)
    PROVE  /\ Append(q, e) \in Seq(E)
           /\ NoDup(Append(q, e))
           /\ Elems(Append(q, e)) = Elems(q) \cup {e}
<1>1. /\ Append(q, e) \in Seq(E)
      /\ Len(q) \in Nat
      /\ Len(Append(q, e)) = Len(q) + 1
      /\ \A i \in 1..Len(q) : Append(q, e)[i] = q[i]
      /\ Append(q, e)[Len(q) + 1] = e
  BY AppendProperties, LenProperties
<1>2. \A i \in 1..Len(q) : q[i] # e
  BY DEF Elems
<1>3. ASSUME NEW i \in 1..Len(q) + 1, NEW j \in 1..Len(q) + 1,
             Append(q, e)[i] = Append(q, e)[j]
      PROVE  i = j
  BY <1>1, <1>2, <1>3 DEF NoDup
<1>4. NoDup(Append(q, e))
  BY <1>1, <1>3 DEF NoDup
<1>5. ASSUME NEW x \in Elems(Append(q, e))
      PROVE  x \in Elems(q) \cup {e}
  BY <1>1 DEF Elems
<1>6. ASSUME NEW x \in Elems(q) \cup {e}
      PROVE  x \in Elems(Append(q, e))
  <2>1. CASE x = e
    BY <1>1, <2>1 DEF Elems
  <2>2. CASE x \in Elems(q)
    <3>1. PICK i \in 1..Len(q) : x = q[i]
      BY <2>2 DEF Elems
    <3>2. i \in 1..Len(q) + 1 /\ Append(q, e)[i] = x
      BY <1>1, <3>1
    <3> QED BY <1>1, <3>2 DEF Elems
  <2> QED BY <2>1, <2>2
<1> QED BY <1>1, <1>4, <1>5, <1>6
-----------------------------------------------------------------------------
(***************************************************************************)
(* Rank numbers the kept positions of a queue 1, 2, 3, ... in order.       *)
(***************************************************************************)
LEMMA RankBijection ==
    ASSUME NEW E, NEW q \in Seq(E), NEW S
    PROVE  LET K == KeptAt(q, S)
               n == Cardinality(K)
           IN  /\ n \in Nat
               /\ \A i \in K : Rank(q, S, i) \in 1..n
               /\ \A i, j \in K : Rank(q, S, i) = Rank(q, S, j) => i = j
               /\ \A m \in 1..n : \E i \in K : Rank(q, S, i) = m
<1> DEFINE K == KeptAt(q, S)
           n == Cardinality(K)
           Upto(i) == {j \in K : j <= i}
           rk == [i \in K |-> Rank(q, S, i)]
<1>1. Len(q) \in Nat
  BY LenProperties
<1>2. K \in SUBSET (1..Len(q)) /\ IsFiniteSet(1..Len(q))
  BY <1>1, FS_Interval DEF KeptAt
<1>3. IsFiniteSet(K)
  BY <1>2, FS_Subset
<1>4. n \in Nat
  BY <1>3, FS_CardinalityType
<1>5. ASSUME NEW i \in K
      PROVE  /\ IsFiniteSet(Upto(i))
             /\ Rank(q, S, i) = Cardinality(Upto(i))
             /\ Rank(q, S, i) \in 1..n
  <2>1. Upto(i) \in SUBSET K
    OBVIOUS
  <2>2. IsFiniteSet(Upto(i)) /\ Cardinality(Upto(i)) <= n
    BY <2>1, <1>3, FS_Subset
  <2>3. Cardinality(Upto(i)) \in Nat
    BY <2>2, FS_CardinalityType
  <2>4. i \in Upto(i)
    BY <1>1, <1>2
  <2>5. Cardinality(Upto(i)) # 0
    BY <2>2, <2>4, FS_EmptySet
  <2>6. Rank(q, S, i) = Cardinality(Upto(i))
    BY DEF Rank
  <2> HIDE DEF Upto, K, n
  <2> QED BY <2>2, <2>3, <2>5, <2>6, <1>4
<1>6. ASSUME NEW i \in K, NEW j \in K, i < j
      PROVE  Rank(q, S, i) # Rank(q, S, j)
  <2>1. i \in 1..Len(q) /\ j \in 1..Len(q)
    BY <1>2
  <2>2. Upto(i) \in SUBSET Upto(j) /\ j \in Upto(j) /\ j \notin Upto(i)
    <3>1. \A x \in K : x \in 1..Len(q)
      BY <1>2
    <3>2. \A x \in K : x <= i => x <= j
      BY <1>6, <2>1, <3>1, <1>1
    <3>3. j <= j /\ ~(j <= i)
      BY <1>6, <2>1, <1>1
    <3> HIDE DEF K
    <3> QED BY <3>2, <3>3
  <2>3. Cardinality(Upto(j)) = Cardinality(Upto(i)) => Upto(j) = Upto(i)
    <3> HIDE DEF Upto
    <3> QED BY <1>5, <2>2, FS_Subset
  <2> HIDE DEF Upto, K
  <2> QED BY <1>5, <2>2, <2>3
<1>7. \A i, j \in K : Rank(q, S, i) = Rank(q, S, j) => i = j
  <2>1. \A i \in K : i \in Nat
    BY <1>1, <1>2
  <2> HIDE DEF K
  <2> QED BY <1>6, <2>1
<1>8. rk \in Injection(K, 1..n)
  <2>1. rk \in [K -> 1..n]
    BY <1>5
  <2>2. \A i, j \in K : rk[i] = rk[j] => i = j
    BY <1>7
  <2> HIDE DEF K, n, rk
  <2> QED BY <2>1, <2>2 DEF Injection, IsInjective
<1>9. IsFiniteSet(1..n) /\ Cardinality(1..n) = n
  <2> HIDE DEF n
  <2> QED BY <1>4, FS_Interval
<1>10. rk \in Surjection(K, 1..n)
  <2> HIDE DEF rk
  <2> QED BY <1>8, <1>9, FS_Injection
<1>11. \A m \in 1..n : \E i \in K : Rank(q, S, i) = m
  <2>1. \A m \in 1..n : \E i \in K : rk[i] = m
    <3> HIDE DEF rk
    <3> QED BY <1>10 DEF Surjection
  <2> QED BY <2>1
<1> QED BY <1>4, <1>5, <1>7, <1>11

(***************************************************************************)
(* Keep is a filter: it keeps exactly the elements of S and introduces no  *)
(* duplicates.                                                             *)
(***************************************************************************)
LEMMA KeepFilters ==
    ASSUME NEW E, NEW q \in Seq(E), NEW S, NoDup(q)
    PROVE  /\ Keep(q, S) \in Seq(E)
           /\ NoDup(Keep(q, S))
           /\ Elems(Keep(q, S)) = Elems(q) \cap S
<1> DEFINE K == KeptAt(q, S)
           n == Cardinality(K)
           at(m) == CHOOSE i \in K : Rank(q, S, i) = m
           k == Keep(q, S)
<1>1. /\ n \in Nat
      /\ \A i \in K : Rank(q, S, i) \in 1..n
      /\ \A i, j \in K : Rank(q, S, i) = Rank(q, S, j) => i = j
      /\ \A m \in 1..n : \E i \in K : Rank(q, S, i) = m
  BY RankBijection
<1>2. /\ Len(q) \in Nat
      /\ \A i \in 1..Len(q) : q[i] \in E
      /\ K = {i \in 1..Len(q) : q[i] \in S}
  BY LenProperties DEF KeptAt
<1>3. \A m \in 1..n : at(m) \in K /\ Rank(q, S, at(m)) = m
  BY <1>1
<1>4. k = [m \in 1..n |-> q[at(m)]]
  BY DEF Keep
<1> HIDE DEF K, n, at, k
<1>5. \A m \in 1..n : q[at(m)] \in E
  BY <1>2, <1>3
<1>6. k \in Seq(E) /\ Len(k) = n
  BY <1>1, <1>4, <1>5
<1>7. NoDup(k)
  <2> SUFFICES ASSUME NEW a \in 1..n, NEW b \in 1..n, k[a] = k[b]
               PROVE  a = b
    BY <1>6 DEF NoDup
  <2>1. q[at(a)] = q[at(b)] /\ at(a) \in 1..Len(q) /\ at(b) \in 1..Len(q)
    BY <1>2, <1>3, <1>4
  <2>2. at(a) = at(b)
    BY <2>1 DEF NoDup
  <2> QED BY <2>2, <1>3
<1>8. \A x \in Elems(k) : x \in Elems(q) \cap S
  BY <1>2, <1>3, <1>4, <1>6 DEF Elems
<1>9. ASSUME NEW x \in Elems(q) \cap S
      PROVE  x \in Elems(k)
  <2>1. PICK i \in 1..Len(q) : x = q[i]
    BY DEF Elems
  <2>2. i \in K
    BY <1>2, <2>1
  <2>3. at(Rank(q, S, i)) = i /\ Rank(q, S, i) \in 1..n
    BY <1>1, <1>3, <2>2
  <2>4. k[Rank(q, S, i)] = x
    BY <1>4, <2>1, <2>3
  <2> QED BY <1>6, <2>3, <2>4 DEF Elems
<1>10. Elems(k) = Elems(q) \cap S
  BY <1>8, <1>9
<1> QED BY <1>6, <1>7, <1>10 DEF k
-----------------------------------------------------------------------------
(***************************************************************************)
(* Bytes is a number.                                                      *)
(***************************************************************************)
LEMMA BytesType ==
    ASSUME NEW S, IsFiniteSet(S), NEW max \in Nat, NEW weight
    PROVE  /\ IsFiniteSet(Cells(weight, max, S))
           /\ Bytes(weight, max, S) \in Nat
<1>1. IsFiniteSet(1..max)
  BY FS_Interval
<1>2. IsFiniteSet(S \X (1..max))
  BY <1>1, FS_Product
<1>3. Cells(weight, max, S) \in SUBSET (S \X (1..max))
  BY DEF Cells
<1>4. IsFiniteSet(Cells(weight, max, S))
  BY <1>2, <1>3, FS_Subset
<1> QED BY <1>4, FS_CardinalityType DEF Bytes

LEMMA BytesOfNone ==
    ASSUME NEW max \in Nat, NEW weight
    PROVE  Bytes(weight, max, {}) = 0
<1>1. Cells(weight, max, {}) = {}
  BY DEF Cells
<1> QED BY <1>1, FS_EmptySet DEF Bytes

(***************************************************************************)
(* One more entry adds its weight: Bytes is the sum it stands for.           *)
(***************************************************************************)
LEMMA BytesAdd ==
    ASSUME NEW S, IsFiniteSet(S), NEW max \in Nat, NEW weight,
           NEW e, e \notin S, weight[e] \in 0..max,
           NEW T, T = S \cup {e}
    PROVE  Bytes(weight, max, T) = Bytes(weight, max, S) + weight[e]
<1> DEFINE c == weight[e]
           C == {e} \X (1..c)
           f == [i \in 1..c |-> <<e, i>>]
<1>1. f \in Bijection(1..c, C)
  <2>1. f \in [1..c -> C]
    OBVIOUS
  <2>2. \A i, j \in 1..c : f[i] = f[j] => i = j
    OBVIOUS
  <2>3. \A p \in C : \E i \in 1..c : f[i] = p
    OBVIOUS
  <2> HIDE DEF f, C
  <2> QED BY <2>1, <2>2, <2>3 DEF Bijection, Injection, Surjection, IsInjective
<1>2. ExistsBijection(1..c, C)
  <2> HIDE DEF f, C
  <2> QED BY <1>1 DEF ExistsBijection
<1>3. c \in Nat /\ IsFiniteSet(1..c) /\ Cardinality(1..c) = c
  <2>1. c \in Nat /\ c \in Int /\ 1 \in Int
    OBVIOUS
  <2> HIDE DEF c
  <2>2. IsFiniteSet(1..c) /\ Cardinality(1..c) = IF 1 > c THEN 0 ELSE c - 1 + 1
    BY <2>1, FS_Interval
  <2> QED BY <2>1, <2>2
<1>4. IsFiniteSet(C) /\ Cardinality(C) = c
  <2> HIDE DEF C, c
  <2> QED BY <1>2, <1>3, FS_Bijection
<1>5. Cells(weight, max, T) = Cells(weight, max, S) \cup C
  BY DEF Cells
<1>6. Cells(weight, max, S) \cap C = {}
  BY DEF Cells
<1>7. IsFiniteSet(Cells(weight, max, S)) /\ Cardinality(Cells(weight, max, S)) \in Nat
  BY BytesType DEF Bytes
<1>8. Cardinality(Cells(weight, max, S) \cup C) = Cardinality(Cells(weight, max, S)) + c
  <2> DEFINE A == Cells(weight, max, S)
  <2> HIDE DEF A, C, c
  <2>1. Cardinality(A \cup C) = Cardinality(A) + Cardinality(C) - Cardinality(A \cap C)
    BY <1>4, <1>7, FS_Union DEF A
  <2>2. Cardinality(A \cap C) = 0
    BY <1>6, FS_EmptySet DEF A
  <2>3. Cardinality(A \cup C) = Cardinality(A) + c
    BY <1>3, <1>4, <1>7, <2>1, <2>2 DEF A
  <2> QED BY <2>3 DEF A
<1> QED BY <1>5, <1>8 DEF Bytes

(***************************************************************************)
(* One entry less takes its weight away, which was there to be taken.        *)
(***************************************************************************)
LEMMA BytesRemove ==
    ASSUME NEW S, IsFiniteSet(S), NEW max \in Nat, NEW weight,
           NEW e \in S, weight[e] \in 0..max
    PROVE  /\ Bytes(weight, max, S \ {e}) = Bytes(weight, max, S) - weight[e]
           /\ weight[e] <= Bytes(weight, max, S)
<1> DEFINE T == S \ {e}
<1>1. S = T \cup {e}
  OBVIOUS
<1>2. IsFiniteSet(T) /\ e \notin T
  BY FS_RemoveElement
<1> HIDE DEF T
<1>3. Bytes(weight, max, T \cup {e}) = Bytes(weight, max, T) + weight[e]
  BY <1>2, BytesAdd
<1>4. Bytes(weight, max, T) \in Nat
  BY <1>2, BytesType
<1>5. /\ Bytes(weight, max, T) = Bytes(weight, max, S) - weight[e]
      /\ weight[e] <= Bytes(weight, max, S)
  BY <1>1, <1>3, <1>4
<1> QED BY <1>5 DEF T

(***************************************************************************)
(* Bytes depends only on the costs of the entries it counts.               *)
(***************************************************************************)
LEMMA BytesSame ==
    ASSUME NEW S, NEW max \in Nat, NEW weight, NEW other,
           \A e \in S : weight[e] = other[e]
    PROVE  Bytes(weight, max, S) = Bytes(other, max, S)
<1>1. Cells(weight, max, S) = Cells(other, max, S)
  BY DEF Cells
<1> QED BY <1>1 DEF Bytes

----------------------------------------------------------------------------
(* The invariant and the eviction loop. *)

(***************************************************************************)
(* The entry a SET is storing is live, in the index and not yet queued.    *)
(***************************************************************************)
PendingEntry ==
    Locked =>
        /\ op.e \in Entries
        /\ op.e \notin Queued
        /\ live[op.e]
        /\ key[op.e] \in Keys
        /\ index[key[op.e]] = op.e

(***************************************************************************)
(* Every hash in the ghost set is still in the ghost order, so it will be  *)
(* forgotten some day: the set cannot outgrow the order that bounds it.    *)
(***************************************************************************)
GhostTracked == ghosts \subseteq Elems(order)

(***************************************************************************)
(* The inductive invariant.                                                *)
(***************************************************************************)
IInv ==
    /\ TypeOK
    /\ IndexMatchesQueues
    /\ PendingEntry
    /\ Accounting
    /\ WithinBudget
    /\ ReplaceKeepsNeighbours
    /\ GhostTracked

(***************************************************************************)
(* The sets the counters measure are finite sets of entries.               *)
(***************************************************************************)
LEMMA QueuedFinite ==
    ASSUME TypeOK
    PROVE  /\ Queued \in SUBSET Entries /\ IsFiniteSet(Queued)
           /\ IsFiniteSet(Elems(small))
           /\ IsFiniteSet(Live(Queued)) /\ IsFiniteSet(Dead(Queued))
<1>1. /\ Elems(small) \in SUBSET Entries /\ IsFiniteSet(Elems(small))
      /\ Elems(main) \in SUBSET Entries /\ IsFiniteSet(Elems(main))
  BY ElemsType DEF TypeOK
<1>2. Queued \in SUBSET Entries /\ IsFiniteSet(Queued)
  BY <1>1, FS_Union DEF Queued
<1>3. Live(Queued) \in SUBSET Queued /\ Dead(Queued) \in SUBSET Queued
  BY DEF Live, Dead
<1> QED BY <1>1, <1>2, <1>3, FS_Subset

(***************************************************************************)
(* The counters' arithmetic in the current state.                          *)
(***************************************************************************)
LEMMA Count ==
    ASSUME TypeOK, NEW S, IsFiniteSet(S), NEW e \in Entries, e \notin S,
           NEW T, T = S \cup {e}
    PROVE  BytesOf(T) = BytesOf(S) + cost[e]
<1>1. cost[e] \in 0..Capacity /\ Capacity \in Nat
  BY BudgetAssumption DEF TypeOK
<1> QED BY <1>1, BytesAdd DEF BytesOf

LEMMA Uncount ==
    ASSUME TypeOK, NEW S, IsFiniteSet(S), NEW e \in Entries, e \in S
    PROVE  /\ BytesOf(S \ {e}) = BytesOf(S) - cost[e]
           /\ cost[e] <= BytesOf(S)
<1>1. cost[e] \in 0..Capacity /\ Capacity \in Nat
  BY BudgetAssumption DEF TypeOK
<1> QED BY <1>1, BytesRemove DEF BytesOf

LEMMA PopSmall ==
    ASSUME TypeOK, IndexMatchesQueues, small # <<>>
    PROVE  /\ Head(small) \in Entries
           /\ Head(small) \in Elems(small) /\ Head(small) \notin Elems(main)
           /\ Tail(small) \in Seq(Entries)
           /\ NoDup(Tail(small))
           /\ Elems(Tail(small)) = Elems(small) \ {Head(small)}
BY PopFront, ElemsType DEF TypeOK, IndexMatchesQueues

LEMMA PopMain ==
    ASSUME TypeOK, IndexMatchesQueues, main # <<>>
    PROVE  /\ Head(main) \in Entries
           /\ Head(main) \in Elems(main) /\ Head(main) \notin Elems(small)
           /\ Tail(main) \in Seq(Entries)
           /\ NoDup(Tail(main))
           /\ Elems(Tail(main)) = Elems(main) \ {Head(main)}
BY PopFront, ElemsType DEF TypeOK, IndexMatchesQueues

(***************************************************************************)
(* Dropping a dead entry from the small queue.                             *)
(***************************************************************************)
LEMMA DropDeadSmallStep == ASSUME IInv, DropDeadSmall PROVE IInv'
<1> DEFINE h == Head(small)
<1> USE DEF IInv
<1>1. /\ h \in Entries /\ h \in Elems(small) /\ h \notin Elems(main)
      /\ small' \in Seq(Entries) /\ NoDup(small')
      /\ Elems(small') = Elems(small) \ {h}
      /\ Elems(main') = Elems(main)
      /\ ~live[h]
  BY PopSmall DEF DropDeadSmall, FromSmall
<1>2. UNCHANGED <<index, key, cost, freq, live, main, order, ghosts, used, evictions, op, reader>>
  BY DEF DropDeadSmall, entry, ghost
<1>3. /\ Queued' = Queued \ {h}
      /\ Live(Queued)' = Live(Queued)
      /\ Dead(Queued)' = Dead(Queued) \ {h}
      /\ h \in Dead(Queued)
  BY <1>1, <1>2 DEF Queued, Live, Dead
<1>4. cost[h] \in Nat
  BY <1>1 DEF TypeOK
<1>5. /\ BytesOf(Elems(small) \ {h}) = BytesOf(Elems(small)) - cost[h]
      /\ cost[h] <= BytesOf(Elems(small))
  BY <1>1, QueuedFinite, Uncount
<1>6. /\ BytesOf(Dead(Queued) \ {h}) = BytesOf(Dead(Queued)) - cost[h]
      /\ cost[h] <= BytesOf(Dead(Queued))
  BY <1>1, <1>3, QueuedFinite, Uncount
<1>7. /\ small_bytes' = small_bytes - cost[h]
      /\ dead_bytes' = dead_bytes - cost[h]
  BY DEF DropDeadSmall
<1>8. Accounting'
  <2>1. used' = BytesOf(Live(Queued))'
    BY <1>2, <1>3 DEF BytesOf, Accounting
  <2>2. small_bytes' = BytesOf(Elems(small))'
    BY <1>1, <1>2, <1>5, <1>7 DEF BytesOf, Accounting
  <2>3. dead_bytes' = BytesOf(Dead(Queued))'
    BY <1>2, <1>3, <1>6, <1>7 DEF BytesOf, Accounting
  <2> QED BY <2>1, <2>2, <2>3 DEF Accounting
<1>9. TypeOK'
  <2>1. small_bytes \in Nat /\ dead_bytes \in Nat
    BY DEF TypeOK
  <2>2. cost[h] <= small_bytes /\ cost[h] <= dead_bytes
    BY <1>5, <1>6 DEF Accounting
  <2>3. small_bytes' \in Nat /\ dead_bytes' \in Nat
    BY <1>4, <1>7, <2>1, <2>2
  <2> QED BY <1>1, <1>2, <2>3 DEF TypeOK
<1>10. IndexMatchesQueues'
  BY <1>1, <1>2, <1>3 DEF IndexMatchesQueues, Live
<1>11. PendingEntry'
  BY <1>2, <1>3 DEF PendingEntry, Locked
<1>12. WithinBudget' /\ ReplaceKeepsNeighbours' /\ GhostTracked'
  BY <1>2 DEF WithinBudget, ReplaceKeepsNeighbours, GhostTracked, Locked, MustEvict,
     DropDeadSmall
<1> QED BY <1>8, <1>9, <1>10, <1>11, <1>12

(***************************************************************************)
(* Promoting the head of the small queue.                                  *)
(***************************************************************************)
LEMMA PromoteStep == ASSUME IInv, Promote PROVE IInv'
<1> DEFINE h == Head(small)
<1> USE DEF IInv
<1>1. /\ h \in Entries /\ h \in Elems(small) /\ h \notin Elems(main)
      /\ small' \in Seq(Entries) /\ NoDup(small')
      /\ Elems(small') = Elems(small) \ {h}
  BY PopSmall DEF Promote, FromSmall
<1>2. /\ main' \in Seq(Entries) /\ NoDup(main')
      /\ Elems(main') = Elems(main) \cup {h}
  <2>1. main \in Seq(Entries) /\ NoDup(main) /\ main' = Append(main, h)
    BY DEF TypeOK, IndexMatchesQueues, Promote
  <2> QED BY <1>1, <2>1, PushBack
<1>3. UNCHANGED <<index, key, cost, live, dead_bytes, order, ghosts, used, evictions, op, reader>>
  BY DEF Promote, entry, ghost
<1>4. Queued' = Queued /\ Live(Queued)' = Live(Queued) /\ Dead(Queued)' = Dead(Queued)
  BY <1>1, <1>2, <1>3 DEF Queued, Live, Dead
<1>5. /\ BytesOf(Elems(small) \ {h}) = BytesOf(Elems(small)) - cost[h]
      /\ cost[h] <= BytesOf(Elems(small))
  BY <1>1, QueuedFinite, Uncount
<1>6. small_bytes' = small_bytes - cost[h] /\ cost[h] \in Nat
  BY <1>1 DEF Promote, TypeOK
<1>7. Accounting'
  <2>1. used' = BytesOf(Live(Queued))' /\ dead_bytes' = BytesOf(Dead(Queued))'
    BY <1>3, <1>4 DEF BytesOf, Accounting
  <2>2. small_bytes' = BytesOf(Elems(small))'
    BY <1>1, <1>3, <1>5, <1>6 DEF BytesOf, Accounting
  <2> QED BY <2>1, <2>2 DEF Accounting
<1>8. TypeOK'
  <2>1. small_bytes \in Nat /\ cost[h] <= small_bytes
    BY <1>5 DEF TypeOK, Accounting
  <2>2. small_bytes' \in Nat
    BY <1>6, <2>1
  <2>3. freq' \in [Entries -> 0..FREQ_CAP]
    <3>1. freq \in [Entries -> 0..FREQ_CAP] /\ freq' = [freq EXCEPT ![h] = 0]
      BY DEF Promote, TypeOK
    <3>2. 0 \in 0..FREQ_CAP
      BY BudgetAssumption
    <3> QED BY <3>1, <3>2
  <2> QED BY <1>1, <1>2, <1>3, <2>2, <2>3 DEF TypeOK
<1>9. IndexMatchesQueues'
  BY <1>1, <1>2, <1>3, <1>4 DEF IndexMatchesQueues
<1>10. PendingEntry'
  BY <1>3, <1>4 DEF PendingEntry, Locked
<1>11. WithinBudget' /\ ReplaceKeepsNeighbours' /\ GhostTracked'
  BY <1>3 DEF WithinBudget, ReplaceKeepsNeighbours, GhostTracked, Locked, MustEvict
<1> QED BY <1>7, <1>8, <1>9, <1>10, <1>11

(***************************************************************************)
(* Throwing out a live queued entry h: the index forgets exactly its key.  *)
(***************************************************************************)
LEMMA ThrowOutEffect ==
    ASSUME IInv, NEW h \in Live(Queued), ThrowOut(h)
    PROVE  /\ h \in Entries /\ key[h] \in Keys /\ index[key[h]] = h
           /\ index' = [index EXCEPT ![key[h]] = None]
           /\ live' = [live EXCEPT ![h] = FALSE]
           /\ used' = used - cost[h]
           /\ used' \in Nat
           /\ BytesOf(Live(Queued) \ {h}) = used'
           /\ evictions' \in 0..(CounterWrap - 1)
           /\ h # op.e
<1> USE DEF IInv
<1>1. h \in Entries /\ h \in Queued
  BY QueuedFinite DEF Live
<1>2. key[h] \in Keys /\ index[key[h]] = h
  BY DEF IndexMatchesQueues
<1>3. index' = [index EXCEPT ![key[h]] = None]
  BY <1>2 DEF ThrowOut
<1>4. /\ BytesOf(Live(Queued) \ {h}) = BytesOf(Live(Queued)) - cost[h]
      /\ cost[h] <= BytesOf(Live(Queued))
  BY <1>1, QueuedFinite, Uncount
<1>5. used' = used - cost[h] /\ used = BytesOf(Live(Queued))
  BY DEF ThrowOut, Accounting
<1>6. used \in Nat /\ cost[h] \in Nat
  BY <1>1 DEF TypeOK
<1>7. evictions' \in 0..(CounterWrap - 1)
  <2>1. evictions + 1 \in Nat /\ CounterWrap \in Nat \ {0}
    BY BudgetAssumption DEF TypeOK
  <2> QED BY <2>1 DEF ThrowOut
<1>8. h # op.e
  BY <1>1, NoneAssumption DEF PendingEntry, Locked
<1> QED BY <1>1, <1>2, <1>3, <1>4, <1>5, <1>6, <1>7, <1>8 DEF ThrowOut

(***************************************************************************)
(* Ghost::push keeps the set within the order.                             *)
(***************************************************************************)
LEMMA GhostPushTracks ==
    ASSUME TypeOK, GhostTracked, NEW k \in Keys, NEW limit \in Nat, GhostPush(k, limit)
    PROVE  order' \in Seq(Keys) /\ ghosts' \in SUBSET Keys /\ GhostTracked'
<1> DEFINE longer == IF k \in ghosts THEN order ELSE Append(order, k)
           max == IF limit > GHOST_MIN THEN limit ELSE GHOST_MIN
           over == IF Len(longer) > max THEN Len(longer) - max ELSE 0
<1>1. order \in Seq(Keys) /\ ghosts \in SUBSET Keys
  BY DEF TypeOK
<1>2. longer \in Seq(Keys) /\ Len(longer) \in Nat
  BY <1>1
<1>3. max \in Nat
  BY BudgetAssumption
<1>4. over \in 0..Len(longer)
  <2> HIDE DEF longer, max
  <2> QED BY <1>2, <1>3
<1>5. /\ order' = SubSeq(longer, over + 1, Len(longer))
      /\ ghosts' = (ghosts \cup {k}) \ {longer[i] : i \in 1..over}
  BY DEF GhostPush
<1>6. \A g \in ghosts \cup {k} : \E i \in 1..Len(longer) : longer[i] = g
  <2>1. \A g \in ghosts : \E i \in 1..Len(order) : order[i] = g
    BY DEF GhostTracked, Elems
  <2>2. CASE k \in ghosts
    BY <2>1, <2>2
  <2>3. CASE k \notin ghosts
    <3>1. /\ longer = Append(order, k) /\ Len(longer) = Len(order) + 1 /\ Len(order) \in Nat
          /\ \A i \in 1..Len(order) : longer[i] = order[i]
          /\ longer[Len(order) + 1] = k
      BY <1>1, <2>3, AppendProperties, LenProperties
    <3> HIDE DEF longer
    <3>2. \A i \in 1..Len(order) : i \in 1..Len(longer)
      BY <3>1
    <3>3. Len(order) + 1 \in 1..Len(longer)
      BY <3>1
    <3> QED BY <2>1, <3>1, <3>2, <3>3
  <2> QED BY <2>2, <2>3
<1> HIDE DEF longer, max, over
<1>7. /\ order' \in Seq(Keys)
      /\ Len(order') = Len(longer) - over
      /\ \A i \in 1..(Len(longer) - over) : order'[i] = longer[over + i]
  <2>1. \A i \in (over + 1)..Len(longer) : longer[i] \in Keys
    BY <1>2, <1>4
  <2>2. over + 1 \in Int /\ Len(longer) \in Int
    BY <1>2, <1>4
  <2>3. /\ order' \in Seq(Keys)
        /\ Len(order') = IF over + 1 <= Len(longer) THEN Len(longer) - (over + 1) + 1 ELSE 0
        /\ \A i \in 1..(Len(longer) - (over + 1) + 1) : order'[i] = longer[over + 1 + i - 1]
    BY <1>5, <2>1, <2>2, SubSeqProperties
  <2> QED BY <1>2, <1>4, <2>3
<1>8. ASSUME NEW g \in ghosts' PROVE g \in Elems(order')
  <2>1. PICK i \in 1..Len(longer) : longer[i] = g
    BY <1>5, <1>6
  <2>2. i \notin 1..over
    BY <1>5, <2>1
  <2>3. i - over \in 1..(Len(longer) - over) /\ over + (i - over) = i
    BY <1>2, <1>4, <2>1, <2>2
  <2>4. order'[i - over] = g
    BY <1>7, <2>1, <2>3
  <2> QED BY <1>7, <2>3, <2>4 DEF Elems
<1>9. GhostTracked'
  BY <1>8 DEF GhostTracked
<1> QED BY <1>1, <1>5, <1>7, <1>9

(***************************************************************************)
(* Evicting the head of the small queue.                                   *)
(***************************************************************************)
LEMMA EvictSmallStep == ASSUME IInv, EvictSmall PROVE IInv'
<1> DEFINE h == Head(small)
<1> USE DEF IInv
<1>1. /\ h \in Entries /\ h \in Elems(small) /\ h \notin Elems(main)
      /\ small' \in Seq(Entries) /\ NoDup(small')
      /\ Elems(small') = Elems(small) \ {h}
      /\ live[h]
  BY PopSmall DEF EvictSmall, FromSmall
<1>2. UNCHANGED <<key, cost, freq, main, dead_bytes, op, reader>>
  BY DEF EvictSmall, entry
<1>3. h \in Live(Queued) /\ h \in Queued
  BY <1>1 DEF Live, Queued
<1>4. /\ key[h] \in Keys /\ index[key[h]] = h
      /\ index' = [index EXCEPT ![key[h]] = None]
      /\ live' = [live EXCEPT ![h] = FALSE]
      /\ used' = used - cost[h]
      /\ used' \in Nat
      /\ BytesOf(Live(Queued) \ {h}) = used'
      /\ evictions' \in 0..(CounterWrap - 1)
      /\ h # op.e
  BY <1>3, ThrowOutEffect DEF EvictSmall
<1>5. order' \in Seq(Keys) /\ ghosts' \in SUBSET Keys /\ GhostTracked'
  <2>1. Len(main) \in Nat
    BY LenProperties DEF TypeOK
  <2> QED BY <1>4, <2>1, GhostPushTracks DEF EvictSmall
<1>6. live \in [Entries -> BOOLEAN] /\ Queued \in SUBSET Entries
  BY QueuedFinite DEF TypeOK
<1>7. /\ Queued' = Queued \ {h}
      /\ Live(Queued)' = Live(Queued) \ {h}
      /\ Dead(Queued)' = Dead(Queued)
  BY <1>1, <1>2, <1>4, <1>6 DEF Queued, Live, Dead
<1>8. /\ BytesOf(Elems(small) \ {h}) = BytesOf(Elems(small)) - cost[h]
      /\ cost[h] <= BytesOf(Elems(small))
  BY <1>1, QueuedFinite, Uncount
<1>9. small_bytes' = small_bytes - cost[h] /\ cost[h] \in Nat
  BY <1>1 DEF EvictSmall, TypeOK
<1>10. Accounting'
  <2>1. used' = BytesOf(Live(Queued))'
    BY <1>2, <1>4, <1>7 DEF BytesOf
  <2>2. dead_bytes' = BytesOf(Dead(Queued))'
    BY <1>2, <1>7 DEF BytesOf, Accounting
  <2>3. small_bytes' = BytesOf(Elems(small))'
    BY <1>1, <1>2, <1>8, <1>9 DEF BytesOf, Accounting
  <2> QED BY <2>1, <2>2, <2>3 DEF Accounting
<1>11. TypeOK'
  <2>1. small_bytes \in Nat /\ cost[h] <= small_bytes
    BY <1>8 DEF TypeOK, Accounting
  <2>2. small_bytes' \in Nat
    BY <1>9, <2>1
  <2>3. index' \in [Keys -> Entries \cup {None}] /\ live' \in [Entries -> BOOLEAN]
    BY <1>4 DEF TypeOK
  <2> QED BY <1>1, <1>2, <1>4, <1>5, <2>2, <2>3 DEF TypeOK
<1>12. IndexMatchesQueues'
  <2>1. ASSUME NEW k \in Keys, index'[k] # None
        PROVE  /\ live'[index'[k]] /\ key'[index'[k]] = k
               /\ index'[k] \in Queued' \/ index'[k] = op'.e
    <3>1. k # key[h] /\ index'[k] = index[k] /\ index[k] \in Entries
      BY <1>4, <2>1 DEF TypeOK
    <3>2. live[index[k]] /\ key[index[k]] = k /\ (index[k] \in Queued \/ index[k] = op.e)
      BY <2>1, <3>1 DEF IndexMatchesQueues
    <3>3. index[k] # h
      BY <3>1, <3>2
    <3>4. live'[index[k]]
      BY <1>4, <1>6, <3>1, <3>2, <3>3
    <3> QED BY <1>2, <1>7, <3>1, <3>2, <3>3, <3>4
  <2>2. \A e \in Live(Queued)' : key'[e] \in Keys /\ index'[key'[e]] = e
    BY <1>1, <1>2, <1>4, <1>6, <1>7 DEF IndexMatchesQueues, TypeOK
  <2> QED BY <1>1, <1>2, <2>1, <2>2 DEF IndexMatchesQueues
<1>13. PendingEntry'
  BY <1>1, <1>2, <1>4, <1>7 DEF PendingEntry, Locked, TypeOK
<1>14. WithinBudget' /\ ReplaceKeepsNeighbours'
  <2>1. used \in Nat /\ cost[h] \in Nat /\ used <= Capacity /\ Capacity \in Nat
    BY <1>9, BudgetAssumption DEF TypeOK, WithinBudget
  <2>2. used' <= Capacity
    BY <1>4, <2>1
  <2>3. WithinBudget'
    BY <1>2, <2>2 DEF WithinBudget, Locked, EvictSmall, MustEvict
  <2>4. ReplaceKeepsNeighbours'
    BY <1>2 DEF ReplaceKeepsNeighbours, EvictSmall, Locked, MustEvict
  <2> QED BY <2>3, <2>4
<1> QED BY <1>5, <1>10, <1>11, <1>12, <1>13, <1>14

(***************************************************************************)
(* Dropping a dead entry from the main queue.                              *)
(***************************************************************************)
LEMMA DropDeadMainStep == ASSUME IInv, DropDeadMain PROVE IInv'
<1> DEFINE h == Head(main)
<1> USE DEF IInv
<1>1. /\ h \in Entries /\ h \in Elems(main) /\ h \notin Elems(small)
      /\ main' \in Seq(Entries) /\ NoDup(main')
      /\ Elems(main') = Elems(main) \ {h}
      /\ ~live[h]
  BY PopMain DEF DropDeadMain, FromMain
<1>2. UNCHANGED <<index, key, cost, freq, live, small, small_bytes, order, ghosts, used,
                  evictions, op, reader>>
  BY DEF DropDeadMain, entry, ghost
<1>3. /\ Queued' = Queued \ {h}
      /\ Live(Queued)' = Live(Queued)
      /\ Dead(Queued)' = Dead(Queued) \ {h}
      /\ h \in Dead(Queued)
  BY <1>1, <1>2 DEF Queued, Live, Dead
<1>4. /\ BytesOf(Dead(Queued) \ {h}) = BytesOf(Dead(Queued)) - cost[h]
      /\ cost[h] <= BytesOf(Dead(Queued))
  BY <1>1, <1>3, QueuedFinite, Uncount
<1>5. dead_bytes' = dead_bytes - cost[h] /\ cost[h] \in Nat
  BY <1>1 DEF DropDeadMain, TypeOK
<1>6. Accounting'
  <2>1. used' = BytesOf(Live(Queued))' /\ small_bytes' = BytesOf(Elems(small))'
    BY <1>2, <1>3 DEF BytesOf, Accounting
  <2>2. dead_bytes' = BytesOf(Dead(Queued))'
    BY <1>2, <1>3, <1>4, <1>5 DEF BytesOf, Accounting
  <2> QED BY <2>1, <2>2 DEF Accounting
<1>7. TypeOK'
  <2>1. dead_bytes \in Nat /\ cost[h] <= dead_bytes
    BY <1>4 DEF TypeOK, Accounting
  <2>2. dead_bytes' \in Nat
    BY <1>5, <2>1
  <2> QED BY <1>1, <1>2, <2>2 DEF TypeOK
<1>8. IndexMatchesQueues'
  BY <1>1, <1>2, <1>3 DEF IndexMatchesQueues, Live
<1>9. PendingEntry'
  BY <1>2, <1>3 DEF PendingEntry, Locked
<1>10. WithinBudget' /\ ReplaceKeepsNeighbours' /\ GhostTracked'
  BY <1>2 DEF WithinBudget, ReplaceKeepsNeighbours, GhostTracked, Locked, MustEvict,
     DropDeadMain
<1> QED BY <1>6, <1>7, <1>8, <1>9, <1>10

(***************************************************************************)
(* The head of the main queue goes to its back.                            *)
(***************************************************************************)
LEMMA SecondChanceStep == ASSUME IInv, SecondChance PROVE IInv'
<1> DEFINE h == Head(main)
<1> USE DEF IInv
<1>1. /\ h \in Entries /\ h \in Elems(main) /\ h \notin Elems(small)
      /\ Tail(main) \in Seq(Entries) /\ NoDup(Tail(main))
      /\ Elems(Tail(main)) = Elems(main) \ {h}
      /\ main' = Append(Tail(main), h)
  BY PopMain DEF SecondChance, FromMain
<1>2. /\ main' \in Seq(Entries) /\ NoDup(main')
      /\ Elems(main') = Elems(main)
  <2> DEFINE t == Tail(main)
  <2>1. t \in Seq(Entries) /\ NoDup(t) /\ h \notin Elems(t) /\ h \in Entries
    BY <1>1
  <2> HIDE DEF t, h
  <2>2. /\ Append(t, h) \in Seq(Entries) /\ NoDup(Append(t, h))
        /\ Elems(Append(t, h)) = Elems(t) \cup {h}
    BY <2>1, PushBack
  <2> QED BY <1>1, <2>2 DEF t
<1>3. UNCHANGED <<index, key, cost, live, small, small_bytes, dead_bytes, order, ghosts, used,
                  evictions, op, reader>>
  BY DEF SecondChance, entry, ghost
<1>4. Queued' = Queued /\ Live(Queued)' = Live(Queued) /\ Dead(Queued)' = Dead(Queued)
  BY <1>2, <1>3 DEF Queued, Live, Dead
<1>5. Accounting'
  BY <1>3, <1>4 DEF Accounting, BytesOf
<1>6. TypeOK'
  <2>1. freq' \in [Entries -> 0..FREQ_CAP]
    <3>1. /\ freq \in [Entries -> 0..FREQ_CAP] /\ freq' = [freq EXCEPT ![h] = freq[h] - 1]
          /\ freq[h] > 0
      BY DEF SecondChance, TypeOK
    <3>2. freq[h] - 1 \in 0..FREQ_CAP
      BY <1>1, <3>1, BudgetAssumption
    <3> QED BY <3>1, <3>2
  <2> QED BY <1>2, <1>3, <2>1 DEF TypeOK
<1>7. IndexMatchesQueues' /\ PendingEntry'
  BY <1>2, <1>3, <1>4 DEF IndexMatchesQueues, PendingEntry, Locked
<1>8. WithinBudget' /\ ReplaceKeepsNeighbours' /\ GhostTracked'
  BY <1>3 DEF WithinBudget, ReplaceKeepsNeighbours, GhostTracked, Locked, MustEvict
<1> QED BY <1>5, <1>6, <1>7, <1>8

(***************************************************************************)
(* Evicting the head of the main queue.                                    *)
(***************************************************************************)
LEMMA EvictMainStep == ASSUME IInv, EvictMain PROVE IInv'
<1> DEFINE h == Head(main)
<1> USE DEF IInv
<1>1. /\ h \in Entries /\ h \in Elems(main) /\ h \notin Elems(small)
      /\ main' \in Seq(Entries) /\ NoDup(main')
      /\ Elems(main') = Elems(main) \ {h}
      /\ live[h]
  BY PopMain DEF EvictMain, FromMain
<1>2. UNCHANGED <<key, cost, freq, small, small_bytes, dead_bytes, order, ghosts, op, reader>>
  BY DEF EvictMain, entry, ghost
<1>3. h \in Live(Queued) /\ h \in Queued
  BY <1>1 DEF Live, Queued
<1>4. /\ key[h] \in Keys /\ index[key[h]] = h
      /\ index' = [index EXCEPT ![key[h]] = None]
      /\ live' = [live EXCEPT ![h] = FALSE]
      /\ used' = used - cost[h]
      /\ used' \in Nat
      /\ BytesOf(Live(Queued) \ {h}) = used'
      /\ evictions' \in 0..(CounterWrap - 1)
      /\ h # op.e
  BY <1>3, ThrowOutEffect DEF EvictMain
<1>5. live \in [Entries -> BOOLEAN] /\ Queued \in SUBSET Entries
  BY QueuedFinite DEF TypeOK
<1>6. /\ Queued' = Queued \ {h}
      /\ Live(Queued)' = Live(Queued) \ {h}
      /\ Dead(Queued)' = Dead(Queued)
  BY <1>1, <1>2, <1>4, <1>5 DEF Queued, Live, Dead
<1>7. Accounting'
  <2>1. used' = BytesOf(Live(Queued))'
    BY <1>2, <1>4, <1>6 DEF BytesOf
  <2>2. dead_bytes' = BytesOf(Dead(Queued))' /\ small_bytes' = BytesOf(Elems(small))'
    BY <1>2, <1>6 DEF BytesOf, Accounting
  <2> QED BY <2>1, <2>2 DEF Accounting
<1>8. TypeOK'
  <2>1. index' \in [Keys -> Entries \cup {None}] /\ live' \in [Entries -> BOOLEAN]
    BY <1>4 DEF TypeOK
  <2> QED BY <1>1, <1>2, <1>4, <2>1 DEF TypeOK
<1>9. IndexMatchesQueues'
  <2>1. ASSUME NEW k \in Keys, index'[k] # None
        PROVE  /\ live'[index'[k]] /\ key'[index'[k]] = k
               /\ index'[k] \in Queued' \/ index'[k] = op'.e
    <3>1. k # key[h] /\ index'[k] = index[k] /\ index[k] \in Entries
      BY <1>4, <2>1 DEF TypeOK
    <3>2. live[index[k]] /\ key[index[k]] = k /\ (index[k] \in Queued \/ index[k] = op.e)
      BY <2>1, <3>1 DEF IndexMatchesQueues
    <3>3. index[k] # h
      BY <3>1, <3>2
    <3>4. live'[index[k]]
      BY <1>4, <1>5, <3>1, <3>2, <3>3
    <3> QED BY <1>2, <1>6, <3>1, <3>2, <3>3, <3>4
  <2>2. \A e \in Live(Queued)' : key'[e] \in Keys /\ index'[key'[e]] = e
    BY <1>1, <1>2, <1>4, <1>5, <1>6 DEF IndexMatchesQueues, TypeOK
  <2> QED BY <1>1, <1>2, <2>1, <2>2 DEF IndexMatchesQueues
<1>10. PendingEntry'
  BY <1>1, <1>2, <1>4, <1>6 DEF PendingEntry, Locked, TypeOK
<1>11. WithinBudget' /\ ReplaceKeepsNeighbours' /\ GhostTracked'
  <2>1. used \in Nat /\ cost[h] \in Nat /\ used <= Capacity /\ Capacity \in Nat
    BY <1>1, BudgetAssumption DEF TypeOK, WithinBudget
  <2>2. used' <= Capacity
    BY <1>4, <2>1
  <2>3. WithinBudget'
    BY <1>2, <2>2 DEF WithinBudget, Locked, EvictMain, MustEvict
  <2>4. ReplaceKeepsNeighbours' /\ GhostTracked'
    BY <1>2 DEF ReplaceKeepsNeighbours, GhostTracked, EvictMain, Locked, MustEvict
  <2> QED BY <2>3, <2>4
<1> QED BY <1>7, <1>8, <1>9, <1>10, <1>11
-----------------------------------------------------------------------------
(***************************************************************************)
(* The second chances the entries of a set still have: a number, which     *)
(* depends only on their frequencies.                                      *)
(***************************************************************************)
LEMMA ChancesLost ==
    ASSUME TypeOK, NEW S \in SUBSET Entries, IsFiniteSet(S), NEW h \in S
    PROVE  /\ Bytes(freq, FREQ_CAP, S) \in Nat
           /\ Bytes(freq, FREQ_CAP, S \ {h}) \in Nat
           /\ Bytes(freq, FREQ_CAP, S) = Bytes(freq, FREQ_CAP, S \ {h}) + freq[h]
           /\ freq[h] \in Nat
<1>1. freq[h] \in 0..FREQ_CAP /\ freq[h] \in Nat /\ FREQ_CAP \in Nat
  BY BudgetAssumption DEF TypeOK
<1>2. IsFiniteSet(S \ {h})
  BY FS_RemoveElement
<1>3. Bytes(freq, FREQ_CAP, S) \in Nat /\ Bytes(freq, FREQ_CAP, S \ {h}) \in Nat
  BY <1>1, <1>2, BytesType
<1>4. Bytes(freq, FREQ_CAP, S \ {h}) = Bytes(freq, FREQ_CAP, S) - freq[h]
  BY <1>1, BytesRemove, SMTT(40)
<1> QED BY <1>1, <1>3, <1>4

(***************************************************************************)
(* A head that leaves the small queue for good takes its work with it.     *)
(***************************************************************************)
LEMMA SmallHeadGone ==
    ASSUME IInv, small # <<>>, small' = Tail(small), UNCHANGED <<main, freq>>
    PROVE  Work' < Work
<1>1. Len(small) \in Nat /\ Len(main) \in Nat /\ Len(small') = Len(small) - 1
  BY DEF IInv, TypeOK
<1>2. IsFiniteSet(Elems(main)) /\ FREQ_CAP \in Nat
  BY ElemsType, BudgetAssumption DEF IInv, TypeOK
<1>3. Bytes(freq, FREQ_CAP, Elems(main)) \in Nat
  BY <1>2, BytesType
<1>4. Bytes(freq, FREQ_CAP, Elems(main))' = Bytes(freq, FREQ_CAP, Elems(main))
  OBVIOUS
<1> QED BY <1>1, <1>3, <1>4 DEF Work

(***************************************************************************)
(* So does a head that leaves the main queue, its second chances included. *)
(***************************************************************************)
LEMMA MainHeadGone ==
    ASSUME IInv, main # <<>>, main' = Tail(main), UNCHANGED <<small, freq>>
    PROVE  Work' < Work
<1> DEFINE h == Head(main)
<1>1. Len(small) \in Nat /\ Len(main) \in Nat /\ Len(main') = Len(main) - 1
  BY DEF IInv, TypeOK
<1>2. Elems(main)' = Elems(main) \ {h} /\ h \in Elems(main)
  BY PopMain DEF IInv
<1>3. Elems(main) \in SUBSET Entries /\ IsFiniteSet(Elems(main))
  BY ElemsType DEF IInv, TypeOK
<1> HIDE DEF h
<1>4. /\ Bytes(freq, FREQ_CAP, Elems(main)) \in Nat
      /\ Bytes(freq, FREQ_CAP, Elems(main) \ {h}) \in Nat
      /\ Bytes(freq, FREQ_CAP, Elems(main))
            = Bytes(freq, FREQ_CAP, Elems(main) \ {h}) + freq[h]
      /\ freq[h] \in Nat
  BY <1>2, <1>3, ChancesLost DEF IInv
<1>5. Bytes(freq, FREQ_CAP, Elems(main))' = Bytes(freq, FREQ_CAP, Elems(main) \ {h})
  BY <1>2
<1> QED BY <1>1, <1>4, <1>5, SMTT(40) DEF Work

(***************************************************************************)
(* A promoted entry has no second chance left, so it costs one in the main *)
(* queue where it cost two in the small one.                               *)
(***************************************************************************)
LEMMA PromoteProgresses == ASSUME IInv, Promote PROVE Work' < Work
<1> DEFINE h == Head(small)
           S == Elems(main)
<1>1. /\ h \in Entries /\ h \notin S /\ main \in Seq(Entries) /\ NoDup(main)
      /\ Len(small) \in Nat /\ Len(main) \in Nat
      /\ Len(small') = Len(small) - 1 /\ Len(main') = Len(main) + 1
      /\ main' = Append(main, h)
  <2>1. small # <<>> /\ small' = Tail(small) /\ main' = Append(main, h)
    BY DEF Promote, FromSmall
  <2>2. small \in Seq(Entries) /\ main \in Seq(Entries) /\ NoDup(main)
    BY DEF IInv, TypeOK, IndexMatchesQueues
  <2>3. h \in Entries /\ h \notin S
    BY <2>1, PopSmall DEF IInv
  <2> HIDE DEF h, S
  <2> QED BY <2>1, <2>2, <2>3
<1>2. S \in SUBSET Entries /\ IsFiniteSet(S) /\ FREQ_CAP \in Nat
  BY ElemsType, BudgetAssumption DEF IInv, TypeOK
<1>3. freq' = [freq EXCEPT ![h] = 0] /\ freq \in [Entries -> 0..FREQ_CAP]
  BY DEF Promote, IInv, TypeOK
<1> HIDE DEF h
<1>4. Elems(Append(main, h)) = S \cup {h}
  BY <1>1, PushBack
<1> HIDE DEF S
<1>5. freq'[h] = 0 /\ freq'[h] \in 0..FREQ_CAP /\ \A e \in S : freq[e] = freq'[e]
  BY <1>1, <1>2, <1>3
<1>6. Bytes(freq, FREQ_CAP, S) \in Nat
  BY <1>2, BytesType
<1>7. Bytes(freq, FREQ_CAP, S) = Bytes(freq', FREQ_CAP, S)
  BY <1>2, <1>5, BytesSame
<1>8. Bytes(freq', FREQ_CAP, S \cup {h}) = Bytes(freq', FREQ_CAP, S) + freq'[h]
  <2> DEFINE g == freq'
             T == S \cup {h}
  <2>1. g[h] \in 0..FREQ_CAP /\ T = S \cup {h}
    BY <1>5
  <2> HIDE DEF g, T
  <2>2. Bytes(g, FREQ_CAP, T) = Bytes(g, FREQ_CAP, S) + g[h]
    BY <1>1, <1>2, <2>1, BytesAdd
  <2> QED BY <2>2 DEF g, T
<1>9. Bytes(freq, FREQ_CAP, Elems(main))' = Bytes(freq, FREQ_CAP, S)
  BY <1>1, <1>4, <1>5, <1>6, <1>7, <1>8, SMTT(40)
<1> QED BY <1>1, <1>6, <1>9 DEF Work, S

(***************************************************************************)
(* A second chance is used up.                                             *)
(***************************************************************************)
LEMMA SecondChanceProgresses == ASSUME IInv, SecondChance PROVE Work' < Work
<1> DEFINE h == Head(main)
           S == Elems(main)
           t == Tail(main)
<1>1. /\ h \in Entries /\ h \in S /\ t \in Seq(Entries) /\ NoDup(t)
      /\ Elems(t) = S \ {h}
      /\ Len(small) \in Nat /\ Len(main) \in Nat /\ Len(t) = Len(main) - 1
      /\ main' = Append(t, h) /\ small' = small
  <2>1. /\ main # <<>> /\ main' = Append(t, h) /\ small' = small
        /\ TypeOK /\ IndexMatchesQueues
    BY Zenon DEF SecondChance, FromMain, IInv
  <2>2. /\ h \in Entries /\ h \in S /\ t \in Seq(Entries) /\ NoDup(t)
        /\ Elems(t) = S \ {h}
    BY <2>1, PopMain, Zenon
  <2>3. small \in Seq(Entries) /\ main \in Seq(Entries)
    BY <2>1 DEF TypeOK
  <2>4. Len(small) \in Nat /\ Len(main) \in Nat /\ Len(t) = Len(main) - 1
    BY ONLY <2>1, <2>3
  <2> QED BY <2>1, <2>2, <2>4, Zenon
<1>2. S \in SUBSET Entries /\ IsFiniteSet(S) /\ FREQ_CAP \in Nat
  BY ElemsType, BudgetAssumption DEF IInv, TypeOK
<1>3. /\ freq' = [freq EXCEPT ![h] = freq[h] - 1] /\ freq \in [Entries -> 0..FREQ_CAP]
      /\ freq[h] > 0
  BY DEF SecondChance, IInv, TypeOK
<1> HIDE DEF h, t
<1>4. Elems(Append(t, h)) = (S \ {h}) \cup {h} /\ Len(Append(t, h)) = Len(main)
  BY <1>1, PushBack
<1> HIDE DEF S
<1>5. /\ freq'[h] = freq[h] - 1 /\ freq'[h] \in 0..FREQ_CAP /\ freq[h] \in Nat
      /\ \A e \in S \ {h} : freq[e] = freq'[e]
  BY <1>1, <1>2, <1>3
<1>6. /\ Bytes(freq, FREQ_CAP, S) \in Nat /\ Bytes(freq, FREQ_CAP, S \ {h}) \in Nat
      /\ Bytes(freq, FREQ_CAP, S) = Bytes(freq, FREQ_CAP, S \ {h}) + freq[h]
  BY <1>1, <1>2, ChancesLost DEF IInv
<1>7. Bytes(freq, FREQ_CAP, S \ {h}) = Bytes(freq', FREQ_CAP, S \ {h})
  BY <1>2, <1>5, BytesSame
<1>8. IsFiniteSet(S \ {h}) /\ h \notin S \ {h} /\ S = (S \ {h}) \cup {h}
  BY <1>1, <1>2, FS_RemoveElement
<1>9. Bytes(freq', FREQ_CAP, S) = Bytes(freq', FREQ_CAP, S \ {h}) + freq'[h]
  BY <1>2, <1>5, <1>8, BytesAdd
<1>10. Bytes(freq, FREQ_CAP, Elems(main))' = Bytes(freq', FREQ_CAP, S)
  BY <1>1, <1>4, <1>8
<1>11. Bytes(freq', FREQ_CAP, S) = Bytes(freq, FREQ_CAP, S) - 1
  BY <1>5, <1>6, <1>7, <1>9
<1> QED BY <1>1, <1>4, <1>6, <1>10, <1>11 DEF Work, S

(***************************************************************************)
(* Every turn of the eviction loop uses up work.                           *)
(***************************************************************************)
LEMMA EvictUsesWork == ASSUME IInv, Evict PROVE Work' < Work
<1>1. CASE DropDeadSmall
  BY <1>1, SmallHeadGone DEF DropDeadSmall, FromSmall
<1>2. CASE Promote
  BY <1>2, PromoteProgresses
<1>3. CASE EvictSmall
  BY <1>3, SmallHeadGone DEF EvictSmall, FromSmall
<1>4. CASE DropDeadMain
  BY <1>4, MainHeadGone DEF DropDeadMain, FromMain
<1>5. CASE SecondChance
  BY <1>5, SecondChanceProgresses
<1>6. CASE EvictMain
  BY <1>6, MainHeadGone DEF EvictMain, FromMain
<1> QED BY <1>1, <1>2, <1>3, <1>4, <1>5, <1>6 DEF Evict
=============================================================================
