-------------------------- MODULE S3FifoRefinement --------------------------
(***************************************************************************)
(* S3Fifo implements LossyCache, for every value of the constants.         *)
(***************************************************************************)
EXTENDS S3FifoProofs

(***************************************************************************)
(* The refinement mapping of S3Fifo!Promise, by name.                      *)
(***************************************************************************)
Stored == [k \in Keys |-> IF index[k] = None THEN None
                          ELSE [v |-> index[k], c |-> cost[index[k]]]]
PendingKey == IF Locked THEN key[op.e] ELSE None

(***************************************************************************)
(* The entries the index holds.                                            *)
(***************************************************************************)
Held == Live(Queued) \cup (IF Locked THEN {op.e} ELSE {})

SizeOf == [k \in Keys |-> IF index[k] = None THEN 0 ELSE cost[index[k]]]

(***************************************************************************)
(* The bytes a client can find are those charged plus those pending.       *)
(***************************************************************************)
LEMMA HeldBytes ==
    ASSUME IInv
    PROVE  Bytes(SizeOf, Capacity, Keys) = used + (IF Locked THEN cost[op.e] ELSE 0)
<1> USE DEF IInv
<1> DEFINE A == Cells(cost, Capacity, Held)
           B == Cells(SizeOf, Capacity, Keys)
           f == [p \in A |-> <<key[p[1]], p[2]>>]
<1>1. \A e \in Held : e \in Entries /\ key[e] \in Keys /\ index[key[e]] = e
  BY QueuedFinite DEF Held, PendingEntry, IndexMatchesQueues, Live
<1>2. \A k \in Keys : index[k] # None => index[k] \in Held /\ key[index[k]] = k
  BY DEF Held, IndexMatchesQueues, Live, Locked
<1>3. \A k \in Keys : SizeOf[k] = IF index[k] = None THEN 0 ELSE cost[index[k]]
  BY DEF SizeOf
<1>4. Capacity \in Nat /\ None \notin Entries
  BY BudgetAssumption, NoneAssumption
<1>5. f \in [A -> B]
  <2> SUFFICES ASSUME NEW p \in A PROVE <<key[p[1]], p[2]>> \in B
    OBVIOUS
  <2>1. p[1] \in Held /\ p[2] \in 1..Capacity /\ p[2] <= cost[p[1]]
    BY DEF Cells
  <2>2. key[p[1]] \in Keys /\ SizeOf[key[p[1]]] = cost[p[1]]
    BY <1>1, <1>3, <1>4, <2>1
  <2> QED BY <2>1, <2>2 DEF Cells
<1>6. ASSUME NEW p \in A, NEW q \in A, f[p] = f[q] PROVE p = q
  <2>1. key[p[1]] = key[q[1]] /\ p[2] = q[2]
    BY <1>6
  <2>2. p[1] \in Held /\ q[1] \in Held /\ p = <<p[1], p[2]>> /\ q = <<q[1], q[2]>>
    BY DEF Cells
  <2>3. p[1] = q[1]
    BY <1>1, <2>1, <2>2
  <2> QED BY <2>1, <2>2, <2>3
<1>7. ASSUME NEW b \in B PROVE \E p \in A : f[p] = b
  <2>1. b[1] \in Keys /\ b[2] \in 1..Capacity /\ b[2] <= SizeOf[b[1]] /\ b = <<b[1], b[2]>>
    BY DEF Cells
  <2>2. index[b[1]] # None /\ SizeOf[b[1]] = cost[index[b[1]]]
    BY <1>3, <1>4, <2>1
  <2>3. index[b[1]] \in Held /\ key[index[b[1]]] = b[1]
    BY <1>2, <2>1, <2>2
  <2>4. <<index[b[1]], b[2]>> \in A
    BY <2>1, <2>2, <2>3 DEF Cells
  <2>5. f[<<index[b[1]], b[2]>>] = b
    BY <2>1, <2>3, <2>4
  <2> QED BY <2>4, <2>5
<1>8. ExistsBijection(A, B)
  <2> HIDE DEF A, B, f
  <2>1. f \in Bijection(A, B)
    BY <1>5, <1>6, <1>7 DEF Bijection, Injection, Surjection, IsInjective
  <2> QED BY <2>1 DEF ExistsBijection
<1>9. IsFiniteSet(Live(Queued)) /\ IsFiniteSet(Held)
  <2>1. IsFiniteSet(Live(Queued))
    BY QueuedFinite
  <2>2. CASE Locked
    BY <2>1, <2>2, FS_AddElement DEF Held
  <2>3. CASE ~Locked
    BY <2>1, <2>3 DEF Held
  <2> QED BY <2>1, <2>2, <2>3
<1>10. BytesOf(Held) = used + (IF Locked THEN cost[op.e] ELSE 0)
  <2>1. used \in Nat /\ used = BytesOf(Live(Queued))
    BY DEF TypeOK, Accounting
  <2>2. CASE Locked
    <3>1. op.e \in Entries /\ op.e \notin Live(Queued) /\ Held = Live(Queued) \cup {op.e}
      BY <2>2 DEF PendingEntry, Live, Held
    <3> QED BY <1>9, <2>1, <2>2, <3>1, Count
  <2>3. CASE ~Locked
    <3>1. Held = Live(Queued)
      BY <2>3 DEF Held
    <3> QED BY <2>1, <2>3, <3>1
  <2> QED BY <2>2, <2>3
<1>11. IsFiniteSet(A)
  BY <1>4, <1>9, BytesType
<1>12. Cardinality(B) = Cardinality(A)
  <2> HIDE DEF A, B
  <2> QED BY <1>8, <1>11, FS_Bijection
<1> QED BY <1>10, <1>12 DEF Bytes, BytesOf

(***************************************************************************)
(* So LossyCache's Total is the bytes held.                                *)
(***************************************************************************)
LEMMA MappedTotal ==
    ASSUME IInv
    PROVE  Promise!Total = used + (IF Locked THEN cost[op.e] ELSE 0)
<1>1. \A k \in Keys : Promise!size(k) = SizeOf[k]
  <2> SUFFICES ASSUME NEW k \in Keys PROVE Promise!size(k) = SizeOf[k]
    OBVIOUS
  <2>1. CASE index[k] = None
    BY <2>1 DEF Promise!size, SizeOf
  <2>2. CASE index[k] # None
    <3> DEFINE rec == [v |-> index[k], c |-> cost[index[k]]]
    <3>1. rec \in [v : Entries, c : 0..Capacity]
      BY <2>2 DEF IInv, TypeOK
    <3>2. rec # None
      BY <3>1, NoneAssumption
    <3> QED BY <2>2, <3>2 DEF Promise!size, SizeOf
  <2> QED BY <2>1, <2>2
<1>2. [k \in Keys |-> Promise!size(k)] = SizeOf
  BY <1>1 DEF SizeOf
<1>3. Promise!Total = Bytes(SizeOf, Capacity, Keys)
  <2> DEFINE sz == [k \in Keys |-> Promise!size(k)]
  <2>1. Promise!Total = Promise!Bytes(sz, Capacity, Keys)
    BY DEF Promise!Total
  <2> HIDE DEF sz
  <2>2. Promise!Cells(sz, Capacity, Keys) = Cells(sz, Capacity, Keys)
    BY DEF Promise!Cells, Cells
  <2>3. \A T : Promise!Cardinality(T) = Cardinality(T)
    BY Zenon DEF Promise!Cardinality, Cardinality, Promise!IsFiniteSet, IsFiniteSet
  <2>4. Promise!Total = Bytes(sz, Capacity, Keys)
    BY <2>1, <2>2, <2>3 DEF Promise!Bytes, Bytes
  <2> QED BY <1>2, <2>4 DEF sz
<1> QED BY <1>3, HeldBytes

(***************************************************************************)
(* What the index holds for a key is a record, never None.                 *)
(***************************************************************************)
LEMMA StoredSomething ==
    ASSUME IInv, NEW k \in Keys
    PROVE  /\ Stored[k] = IF index[k] = None THEN None
                          ELSE [v |-> index[k], c |-> cost[index[k]]]
           /\ Stored[k] = None <=> index[k] = None
<1>1. Stored[k] = IF index[k] = None THEN None ELSE [v |-> index[k], c |-> cost[index[k]]]
  BY DEF Stored
<1>2. index[k] # None =>
        [v |-> index[k], c |-> cost[index[k]]] \in [v : Entries, c : 0..Capacity]
  BY DEF IInv, TypeOK
<1> QED BY <1>1, <1>2, NoneAssumption

(***************************************************************************)
(* A step that changes neither index, costs, mutex nor counter is          *)
(* invisible.                                                              *)
(***************************************************************************)
LEMMA InvisibleStep ==
    ASSUME UNCHANGED <<index, key, cost, op, evictions>>
    PROVE  UNCHANGED Promise!svars
<1>1. Stored' = Stored /\ PendingKey' = PendingKey
  BY DEF Stored, PendingKey, Locked
<1> QED BY <1>1 DEF Promise!svars, Stored, PendingKey

(***************************************************************************)
(* The beginning of set is LossyCache's Put.                               *)
(***************************************************************************)
LEMMA SetIsPut ==
    ASSUME IInv, NEW k \in Keys, NEW c \in Costs, NEW e \in Entries, Set(k, c, e)
    PROVE  Promise!Put(k, e, c)
<1> USE DEF IInv
<1>1. /\ ~Locked /\ c <= Capacity /\ e \notin Queued
      /\ op'.e = e
      /\ index' = [index EXCEPT ![k] = e]
      /\ key' = [key EXCEPT ![e] = k] /\ cost' = [cost EXCEPT ![e] = c]
      /\ UNCHANGED evictions
  BY DEF Set, Unused
<1>2. /\ index \in [Keys -> Entries \cup {None}] /\ key \in [Entries -> Keys \cup {None}]
      /\ cost \in [Entries -> 0..Capacity]
  BY DEF TypeOK
<1>3. PendingKey = None /\ PendingKey' = k
  BY <1>1, <1>2, NoneAssumption DEF PendingKey, Locked
<1>4. Stored' = [Stored EXCEPT ![k] = [v |-> e, c |-> c]]
  <2>1. ASSUME NEW j \in Keys, j # k PROVE Stored'[j] = Stored[j]
    <3>1. index'[j] = index[j]
      BY <1>1, <1>2, <2>1
    <3>2. CASE index[j] = None
      BY <3>1, <3>2 DEF Stored
    <3>3. CASE index[j] # None
      <4>1. index[j] \in Queued /\ index[j] \in Entries
        BY <1>1, <1>2, <3>3 DEF IndexMatchesQueues, Locked
      <4>2. cost'[index[j]] = cost[index[j]]
        BY <1>1, <1>2, <4>1
      <4> QED BY <3>1, <3>3, <4>2 DEF Stored
    <3> QED BY <3>2, <3>3
  <2>2. Stored'[k] = [v |-> e, c |-> c]
    BY <1>1, <1>2, NoneAssumption DEF Stored
  <2>3. Stored' = [j \in Keys |-> Stored'[j]] /\ Stored = [j \in Keys |-> Stored[j]]
    BY DEF Stored
  <2> HIDE DEF Stored
  <2> QED BY <2>1, <2>2, <2>3
<1> QED BY <1>1, <1>3, <1>4 DEF Promise!Put, Stored, PendingKey

(***************************************************************************)
(* Throwing out a live entry is LossyCache's Lose of its key.              *)
(***************************************************************************)
LEMMA ThrowOutIsLose ==
    ASSUME IInv, MustEvict, NEW h \in Live(Queued), ThrowOut(h), UNCHANGED <<key, cost, op>>
    PROVE  \E k \in Keys : Promise!Lose(k)
<1> USE DEF IInv
<1>1. /\ h \in Entries /\ key[h] \in Keys /\ index[key[h]] = h
      /\ index' = [index EXCEPT ![key[h]] = None] /\ h # op.e
  BY ThrowOutEffect
<1>2. Locked /\ PendingKey = key[op.e] /\ PendingKey' = PendingKey
  BY DEF MustEvict, PendingKey, Locked
<1>3. PendingKey \in Keys /\ PendingKey # None /\ key[h] # PendingKey
  BY <1>1, <1>2, NoneAssumption DEF PendingEntry
<1>4. Promise!Total > Capacity
  BY <1>2, MappedTotal DEF MustEvict
<1>5. Stored[key[h]] # None
  BY <1>1, StoredSomething, NoneAssumption
<1>6. Stored' = [Stored EXCEPT ![key[h]] = None]
  <2>1. index \in [Keys -> Entries \cup {None}]
    BY DEF TypeOK
  <2>2. \A j \in Keys : index'[j] = IF j = key[h] THEN None ELSE index[j]
    BY <1>1, <2>1
  <2>3. \A j \in Keys : Stored'[j] = IF j = key[h] THEN None ELSE Stored[j]
    BY <2>2 DEF Stored
  <2>4. Stored' = [j \in Keys |-> Stored'[j]] /\ Stored = [j \in Keys |-> Stored[j]]
    BY DEF Stored
  <2> HIDE DEF Stored
  <2> QED BY <2>3, <2>4
<1>7. evictions' = (evictions + 1) % CounterWrap
  BY DEF ThrowOut
<1>8. PICK k \in Keys : k = key[h]
  BY <1>1
<1>9. Promise!Lose(k)
  BY <1>2, <1>3, <1>4, <1>5, <1>6, <1>7, <1>8 DEF Promise!Lose, Stored, PendingKey
<1> QED BY <1>9

(***************************************************************************)
(* The end of set is LossyCache's Fit: whatever way the loop ended, the    *)
(* entry fits.                                                             *)
(***************************************************************************)
LEMMA FinishSetIsFit ==
    ASSUME IInv, IInv', FinishSet
    PROVE  Promise!Fit
<1> USE DEF IInv
<1>1. /\ Locked /\ UNCHANGED <<index, key, cost, evictions>> /\ op' = Unlocked
      /\ used' = used + cost[op.e]
  BY DEF FinishSet, entry
<1>2. PendingKey = key[op.e] /\ PendingKey \in Keys /\ PendingKey' = None
  BY <1>1 DEF PendingKey, PendingEntry, Locked, Unlocked
<1>3. Promise!Total <= Capacity
  <2>1. used' <= Capacity
    BY DEF WithinBudget
  <2> QED BY <1>1, <2>1, MappedTotal
<1>4. Stored' = Stored
  BY <1>1 DEF Stored
<1> QED BY <1>1, <1>2, <1>3, <1>4, NoneAssumption DEF Promise!Fit, Stored, PendingKey

LEMMA DelIsRemove ==
    ASSUME IInv, NEW k \in Keys, Del(k)
    PROVE  Promise!Remove(k)
<1> USE DEF IInv
<1>1. /\ ~Locked /\ index[k] # None /\ index' = [index EXCEPT ![k] = None]
      /\ UNCHANGED <<key, cost, evictions, op>>
  BY DEF Del, entry
<1>2. PendingKey = None /\ PendingKey' = None
  BY <1>1 DEF PendingKey, Locked
<1>3. Stored[k] # None
  BY <1>1, StoredSomething
<1>4. Stored' = [Stored EXCEPT ![k] = None]
  <2>1. index \in [Keys -> Entries \cup {None}]
    BY DEF TypeOK
  <2>2. \A j \in Keys : index'[j] = IF j = k THEN None ELSE index[j]
    BY <1>1, <2>1
  <2>3. \A j \in Keys : Stored'[j] = IF j = k THEN None ELSE Stored[j]
    BY <1>1, <2>2 DEF Stored
  <2>4. Stored' = [j \in Keys |-> Stored'[j]] /\ Stored = [j \in Keys |-> Stored[j]]
    BY DEF Stored
  <2> HIDE DEF Stored
  <2> QED BY <2>3, <2>4
<1> QED BY <1>1, <1>2, <1>3, <1>4 DEF Promise!Remove, Stored, PendingKey

(***************************************************************************)
(* The shard keeps LossyCache's promise: what a client sees of it is a map *)
(* that loses an entry only to make room for the one being set, never that *)
(* one, only while the total exceeds the capacity, and counts every loss.  *)
(***************************************************************************)
THEOREM Refinement == Spec => ImplementsLossyCache
<1>1. Init => Promise!Init
  <2> SUFFICES ASSUME Init PROVE Promise!Init
    OBVIOUS
  <2>1. Stored = [k \in Keys |-> None] /\ PendingKey = None /\ evictions = 0
    BY DEF Init, Stored, PendingKey, Locked, Unlocked
  <2> QED BY <2>1 DEF Promise!Init, Stored, PendingKey
<1>2. IInv /\ IInv' /\ [Next]_vars => [Promise!Next]_(Promise!svars)
  <2> SUFFICES ASSUME IInv, IInv', [Next]_vars
               PROVE  Promise!Next \/ UNCHANGED Promise!svars
    OBVIOUS
  <2>1. CASE \E k \in Keys, c \in Costs, e \in Entries : Set(k, c, e)
    BY <2>1, SetIsPut DEF Promise!Next
  <2>2. CASE Evict
    <3>1. CASE DropDeadSmall \/ Promote \/ DropDeadMain \/ SecondChance
      BY <3>1, InvisibleStep DEF DropDeadSmall, Promote, DropDeadMain, SecondChance, entry
    <3>2. CASE EvictSmall
      <4>1. Head(small) \in Live(Queued) /\ MustEvict /\ ThrowOut(Head(small))
        BY <3>2, PopSmall DEF EvictSmall, FromSmall, Live, Queued, IInv
      <4>2. UNCHANGED <<key, cost, op>>
        BY <3>2 DEF EvictSmall, entry
      <4>3. \E k \in Keys : Promise!Lose(k)
        BY <4>1, <4>2, ThrowOutIsLose
      <4> QED BY <4>3 DEF Promise!Next
    <3>3. CASE EvictMain
      <4>1. Head(main) \in Live(Queued) /\ MustEvict /\ ThrowOut(Head(main))
        BY <3>3, PopMain DEF EvictMain, FromMain, Live, Queued, IInv
      <4>2. UNCHANGED <<key, cost, op>>
        BY <3>3 DEF EvictMain, entry
      <4>3. \E k \in Keys : Promise!Lose(k)
        BY <4>1, <4>2, ThrowOutIsLose
      <4> QED BY <4>3 DEF Promise!Next
    <3> QED BY <2>2, <3>1, <3>2, <3>3 DEF Evict
  <2>3. CASE FinishSet
    BY <2>3, FinishSetIsFit DEF Promise!Next
  <2>4. CASE \E k \in Keys : Del(k)
    BY <2>4, DelIsRemove DEF Promise!Next
  <2>5. CASE \E r \in Readers : Touch(r) \/ \E k \in Keys : Get(r, k)
    BY <2>5, InvisibleStep DEF Touch, Get, entry
  <2>6. CASE UNCHANGED vars
    BY <2>6, InvisibleStep DEF vars, entry
  <2> QED BY <2>1, <2>2, <2>3, <2>4, <2>5, <2>6 DEF Next
<1> QED BY <1>1, <1>2, Invariance, PTL DEF Spec, Promise!Spec, ImplementsLossyCache
=============================================================================
