---------------------------- MODULE S3FifoProofs ----------------------------
(***************************************************************************)
(* The invariants of S3Fifo, for every set of keys, entries and readers    *)
(* and every budget.                                                       *)
(***************************************************************************)
EXTENDS S3FifoEvictProofs

(***************************************************************************)
(* Initially everything is empty.                                          *)
(***************************************************************************)
LEMMA InitIInv == ASSUME Init PROVE IInv
<1>1. /\ small = <<>> /\ main = <<>> /\ Elems(small) = {} /\ Elems(main) = {}
      /\ Len(small) = 0 /\ Len(main) = 0
  BY DEF Init, Elems
<1>2. Queued = {} /\ Live(Queued) = {} /\ Dead(Queued) = {} /\ ~Locked
  BY <1>1 DEF Init, Queued, Live, Dead, Locked, Unlocked
<1>3. TypeOK
  BY <1>1, BudgetAssumption, NoneAssumption DEF Init, TypeOK, Unlocked, NotTouching
<1>4. BytesOf({}) = 0
  BY BytesOfNone, BudgetAssumption DEF BytesOf
<1>5. Accounting
  BY <1>1, <1>2, <1>4 DEF Accounting, Init
<1>6. dead_capacity \in Nat
  BY BudgetAssumption DEF dead_capacity
<1>7. WithinBudget
  BY <1>6, BudgetAssumption DEF WithinBudget, Init
<1>8. IndexMatchesQueues
  BY <1>1, <1>2 DEF IndexMatchesQueues, NoDup, Init
<1> QED BY <1>2, <1>3, <1>5, <1>7, <1>8
        DEF IInv, PendingEntry, ReplaceKeepsNeighbours, GhostTracked, Init

(***************************************************************************)
(* maybe_compact: with or without a compaction, the live entries stay      *)
(* queued, the counters match the queues, and the dead fit their share.    *)
(***************************************************************************)
LEMMA CompactEffect ==
    ASSUME TypeOK, NEW s \in Seq(Entries), NEW m \in Seq(Entries), NoDup(s), NoDup(m),
           Elems(s) \cap Elems(m) = {},
           NEW lv \in [Entries -> BOOLEAN], NEW sb \in Nat, NEW db \in Nat,
           sb = BytesOf(Elems(s)),
           db = BytesOf({e \in Elems(s) \cup Elems(m) : ~lv[e]}),
           maybe_compact(s, m, sb, db, lv)
    PROVE  /\ small' \in Seq(Entries) /\ main' \in Seq(Entries)
           /\ NoDup(small') /\ NoDup(main')
           /\ Elems(small') \cap Elems(main') = {}
           /\ Queued' \in SUBSET (Elems(s) \cup Elems(m))
           /\ \A e \in Elems(s) \cup Elems(m) : lv[e] => e \in Queued'
           /\ small_bytes' \in Nat /\ small_bytes' = BytesOf(Elems(small'))
           /\ dead_bytes' \in Nat /\ dead_bytes' = BytesOf({e \in Queued' : ~lv[e]})
           /\ dead_bytes' <= dead_capacity
<1>0. Capacity \in Nat /\ dead_capacity \in Nat
  BY BudgetAssumption DEF dead_capacity
<1>1. CASE db <= dead_capacity
  BY <1>1 DEF maybe_compact, Queued
<1>2. CASE ~(db <= dead_capacity)
  <2> DEFINE alive == {e \in Entries : lv[e]}
  <2>1. /\ small' = Keep(s, alive) /\ main' = Keep(m, alive)
        /\ small_bytes' = BytesOf(Elems(Keep(s, alive))) /\ dead_bytes' = 0
    BY <1>2 DEF maybe_compact
  <2>2. /\ small' \in Seq(Entries) /\ NoDup(small') /\ Elems(small') = Elems(s) \cap alive
        /\ main' \in Seq(Entries) /\ NoDup(main') /\ Elems(main') = Elems(m) \cap alive
    <3> HIDE DEF alive
    <3> QED BY <2>1, KeepFilters
  <2>3. Queued' = (Elems(s) \cup Elems(m)) \cap alive
    BY <2>2 DEF Queued
  <2>4. {e \in Queued' : ~lv[e]} = {}
    BY <2>3
  <2>5. BytesOf({e \in Queued' : ~lv[e]}) = 0
    BY <1>0, <2>4, BytesOfNone DEF BytesOf
  <2>6. Elems(s) \in SUBSET Entries /\ Elems(m) \in SUBSET Entries
    BY ElemsType
  <2>7. \A e \in Elems(s) \cup Elems(m) : lv[e] => e \in Queued'
    BY <2>3, <2>6
  <2>8. small_bytes' \in Nat /\ small_bytes' = BytesOf(Elems(small'))
    <3>1. IsFiniteSet(Elems(small'))
      BY <2>2, ElemsType
    <3>2. BytesOf(Elems(small')) \in Nat
      BY <1>0, <3>1, BytesType DEF BytesOf
    <3> QED BY <2>1, <3>2
  <2> HIDE DEF alive
  <2> QED BY <1>0, <2>1, <2>2, <2>3, <2>5, <2>7, <2>8
<1> QED BY <1>1, <1>2

(***************************************************************************)
(* The end of SET: the pending entry is charged and queued.  s and m are   *)
(* the queues with it.                                                     *)
(***************************************************************************)
LEMMA EnqueueStep ==
    ASSUME IInv, FinishSet, NEW s \in Seq(Entries), NEW m \in Seq(Entries), NEW sb \in Nat,
           NoDup(s), NoDup(m), Elems(s) \cap Elems(m) = {},
           Elems(s) \cup Elems(m) = Queued \cup {op.e},
           sb = BytesOf(Elems(s)), maybe_compact(s, m, sb, dead_bytes, live)
    PROVE  IInv'
<1> USE DEF IInv
<1> DEFINE Q == Queued \cup {op.e}
<1>1. /\ Locked /\ op.e \in Entries /\ op.e \notin Queued /\ live[op.e]
      /\ key[op.e] \in Keys /\ index[key[op.e]] = op.e
  BY DEF FinishSet, PendingEntry
<1>2. /\ UNCHANGED <<index, key, cost, freq, live, order, evictions, reader>>
      /\ used' = used + cost[op.e] /\ op' = Unlocked /\ ghosts' = ghosts \ {key[op.e]}
      /\ ~Locked'
  BY DEF FinishSet, entry, Locked, Unlocked
<1>3. live \in [Entries -> BOOLEAN] /\ dead_bytes \in Nat /\ Queued \in SUBSET Entries
  BY QueuedFinite DEF TypeOK
<1>4. {e \in Elems(s) \cup Elems(m) : ~live[e]} = Dead(Queued)
  BY <1>1 DEF Dead
<1>5. dead_bytes = BytesOf({e \in Elems(s) \cup Elems(m) : ~live[e]})
  BY <1>4 DEF Accounting
<1>6. /\ small' \in Seq(Entries) /\ main' \in Seq(Entries)
      /\ NoDup(small') /\ NoDup(main')
      /\ Elems(small') \cap Elems(main') = {}
      /\ Queued' \in SUBSET (Elems(s) \cup Elems(m))
      /\ \A e \in Elems(s) \cup Elems(m) : live[e] => e \in Queued'
      /\ small_bytes' \in Nat /\ small_bytes' = BytesOf(Elems(small'))
      /\ dead_bytes' \in Nat /\ dead_bytes' = BytesOf({e \in Queued' : ~live[e]})
      /\ dead_bytes' <= dead_capacity
  BY <1>3, <1>5, CompactEffect
<1>7. /\ Live(Queued)' = Live(Queued) \cup {op.e}
      /\ Dead(Queued)' = {e \in Queued' : ~live[e]}
      /\ op.e \notin Live(Queued)
  BY <1>1, <1>2, <1>3, <1>6 DEF Live, Dead
<1>8. BytesOf(Live(Queued) \cup {op.e}) = used + cost[op.e]
  BY <1>1, <1>7, QueuedFinite, Count DEF Accounting
<1>9. Accounting'
  <2>1. used' = BytesOf(Live(Queued))'
    BY <1>2, <1>7, <1>8 DEF BytesOf
  <2>2. small_bytes' = BytesOf(Elems(small))' /\ dead_bytes' = BytesOf(Dead(Queued))'
    BY <1>2, <1>6, <1>7 DEF BytesOf
  <2> QED BY <2>1, <2>2 DEF Accounting
<1>10. used \in Nat /\ cost[op.e] \in 0..Capacity /\ Capacity \in Nat
  BY <1>1, BudgetAssumption DEF TypeOK
<1>11. used + cost[op.e] <= Capacity
  <2>1. CASE ~MustEvict
    BY <1>1, <1>10, <2>1 DEF MustEvict
  <2>2. CASE small = <<>> /\ main = <<>>
    <3>1. Live(Queued) = {}
      BY <2>2 DEF Live, Queued, Elems
    <3>2. used = 0
      BY <1>10, <3>1, BytesOfNone DEF Accounting, BytesOf
    <3> QED BY <1>10, <3>2
  <2> QED BY <2>1, <2>2 DEF FinishSet
<1>12. WithinBudget' /\ ReplaceKeepsNeighbours' /\ PendingEntry'
  BY <1>2, <1>6, <1>11 DEF WithinBudget, ReplaceKeepsNeighbours, PendingEntry
<1>13. GhostTracked'
  BY <1>2 DEF GhostTracked
<1>14. TypeOK'
  <2>1. op' \in [e : Entries \cup {None}, freed : Nat] /\ used' \in Nat
    BY <1>2, <1>10 DEF Unlocked
  <2> QED BY <1>2, <1>6, <2>1 DEF TypeOK
<1>15. IndexMatchesQueues'
  <2>1. ASSUME NEW k \in Keys, index'[k] # None
        PROVE  live'[index'[k]] /\ key'[index'[k]] = k /\ index'[k] \in Queued'
    <3>1. live[index[k]] /\ key[index[k]] = k /\ (index[k] \in Queued \/ index[k] = op.e)
      BY <1>2, <2>1 DEF IndexMatchesQueues
    <3> QED BY <1>2, <1>6, <3>1
  <2>2. \A e \in Live(Queued)' : key'[e] \in Keys /\ index'[key'[e]] = e
    BY <1>1, <1>2, <1>7 DEF IndexMatchesQueues
  <2> QED BY <1>6, <2>1, <2>2 DEF IndexMatchesQueues
<1> QED BY <1>9, <1>12, <1>13, <1>14, <1>15

LEMMA FinishSetStep == ASSUME IInv, FinishSet PROVE IInv'
<1> USE DEF IInv
<1>1. Locked /\ op.e \in Entries /\ op.e \notin Elems(small) /\ op.e \notin Elems(main)
  BY DEF FinishSet, PendingEntry, Queued
<1>2. /\ small \in Seq(Entries) /\ main \in Seq(Entries) /\ NoDup(small) /\ NoDup(main)
      /\ Elems(small) \cap Elems(main) = {}
      /\ small_bytes \in Nat /\ cost[op.e] \in Nat /\ small_bytes = BytesOf(Elems(small))
  BY <1>1 DEF TypeOK, IndexMatchesQueues, Accounting
<1>3. CASE key[op.e] \in ghosts
  <2> DEFINE m == Append(main, op.e)
  <2>1. m \in Seq(Entries) /\ NoDup(m) /\ Elems(m) = Elems(main) \cup {op.e}
    <3> DEFINE x == op.e
    <3>1. x \in Entries /\ x \notin Elems(main)
      BY <1>1
    <3> HIDE DEF x
    <3>2. /\ Append(main, x) \in Seq(Entries) /\ NoDup(Append(main, x))
          /\ Elems(Append(main, x)) = Elems(main) \cup {x}
      BY <1>2, <3>1, PushBack, SMTT(40)
    <3> QED BY <3>2 DEF x
  <2>2. maybe_compact(small, m, small_bytes, dead_bytes, live)
    BY <1>3 DEF FinishSet
  <2> HIDE DEF m
  <2>3. Elems(small) \cap Elems(m) = {} /\ Elems(small) \cup Elems(m) = Queued \cup {op.e}
    BY <1>1, <1>2, <2>1 DEF Queued
  <2> QED BY <1>2, <2>1, <2>2, <2>3, EnqueueStep
<1>4. CASE key[op.e] \notin ghosts
  <2> DEFINE s == Append(small, op.e)
             sb == small_bytes + cost[op.e]
  <2>1. s \in Seq(Entries) /\ NoDup(s) /\ Elems(s) = Elems(small) \cup {op.e}
    <3> DEFINE x == op.e
    <3>1. x \in Entries /\ x \notin Elems(small)
      BY <1>1
    <3> HIDE DEF x
    <3>2. /\ Append(small, x) \in Seq(Entries) /\ NoDup(Append(small, x))
          /\ Elems(Append(small, x)) = Elems(small) \cup {x}
      BY <1>2, <3>1, PushBack
    <3> QED BY <3>2 DEF x
  <2>2. maybe_compact(s, main, sb, dead_bytes, live) /\ sb \in Nat
    BY <1>2, <1>4 DEF FinishSet
  <2>3. sb = BytesOf(Elems(s))
    BY <1>1, <1>2, <2>1, QueuedFinite, Count
  <2> HIDE DEF s, sb
  <2>4. Elems(s) \cap Elems(main) = {} /\ Elems(s) \cup Elems(main) = Queued \cup {op.e}
    BY <1>1, <1>2, <2>1 DEF Queued
  <2> QED BY <1>2, <2>1, <2>2, <2>3, <2>4, EnqueueStep
<1> QED BY <1>3, <1>4

(***************************************************************************)
(* A live entry of the index, when no SET is running, is charged to used,  *)
(* and killing it moves its bytes to the dead.                             *)
(***************************************************************************)
LEMMA KillEffect ==
    ASSUME IInv, ~Locked, NEW k \in Keys, index[k] # None
    PROVE  LET old == index[k]
           IN  /\ old \in Entries /\ old \in Live(Queued) /\ key[old] = k
               /\ cost[old] \in Nat /\ cost[old] <= used
               /\ BytesOf(Live(Queued) \ {old}) = used - cost[old]
               /\ BytesOf(Dead(Queued) \cup {old}) = dead_bytes + cost[old]
<1> USE DEF IInv
<1> DEFINE old == index[k]
<1>1. old \in Entries /\ live[old] /\ key[old] = k /\ old \in Queued
  BY DEF TypeOK, IndexMatchesQueues, Locked
<1>2. old \in Live(Queued) /\ old \notin Dead(Queued) /\ cost[old] \in Nat
  BY <1>1 DEF Live, Dead, TypeOK
<1> HIDE DEF old
<1>3. BytesOf(Live(Queued) \ {old}) = used - cost[old] /\ cost[old] <= used
  BY <1>1, <1>2, QueuedFinite, Uncount DEF Accounting
<1>4. BytesOf(Dead(Queued) \cup {old}) = dead_bytes + cost[old]
  BY <1>1, <1>2, QueuedFinite, Count DEF Accounting
<1> QED BY <1>1, <1>2, <1>3, <1>4 DEF old

(***************************************************************************)
(* DEL of a present key.                                                   *)
(***************************************************************************)
LEMMA DelStep == ASSUME IInv, NEW k \in Keys, Del(k) PROVE IInv'
<1> USE DEF IInv
<1> DEFINE old == index[k]
           db == dead_bytes + cost[old]
<1>1. ~Locked /\ old # None
  BY DEF Del
<1>2. /\ old \in Entries /\ old \in Live(Queued) /\ key[old] = k
      /\ cost[old] \in Nat /\ cost[old] <= used
      /\ BytesOf(Live(Queued) \ {old}) = used - cost[old]
      /\ BytesOf(Dead(Queued) \cup {old}) = db
  BY <1>1, KillEffect
<1>3. live[old] /\ old \in Queued
  BY <1>2 DEF Live
<1>4. /\ used' = used - cost[old]
      /\ live' = [live EXCEPT ![old] = FALSE]
      /\ maybe_compact(small, main, small_bytes, db, live')
      /\ index' = [index EXCEPT ![k] = None]
      /\ UNCHANGED <<key, cost, freq, order, ghosts, evictions, op, reader>>
  BY <1>3 DEF Del, entry, ghost
<1>5. /\ live \in [Entries -> BOOLEAN] /\ live' \in [Entries -> BOOLEAN]
      /\ used \in Nat /\ dead_bytes \in Nat /\ small_bytes \in Nat
      /\ index \in [Keys -> Entries \cup {None}]
      /\ Queued \in SUBSET Entries
  BY <1>4, QueuedFinite DEF TypeOK
<1>6. db \in Nat
  BY <1>2, <1>5
<1>7. /\ {e \in Queued : ~live'[e]} = Dead(Queued) \cup {old}
      /\ {e \in Queued : live'[e]} = Live(Queued) \ {old}
  BY <1>2, <1>3, <1>4, <1>5, SMTT(40) DEF Dead, Live
<1> HIDE DEF db, old
<1>8. /\ small' \in Seq(Entries) /\ main' \in Seq(Entries)
      /\ NoDup(small') /\ NoDup(main')
      /\ Elems(small') \cap Elems(main') = {}
      /\ Queued' \in SUBSET Queued
      /\ \A e \in Queued : live'[e] => e \in Queued'
      /\ small_bytes' \in Nat /\ small_bytes' = BytesOf(Elems(small'))
      /\ dead_bytes' \in Nat /\ dead_bytes' = BytesOf({e \in Queued' : ~live'[e]})
      /\ dead_bytes' <= dead_capacity
  <2>1. /\ small \in Seq(Entries) /\ main \in Seq(Entries) /\ NoDup(small) /\ NoDup(main)
        /\ Elems(small) \cap Elems(main) = {} /\ small_bytes = BytesOf(Elems(small))
        /\ Queued = Elems(small) \cup Elems(main)
    BY DEF TypeOK, IndexMatchesQueues, Accounting, Queued
  <2>2. db = BytesOf({e \in Elems(small) \cup Elems(main) : ~live'[e]})
    BY <1>2, <1>7, <2>1
  <2>3. /\ live' \in [Entries -> BOOLEAN] /\ small_bytes \in Nat /\ db \in Nat
        /\ maybe_compact(small, main, small_bytes, db, live') /\ TypeOK
    BY <1>4, <1>5, <1>6
  <2> DEFINE lv == live'
             Q == Elems(small) \cup Elems(main)
  <2>4. /\ small' \in Seq(Entries) /\ main' \in Seq(Entries)
        /\ NoDup(small') /\ NoDup(main')
        /\ Elems(small') \cap Elems(main') = {}
        /\ Queued' \in SUBSET Q
        /\ \A e \in Q : lv[e] => e \in Queued'
        /\ small_bytes' \in Nat /\ small_bytes' = BytesOf(Elems(small'))
        /\ dead_bytes' \in Nat /\ dead_bytes' = BytesOf({e \in Queued' : ~lv[e]})
        /\ dead_bytes' <= dead_capacity
    <3>1. db = BytesOf({e \in Q : ~lv[e]})
      BY <2>2
    <3>2. lv \in [Entries -> BOOLEAN] /\ maybe_compact(small, main, small_bytes, db, lv)
      BY <2>3
    <3> HIDE DEF lv
    <3> QED BY <2>1, <2>3, <3>1, <3>2, CompactEffect
  <2> QED BY <2>1, <2>4
<1>9. /\ Live(Queued)' = Live(Queued) \ {old}
      /\ Dead(Queued)' = {e \in Queued' : ~live'[e]}
  BY <1>7, <1>8 DEF Live, Dead
<1>10. Accounting'
  <2>1. used' = BytesOf(Live(Queued))'
    BY <1>2, <1>4, <1>9 DEF BytesOf
  <2>2. small_bytes' = BytesOf(Elems(small))' /\ dead_bytes' = BytesOf(Dead(Queued))'
    BY <1>4, <1>8, <1>9 DEF BytesOf
  <2> QED BY <2>1, <2>2 DEF Accounting
<1>11. TypeOK'
  <2>1. index' \in [Keys -> Entries \cup {None}]
    BY <1>4, <1>5
  <2>2. used' \in Nat
    <3>1. /\ used' = used - cost[old]
          /\ used \in Nat /\ cost[old] \in Nat /\ cost[old] <= used
      BY <1>2, <1>4, <1>5, Zenon
    <3> QED BY ONLY <3>1
  <2> QED BY <1>4, <1>5, <1>8, <2>1, <2>2, Zenon DEF TypeOK
<1>12. IndexMatchesQueues'
  <2>1. ASSUME NEW j \in Keys, index'[j] # None
        PROVE  live'[index'[j]] /\ key'[index'[j]] = j /\ index'[j] \in Queued'
    <3>1. j # k /\ index'[j] = index[j] /\ index[j] \in Entries
      BY <1>4, <1>5, <2>1
    <3>2. live[index[j]] /\ key[index[j]] = j /\ index[j] \in Queued
      BY <1>1, <2>1, <3>1 DEF IndexMatchesQueues, Locked
    <3>3. index[j] # old
      BY <1>2, <3>1, <3>2
    <3>4. live'[index[j]]
      BY <1>4, <1>5, <3>1, <3>2, <3>3
    <3> QED BY <1>4, <1>8, <3>1, <3>2, <3>4
  <2>2. ASSUME NEW e \in Live(Queued)'
        PROVE  key'[e] \in Keys /\ index'[key'[e]] = e
    <3>1. e \in Live(Queued) /\ e # old
      BY <1>9
    <3>2. key[e] \in Keys /\ index[key[e]] = e
      BY <3>1 DEF IndexMatchesQueues
    <3>3. key[e] # k
      BY <3>1, <3>2 DEF old
    <3> QED BY <1>4, <1>5, <3>2, <3>3
  <2> QED BY <1>8, <2>1, <2>2 DEF IndexMatchesQueues
<1>13. PendingEntry' /\ ReplaceKeepsNeighbours' /\ GhostTracked'
  BY <1>1, <1>4 DEF PendingEntry, ReplaceKeepsNeighbours, GhostTracked, Locked
<1>14. WithinBudget'
  <2>1. used <= Capacity /\ Capacity \in Nat
    BY BudgetAssumption DEF WithinBudget
  <2>2. used' <= Capacity
    BY <1>2, <1>4, <1>5, <2>1, SMTT(40)
  <2> QED BY <1>8, <2>2 DEF WithinBudget, dead_capacity
<1> QED BY <1>10, <1>11, <1>12, <1>13, <1>14

(***************************************************************************)
(* The beginning of SET.                                                   *)
(***************************************************************************)
LEMMA SetStep ==
    ASSUME IInv, NEW k \in Keys, NEW c \in Costs, NEW e \in Entries, Set(k, c, e)
    PROVE  IInv'
<1> USE DEF IInv
<1> DEFINE old == index[k]
           freed == IF old # None /\ live[old] THEN cost[old] ELSE 0
<1>1. /\ ~Locked /\ c <= Capacity /\ e \notin Queued
      /\ op' = [e |-> e, freed |-> freed]
      /\ used' = used - freed /\ dead_bytes' = dead_bytes + freed
      /\ live' = [x \in Entries |-> (live[x] /\ x # old) \/ x = e]
      /\ index' = [index EXCEPT ![k] = e]
      /\ key' = [key EXCEPT ![e] = k] /\ cost' = [cost EXCEPT ![e] = c]
      /\ freq' = [freq EXCEPT ![e] = 0]
      /\ UNCHANGED <<small, main, small_bytes, order, ghosts, evictions, reader>>
  BY DEF Set, Unused, ghost
<1>2. /\ live \in [Entries -> BOOLEAN] /\ used \in Nat /\ dead_bytes \in Nat
      /\ index \in [Keys -> Entries \cup {None}] /\ key \in [Entries -> Keys \cup {None}]
      /\ cost \in [Entries -> 0..Capacity] /\ freq \in [Entries -> 0..FREQ_CAP]
      /\ Queued \in SUBSET Entries
      /\ c \in Nat /\ c \in 0..Capacity /\ Capacity \in Nat /\ 0 \in 0..FREQ_CAP
  <2>1. /\ live \in [Entries -> BOOLEAN] /\ used \in Nat /\ dead_bytes \in Nat
        /\ index \in [Keys -> Entries \cup {None}] /\ key \in [Entries -> Keys \cup {None}]
        /\ cost \in [Entries -> 0..Capacity] /\ freq \in [Entries -> 0..FREQ_CAP]
    BY DEF TypeOK
  <2>2. Queued \in SUBSET Entries
    BY QueuedFinite
  <2>3. c \in Nat /\ c \in 0..Capacity /\ Capacity \in Nat /\ 0 \in 0..FREQ_CAP
    BY <1>1, BudgetAssumption, SMTT(40)
  <2> QED BY <2>1, <2>2, <2>3
<1>3. /\ freed \in Nat /\ freed <= used
      /\ BytesOf(Live(Queued) \ {old}) = used - freed
      /\ BytesOf(Dead(Queued) \cup ({old} \ {None})) = dead_bytes + freed
      /\ old # e /\ (old # None => old \in Queued)
  <2>1. CASE old = None
    <3>1. Live(Queued) \ {old} = Live(Queued) /\ freed = 0
      BY <1>2, <2>1, NoneAssumption DEF Live
    <3>2. Dead(Queued) \cup ({old} \ {None}) = Dead(Queued)
      BY <2>1
    <3>3. used = BytesOf(Live(Queued)) /\ dead_bytes = BytesOf(Dead(Queued))
      BY DEF Accounting
    <3>4. used - freed = used /\ dead_bytes + freed = dead_bytes /\ freed <= used
      BY <1>2, <3>1
    <3>5. old # e
      BY <2>1, NoneAssumption
    <3> HIDE DEF freed, old
    <3> QED BY <2>1, <3>1, <3>2, <3>3, <3>4, <3>5
  <2>2. CASE old # None
    <3>1. /\ old \in Entries /\ old \in Live(Queued)
          /\ cost[old] \in Nat /\ cost[old] <= used
          /\ BytesOf(Live(Queued) \ {old}) = used - cost[old]
          /\ BytesOf(Dead(Queued) \cup {old}) = dead_bytes + cost[old]
      BY <1>1, <2>2, KillEffect
    <3>2. live[old] /\ old \in Queued
      BY <3>1 DEF Live
    <3>3. freed = cost[old] /\ {old} \ {None} = {old}
      BY <2>2, <3>2
    <3> QED BY <1>1, <3>1, <3>2, <3>3
  <2> QED BY <2>1, <2>2
<1> HIDE DEF freed
<1>4. /\ Queued' = Queued /\ Elems(small)' = Elems(small)
      /\ Live(Queued)' = Live(Queued) \ {old}
      /\ Dead(Queued)' = Dead(Queued) \cup ({old} \ {None})
  <2>1. Queued' = Queued /\ Elems(small)' = Elems(small)
    BY <1>1 DEF Queued
  <2>2. \A x \in Queued : live'[x] <=> (live[x] /\ x # old)
    BY <1>1, <1>2
  <2> QED BY <1>2, <1>3, <2>1, <2>2, NoneAssumption DEF Live, Dead
<1>5. ASSUME NEW S \in SUBSET Queued
      PROVE  Bytes(cost', Capacity, S) = BytesOf(S)
  <2>1. \A x \in S : cost'[x] = cost[x]
    BY <1>1, <1>2
  <2> QED BY <1>2, <2>1, BytesSame DEF BytesOf
<1>6. Accounting'
  <2>1. /\ Live(Queued) \ {old} \in SUBSET Queued
        /\ Elems(small) \in SUBSET Queued
        /\ Dead(Queued) \cup ({old} \ {None}) \in SUBSET Queued
    BY <1>3 DEF Live, Dead, Queued
  <2>2. used' = BytesOf(Live(Queued))'
    BY <1>1, <1>3, <1>4, <1>5, <2>1 DEF BytesOf
  <2>3. small_bytes' = BytesOf(Elems(small))'
    BY <1>1, <1>4, <1>5, <2>1 DEF BytesOf, Accounting
  <2>4. dead_bytes' = BytesOf(Dead(Queued))'
    BY <1>1, <1>3, <1>4, <1>5, <2>1 DEF BytesOf
  <2> QED BY <2>2, <2>3, <2>4 DEF Accounting
<1>7. /\ live'[e] /\ key'[e] = k /\ index'[k] = e /\ cost'[e] = c
      /\ op'.e = e /\ op'.freed = freed /\ Locked'
  BY <1>1, <1>2, NoneAssumption DEF Locked
<1>8. TypeOK'
  <2>1. used' \in Nat /\ dead_bytes' \in Nat
    BY <1>1, <1>2, <1>3
  <2>2. op' \in [e : Entries \cup {None}, freed : Nat]
    BY <1>1, <1>3
  <2>3. /\ live' \in [Entries -> BOOLEAN] /\ index' \in [Keys -> Entries \cup {None}]
        /\ key' \in [Entries -> Keys \cup {None}] /\ cost' \in [Entries -> 0..Capacity]
        /\ freq' \in [Entries -> 0..FREQ_CAP]
    BY <1>1, <1>2
  <2> QED BY <1>1, <2>1, <2>2, <2>3 DEF TypeOK
<1>9. PendingEntry'
  BY <1>1, <1>4, <1>7 DEF PendingEntry
<1>10. WithinBudget' /\ ReplaceKeepsNeighbours' /\ GhostTracked'
  <2>1. used <= Capacity
    BY DEF WithinBudget
  <2>2. used' <= Capacity /\ (c <= freed => used' + c <= Capacity)
    BY <1>1, <1>2, <1>3, <2>1, SMTT(40)
  <2>3. used' \in Nat
    BY <1>1, <1>2, <1>3, SMTT(40)
  <2>4. c <= freed => ~(used' + c > Capacity)
    <3> SUFFICES ASSUME c <= freed PROVE ~(used' + c > Capacity)
      OBVIOUS
    <3>1. used' + c <= Capacity
      BY <2>2
    <3>2. used' + c \in Int /\ Capacity \in Int
      BY <1>2, <2>3
    <3>3. \A a, b \in Int : a <= b => ~(a > b)
      OBVIOUS
    <3> QED BY <3>1, <3>2, <3>3
  <2> QED BY <1>1, <1>7, <2>2, <2>4
          DEF WithinBudget, ReplaceKeepsNeighbours, GhostTracked, MustEvict
<1>11. IndexMatchesQueues'
  <2>1. ASSUME NEW j \in Keys, index'[j] # None
        PROVE  /\ live'[index'[j]] /\ key'[index'[j]] = j
               /\ index'[j] \in Queued' \/ index'[j] = op'.e
    <3>1. CASE j = k
      BY <1>7, <3>1
    <3>2. CASE j # k
      <4>1. index'[j] = index[j] /\ index[j] \in Entries
        BY <1>1, <1>2, <2>1, <3>2
      <4>2. live[index[j]] /\ key[index[j]] = j /\ index[j] \in Queued
        BY <1>1, <2>1, <4>1 DEF IndexMatchesQueues, Locked
      <4>3. index[j] # e
        BY <1>1, <4>2
      <4>4. index[j] # old
        <5>1. old # None => key[old] = k
          BY DEF IndexMatchesQueues
        <5> QED BY <3>2, <4>1, <4>2, <5>1, NoneAssumption
      <4>5. live'[index[j]] /\ key'[index[j]] = j
        BY <1>1, <1>2, <4>1, <4>2, <4>3, <4>4
      <4> QED BY <1>4, <4>1, <4>2, <4>5
    <3> QED BY <3>1, <3>2
  <2>2. ASSUME NEW x \in Live(Queued)'
        PROVE  key'[x] \in Keys /\ index'[key'[x]] = x
    <3>1. x \in Live(Queued) /\ x # old /\ x \in Queued
      BY <1>4 DEF Live
    <3>2. key[x] \in Keys /\ index[key[x]] = x /\ x # e /\ x \in Entries
      BY <1>1, <1>2, <3>1 DEF IndexMatchesQueues
    <3>3. key[x] # k
      BY <3>1, <3>2
    <3> QED BY <1>1, <1>2, <3>2, <3>3
  <2>3. /\ NoDup(small') /\ NoDup(main') /\ Elems(small') \cap Elems(main') = {}
    BY <1>1 DEF IndexMatchesQueues
  <2> QED BY <2>1, <2>2, <2>3 DEF IndexMatchesQueues
<1> QED BY <1>6, <1>8, <1>9, <1>10, <1>11

(***************************************************************************)
(* GET changes only the reader, its store only a frequency.                *)
(***************************************************************************)
LEMMA GetStep == ASSUME IInv, NEW r \in Readers, NEW k \in Keys, Get(r, k) PROVE IInv'
<1> USE DEF IInv
<1>1. UNCHANGED <<index, key, cost, freq, live, small, main, small_bytes, dead_bytes, order,
                  ghosts, used, evictions, op>>
  BY DEF Get, entry, queues, ghost
<1>2. TypeOK'
  <2>1. /\ index[k] \in Entries /\ freq[index[k]] \in 0..FREQ_CAP
        /\ freq[index[k]] < FREQ_CAP
        /\ reader' = [reader EXCEPT ![r] = [e |-> index[k], f |-> freq[index[k]]]]
    BY DEF Get, TypeOK
  <2>2. /\ reader \in [Readers -> [e : Entries \cup {None}, f : 0..FREQ_CAP]]
        /\ \A x \in Readers :
              reader[x] = NotTouching \/ (reader[x].e # None /\ reader[x].f < FREQ_CAP)
    BY DEF TypeOK
  <2>3. /\ reader' \in [Readers -> [e : Entries \cup {None}, f : 0..FREQ_CAP]]
        /\ \A x \in Readers :
              reader'[x] = NotTouching \/ (reader'[x].e # None /\ reader'[x].f < FREQ_CAP)
    BY <2>1, <2>2, NoneAssumption
  <2> QED BY <1>1, <2>3 DEF TypeOK
<1>3. /\ Queued' = Queued /\ Live(Queued)' = Live(Queued) /\ Dead(Queued)' = Dead(Queued)
      /\ Elems(small)' = Elems(small) /\ Locked' = Locked
  BY <1>1 DEF Queued, Live, Dead, Locked
<1>4. Accounting'
  BY <1>1, <1>3 DEF Accounting, BytesOf
<1>5. IndexMatchesQueues' /\ PendingEntry'
  BY <1>1, <1>3 DEF IndexMatchesQueues, PendingEntry
<1>6. WithinBudget' /\ ReplaceKeepsNeighbours' /\ GhostTracked'
  BY <1>1, <1>3 DEF WithinBudget, ReplaceKeepsNeighbours, GhostTracked, MustEvict
<1> QED BY <1>2, <1>4, <1>5, <1>6

LEMMA TouchStep == ASSUME IInv, NEW r \in Readers, Touch(r) PROVE IInv'
<1> USE DEF IInv
<1>1. UNCHANGED <<index, key, cost, live, small, main, small_bytes, dead_bytes, order,
                  ghosts, used, evictions, op>>
  BY DEF Touch, entry, queues, ghost
<1>2. TypeOK'
  <2>1. /\ reader \in [Readers -> [e : Entries \cup {None}, f : 0..FREQ_CAP]]
        /\ \A x \in Readers :
              reader[x] = NotTouching \/ (reader[x].e # None /\ reader[x].f < FREQ_CAP)
        /\ freq \in [Entries -> 0..FREQ_CAP]
        /\ FREQ_CAP \in Nat
    BY BudgetAssumption DEF TypeOK
  <2>2. /\ reader[r].e \in Entries /\ reader[r].f \in 0..FREQ_CAP /\ reader[r].f < FREQ_CAP
        /\ freq' = [freq EXCEPT ![reader[r].e] = reader[r].f + 1]
        /\ reader' = [reader EXCEPT ![r] = NotTouching]
    BY <2>1 DEF Touch
  <2>3. reader[r].f + 1 \in 0..FREQ_CAP
    BY <2>1, <2>2
  <2>4. freq' \in [Entries -> 0..FREQ_CAP]
    BY <2>1, <2>2, <2>3
  <2>5. /\ reader' \in [Readers -> [e : Entries \cup {None}, f : 0..FREQ_CAP]]
        /\ \A x \in Readers :
              reader'[x] = NotTouching \/ (reader'[x].e # None /\ reader'[x].f < FREQ_CAP)
    BY <2>1, <2>2 DEF NotTouching
  <2> QED BY <1>1, <2>4, <2>5 DEF TypeOK
<1>3. /\ Queued' = Queued /\ Live(Queued)' = Live(Queued) /\ Dead(Queued)' = Dead(Queued)
      /\ Elems(small)' = Elems(small) /\ Locked' = Locked
  BY <1>1 DEF Queued, Live, Dead, Locked
<1>4. Accounting'
  BY <1>1, <1>3 DEF Accounting, BytesOf
<1>5. IndexMatchesQueues' /\ PendingEntry'
  BY <1>1, <1>3 DEF IndexMatchesQueues, PendingEntry
<1>6. WithinBudget' /\ ReplaceKeepsNeighbours' /\ GhostTracked'
  BY <1>1, <1>3 DEF WithinBudget, ReplaceKeepsNeighbours, GhostTracked, MustEvict
<1> QED BY <1>2, <1>4, <1>5, <1>6

LEMMA StutterStep == ASSUME IInv, UNCHANGED vars PROVE IInv'
<1> USE DEF IInv
<1>1. UNCHANGED <<index, key, cost, freq, live, small, main, small_bytes, dead_bytes, order,
                  ghosts, used, evictions, op, reader>>
  BY DEF vars, entry, queues, ghost
<1>2. /\ Queued' = Queued /\ Live(Queued)' = Live(Queued) /\ Dead(Queued)' = Dead(Queued)
      /\ Elems(small)' = Elems(small) /\ Locked' = Locked
  BY <1>1 DEF Queued, Live, Dead, Locked
<1>3. TypeOK'
  BY <1>1 DEF TypeOK
<1>4. Accounting' /\ IndexMatchesQueues' /\ PendingEntry'
  BY <1>1, <1>2 DEF Accounting, BytesOf, IndexMatchesQueues, PendingEntry
<1>5. WithinBudget' /\ ReplaceKeepsNeighbours' /\ GhostTracked'
  BY <1>1, <1>2 DEF WithinBudget, ReplaceKeepsNeighbours, GhostTracked, MustEvict
<1> QED BY <1>3, <1>4, <1>5

(***************************************************************************)
(* Every step of the shard keeps the inductive invariant.                  *)
(***************************************************************************)
THEOREM Invariance == Spec => []IInv
<1>1. Init => IInv
  BY InitIInv
<1>2. IInv /\ [Next]_vars => IInv'
  <2> SUFFICES ASSUME IInv, [Next]_vars PROVE IInv'
    OBVIOUS
  <2>1. CASE \E k \in Keys, c \in Costs, e \in Entries : Set(k, c, e)
    BY <2>1, SetStep
  <2>2. CASE Evict
    BY <2>2, DropDeadSmallStep, PromoteStep, EvictSmallStep, DropDeadMainStep,
       SecondChanceStep, EvictMainStep DEF Evict
  <2>3. CASE FinishSet
    BY <2>3, FinishSetStep
  <2>4. CASE \E k \in Keys : Del(k)
    BY <2>4, DelStep
  <2>5. CASE \E r \in Readers : Touch(r) \/ \E k \in Keys : Get(r, k)
    BY <2>5, TouchStep, GetStep
  <2>6. CASE UNCHANGED vars
    BY <2>6, StutterStep
  <2> QED BY <2>1, <2>2, <2>3, <2>4, <2>5, <2>6 DEF Next
<1> QED BY <1>1, <1>2, PTL DEF Spec

(***************************************************************************)
(* The variables keep their types, and frequencies never pass FREQ_CAP,    *)
(* although touch reads and writes them without a lock.                    *)
(***************************************************************************)
THEOREM TypeCorrect == Spec => []TypeOK
BY Invariance, PTL DEF IInv

(***************************************************************************)
(* used, small_bytes and dead_bytes are exactly the bytes they stand for,  *)
(* at every step of set and del.                                           *)
(***************************************************************************)
THEOREM AccountingExact == Spec => []Accounting
BY Invariance, PTL DEF IInv

(***************************************************************************)
(* The live entries never exceed the budget, the dead never their share    *)
(* once the mutex is free.                                                 *)
(***************************************************************************)
THEOREM BudgetKept == Spec => []WithinBudget
BY Invariance, PTL DEF IInv

(***************************************************************************)
(* The index and the queues hold the same live entries.                    *)
(***************************************************************************)
THEOREM IndexConsistent == Spec => []IndexMatchesQueues
BY Invariance, PTL DEF IInv

(***************************************************************************)
(* An overwrite that does not grow evicts nothing.                         *)
(***************************************************************************)
THEOREM OverwriteEvictsNothing == Spec => []ReplaceKeepsNeighbours
BY Invariance, PTL DEF IInv

(***************************************************************************)
(* Every turn of set's eviction loop uses up work, so without touches the  *)
(* loop ends, whatever the queues hold.                                    *)
(***************************************************************************)
THEOREM EvictionEnds == Spec => EvictionProgresses
<1>1. IInv /\ [Next]_vars => [Evict => Work' < Work]_vars
  BY EvictUsesWork
<1> QED BY <1>1, Invariance, PTL DEF Spec, EvictionProgresses
=============================================================================
