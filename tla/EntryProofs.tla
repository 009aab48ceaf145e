----------------------------- MODULE EntryProofs -----------------------------
(***************************************************************************)
(* The invariant of Slab and Reclaim, and the steps of Reclaim that make,  *)
(* borrow and send entries, for any threads, keys, connections and size    *)
(* classes.                                                                *)
(***************************************************************************)
EXTENDS Reclaim, FiniteSetTheorems, TLAPS

-----------------------------------------------------------------------------
(* The slab.                                                                *)

Chunks == [class : Classes, at : Nat]

SlabType ==
    /\ free \in [Classes -> SUBSET Chunks]
    /\ mag \in [Threads -> [Classes -> SUBSET Chunks]]
    /\ held \subseteq Chunks
    /\ bump \in [cursor : Nat, end : Nat] /\ mapped \in Nat
    /\ bump.cursor <= bump.end /\ bump.end = mapped * REGION
    /\ refills \in [Threads -> {Nothing} \cup [class : Classes, n : Nat \ {0}]]

(* What a thread is about to carve fits in a region. *)
RefillsFit ==
    \A t \in Threads :
        refills[t] # Nothing => refills[t].n * class_size[refills[t].class] <= REGION

(* Chunks lie below the cursor, where nothing is carved any more. *)
Carved == \A x \in All : x.at + class_size[x.class] <= bump.cursor

SlabInv == SlabType /\ RefillsFit /\ OnOneList /\ Apart /\ Carved

(* Products are monotonic. *)
LEMMA Monotonic ==
    ASSUME NEW a \in Nat, NEW b \in Nat, NEW s \in Nat, a <= b
    PROVE  a * s \in Nat /\ a * s <= b * s
  OBVIOUS

(* Nothing and what a thread carves are told apart by their count. *)
LEMMA Carving ==
    ASSUME SlabType, NEW t \in Threads, ~Running(t)
    PROVE  /\ refills[t].class \in Classes /\ refills[t].n \in Nat \ {0}
  BY DEF SlabType, Running

(* A step that carves nothing keeps the chunks apart. *)
LEMMA NothingCarved ==
    ASSUME SlabInv, All' \subseteq All, bump' = bump
    PROVE  Apart' /\ Carved'
  BY DEF SlabInv, Apart, Carved

LEMMA SlabInit == Init => SlabInv
<1> SUFFICES ASSUME Init PROVE SlabInv
    OBVIOUS
<1>1. SlabType
    BY SlabAssumption DEF Init, SlabType
<1>2. All = {}
    BY DEF Init, All
<1> QED
    BY <1>1, <1>2 DEF Init, SlabInv, RefillsFit, OnOneList, Apart, Carved

LEMMA SlabPop ==
    ASSUME SlabInv, NEW t \in Threads, NEW c \in Classes, Pop(t, c)
    PROVE  SlabInv' /\ \E e \in Chunks \ held : held' = held \cup {e}
<1>1. PICK ch \in mag[t][c] :
          held' = held \cup {ch} /\ mag' = [mag EXCEPT ![t][c] = @ \ {ch}]
    BY Zenon DEF Pop
<1>2. UNCHANGED <<free, bump, mapped, refills>>
    BY DEF Pop
<1>3. ch \in Chunks /\ ch.class = c /\ ch \notin held
    BY DEF SlabInv, SlabType, OnOneList
<1>4. SlabType' /\ RefillsFit'
    BY <1>1, <1>2, <1>3 DEF SlabInv, SlabType, RefillsFit
<1>5. \A u \in Threads, d \in Classes :
          mag'[u][d] = IF u = t /\ d = c THEN mag[t][c] \ {ch} ELSE mag[u][d]
    BY <1>1 DEF SlabInv, SlabType
<1>6. All' \subseteq All
    BY <1>1, <1>2, <1>5 DEF All
<1>7. OnOneList'
    BY <1>1, <1>2, <1>3, <1>5 DEF SlabInv, OnOneList
<1> QED
    BY <1>1, <1>2, <1>3, <1>4, <1>6, <1>7, NothingCarved DEF SlabInv

(* A thread takes chunks from the free list. *)
LEMMA SlabTaken ==
    ASSUME SlabInv, NEW t \in Threads, NEW c \in Classes,
           NEW got \in SUBSET free[c], mag[t][c] = {}, Take(t, c, got),
           free' = [free EXCEPT ![c] = Drain(c, got)],
           UNCHANGED <<bump, mapped, refills>>
    PROVE  SlabInv' /\ \E e \in Chunks \ held : held' = held \cup {e}
<1>1. PICK ch \in got :
          held' = held \cup {ch} /\ mag' = [mag EXCEPT ![t][c] = got \ {ch}]
    BY Zenon DEF Take
<1>2. got \subseteq Chunks /\ ch.class = c /\ ch \notin held
    BY DEF SlabInv, SlabType, OnOneList
<1>3. SlabType' /\ RefillsFit'
    BY <1>1, <1>2 DEF SlabInv, SlabType, RefillsFit, Drain
<1>4. \A u \in Threads, d \in Classes :
          mag'[u][d] = IF u = t /\ d = c THEN got \ {ch} ELSE mag[u][d]
    BY <1>1 DEF SlabInv, SlabType
<1>5. \A d \in Classes : free'[d] = IF d = c THEN free[c] \ got ELSE free[d]
    BY DEF SlabInv, SlabType, Drain
<1>6. All' \subseteq All
    BY <1>1, <1>4, <1>5 DEF All
<1>7. OnOneList'
    BY <1>1, <1>2, <1>4, <1>5 DEF SlabInv, OnOneList
<1> QED
    BY <1>1, <1>2, <1>3, <1>6, <1>7, NothingCarved DEF SlabInv

LEMMA SlabRefill ==
    ASSUME SlabInv, NEW t \in Threads, NEW c \in Classes, Refill(t, c)
    PROVE  /\ SlabInv'
           /\ \/ held' = held /\ refills' = [refills EXCEPT ![t] = [class |-> c, n |-> Wanted(t, c)]]
              \/ refills' = refills /\ \E e \in Chunks \ held : held' = held \cup {e}
<1>1. CASE free[c] # {}
    <2>1. PICK got \in SUBSET free[c] :
              Take(t, c, got) /\ free' = [free EXCEPT ![c] = Drain(c, got)]
        BY <1>1 DEF Refill, kSubset
    <2> QED
        BY <2>1, <1>1, SlabTaken, Zenon DEF Refill
<1>2. CASE free[c] = {}
    <2>1. /\ refills' = [refills EXCEPT ![t] = [class |-> c, n |-> Wanted(t, c)]]
          /\ UNCHANGED <<free, mag, held, bump, mapped>>
        BY <1>2 DEF Refill
    <2>2. /\ batch[c] \in Nat \ {0} /\ class_size[c] \in Nat /\ Wanted(t, c) \in Nat \ {0}
          /\ Wanted(t, c) <= batch[c] /\ batch[c] * class_size[c] <= REGION
        BY SlabAssumption DEF Wanted
    <2>3. Wanted(t, c) * class_size[c] <= REGION
        BY <2>2, Monotonic, SlabAssumption
    <2>4. SlabType' /\ RefillsFit'
        BY <2>1, <2>2, <2>3 DEF SlabInv, SlabType, RefillsFit
    <2>5. OnOneList' /\ Apart' /\ Carved'
        BY <2>1 DEF SlabInv, OnOneList, Apart, Carved, All
    <2> QED
        BY <2>1, <2>4, <2>5 DEF SlabInv
<1> QED
    BY <1>1, <1>2

LEMMA SlabCarve ==
    ASSUME SlabInv, NEW t \in Threads, Carve(t)
    PROVE  /\ SlabInv' /\ refills' = [refills EXCEPT ![t] = Nothing]
           /\ \E e \in Chunks \ held : held' = held \cup {e}
<1> DEFINE c == refills[t].class
           n == refills[t].n
           size == class_size[c]
           fits == bump.end - bump.cursor >= n * size
           base == IF fits THEN bump.cursor ELSE mapped * REGION
           new == {Chunk(c, base + i * size) : i \in 0..n - 1}
<1>1. c \in Classes /\ n \in Nat \ {0} /\ size \in Nat \ {0} /\ REGION \in Nat
    BY Carving, SlabAssumption DEF SlabInv, Carve
<1>2. n * size \in Nat /\ n * size <= REGION
    BY <1>1 DEF SlabInv, RefillsFit, Carve, Running
<1>3. /\ bump' = [cursor |-> base + n * size, end |-> IF fits THEN bump.end ELSE base + REGION]
      /\ mapped' = IF fits THEN mapped ELSE mapped + 1
      /\ refills' = [refills EXCEPT ![t] = Nothing]
      /\ Take(t, c, new) /\ UNCHANGED free
    BY DEF Carve
<1>4. /\ bump.cursor \in Nat /\ bump.end \in Nat /\ mapped \in Nat
      /\ bump.cursor <= bump.end /\ bump.end = mapped * REGION
    BY DEF SlabInv, SlabType
<1>5. base \in Nat /\ bump.cursor <= base
    BY <1>4
<1>6. /\ bump' \in [cursor : Nat, end : Nat] /\ bump'.cursor = base + n * size
      /\ mapped' \in Nat /\ bump'.cursor <= bump'.end /\ bump'.end = mapped' * REGION
    <2>1. CASE fits
        BY <2>1, <1>2, <1>3, <1>4
    <2>2. CASE ~fits
        <3>1. (mapped + 1) * REGION = base + REGION
            BY <2>2, <1>1, <1>4
        <3> QED
            BY <2>2, <3>1, <1>1, <1>2, <1>3, <1>4, <1>5
    <2> QED
        BY <2>1, <2>2
<1> HIDE DEF c, n, size, fits, base
<1>7. \A i, j \in 0..n : i < j => i * size \in Nat /\ j * size \in Nat /\ i * size + size <= j * size
    <2> TAKE i, j \in 0..n
    <2> HAVE i < j
    <2>1. (i + 1) * size <= j * size /\ i * size \in Nat /\ j * size \in Nat
        BY <1>1, Monotonic
    <2>2. (i + 1) * size = i * size + size
        BY <1>1
    <2> QED
        BY <2>1, <2>2
<1>8. \A x \in new : /\ x \in Chunks /\ x.class = c /\ base <= x.at
                     /\ x.at + size <= base + n * size
    <2> TAKE x \in new
    <2>1. PICK i \in 0..n - 1 : x = Chunk(c, base + i * size)
        OBVIOUS
    <2>2. i * size \in Nat /\ i * size + size <= n * size
        BY <1>1, <1>7
    <2> QED
        BY <2>1, <2>2, <1>1, <1>2, <1>5 DEF Chunk, Chunks
<1>9. \A x, y \in new : x # y => x.at + size <= y.at \/ y.at + size <= x.at
    <2> TAKE x, y \in new
    <2> HAVE x # y
    <2>1. PICK i \in 0..n - 1 : x = Chunk(c, base + i * size)
        OBVIOUS
    <2>2. PICK j \in 0..n - 1 : y = Chunk(c, base + j * size)
        OBVIOUS
    <2>3. CASE i < j
        <3>1. i * size \in Nat /\ j * size \in Nat /\ i * size + size <= j * size
            BY <2>3, <1>1, <1>7
        <3> QED
            BY <3>1, <2>1, <2>2, <1>1, <1>5 DEF Chunk
    <2>4. CASE j < i
        <3>1. i * size \in Nat /\ j * size \in Nat /\ j * size + size <= i * size
            BY <2>4, <1>1, <1>7
        <3> QED
            BY <3>1, <2>1, <2>2, <1>1, <1>5 DEF Chunk
    <2> QED
        BY <2>1, <2>2, <2>3, <2>4, <1>1
<1> HIDE DEF new
<1>10. \A x \in All : /\ x \in Chunks /\ x \notin new
                      /\ x.at + class_size[x.class] <= base
    <2> TAKE x \in All
    <2>1. x \in Chunks
        BY DEF All, SlabInv, SlabType
    <2>2. class_size[x.class] \in Nat \ {0} /\ x.at \in Nat
        BY <2>1, SlabAssumption DEF Chunks
    <2>3. x.at + class_size[x.class] <= base
        BY <2>2, <1>4, <1>5 DEF SlabInv, Carved
    <2> QED
        BY <2>1, <2>2, <2>3, <1>5, <1>8
<1>11. PICK ch \in new :
           held' = held \cup {ch} /\ mag' = [mag EXCEPT ![t][c] = new \ {ch}]
    BY <1>3, Zenon DEF Take
<1>12. \A u \in Threads, d \in Classes :
           mag'[u][d] = IF u = t /\ d = c THEN new \ {ch} ELSE mag[u][d]
    BY <1>11 DEF SlabInv, SlabType
<1>13. All' \subseteq All \cup new
    BY <1>3, <1>11, <1>12 DEF All
<1>14. SlabType' /\ RefillsFit'
    <2>1. refills' \in [Threads -> {Nothing} \cup [class : Classes, n : Nat \ {0}]]
        BY <1>3 DEF SlabInv, SlabType
    <2>2. mag' \in [Threads -> [Classes -> SUBSET Chunks]] /\ held' \subseteq Chunks
        BY <1>1, <1>8, <1>11 DEF SlabInv, SlabType
    <2>3. free' \in [Classes -> SUBSET Chunks]
        BY <1>3 DEF SlabInv, SlabType
    <2>4. RefillsFit'
        BY <1>3 DEF SlabInv, SlabType, RefillsFit
    <2> QED
        BY <2>1, <2>2, <2>3, <2>4, <1>6 DEF SlabType
<1>15. OnOneList'
    <2>1. \A x \in new : /\ x.class = c /\ x \notin held
                         /\ \A d \in Classes : x \notin free[d]
                         /\ \A u \in Threads, d \in Classes : x \notin mag[u][d]
        BY <1>8, <1>10 DEF All
    <2> QED
        BY <2>1, <1>1, <1>3, <1>11, <1>12 DEF SlabInv, OnOneList
<1>16. Apart'
    <2> SUFFICES ASSUME NEW x \in All', NEW y \in All', x # y
                 PROVE  \/ x.at + class_size[x.class] <= y.at
                        \/ y.at + class_size[y.class] <= x.at
        BY DEF Apart
    <2>1. CASE x \in All /\ y \in All
        BY <2>1 DEF SlabInv, Apart
    <2>2. CASE x \in new /\ y \in new
        BY <2>2, <1>8, <1>9 DEF size
    <2>3. CASE x \in All /\ y \in new
        <3>1. x.at + class_size[x.class] <= base /\ base <= y.at
            BY <2>3, <1>8, <1>10
        <3>2. x.at \in Nat /\ class_size[x.class] \in Nat /\ y.at \in Nat
            BY <2>3, <1>8, <1>10, SlabAssumption DEF Chunks
        <3> QED
            BY <3>1, <3>2, <1>5
    <2>4. CASE y \in All /\ x \in new
        <3>1. y.at + class_size[y.class] <= base /\ base <= x.at
            BY <2>4, <1>8, <1>10
        <3>2. y.at \in Nat /\ class_size[y.class] \in Nat /\ x.at \in Nat
            BY <2>4, <1>8, <1>10, SlabAssumption DEF Chunks
        <3> QED
            BY <3>1, <3>2, <1>5
    <2> QED
        BY <2>1, <2>2, <2>3, <2>4, <1>13
<1>17. Carved'
    <2> SUFFICES ASSUME NEW x \in All'
                 PROVE  x.at + class_size[x.class] <= base + n * size
        BY <1>6 DEF Carved
    <2>1. CASE x \in new
        BY <2>1, <1>8 DEF size
    <2>2. CASE x \in All
        <3>1. x.at + class_size[x.class] <= base /\ x.at \in Nat /\ class_size[x.class] \in Nat
            BY <2>2, <1>10, SlabAssumption DEF Chunks
        <3> QED
            BY <3>1, <1>2, <1>5
    <2> QED
        BY <2>1, <2>2, <1>13
<1>18. ch \in Chunks \ held
    BY <1>8, <1>10 DEF All
<1> QED
    BY <1>3, <1>11, <1>14, <1>15, <1>16, <1>17, <1>18 DEF SlabInv

LEMMA SlabFree ==
    ASSUME SlabInv, NEW t \in Threads, NEW ch \in held, Free(t, ch)
    PROVE  SlabInv' /\ held' = held \ {ch} /\ refills' = refills
<1> DEFINE c == ch.class
<1>1. ch \in Chunks /\ c \in Classes
    BY DEF SlabInv, SlabType, Chunks
<1>2. /\ held' = held \ {ch} /\ UNCHANGED <<bump, mapped, refills>>
    BY SMTT(40) DEF Free
<1>3. \E keep, rest \in SUBSET (mag[t][c] \cup {ch}) :
          /\ keep \cap rest = {}
          /\ mag' = [mag EXCEPT ![t][c] = keep]
          /\ free' = [free EXCEPT ![c] = @ \cup rest]
    <2> DEFINE v == mag[t][c] \cup {ch}
    <2>1. CASE mag' = [mag EXCEPT ![t][c] = v] /\ UNCHANGED free
        <3>1. free' = [free EXCEPT ![c] = @ \cup {}]
            BY <2>1, <1>1 DEF SlabInv, SlabType
        <3> QED
            BY <2>1, <3>1, Zenon
    <2>2. CASE \E keep \in kSubset(Cap(c) \div 2, v) :
                   /\ mag' = [mag EXCEPT ![t][c] = keep]
                   /\ free' = [free EXCEPT ![c] = @ \cup (v \ keep)]
        <3>1. PICK keep \in SUBSET v : /\ mag' = [mag EXCEPT ![t][c] = keep]
                                       /\ free' = [free EXCEPT ![c] = @ \cup (v \ keep)]
            BY <2>2, Zenon DEF kSubset
        <3> QED
            BY <3>1, Zenon
    <2>3. CASE free' = [free EXCEPT ![c] = @ \cup {ch}] /\ UNCHANGED mag
        <3>1. mag' = [mag EXCEPT ![t][c] = mag[t][c]]
            BY <2>3, <1>1 DEF SlabInv, SlabType
        <3>2. /\ mag[t][c] \in SUBSET v /\ {ch} \in SUBSET v
              /\ mag[t][c] \cap {ch} = {}
            BY <1>1 DEF SlabInv, OnOneList
        <3> QED
            BY <2>3, <3>1, <3>2, Zenon
    <2> QED
        BY <2>1, <2>2, <2>3, Zenon DEF Free
<1>4. PICK keep, rest \in SUBSET (mag[t][c] \cup {ch}) :
          /\ keep \cap rest = {}
          /\ mag' = [mag EXCEPT ![t][c] = keep]
          /\ free' = [free EXCEPT ![c] = @ \cup rest]
    BY <1>3, Zenon
<1>5. \A u \in Threads, d \in Classes :
          mag'[u][d] = IF u = t /\ d = c THEN keep ELSE mag[u][d]
    BY <1>4 DEF SlabInv, SlabType
<1>6. \A d \in Classes : free'[d] = IF d = c THEN free[c] \cup rest ELSE free[d]
    BY <1>4 DEF SlabInv, SlabType
<1>7. keep \subseteq Chunks /\ rest \subseteq Chunks
    BY <1>1 DEF SlabInv, SlabType
<1>8. SlabType' /\ RefillsFit'
    BY <1>1, <1>2, <1>4, <1>7 DEF SlabInv, SlabType, RefillsFit
<1>9. All' \subseteq All
    BY <1>1, <1>2, <1>5, <1>6 DEF All
<1>10. OnOneList'
    <2>1. \A x \in mag[t][c] \cup {ch} :
              /\ x.class = c /\ x \notin free[c] /\ x \notin held'
              /\ \A u \in Threads \ {t} : x \notin mag[u][c]
        BY <1>1, <1>2 DEF SlabInv, OnOneList
    <2> QED
        BY <2>1, <1>1, <1>2, <1>4, <1>5, <1>6 DEF SlabInv, OnOneList
<1> QED
    BY <1>2, <1>8, <1>9, <1>10, NothingCarved DEF SlabInv

LEMMA SlabExit ==
    ASSUME SlabInv, NEW t \in Threads, Exit(t)
    PROVE  SlabInv' /\ held' = held /\ refills' = refills
<1>1. /\ free' = [c \in Classes |-> free[c] \cup mag[t][c]]
      /\ mag' = [mag EXCEPT ![t] = [c \in Classes |-> {}]]
      /\ UNCHANGED <<bump, mapped, refills, held>>
    BY DEF Exit, Flushed
<1>2. \A u \in Threads, c \in Classes : mag'[u][c] = IF u = t THEN {} ELSE mag[u][c]
    BY <1>1 DEF SlabInv, SlabType
<1>3. SlabType' /\ RefillsFit'
    BY <1>1 DEF SlabInv, SlabType, RefillsFit
<1>4. All' \subseteq All
    BY <1>1, <1>2 DEF All
<1>5. OnOneList'
    BY <1>1, <1>2 DEF SlabInv, OnOneList
<1> QED
    BY <1>1, <1>3, <1>4, <1>5, NothingCarved DEF SlabInv

LEMMA SlabSame ==
    ASSUME SlabInv, UNCHANGED vars
    PROVE  SlabInv'
  BY DEF SlabInv, SlabType, RefillsFit, OnOneList, Apart, Carved, All, vars

-----------------------------------------------------------------------------
(* Entries.                                                                 *)

(* Where the handle of the index is: still there, or on its way out. *)
Indexed(e) == \E k \in Keys : index[k] = e
Bagged(e) == \E t \in Threads : e \in bag[t]
Awaits(e) == \E g \in garbage : g.e = e
IndexHandle(e) == Indexed(e) \/ Bagged(e) \/ Awaits(e)

(* Where the handle of the queues is: there, or with the SET that will queue
   the entry. *)
QueueHandle(e) == e \in queue \/ \E t \in Threads : entry[t] = e

Replies(e) == {c \in Conns : reply[c] = e}

EType ==
    /\ pc \in [Threads -> {"out", "pinned", "locked"}]
    /\ entry \in [Threads -> held \cup {None}] /\ ref \in [Threads -> held \cup {None}]
    /\ reply \in [Conns -> held \cup {None}] /\ index \in [Keys -> held \cup {None}]
    /\ queue \subseteq held /\ bag \in [Threads -> SUBSET held]
    /\ garbage \subseteq [e : held, waits : SUBSET Threads]
    /\ rc \in [held -> Nat \ {0}]

(* There is one handle of each of the two. *)
OneIndexHandle ==
    /\ \A j, k \in Keys : index[j] = index[k] /\ index[j] # None => j = k
    /\ \A t, u \in Threads : \A e \in bag[t] : e \in bag[u] => t = u
    /\ \A g, h \in garbage : g.e = h.e => g = h
    /\ \A e \in held : /\ Indexed(e) => ~Bagged(e) /\ ~Awaits(e)
                       /\ Bagged(e) => ~Awaits(e)

OneQueueHandle ==
    /\ \A t, u \in Threads : entry[t] = entry[u] /\ entry[t] # None => t = u
    /\ \A t \in Threads : entry[t] \notin queue

One(b) == IF b THEN 1 ELSE 0
Counted ==
    \A e \in held : rc[e] = One(IndexHandle(e)) + One(QueueHandle(e)) + Cardinality(Replies(e))

(* The handle of the index outlives every borrow. *)
Protected ==
    \A t \in Threads : ref[t] # None =>
        /\ pc[t] # "out"
        /\ \/ Indexed(ref[t]) \/ Bagged(ref[t])
           \/ \E g \in garbage : g.e = ref[t] /\ t \in g.waits

(* Where a thread is with the entry it makes. *)
Phases ==
    \A t \in Threads :
        /\ entry[t] # None => pc[t] # "out"
        /\ pc[t] = "pinned" /\ entry[t] # None => ~IndexHandle(entry[t])
        /\ ~Running(t) => pc[t] = "pinned" /\ entry[t] = None /\ ref[t] = None

EntryInv ==
    /\ SlabInv /\ EType /\ OneIndexHandle /\ OneQueueHandle /\ Counted /\ Protected /\ Phases

LEMMA NoneHeld == ASSUME SlabInv PROVE None \notin held
  BY ReclaimAssumption DEF SlabInv, SlabType, Chunks

LEMMA RepliesFinite ==
    ASSUME NEW e
    PROVE  IsFiniteSet(Replies(e)) /\ Cardinality(Replies(e)) \in Nat
<1>1. IsFiniteSet(Replies(e))
    BY ReclaimAssumption, FS_Subset DEF Replies
<1> QED
    BY <1>1, FS_CardinalityType

(* The entries of a step that frees at most what has no handle left. *)
LEMMA StillTyped ==
    ASSUME EType, Protected', held' \subseteq held, rc' \in [held' -> Nat \ {0}],
           pc' \in [Threads -> {"out", "pinned", "locked"}],
           entry' \in [Threads -> held \cup {None}], ref' \in [Threads -> held \cup {None}],
           reply' \in [Conns -> held \cup {None}], index' \in [Keys -> held \cup {None}],
           queue' \subseteq held, bag' \in [Threads -> SUBSET held],
           garbage' \subseteq [e : held, waits : SUBSET Threads],
           \A x \in held \ held' : /\ ~IndexHandle(x)' /\ ~QueueHandle(x)'
                                   /\ \A c \in Conns : reply'[c] # x
    PROVE  EType'
<1>1. index' \in [Keys -> held' \cup {None}]
    BY DEF IndexHandle, Indexed
<1>2. bag' \in [Threads -> SUBSET held']
    BY DEF IndexHandle, Bagged
<1>3. garbage' \subseteq [e : held', waits : SUBSET Threads]
    BY DEF IndexHandle, Awaits
<1>4. queue' \subseteq held' /\ entry' \in [Threads -> held' \cup {None}]
    BY DEF QueueHandle
<1>5. reply' \in [Conns -> held' \cup {None}]
    OBVIOUS
<1>6. ref' \in [Threads -> held' \cup {None}]
    BY DEF Protected, IndexHandle, Indexed, Bagged, Awaits
<1> QED
    BY <1>1, <1>2, <1>3, <1>4, <1>5, <1>6 DEF EType

LEMMA EntryInit == EInit => EntryInv
<1> SUFFICES ASSUME EInit PROVE EntryInv
    OBVIOUS
<1>1. SlabInv
    BY SlabInit DEF EInit
<1>2. held = {} /\ \A t \in Threads : Running(t)
    BY DEF EInit, Init, Running
<1>3. EType
    BY <1>2 DEF EInit, EType
<1> QED
    BY <1>1, <1>2, <1>3 DEF EInit, EntryInv, OneIndexHandle, OneQueueHandle, Counted, Protected, Phases

LEMMA EntryPin ==
    ASSUME EntryInv, NEW t \in Threads, Pin(t)
    PROVE  EntryInv'
<1>1. SlabInv' /\ UNCHANGED <<held, refills>>
    BY SlabSame DEF EntryInv, Pin, vars
<1>2. /\ pc[t] = "out" /\ Running(t) /\ pc' = [pc EXCEPT ![t] = "pinned"]
      /\ UNCHANGED <<entry, ref, reply, rc, index, queue, bag, garbage>>
    BY DEF Pin, Outside
<1>3. EType' /\ OneIndexHandle' /\ OneQueueHandle' /\ Counted'
    BY <1>1, <1>2 DEF EntryInv, EType, OneIndexHandle, OneQueueHandle, Counted,
                      IndexHandle, Indexed, Bagged, Awaits, QueueHandle, Replies
<1>4. Protected' /\ Phases'
    BY <1>1, <1>2 DEF EntryInv, EType, Protected, Phases, IndexHandle, Indexed, Bagged, Awaits, Running
<1> QED
    BY <1>1, <1>3, <1>4 DEF EntryInv

LEMMA EntryBorrow ==
    ASSUME EntryInv, NEW t \in Threads, NEW k \in Keys, Borrow(t, k)
    PROVE  EntryInv'
<1>1. SlabInv' /\ UNCHANGED <<held, refills>>
    BY SlabSame DEF EntryInv, Borrow, vars
<1>2. /\ pc[t] = "pinned" /\ Running(t) /\ index[k] # None
      /\ ref' = [ref EXCEPT ![t] = index[k]]
      /\ UNCHANGED <<pc, entry, reply, rc, index, queue, bag, garbage>>
    BY DEF Borrow
<1>3. EType' /\ OneIndexHandle' /\ OneQueueHandle' /\ Counted'
    BY <1>1, <1>2 DEF EntryInv, EType, OneIndexHandle, OneQueueHandle, Counted,
                      IndexHandle, Indexed, Bagged, Awaits, QueueHandle, Replies
<1>4. Protected' /\ Phases'
    BY <1>1, <1>2 DEF EntryInv, EType, Protected, Phases, IndexHandle, Indexed, Bagged, Awaits, Running
<1> QED
    BY <1>1, <1>3, <1>4 DEF EntryInv

LEMMA EntryReply ==
    ASSUME EntryInv, NEW t \in Threads, NEW conn \in Conns, Reply(t, conn)
    PROVE  EntryInv'
<1> DEFINE e == ref[t]
<1>1. SlabInv' /\ UNCHANGED <<held, refills>>
    BY SlabSame DEF EntryInv, Reply, vars
<1>2. /\ e # None /\ reply[conn] = None /\ rc' = [rc EXCEPT ![e] = @ + 1]
      /\ reply' = [reply EXCEPT ![conn] = e]
      /\ UNCHANGED <<pc, entry, ref, index, queue, bag, garbage>>
    BY DEF Reply, Clone
<1>3. e \in held /\ None \notin held
    BY <1>2, NoneHeld DEF EntryInv, EType
<1>4. EType' /\ OneIndexHandle' /\ OneQueueHandle' /\ Protected' /\ Phases'
    <2>1. EType'
        BY <1>1, <1>2, <1>3 DEF EntryInv, EType
    <2>2. OneIndexHandle' /\ OneQueueHandle'
        BY <1>1, <1>2, Zenon DEF EntryInv, OneIndexHandle, OneQueueHandle, Indexed, Bagged, Awaits
    <2>3. Protected' /\ Phases'
        BY <1>1, <1>2, Zenon DEF EntryInv, Protected, Phases, IndexHandle, Indexed, Bagged, Awaits, Running
    <2> QED
        BY <2>1, <2>2, <2>3
<1>5. Counted'
    <2> SUFFICES ASSUME NEW x \in held
                 PROVE  rc'[x] = One(IndexHandle(x)') + One(QueueHandle(x)')
                                   + Cardinality(Replies(x)')
        BY <1>1 DEF Counted
    <2>1. rc[x] = One(IndexHandle(x)) + One(QueueHandle(x)) + Cardinality(Replies(x))
        BY DEF EntryInv, Counted
    <2>2. IndexHandle(x)' = IndexHandle(x) /\ QueueHandle(x)' = QueueHandle(x)
        BY <1>2 DEF IndexHandle, Indexed, Bagged, Awaits, QueueHandle
    <2>3. CASE x = e
        <3>1. Replies(x)' = Replies(x) \cup {conn} /\ conn \notin Replies(x)
            BY <2>3, <1>2, <1>3 DEF EntryInv, EType, Replies
        <3>2. Cardinality(Replies(x)') = Cardinality(Replies(x)) + 1
            BY <3>1, RepliesFinite, FS_AddElement, Zenon
        <3>3. rc'[x] = rc[x] + 1
            BY <2>3, <1>2 DEF EntryInv, EType
        <3> QED
            BY <2>1, <2>2, <3>2, <3>3, RepliesFinite DEF One
    <2>4. CASE x # e
        <3>1. Replies(x)' = Replies(x) /\ rc'[x] = rc[x]
            BY <2>4, <1>2, <1>3 DEF EntryInv, EType, Replies
        <3> QED
            BY <2>1, <2>2, <3>1
    <2> QED
        BY <2>3, <2>4
<1> QED
    BY <1>1, <1>4, <1>5 DEF EntryInv

(* Drop takes one from the count, and frees the entry with the last. *)
LEMMA Dropped ==
    ASSUME EntryInv, NEW t \in Threads, NEW e \in held, Drop(t, e)
    PROVE  /\ SlabInv' /\ refills' = refills
           /\ held' = IF rc[e] = 1 THEN held \ {e} ELSE held
           /\ rc' \in [held' -> Nat \ {0}]
           /\ \A x \in held' : rc'[x] = IF x = e THEN rc[x] - 1 ELSE rc[x]
<1>1. rc \in [held -> Nat \ {0}]
    BY DEF EntryInv, EType
<1>2. CASE rc[e] > 1 /\ rc' = [rc EXCEPT ![e] = @ - 1] /\ UNCHANGED vars
    <2>1. SlabInv'
        BY <1>2, SlabSame DEF EntryInv
    <2> QED
        BY <1>1, <1>2, <2>1 DEF vars
<1>3. CASE rc[e] = 1 /\ Free(t, e) /\ rc' = Restrict(rc, held')
    <2>1. SlabInv' /\ held' = held \ {e} /\ refills' = refills
        BY <1>3, SlabFree DEF EntryInv
    <2>2. rc' = [x \in held' |-> rc[x]]
        BY <1>3 DEF Restrict
    <2> QED
        BY <1>1, <1>3, <2>1, <2>2
<1> QED
    BY <1>2, <1>3 DEF Drop

LEMMA EntrySent ==
    ASSUME EntryInv, NEW t \in Threads, NEW conn \in Conns, Sent(t, conn)
    PROVE  EntryInv'
<1> DEFINE e == reply[conn]
<1>1. /\ e # None /\ Drop(t, e) /\ reply' = [reply EXCEPT ![conn] = None]
      /\ UNCHANGED <<pc, entry, ref, index, queue, bag, garbage>>
    BY DEF Sent
<1>2. e \in held /\ None \notin held
    BY <1>1, NoneHeld DEF EntryInv, EType
<1>3. /\ SlabInv' /\ refills' = refills
      /\ held' = IF rc[e] = 1 THEN held \ {e} ELSE held
      /\ rc' \in [held' -> Nat \ {0}]
      /\ \A x \in held' : rc'[x] = IF x = e THEN rc[x] - 1 ELSE rc[x]
    BY <1>1, <1>2, Dropped
<1>4. \A x : IndexHandle(x)' = IndexHandle(x) /\ QueueHandle(x)' = QueueHandle(x)
    BY <1>1 DEF IndexHandle, Indexed, Bagged, Awaits, QueueHandle
<1>5. \A c \in Conns : reply'[c] = IF c = conn THEN None ELSE reply[c]
    BY <1>1 DEF EntryInv, EType
<1> DEFINE rest == Replies(e) \ {conn}
<1>6. /\ Cardinality(rest) = Cardinality(Replies(e)) - 1 /\ Cardinality(rest) \in Nat
      /\ IsFiniteSet(rest) /\ {c \in Conns : reply'[c] = e} = rest
    <2>1. {c \in Conns : reply'[c] = e} = rest /\ conn \in Replies(e)
        BY <1>1, <1>5 DEF Replies
    <2>2. IsFiniteSet(rest) /\ Cardinality(rest) = Cardinality(Replies(e)) - 1
        BY <2>1, RepliesFinite, FS_RemoveElement
    <2> QED
        BY <2>1, <2>2, FS_CardinalityType
<1> HIDE DEF e
<1>7. rc[e] = One(IndexHandle(e)) + One(QueueHandle(e)) + Cardinality(Replies(e))
    BY <1>2 DEF EntryInv, Counted
<1>8. ASSUME rc[e] = 1
      PROVE  ~IndexHandle(e) /\ ~QueueHandle(e) /\ rest = {}
    <2> HIDE DEF rest
    <2>1. ~IndexHandle(e) /\ ~QueueHandle(e) /\ Cardinality(rest) = 0
        BY <1>6, <1>7, <1>8, RepliesFinite, SMTT(40) DEF One
    <2> QED
        BY <2>1, <1>6, FS_EmptySet
<1>9. Protected' /\ Phases'
    BY <1>1, <1>3, <1>4 DEF EntryInv, Protected, Phases, Indexed, Bagged, Running
<1>10. EType'
    <2>1. \A x \in held \ held' : /\ ~IndexHandle(x)' /\ ~QueueHandle(x)'
                                  /\ \A c \in Conns : reply'[c] # x
        BY <1>3, <1>4, <1>6, <1>8
    <2>2. EType
        BY DEF EntryInv
    <2>3. /\ held' \subseteq held
          /\ pc' \in [Threads -> {"out", "pinned", "locked"}]
          /\ entry' \in [Threads -> held \cup {None}] /\ ref' \in [Threads -> held \cup {None}]
          /\ reply' \in [Conns -> held \cup {None}] /\ index' \in [Keys -> held \cup {None}]
          /\ queue' \subseteq held /\ bag' \in [Threads -> SUBSET held]
          /\ garbage' \subseteq [e : held, waits : SUBSET Threads]
        BY <1>1, <1>3, <2>2, SMTT(40) DEF EType
    <2> QED
        BY <1>3, <1>9, <2>1, <2>2, <2>3, StillTyped, SMTT(40)
<1>11. OneIndexHandle' /\ OneQueueHandle'
    BY <1>1, <1>3 DEF EntryInv, OneIndexHandle, OneQueueHandle, Indexed, Bagged, Awaits
<1>12. Counted'
    <2> SUFFICES ASSUME NEW x \in held'
                 PROVE  rc'[x] = One(IndexHandle(x)') + One(QueueHandle(x)')
                                   + Cardinality(Replies(x)')
        BY DEF Counted
    <2>1. CASE x = e
        <3>1. rc'[x] = rc[e] - 1 /\ Replies(x)' = rest
            BY <2>1, <1>3, <1>6 DEF Replies
        <3>2. IndexHandle(x)' = IndexHandle(e) /\ QueueHandle(x)' = QueueHandle(e)
            BY <2>1, <1>4, Zenon
        <3>3. Cardinality(Replies(e)) \in Nat /\ Cardinality(rest) = Cardinality(Replies(e)) - 1
            BY <1>6, RepliesFinite, Zenon
        <3> HIDE DEF rest
        <3> QED
            BY ONLY <3>1, <3>2, <3>3, <1>7 DEF One
    <2>2. CASE x # e
        <3>1. x \in held /\ x # None /\ rc'[x] = rc[x]
            BY <2>2, <1>2, <1>3
        <3>2. Replies(x)' = Replies(x)
            BY <2>2, <3>1, <1>5 DEF Replies, e
        <3> QED
            BY <3>1, <3>2, <1>4 DEF EntryInv, Counted
    <2> QED
        BY <2>1, <2>2
<1> QED
    BY <1>3, <1>9, <1>10, <1>11, <1>12 DEF EntryInv

(* A SET makes an entry in a chunk the slab has handed out. *)
LEMMA EntryMade ==
    ASSUME EntryInv, SlabInv', NEW t \in Threads, NEW e \in Chunks \ held, Made(t),
           held' = held \cup {e}, pc[t] = "pinned", entry[t] = None, ref[t] = None,
           \A u \in Threads : ~Running(u)' => ~Running(u) /\ u # t
    PROVE  EntryInv'
<1>1. /\ entry' = [entry EXCEPT ![t] = e]
      /\ rc' = [x \in held' |-> IF x = e THEN 1 ELSE rc[x]]
      /\ UNCHANGED <<pc, ref, reply, index, queue, bag, garbage>>
    BY DEF Made
<1>2. /\ e # None /\ None \notin held
    BY NoneHeld, ReclaimAssumption DEF EntryInv, Chunks
<1>3. EType'
    BY <1>1 DEF EntryInv, EType
<1>4. ~IndexHandle(e) /\ ~QueueHandle(e) /\ Replies(e) = {}
    BY <1>2 DEF EntryInv, EType, IndexHandle, Indexed, Bagged, Awaits, QueueHandle, Replies
<1>5. \A x : IndexHandle(x)' = IndexHandle(x) /\ Replies(x)' = Replies(x)
    BY <1>1 DEF IndexHandle, Indexed, Bagged, Awaits, Replies
<1>6. QueueHandle(e)' /\ \A x \in held : QueueHandle(x)' = QueueHandle(x)
    BY <1>1, <1>2 DEF QueueHandle, EntryInv, EType
<1>7. Protected' /\ Phases'
    BY <1>1, <1>2, <1>4, <1>5 DEF EntryInv, EType, Protected, Phases, Indexed, Bagged
<1>8. OneIndexHandle'
    <2>1. ~Indexed(e) /\ ~Bagged(e) /\ ~Awaits(e)
        BY <1>4 DEF IndexHandle
    <2> QED
        BY <2>1, <1>1, Zenon DEF EntryInv, OneIndexHandle, Indexed, Bagged, Awaits
<1>9. OneQueueHandle'
    BY <1>1, <1>2, <1>4, SMTT(40) DEF EntryInv, EType, OneQueueHandle, QueueHandle
<1>10. Counted'
    <2> SUFFICES ASSUME NEW x \in held'
                 PROVE  rc'[x] = One(IndexHandle(x)') + One(QueueHandle(x)')
                                   + Cardinality(Replies(x)')
        BY SMTT(40) DEF Counted
    <2>1. CASE x = e
        <3>1. rc'[x] = 1
            BY <2>1, <1>1
        <3>2. ~IndexHandle(x)' /\ QueueHandle(x)' /\ Cardinality(Replies(x)') = 0
            BY <2>1, <1>4, <1>5, <1>6, FS_EmptySet, Zenon
        <3> QED
            BY ONLY <3>1, <3>2 DEF One
    <2>2. CASE x # e
        BY <2>2, <1>1, <1>5, <1>6 DEF EntryInv, Counted
    <2> QED
        BY <2>1, <2>2
<1> QED
    BY <1>3, <1>7, <1>8, <1>9, <1>10 DEF EntryInv

LEMMA EntryNew ==
    ASSUME EntryInv, NEW t \in Threads, NEW c \in Classes, New(t, c)
    PROVE  EntryInv'
<1>1. pc[t] = "pinned" /\ entry[t] = None /\ ref[t] = None /\ Made(t)
    BY SMTT(40) DEF New
<1>2. ASSUME SlabInv', refills' = refills, \E e \in Chunks \ held : held' = held \cup {e}
      PROVE  EntryInv'
    <2>1. PICK e \in Chunks \ held : held' = held \cup {e}
        BY <1>2
    <2>2. Running(t)
        BY DEF New, Pop, Refill, Allocates
    <2>3. \A u \in Threads : ~Running(u)' => ~Running(u) /\ u # t
        BY <1>2, <2>2 DEF Running
    <2> QED
        BY <1>1, <1>2, <2>1, <2>3, EntryMade
<1>3. CASE Pop(t, c)
    <2>1. refills' = refills
        BY <1>3 DEF Pop
    <2> QED
        BY <1>2, <1>3, <2>1, SlabPop DEF EntryInv
<1>4. CASE Refill(t, c)
    <2>1. SlabInv'
        BY <1>4, SlabRefill DEF EntryInv
    <2>2. CASE refills' = refills /\ \E e \in Chunks \ held : held' = held \cup {e}
        BY <1>2, <2>1, <2>2
    <2>3. CASE held' = held /\ refills' = [refills EXCEPT ![t] = [class |-> c, n |-> Wanted(t, c)]]
        <3>1. UNCHANGED <<pc, entry, ref, reply, rc, index, queue, bag, garbage>>
            <4>1. held' \ held = {}
                BY <2>3
            <4> QED
                BY <1>1, <4>1, Zenon DEF Made
        <3>2. EType' /\ OneIndexHandle' /\ OneQueueHandle' /\ Counted' /\ Protected'
            <4>1. \A x : /\ Indexed(x)' = Indexed(x) /\ Bagged(x)' = Bagged(x)
                         /\ Awaits(x)' = Awaits(x) /\ IndexHandle(x)' = IndexHandle(x)
                         /\ QueueHandle(x)' = QueueHandle(x) /\ Replies(x)' = Replies(x)
                BY <3>1, Zenon DEF IndexHandle, Indexed, Bagged, Awaits, QueueHandle, Replies
            <4>2. EType'
                BY <2>3, <3>1, Zenon DEF EntryInv, EType
            <4>3. OneIndexHandle' /\ OneQueueHandle'
                BY <2>3, <3>1, <4>1, Zenon DEF EntryInv, OneIndexHandle, OneQueueHandle
            <4>4. Counted' /\ Protected'
                BY <2>3, <3>1, <4>1, Zenon DEF EntryInv, Counted, Protected
            <4> QED
                BY <4>2, <4>3, <4>4
        <3>3. \A u \in Threads : u # t => Running(u)' = Running(u)
            BY <2>3, Zenon DEF EntryInv, SlabInv, SlabType, Running
        <3>4. Phases'
            BY <1>1, <3>1, <3>3, Zenon DEF EntryInv, Phases, IndexHandle, Indexed, Bagged, Awaits
        <3> QED
            BY <2>1, <3>2, <3>4, SMTT(40) DEF EntryInv
    <2> QED
        BY <1>4, <2>2, <2>3, SlabRefill DEF EntryInv
<1> QED
    BY <1>3, <1>4 DEF New

LEMMA EntryNewCarved ==
    ASSUME EntryInv, NEW t \in Threads, NewCarved(t)
    PROVE  EntryInv'
<1>1. Carve(t) /\ Made(t) /\ ~Running(t)
    BY Zenon DEF NewCarved, Carve
<1>2. pc[t] = "pinned" /\ entry[t] = None /\ ref[t] = None
    BY <1>1 DEF EntryInv, Phases
<1>3. /\ SlabInv' /\ refills' = [refills EXCEPT ![t] = Nothing]
      /\ \E e \in Chunks \ held : held' = held \cup {e}
    BY <1>1, SlabCarve DEF EntryInv
<1>4. \A u \in Threads : ~Running(u)' => ~Running(u) /\ u # t
    BY <1>3 DEF EntryInv, SlabInv, SlabType, Running
<1> QED
    BY <1>1, <1>2, <1>3, <1>4, EntryMade, Zenon
=============================================================================
