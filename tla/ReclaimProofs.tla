---------------------------- MODULE ReclaimProofs ----------------------------
(***************************************************************************)
(* Proofs about Reclaim, from the invariant of EntryProofs: the steps that *)
(* replace, evict, retire and free entries, and the theorems.              *)
(***************************************************************************)
EXTENDS EntryProofs

LEMMA EntryInsert ==
    ASSUME EntryInv, NEW t \in Threads, NEW k \in Keys, Insert(t, k)
    PROVE  EntryInv'
<1> DEFINE e == entry[t]
           old == index[k]
<1>1. SlabInv' /\ UNCHANGED <<held, refills>>
    BY SlabSame DEF EntryInv, Insert, vars
<1>2. /\ pc[t] = "pinned" /\ e # None
      /\ pc' = [pc EXCEPT ![t] = "locked"] /\ rc' = [rc EXCEPT ![e] = @ + 1]
      /\ index' = [index EXCEPT ![k] = e]
      /\ UNCHANGED <<entry, ref, reply, queue>>
    BY DEF Insert, Clone
<1>3. e \in held /\ None \notin held /\ ~IndexHandle(e) /\ Running(t)
    BY <1>2, NoneHeld, SMTT(40) DEF EntryInv, EType, Phases
<1>4. /\ garbage' = garbage /\ bag' \in [Threads -> SUBSET held]
      /\ \A u \in Threads : bag'[u] = IF u = t THEN bag[t] \cup ({old} \ {None}) ELSE bag[u]
    <2>1. bag \in [Threads -> SUBSET held] /\ (old = None \/ old \in held)
        BY DEF EntryInv, EType
    <2> HIDE DEF old
    <2>2. CASE old = None /\ bag' = bag /\ garbage' = garbage
        BY <2>1, <2>2
    <2>3. CASE old # None /\ bag' = [bag EXCEPT ![t] = @ \cup {old}] /\ garbage' = garbage
        BY <2>1, <2>3
    <2> QED
        BY <2>2, <2>3 DEF Insert, retire, old
<1>5. \A j \in Keys : index'[j] = IF j = k THEN e ELSE index[j]
    BY <1>2, SMTT(40) DEF EntryInv, EType
<1>6. \A x \in held : /\ Indexed(x)' = (x = e \/ (Indexed(x) /\ x # old))
                      /\ Bagged(x)' = (Bagged(x) \/ x = old)
                      /\ Awaits(x)' = Awaits(x)
    <2> SUFFICES ASSUME NEW x \in held
                 PROVE  /\ Indexed(x)' = (x = e \/ (Indexed(x) /\ x # old))
                        /\ Bagged(x)' = (Bagged(x) \/ x = old)
                        /\ Awaits(x)' = Awaits(x)
        BY SMTT(40)
    <2>1. Indexed(x)' = (x = e \/ (Indexed(x) /\ x # old))
        BY <1>3, <1>5, Zenon DEF EntryInv, OneIndexHandle, Indexed
    <2>2. Bagged(x)' = (Bagged(x) \/ x = old)
        BY <1>3, <1>4, Zenon DEF Bagged
    <2> QED
        BY <2>1, <2>2, <1>4, SMTT(40) DEF Awaits
<1>7. old # None => old \in held /\ Indexed(old) /\ old # e
    BY <1>3 DEF EntryInv, EType, IndexHandle, Indexed
<1> HIDE DEF e, old
<1>8. \A x \in held : /\ x = e => IndexHandle(x)'
                      /\ x # e => IndexHandle(x)' = IndexHandle(x)
    BY <1>3, <1>6, <1>7, Zenon DEF IndexHandle
<1>9. \A x : QueueHandle(x)' = QueueHandle(x) /\ Replies(x)' = Replies(x)
    BY <1>2 DEF QueueHandle, Replies
<1>10. EType'
    <2>1. index' \in [Keys -> held \cup {None}] /\ rc' \in [held -> Nat \ {0}]
        BY <1>2, <1>3 DEF EntryInv, EType
    <2> QED
        BY <1>1, <1>2, <1>4, <2>1, Zenon DEF EntryInv, EType
<1>11. OneIndexHandle'
    <2>1. \A i, j \in Keys : index'[i] = index'[j] /\ index'[i] # None => i = j
        BY <1>3, <1>5, SMTT(40) DEF EntryInv, OneIndexHandle, IndexHandle, Indexed
    <2>2. \A u, v \in Threads : \A x \in bag'[u] : x \in bag'[v] => u = v
        <3>1. old # None => ~Bagged(old)
            BY <1>7, SMTT(40) DEF EntryInv, OneIndexHandle
        <3> QED
            BY <1>4, <3>1, SMTT(40) DEF EntryInv, OneIndexHandle, Bagged
    <2>3. \A x \in held : /\ Indexed(x)' => ~Bagged(x)' /\ ~Awaits(x)'
                          /\ Bagged(x)' => ~Awaits(x)'
        BY <1>3, <1>6, <1>7, Zenon DEF EntryInv, OneIndexHandle, IndexHandle
    <2> QED
        BY <1>1, <1>4, <2>1, <2>2, <2>3, Zenon DEF EntryInv, OneIndexHandle
<1>12. OneQueueHandle'
    BY <1>2 DEF EntryInv, OneQueueHandle
<1>13. Counted'
    <2> SUFFICES ASSUME NEW x \in held
                 PROVE  rc'[x] = One(IndexHandle(x)') + One(QueueHandle(x)')
                                   + Cardinality(Replies(x)')
        BY <1>1 DEF Counted
    <2>1. rc[x] = One(IndexHandle(x)) + One(QueueHandle(x)) + Cardinality(Replies(x))
        BY DEF EntryInv, Counted
    <2>2. rc'[x] = IF x = e THEN rc[x] + 1 ELSE rc[x]
        BY <1>2 DEF EntryInv, EType
    <2>3. Cardinality(Replies(x)) \in Nat
        BY RepliesFinite
    <2>4. QueueHandle(x)' = QueueHandle(x) /\ Replies(x)' = Replies(x)
        BY <1>9, SMTT(40)
    <2>5. CASE x = e
        BY <1>3, <1>8, <2>1, <2>2, <2>3, <2>4, <2>5, SMTT(40) DEF One
    <2>6. CASE x # e
        BY <1>8, <2>1, <2>2, <2>4, <2>6, SMTT(40)
    <2> QED
        BY <2>5, <2>6
<1>14. Protected'
    BY <1>2, <1>4, <1>6, Zenon DEF EntryInv, EType, Protected
<1>15. Phases'
    <2>1. \A u \in Threads : u # t /\ entry[u] # None => entry[u] \in held /\ entry[u] # e
        BY SMTT(40) DEF EntryInv, EType, OneQueueHandle, e
    <2> QED
        BY <1>1, <1>2, <1>3, <1>8, <2>1 DEF EntryInv, EType, Phases, Running
<1> QED
    BY <1>1, <1>10, <1>11, <1>12, <1>13, <1>14, <1>15 DEF EntryInv

LEMMA EntryDel ==
    ASSUME EntryInv, NEW t \in Threads, NEW k \in Keys, Del(t, k)
    PROVE  EntryInv'
<1> DEFINE old == index[k]
<1>1. SlabInv' /\ UNCHANGED <<held, refills>>
    BY SlabSame, SMTT(40) DEF EntryInv, Del, vars
<1>2. /\ pc[t] = "pinned" /\ Running(t) /\ entry[t] = None /\ old # None
      /\ pc' = [pc EXCEPT ![t] = "locked"]
      /\ index' = [index EXCEPT ![k] = None]
      /\ bag' = [bag EXCEPT ![t] = @ \cup {old}]
      /\ UNCHANGED <<entry, ref, reply, rc, queue, garbage>>
    BY DEF Del, retire
<1>3. old \in held /\ None \notin held /\ Indexed(old)
    BY <1>2, NoneHeld DEF EntryInv, EType, Indexed
<1>4. \A u \in Threads : bag'[u] = IF u = t THEN bag[t] \cup {old} ELSE bag[u]
    BY <1>2 DEF EntryInv, EType
<1>5. \A j \in Keys : index'[j] = IF j = k THEN None ELSE index[j]
    BY <1>2, SMTT(40) DEF EntryInv, EType
<1>6. \A x \in held : /\ Indexed(x)' = (Indexed(x) /\ x # old)
                      /\ Bagged(x)' = (Bagged(x) \/ x = old)
                      /\ Awaits(x)' = Awaits(x)
    <2> SUFFICES ASSUME NEW x \in held
                 PROVE  /\ Indexed(x)' = (Indexed(x) /\ x # old)
                        /\ Bagged(x)' = (Bagged(x) \/ x = old)
                        /\ Awaits(x)' = Awaits(x)
        OBVIOUS
    <2>1. Indexed(x)' = (Indexed(x) /\ x # old)
        BY <1>3, <1>5, Zenon DEF EntryInv, OneIndexHandle, Indexed
    <2>2. Bagged(x)' = (Bagged(x) \/ x = old)
        BY <1>3, <1>4, Zenon DEF Bagged
    <2> QED
        BY <2>1, <2>2, <1>2 DEF Awaits
<1> HIDE DEF old
<1>7. \A x \in held : IndexHandle(x)' = IndexHandle(x)
    BY <1>3, <1>6, Zenon DEF IndexHandle
<1>8. EType'
    BY <1>1, <1>2, <1>3 DEF EntryInv, EType
<1>9. OneIndexHandle'
    <2>1. \A i, j \in Keys : index'[i] = index'[j] /\ index'[i] # None => i = j
        BY <1>5 DEF EntryInv, OneIndexHandle
    <2>2. \A u, v \in Threads : \A x \in bag'[u] : x \in bag'[v] => u = v
        <3>1. ~Bagged(old)
            BY <1>3, SMTT(40) DEF EntryInv, OneIndexHandle
        <3> QED
            BY <1>4, <3>1, SMTT(40) DEF EntryInv, OneIndexHandle, Bagged
    <2>3. \A x \in held : /\ Indexed(x)' => ~Bagged(x)' /\ ~Awaits(x)'
                          /\ Bagged(x)' => ~Awaits(x)'
        BY <1>3, <1>6, Zenon DEF EntryInv, OneIndexHandle
    <2> QED
        BY <1>1, <1>2, <2>1, <2>2, <2>3, Zenon DEF EntryInv, OneIndexHandle
<1>10. OneQueueHandle'
    BY <1>2 DEF EntryInv, OneQueueHandle
<1>11. Counted'
    <2>1. \A x : QueueHandle(x)' = QueueHandle(x) /\ Replies(x)' = Replies(x)
        BY <1>2 DEF QueueHandle, Replies
    <2> QED
        BY <1>1, <1>2, <1>7, <2>1, SMTT(40) DEF EntryInv, Counted
<1>12. Protected'
    BY <1>2, <1>6, Zenon DEF EntryInv, EType, Protected
<1>13. Phases'
    BY <1>1, <1>2, <1>7, SMTT(40) DEF EntryInv, EType, Phases, Running
<1> QED
    BY <1>1, <1>8, <1>9, <1>10, <1>11, <1>12, <1>13 DEF EntryInv

(* A step that drops the handle of the index or of the queues. *)
LEMMA EntryDropped ==
    ASSUME EntryInv, NEW t \in Threads, NEW e \in held, Drop(t, e), Protected',
           UNCHANGED <<pc, entry, ref, reply>>,
           index' \in [Keys -> held \cup {None}],
           queue' \subseteq held, bag' \in [Threads -> SUBSET held],
           garbage' \subseteq [e : held, waits : SUBSET Threads],
           \A x \in held \ {e} : IndexHandle(x)' = IndexHandle(x) /\ QueueHandle(x)' = QueueHandle(x),
           \/ IndexHandle(e) /\ ~IndexHandle(e)' /\ QueueHandle(e)' = QueueHandle(e)
           \/ QueueHandle(e) /\ ~QueueHandle(e)' /\ IndexHandle(e)' = IndexHandle(e)
    PROVE  SlabInv' /\ EType' /\ Counted' /\ refills' = refills /\ held' \subseteq held
<1>1. /\ SlabInv' /\ refills' = refills
      /\ held' = IF rc[e] = 1 THEN held \ {e} ELSE held
      /\ rc' \in [held' -> Nat \ {0}]
      /\ \A x \in held' : rc'[x] = IF x = e THEN rc[x] - 1 ELSE rc[x]
    BY Dropped
<1>2. \A x \in held : rc[x] = One(IndexHandle(x)) + One(QueueHandle(x)) + Cardinality(Replies(x))
    BY DEF EntryInv, Counted
<1>3. \A x : Replies(x)' = Replies(x) /\ Cardinality(Replies(x)) \in Nat
    BY RepliesFinite, Zenon DEF Replies
<1>4. ASSUME rc[e] = 1
      PROVE  ~IndexHandle(e)' /\ ~QueueHandle(e)' /\ Replies(e) = {}
    <2>1. ~IndexHandle(e)' /\ ~QueueHandle(e)' /\ Cardinality(Replies(e)) = 0
        BY <1>2, <1>3, <1>4, SMTT(40) DEF One
    <2> QED
        BY <2>1, RepliesFinite, FS_EmptySet
<1>5. EType'
    <2>1. \A x \in held \ held' : /\ ~IndexHandle(x)' /\ ~QueueHandle(x)'
                                  /\ \A c \in Conns : reply'[c] # x
        BY <1>1, <1>4, Zenon DEF Replies
    <2>2. EType
        BY SMTT(40) DEF EntryInv
    <2>3. /\ held' \subseteq held
          /\ pc' \in [Threads -> {"out", "pinned", "locked"}]
          /\ entry' \in [Threads -> held \cup {None}] /\ ref' \in [Threads -> held \cup {None}]
          /\ reply' \in [Conns -> held \cup {None}]
        BY <1>1, <2>2 DEF EType
    <2> QED
        BY <1>1, <2>1, <2>2, <2>3, StillTyped
<1>6. Counted'
    <2> SUFFICES ASSUME NEW x \in held'
                 PROVE  rc'[x] = One(IndexHandle(x)') + One(QueueHandle(x)')
                                   + Cardinality(Replies(x)')
        BY SMTT(40) DEF Counted
    <2>1. CASE x = e
        <3>1. rc'[e] = rc[e] - 1 /\ rc[e] = One(IndexHandle(e)) + One(QueueHandle(e)) + Cardinality(Replies(e))
            BY <2>1, <1>1, <1>2, SMTT(40)
        <3> QED
            BY <2>1, <3>1, <1>3, SMTT(40) DEF One
    <2>2. CASE x # e
        BY <2>2, <1>1, <1>2, <1>3
    <2> QED
        BY <2>1, <2>2
<1> QED
    BY <1>1, <1>5, <1>6

LEMMA EntryEvict ==
    ASSUME EntryInv, NEW t \in Threads, NEW e \in queue, Evict(t, e)
    PROVE  EntryInv'
<1>1. /\ pc[t] = "locked" /\ queue' = queue \ {e} /\ Drop(t, e)
      /\ UNCHANGED <<pc, entry, ref, reply>> /\ garbage' = garbage
    BY DEF Evict, retire
<1>2. e \in held /\ None \notin held
    BY NoneHeld DEF EntryInv, EType
<1>3. Range(index) = {index[k] : k \in Keys}
    BY DEF EntryInv, EType, Range
<1>4. /\ index' \in [Keys -> held \cup {None}]
      /\ \A k \in Keys : index'[k] = IF index[k] = e THEN None ELSE index[k]
    <2>1. index \in [Keys -> held \cup {None}]
        BY DEF EntryInv, EType
    <2>2. CASE index' = [k \in Keys |-> IF index[k] = e THEN None ELSE index[k]]
        BY <2>1, <2>2
    <2>3. CASE e \notin Range(index) /\ index' = index
        BY <1>3, <2>1, <2>3, SMTT(40)
    <2> QED
        BY <2>2, <2>3 DEF Evict
<1>5. /\ bag' \in [Threads -> SUBSET held]
      /\ \A u \in Threads : bag'[u] = IF u = t /\ Indexed(e) THEN bag[t] \cup {e} ELSE bag[u]
    <2>1. bag \in [Threads -> SUBSET held]
        BY DEF EntryInv, EType
    <2>2. CASE Indexed(e) /\ bag' = [bag EXCEPT ![t] = @ \cup {e}]
        BY <1>2, <2>1, <2>2
    <2>3. CASE ~Indexed(e) /\ bag' = bag
        BY <2>1, <2>3
    <2>4. e \in Range(index) <=> Indexed(e)
        BY <1>3 DEF Indexed
    <2> QED
        BY <2>2, <2>3, <2>4, Zenon DEF Evict, retire
<1>6. \A x \in held : /\ Indexed(x)' = (Indexed(x) /\ x # e)
                      /\ Bagged(x)' = (Bagged(x) \/ (x = e /\ Indexed(e)))
                      /\ Awaits(x)' = Awaits(x)
    <2> SUFFICES ASSUME NEW x \in held
                 PROVE  /\ Indexed(x)' = (Indexed(x) /\ x # e)
                        /\ Bagged(x)' = (Bagged(x) \/ (x = e /\ Indexed(e)))
                        /\ Awaits(x)' = Awaits(x)
        OBVIOUS
    <2>1. Indexed(x)' = (Indexed(x) /\ x # e)
        BY <1>2, <1>4, Zenon DEF Indexed
    <2>2. Bagged(x)' = (Bagged(x) \/ (x = e /\ Indexed(e)))
        BY <1>5, Zenon DEF Bagged
    <2> QED
        BY <2>1, <2>2, <1>1 DEF Awaits
<1>7. \A x \in held : IndexHandle(x)' = IndexHandle(x)
    BY <1>6, Zenon DEF IndexHandle
<1>8. /\ QueueHandle(e) /\ ~QueueHandle(e)'
      /\ \A x \in held \ {e} : QueueHandle(x)' = QueueHandle(x)
    BY <1>1 DEF EntryInv, OneQueueHandle, QueueHandle
<1>9. Protected'
    BY <1>1, <1>6, Zenon DEF EntryInv, EType, Protected
<1>10. SlabInv' /\ EType' /\ Counted' /\ refills' = refills /\ held' \subseteq held
    <2>1. queue' \subseteq held /\ garbage' \subseteq [e : held, waits : SUBSET Threads]
        BY <1>1 DEF EntryInv, EType
    <2> QED
        BY <1>1, <1>2, <1>4, <1>5, <1>7, <1>8, <1>9, <2>1, EntryDropped, Zenon
<1>11. OneIndexHandle'
    <2>1. \A i, j \in Keys : index'[i] = index'[j] /\ index'[i] # None => i = j
        BY <1>4, Zenon DEF EntryInv, OneIndexHandle
    <2>2. \A u, v \in Threads : \A x \in bag'[u] : x \in bag'[v] => u = v
        <3>1. Indexed(e) => ~Bagged(e)
            BY <1>2 DEF EntryInv, OneIndexHandle
        <3> QED
            BY <1>5, <3>1, SMTT(40) DEF EntryInv, OneIndexHandle, Bagged
    <2>3. \A x \in held : /\ Indexed(x)' => ~Bagged(x)' /\ ~Awaits(x)'
                          /\ Bagged(x)' => ~Awaits(x)'
        BY <1>6, Zenon DEF EntryInv, OneIndexHandle
    <2> QED
        BY <1>1, <1>10, <2>1, <2>2, <2>3, Zenon DEF EntryInv, OneIndexHandle
<1>12. OneQueueHandle'
    BY <1>1, SMTT(40) DEF EntryInv, OneQueueHandle
<1>13. Phases'
    BY <1>1, <1>7, <1>10 DEF EntryInv, EType, Phases, Running
<1> QED
    BY <1>9, <1>10, <1>11, <1>12, <1>13 DEF EntryInv

LEMMA EntryCompact ==
    ASSUME EntryInv, NEW t \in Threads, NEW e \in queue, Compact(t, e)
    PROVE  EntryInv'
<1>1. /\ queue' = queue \ {e} /\ Drop(t, e)
      /\ UNCHANGED <<pc, entry, ref, reply, index, bag, garbage>>
    BY SMTT(40) DEF Compact
<1>2. \A x : /\ Indexed(x)' = Indexed(x) /\ Bagged(x)' = Bagged(x) /\ Awaits(x)' = Awaits(x)
             /\ IndexHandle(x)' = IndexHandle(x)
    BY <1>1 DEF IndexHandle, Indexed, Bagged, Awaits
<1>3. /\ QueueHandle(e) /\ ~QueueHandle(e)'
      /\ \A x \in held \ {e} : QueueHandle(x)' = QueueHandle(x)
    BY <1>1 DEF EntryInv, OneQueueHandle, QueueHandle
<1>4. Protected'
    BY <1>1, <1>2, Zenon DEF EntryInv, Protected
<1>5. SlabInv' /\ EType' /\ Counted' /\ refills' = refills /\ held' \subseteq held
    <2>1. /\ e \in held /\ queue' \subseteq held
          /\ index' \in [Keys -> held \cup {None}] /\ bag' \in [Threads -> SUBSET held]
          /\ garbage' \subseteq [e : held, waits : SUBSET Threads]
        BY <1>1 DEF EntryInv, EType
    <2> QED
        BY <1>1, <1>2, <1>3, <1>4, <2>1, EntryDropped, SMTT(40)
<1>6. OneIndexHandle' /\ OneQueueHandle'
    BY <1>1, <1>2, <1>5, Zenon DEF EntryInv, OneIndexHandle, OneQueueHandle
<1>7. Phases'
    <2>1. Phases
        BY DEF EntryInv
    <2> QED
        BY <1>1, <1>2, <1>5, <2>1, Zenon DEF Phases, Running
<1> QED
    BY <1>4, <1>5, <1>6, <1>7 DEF EntryInv

LEMMA EntryReclaim ==
    ASSUME EntryInv, NEW t \in Threads, NEW g \in garbage, Reclaim(t, g)
    PROVE  EntryInv'
<1> DEFINE e == g.e
<1>1. /\ g.waits = {} /\ Drop(t, e) /\ garbage' = garbage \ {g}
      /\ UNCHANGED <<pc, entry, ref, reply, index, queue, bag>>
    BY Zenon DEF Reclaim
<1>2. e \in held /\ Awaits(e) /\ ~Indexed(e) /\ ~Bagged(e)
    BY DEF EntryInv, EType, OneIndexHandle, Awaits
<1>3. \A h \in garbage : h.e = e => h = g
    BY Zenon DEF EntryInv, OneIndexHandle
<1> HIDE DEF e
<1>4. \A x : /\ Indexed(x)' = Indexed(x) /\ Bagged(x)' = Bagged(x)
             /\ QueueHandle(x)' = QueueHandle(x)
             /\ Awaits(x)' = (Awaits(x) /\ x # e)
    <2> SUFFICES ASSUME NEW x
                 PROVE  Awaits(x)' = (Awaits(x) /\ x # e)
        BY <1>1, Zenon DEF Indexed, Bagged, QueueHandle
    <2> QED
        BY <1>1, <1>3, Zenon DEF Awaits, e
<1>5. /\ IndexHandle(e) /\ ~IndexHandle(e)'
      /\ \A x \in held \ {e} : IndexHandle(x)' = IndexHandle(x)
    BY <1>2, <1>4, Zenon DEF IndexHandle
<1>6. Protected'
    <2> SUFFICES ASSUME NEW u \in Threads, ref[u] # None
                 PROVE  /\ pc[u] # "out"
                        /\ \/ Indexed(ref[u]) \/ Bagged(ref[u])
                           \/ \E h \in garbage \ {g} : h.e = ref[u] /\ u \in h.waits
        BY <1>1, <1>4, Zenon DEF Protected
    <2> QED
        BY <1>1, Zenon DEF EntryInv, Protected
<1>7. SlabInv' /\ EType' /\ Counted' /\ refills' = refills /\ held' \subseteq held
    <2>1. /\ queue' \subseteq held
          /\ index' \in [Keys -> held \cup {None}] /\ bag' \in [Threads -> SUBSET held]
          /\ garbage' \subseteq [e : held, waits : SUBSET Threads]
        BY <1>1 DEF EntryInv, EType
    <2> QED
        BY <1>1, <1>2, <1>4, <1>5, <1>6, <2>1, EntryDropped, SMTT(40)
<1>8. OneIndexHandle' /\ OneQueueHandle'
    BY <1>1, <1>4, <1>7, Zenon DEF EntryInv, OneIndexHandle, OneQueueHandle
<1>9. Phases'
    BY <1>1, <1>4, <1>7, Zenon DEF EntryInv, Phases, Running, IndexHandle
<1> QED
    BY <1>6, <1>7, <1>8, <1>9 DEF EntryInv

LEMMA EntryUnlock ==
    ASSUME EntryInv, NEW t \in Threads, Unlock(t)
    PROVE  EntryInv'
<1>1. SlabInv' /\ UNCHANGED <<held, refills>>
    BY SlabSame DEF EntryInv, Unlock, vars
<1>2. /\ pc[t] = "locked" /\ queue' = queue \cup ({entry[t]} \ {None})
      /\ entry' = [entry EXCEPT ![t] = None] /\ pc' = [pc EXCEPT ![t] = "pinned"]
      /\ UNCHANGED <<ref, reply, rc, index, bag, garbage>>
    BY DEF Unlock
<1>3. \A u \in Threads : entry'[u] = IF u = t THEN None ELSE entry[u]
    BY <1>2 DEF EntryInv, EType
<1>4. None \notin held
    BY NoneHeld DEF EntryInv
<1>5. EType'
    BY <1>1, <1>2, SMTT(40) DEF EntryInv, EType
<1>6. OneIndexHandle' /\ Protected'
    BY <1>1, <1>2, SMTT(40) DEF EntryInv, EType, OneIndexHandle, Protected, Indexed, Bagged, Awaits
<1>7. OneQueueHandle'
    BY <1>2, <1>3, <1>4, SMTT(40) DEF EntryInv, EType, OneQueueHandle
<1>8. Counted'
    <2>1. \A x : IndexHandle(x)' = IndexHandle(x) /\ Replies(x)' = Replies(x)
        BY <1>2 DEF IndexHandle, Indexed, Bagged, Awaits, Replies
    <2>2. \A x \in held : QueueHandle(x)' = QueueHandle(x)
        BY <1>2, <1>3, <1>4, SMTT(40) DEF QueueHandle
    <2> QED
        BY <1>1, <1>2, <2>1, <2>2, SMTT(40) DEF EntryInv, Counted
<1>9. Phases'
    <2>1. Running(t)
        BY <1>2, Zenon DEF EntryInv, Phases
    <2> QED
        BY <1>1, <1>2, <1>3, <2>1 DEF EntryInv, EType, Phases, IndexHandle, Indexed, Bagged, Awaits, Running
<1> QED
    BY <1>1, <1>5, <1>6, <1>7, <1>8, <1>9, SMTT(40) DEF EntryInv

(* What a thread has deferred is flushed, to wait for all that are pinned. *)
LEMMA EntryFlush ==
    ASSUME EntryInv, SlabInv', NEW t \in Threads,
           UNCHANGED <<held, refills, pc, entry, reply, rc, index, queue>>,
           ref' \in [Threads -> held \cup {None}],
           \A u \in Threads : ref'[u] # None => ref'[u] = ref[u],
           bag' = [bag EXCEPT ![t] = {}], garbage' = garbage \cup Sealed(t)
    PROVE  EntryInv'
<1>1. \A u \in Threads : bag'[u] = IF u = t THEN {} ELSE bag[u]
    BY SMTT(40) DEF EntryInv, EType
<1>2. Sealed(t) = {[e |-> e, waits |-> Pinned] : e \in bag[t]}
    BY SMTT(40) DEF Sealed, Deferred
<1>3. \A x : /\ Indexed(x)' = Indexed(x) /\ QueueHandle(x)' = QueueHandle(x)
             /\ Replies(x)' = Replies(x)
    BY DEF Indexed, QueueHandle, Replies
<1>4. \A x : /\ Bagged(x)' = (Bagged(x) /\ x \notin bag[t])
             /\ Awaits(x)' = (Awaits(x) \/ x \in bag[t])
    <2> SUFFICES ASSUME NEW x
                 PROVE  /\ Bagged(x)' = (Bagged(x) /\ x \notin bag[t])
                        /\ Awaits(x)' = (Awaits(x) \/ x \in bag[t])
        OBVIOUS
    <2>1. Bagged(x)' = (Bagged(x) /\ x \notin bag[t])
        <3>1. ASSUME Bagged(x)' PROVE Bagged(x) /\ x \notin bag[t]
            BY <1>1, <3>1 DEF EntryInv, OneIndexHandle, Bagged
        <3>2. ASSUME Bagged(x), x \notin bag[t] PROVE Bagged(x)'
            BY <1>1, <3>2 DEF Bagged
        <3> QED
            BY <3>1, <3>2, Zenon DEF Bagged
    <2>2. (\E g \in Sealed(t) : g.e = x) <=> x \in bag[t]
        <3>1. ASSUME x \in bag[t] PROVE \E g \in Sealed(t) : g.e = x
            <4>1. [e |-> x, waits |-> Pinned] \in Sealed(t)
                BY <1>2, <3>1, SMTT(40)
            <4> QED
                BY <4>1, SMTT(40)
        <3>2. ASSUME NEW g \in Sealed(t), g.e = x PROVE x \in bag[t]
            <4>1. PICK y \in bag[t] : g = [e |-> y, waits |-> Pinned]
                BY <1>2
            <4> QED
                BY <3>2, <4>1, SMTT(40)
        <3> QED
            BY <3>1, <3>2
    <2>3. Awaits(x)' = (Awaits(x) \/ x \in bag[t])
        BY <2>2, Zenon DEF Awaits
    <2> QED
        BY <2>1, <2>3, SMTT(40)
<1>5. \A x : IndexHandle(x)' = IndexHandle(x)
    <2>1. \A x : x \in bag[t] => Bagged(x)
        BY DEF Bagged
    <2> QED
        BY <1>3, <1>4, <2>1, Zenon DEF IndexHandle
<1>6. EType'
    <2>1. Sealed(t) \subseteq [e : held, waits : SUBSET Threads]
        <3>1. bag[t] \subseteq held /\ Pinned \subseteq Threads
            BY DEF EntryInv, EType, Pinned
        <3> QED
            BY ONLY <1>2, <3>1
    <2> QED
        BY <2>1, SMTT(40) DEF EntryInv, EType
<1>7. OneIndexHandle'
    <2>1. \A u, v \in Threads : \A x \in bag'[u] : x \in bag'[v] => u = v
        BY <1>1, SMTT(40) DEF EntryInv, OneIndexHandle
    <2>2. \A g, h \in garbage' : g.e = h.e => g = h
        <3>1. \A g \in garbage : g.e \notin bag[t]
            BY DEF EntryInv, EType, OneIndexHandle, Bagged, Awaits
        <3>2. \A g \in Sealed(t) : g.e \in bag[t] /\ g = [e |-> g.e, waits |-> Pinned]
            BY <1>2
        <3>3. \A g, h \in garbage : g.e = h.e => g = h
            BY Zenon DEF EntryInv, OneIndexHandle
        <3> QED
            BY <3>1, <3>2, <3>3, SMTT(40)
    <2>3. \A x \in held : /\ Indexed(x)' => ~Bagged(x)' /\ ~Awaits(x)'
                          /\ Bagged(x)' => ~Awaits(x)'
        BY <1>3, <1>4, Zenon DEF EntryInv, OneIndexHandle, Bagged
    <2> QED
        BY <2>1, <2>2, <2>3, Zenon DEF EntryInv, OneIndexHandle
<1>8. Protected'
    <2> SUFFICES ASSUME NEW u \in Threads, ref'[u] # None
                 PROVE  /\ pc[u] # "out"
                        /\ \/ Indexed(ref[u])' \/ Bagged(ref[u])'
                           \/ \E g \in garbage' : g.e = ref'[u] /\ u \in g.waits
        BY Zenon DEF Protected
    <2>1. ref'[u] = ref[u] /\ ref[u] # None /\ pc[u] # "out"
        BY DEF EntryInv, Protected
    <2>2. CASE ref[u] \in bag[t]
        <3>1. [e |-> ref[u], waits |-> Pinned] \in garbage' /\ u \in Pinned
            BY <1>2, <2>1, <2>2, Zenon DEF Pinned
        <3> QED
            BY <2>1, <3>1, Zenon
    <2>3. CASE ref[u] \notin bag[t]
        <3>1. \/ Indexed(ref[u]) \/ Bagged(ref[u])
              \/ \E g \in garbage : g.e = ref[u] /\ u \in g.waits
            BY <2>1, Zenon DEF EntryInv, Protected
        <3>2. Indexed(ref[u]) => Indexed(ref[u])'
            BY <2>1, SMTT(40) DEF Indexed
        <3>3. Bagged(ref[u]) => Bagged(ref[u])'
            BY <1>1, <2>1, <2>3 DEF Bagged
        <3>4. garbage \subseteq garbage'
            OBVIOUS
        <3> QED
            BY ONLY <2>1, <3>1, <3>2, <3>3, <3>4, Zenon
    <2> QED
        BY <2>2, <2>3, Zenon
<1>9. OneQueueHandle' /\ Counted'
    BY <1>3, <1>5, Zenon DEF EntryInv, OneQueueHandle, Counted
<1>10. Phases'
    BY <1>5 DEF EntryInv, EType, Phases, Running
<1> QED
    BY <1>6, <1>7, <1>8, <1>9, <1>10, SMTT(40) DEF EntryInv

LEMMA EntryDone ==
    ASSUME EntryInv, NEW t \in Threads, Done(t)
    PROVE  EntryInv'
<1>1. SlabInv' /\ UNCHANGED <<held, refills, pc, entry, reply, rc, index, queue>>
    <2>1. SlabInv /\ UNCHANGED vars
        BY Zenon DEF EntryInv, Done
    <2> QED
        BY <2>1, SlabSame, Zenon DEF Done, vars
<1>2. /\ ref' \in [Threads -> held \cup {None}]
      /\ \A u \in Threads : ref'[u] # None => ref'[u] = ref[u]
    BY DEF EntryInv, EType, Done
<1>3. CASE bag' = [bag EXCEPT ![t] = {}] /\ garbage' = garbage \cup Sealed(t)
    BY <1>1, <1>2, <1>3, EntryFlush, Zenon
<1>4. CASE UNCHANGED <<bag, garbage>>
    <2>1. \A x : /\ Indexed(x)' = Indexed(x) /\ Bagged(x)' = Bagged(x) /\ Awaits(x)' = Awaits(x)
                 /\ IndexHandle(x)' = IndexHandle(x)
                 /\ QueueHandle(x)' = QueueHandle(x) /\ Replies(x)' = Replies(x)
        BY <1>1, <1>4, Zenon DEF IndexHandle, Indexed, Bagged, Awaits, QueueHandle, Replies
    <2>2. EType' /\ OneIndexHandle' /\ OneQueueHandle' /\ Counted'
        BY <1>1, <1>2, <1>4, <2>1, Zenon DEF EntryInv, EType, OneIndexHandle, OneQueueHandle, Counted
    <2>3. Protected' /\ Phases'
        BY <1>1, <1>2, <1>4, <2>1, SMTT(40) DEF EntryInv, EType, Protected, Phases, Running, Indexed, Bagged
    <2> QED
        BY <1>1, <2>2, <2>3 DEF EntryInv
<1> QED
    BY <1>3, <1>4, Zenon DEF Done

LEMMA EntryLeave ==
    ASSUME EntryInv, NEW t \in Threads, Leave(t)
    PROVE  EntryInv'
<1>1. SlabInv' /\ UNCHANGED <<held, refills>>
    BY SlabExit DEF EntryInv, Leave
<1>2. /\ UNCHANGED <<pc, entry, ref, reply, rc, index, queue>>
      /\ bag' = [bag EXCEPT ![t] = {}] /\ garbage' = garbage \cup Sealed(t)
    BY DEF Leave
<1>3. ref' \in [Threads -> held \cup {None}]
    BY <1>2 DEF EntryInv, EType
<1> QED
    BY <1>1, <1>2, <1>3, EntryFlush, Zenon

LEMMA EntryUnpin ==
    ASSUME EntryInv, NEW t \in Threads, Unpin(t)
    PROVE  EntryInv'
<1>1. SlabInv' /\ UNCHANGED <<held, refills>>
    BY SlabSame DEF EntryInv, Unpin, vars
<1>2. /\ Running(t) /\ entry[t] = None /\ ref[t] = None
      /\ pc' = [pc EXCEPT ![t] = "out"]
      /\ UNCHANGED <<entry, ref, reply, rc, index, queue, bag>>
    BY Zenon DEF Unpin
<1>3. garbage' = {[e |-> g.e, waits |-> g.waits \ {t}] : g \in garbage}
    BY SMTT(40) DEF Unpin, Deferred
<1>4. \A x : /\ Indexed(x)' = Indexed(x) /\ Bagged(x)' = Bagged(x) /\ Awaits(x)' = Awaits(x)
             /\ QueueHandle(x)' = QueueHandle(x) /\ Replies(x)' = Replies(x)
    <2>1. ASSUME NEW x, NEW g \in garbage, g.e = x PROVE \E h \in garbage' : h.e = x
        <3>1. [e |-> g.e, waits |-> g.waits \ {t}] \in garbage'
            BY <1>3, Zenon
        <3> QED
            BY <2>1, <3>1, SMTT(40)
    <2>2. ASSUME NEW x, NEW h \in garbage', h.e = x PROVE \E g \in garbage : g.e = x
        <3>1. PICK g \in garbage : h = [e |-> g.e, waits |-> g.waits \ {t}]
            BY <1>3
        <3> QED
            BY <2>2, <3>1
    <2>3. \A x : Awaits(x)' = Awaits(x)
        BY <2>1, <2>2 DEF Awaits
    <2> QED
        BY <1>2, <2>3, SMTT(40) DEF Indexed, Bagged, QueueHandle, Replies
<1>5. \A x : IndexHandle(x)' = IndexHandle(x)
    BY <1>4, SMTT(40) DEF IndexHandle
<1>6. EType'
    <2>1. garbage' \subseteq [e : held, waits : SUBSET Threads]
        BY <1>3 DEF EntryInv, EType
    <2> QED
        BY <1>1, <1>2, <2>1, SMTT(40) DEF EntryInv, EType
<1>7. OneIndexHandle'
    <2>1. \A g, h \in garbage' : g.e = h.e => g = h
        BY <1>3, SMTT(40) DEF EntryInv, OneIndexHandle
    <2> QED
        BY <1>1, <1>2, <1>4, <2>1, Zenon DEF EntryInv, OneIndexHandle
<1>8. OneQueueHandle' /\ Counted'
    BY <1>1, <1>2, <1>4, <1>5, Zenon DEF EntryInv, OneQueueHandle, Counted
<1>9. Protected'
    <2> SUFFICES ASSUME NEW u \in Threads, ref[u] # None
                 PROVE  /\ pc'[u] # "out"
                        /\ \/ Indexed(ref[u]) \/ Bagged(ref[u])
                           \/ \E g \in garbage' : g.e = ref[u] /\ u \in g.waits
        BY <1>2, <1>4, Zenon DEF Protected
    <2>1. u # t /\ pc'[u] = pc[u] /\ pc[u] # "out"
        BY <1>2, SMTT(40) DEF EntryInv, EType, Protected
    <2>2. CASE \E g \in garbage : g.e = ref[u] /\ u \in g.waits
        <3>1. PICK g \in garbage : g.e = ref[u] /\ u \in g.waits
            BY <2>2, SMTT(40)
        <3>2. [e |-> g.e, waits |-> g.waits \ {t}] \in garbage'
            BY <1>3, Zenon
        <3> QED
            BY <2>1, <3>1, <3>2, Zenon
    <2> QED
        BY <2>1, <2>2, Zenon DEF EntryInv, Protected
<1>10. Phases'
    BY <1>1, <1>2, <1>5 DEF EntryInv, EType, Phases, Running
<1> QED
    BY <1>1, <1>6, <1>7, <1>8, <1>9, <1>10, SMTT(40) DEF EntryInv

LEMMA EntryStep == EntryInv /\ [ENext]_<<vars, evars>> => EntryInv'
<1> SUFFICES ASSUME EntryInv, [ENext]_<<vars, evars>> PROVE EntryInv'
    OBVIOUS
<1>1. CASE UNCHANGED <<vars, evars>>
    <2>1. SlabInv' /\ UNCHANGED <<held, refills>>
        BY <1>1, SlabSame DEF EntryInv, vars
    <2>2. UNCHANGED <<pc, entry, ref, reply, rc, index, queue, bag, garbage>>
        BY <1>1, SMTT(40) DEF evars
    <2>3. \A x : /\ Indexed(x)' = Indexed(x) /\ Bagged(x)' = Bagged(x) /\ Awaits(x)' = Awaits(x)
                 /\ IndexHandle(x)' = IndexHandle(x)
                 /\ QueueHandle(x)' = QueueHandle(x) /\ Replies(x)' = Replies(x)
        BY <2>2, Zenon DEF IndexHandle, Indexed, Bagged, Awaits, QueueHandle, Replies
    <2>4. EType'
        BY <2>1, <2>2, Zenon DEF EntryInv, EType
    <2>5. OneIndexHandle' /\ OneQueueHandle' /\ Counted'
        BY <2>1, <2>2, <2>3, Zenon DEF EntryInv, OneIndexHandle, OneQueueHandle, Counted
    <2>6. Protected' /\ Phases'
        BY <2>1, <2>2, <2>3, Zenon DEF EntryInv, Protected, Phases, Running
    <2> QED
        BY <2>1, <2>4, <2>5, <2>6 DEF EntryInv
<1>2. CASE ENext
    <2>1. PICK t \in Threads :
              \/ Pin(t) \/ NewCarved(t) \/ Unlock(t) \/ Done(t) \/ Unpin(t) \/ Leave(t)
              \/ \E k \in Keys : Borrow(t, k) \/ Insert(t, k) \/ Del(t, k)
              \/ \E c \in Classes : New(t, c)
              \/ \E e \in queue : Evict(t, e) \/ Compact(t, e)
              \/ \E conn \in Conns : Reply(t, conn) \/ Sent(t, conn)
              \/ \E g \in garbage : Reclaim(t, g)
        BY <1>2 DEF ENext
    <2> QED
        BY <2>1, EntryPin, EntryNewCarved, EntryUnlock, EntryDone, EntryUnpin, EntryLeave,
           EntryBorrow, EntryInsert, EntryDel, EntryNew, EntryEvict, EntryCompact,
           EntryReply, EntrySent, EntryReclaim
<1> QED
    BY <1>1, <1>2

-----------------------------------------------------------------------------
(* What the invariant says of the counts.                                   *)

LEMMA AtMostOne ==
    ASSUME NEW S, \A x, y \in S : x = y
    PROVE  Cardinality(S) = One(S # {})
<1>1. CASE S = {}
    BY <1>1, FS_EmptySet DEF One
<1>2. CASE S # {}
    <2>1. PICK x \in S : TRUE
        BY <1>2
    <2>2. S = {x}
        BY <2>1, SMTT(40)
    <2> QED
        BY <1>2, <2>2, FS_Singleton DEF One
<1> QED
    BY <1>1, <1>2

LEMMA HandlesCounted ==
    ASSUME EntryInv, NEW e \in held
    PROVE  rc[e] = Handles(e)
<1> DEFINE made == One(\E t \in Threads : entry[t] = e)
           queued == One(e \in queue)
<1>1. e # None
    BY NoneHeld DEF EntryInv
<1>2. Cardinality({k \in Keys : index[k] = e}) = One(Indexed(e))
    <2>1. Cardinality({k \in Keys : index[k] = e}) = One({k \in Keys : index[k] = e} # {})
        BY <1>1, AtMostOne, SMTT(40) DEF EntryInv, OneIndexHandle
    <2> QED
        BY <2>1, SMTT(40) DEF Indexed, One
<1>3. Cardinality({t \in Threads : e \in bag[t]}) = One(Bagged(e))
    <2>1. Cardinality({t \in Threads : e \in bag[t]}) = One({t \in Threads : e \in bag[t]} # {})
        BY AtMostOne DEF EntryInv, OneIndexHandle
    <2> QED
        BY <2>1, SMTT(40) DEF Bagged, One
<1>4. Cardinality({g \in garbage : g.e = e}) = One(Awaits(e))
    <2>1. Cardinality({g \in garbage : g.e = e}) = One({g \in garbage : g.e = e} # {})
        BY AtMostOne, Zenon DEF EntryInv, OneIndexHandle
    <2> QED
        BY <2>1 DEF Awaits, One
<1>5. Cardinality({e} \cap queue) = queued
    <2>1. Cardinality({e} \cap queue) = One({e} \cap queue # {})
        BY AtMostOne
    <2> QED
        BY <2>1 DEF One
<1>6. Cardinality({t \in Threads : entry[t] = e}) = made
    <2>1. Cardinality({t \in Threads : entry[t] = e}) = One({t \in Threads : entry[t] = e} # {})
        BY <1>1, AtMostOne, SMTT(40) DEF EntryInv, OneQueueHandle
    <2> QED
        BY <2>1 DEF One
<1>7. One(IndexHandle(e)) = One(Indexed(e)) + One(Bagged(e)) + One(Awaits(e))
    BY DEF EntryInv, OneIndexHandle, IndexHandle, One
<1>8. One(QueueHandle(e)) = queued + made
    BY DEF EntryInv, OneQueueHandle, QueueHandle, One
<1>9. rc[e] = One(IndexHandle(e)) + One(QueueHandle(e)) + Cardinality(Replies(e))
    BY DEF EntryInv, Counted
<1>10. {One(Indexed(e)), One(Bagged(e)), One(Awaits(e)), queued,
        made, Cardinality(Replies(e))} \subseteq Nat
    BY RepliesFinite DEF One
<1>11. Handles(e) = One(Indexed(e)) + queued + made
                    + Cardinality(Replies(e)) + One(Bagged(e)) + One(Awaits(e))
    BY <1>2, <1>3, <1>4, <1>5, <1>6, Zenon DEF Handles, Replies
<1> HIDE DEF made, queued
<1> QED
    BY <1>7, <1>8, <1>9, <1>10, <1>11

LEMMA InvLive == EntryInv => EntriesLive
<1> SUFFICES ASSUME EntryInv PROVE EntriesLive
    OBVIOUS
<1>1. Referred \subseteq held
    BY DEF EntryInv, EType, Referred, Range
<1>2. DOMAIN rc = held /\ \A e \in held : rc[e] > 0
    BY DEF EntryInv, EType
<1> QED
    BY <1>1, <1>2, HandlesCounted DEF EntriesLive

(* However threads interleave, what a thread, a queue, the index, a queued
   reply or the collector refers to has not gone back to the slab (Entry::drop),
   and its count is the number of its handles. *)
THEOREM EntriesStayLive == ESpec => []EntriesLive
<1>1. EInit => EntryInv
    BY EntryInit
<1>2. EntryInv /\ [ENext]_<<vars, evars>> => EntryInv'
    BY EntryStep
<1>3. EntryInv => EntriesLive
    BY InvLive
<1> QED
    BY <1>1, <1>2, <1>3, PTL DEF ESpec

(* The slab never hands out memory twice: a chunk is on one list of its class
   (a free list, a magazine or in use), and no two chunks overlap. *)
THEOREM ChunksApart == ESpec => [](OnOneList /\ Apart)
<1>1. EInit => EntryInv
    BY EntryInit
<1>2. EntryInv /\ [ENext]_<<vars, evars>> => EntryInv'
    BY EntryStep
<1>3. EntryInv => OnOneList /\ Apart
    BY DEF EntryInv, SlabInv
<1> QED
    BY <1>1, <1>2, <1>3, PTL DEF ESpec
=============================================================================
