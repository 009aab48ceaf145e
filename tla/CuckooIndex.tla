---------------------------- MODULE CuckooIndex -----------------------------
(***************************************************************************)
(* The per-shard cuckoo index (crates/server/src/cache/table.rs): one      *)
(* writer, under the shard mutex, and readers that take no lock.           *)
(*                                                                         *)
(* Every load and store of a slot word, of the seqlock and of the table    *)
(* pointer that another thread can see is a step of its own.  The steps    *)
(* are sequentially consistent: what the code's acquire, release and fence *)
(* orderings are there to give.  Tags only save comparing keys, and are    *)
(* left out; the hash of a key is what Home and Alt make of it.            *)
(***************************************************************************)
EXTENDS Naturals, Sequences, FiniteSets

CONSTANTS
    Keys,
    Words,          \* the entries a slot may point to: their key, and which of its values
    Empty,          \* the zero slot word; also the answer of a lookup that misses
    Readers,
    Sought,         \* bound: the keys the readers look up
    SLOTS,          \* slots per bucket (8)
    MIN_BUCKETS,    \* buckets of the first table (64)
    MAX_LOAD,       \* grow when len * 8 reaches this many eighths (7)
    MAX_KICKS,      \* longest displacement path (256)
    MaxGrowth,      \* bound: how often the table may double; then no write begins
    MaxMoving,      \* bound: displacements begin while moving is below this
    Home(_, _),     \* Home(g, k): the home bucket of k after g doublings
    Alt(_, _, _)    \* Alt(g, b, k): the other bucket of k, when it is in b

VARIABLES
    tables,   \* g -> the table of MIN_BUCKETS * 2^g buckets, slot -> word
    cur,      \* which of them ReadHot::table points to
    moving,   \* the displacement seqlock
    len,      \* WriteHot::len
    writer,   \* the operation that holds the writer token
    reader,   \* reader -> its lookup
    seen      \* history: the values a reader's key had since its lookup began

vars == <<tables, cur, moving, len, writer, reader, seen>>

Buckets(g) == 0..(MIN_BUCKETS * 2^g - 1)
SlotsOf(b) == {<<b, i>> : i \in 1..SLOTS}
Slots(g) == Buckets(g) \X (1..SLOTS)

(***************************************************************************)
(* The two tables' worth of facts the algorithm rests on: a key's buckets  *)
(* are buckets, they differ, and Alt leads back.                           *)
(***************************************************************************)
ASSUME AltAssumption ==
    \A g \in 0..MaxGrowth, k \in Keys :
        /\ Home(g, k) \in Buckets(g)
        /\ \A b \in Buckets(g) :
              /\ Alt(g, b, k) \in Buckets(g) \ {b}
              /\ Alt(g, Alt(g, b, k), k) = b

Candidates(g, k) == {Home(g, k), Alt(g, Home(g, k), k)}

EmptyTable(g) == [s \in Slots(g) |-> Empty]

(***************************************************************************)
(* find, as the single writer runs it on a table t: where k is.            *)
(***************************************************************************)
Holding(t, k) == {s \in DOMAIN t : t[s] # Empty /\ t[s].k = k}
Found(g, t, k) == {s \in Holding(t, k) : s[1] \in Candidates(g, k)}

(***************************************************************************)
(* The value a lookup of k would return if nothing moved.                  *)
(***************************************************************************)
ValueIn(t, k) == IF Holding(t, k) = {} THEN Empty
                 ELSE t[CHOOSE s \in Holding(t, k) : TRUE].v

(***************************************************************************)
(* empty_slot: the first empty slot of bucket b.                           *)
(***************************************************************************)
HasEmpty(t, b) == \E s \in SlotsOf(b) : t[s] = Empty
empty_slot(t, b) ==
    CHOOSE s \in SlotsOf(b) : t[s] = Empty /\ \A i \in 1..(s[2] - 1) : t[<<b, i>>] # Empty

(***************************************************************************)
(* Where place puts k without moving anything: its home bucket first.      *)
(***************************************************************************)
Roomy(g, t, k) == \E b \in Candidates(g, k) : HasEmpty(t, b)
Direct(g, t, k) == IF HasEmpty(t, Home(g, k)) THEN empty_slot(t, Home(g, k))
                   ELSE empty_slot(t, Alt(g, Home(g, k), k))

(***************************************************************************)
(* find_path: the walks of at most MAX_KICKS slots from a bucket of k to   *)
(* one with room, never through a slot twice.  Its pseudo-random choices   *)
(* are any choice, and it may give up on any of them.                      *)
(***************************************************************************)
After(g, t, p) == Alt(g, p[Len(p)][1], t[p[Len(p)]].k)
In(p, s) == \E i \in 1..Len(p) : p[i] = s

Walks(g, t, k) ==
    LET W[n \in 1..MAX_KICKS] ==
          IF n = 1 THEN {<<s>> : s \in UNION {SlotsOf(b) : b \in Candidates(g, k)}}
          ELSE UNION {{Append(p, s) : s \in {x \in SlotsOf(After(g, t, p)) : ~In(p, x)}}
                      : p \in {q \in W[n - 1] : ~HasEmpty(t, After(g, t, q))}}
    IN  {p \in UNION {W[n] : n \in 1..MAX_KICKS} : HasEmpty(t, After(g, t, p))}

Dest(g, t, p) == empty_slot(t, After(g, t, p))

(***************************************************************************)
(* A path applied backwards, last hop first, and the word w put in the     *)
(* slot it freed: what place does to a table no reader can see.            *)
(***************************************************************************)
Applied(g, t, p, w) ==
    [s \in DOMAIN t |->
        IF s = p[1] THEN w
        ELSE IF s = Dest(g, t, p) THEN t[p[Len(p)]]
        ELSE IF In(p, s) THEN t[p[(CHOOSE i \in 1..Len(p) : p[i] = s) - 1]]
        ELSE t[s]]
-----------------------------------------------------------------------------
NoWrite == [pc |-> "idle", w |-> Empty, path |-> <<>>, dest |-> Empty, g |-> 0, todo |-> <<>>]
NoRead == [pc |-> "idle", k |-> Empty, seq |-> 0, g |-> 0, left |-> <<>>, res |-> Empty]

Init ==
    /\ tables = [g \in 0..MaxGrowth |-> EmptyTable(g)]
    /\ cur = 0
    /\ moving = 0
    /\ len = 0
    /\ writer = NoWrite
    /\ reader = [r \in Readers |-> NoRead]
    /\ seen = [r \in Readers |-> {}]

(***************************************************************************)
(* History: every step adds the values it leaves to what running lookups   *)
(* have seen.                                                              *)
(***************************************************************************)
Observe ==
    seen' = [r \in Readers |->
               IF reader'[r].pc = "idle" THEN {}
               ELSE seen[r] \cup {ValueIn(tables'[cur'], reader'[r].k)}]

Store(g, s, w) == tables' = [tables EXCEPT ![g][s] = w]
-----------------------------------------------------------------------------
(***************************************************************************)
(* insert of a key the table has: its word is overwritten in place.        *)
(***************************************************************************)
Replace(w) ==
    /\ writer.pc = "idle"
    /\ \E s \in Found(cur, tables[cur], w.k) : Store(cur, s, w)
    /\ UNCHANGED <<cur, moving, len, writer, reader>>
    /\ Observe

\* Mutant of Occupied: the last slot of a bucket is not carried over.
OccupiedButLast(t) ==
    LET before(x, y) == x[1] < y[1] \/ (x[1] = y[1] /\ x[2] < y[2])
        occ == {s \in DOMAIN t : t[s] # Empty /\ s[2] < SLOTS}
    IN  [n \in 1..Cardinality(occ) |->
            CHOOSE s \in occ : Cardinality({x \in occ : before(x, s)}) = n - 1]

(***************************************************************************)
(* grow begins: the words of the table the readers use, in slot order, are *)
(* to be placed in a fresh table of the next size.                         *)
(***************************************************************************)
Occupied(t) ==
    LET before(x, y) == x[1] < y[1] \/ (x[1] = y[1] /\ x[2] < y[2])
        occ == {s \in DOMAIN t : t[s] # Empty}
    IN  [n \in 1..Cardinality(occ) |->
            CHOOSE s \in occ : Cardinality({x \in occ : before(x, s)}) = n - 1]

BeginGrow(w, g) ==
    [NoWrite EXCEPT !.pc = "grow", !.w = w, !.g = g, !.todo = Occupied(tables[cur])]

Full == len * 8 >= Cardinality(Slots(cur)) * MAX_LOAD

(***************************************************************************)
(* insert of a key the table does not have: grow a full table first.       *)
(***************************************************************************)
Insert(w) ==
    /\ writer.pc = "idle"
    /\ Found(cur, tables[cur], w.k) = {}
    /\ \/ /\ ~Full
          /\ writer' = [NoWrite EXCEPT !.pc = "place", !.w = w]
       \/ /\ Full
          /\ cur < MaxGrowth
          /\ writer' = BeginGrow(w, cur + 1)
    /\ UNCHANGED <<tables, cur, moving, len, reader>>
    /\ Observe

PlaceDirect ==
    /\ writer.pc = "place"
    /\ Roomy(cur, tables[cur], writer.w.k)
    /\ Store(cur, Direct(cur, tables[cur], writer.w.k), writer.w)
    /\ len' = len + 1
    /\ writer' = NoWrite
    /\ UNCHANGED <<cur, moving, reader>>
    /\ Observe

(***************************************************************************)
(* place found a path in the live table: moving becomes odd, and the hops  *)
(* follow one at a time.                                                   *)
(***************************************************************************)
BeginMove ==
    /\ writer.pc = "place"
    /\ ~Roomy(cur, tables[cur], writer.w.k)
    /\ moving < MaxMoving
    /\ \E p \in Walks(cur, tables[cur], writer.w.k) :
          writer' = [writer EXCEPT !.pc = "move", !.path = p,
                                   !.dest = Dest(cur, tables[cur], p)]
    /\ moving' = moving + 1
    /\ UNCHANGED <<tables, cur, len, reader>>
    /\ Observe

MoveHop ==
    /\ writer.pc = "move"
    /\ writer.path # <<>>
    /\ LET last == writer.path[Len(writer.path)]
       IN  /\ Store(cur, writer.dest, tables[cur][last])
           /\ writer' = [writer EXCEPT !.dest = last,
                                       !.path = SubSeq(@, 1, Len(@) - 1)]
    /\ UNCHANGED <<cur, moving, len, reader>>
    /\ Observe

MoveStore ==
    /\ writer.pc = "move"
    /\ writer.path = <<>>
    /\ Store(cur, writer.dest, writer.w)
    /\ writer' = [writer EXCEPT !.pc = "settle"]
    /\ UNCHANGED <<cur, moving, len, reader>>
    /\ Observe

\* Mutant of Settle: moving stays odd.
SettleStillOdd ==
    /\ writer.pc = "settle"
    /\ len' = len + 1
    /\ writer' = NoWrite
    /\ UNCHANGED <<tables, cur, moving, reader>>
    /\ Observe

Settle ==
    /\ writer.pc = "settle"
    /\ moving' = moving + 1
    /\ len' = len + 1
    /\ writer' = NoWrite
    /\ UNCHANGED <<tables, cur, reader>>
    /\ Observe

(***************************************************************************)
(* find_path found nothing: insert grows the table and places again.       *)
(***************************************************************************)
PlaceFails ==
    /\ writer.pc = "place"
    /\ ~Roomy(cur, tables[cur], writer.w.k)
    /\ cur < MaxGrowth
    /\ writer' = BeginGrow(writer.w, cur + 1)
    /\ UNCHANGED <<tables, cur, moving, len, reader>>
    /\ Observe

(***************************************************************************)
(* grow places the next word in the fresh table, which no reader sees yet. *)
(* When the word finds no place, a table twice as big is started afresh.   *)
(***************************************************************************)
GrowPlace ==
    /\ writer.pc = "grow"
    /\ writer.todo # <<>>
    /\ LET w == tables[cur][Head(writer.todo)]
           g == writer.g
           t == tables[g]
       IN  \/ /\ Roomy(g, t, w.k)
              /\ Store(g, Direct(g, t, w.k), w)
              /\ writer' = [writer EXCEPT !.todo = Tail(@)]
           \/ /\ ~Roomy(g, t, w.k)
              /\ \E p \in Walks(g, t, w.k) :
                    tables' = [tables EXCEPT ![g] = Applied(g, t, p, w)]
              /\ writer' = [writer EXCEPT !.todo = Tail(@)]
           \/ /\ ~Roomy(g, t, w.k)
              /\ g < MaxGrowth
              /\ tables' = [tables EXCEPT ![g] = EmptyTable(g)]
              /\ writer' = BeginGrow(writer.w, g + 1)
    /\ UNCHANGED <<cur, moving, len, reader>>
    /\ Observe

(***************************************************************************)
(* grow publishes the fresh table with one pointer store.  The old one is  *)
(* never written again, and lives while a pinned reader may hold it.       *)
(***************************************************************************)
GrowPublish ==
    /\ writer.pc = "grow"
    /\ writer.todo = <<>>
    /\ cur' = writer.g
    /\ writer' = [NoWrite EXCEPT !.pc = "place", !.w = writer.w]
    /\ UNCHANGED <<tables, moving, len, reader>>
    /\ Observe

(***************************************************************************)
(* remove, and remove_if_same for the entry v the key maps to.             *)
(***************************************************************************)
Remove(k) ==
    /\ writer.pc = "idle"
    /\ \E s \in Found(cur, tables[cur], k) : Store(cur, s, Empty)
    /\ len' = len - 1
    /\ UNCHANGED <<cur, moving, writer, reader>>
    /\ Observe
-----------------------------------------------------------------------------
(***************************************************************************)
(* get: load moving, load the table pointer, then the slots of the home    *)
(* bucket and of the alternate one.                                        *)
(***************************************************************************)
ScanOrder(g, k) ==
    [i \in 1..(2 * SLOTS) |->
        IF i <= SLOTS THEN <<Home(g, k), i>> ELSE <<Alt(g, Home(g, k), k), i - SLOTS>>]

Get(r, k) ==
    /\ reader[r].pc = "idle"
    /\ reader' = [reader EXCEPT ![r].pc = "load", ![r].k = k, ![r].seq = moving]
    /\ UNCHANGED <<tables, cur, moving, len, writer>>
    /\ Observe

LoadTable(r) ==
    /\ reader[r].pc = "load"
    /\ reader' = [reader EXCEPT ![r].pc = "find", ![r].g = cur,
                                ![r].left = ScanOrder(cur, reader[r].k)]
    /\ UNCHANGED <<tables, cur, moving, len, writer>>
    /\ Observe

FindSlot(r) ==
    /\ reader[r].pc = "find"
    /\ reader[r].left # <<>>
    /\ LET w == tables[reader[r].g][Head(reader[r].left)]
       IN  reader' = IF w # Empty /\ w.k = reader[r].k
                     THEN [reader EXCEPT ![r].pc = "done", ![r].res = w.v, ![r].left = <<>>]
                     ELSE [reader EXCEPT ![r].left = Tail(@)]
    /\ UNCHANGED <<tables, cur, moving, len, writer>>
    /\ Observe

\* Mutant of Undisturbed: moving is not loaded again after the lookup.
UndisturbedAtStart(r) == reader[r].seq % 2 = 0

(***************************************************************************)
(* A miss counts only if no displacement overlapped the lookup; otherwise  *)
(* get starts again.                                                       *)
(***************************************************************************)
Undisturbed(r) == reader[r].seq % 2 = 0 /\ moving = reader[r].seq

Miss(r) ==
    /\ reader[r].pc = "find"
    /\ reader[r].left = <<>>
    /\ reader' = IF Undisturbed(r)
                 THEN [reader EXCEPT ![r].pc = "done", ![r].res = Empty]
                 ELSE [reader EXCEPT ![r].pc = "again"]
    /\ UNCHANGED <<tables, cur, moving, len, writer>>
    /\ Observe

Again(r) ==
    /\ reader[r].pc = "again"
    /\ reader' = [reader EXCEPT ![r].pc = "load", ![r].seq = moving]
    /\ UNCHANGED <<tables, cur, moving, len, writer>>
    /\ Observe

Return(r) ==
    /\ reader[r].pc = "done"
    /\ reader' = [reader EXCEPT ![r] = NoRead]
    /\ UNCHANGED <<tables, cur, moving, len, writer>>
    /\ Observe

Write == /\ cur < MaxGrowth
         /\ \/ \E w \in Words : Replace(w) \/ Insert(w)
            \/ \E k \in Keys : Remove(k)
Work == \/ PlaceDirect \/ BeginMove \/ MoveHop \/ MoveStore \/ Settle
        \/ PlaceFails \/ GrowPlace \/ GrowPublish
Step(r) == LoadTable(r) \/ FindSlot(r) \/ Miss(r) \/ Again(r) \/ Return(r)

Next == Write \/ Work \/ \E r \in Readers : Step(r) \/ \E k \in Sought : Get(r, k)

Spec == Init /\ [][Next]_vars
-----------------------------------------------------------------------------
(***************************************************************************)
(* Every variable has its type, and a slot on a path, to be filled or to   *)
(* be read, is a slot of its table: what slot() and bucket() assume when   *)
(* they skip the bounds check.                                             *)
(***************************************************************************)
TypeOK ==
    /\ cur \in 0..MaxGrowth
    /\ \A g \in 0..MaxGrowth : tables[g] \in [Slots(g) -> Words \cup {Empty}]
    /\ moving \in Nat
    /\ len \in Nat
    /\ \A i \in 1..Len(writer.path) : writer.path[i] \in Slots(cur)
    /\ writer.pc \in {"move", "settle"} => writer.dest \in Slots(cur)
    /\ \A i \in 1..Len(writer.todo) : writer.todo[i] \in Slots(cur)
    /\ \A r \in Readers : \A i \in 1..Len(reader[r].left) :
          reader[r].left[i] \in Slots(reader[r].g)

(***************************************************************************)
(* Between operations the index is a map: len words, one per key, each in  *)
(* one of the two buckets where find looks for its key.  And no insert     *)
(* leaves moving odd, which would spin every later lookup that misses.     *)
(* (TypeOK is part of it.)                                                 *)
(***************************************************************************)
IsMap ==
    /\ TypeOK
    /\ writer.pc \in {"idle", "place", "grow"} =>
          LET t == tables[cur]
          IN  /\ moving % 2 = 0
              /\ len = Cardinality({s \in Slots(cur) : t[s] # Empty})
              /\ \A k \in Keys : /\ Holding(t, k) = Found(cur, t, k)
                                 /\ Cardinality(Holding(t, k)) <= 1

(***************************************************************************)
(* grow loses, changes or doubles no word: the table it publishes maps     *)
(* every key as the old one did, from a bucket where find looks for it,    *)
(* however often the growth had to displace words or to start again.       *)
(***************************************************************************)
GrowthKeepsMap ==
    [][cur' # cur =>
          LET old == tables[cur]
              new == tables'[cur']
          IN  \A k \in Keys : /\ ValueIn(new, k) = ValueIn(old, k)
                              /\ Holding(new, k) = Found(cur', new, k)
                              /\ Cardinality(Holding(new, k)) <= 1]_vars

(***************************************************************************)
(* "a present key is never invisible to a concurrent reader", and more:    *)
(* what get returns, an entry or a miss, is what the key mapped to at some *)
(* moment of the lookup, whatever displacements, replacements, removals    *)
(* and growths ran meanwhile.                                              *)
(***************************************************************************)
GetLinearizable ==
    \A r \in Readers : reader[r].pc = "done" => reader[r].res \in seen[r]
=============================================================================
