------------------------------- MODULE S3Fifo -------------------------------
(***************************************************************************)
(* One shard of the cache (crates/server/src/cache/s3fifo.rs): the key     *)
(* index, the small and main queues, the ghost list and the byte counters. *)
(*                                                                         *)
(* SET and DEL run under the shard's mutex; GET takes no lock.  A SET is   *)
(* several steps: it publishes the new entry in the index, evicts one      *)
(* entry per step until the new one fits, and only then queues it.  While  *)
(* it does, readers find entries and bump their frequency.                 *)
(*                                                                         *)
(* The index is the map it promises to be.  A hash stands for its key: the *)
(* ghost list remembers keys.                                              *)
(***************************************************************************)
EXTENDS QueueOps

CONSTANTS
    Keys,         \* the keys of this shard
    Entries,      \* identities of entry allocations
    Readers,      \* threads serving GETs
    None,         \* no entry
    Costs,        \* key + value + ENTRY_OVERHEAD bytes of the entries written
    Capacity,     \* the shard's byte budget
    SmallDiv,     \* the small queue's share is Capacity \div SmallDiv (10)
    DeadDiv,      \* dead entries may hold Capacity \div DeadDiv bytes (4)
    FREQ_CAP,     \* highest frequency an entry can have (3)
    GHOST_MIN,    \* the ghost list may always have this many hashes (64)
    CounterWrap   \* the evictions counter wraps at this value (2^64)

ASSUME NoneAssumption ==
    /\ None \notin Entries \cup Keys
    /\ None \notin [v : Entries, c : 0..Capacity]

ASSUME BudgetAssumption ==
    /\ Costs \subseteq Nat \ {0}
    /\ Capacity \in Nat
    /\ SmallDiv \in Nat \ {0}
    /\ DeadDiv \in Nat \ {0}
    /\ FREQ_CAP \in Nat
    /\ GHOST_MIN \in Nat
    /\ CounterWrap \in Nat \ {0}

VARIABLES
    index,        \* key -> the entry the index holds for it, or None
    key,          \* entry -> its key (None before its first use)
    cost,         \* entry -> its bytes (0 before its first use)
    freq,         \* entry -> its access frequency
    live,         \* entry -> FALSE once it was replaced, deleted or evicted
    small, main,  \* the two queues
    order,        \* Ghost::order
    ghosts,       \* Ghost::set
    used,         \* Queues::used, bytes of live queued entries
    small_bytes,  \* Queues::small_bytes
    dead_bytes,   \* Queues::dead_bytes
    evictions,    \* ShardStats::evictions
    op,           \* the SET that holds the mutex
    reader        \* reader -> the entry it is about to touch

queues == <<small, main, small_bytes, dead_bytes>>
ghost == <<order, ghosts>>
entry == <<key, cost>>
vars == <<index, entry, freq, live, queues, ghost, used, evictions, op, reader>>

(***************************************************************************)
(* The mutex is free, or it is held by a SET of entry op.e that released   *)
(* op.freed bytes by replacing an older entry of its key.                  *)
(***************************************************************************)
Unlocked == [e |-> None, freed |-> 0]
Locked == op.e # None

(***************************************************************************)
(* A reader between touch's load of the frequency and its store.           *)
(***************************************************************************)
NotTouching == [e |-> None, f |-> 0]

small_capacity == Capacity \div SmallDiv
dead_capacity == Capacity \div DeadDiv

Queued == Elems(small) \cup Elems(main)
Live(S) == {e \in S : live[e]}
Dead(S) == {e \in S : ~live[e]}
BytesOf(S) == Bytes(cost, Capacity, S)

(***************************************************************************)
(* An allocation that neither a queue, nor the running SET, nor a reader   *)
(* refers to: the only ones the allocator can hand out.                    *)
(***************************************************************************)
Unused(e) ==
    /\ e \notin Queued
    /\ op.e # e
    /\ \A r \in Readers : reader[r].e # e

Init ==
    /\ index = [k \in Keys |-> None]
    /\ key = [e \in Entries |-> None]
    /\ cost = [e \in Entries |-> 0]
    /\ freq = [e \in Entries |-> 0]
    /\ live = [e \in Entries |-> FALSE]
    /\ small = <<>> /\ main = <<>>
    /\ order = <<>> /\ ghosts = {}
    /\ used = 0 /\ small_bytes = 0 /\ dead_bytes = 0
    /\ evictions = 0
    /\ op = Unlocked
    /\ reader = [r \in Readers |-> NotTouching]
-----------------------------------------------------------------------------
\* Mistake: the byte count of the small queue is not taken from compact.
CompactWithoutRecount(s, m, sb, db, lv) ==
    LET alive == {e \in Entries : lv[e]}
    IN  IF db <= dead_capacity
        THEN /\ small' = s /\ main' = m
             /\ small_bytes' = sb /\ dead_bytes' = db
        ELSE /\ small' = Keep(s, alive) /\ main' = Keep(m, alive)
             /\ small_bytes' = sb /\ dead_bytes' = 0

(***************************************************************************)
(* maybe_compact, the last thing SET and DEL do: s, m, sb and db are the   *)
(* queues and counters they leave, lv the live flags.  Once the dead hold  *)
(* more than their share, both queues are rebuilt without them.            *)
(***************************************************************************)
maybe_compact(s, m, sb, db, lv) ==
    LET alive == {e \in Entries : lv[e]}
    IN  IF db <= dead_capacity
        THEN /\ small' = s /\ main' = m
             /\ small_bytes' = sb /\ dead_bytes' = db
        ELSE /\ small' = Keep(s, alive)
             /\ main' = Keep(m, alive)
             /\ small_bytes' = BytesOf(Elems(Keep(s, alive)))
             /\ dead_bytes' = 0

(***************************************************************************)
(* The first part of set, with the check_fits its callers run before: a    *)
(* new entry e of c bytes for key k replaces the index's old one, which is *)
(* killed: its bytes move from used to dead_bytes.                         *)
(***************************************************************************)
Set(k, c, e) ==
    /\ ~Locked
    /\ c <= Capacity
    /\ Unused(e)
    /\ LET old == index[k]
           freed == IF old # None /\ live[old] THEN cost[old] ELSE 0
       IN  /\ op' = [e |-> e, freed |-> freed]
           /\ used' = used - freed
           /\ dead_bytes' = dead_bytes + freed
           /\ live' = [x \in Entries |-> (live[x] /\ x # old) \/ x = e]
    /\ index' = [index EXCEPT ![k] = e]
    /\ key' = [key EXCEPT ![e] = k]
    /\ cost' = [cost EXCEPT ![e] = c]
    /\ freq' = [freq EXCEPT ![e] = 0]
    /\ UNCHANGED <<small, main, small_bytes, ghost, evictions, reader>>

\* Mistakes: evict only once the budget is exceeded; evict one byte too early.
MustEvictTooLate == Locked /\ used > Capacity
MustEvictTooEarly == Locked /\ used + cost[op.e] >= Capacity

(***************************************************************************)
(* The loop condition of set, and which queue it evicts from: the small    *)
(* one while that holds its share, with the other as the fallback.         *)
(***************************************************************************)
MustEvict == Locked /\ used + cost[op.e] > Capacity

FromSmall ==
    /\ small # <<>>
    /\ small_bytes >= small_capacity \/ main = <<>>

FromMain ==
    /\ main # <<>>
    /\ small_bytes < small_capacity \/ small = <<>>

\* Mistakes: the index keeps the evicted entry; the eviction is not counted.
ThrowOutStaleIndex(e) ==
    /\ live' = [live EXCEPT ![e] = FALSE]
    /\ used' = used - cost[e]
    /\ evictions' = (evictions + 1) % CounterWrap
    /\ UNCHANGED index
ThrowOutUncounted(e) ==
    /\ index' = [index EXCEPT ![key[e]] = IF @ = e THEN None ELSE @]
    /\ live' = [live EXCEPT ![e] = FALSE]
    /\ used' = used - cost[e]
    /\ UNCHANGED evictions

(***************************************************************************)
(* remove_if_same, live = false, used and the evictions counter, as both   *)
(* evict_small and evict_main do them to a live entry they throw out.      *)
(***************************************************************************)
ThrowOut(e) ==
    /\ index' = [index EXCEPT ![key[e]] = IF @ = e THEN None ELSE @]
    /\ live' = [live EXCEPT ![e] = FALSE]
    /\ used' = used - cost[e]
    /\ evictions' = (evictions + 1) % CounterWrap

(***************************************************************************)
(* Ghost::push: remember k, then forget the oldest hashes beyond the limit.*)
(* A hash that take removed from the set is still in the order.            *)
(***************************************************************************)
GhostPush(k, limit) ==
    LET longer == IF k \in ghosts THEN order ELSE Append(order, k)
        max == IF limit > GHOST_MIN THEN limit ELSE GHOST_MIN
        over == IF Len(longer) > max THEN Len(longer) - max ELSE 0
    IN  /\ order' = SubSeq(longer, over + 1, Len(longer))
        /\ ghosts' = (ghosts \cup {k}) \ {longer[i] : i \in 1..over}

(***************************************************************************)
(* evict_small: the head of the small queue is dropped if it is dead,      *)
(* promoted to main if it was hit more than once, and evicted otherwise.   *)
(***************************************************************************)
DropDeadSmall ==
    /\ MustEvict /\ FromSmall
    /\ ~live[Head(small)]
    /\ small' = Tail(small)
    /\ small_bytes' = small_bytes - cost[Head(small)]
    /\ dead_bytes' = dead_bytes - cost[Head(small)]
    /\ UNCHANGED <<index, entry, freq, live, main, ghost, used, evictions, op, reader>>

Promote ==
    /\ MustEvict /\ FromSmall
    /\ live[Head(small)] /\ freq[Head(small)] > 1
    /\ small' = Tail(small)
    /\ small_bytes' = small_bytes - cost[Head(small)]
    /\ freq' = [freq EXCEPT ![Head(small)] = 0]
    /\ main' = Append(main, Head(small))
    /\ UNCHANGED <<index, entry, live, dead_bytes, ghost, used, evictions, op, reader>>

EvictSmall ==
    /\ MustEvict /\ FromSmall
    /\ live[Head(small)] /\ freq[Head(small)] <= 1
    /\ small' = Tail(small)
    /\ small_bytes' = small_bytes - cost[Head(small)]
    /\ ThrowOut(Head(small))
    /\ GhostPush(key[Head(small)], Len(main))
    /\ UNCHANGED <<entry, freq, main, dead_bytes, op, reader>>

(***************************************************************************)
(* One turn of evict_main's loop: the head of the main queue is dropped if *)
(* it is dead, sent to the back with a lower frequency if that is          *)
(* positive, and evicted otherwise.                                        *)
(***************************************************************************)
DropDeadMain ==
    /\ MustEvict /\ FromMain
    /\ ~live[Head(main)]
    /\ main' = Tail(main)
    /\ dead_bytes' = dead_bytes - cost[Head(main)]
    /\ UNCHANGED <<index, entry, freq, live, small, small_bytes, ghost, used,
                   evictions, op, reader>>

\* Mistake: the entry keeps its frequency.
SecondChanceForFree ==
    /\ MustEvict /\ FromMain
    /\ live[Head(main)] /\ freq[Head(main)] > 0
    /\ main' = Append(Tail(main), Head(main))
    /\ UNCHANGED <<index, entry, freq, live, small, small_bytes, dead_bytes, ghost, used,
                   evictions, op, reader>>

SecondChance ==
    /\ MustEvict /\ FromMain
    /\ live[Head(main)] /\ freq[Head(main)] > 0
    /\ freq' = [freq EXCEPT ![Head(main)] = @ - 1]
    /\ main' = Append(Tail(main), Head(main))
    /\ UNCHANGED <<index, entry, live, small, small_bytes, dead_bytes, ghost, used,
                   evictions, op, reader>>

EvictMain ==
    /\ MustEvict /\ FromMain
    /\ live[Head(main)] /\ freq[Head(main)] = 0
    /\ main' = Tail(main)
    /\ ThrowOut(Head(main))
    /\ UNCHANGED <<entry, freq, small, small_bytes, dead_bytes, ghost, op, reader>>

(***************************************************************************)
(* The rest of set, once the entry fits or both queues are empty: the      *)
(* entry is charged and queued, in main if the ghost list remembers its    *)
(* key.                                                                    *)
(***************************************************************************)
FinishSet ==
    /\ Locked
    /\ ~MustEvict \/ (small = <<>> /\ main = <<>>)
    /\ used' = used + cost[op.e]
    /\ ghosts' = ghosts \ {key[op.e]}
    /\ IF key[op.e] \in ghosts
       THEN maybe_compact(small, Append(main, op.e), small_bytes, dead_bytes, live)
       ELSE maybe_compact(Append(small, op.e), main, small_bytes + cost[op.e],
                          dead_bytes, live)
    /\ op' = Unlocked
    /\ UNCHANGED <<index, entry, freq, live, order, evictions, reader>>

(***************************************************************************)
(* del of a key that is present; the entry stays in its queue, dead.  (Of  *)
(* an absent key it changes nothing.)                                      *)
(***************************************************************************)
Del(k) ==
    /\ ~Locked
    /\ index[k] # None
    /\ LET e == index[k]
           freed == IF live[e] THEN cost[e] ELSE 0
       IN  /\ used' = used - freed
           /\ live' = [live EXCEPT ![e] = FALSE]
           /\ maybe_compact(small, main, small_bytes, dead_bytes + freed, live')
    /\ index' = [index EXCEPT ![k] = None]
    /\ UNCHANGED <<entry, freq, ghost, evictions, op, reader>>

(***************************************************************************)
(* get of a key that is present, up to touch's load of the frequency, and  *)
(* touch's store.  Finding the entry and loading its frequency are one     *)
(* step: between them the entry can only leave the index, and then its     *)
(* frequency no longer matters.  A frequency at the cap is not stored.     *)
(***************************************************************************)
Get(r, k) ==
    /\ reader[r] = NotTouching
    /\ index[k] # None
    /\ freq[index[k]] < FREQ_CAP
    /\ reader' = [reader EXCEPT ![r] = [e |-> index[k], f |-> freq[index[k]]]]
    /\ UNCHANGED <<index, entry, freq, live, queues, ghost, used, evictions, op>>

Touch(r) ==
    /\ reader[r] # NotTouching
    /\ freq' = [freq EXCEPT ![reader[r].e] = reader[r].f + 1]
    /\ reader' = [reader EXCEPT ![r] = NotTouching]
    /\ UNCHANGED <<index, entry, live, queues, ghost, used, evictions, op>>

(***************************************************************************)
(* What the thread that holds the mutex does, and everything.              *)
(***************************************************************************)
Evict ==
    \/ DropDeadSmall \/ Promote \/ EvictSmall
    \/ DropDeadMain \/ SecondChance \/ EvictMain

Next ==
    \/ \E k \in Keys, c \in Costs, e \in Entries : Set(k, c, e)
    \/ Evict
    \/ FinishSet
    \/ \E k \in Keys : Del(k)
    \/ \E r \in Readers : Touch(r) \/ \E k \in Keys : Get(r, k)

Spec == Init /\ [][Next]_vars
-----------------------------------------------------------------------------
(***************************************************************************)
(* Every variable has its type.  A frequency stays within FREQ_CAP although *)
(* touch loads and stores it in two steps and evictions store it too.      *)
(***************************************************************************)
TypeOK ==
    /\ index \in [Keys -> Entries \cup {None}]
    /\ key \in [Entries -> Keys \cup {None}]
    /\ cost \in [Entries -> 0..Capacity]
    /\ freq \in [Entries -> 0..FREQ_CAP]
    /\ live \in [Entries -> BOOLEAN]
    /\ small \in Seq(Entries) /\ main \in Seq(Entries)
    /\ order \in Seq(Keys) /\ ghosts \in SUBSET Keys
    /\ used \in Nat /\ small_bytes \in Nat /\ dead_bytes \in Nat
    /\ evictions \in 0..(CounterWrap - 1)
    /\ op \in [e : Entries \cup {None}, freed : Nat]
    /\ reader \in [Readers -> [e : Entries \cup {None}, f : 0..FREQ_CAP]]
    /\ \A r \in Readers :
          reader[r] = NotTouching \/ (reader[r].e # None /\ reader[r].f < FREQ_CAP)

(***************************************************************************)
(* The three counters of Queues are what their comments say, at every step *)
(* of every operation, so none of the subtractions can wrap: used counts   *)
(* the live queued entries, small_bytes the whole small queue, dead_bytes  *)
(* the dead entries of both queues.                                        *)
(***************************************************************************)
Accounting ==
    /\ used = BytesOf(Live(Queued))
    /\ small_bytes = BytesOf(Elems(small))
    /\ dead_bytes = BytesOf(Dead(Queued))

(***************************************************************************)
(* The live entries never exceed the shard's budget, not even while a SET  *)
(* is evicting, and whenever the mutex is free the dead ones still queued  *)
(* hold no more than their share of it (maybe_compact).                    *)
(***************************************************************************)
WithinBudget ==
    /\ used <= Capacity
    /\ ~Locked => dead_bytes <= dead_capacity

(***************************************************************************)
(* The index and the queues agree.  What the index holds for a key is a    *)
(* live entry of that key, in exactly one queue and once, or the entry a   *)
(* SET is about to queue; and every live queued entry is what the index    *)
(* holds for its key.  Otherwise bytes would be charged that no request    *)
(* can reach, or a key would be served that eviction can never find.       *)
(***************************************************************************)
IndexMatchesQueues ==
    /\ NoDup(small) /\ NoDup(main)
    /\ Elems(small) \cap Elems(main) = {}
    /\ \A k \in Keys : index[k] # None =>
          /\ live[index[k]]
          /\ key[index[k]] = k
          /\ index[k] \in Queued \/ index[k] = op.e
    /\ \A e \in Live(Queued) : key[e] \in Keys /\ index[key[e]] = e

(***************************************************************************)
(* Overwriting a key with an entry no larger than the one it replaces      *)
(* evicts nothing, at any fill level: while such a SET runs, its loop      *)
(* condition is false.  (The comment in set: "overwriting a key at full    *)
(* capacity does not evict `cost` bytes of neighbours".)                   *)
(***************************************************************************)
ReplaceKeepsNeighbours ==
    Locked /\ cost[op.e] <= op.freed => ~MustEvict

(***************************************************************************)
(* The work there is for evict_small and evict_main: two for an entry of   *)
(* the small queue (to be promoted, then evicted), and one for an entry of *)
(* the main queue and for each of its second chances.                      *)
(***************************************************************************)
Work == 2 * Len(small) + Len(main) + Bytes(freq, FREQ_CAP, Elems(main))

(***************************************************************************)
(* The eviction loop ends: every turn of evict_small and evict_main uses   *)
(* up some of that work.  Only a reader's touch adds to it while a SET     *)
(* holds the mutex.                                                        *)
(***************************************************************************)
EvictionProgresses == [][Evict => Work' < Work]_vars

(***************************************************************************)
(* The shard's state as LossyCache sees it: the index, the SET that holds  *)
(* the mutex and the count of evictions.                                   *)
(***************************************************************************)
Promise == INSTANCE LossyCache WITH
    Values <- Entries,
    store <- [k \in Keys |-> IF index[k] = None THEN None
                             ELSE [v |-> index[k], c |-> cost[index[k]]]],
    pending <- IF Locked THEN key[op.e] ELSE None,
    lost <- evictions

(***************************************************************************)
(* What the shard promises: a map that loses entries only while a SET is   *)
(* running and only as long as it does not fit, never the entry being      *)
(* written, and counts each loss.                                          *)
(***************************************************************************)
ImplementsLossyCache == Promise!Spec
=============================================================================
