-------------------------------- MODULE Slab ---------------------------------
(***************************************************************************)
(* The process-wide slab that entries are allocated from                   *)
(* (server/src/cache/slab.rs): per-thread magazines in front of per-class  *)
(* free lists, and a region that new chunks are carved from.  A free list  *)
(* and the region are locked apart, so another thread may run between a    *)
(* refill that found the list empty and the carving that follows.          *)
(*                                                                         *)
(* Which of its chunks a list hands out is left open: lists are sets.      *)
(***************************************************************************)
EXTENDS Naturals, FiniteSets, FiniteSetsExt, Functions

CONSTANTS Threads, Classes,
          class_size,  \* the chunk size of each class
          batch,       \* the chunks a magazine moves at a time, per class
          REGION,      \* bytes mapped at a time
          REGIONS,     \* bound: regions mapped
          HELD         \* bound: chunks held at once (the cache's byte budget)

ASSUME SlabAssumption ==
    /\ class_size \in [Classes -> Nat \ {0}] /\ batch \in [Classes -> Nat \ {0}]
    /\ \A c \in Classes : class_size[c] * batch[c] <= REGION
    /\ {REGION, REGIONS, HELD} \subseteq Nat

VARIABLES free,    \* Central.free: the free chunks of each class
          bump,    \* Central.bump: the region being carved
          mapped,  \* regions mapped so far
          mag,     \* each thread's magazines
          alive,   \* threads whose magazines are not torn down
          refills, \* what each thread carves: its class and count, or Nothing
          held,    \* the chunks entries live in
          wasted   \* history: the tails of regions that were left

vars == <<free, bump, mapped, mag, alive, refills, held, wasted>>

Nothing == [class |-> 0, n |-> 0]
Chunk(c, at) == [class |-> c, at |-> at]

Init == /\ free = [c \in Classes |-> {}]
        /\ bump = [cursor |-> 0, end |-> 0] /\ mapped = 0
        /\ mag = [t \in Threads |-> [c \in Classes |-> {}]]
        /\ alive = Threads
        /\ refills = [t \in Threads |-> Nothing]
        /\ held = {} /\ wasted = 0

Running(t) == refills[t] = Nothing

(* A thread allocates when the cache has room, counting those about to. *)
Allocates(t) ==
    Running(t) /\ Cardinality(held) + Cardinality({u \in Threads : ~Running(u)}) < HELD

(* A chunk from the thread's magazine. *)
Pop(t, c) ==
    /\ t \in alive /\ Allocates(t)
    /\ \E ch \in mag[t][c] :
           held' = held \cup {ch} /\ mag' = [mag EXCEPT ![t][c] = @ \ {ch}]
    /\ UNCHANGED <<free, bump, mapped, alive, refills, wasted>>

(* How many chunks a refill asks for: a batch, or the one that a thread
   without magazines needs. *)
Wanted(t, c) == IF t \in alive THEN batch[c] ELSE 1

(* The thread takes one of the chunks `got` and keeps the others. *)
Take(t, c, got) ==
    \E ch \in got :
        held' = held \cup {ch} /\ mag' = [mag EXCEPT ![t][c] = got \ {ch}]

(* Bug: the chunks a refill takes stay on the free list. *)
DrainCopies(c, got) == free[c]

Drain(c, got) == free[c] \ got

(* refill, under the lock of the class's free list. *)
Refill(t, c) ==
    /\ Allocates(t) /\ mag[t][c] = {}
    /\ \/ /\ free[c] # {}
          /\ \E got \in kSubset(Min({Wanted(t, c), Cardinality(free[c])}), free[c]) :
                 Take(t, c, got) /\ free' = [free EXCEPT ![c] = Drain(c, got)]
          /\ UNCHANGED refills
       \/ /\ free[c] = {}
          /\ refills' = [refills EXCEPT ![t] = [class |-> c, n |-> Wanted(t, c)]]
          /\ UNCHANGED <<free, mag, held>>
    /\ UNCHANGED <<bump, mapped, alive, wasted>>

(* refill, under the lock of the region: carved fresh, from a new region if
   this one has too little left. *)
Carve(t) ==
    LET c == refills[t].class
        n == refills[t].n
        size == class_size[c]
        fits == bump.end - bump.cursor >= n * size
        base == IF fits THEN bump.cursor ELSE mapped * REGION
    IN  /\ ~Running(t)
        /\ fits \/ mapped < REGIONS
        /\ bump' = [cursor |-> base + n * size, end |-> IF fits THEN bump.end ELSE base + REGION]
        /\ mapped' = IF fits THEN mapped ELSE mapped + 1
        /\ wasted' = IF fits THEN wasted ELSE wasted + bump.end - bump.cursor
        /\ Take(t, c, {Chunk(c, base + i * size) : i \in 0..n - 1})
        /\ refills' = [refills EXCEPT ![t] = Nothing]
        /\ UNCHANGED <<free, alive>>

Cap(c) == 2 * batch[c]

(* free, by any thread: an entry is dropped by whoever flushes the collector. *)
Free(t, ch) ==
    LET c == ch.class
        v == mag[t][c] \cup {ch}
    IN  /\ Running(t) /\ ch \in held
        /\ held' = held \ {ch}
        /\ \/ /\ t \in alive /\ Cardinality(v) <= Cap(c)
              /\ mag' = [mag EXCEPT ![t][c] = v] /\ UNCHANGED free
           \/ /\ t \in alive /\ Cardinality(v) > Cap(c)
              /\ \E keep \in kSubset(Cap(c) \div 2, v) :
                     /\ mag' = [mag EXCEPT ![t][c] = keep]
                     /\ free' = [free EXCEPT ![c] = @ \cup (v \ keep)]
           \/ /\ t \notin alive
              /\ free' = [free EXCEPT ![c] = @ \cup {ch}] /\ UNCHANGED mag
        /\ UNCHANGED <<bump, mapped, alive, refills, wasted>>

Flushed(t, c) == free[c] \cup mag[t][c]

(* Drop for Magazines: a thread that exits gives its chunks back. *)
Exit(t) ==
    /\ t \in alive /\ Running(t)
    /\ alive' = alive \ {t}
    /\ free' = [c \in Classes |-> Flushed(t, c)]
    /\ mag' = [mag EXCEPT ![t] = [c \in Classes |-> {}]]
    /\ UNCHANGED <<bump, mapped, refills, held, wasted>>

Next == \E t \in Threads :
            \/ \E c \in Classes : Pop(t, c) \/ Refill(t, c)
            \/ Carve(t) \/ Exit(t)
            \/ \E ch \in held : Free(t, ch)

Spec == Init /\ [][Next]_vars

-----------------------------------------------------------------------------
TypeOK ==
    LET Chunks == [class : Classes, at : 0..REGION * REGIONS]
    IN  /\ free \in [Classes -> SUBSET Chunks]
        /\ mag \in [Threads -> [Classes -> SUBSET Chunks]]
        /\ held \subseteq Chunks /\ alive \subseteq Threads
        /\ bump.cursor \in 0..bump.end /\ bump.end \in 0..REGION * REGIONS
        /\ mapped \in 0..REGIONS
        /\ refills \in [Threads -> [class : Classes, n : Nat] \cup {Nothing}]

(* Every chunk there is. *)
All == held \cup (UNION {free[c] : c \in Classes})
            \cup (UNION {mag[t][c] : t \in Threads, c \in Classes})

(* A chunk is held, or on one list, that of its class. *)
OnOneList ==
    \A c \in Classes :
        /\ \A x \in free[c] : x.class = c /\ x \notin held
        /\ \A t \in Threads : \A x \in mag[t][c] :
               /\ x.class = c /\ x \notin held /\ x \notin free[c]
               /\ \A u \in Threads \ {t} : x \notin mag[u][c]

(* No two chunks overlap. *)
Apart ==
    LET all == All
    IN  \A x, y \in all : x # y => \/ x.at + class_size[x.class] <= y.at
                                  \/ y.at + class_size[y.class] <= x.at

(* The slab's memory, byte for byte: no chunk is shared, and what is mapped is in
   a chunk, still to be carved, or in the tail of a region.  So no two entries
   share memory and none is lost, however threads allocate, free and exit.  Nor
   does a thread hoard more than two batches of a class.  (TypeOK is part of
   it.) *)
MemoryExact ==
    /\ TypeOK
    /\ OnOneList /\ Apart
    /\ MapThenSumSet(LAMBDA x : class_size[x.class], All) + (bump.end - bump.cursor) + wasted
         = mapped * REGION
    /\ \A t \in Threads, c \in Classes : Cardinality(mag[t][c]) <= 2 * batch[c]
=============================================================================
