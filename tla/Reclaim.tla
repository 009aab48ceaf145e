------------------------------- MODULE Reclaim -------------------------------
(***************************************************************************)
(* The life of an entry (Entry in server/src/cache/s3fifo.rs, retire in    *)
(* cache/table.rs, collect in cache/mod.rs) on top of the slab it is       *)
(* allocated from.  An entry is counted by its handles: one in the index,  *)
(* one in a queue, one per reply that sends its value from where it is.    *)
(* Readers borrow it from the index without a handle, under an epoch pin;  *)
(* so the index's handle is dropped only when they have unpinned.          *)
(*                                                                         *)
(* Which entries are evicted is S3Fifo's business, here it is any; a key   *)
(* has its slot in the index, as CuckooIndex shows.  An entry is the chunk *)
(* it lives in, whose class stands for its size.                           *)
(***************************************************************************)
EXTENDS Slab

CONSTANTS Keys, None,
          Conns,          \* the connections with a reply to send
          Large,          \* the classes of values of NT_MIN bytes and more
          FLUSH_ENTRIES,  \* large entries a thread may retire between flushes
          FLUSH_BYTES     \* and their bytes

ASSUME ReclaimAssumption ==
    /\ None \notin [class : Classes, at : Nat] /\ IsFiniteSet(Conns)
    /\ Large \subseteq Classes /\ {FLUSH_ENTRIES, FLUSH_BYTES} \subseteq Nat

VARIABLES pc,       \* thread -> "out", "pinned" (an epoch guard), "locked" (the mutex, too)
          entry,    \* thread -> the entry its SET has made, or None
          ref,      \* thread -> EntryRef: the entry it borrows, or None
          reply,    \* connection -> the entry its queued reply sends, or None
          rc,       \* entry -> Header.rc
          index,    \* key -> entry, or None
          queue,    \* the entries in the small and the main queue
          retired,  \* thread -> Retired: what its writes handed to the collector
          tally,    \* thread -> RETIRED: the large ones since its last flush
          bag,      \* thread -> the handles it deferred, not flushed yet
          garbage   \* the flushed ones, with the threads they wait for

evars == <<pc, entry, ref, reply, rc, index, queue, retired, tally, bag, garbage>>

NoneRetired == [small |-> FALSE, large |-> 0, bytes |-> 0]

EInit ==
    /\ Init
    /\ pc = [t \in Threads |-> "out"]
    /\ entry = [t \in Threads |-> None] /\ ref = [t \in Threads |-> None]
    /\ reply = [conn \in Conns |-> None]
    /\ rc = [e \in {} |-> 0]
    /\ index = [k \in Keys |-> None] /\ queue = {}
    /\ retired = [t \in Threads |-> NoneRetired]
    /\ tally = [t \in Threads |-> [n |-> 0, bytes |-> 0]]
    /\ bag = [t \in Threads |-> {}] /\ garbage = {}

Pinned == {t \in Threads : pc[t] # "out"}
Outside(t) == pc[t] = "out" /\ Running(t)
Unlocked == \A t \in Threads : pc[t] # "locked"

-----------------------------------------------------------------------------
(* Handles.                                                                 *)

Clone(e) == rc' = [rc EXCEPT ![e] = @ + 1]

(* Drop for Entry: the last handle gives the chunk back to the slab. *)
Drop(t, e) ==
    \/ rc[e] > 1 /\ rc' = [rc EXCEPT ![e] = @ - 1] /\ UNCHANGED vars
    \/ rc[e] = 1 /\ Free(t, e) /\ rc' = Restrict(rc, held')

Deferred(e, waits) == [e |-> e, waits |-> waits]

(* Bug: the handle is dropped without regard to who reads. *)
RetireAtOnce(t, e) == garbage' = garbage \cup {Deferred(e, {})} /\ UNCHANGED bag

retire(t, e) == bag' = [bag EXCEPT ![t] = @ \cup {e}] /\ UNCHANGED garbage

(* Retired::one, added to what the thread retired under this pin.  The counts
   are only compared, so they stop where the comparison is settled. *)
Noted(t, e) ==
    [retired EXCEPT ![t] =
        IF e.class \in Large
        THEN [@ EXCEPT !.large = Min({@ + 1, FLUSH_ENTRIES}),
                       !.bytes = Min({@ + class_size[e.class], FLUSH_BYTES})]
        ELSE [@ EXCEPT !.small = TRUE]]

-----------------------------------------------------------------------------
(* Threads.                                                                 *)

Pin(t) ==
    /\ Outside(t) /\ t \in alive
    /\ pc' = [pc EXCEPT ![t] = "pinned"]
    /\ UNCHANGED <<vars, entry, ref, reply, rc, index, queue, retired, tally, bag, garbage>>

(* get_in: the entry is borrowed from the index. *)
Borrow(t, k) ==
    /\ pc[t] = "pinned" /\ Running(t) /\ entry[t] = None /\ index[k] # None
    /\ ref' = [ref EXCEPT ![t] = index[k]]
    /\ UNCHANGED <<vars, pc, entry, reply, rc, index, queue, retired, tally, bag, garbage>>

(* value: the reply takes a handle. *)
Reply(t, conn) ==
    /\ ref[t] # None /\ reply[conn] = None
    /\ Clone(ref[t])
    /\ reply' = [reply EXCEPT ![conn] = ref[t]]
    /\ UNCHANGED <<vars, pc, entry, ref, index, queue, retired, tally, bag, garbage>>

(* A reply is sent, by the thread its connection then runs on. *)
Sent(t, conn) ==
    /\ Outside(t) /\ t \in alive /\ reply[conn] # None
    /\ Drop(t, reply[conn])
    /\ reply' = [reply EXCEPT ![conn] = None]
    /\ UNCHANGED <<pc, entry, ref, index, queue, retired, tally, bag, garbage>>

(* Entry::new in the chunk the slab has handed out, if it has. *)
Made(t) ==
    LET new == held' \ held
    IN  /\ \/ new = {} /\ UNCHANGED <<entry, rc>>
           \/ \E e \in new : /\ entry' = [entry EXCEPT ![t] = e]
                             /\ rc' = [x \in held' |-> IF x = e THEN 1 ELSE rc[x]]
        /\ UNCHANGED <<pc, ref, reply, index, queue, retired, tally, bag, garbage>>

New(t, c) ==
    /\ pc[t] = "pinned" /\ entry[t] = None /\ ref[t] = None
    /\ Pop(t, c) \/ Refill(t, c)
    /\ Made(t)

NewCarved(t) == Carve(t) /\ Made(t)

(* set, from the lock to the insertion. *)
Insert(t, k) ==
    /\ pc[t] = "pinned" /\ entry[t] # None /\ Unlocked
    /\ pc' = [pc EXCEPT ![t] = "locked"]
    /\ Clone(entry[t])
    /\ index' = [index EXCEPT ![k] = entry[t]]
    /\ \/ index[k] = None /\ UNCHANGED <<retired, bag, garbage>>
       \/ index[k] # None /\ retire(t, index[k]) /\ retired' = Noted(t, index[k])
    /\ UNCHANGED <<vars, entry, ref, reply, queue, tally>>

(* evict_small and evict_main: an entry leaves its queue, and the index unless
   it is dead. *)
Evict(t, e) ==
    /\ pc[t] = "locked" /\ entry[t] # None /\ e \in queue
    /\ queue' = queue \ {e}
    /\ Drop(t, e)
    /\ \/ /\ e \in Range(index)
          /\ index' = [k \in Keys |-> IF index[k] = e THEN None ELSE index[k]]
          /\ retire(t, e)
       \/ /\ e \notin Range(index)
          /\ UNCHANGED <<index, bag, garbage>>
    /\ retired' = Noted(t, e)
    /\ UNCHANGED <<pc, entry, ref, reply, tally>>

Del(t, k) ==
    /\ pc[t] = "pinned" /\ Running(t) /\ entry[t] = None /\ ref[t] = None /\ Unlocked
    /\ index[k] # None
    /\ pc' = [pc EXCEPT ![t] = "locked"]
    /\ index' = [index EXCEPT ![k] = None]
    /\ retire(t, index[k]) /\ retired' = Noted(t, index[k])
    /\ UNCHANGED <<vars, entry, ref, reply, rc, queue, tally>>

(* compact, one dead entry at a time: nobody else is at the queues. *)
Compact(t, e) ==
    /\ pc[t] = "locked" /\ e \in queue \ Range(index)
    /\ queue' = queue \ {e}
    /\ Drop(t, e)
    /\ UNCHANGED <<pc, entry, ref, reply, index, retired, tally, bag, garbage>>

(* The end of set, which queues its entry, and of del. *)
Unlock(t) ==
    /\ pc[t] = "locked"
    /\ queue' = queue \cup ({entry[t]} \ {None})
    /\ entry' = [entry EXCEPT ![t] = None]
    /\ pc' = [pc EXCEPT ![t] = "pinned"]
    /\ UNCHANGED <<vars, ref, reply, rc, index, retired, tally, bag, garbage>>

Sum(t) == [n |-> tally[t].n + retired[t].large, bytes |-> tally[t].bytes + retired[t].bytes]


(* collect: whether the thread flushes what it deferred. *)
Flushes(t) ==
    \/ retired[t].small
    \/ retired[t].large > 0 /\ (Sum(t).n >= FLUSH_ENTRIES \/ Sum(t).bytes >= FLUSH_BYTES)

(* What is flushed waits for the threads that are pinned. *)
Sealed(t) == {Deferred(e, Pinned) : e \in bag[t]}

(* The end of a request: its writes are collected, its borrow is over. *)
Done(t) ==
    /\ pc[t] = "pinned" /\ Running(t) /\ entry[t] = None
    /\ ref[t] # None \/ retired[t] # NoneRetired
    /\ ref' = [ref EXCEPT ![t] = None]
    /\ retired' = [retired EXCEPT ![t] = NoneRetired]
    /\ \/ /\ Flushes(t)
          /\ tally' = [tally EXCEPT ![t] = [n |-> 0, bytes |-> 0]]
          /\ bag' = [bag EXCEPT ![t] = {}]
          /\ garbage' = garbage \cup Sealed(t)
       \/ /\ ~Flushes(t)
          /\ tally' = [tally EXCEPT ![t] = Sum(t)]
          /\ UNCHANGED <<bag, garbage>>
    /\ UNCHANGED <<vars, pc, entry, reply, rc, index, queue>>

(* The end of a burst: the guard is dropped. *)
Unpin(t) ==
    /\ pc[t] = "pinned" /\ Running(t) /\ entry[t] = None
    /\ ref[t] = None /\ retired[t] = NoneRetired
    /\ pc' = [pc EXCEPT ![t] = "out"]
    /\ garbage' = {Deferred(g.e, g.waits \ {t}) : g \in garbage}
    /\ UNCHANGED <<vars, entry, ref, reply, rc, index, queue, retired, tally, bag>>

(* The collector, run by any thread: drops what nobody can still read. *)
Reclaim(t, g) ==
    /\ pc[t] # "locked" /\ Running(t) /\ entry[t] = None /\ g.waits = {}
    /\ Drop(t, g.e)
    /\ garbage' = garbage \ {g}
    /\ UNCHANGED <<pc, entry, ref, reply, index, queue, retired, tally, bag>>

(* A thread that exits leaves its magazines and what it deferred. *)
Leave(t) ==
    /\ Outside(t)
    /\ Exit(t)
    /\ garbage' = garbage \cup Sealed(t)
    /\ bag' = [bag EXCEPT ![t] = {}]
    /\ UNCHANGED <<pc, entry, ref, reply, rc, index, queue, retired, tally>>

ENext ==
    \E t \in Threads :
        \/ Pin(t) \/ NewCarved(t) \/ Unlock(t) \/ Done(t) \/ Unpin(t) \/ Leave(t)
        \/ \E k \in Keys : Borrow(t, k) \/ Insert(t, k) \/ Del(t, k)
        \/ \E c \in Classes : New(t, c)
        \/ \E e \in queue : Evict(t, e) \/ Compact(t, e)
        \/ \E conn \in Conns : Reply(t, conn) \/ Sent(t, conn)
        \/ \E g \in garbage : Reclaim(t, g)

ESpec == EInit /\ [][ENext]_<<vars, evars>>

-----------------------------------------------------------------------------
(* The handles of an entry, wherever they are. *)
Handles(e) ==
    Cardinality({k \in Keys : index[k] = e}) + Cardinality({e} \cap queue)
    + Cardinality({t \in Threads : entry[t] = e}) + Cardinality({c \in Conns : reply[c] = e})
    + Cardinality({t \in Threads : e \in bag[t]}) + Cardinality({g \in garbage : g.e = e})

Referred ==
    (Range(index) \cup Range(entry) \cup Range(reply) \cup Range(ref) \cup queue
       \cup (UNION Range(bag)) \cup {g.e : g \in garbage}) \ {None}

(* "Valid for the life of any handle" (Entry), and of any borrow: what a thread,
   a queue, the index, a queued reply or the collector refers to is an entry
   whose chunk has not gone back to the slab; its count is the number of its
   handles, so it goes back once, with the last; and a chunk that is held has a
   handle left, so none leaks. *)
EntriesLive ==
    /\ Referred \subseteq held
    /\ DOMAIN rc = held
    /\ \A e \in held : rc[e] = Handles(e) /\ rc[e] > 0

=============================================================================
