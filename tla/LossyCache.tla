----------------------------- MODULE LossyCache -----------------------------
(***************************************************************************)
(* What a shard promises, without queues, frequencies or ghosts: a map     *)
(* from keys to values of a size, that may lose entries to make room.      *)
(***************************************************************************)
EXTENDS QueueOps

CONSTANTS Keys, Values, None, Capacity, Costs, CounterWrap

VARIABLES
    store,     \* key -> [v, c]: its value and size, or None
    pending,   \* the key a SET is making room for, or None
    lost       \* how many entries were lost (wraps)

svars == <<store, pending, lost>>

size(k) == IF store[k] = None THEN 0 ELSE store[k].c
Total == Bytes([k \in Keys |-> size(k)], Capacity, Keys)

Init ==
    /\ store = [k \in Keys |-> None]
    /\ pending = None
    /\ lost = 0

(***************************************************************************)
(* A SET takes effect at once for readers; room is made afterwards.        *)
(***************************************************************************)
Put(k, v, c) ==
    /\ pending = None
    /\ c <= Capacity
    /\ store' = [store EXCEPT ![k] = [v |-> v, c |-> c]]
    /\ pending' = k
    /\ UNCHANGED lost

(***************************************************************************)
(* Another key than the pending one is lost, only while there is no room.  *)
(***************************************************************************)
Lose(k) ==
    /\ pending # None /\ k # pending
    /\ Total > Capacity
    /\ store[k] # None
    /\ store' = [store EXCEPT ![k] = None]
    /\ lost' = (lost + 1) % CounterWrap
    /\ UNCHANGED pending

(***************************************************************************)
(* The SET returns, everything fits.                                       *)
(***************************************************************************)
Fit ==
    /\ pending # None
    /\ Total <= Capacity
    /\ pending' = None
    /\ UNCHANGED <<store, lost>>

Remove(k) ==
    /\ pending = None
    /\ store[k] # None
    /\ store' = [store EXCEPT ![k] = None]
    /\ UNCHANGED <<pending, lost>>

Next ==
    \/ \E k \in Keys, v \in Values, c \in Costs : Put(k, v, c)
    \/ \E k \in Keys : Lose(k) \/ Remove(k)
    \/ Fit

Spec == Init /\ [][Next]_svars
=============================================================================
