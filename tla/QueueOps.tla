------------------------------ MODULE QueueOps ------------------------------
(***************************************************************************)
(* Operators on the VecDeques and byte counters of the cache.  They avoid  *)
(* recursion, so that what they compute can be proved for every argument:  *)
(* a filtered queue is given by ranks, and a sum of costs is the number of *)
(* pairs <<entry, byte of that entry>>.                                    *)
(***************************************************************************)
EXTENDS Naturals, Sequences, FiniteSets

Elems(q) == {q[i] : i \in 1..Len(q)}

NoDup(q) == \A i, j \in 1..Len(q) : q[i] = q[j] => i = j

(***************************************************************************)
(* The positions of q that hold an element of S, and how many of them are  *)
(* at or before position i.                                                *)
(***************************************************************************)
KeptAt(q, S) == {i \in 1..Len(q) : q[i] \in S}

Rank(q, S, i) == Cardinality({j \in KeptAt(q, S) : j <= i})

(***************************************************************************)
(* q without the elements outside S, in the same order (a stable filter).  *)
(***************************************************************************)
Keep(q, S) ==
    [n \in 1..Cardinality(KeptAt(q, S)) |->
        q[CHOOSE i \in KeptAt(q, S) : Rank(q, S, i) = n]]

(***************************************************************************)
(* The bytes of the entries in S, where entry e has cost[e] <= max bytes:  *)
(* the sum of cost[e] over S.                                              *)
(***************************************************************************)
Cells(cost, max, S) == {p \in S \X (1..max) : p[2] <= cost[p[1]]}

Bytes(cost, max, S) == Cardinality(Cells(cost, max, S))
=============================================================================
