------------------------------ MODULE MCS3Fifo ------------------------------
(***************************************************************************)
(* Model checking of S3Fifo.  Entries are numbers, so that Set can take    *)
(* the least unused one: which allocation an entry gets makes no           *)
(* difference, and the others would only multiply the states.              *)
(***************************************************************************)
EXTENDS S3Fifo, TLC

Least(S) == CHOOSE e \in S : \A f \in S : e <= f

MCNext ==
    \/ \E k \in Keys, c \in Costs :
          /\ {e \in Entries : Unused(e)} # {}
          /\ Set(k, c, Least({e \in Entries : Unused(e)}))
    \/ Evict
    \/ FinishSet
    \/ \E k \in Keys : Del(k)
    \/ \E r \in Readers : Touch(r) \/ \E k \in Keys : Get(r, k)

MCSpec == Init /\ [][MCNext]_vars

(***************************************************************************)
(* A state up to the identities of its entries: an entry is named by the   *)
(* place it is first found at, and what an allocation held that is in no   *)
(* such place is garbage.  No step reads the evictions counter, so states  *)
(* that differ in it alone have the same future.                           *)
(***************************************************************************)
Place(e) ==
    CASE e \in Elems(small) -> <<1, CHOOSE i \in 1..Len(small) : small[i] = e>>
      [] e \in Elems(main) -> <<2, CHOOSE i \in 1..Len(main) : main[i] = e>>
      [] e = op.e -> <<3, op.freed>>
      [] OTHER -> <<4, IF e \in Entries THEN <<key[e], cost[e], live[e]>> ELSE None>>

Described(q) ==
    [i \in 1..Len(q) |-> <<Place(q[i]), key[q[i]], cost[q[i]], freq[q[i]], live[q[i]]>>]

MCView ==
    <<[k \in Keys |-> Place(index[k])], Described(small), Described(main),
      small_bytes, dead_bytes, ghost, used,
      Locked, IF Locked THEN Described(<<op.e>>) ELSE <<>>,
      [r \in Readers |-> <<Place(reader[r].e), reader[r].f>>]>>

MCSymmetry == Permutations(Keys)
=============================================================================
