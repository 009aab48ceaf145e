--------------------------- MODULE MCCuckooIndex ----------------------------
(***************************************************************************)
(* CuckooIndex on numbered keys, with home and alt computed as the code    *)
(* does from the hash of a key and the multiplied tag, both chosen so that *)
(* the keys collide in every table.  One of the keys has two values.       *)
(***************************************************************************)
EXTENDS CuckooIndex

MCKeys == 0..3
MCWords == [k : MCKeys, v : {1}] \cup {[k |-> 0, v |-> 2]}

hash == <<2, 3, 0, 2>>
spread == <<1, 3, 1, 1>>

Xor(a, b) ==
    LET bit(x, i) == (x \div 2^i) % 2
        sum[i \in 0..3] == (IF bit(a, i) # bit(b, i) THEN 2^i ELSE 0)
                           + (IF i = 0 THEN 0 ELSE sum[i - 1])
    IN  sum[3]

MCHome(g, k) == hash[k + 1] % (MIN_BUCKETS * 2^g)
Alts ==
    [g \in 0..MaxGrowth |->
        [b \in Buckets(g) |->
            [k \in MCKeys |-> Xor(b, spread[k + 1]) % (MIN_BUCKETS * 2^g)]]]
MCAlt(g, b, k) == Alts[g][b][k]

(***************************************************************************)
(* A table nobody can reach any more has been dropped.                     *)
(***************************************************************************)
Reachable(g) == g >= cur \/ \E r \in Readers : reader[r].pc = "find" /\ reader[r].g = g
MCView == <<[g \in 0..MaxGrowth |-> IF Reachable(g) THEN tables[g] ELSE Empty],
            cur, moving, len, writer, reader, seen>>
=============================================================================
