------------------------------ MODULE MCReclaim ------------------------------
(* Two threads, a small and a large class, two keys.                        *)
EXTENDS Reclaim, TLC

MCSize == <<1, 2>>
MCBatch == <<1, 1>>
Symmetry == Permutations(Threads) \cup Permutations(Keys)
=============================================================================
