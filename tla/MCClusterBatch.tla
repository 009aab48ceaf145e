--------------------------- MODULE MCClusterBatch ----------------------------
(* Small instances of ClusterBatch for TLC.                                 *)
EXTENDS ClusterBatch, TLC

Symmetry == Permutations(Servers)
=============================================================================
