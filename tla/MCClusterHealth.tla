-------------------------- MODULE MCClusterHealth ---------------------------
(***************************************************************************)
(* ClusterHealth with two servers, every key's ring walk, and callers that *)
(* are interchangeable, as the servers are.                                *)
(***************************************************************************)
EXTENDS ClusterHealth, TLC

CONSTANTS n1, n2

MCNodes == {n1, n2}
MCRoutes == {<<n1, n2>>, <<n2, n1>>}
MCSymmetry == Permutations(Callers) \cup Permutations(Nodes)
=============================================================================
