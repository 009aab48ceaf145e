---------------------------- MODULE MCClientLink ----------------------------
(* Small instances of ClientLink for TLC.                                   *)
EXTENDS ClientLink, TLC

Symmetry == Permutations(Callers)

(* recover only compares attempts with what the caller saw of it. *)
MCView == <<link, conns, slow, last, store, server, hist,
            [p \in Callers |-> [call[p] EXCEPT !.seen = IF call[p].pc = "slow" /\ @ # attempts THEN 1 ELSE 0]]>>
=============================================================================
