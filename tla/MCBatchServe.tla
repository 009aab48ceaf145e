---------------------------- MODULE MCBatchServe -----------------------------
(* Two keys, a short and a long value, a value that does not fit, a set that *)
(* does not parse and an op that is not allowed in a batch.                  *)
EXTENDS HttpServe

CONSTANTS k1, k2

MCKeys == {k1, k2}
MCItems == {Get(k1), Get(k2), SetTo(k1, 1), SetTo(k1, 3), SetTo(k2, 1), SetTo(k1, 4),
            SetUnparsable, DelOf(k1), DelOf(k2), Ping}
=============================================================================
