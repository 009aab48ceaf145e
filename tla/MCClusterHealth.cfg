\* Two concurrent callers, two servers.
CONSTANTS
    n1 = n1
    n2 = n2
    Nodes <- MCNodes
    Callers = {c1, c2}
    Routes <- MCRoutes
    LIMIT = 2
    RETRY = 2
    FAILURES_MAX = 2
    MaxNow = 4
SPECIFICATION Spec
SYMMETRY MCSymmetry
INVARIANTS CountExact NoSilentDrop RetryBounded DroppedAtLimit
