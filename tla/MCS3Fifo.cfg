CONSTANTS
    Keys = {k1, k2, k3}
    Entries = {1, 2, 3, 4, 5}
    Readers = {r1}
    None = None
    Costs = {1, 2, 3}
    Capacity = 2
    SmallDiv = 1
    DeadDiv = 2
    FREQ_CAP = 2
    GHOST_MIN = 1
    CounterWrap = 2
SPECIFICATION MCSpec
VIEW MCView
SYMMETRY MCSymmetry
INVARIANTS
    Accounting
    WithinBudget
    IndexMatchesQueues
    ReplaceKeepsNeighbours
PROPERTIES
    EvictionProgresses
    ImplementsLossyCache
