\* One slot per bucket and a reader: four keys displace one another, in the
\* live table and in the ones it grows into.
CONSTANTS
    Keys <- MCKeys
    Words <- MCWords
    Empty = Empty
    Readers = {r1}
    Sought = {0, 1}
    SLOTS = 1
    MIN_BUCKETS = 4
    MAX_LOAD = 6
    MAX_KICKS = 3
    MaxGrowth = 2
    MaxMoving = 2
    Home <- MCHome
    Alt <- MCAlt
SPECIFICATION Spec
VIEW MCView
INVARIANTS IsMap GetLinearizable
PROPERTIES GrowthKeepsMap
