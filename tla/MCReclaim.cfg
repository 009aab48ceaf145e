SPECIFICATION ESpec
CONSTANTS
  Threads = {t1, t2}
  Classes = {1, 2}
  class_size <- MCSize
  batch <- MCBatch
  REGION = 2
  REGIONS = 2
  HELD = 2
  Keys = {k1, k2}
  None = None
  Conns = {c1}
  Large = {2}
  FLUSH_ENTRIES = 2
  FLUSH_BYTES = 5
SYMMETRY Symmetry
INVARIANTS MemoryExact EntriesLive 
CHECK_DEADLOCK FALSE
