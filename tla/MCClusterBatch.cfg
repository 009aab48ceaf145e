SPECIFICATION Spec
CONSTANTS
  Servers = {s1, s2, s3}
  ITEMS = 5
  MAX_ITEMS = 4
  LENGTHS = {0, 1, 2}
  U32 = 7
SYMMETRY Symmetry
INVARIANTS SlotsRead EveryServerNoted
CHECK_DEADLOCK FALSE
