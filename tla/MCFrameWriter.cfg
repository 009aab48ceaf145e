SPECIFICATION Spec
CONSTANTS
  BUF = 4
  inline_limit = 2
  MAX_IOV = 2
  BODIES = {0, 1, 2}
  MAXLEN = 13
INVARIANTS QueueIsExact 
