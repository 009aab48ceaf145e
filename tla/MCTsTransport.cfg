SPECIFICATION FairSpec
CONSTANTS
  Calls = {c1, c2, c3}
  LINKS = 3
  PINGS = 1
INVARIANTS ReplyMatches ReissuedOnce
PROPERTIES CallSettles DeadHangsUp
CHECK_DEADLOCK FALSE
