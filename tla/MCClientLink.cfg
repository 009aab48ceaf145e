SPECIFICATION Spec
CONSTANTS
  Callers = {p1, p2}
  Ops = {"set"}
  CALLS = 1
  CONNS = 2
  PINGS = 1
  Faults = {"token", "invalid", "extra", "large"}
SYMMETRY Symmetry
VIEW MCView
INVARIANTS ReplyMatches NotStranded  OneConnection
PROPERTY DeadIsForever
CHECK_DEADLOCK FALSE
