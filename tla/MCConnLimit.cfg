SPECIFICATION FairSpec
CONSTANTS
  Listeners = {tcp, http}
  MAX = 3
  HITS = 2
INVARIANTS BudgetKept
PROPERTIES  ShutdownReturns
