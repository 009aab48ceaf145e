SPECIFICATION HSpec
CONSTANTS
  k1 = k1
  k2 = k2
  Keys <- MCKeys
  Values = {1, 3}
  Items <- MCItems
  LIMIT = 3
  MAX_RESPONSE = 6
  ITEMS = 3
INVARIANTS AnsweredAsAlone AppliedAsAlone HttpAsTcp
CHECK_DEADLOCK FALSE
