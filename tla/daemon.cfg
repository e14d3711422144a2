SPECIFICATION Spec
CONSTANTS
  Limit = 1
  MaxReconn = 3
  Refs = {1, 2}
  MaxQueue = 2
  Budget = 2
  Cost <- MCCost
  Cheap = {}
  Dear = {"incoming", "idle", "charge", "program", "drop", "dialerror", "kill", "freeze", "levels", "notfound", "nopush", "flush"}
INVARIANTS  TransitEnds WishKept
PROPERTY CostlyFailureOff
CHECK_DEADLOCK FALSE
