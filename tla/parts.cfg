SPECIFICATION Spec
CONSTANTS
  None = None
  BUSY = BUSY
  Slots = {s1, s2}
SYMMETRY SlotsAlike
INVARIANTS MessagesKept NothingLeaks ReadBack
PROPERTIES LimitsKept FindsAWay NotEarly
CHECK_DEADLOCK FALSE
