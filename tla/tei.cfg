SPECIFICATION FairSpec
CONSTANTS
  Tei = {64, 65}
  Broadcast = 127
  Requested = 255
  FixedTei = 999
  Negotiated = 999
  N201 = 1
  N202 = 2
  Immediate = FALSE
  MaxEvents = 2
  MaxAsked = 1
  Events <- Everything
INVARIANTS TimersMatch OneTimer
PROPERTIES RequestAnswered
CHECK_DEADLOCK FALSE
