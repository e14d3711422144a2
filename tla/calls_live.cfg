SPECIFICATION FairSpec
CONSTANTS
  Protocols = {"ETS", "1TR6"}
  Happenings = {"linkdown", "nocard", "immed"}
PROPERTIES WaitingEnds
CHECK_DEADLOCK FALSE
