SPECIFICATION Spec
CONSTANTS
  PLCIs = {1}
  Stacks = {"plain", "ppp"}
  Channels = {1}
  Happenings = {"bad", "early", "reuse", "boot", "pbx", "eaz", "down", "hup"}
INVARIANTS NoZombie
PROPERTIES NoOtherOrphan EndTold
CHECK_DEADLOCK FALSE
