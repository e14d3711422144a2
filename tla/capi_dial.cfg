SPECIFICATION Spec
CONSTANTS
  PLCIs = {1, 2}
  Stacks = {"plain", "ppp"}
  Channels = {1, 2}
  Happenings = {}
CHECK_DEADLOCK FALSE
PROPERTIES ActiveExpected
