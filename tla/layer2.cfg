SPECIFICATION Spec
CONSTANTS
  Devs = {d1, d2}
  Sapis = {0}
  NB = 1
  ND = 1
  Rare <- All
INVARIANTS TimersMatch ChannelsAgree ViewAgrees
PROPERTIES BeginsIdle DetachTold
CHECK_DEADLOCK FALSE
