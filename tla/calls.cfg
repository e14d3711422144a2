SPECIFICATION Spec
CONSTANTS
  Protocols = {"ETS", "1TR6"}
  Happenings <- Rare
INVARIANTS TimersMatch NotForgotten NoZombie NoDangling
PROPERTIES StaysCleared
CHECK_DEADLOCK FALSE
