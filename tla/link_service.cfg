SPECIFICATION Spec
CONSTANTS
  Mod = 3
  K = 2
  N1 = 1
  ErrStep = 1
  ErrMax = 2
  Poll = FALSE
  Broadcast = FALSE
  Data = {1, 2}
  None = None
  A = A
  B = B
  Side <- Sides
  Cap = 3
  MaxLoss = 4
  MaxFill = 0
  MaxMsg <- TwoByA
  MaxConnect <- TwoAndOne
  MaxRelease <- OneByA
INVARIANTS InOrder ViewAgrees
PROPERTIES ServiceSpec
CHECK_DEADLOCK FALSE
