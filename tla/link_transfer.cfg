SPECIFICATION FairSpec
CONSTANTS
  Mod = 3
  K = 2
  N1 = 2
  ErrStep = 1
  ErrMax = 3
  Poll = FALSE
  Broadcast = FALSE
  Data = {1, 2}
  None = None
  A = A
  B = B
  Side <- Sides
  Cap = 3
  MaxLoss = 2
  MaxFill = 1
  MaxMsg <- TwoByA
  MaxConnect <- OneByA
  MaxRelease <- OneByA
PROPERTIES LostOnlyByReset MessageResolved RequestsAnswered
CHECK_DEADLOCK FALSE
