SPECIFICATION Spec
CONSTANTS
  Mod = 3
  K = 2
  N1 = 1
  ErrStep = 1
  ErrMax = 2
  Poll = FALSE
  Broadcast = FALSE
  Data = {1}
  None = None
  Frames <- PoliteFrames
  Requests <- PoliteRequests
  Blocks <- NoUI
  Envs <- MCEnvs
  MaxUI = 0
INVARIANTS TimerGuard WindowKept ToldUp
