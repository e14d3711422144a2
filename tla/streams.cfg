SPECIFICATION FairSpec
CONSTANTS
  Hiwat <- Marks
  Lowat <- Zero
  Procs = {p1, p2}
  Kinds = {"buffer", "log"}
  MaxWork = 3
  Rare = {}
INVARIANTS NoLostWakeup Whole OwnReply
PROPERTIES WriterWakes
CHECK_DEADLOCK FALSE
