SPECIFICATION FairSpec
CONSTANTS
  Outputs = {4}
  Inputs = {5}
  QueueCap = 2
  MaxEncoders = 2
  MaxData = 2
  MaxFlushes = 2
INVARIANTS LateFrameBound HeldOpenIsAcked
PROPERTIES StopEnds StopFlushes
CHECK_DEADLOCK FALSE
