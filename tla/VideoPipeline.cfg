SPECIFICATION FairSpec
CONSTANTS
  MaxInFlight = 2
  OutboundCap = 2
  MaxGeneration = 2
  Channels = {1}
  NoChannel = 255
INVARIANTS LateFrameBound WindowBound
PROPERTIES WindowSpec SupersededExit
CHECK_DEADLOCK FALSE
