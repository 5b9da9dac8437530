SPECIFICATION FairPathSpec
CONSTANTS
  Nals <- MCNals
  ReadMax = 33
  MaxFragment = 8
  Lengths <- MCLengths
  MaxMessages = 4
  WireCap = 2
  OutboundCap = 2
  Overhead = 2
INVARIANTS WellFormed UnitsInOrder UnitsExact
PROPERTIES UnitsArrive
CHECK_DEADLOCK FALSE
