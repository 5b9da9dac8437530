SPECIFICATION FairSpec
CONSTANTS
  Frames <- MCFrames
  FrameStart <- MCFrameStart
  Transports = {"usb", "tcp"}
  Ends <- MCEnds
  BufCap = 10
  Cancellable = TRUE
INVARIANTS FrameAligned NeverReplayed
PROPERTIES ArrivedIsReturned
CHECK_DEADLOCK FALSE
