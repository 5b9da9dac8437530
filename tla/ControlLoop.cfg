SPECIFICATION FairSpec
CONSTANTS
  Links = {"usb", "tcp"}
  UsbSources = {"nav", "audio", "video"}
  TcpSources = {"nav", "audio", "video"}
  QueueCap = 2
  InboundCap = 2
  MaxReplies = 3
INVARIANT OnlyQueuesBlocked
PROPERTIES BranchReturns UnplugEnds InboundServed
CHECK_DEADLOCK FALSE
