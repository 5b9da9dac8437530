SPECIFICATION FairSpec
CONSTANTS
  Links = {"usb"}
  UsbSources = {"video"}
  TcpSources = {}
  QueueCap = 2
  InboundCap = 2
  MaxReplies = 2
PROPERTIES BranchCompletes
CHECK_DEADLOCK FALSE
