SPECIFICATION FairSessionSpec
CONSTANTS
  MaxInFlight = 3
  OutboundCap = 1
  MaxGeneration = 2
  Channels = {1}
  NoChannel = 255
  VideoByte = 1
  SensorByte = 3
  AudioBytes = {4}
  HUMessages = {"VideoFocus", "Start"}
  MaxLost = 1
  MaxStray = 1
  MaxWire = 3
INVARIANT StopFromVideoChannel
CHECK_DEADLOCK FALSE
