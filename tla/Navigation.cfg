SPECIFICATION FairSpec
CONSTANTS
  DestCap = 1
  GpsCap = 1
  NavCap = 1
  Lengths = {0, 1, 3}
  MaxWrites = 2
INVARIANTS GuidesToDestination StepInRange
PROPERTIES DestinationInstalled TasksStop
CHECK_DEADLOCK FALSE
