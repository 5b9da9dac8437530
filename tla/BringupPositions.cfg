SPECIFICATION Spec
CONSTANTS
  Tables <- MCTables
  Garbled = 99
  Cars <- MCCars
  Modern = {"carnival"}
  MaxFaults = 2
  MaxRequests = 1
  MaxWire = 1
INVARIANT PositionsLogged
CHECK_DEADLOCK FALSE
