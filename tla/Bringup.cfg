SPECIFICATION Spec
CONSTANTS
  Tables <- MCTables
  Garbled = 99
  Cars <- MCCars
  Modern = {"carnival"}
  MaxFaults = 2
  MaxRequests = 1
  MaxWire = 1
INVARIANTS NothingUnexpected JoinsAtTheStart ServesAccepted NeverBothWait
PROPERTIES Projects RequestsAnswered
CHECK_DEADLOCK FALSE
