SPECIFICATION Spec
CONSTANTS
  MaxClientCount = 2
  MaxConnections = 3
  Failing = {1, 2}
  Stalling = {}
INVARIANT SlotBelowLimit
CHECK_DEADLOCK FALSE
