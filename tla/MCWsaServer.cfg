SPECIFICATION Spec
CONSTANTS
  MaxClientCount = 2
  MaxConnections = 3
  Failing = {1, 2}
  Stalling = {2}
INVARIANTS NoClientOverwritten CountMatchesSockets BroadcastReachesAll
PROPERTIES SoundClientKept StopEnds
CHECK_DEADLOCK FALSE
