SPECIFICATION Spec
CONSTANTS
  Program <- MCProgram
  Legacy = {"numGen"}
  MaxRelays = 2
  MaxSends = 2
  MaxReceived = 2
INVARIANTS OpenMeansStartedUp AllPublished RelayFound
PROPERTIES RecvThreadEnds EndsUnlessStuck
CHECK_DEADLOCK FALSE
