SPECIFICATION ProgramSpec
CONSTANTS
  HandlerKeys = {"c", "s"}
  StopKey = "e"
  OtherKey = "enter"
  MaxKeys = 3
  Programs <- MCPrograms
  Workers = {"w1", "w2"}
  Hears <- MCHears
INVARIANTS CalledWhileAlive EveryKeyShown
PROPERTY StopKeyEnds
CHECK_DEADLOCK FALSE
