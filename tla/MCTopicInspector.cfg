SPECIFICATION Spec
CONSTANTS
  t1 = t1
  t2 = t2
  p1 = p1
  p2 = p2
  Topics = {t1, t2}
  Publishers = {p1, p2}
  MaxMessages = 2
  MaxAge = 2
INVARIANTS FoundWhileRunning AgeCounts
PROPERTIES TablesStable ShutDownEnds
CHECK_DEADLOCK FALSE
