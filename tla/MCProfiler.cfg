SPECIFICATION Spec
CONSTANTS
  WindowSize = 2
  ScopeIds = {1, 2}
  Times = {0, 1, 4}
  MaxScopes = 4
  MaxResets = 2
INVARIANTS WalkInOrder StatsSound AveragesLatest
PROPERTY TimesStayWithScopes
CHECK_DEADLOCK FALSE
