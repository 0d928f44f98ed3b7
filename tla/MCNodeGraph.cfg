SPECIFICATION Spec
CONSTANTS
  Programs <- MCPrograms
  Ending <- MCEnding
  NodeOf <- ClassOf
  Compute <- MCCompute
  Topics <- AllTopics
  MaxNumbers = 6
INVARIANTS InputsInOrder OutputsFollowInputs DestroyedInOrder
PROPERTIES NothingLeftToDo DestructionEnds
CHECK_DEADLOCK FALSE
