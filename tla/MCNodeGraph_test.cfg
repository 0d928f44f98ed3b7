SPECIFICATION Spec
CONSTANTS
  Programs <- TestAlone
  Ending <- TestAlone
  NodeOf <- ClassOf
  Compute <- MCCompute
  Topics <- AllTopics
  MaxNumbers = 2
INVARIANT InputsOutliveProducers
CHECK_DEADLOCK FALSE
