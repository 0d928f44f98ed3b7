SPECIFICATION Spec
CONSTANTS
  s1 = s1
  s2 = s2
  s3 = s3
  i1 = i1
  p1 = p1
  TopicCount = 2
  Handles <- MCHandles
  TopicOf <- MCTopicOf
  Inspectors = {i1}
  EntryOf <- MCEntryOf
  Publishers = {p1}
  MaxLinks = 5
  MaxPublishes = 2
INVARIANTS IndexConsistent LinksOwned
PROPERTY ImplementsTopicBus
CHECK_DEADLOCK FALSE
