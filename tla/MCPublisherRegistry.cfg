SPECIFICATION Spec
CONSTANTS
  t1 = t1
  t2 = t2
  p1 = p1
  p2 = p2
  p3 = p3
  p4 = p4
  Topics = {t1, t2}
  Publishers = {p1, p2, p3, p4}
  TopicOf <- MCTopicOf
  CounterModulus = 8
INVARIANTS CountsExact RepairsNeverRun
