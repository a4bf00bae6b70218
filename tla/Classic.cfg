SPECIFICATION Spec
CONSTANTS
  m1 = m1
  m2 = m2
  m3 = m3
  t1 = t1
  t2 = t2
  t3 = t3
  t4 = t4
  t5 = t5
  s1 = s1
  s2 = s2
  Plans <- ThreePlans
  TopicsOf <- TopicsOfEach
  MaxReportItems = 1
  Sources <- OneSource
  Idle <- NoneIdle
  Faults <- AllFaults
INVARIANT
  HonestSilence
  CompletedIsComplete
  ItemsReachReport
CHECK_DEADLOCK FALSE
