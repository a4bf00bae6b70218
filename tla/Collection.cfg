SPECIFICATION Spec
CONSTANTS
  q1 = q1
  q2 = q2
  q3 = q3
  q4 = q4
  k1 = k1
  k2 = k2
  g = g
  rss = rss
  f1 = f1
  f2 = f2
  None = None
  Topics <- ThreeTopics
  Keys = {k1, k2}
  KeyOf <- KeyOfEach
  Search <- OneSearch
  Rss = rss
  Plans <- Orders
  MaxConcurrency <- Slots
  Threshold <- Thresholds
  MaxAttempts <- Tries
  MinCandidates = 1
  Workers = 2
  Remembered <- OneRemembered
INVARIANT
  BreakerRefuses
  HonestNothing
  TopicsAgreeWithHealth
  AskedForOneTopic
CHECK_DEADLOCK FALSE
