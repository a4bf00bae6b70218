SPECIFICATION LiveSpec
CONSTANTS
  r1 = r1
  r2 = r2
  t1 = t1
  Boot = Boot
  Classic = Classic
  None = None
  Times <- TwoTimes
  BadTime = "99:99"
  ClassicDefault = "06:00"
  TopicDefault = "08:00"
  Requests <- TwoRequests
  Topics <- OneTopic
  Faults <- BothFaults
  MaxSaves = 2
  MaxCrashes = 1
INVARIANT
  NoTopicForgotten
PROPERTY
  StaleJobIsHarmless
  ScheduledTopicGetsJob
CHECK_DEADLOCK FALSE
