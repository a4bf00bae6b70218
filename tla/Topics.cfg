SPECIFICATION LiveSpec
CONSTANTS
  c1 = c1
  c2 = c2
  h1 = h1
  n1 = n1
  n2 = n2
  x1 = x1
  First = 1
  FirstBriefs <- OneBrief
  None = None
  Ids = {1, 2}
  Coroutines <- TwoCoroutines
  Pooled <- OnePooled
  Names <- TwoNames
  Texts <- OneText
  Kinds <- AllKinds
INVARIANT
  NoSelfWait
PROPERTY
  KeepsHistory
  EditsLeaveSchedule
  RequestsEnd
CHECK_DEADLOCK FALSE
