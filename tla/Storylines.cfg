SPECIFICATION MemorySpec
CONSTANTS
  Story <- SeveralStories
  Orders <- TwoOrders
  Days = {1, 30}
  Lookback = 45
  MaxItems = 3
  MaxReports = 2
  Horizon = 21
  UrlCap = 2
  ShortlistLimit = 2
  NoDate = NoDate
  NoFigure = NoFigure
  Suffixes <- NoSuffixButInc
  ShortWords <- NoShortWords
INVARIANT
  ChangesMatchHistory
PROPERTY
  MergeIsWarranted
CHECK_DEADLOCK FALSE
