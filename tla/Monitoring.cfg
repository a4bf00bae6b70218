SPECIFICATION EditorSpec
CONSTANTS
    r1 = r1
    r2 = r2
    Workers <- TwoWorkers
    Fold <- FoldCase
    Slug <- SlugOf
    MaxTopics = 3
    MaxQueries = 2
    MaxTotal = 3
    MaxSources = 1
    MaxExclusions = 1
    MaxSuffix = 2
    KeyLen = 3
    SuffixedLen = 6
    RawKeyLen = 7
    Clean <- Trim
    CleanDomain <- HostOf
    CleanWord <- Trim
    BadNames <- NoName
    BadQueries <- TooShort
    Addresses <- Urls
    NotADomain = NotADomain
    Blank = Blank
    Junk = Junk
    ModuleKeys <- MyKeys
    Names <- MyNames
    Texts <- MyTexts
    Payloads <- MyPayloads
    TopicPayloads <- MyTopicPayloads
    Seeds <- MySeeds
    MaxOps = 4
SYMMETRY Symmetry
CHECK_DEADLOCK FALSE
INVARIANTS
    PostedIsShown
    NoTwinTopics
    SkippedIsFlagged
PROPERTIES
    DraftIsWhole
