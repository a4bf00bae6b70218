SPECIFICATION AgentSpec
CONSTANTS
    deepseek = deepseek
    openai = openai
    minimax = minimax
    p1 = p1
    p2 = p2
    Vendors <- ThreeVendors
    Remote <- WithSearch
    Checked <- SearchChecked
    Keyless <- NoVendors
    Legacy = deepseek
    Keys = {k1}
    NoKey = NoKey
    NoVendor = NoVendor
    NoAgent = NoAgent
    MaxEvents = 1
    MaxSources = 2
    MaxSections = 2
    MaxItems = 2
    MaxNotes = 2
    Junk = Junk
    NoId = NoId
    NotAPage = NotAPage
    NoDate = NoDate
    Answers <- RawAnswers
    Finds <- Found
    Retries = 2
    MaxEvidence = 2
    MaxEdits = 1
CHECK_DEADLOCK FALSE
INVARIANTS
    UsageAgrees
    LocalOnlyWhenAsked
    NeverBetterThanCollection
    EvidenceIsReal
