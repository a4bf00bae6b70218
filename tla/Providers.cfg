SPECIFICATION Spec0
CONSTANTS
    deepseek = deepseek
    minimax = minimax
    Vendors <- TwoVendors
    Remote <- OnlyDeepSeek
    Keyless <- NoVendors
    Legacy = deepseek
    Keys = {k1}
    NoKey = NoKey
    NoVendor = NoVendor
    NoAgent = NoAgent
    r1 = r1
    r2 = r2
    Requests <- TwoRequests
    Tasks = {"topic_analysis"}
    MaxOps = 3
    MaxFaults = 1
SYMMETRY Symmetry
CHECK_DEADLOCK FALSE
INVARIANTS
    DriftHasACause
    OneDefault
    ReadyEngineCanRun
