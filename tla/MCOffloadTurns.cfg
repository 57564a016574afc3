SPECIFICATION Spec
CONSTANTS
    NLayers = 4
    MaxDepth = 2
    InitialDepth = 1
    AdjustStep = 1
    MaxSeq = 5
    MaxSessions = 1
    MaxTurns = 2
    MaxFaults = 0
INVARIANTS
    UpdatesAppend
