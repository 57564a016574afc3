SPECIFICATION FairSpec
CONSTANTS
    NLayers = 4
    MaxDepth = 2
    InitialDepth = 1
    AdjustStep = 1
    MaxSeq = 5
    MaxSessions = 1
    MaxTurns = 2
    MaxFaults = 2
INVARIANTS
    TypeOK
    ExclusiveAccess
    WorkersGoneOnReturn
    DeferredNotLost
    StreamedLayersSeeContext
PROPERTIES
    NoOscillation
    CallReturns
