SPECIFICATION Spec
CONSTANTS
    Setups <- Engines
    MinTokens = 3
    FloorDiv = 5
    Directives <- ManyDirectives
    MaxDirectives = 2
    MaxSteps = 3
    MaxRuns = 2
    PromptLen = 9
    MinEvict = 2
INVARIANTS
    TypeOK
    AnswersFit
    LogicalIsContext
    OffloadHolds
    
PROPERTIES
    ServesDirectives
    OkMeansWithin
    FoldingCovers
