SPECIFICATION Spec
CONSTANTS
    Setups <- Pooled
    MinTokens = 3
    FloorDiv = 5
    Directives <- GentleDirectives
    MaxDirectives = 1
    MaxSteps = 3
    MaxRuns = 1
    PromptLen = 9
    MinEvict = 2
INVARIANTS
    PlanFresh
