SPECIFICATION Spec
CONSTANTS
    Setups <- Configured
    MinTokens = 3
    FloorDiv = 5
    Directives <- FewDirectives
    MaxDirectives = 1
    MaxSteps = 2
    MaxRuns = 1
    PromptLen = 8
    MinEvict = 2
PROPERTIES
    BudgetRestates
