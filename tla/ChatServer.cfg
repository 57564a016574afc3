SPECIFICATION FairSpec
CONSTANTS
    Modes = {"evicting", "keepset", "fixed"}
    MaxSeq = 6
    PromptLens = {1, 3}
    MaxTokens = {1, 3, 4}
    MaxRequests = 3
INVARIANTS
    TypeOK
    Fits
    OwnContext
    TokensExact
PROPERTIES
    RequestsEnd
