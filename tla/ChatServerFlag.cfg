SPECIFICATION Spec
CONSTANTS
    Modes = {"evicting"}
    MaxSeq = 6
    PromptLens = {1, 3}
    MaxTokens = {1, 3, 4}
    MaxRequests = 3
INVARIANTS
    CutOnlyIfGone
