CONSTANTS
    NWorkers = 2
    MaxChunks = 2
    MaxItems = 2
    MaxWork = 2
SPECIFICATION FairSpec
INVARIANTS TypeOK ExactlyOnce CompleteOnReturn ContextLive StoredFunction Inductive
PROPERTIES ImplementsParallelFor DispatchReturns DropJoins
