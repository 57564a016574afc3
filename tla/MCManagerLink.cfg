SPECIFICATION FairSpec
CONSTANTS
    Links <- Sound
    Ticket = {1, 2, 3, 4, 5}
    MaxBeats = 3
INVARIANTS
    TypeOK
    FramesKept
    AnsweredInOrder
PROPERTIES
    ReportsArrive
    CloseEnds
