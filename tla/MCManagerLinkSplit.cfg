SPECIFICATION Spec
CONSTANTS
    Links <- Split
    Ticket = {1, 2, 3, 4, 5}
    MaxBeats = 2
INVARIANTS
    FramesKept
