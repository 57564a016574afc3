SPECIFICATION FairSpec
CONSTANTS
    Modes = {"evicting", "keepset", "fixed"}
    MaxSeq = 9
    SysLens = {0, 2}
    Bos = 1
    Eot = 1
    MaxNew = 2
    TurnLens = {1, 3}
    MaxTurns = 4
INVARIANTS
    TypeOK
    Fits
    OccupancyTrue
    BudgetExact
PROPERTIES
    TurnsEnd
