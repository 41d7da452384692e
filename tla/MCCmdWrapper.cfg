SPECIFICATION Spec
CONSTANTS
    MaxPieces = 3
    FlushThreshold = 2
INVARIANTS
    NothingLost
    ResultIsWhole
PROPERTIES
    RunReturns
    LinesAreLogged
