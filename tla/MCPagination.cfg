CONSTANTS
    MaxInt = 4
    Defaults <- MCDefaults
    Maxima <- MCMaxima
    FirstPages <- MCFirstPages
    MaxClicks = 3
SPECIFICATION Spec
CHECK_DEADLOCK FALSE
INVARIANTS
    TypeOK
    BackUndoesForward
PROPERTIES
    LinksHold
    BackEnds
