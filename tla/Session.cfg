SPECIFICATION FairSpec
CONSTANTS
    Terminals <- MCTerminals
    MaxData = 2
    MaxSignals = 1
INVARIANT TypeOK
INVARIANT StreamsInOrder
INVARIANT ExitCodeTrue
PROPERTY OutputShown
PROPERTY SessionEnds
CHECK_DEADLOCK FALSE
