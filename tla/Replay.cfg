SPECIFICATION FairSpec
CONSTANTS
    a = a
    b = b
    c = c
    NoImage = NoImage
    Main = c
    Images <- MCImages
    Line <- MCLine
    Layouts <- MCLayouts
    Sessions = {"s1", "s2"}
    MaxUpdates = 1
    MaxFaults = 1
INVARIANT SavedWasPlayed
INVARIANT EntryUpToDate
INVARIANT BasesFirst
PROPERTY GetsIn
