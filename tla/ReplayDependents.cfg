SPECIFICATION Spec
CONSTANTS
    a = a
    b = b
    c = c
    NoImage = NoImage
    Main = c
    Images <- MCImages
    Line <- MCLine
    Layouts <- MCChanges
    Sessions = {"s1"}
    MaxUpdates = 1
    MaxFaults = 0
INVARIANT DependentsReplayed
