SPECIFICATION Spec
CONSTANTS
    p1 = p1
    p2 = p2
    x = x
    y = y
    Procs <- MCProcs
    Names <- MCNames
    RenameTargets <- Entries
    Commands = {"create", "delete", "rename", "set-default", "list"}
    MaxCommands = 3
SYMMETRY Symmetry
INVARIANT TypeOK
PROPERTY OnlyHolderTouches
PROPERTY ArrivesComplete
PROPERTY OnlyDeleteRemoves
CHECK_DEADLOCK FALSE
