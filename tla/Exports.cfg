SPECIFICATION Spec
CONSTANTS
    a1 = a1
    a2 = a2
    c1 = c1
    c2 = c2
    h1 = h1
    n1 = n1
    n2 = n2
    Apps <- MCApps
    Cmds <- MCCmds
    Handlers = {h1}
    Names = {n1, n2}
    FirstName = n1
    Ops = {"+", "-", ":"}
    MaxChanges = 2
    MaxCommands = 4
SYMMETRY Symmetry
INVARIANT TypeOK
INVARIANT LiveExportsWhole
INVARIANT ConfigWhole
INVARIANT UpdateTakesEffect
CHECK_DEADLOCK FALSE
