SPECIFICATION Spec
CONSTANTS
    Rights <- MCRights
    MaxChanges = 1
    MaxCommands = 2
    MaxKills = 2
INVARIANT SudoFollowsHost
INVARIANT HostPassword
INVARIANT NextRunApplies
PROPERTY ManualStays
