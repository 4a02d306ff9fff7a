SPECIFICATION PrivateSpec
CONSTANTS
    Names = {"x", "y"}
    Commands <- MCCommands
    MaxListed = 3
    MaxContainers = 2
    MaxCommands = 2
    MaxWrites = 1
    MaxKills = 1
INVARIANT NsboxdAccepts
INVARIANT ListAsAsked
INVARIANT PrivateShown
INVARIANT OwnedByUser
