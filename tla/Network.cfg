SPECIFICATION FairSpec
CONSTANTS
    Letters = {"a", "b"}
    Containers <- MCContainers
    MaxBaseLength = 3
    Others <- MCOthers
    MaxFaults = 2
INVARIANT TypeOK
INVARIANT TrustedWhileUp
INVARIANT NothingForgotten
INVARIANT NameFits
PROPERTY Settles
