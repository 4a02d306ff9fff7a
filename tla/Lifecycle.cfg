SPECIFICATION FairSpec
CONSTANTS
    p1 = p1
    p2 = p2
    Procs <- MCProcs
    Commands = {"run", "restart", "kill", "killall"}
    MaxStarts = 3
    MaxCommands = 3
INVARIANT StarterEntersReady
INVARIANT LockCoversContainer
INVARIANT RestartReplaces
PROPERTY RunSettles
PROPERTY KillReturns
CHECK_DEADLOCK FALSE
