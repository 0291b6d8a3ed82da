CONSTANTS
    Owners = {"a", "b"}
    Keys = {"k1", "k2", "k3", "k4"}
    Wants <- MCWants
    Processes = {"p", "q"}
    Process <- MCProcess
    MaxSpare = 1
    TTL = 2
    Grace = 2
    Margin = 3
    MaxSkew = 1
    MaxSubmit = 1
    MaxTime = 3
SPECIFICATION Spec
INVARIANT FenceIsUnique
INVARIANT NoTwoOwners
INVARIANT GuardImpliesRow
CHECK_DEADLOCK FALSE
