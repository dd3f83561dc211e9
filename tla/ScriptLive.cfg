SPECIFICATION FairSpec
CONSTANTS
    s1 = s1
    s2 = s2
    n1 = n1
    n2 = n2
    n3 = n3
    Scripts = {s1}
    Nodes = {n1, n2, n3}
    NoNode = NoNode
    Capacity = 1
    Budget = 1
    MaxCalls = 2
    MaxHandles = 1
    MaxOps = 3
    NoScript = NoScript
    Stuck = {}
PROPERTIES CallsReturn JoinReturns
CHECK_DEADLOCK FALSE
