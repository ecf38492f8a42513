SPECIFICATION TreeSpec
CONSTANTS
    Tools = {"read", "bash", "task"}
    Authority = {"read", "exec", "spawn"}
    Requests = {{"read", "spawn"}}
    MaxDepth = 1
    MaxChildren = 1
    MaxToolCalls = 1
    MaxTurns = 2
    ChildTurns = 1
    MaxCalls = 1
    ChildCalls = 2
    MaxRuns = 2
INVARIANT ChildWithinParent
CHECK_DEADLOCK FALSE
