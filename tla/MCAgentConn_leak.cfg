CONSTANTS
    None = None
    MaxData = 0
    MaxFails = 0
    Faults = FALSE
    Topic = {"t"}
    Func = {"f"}
    MaxCalls = 2
    Pattern = {"/t"}
    Wild = {}
    Value = {"v"}
    Time = {1}
    MaxFrame = 0
    Lists <- SomeLists
    MaxFrames = 0
    MaxBad = 0
    Garbage = 0
SPECIFICATION AgentSpec
CHECK_DEADLOCK FALSE
INVARIANT SentIsFreed
