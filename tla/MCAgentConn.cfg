CONSTANTS
    None = None
    MaxData = 2
    MaxFails = 2
    Faults = TRUE
    Topic = {"t", "u"}
    Func = {"f", "g"}
    MaxCalls = 3
    Pattern = {"/t", "/t/#"}
    Wild = {"/t/#"}
    Value = {"v", "w"}
    Time = {1, 2}
    MaxFrame = 2
    Lists <- SomeLists
    MaxFrames = 2
    MaxBad = 2
    Garbage = 0
SPECIFICATION AgentSpec
CHECK_DEADLOCK FALSE
INVARIANTS TypeOK KeptUntilSent NothingOvertakes FirstFrameHasWill NeverGivenBackTwice BothUnderstand FramesStayApart OneListPerFrame
PROPERTIES ImplementsChannel AllHandedOver ThreadGoesOn
