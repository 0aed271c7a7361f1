CONSTANTS
    c1 = c1
    c2 = c2
    v1 = v1
    v2 = v2
    StatusTopic <- OneTopic
    Online = v1
    Offline = v2
    None = None
    Conn <- ConnTwo
    Topic <- OneTopic
    Pattern <- OneTopic
    Covers <- OneTopicCovers
    Broken = {}
    Value = {v1, v2}
    Frames <- StatusMenus
    MaxFrames = 2
SYMMETRY SymmetryTwo
SPECIFICATION Spec
CHECK_DEADLOCK FALSE
INVARIANTS OpenAgentIsOnline
