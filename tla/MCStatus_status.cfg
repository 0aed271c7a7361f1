CONSTANTS
    c1 = c1
    c2 = c2
    v1 = v1
    v2 = v2
    StatusTopic <- OneTopic
    Online = v1
    Offline = v2
    None = None
    Conn <- ConnTwo
    Topic <- OneTopic
    Pattern <- BrokenPatterns
    Covers <- BrokenCovers
    Broken = {"/["}
    Value = {v1, v2}
    Frames <- PersistMenus
    MaxFrames = 3
SPECIFICATION FairSpec
CHECK_DEADLOCK FALSE
INVARIANTS OnlineIsGuarded
PROPERTIES HandlerEnds WillIsPublished
