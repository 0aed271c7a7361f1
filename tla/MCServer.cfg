CONSTANTS
    c1 = c1
    c2 = c2
    v1 = v1
    v2 = v2
    None = None
    Conn <- ConnTwo
    Topic <- TwoTopics
    Pattern <- TwoTopicPatterns
    Covers <- TwoTopicCovers
    Broken = {"/["}
    Value = {v1, v2}
    Frames <- MixedMenus
    MaxFrames = 3
SYMMETRY SymmetryTwo
SPECIFICATION ServerSpec
CHECK_DEADLOCK FALSE
INVARIANTS TypeOK NoMissedUpdate DoneIsClean ReduceKeepsEffect WildcardsAreSegments
PROPERTIES PersistReplaces ImplementsPubSub AgesAreKept
