CONSTANTS
    h1 = h1
    h2 = h2
    None = None
    Thread = {h1, h2}
    Topic <- OneTopic
    Like <- OneLike
    Value = {v1, v2}
    v1 = v1
    v2 = v2
    Stamp = {1, 2}
    Frames <- Persists
    Tables <- EmptyTable
    MaxFrames = 3
SPECIFICATION Spec
CHECK_DEADLOCK FALSE
PROPERTIES PersistKeepsOldest
