CONSTANTS
    c1 = c1
    c2 = c2
    Caller = {c1}
    Key = {1}
    AppendKey = {1}
    Value = {1, 2}
    MinSend = 1
    Check = 1
    MaxSend = 2
    Nap = 1
    MaxClock = 9
    ShortTime = 9
    MaxPuts = 2
    MaxLate = 1
    MaxAdjust = 0
SPECIFICATION MCSpec
CHECK_DEADLOCK FALSE
INVARIANTS SkippedIsPublished
