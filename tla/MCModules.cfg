CONSTANTS
    c1 = c1
    c2 = c2
    Caller = {c1, c2}
    Key = {1, 2}
    AppendKey = {2}
    Value = {1, 2}
    MinSend = 1
    Check = 1
    MaxSend = 2
    Nap = 1
    MaxClock = 11
    ShortTime = 5
    MaxPuts = 3
    MaxLate = 1
    MaxAdjust = 1
    Adapters = {a1, a2}
    Threads = {t1, t2, t3}
    None = None
    Kinds <- KindsMade
    Numbers = {0, 1}
    MaxOptions = 3
    MaxBuffers = 3
SPECIFICATION ModulesSpec
CHECK_DEADLOCK FALSE
SYMMETRY SymmetryCallers
INVARIANTS TypeOK SentIsCurrent OneRecord NewValueSoonSent OneCapture OptionsAreConsistent
PROPERTIES RateLimited CaptureKeepsNetworks
