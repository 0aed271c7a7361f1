CONSTANTS
    Adapters = {a1, a2}
    Threads = {t1, t2, t3}
    None = None
SPECIFICATION LifeSpec
CHECK_DEADLOCK FALSE
INVARIANTS FreedOnce
