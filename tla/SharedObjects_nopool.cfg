\* The last holder is a thread that never made an object of that size.
CONSTANTS
    TEST_FULL = FALSE
    TARGET = 24
    Sizes = {24, 1040}
    START_SIZE = 1
    MaxBlocks = 4
    Threads = {t1, t2}
    WeakThreads = {t1}
    LockRace = FALSE
    Warm = FALSE
    MaxHold = 1
    Storages = {w1}
    Null = null
SPECIFICATION Spec
INVARIANTS PoolIsThere
