\* Two threads share objects of the class and of a larger derived class.
CONSTANTS
    TEST_FULL = FALSE
    TARGET = 24
    Sizes = {24, 1040}
    START_SIZE = 1
    MaxBlocks = 3
    Threads = {t1, t2}
    WeakThreads = {t1}
    LockRace = FALSE
    Warm = TRUE
    MaxHold = 1
    Storages = {w1}
    Null = null
SPECIFICATION Spec
INVARIANTS HeldIsAlive BlocksOnce BlockFits WeakKnowsDeath
PROPERTIES UnheldIsFreed
