SPECIFICATION Spec
CONSTANTS
    t1 = t1
    t2 = t2
    t3 = t3
    Threads = {t1, t2, t3}
    None = None
    SLOTS = 3
    MAX_PROBE = 2
    Home <- Colliding
    MaxEnters = 3
    MaxNesting = 2
    MaxReuses = 1
SYMMETRY Symmetry
CHECK_DEADLOCK FALSE
INVARIANTS Reentrancy ContentsAreOwn
