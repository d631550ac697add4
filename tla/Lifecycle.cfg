SPECIFICATION FairSpec
CONSTANTS
    Threads = {t1, t2, t3}
    NoThread = NoThread
CHECK_DEADLOCK FALSE
INVARIANTS OneProfile DisownedIsSilent
PROPERTIES ExitEnds
