SPECIFICATION Spec
CONSTANTS
    Threads = {t1, t2}
    Shards = 2
    MaxOps = 3
CHECK_DEADLOCK FALSE
INVARIANTS Ordered GivenBack
PROPERTIES OperationsEnd
