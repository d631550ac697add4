SPECIFICATION Spec
CONSTANTS
    Subjects = {"saving"}
    s1 = s1
    s2 = s2
    s3 = s3
    s4 = s4
    p1 = p1
    p2 = p2
    Savers = {s1, s2, s3, s4}
    BaselineSavers = {}
    Formats = {"dhat", "folded"}
    Pids = {10, 11}
    Pieces = 2
    MaxSaves = 2
    MaxFailures = 1
    MaxCrashes = 1
    MAX_POINTS = 2
    SLACK = 0
    SHARDS = 2
    MAX_BLOCKS = 1
    RunModes = {"heap", "copy"}
    Limits = {0, 1}
    MaxEvents = 3
    Bits = 2
    Sizes = {0, 1, 3}
    Gaps = {1, 2, 4}
    MaxRequests = 2
    MODULUS = 16
    WORD = 2
    MAX_FRAME_SPAN = 6
    WINDOWS_LIMIT = 7
    SkipCounts = {0, 1}
    Rooms = {0, 1, 2}
    FIRST_BATCH = 1
    MAX_BATCH = 4
    BATCHES = 3
    TARGET = 3
    BUDGET = 8
    Elapsed = {0, 2, 3, 5}
    Tools = {"addr2line", "llvm"}
    PIPE = 1
    MaxComplaints = 1
    MaxFaults = 1
    MAX_DEPTH = 6
    PRINT_BUDGET = 30
    MaxMore = 4
CHECK_DEADLOCK FALSE
SYMMETRY Alike
INVARIANT DestinationIsWhole
