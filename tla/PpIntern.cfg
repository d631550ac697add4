SPECIFICATION InternSpec
CONSTANTS
    CHUNK_ALIGN = 2
    HEADER = 2
    FIRST_CHUNK = 8
    MAX_CHUNK = 16
    MaxAlign = 2
    Callers = {t1, t2}
    Stacks = {s1, s2, s3}
    Keys <- HashKeys
    SHARDS = 2
    MAX_POINTS = 6
    FIRST_CAPACITY = 1
    OVERFLOW = 5
    Limits <- ArenaLimits
    FrameWords <- Words
    MaxInterns = 4
SYMMETRY Symmetry
INVARIANTS AnswersLead TablesAgree
