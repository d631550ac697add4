SPECIFICATION Spec
CONSTANTS
    n1 = n1
    n2 = n2
    n3 = n3
    Recorders = {t1, t2}
    Names <- RegionNames
    Kept <- Cut
    Sizes = {1, 2}
    MAX_THREADS = 1
    MAX_REGIONS = 2
    NAME_ATTEMPTS = 2
    MaxSpent = 3
SYMMETRY Symmetry
INVARIANTS RowsAreSound PeakIsExact VisitSums RegionsAreCounted
