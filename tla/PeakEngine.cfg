SPECIFICATION Spec
CONSTANTS
    Threads = {t1, t2, t3}
    NoThread = NoThread
    Blocks = {b1, b2}
    Points = {p1, p2}
    None = None
    Sizes = {1, 2}
    MaxEvents = 4
    FlushEvents = 2
SYMMETRY Symmetry
INVARIANTS Bounded LazyIsEager Accounts
PROPERTIES SharedNeverPeaks ImplementsEagerPeak
