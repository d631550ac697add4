SPECIFICATION Spec
CONSTANTS
    Threads = {t1, t2}
    Addresses = {a1, a2, a3}
    Points = {p1, p2}
    Sizes = {1, 2}
    Scaled <- SmallForMany
    MaxLive = 2
    None = None
    MaxCalls = 4
SYMMETRY Symmetry
INVARIANTS EntryIsBlock Accounts
