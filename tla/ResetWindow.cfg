SPECIFICATION FairSpec
CONSTANTS
    Recorders = {e1}
    Readers = {r1}
    Restarter = owner
    MaxResets = 2
    MaxEvents = 2
INVARIANTS Windows
PROPERTIES ReadingEnds
