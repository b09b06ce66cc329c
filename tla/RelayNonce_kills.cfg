SPECIFICATION Spec
CONSTANTS
    Task = {t1, t2}
    Block = 3
    Clocks = {0, 2, 5}
    Faults = {"kill", "write"}
    Torn = Torn
    MaxValue = 8
    MaxStarts = 2
INVARIANTS Inv UniqueNonces FileCovers
CHECK_DEADLOCK FALSE
