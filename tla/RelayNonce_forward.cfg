\* Each disagreement is a property; this file has the first.
\*   PROPERTY FileForward
\*   INVARIANT PersistedFirst
SPECIFICATION Spec
CONSTANTS
    Task = {t1, t2}
    Block = 3
    Clocks = {0}
    Faults = {}
    Torn = Torn
    MaxValue = 8
    MaxStarts = 1
PROPERTY FileForward
CHECK_DEADLOCK FALSE
