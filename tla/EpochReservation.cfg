SPECIFICATION Spec
CONSTANTS
    Absent = Absent
    Torn = Torn
    Block = 2
    MaxUsable = 5
    MaxNamespaces = 2
INVARIANTS DurableBeforeUse Inv
PROPERTY ImplementsEpochSource
