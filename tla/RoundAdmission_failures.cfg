SPECIFICATION Spec
CONSTANTS
    Initiators = {i1}
    Bodies = {b1, b2}
    Named = {b1}
    MaxUsable = 2
    CompactAfter = 2
    Faults = {"short_write", "fsync"}
    Absent = Absent
    None = None
    MaxWindows = 1
    MaxLog = 2
INVARIANTS FailsClosed Inv NoFalseAccusation
PROPERTY ImplementsWindow
