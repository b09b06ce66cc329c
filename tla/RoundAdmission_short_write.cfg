SPECIFICATION Spec
CONSTANTS
    Initiators = {i1}
    Bodies = {b1}
    Named = {b1}
    MaxUsable = 2
    CompactAfter = 2
    Faults = {"short_write"}
    Absent = Absent
    None = None
    MaxWindows = 0
    MaxLog = 3
INVARIANT LogStaysReadable
