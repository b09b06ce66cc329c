SPECIFICATION Spec
CONSTANTS
    a = a  b = b  d = d
    Node = {a, b, d}
    None = None
    Network <- Busys
    QueueCap = 1
    MaxFrames = 4
    Burst = 2
    MaxDials = 4
INVARIANTS ReadsSurviveWrites
CHECK_DEADLOCK FALSE
