SPECIFICATION Spec
CONSTANTS
    a = a  b = b  d = d
    Node = {a, b, d}
    None = None
    Network <- Stops
    QueueCap = 1
    MaxFrames = 4
    Burst = 2
    MaxDials = 4
PROPERTIES StopsUnaided
CHECK_DEADLOCK FALSE
