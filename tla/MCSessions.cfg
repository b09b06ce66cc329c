SPECIFICATION Spec
CONSTANTS
    a = a  b = b  d = d
    Node = {a, b, d}
    None = None
    Network <- Networks
    QueueCap = 1
    MaxFrames = 4
    Burst = 2
    MaxDials = 4
INVARIANTS TypeOK RegistryNewest InOrderWithinLimit
PROPERTIES StopsDrained Reconnects
CHECK_DEADLOCK FALSE
