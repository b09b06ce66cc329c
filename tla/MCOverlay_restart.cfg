SPECIFICATION Spec
CONSTANTS
    n1 = n1  n2 = n2  n3 = n3
    Peer = {n1, n2, n3}
    NoNode = NoNode
    Network <- Restarts
    QueueCap = 4
    MaxHops = 2
    MaxNonce = 1
PROPERTIES RoutesRebuilt
CHECK_DEADLOCK FALSE
