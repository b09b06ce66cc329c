SPECIFICATION Spec
CONSTANTS
    n1 = n1  n2 = n2  n3 = n3
    c1 = c1  c2 = c2
    Node = {n1, n2, n3}
    Chunk = {c1, c2}
    NoNode = NoNode
    File <- Files2
    SizeOf <- Size
    Distance <- Far
    Network <- NoForwarding
    QueueCap = 3
    Closest = 3
    MaxTtl = 2
    MaxRoutes = 2
PROPERTIES FetchForwards
CHECK_DEADLOCK FALSE
