\* Each disagreement is a property; this file has the first.
\*   INVARIANT ReplaysOnly
\*   INVARIANT ScoresCurrent
SPECIFICATION Spec
CONSTANTS
    n1 = n1  n2 = n2  n3 = n3
    Peer = {n1, n2, n3}
    NoNode = NoNode
    Network <- Networks
    QueueCap = 4
    MaxHops = 2
    MaxNonce = 2
INVARIANTS ReplaysOnly
CHECK_DEADLOCK FALSE
