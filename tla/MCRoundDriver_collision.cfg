SPECIFICATION Spec
CONSTANTS
    None = None
    m1 = m1
    m2 = m2
    m3 = m3
    general = general
    other = other
    Node <- Trio
    Msg = {m1, m2}
    AuthorOf <- Authors12
    ChannelOf <- OneChannel
    ValidChannel = {general, other}
    Link <- FullMesh
    Known <- Everyone
    Trusted <- Everyone
    Offset <- NoOffset
    Granularity = 3
    FutureSkew = 20
    MaxRetries = 3
    MaxCollectors = 16
    MaxParts = 16
    MaxStrikes = 3
    Synchronous = TRUE
    Patient = FALSE
    MaxNow = 0
    MaxRounds = 2
    MaxLoss = 0
    MaxRestarts = 0
INVARIANT TypeOK
INVARIANT NoSplitShare
INVARIANT CarrierLast
INVARIANT NeverStranded
CHECK_DEADLOCK FALSE
