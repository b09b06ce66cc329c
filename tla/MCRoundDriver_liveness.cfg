SPECIFICATION FairSpec
CONSTANTS
    None = None
    m1 = m1
    m2 = m2
    m3 = m3
    general = general
    other = other
    Node <- Duo
    Msg = {m1, m2, m3}
    AuthorOf <- Authors121
    ChannelOf <- OneChannel
    ValidChannel = {general, other}
    Link <- FullMesh
    Known <- Everyone
    Trusted <- Everyone
    Offset <- NoOffset
    Granularity = 3
    FutureSkew = 20
    MaxRetries = 3
    MaxCollectors = 16
    MaxParts = 16
    MaxStrikes = 3
    Synchronous = TRUE
    Patient = TRUE
    MaxNow = 0
    MaxRounds = 6
    MaxLoss = 0
    MaxRestarts = 0
PROPERTY EventuallyDelivered
CHECK_DEADLOCK FALSE
