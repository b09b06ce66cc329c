SPECIFICATION Spec
CONSTANTS
    None = None
    m1 = m1
    m2 = m2
    m3 = m3
    general = general
    other = other
    Node <- Duo
    Msg = {m1, m2}
    AuthorOf <- Authors12
    ChannelOf <- OneChannel
    ValidChannel = {general, other}
    Link <- FullMesh
    Known <- Everyone
    Trusted <- Everyone
    Offset <- NoOffset
    Granularity = 3
    FutureSkew = 20
    MaxRetries = 1
    MaxCollectors = 16
    MaxParts = 16
    MaxStrikes = 1
    Synchronous = FALSE
    Patient = TRUE
    MaxNow = 1
    MaxRounds = 2
    MaxLoss = 1
    MaxRestarts = 1
INVARIANTS NoSilentLoss NoSplitShare
PROPERTY OwnRoundsBlameless
CHECK_DEADLOCK FALSE
