SPECIFICATION Spec
CONSTANTS
    n1 = n1  n2 = n2  n3 = n3
    chan = chan  board = board  bad = bad
    Node = {n1, n2, n3}
    Object <- Objects
    Topic = {chan, board, bad}
    Board = {board}
    ValidTopic = {chan, board}
    Network <- Networks
    QueueCap = 1
    MaxHistoryMessages = 1
    MaxHistoryPosts = 2
INVARIANTS TypeOK NoRepeat HandoverGapFree
PROPERTIES FloodsEnd
CHECK_DEADLOCK FALSE
