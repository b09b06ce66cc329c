\* Each disagreement is a deployment and a property; this file has the first.
\*   Network <- OnlyBoards     INVARIANT CaughtUp
\*   Network <- OnlyTwo        PROPERTY NoResurrection
\*   Network <- RingDeletes    PROPERTY DeletesEnd
\*   Network <- SpoiltOnly     PROPERTY SessionsHold
SPECIFICATION Spec
CONSTANTS
    n1 = n1  n2 = n2  n3 = n3
    chan = chan  board = board  bad = bad
    Node = {n1, n2, n3}
    Object <- Objects
    Topic = {chan, board, bad}
    Board = {board}
    ValidTopic = {chan, board}
    Network <- OnlyBoards
    QueueCap = 1
    MaxHistoryMessages = 2
    MaxHistoryPosts = 2
INVARIANT CaughtUp
CHECK_DEADLOCK FALSE
