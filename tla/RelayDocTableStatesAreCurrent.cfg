SPECIFICATION Spec
CONSTANTS
    Tcp = {c1, c2}
    Ws = {}
    MaxVersion = 2
    MaxReplies = 0
    QueueDepth = 4
INVARIANTS
    TableStatesAreCurrent
CHECK_DEADLOCK FALSE
