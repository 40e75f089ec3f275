SPECIFICATION MCFairSpec
CONSTANTS
    Tcp = {c1}
    Ws = {w1}
    MaxVersion = 2
    MaxReplies = 1
    QueueDepth = 1
    TxIds = {t1, t2}
    RebroadcastMax = 3
    Null = Null
    Game = g1
    Games = {g1}
    k1 = k1
    Pubkeys = {k1}
    Hashes = {h1}
    Entropies = {e1}
    Ordinals = {0}
    StakeAmount = 2
    MinBet = 1
    MaxBet = 3
    PlayerCountMin = 2
    PlayerCountMax = 2
    DeckFormat = 3
    RecoveryDeadline = 2
    WinMultiplier = 1
    LossMultiplier = 1
    ConsecutivePenalty = 1
    EqualPenalty = 2
    MaxSafe = 8
    BlockActions <- MCBlockActions
    MaxBlocks = 2
    MaxPerBlock = 2
INVARIANTS
    StreamIsOrdered
    RecommendedWhenExhausted
    StateIsOfChain
PROPERTIES
    AcceptedIsAnnounced
    NextFrameFreesConnection
    GivenUpIsFinal
    MissingIsFollowedUp
    NoActionLost
CHECK_DEADLOCK FALSE
