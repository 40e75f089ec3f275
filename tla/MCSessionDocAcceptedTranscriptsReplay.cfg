SPECIFICATION SessionSpec
CONSTANTS
    Null = Null
    Game = g1
    Games = {g1}
    k1 = k1
    e1 = e1
    k2 = k2
    bad = bad
    e2 = e2
    Pubkeys = {k1, k2}
    Hashes <- MCHashes
    Entropies = {e1, e2}
    Ordinals = {0}
    PlayerId <- MCPlayerId
    Capitals <- MCCapitals
    KeyDigits <- MCKeyDigits
    ToolHeight = 8
    Malformed = {bad}
    Shuffle <- MCShuffle
    MaxActions = 8
    StakeAmount = 2
    MinBet = 1
    MaxBet = 3
    PlayerCountMin = 2
    PlayerCountMax = 2
    DeckFormat = 3
    RecoveryDeadline = 9
    WinMultiplier = 1
    LossMultiplier = 1
    ConsecutivePenalty = 1
    EqualPenalty = 2
    MaxSafe = 8
    SeatArgs = {0, 1}
    RoundArgs = {0}
    StakeArgs = {1, 2}
    BetArgs = {}
    Deals = {}
    Heights = {8, 9}
    DecisionDeadlines = {}
INVARIANTS
    AcceptedTranscriptsReplay
CHECK_DEADLOCK FALSE
