SPECIFICATION ClientSpec
CONSTANTS
    Null = Null
    Game = g1
    Games = {g1}
    k1 = k1
    e1 = e1
    h1 = h1
    Pubkeys = {k1}
    Hashes = {h1}
    Entropies = {e1}
    Ordinals = {0}
    PlayerId <- MCPlayerId
    Malformed = {}
    Shuffle <- MCShuffle
    MaxActions = 2
    StakeAmount = 2
    MinBet = 1
    MaxBet = 3
    PlayerCountMin = 1
    PlayerCountMax = 1
    DeckFormat = 3
    RecoveryDeadline = 9
    WinMultiplier = 1
    LossMultiplier = 1
    ConsecutivePenalty = 1
    EqualPenalty = 2
    MaxSafe = 8
    SeatArgs = {0}
    RoundArgs = {0}
    StakeArgs = {2}
    BetArgs = {1}
    Deals = {}
    Heights = {4}
    DecisionDeadlines = {}
    PageSeats = {0}
    PageKey <- MCPageKey
    PageHash = h1
    PageEntropy = e1
    PageCards = {0}
    PageBets = {1}
    PageHeight = 4
    MaxClicks = 2
    Buttons = {"Join", "TableLock"}
    MaxConnects = 2
INVARIANTS
    OnlineIsHonest
PROPERTIES
    LocalPlayIsOwn
    TableIsRelays
    ConnectingEnds
CHECK_DEADLOCK FALSE
