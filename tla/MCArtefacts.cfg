SPECIFICATION MCSpec
CONSTANTS
    Null = Null
    Game = g1
    Games = {g1}
    k1 = k1
    k2 = k2
    Pubkeys = {k1, k2}
    h1 = h1
    e1 = e1
    Hashes = {h1}
    Entropies = {e1}
    Ordinals = {0}
    StakeAmount = 2
    MinBet = 1
    MaxBet = 3
    PlayerCountMin = 2
    PlayerCountMax = 2
    DeckFormat = 2
    RecoveryDeadline = 9
    WinMultiplier = 1
    LossMultiplier = 1
    ConsecutivePenalty = 1
    EqualPenalty = 2
    MaxSafe = 8
    SeatArgs = {0, 1}
    RoundArgs = {0}
    StakeArgs = {2}
    BetArgs = {2}
    Deals = {}
    Heights = {1}
    DecisionDeadlines = {}
    Openings <- MCOpenings
    DecisionChoices = {2, 65537}
    RecoveryChoices = {3, 500000000}
    MaxTip = 3
    MaxEvictions = 1
    MaxWitness = 6
    DeckSize = 5
    WordRange = 16
    B = 4
    MaxSafeInteger = 8191
    HashBytes = 2
    InitialCapacity = 4
    Utf8Cap = 4
    MaxPayload = 5
    MaxOdd = 2
INVARIANTS
    EligibleIsSpendable
    ObserversAgree
    OnlyDocumentedExits
    ExitsAreOpen
    IsPermutation
    DrawIsUnbiased
    RevealsAreBinding
    ReadIsWritten
    AcceptedIsWhole
PROPERTIES
    NoEarlyFallback
    SignedIsReleased
    ImplementsUrn
CHECK_DEADLOCK FALSE
