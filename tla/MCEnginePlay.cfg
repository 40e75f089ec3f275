SPECIFICATION Spec
CONSTANTS
    Null = Null
    Game = g1
    Games = {g1, g2}
    k1 = k1
    k2 = k2
    Pubkeys = {k1, k2}
    Hashes = {h1}
    Entropies = {e1}
    Ordinals <- MCOrdinals
    StakeAmount = 2
    MinBet = 1
    MaxBet = 3
    PlayerCountMin = 2
    PlayerCountMax = 3
    DeckFormat = 2
    RecoveryDeadline = 9
    WinMultiplier = 1
    LossMultiplier = 1
    ConsecutivePenalty = 1
    EqualPenalty = 2
    MaxSafe = 8
    SeatArgs <- MCSeatArgs
    RoundArgs = {0}
    StakeArgs = {1, 2}
    BetArgs = {0, 1, 3, 4}
    Deals <- MCDeals
    Heights = {4, 5, 9}
    DecisionDeadlines = {5}
INVARIANTS
    TypeOK
    CommitBeforeReveal
    NoCardTooEarly
    RotationPosition
    PotIsOneBet
    PreviewIsSettlement
    FoldedHoldNothing
PROPERTIES
    ValueMovesAgainstPot
    AlwaysForward
