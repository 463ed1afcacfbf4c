SPECIFICATION FairSpec
CONSTANTS
    Workers = {w1, w2}
    Engines = {2}
    Returns <- UnitReturns
    MaxLoss = 1
    MaxTrades = 4
    DailyLimit = 1
    StreakLimit = 2
INVARIANTS TypeOK LossBounded LateLossesBounded
PROPERTIES TradingResumes
CHECK_DEADLOCK FALSE
