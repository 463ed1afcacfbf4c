\* Two rings of two and three trades over one and two ticks of time: up to five
\* trades wrap both, overflow both, and come in any order of time.
SPECIFICATION Spec
CONSTANTS
    Capacity <- MCCapacity
    Span <- MCSpan
    Vols <- MCVols
    Times <- MCTimes
    MaxTrades = 5
INVARIANTS
    TypeOK
    SumAccounts
    WindowExact
CHECK_DEADLOCK FALSE
