SPECIFICATION Spec
CONSTANTS
    QueueCap = 1
    MaxTicks = 3
INVARIANTS EnginesAgree OnlyTrendMasks
PROPERTIES NoBacklog
CHECK_DEADLOCK FALSE
