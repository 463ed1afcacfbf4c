\* Two connections, channels of one message, three messages (enough for a momentum
\* over a lost candle, and for a pump stuck behind a full channel).
SPECIFICATION FairSpec
CONSTANTS
    PumpCap = 1
    ChanCap <- MCChanCap
    MaxConns = 2
    MaxSent = 3
INVARIANTS
    TypeOK
    ReadIsDispatched
    MomentumAdjacent
PROPERTIES
    PumpsEnd
    ImplementsLossyFeed
CHECK_DEADLOCK FALSE
