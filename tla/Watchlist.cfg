CONSTANTS
    Syms = {eth, btc, sol}
    Requests = {r1, r2}
    MaxSymbols = 2
    MaxMade = 3
    NoSym = NoSym
SPECIFICATION FairSpec
INVARIANTS TypeOK WithinLimit WatchedHaveWorkers RebuildMatches StaleOnlyByDialRace
PROPERTIES Reconnects
CHECK_DEADLOCK FALSE
