SPECIFICATION Spec
CONSTANTS
    ReqCap = 2
    Window = 1
    Recovery = FALSE
    Dirs <- LongOnly
    Qty = 1
    StepSize = 1
    MaxOrderRetry = 1
    Cooldown = FALSE
    Reconciling = TRUE
    Faults = {"rejected", "lost", "lostOpen", "zero", "cancel", "restart"}
    MaxFaults = 1
    MaxOpens = 2
INVARIANTS TypeOK LockInv Protected
PROPERTIES OpenNeverOverwrites ClosesOnlyReduce ImplementsTradeLock BooksUnderLock
