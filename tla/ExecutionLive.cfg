SPECIFICATION FairSpec
CONSTANTS
    ReqCap = 1
    Window = 1
    Recovery = FALSE
    Dirs <- LongOnly
    Qty = 3
    StepSize = 2
    MaxOrderRetry = 1
    Cooldown = FALSE
    Reconciling = TRUE
    Faults = {"rejected", "lost", "lostOpen", "zero", "risk", "restart"}
    MaxFaults = 3
    MaxOpens = 2
VIEW NoHistory
PROPERTIES Reconciled MustCloseFlattens
