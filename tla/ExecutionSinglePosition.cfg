SPECIFICATION Spec
CONSTANTS
    ReqCap = 2
    Window = 1
    Recovery = FALSE
    Dirs <- LongOnly
    Qty = 1
    StepSize = 1
    MaxOrderRetry = 3
    Cooldown = TRUE
    Reconciling = TRUE
    Faults = {}
    MaxFaults = 0
    MaxOpens = 2
INVARIANT SinglePosition
