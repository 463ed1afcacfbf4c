SPECIFICATION Spec
CONSTANTS
    ReqCap = 2
    Window = 1
    Recovery = FALSE
    Dirs <- BothSides
    Qty = 3
    StepSize = 2
    MaxOrderRetry = 2
    Cooldown = TRUE
    Reconciling = FALSE
    Faults = {"rejected", "lost", "cancel"}
    MaxFaults = 2
    MaxOpens = 3
INVARIANTS SinglePosition
PROPERTIES ImplementsTradeCycle
