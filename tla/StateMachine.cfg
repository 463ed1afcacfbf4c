SPECIFICATION SMSpec
CONSTANTS
    ReqCap = 3
    Window = 2
    Recovery = TRUE
PROPERTIES OnlyRecoveryLowers AcceptedKept AcceptedHonoured
