SPECIFICATION FairSpec
CONSTANTS
    NrAddresses = 2
    Values = {v0, v1}
    BackToBack = FALSE
    Resets = FALSE
INVARIANTS
    TypeOK
    BusyShown
PROPERTIES
    HeldUntilGranted
    NoAccessAfterError
    ImplementsMemoryWindow
    BusyEnds
