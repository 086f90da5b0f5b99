SPECIFICATION Spec
CONSTANTS
    NrAddresses = 2
    Values = {v0, v1}
    BackToBack = FALSE
    Resets = TRUE
PROPERTIES
    HeldUntilGranted
