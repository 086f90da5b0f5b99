SPECIFICATION Spec
CONSTANTS
    NrHarts = 2
    Values <- OneValue
    Commands <- OneCommand
    AutoRegs <- NoAuto
    MaxOutstanding = 1
    Discipline = TRUE
    SelectAndResume = TRUE
    Resets = FALSE
    Acks = {FALSE}
INVARIANTS
    ResumeAckFresh
