SPECIFICATION FairSpec
CONSTANTS
    NrHarts = 2
    Values <- OneValue
    Commands <- OneCommand
    AutoRegs <- NoAuto
    MaxOutstanding = 1
    Discipline = TRUE
    SelectAndResume = FALSE
    Resets = FALSE
    Acks = {FALSE}
PROPERTIES
    CommandTerminates
    HaltServed
    ResumeServed
