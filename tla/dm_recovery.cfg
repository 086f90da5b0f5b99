SPECIFICATION FairSpec
CONSTANTS
    NrHarts = 1
    Values <- OneValue
    Commands <- AllCommands
    AutoRegs <- AutoData
    MaxOutstanding = 2
    Discipline = FALSE
    SelectAndResume = TRUE
    Resets = TRUE
    Acks = {TRUE, FALSE}
PROPERTIES
    Recovers
    HaltStatusRecovers
