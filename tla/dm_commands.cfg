SPECIFICATION Spec
CONSTANTS
    NrHarts = 2
    Values <- TwoValues
    Commands <- AllCommands
    AutoRegs <- AutoBoth
    MaxOutstanding = 1
    Discipline = TRUE
    SelectAndResume = FALSE
    Resets = FALSE
    Acks = {FALSE}
INVARIANTS
    TypeOK
    ExecutionTracked
    HaltedIsParked
    ResumeAckFresh
    ResumeNotDropped
PROPERTIES
    CommandInputsStable
    ImplementsAbstractCommand
