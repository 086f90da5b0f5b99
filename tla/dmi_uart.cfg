SPECIFICATION FairSpec
CONSTANTS
    MaxWords = 4
    Burst = FALSE
    Prompt = TRUE
INVARIANTS
    TypeOK
    ServedInOrder
    ReadIsCurrent
PROPERTIES
    ReadCompletes
    WordServed
    ImplementsDmiPort
