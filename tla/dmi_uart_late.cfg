SPECIFICATION FairSpec
CONSTANTS
    MaxWords = 3
    Burst = FALSE
    Prompt = FALSE
PROPERTIES
    ReadCompletes
