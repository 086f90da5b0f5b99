SPECIFICATION Spec
CONSTANTS
    MaxWords = 3
    Burst = TRUE
    Prompt = TRUE
INVARIANTS
    WordsAsSent
