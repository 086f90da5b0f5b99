CONSTANTS
    Bytes = {"esc", "zero", "a", "b", "dmi", "idcode"}
    Esc = "esc"
    Resume = "zero"
    MayPause = FALSE
    Words <- MCWords
    IdCode <- MCIdCode
    ResetsEarly = FALSE
SPECIFICATION Spec
INVARIANTS TypeOK
PROPERTIES RepliesWhole WordsOnce ItemsServed ReadAnswered
