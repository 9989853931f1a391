CONSTANTS
    Levels <- Pieces
    Strings <- ShortStrings
    MaxLevels = 3
SPECIFICATION FairSpec
CHECK_DEADLOCK FALSE
INVARIANTS
    TypeOK
    AnswerIsMatch
PROPERTIES
    Returns
