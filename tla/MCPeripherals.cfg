CONSTANTS
    Width = 2
    Rows = {0, 3}
    Cols = {0, 17}
    Texts <- TwoTexts
    MaxCalls = 2
    MaxFails = 1
    MaxResets = 1
    Cards = {a, b}
    None = None
    POLLS = 3
    MaxMoves = 3
    MaxLines = 4
SPECIFICATION PartsSpec
CHECK_DEADLOCK FALSE
INVARIANTS
    ShowsText
    
    SeenEveryOther
    NothingLost
PROPERTIES
    QuitEnds
    EndsWithServer
