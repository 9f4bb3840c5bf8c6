CONSTANTS
    FIRST = 2
    LIMIT = 11
    MAX_CLNT = 2
    CHARS = 8
    Signed = FALSE
    SIZE = 14
    ARR_CNT = 5
    Lines <- ThreeLines
    MaxLines = 4
    Threads = {t1, t2}
    Main = main
    TOKENS = 2
SYMMETRY ThreadSymmetry
SPECIFICATION PartsSpec
CHECK_DEADLOCK FALSE
INVARIANTS
    
    SendsFirstLine
    NothingOld
    TwoLinesFit
    OwnUnlessCrossed
    
