CONSTANTS
    Conns = {c1, c2, c3}
    Main = Main
    None = None
    IdPasswd <- OneId
    MAX_CLNT = 1
    FdLimit = 3
    Addresses = {"SQL"}
    SendMax = 1
SPECIFICATION FairSpec
CHECK_DEADLOCK FALSE
INVARIANTS
    NeverOverfull

    
    
