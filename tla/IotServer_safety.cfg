CONSTANTS
    Conns = {c1, c2, c3}
    Main = Main
    None = None
    IdPasswd <- TwoIds
    MAX_CLNT = 2
    FdLimit = 3
    Addresses = {"SQL", "BT", "ALLMSG", "IDLIST"}
    SendMax = 1
SYMMETRY ConnSymmetry
SPECIFICATION Spec
CHECK_DEADLOCK FALSE
INVARIANTS
    CountMatchesThreads
    SessionIsolation
    OnlyRefusedLeak
    OnlineHasThread
PROPERTIES
    ImplementsSessionPool
    NeverOverwritten
    
