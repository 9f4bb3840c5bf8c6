CONSTANTS
    N = 2
    MaxChanges = 2
    MaxFaults = 1
SPECIFICATION LoopSpec
CHECK_DEADLOCK FALSE
INVARIANTS
    RowFollowsSensor
PROPERTIES
    NeverBack
    
    
