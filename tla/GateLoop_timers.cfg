CONSTANTS
    W = 9
    SENSE = 1
    HOLD_TIME = 3
    POLL = 1
    RESET_DELAY = 3
    MaxIter = 2
    Angles = {0, 200}
SPECIFICATION Spec
INVARIANTS
    UpWhileNear
PROPERTIES
    OneEventPerPresentation
    BarrierComesDown
    ReaderRearms
