CONSTANTS
    Spots = {}
    Cars = {car1}
    None = None
    Clobbered = Clobbered
    Garbage <- SomeGarbage
    Times = {0}
    MaxEvents = 3
    MaxStarts = 2
SPECIFICATION Spec
CHECK_DEADLOCK FALSE
PROPERTIES
    QuitEnds
