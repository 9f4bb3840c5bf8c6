CONSTANTS
    Spots = {s1}
    Cars = {car1}
    None = None
    Clobbered = Clobbered
    Garbage <- SomeGarbage
    Times = {0, 130, 90000}
    MaxEvents = 4
    MaxStarts = 2
SPECIFICATION Spec
CHECK_DEADLOCK FALSE
INVARIANTS
    TableMatchesLog
    LogAlternates
    ExitFeeAsListed
PROPERTIES
    NoWayOut
