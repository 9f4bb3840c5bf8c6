CONSTANTS
    Cards = {a, b}
    None = None
    POLLS = 3
    MaxMoves = 0
SPECIFICATION Spec
INVARIANT
    TimerAsCommented
