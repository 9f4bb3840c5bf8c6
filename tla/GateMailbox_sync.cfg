CONSTANTS
    a = a
    b = b
    Cards = {a, b}
    None = None
    Number <- TwoNumbers
    Fees = {3000}
    MaxTaps = 3
    MaxServo = 1
    MaxBoots = 2
SPECIFICATION Spec
CHECK_DEADLOCK FALSE
INVARIANTS
    MailboxExact
    
