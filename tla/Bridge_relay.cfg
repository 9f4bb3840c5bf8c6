CONSTANTS
    BUF_SIZE = 3
    MaxBytes = 5
    MaxDown = 2
SPECIFICATION FairSpec
CHECK_DEADLOCK FALSE
PROPERTIES
    RelaysLines
    EndsWithDevice
    EndsAtNextLine
