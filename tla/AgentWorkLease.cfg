SPECIFICATION HereSpec
CONSTANTS
    Foreigners = {f1}
    MaxStarts = 2
    MaxPulls = 1
PROPERTY
    UnseenIsKept
CHECK_DEADLOCK FALSE
