SPECIFICATION FairSpec
CONSTANTS
    Buttons = {b1, b2}
    Plain = {}
    Forceable = {}
    Ptr = {p1, p2}
    NoPtr = NoPtr
    NoAddr = NoAddr
    MaxTrys = 2
    MaxDirect = 0
    MaxOrphans = 0
PROPERTIES PressEnds ReleaseEnds
CHECK_DEADLOCK FALSE
