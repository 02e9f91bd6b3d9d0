SPECIFICATION Spec
CONSTANTS
    Buttons = {b1}
    Plain = {}
    Forceable = {}
    Ptr = {p1}
    NoPtr = NoPtr
    NoAddr = NoAddr
    MaxTrys = 2
    MaxDirect = 0
    MaxOrphans = 0
INVARIANTS PressIsTakenBack
CHECK_DEADLOCK FALSE
