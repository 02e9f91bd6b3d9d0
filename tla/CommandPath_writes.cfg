SPECIFICATION Spec
CONSTANTS
    Buttons = {b1, b2}
    Plain = {s1}
    Forceable = {f1}
    Ptr = {p1, p2}
    NoPtr = NoPtr
    NoAddr = NoAddr
    MaxTrys = 3
    MaxDirect = 2
    MaxOrphans = 1
SYMMETRY Symmetry
CONSTRAINT Apart
INVARIANTS TypeOK NoneForgotten OneOutstanding StuckIsExplained
PROPERTIES ButtonSpec DoneMeansWritten
CHECK_DEADLOCK FALSE
