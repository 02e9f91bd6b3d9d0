SPECIFICATION Spec
CONSTANTS
    MaxSent = 2
    MaxMade = 7
    MaxLate = 1
    MaxRestarts = 1
INVARIANTS InOrder SetPointFirst PressedIsOwed
CHECK_DEADLOCK FALSE
