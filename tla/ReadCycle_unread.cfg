SPECIFICATION Spec
CONSTANTS
    NumFieldVars = 1
    NumVars = 2
    ROInts = {2}
    MaxTrys = 2
    Val <- MCVal
INVARIANTS
    AllWereRead
