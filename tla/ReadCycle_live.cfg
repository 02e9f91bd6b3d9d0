SPECIFICATION FairSpec
CONSTANTS
    NumFieldVars = 0
    NumVars = 2
    ROInts = {}
    MaxTrys = 2
    Val <- MCVal
PROPERTIES
    WindowAppears
    PanelsSettle
