SPECIFICATION Spec
CONSTANTS
    NumROInts = 2
    NumIOVars = 3
    Width = 8
    Value = {0, 1}
    QuState = {0, 1, 2}
    Channels = {0, 1, 2, 3, 4, 5, 7}
    FieldVars = {1, 3}
INVARIANTS TypeOK
PROPERTIES VariablesSpec
