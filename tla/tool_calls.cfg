SPECIFICATION Spec
CONSTANTS
    NameLen = 12
    Options <- MCOptions
    Operands <- MCOperands
    MaxOptions = 3
    MaxOperands = 2
    Now = 0
    CharSigned = TRUE
INVARIANTS HandleAsGiven PrintedInOrder
CHECK_DEADLOCK FALSE
