SPECIFICATION Spec
CONSTANTS
    Clients = {c1, c2}
    Requests <- MissingAlias
    Handle <- MCHandle
    Now = 0
    NameLen = 12
    FdLimit = 4
    Backlog = 2
    AddrlenChoices = {"fits"}
    Faults = {}
INVARIANTS StaysUp
CHECK_DEADLOCK FALSE
