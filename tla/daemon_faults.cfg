SPECIFICATION Spec
CONSTANTS
    Clients = {c1, c2, c3}
    Requests <- OnlyForward
    Handle <- MCHandle
    Now = 0
    NameLen = 12
    FdLimit = 3
    Backlog = 1
    AddrlenChoices = {"fits", "negative"}
    Faults = {"idle_close", "early_close", "fragment"}
INVARIANTS FdTablesAgree AnswersMatch
CHECK_DEADLOCK FALSE
