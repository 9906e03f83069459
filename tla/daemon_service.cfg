SPECIFICATION FairSpec
CONSTANTS
    Clients = {c1, c2, c3}
    Requests <- GoodRequests
    Handle <- MCHandle
    Now = 0
    NameLen = 12
    FdLimit = 4
    Backlog = 1
    AddrlenChoices = {"fits"}
    Faults = {}
INVARIANTS TypeOK FdTablesAgree NeverWaitsForOne
PROPERTIES ProvidesService
