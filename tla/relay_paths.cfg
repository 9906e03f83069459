SPECIFICATION Spec
CONSTANTS
    Mail = {m1}
    Relays = {"a", "b", "c"}
    Origins <- AllOrigins
    SecretFiles <- OneFile
    Times <- MCTimes
    BufLens = {8192}
    NameLen = 12
    HashLengths = {}
    HashMins = {}
    MaxAges = {20}
    SeparatorArgs <- OneSeparator
    MaxHops = 3
    MaxSettings = 1
    MaxSlips = 1
INVARIANTS TypeOK NoMisdelivery NeverCrashes TwoLaps
PROPERTIES RefusalsExplained AcceptedInTime KeepsPromise
CHECK_DEADLOCK FALSE
