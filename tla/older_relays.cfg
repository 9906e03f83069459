SPECIFICATION Spec
CONSTANTS
    Mail = {m1}
    Relays = {"a", "b"}
    Origins <- MCOrigins
    Arguments <- MCArguments
    Days <- MCDays
    ZeroBytes = {0, 3, 17}
    NameLen = 15
    MaxHops = 3
    MaxSettings = 1
INVARIANTS TypeOK NoMisdelivery InBounds NeverCrashes
PROPERTIES RefusalsExplained AcceptedUnderKey KeepsPromise
CHECK_DEADLOCK FALSE
