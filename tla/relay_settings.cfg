SPECIFICATION Spec
CONSTANTS
    Mail = {m1}
    Relays = {"a", "b"}
    Origins <- PlainOrigins
    SecretFiles <- Files
    Times = {0}
    BufLens = {25, 26, 51, 52, 70, 71, 8192}
    NameLen = 12
    HashLengths = {3, 5}
    HashMins = {3}
    MaxAges = {}
    SeparatorArgs <- NulSeparator
    MaxHops = 2
    MaxSettings = 2
    MaxSlips = 0
INVARIANTS BufferRespected AllocRoomy
PROPERTIES AcceptedInTime RefusalsExplained
CHECK_DEADLOCK FALSE
