SPECIFICATION Spec
CONSTANTS
    Mail = {m1}
    Relays = {"a"}
    Origins <- MalformedOrigin
    SecretFiles <- OneFile
    Times = {0}
    BufLens = {8192}
    NameLen = 12
    HashLengths = {}
    HashMins = {}
    MaxAges = {}
    SeparatorArgs = {}
    MaxHops = 2
    MaxSettings = 0
    MaxSlips = 0
INVARIANTS NeverCrashes
CHECK_DEADLOCK FALSE
