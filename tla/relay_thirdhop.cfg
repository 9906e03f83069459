SPECIFICATION Spec
CONSTANTS
    Mail = {m1}
    Relays = {"a", "b", "c"}
    Origins <- OneOrigin
    SecretFiles <- OneFile
    Times = {0}
    BufLens = {8192}
    NameLen = 12
    HashLengths = {}
    HashMins = {}
    MaxAges = {}
    SeparatorArgs = {}
    MaxHops = 3
    MaxSettings = 0
    MaxSlips = 0
INVARIANTS ReversalWorks
CHECK_DEADLOCK FALSE
