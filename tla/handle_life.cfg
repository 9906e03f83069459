SPECIFICATION Spec
CONSTANTS
    Handles = {h1, h2}
    Blocks = {b1, b2, b3, b4, b5, b6}
    Null = null
    Allocators = {"libc", "own"}
    MaxSecrets = 2
SYMMETRY AnyBlock
INVARIANTS TypeOK PointersSound NothingLeaks SecretsWiped MixupsExplained DiesOfNull
CHECK_DEADLOCK FALSE
