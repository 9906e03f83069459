SPECIFICATION HashSpec
CONSTANTS
    SHA_BLOCKSIZE = 64
    SHA_DIGESTSIZE = 20
    SHA_LENSIZE = 8
    SHA_WRAP = 536870912
    SecretLens = {65}
    ChunkLens = {20}
    MaxText = 40
    ZeroBytes = {3}
    HashLengths = {4}
INVARIANTS SameAsOpenssl
