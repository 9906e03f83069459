SPECIFICATION HashSpec
CONSTANTS
    SHA_BLOCKSIZE = 8
    SHA_DIGESTSIZE = 5
    SHA_LENSIZE = 2
    SHA_WRAP = 16
    SecretLens = {1, 8, 9}
    ChunkLens <- AllLens
    MaxText = 24
    ZeroBytes = {0, 2}
    HashLengths = {0, 10}
INVARIANTS TypeOK NothingLost HmacIsStandard EncodesDigest HashIsDigest
