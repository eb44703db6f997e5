SPECIFICATION Spec
CONSTANTS
    init_blkno <- Contents
    init_free <- FreeAtFirst
    HASH_SIZE = 2
    NULL = NULL
    Blkno = {1, 2, 3}
    UserFlag = {"L"}
INVARIANTS
    HashListed
    BlockOnce
