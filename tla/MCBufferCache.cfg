SPECIFICATION FairSpec
CONSTANTS
    init_blkno <- Contents
    init_free <- FreeAtFirst
    HASH_SIZE = 2
    NULL = NULL
    Blkno = {2, 3, 4}
    UserFlag = {"D", "O"}
INVARIANTS
    TypeOK
    FreeListed
    WaitedIsLocked
PROPERTIES
    GetblkReturns
    ImplementsCache
