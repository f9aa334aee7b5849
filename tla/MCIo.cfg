SPECIFICATION IoSpec
CONSTANTS
    Procs = {p1, p2}
    Inodes = {1, 2}
    Blocks = {1, 2, 3, 4, 5}
    BSIZE = 2
    NDIRECT = 1
    MAXOPBLOCKS = 8
    BPB = 1
    Images <- MCImages
    Sizes = {5}
    Readers = {1, 2}
    INPUT_BUF = 2
    Wrap = 4
    ReadSizes = {3}
    Keys = {"rctl", "u"}
    Serial = {"cr", "^D", "^H"}
CHECK_DEADLOCK FALSE
INVARIANTS
    BlocksInv
    ContentsInv
    TransactionFits
    InputInv
PROPERTIES
    ReadsLines
