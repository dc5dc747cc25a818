CONSTANTS
    ChunkSize <- MC_ChunkSize
    FileSizes <- MC_FileSizes
SPECIFICATION Spec
INVARIANTS
    BinSplitOk
CHECK_DEADLOCK FALSE
