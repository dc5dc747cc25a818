CONSTANTS
    ChunkSize <- MC_ChunkSize
    Header <- MC_Header
    Tables <- MC_Tables
    Shortfall <- MC_ShortSome
SPECIFICATION Spec
INVARIANT
    ManifestChunksOk
CHECK_DEADLOCK FALSE
