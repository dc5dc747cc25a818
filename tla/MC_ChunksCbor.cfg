CONSTANTS
    ChunkSize <- MC_ChunkSize
    Header <- MC_Header
    Tables <- MC_Tables
    Shortfall <- MC_ShortNone
SPECIFICATION Spec
INVARIANTS
    ManifestChunksOk
CHECK_DEADLOCK FALSE
