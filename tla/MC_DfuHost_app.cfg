\* Application DFU of two chunks with three attempts per chunk (the default).
CONSTANTS
    DfuType = "application"
    NChunks = 2
    NBoot = 0
    Retries = 3
    PingAttempts = 2
SPECIFICATION Spec
\* The process exits after do_dfu_* returns; Termination rules out any other stop.
CHECK_DEADLOCK FALSE
INVARIANTS TypeOK SyncSuccessSound
PROPERTIES Termination ChunkCountedWhenStored
