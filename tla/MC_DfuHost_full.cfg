\* Modem-full DFU: one bootloader chunk and two firmware chunks.
CONSTANTS
    DfuType = "modem-full"
    NChunks = 3
    NBoot = 1
    Retries = 2
    PingAttempts = 2
SPECIFICATION Spec
\* The process exits after do_dfu_* returns; Termination rules out any other stop.
CHECK_DEADLOCK FALSE
INVARIANTS FwOnlyAfterBootCommit
PROPERTIES Termination SessionRefined ChunkCountedWhenStored
