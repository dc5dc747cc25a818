\* Application DFU: a late OK read by the next write's wait.
CONSTANTS
    DfuType = "application"
    NChunks = 2
    NBoot = 0
    Retries = 2
    PingAttempts = 2
SPECIFICATION Spec
\* The process exits after do_dfu_* returns.
CHECK_DEADLOCK FALSE
INVARIANTS ImageIntactOnSuccess
