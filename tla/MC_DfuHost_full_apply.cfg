\* Modem-full DFU: the status of the final apply is never read.
CONSTANTS
    DfuType = "modem-full"
    NChunks = 2
    NBoot = 1
    Retries = 2
    PingAttempts = 2
SPECIFICATION Spec
\* The process exits after do_dfu_* returns.
CHECK_DEADLOCK FALSE
INVARIANTS SuccessMeansApplied
