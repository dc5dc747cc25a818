\* Application DFU: two writes still queued in the device after their
\* waits timed out shift every later answer by one command.
CONSTANTS
    DfuType = "application"
    NChunks = 2
    NBoot = 0
    Retries = 3
    PingAttempts = 2
SPECIFICATION Spec
\* The process exits after do_dfu_* returns.
CHECK_DEADLOCK FALSE
INVARIANTS SuccessMeansApplied
