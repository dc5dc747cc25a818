\* Modem-full DFU: an empty bootloader segment (straight to its apply) and two firmware chunks.
CONSTANTS
    DfuType = "modem-full"
    NChunks = 2
    NBoot = 0
    Retries = 2
    PingAttempts = 2
SPECIFICATION Spec
\* The process exits after do_dfu_* returns.
CHECK_DEADLOCK FALSE
INVARIANTS SessionCompleteAll
PROPERTIES SessionRefined
