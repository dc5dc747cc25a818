\* Every combination of options, a modem-full DFU of one boot and one
\* firmware chunk and a Ctrl-C at any point.
CONSTANTS
    DfuType = "modem-full"
    NChunks = 2
    NBoot = 1
SPECIFICATION Spec
\* The process stops once main has returned or raised.
CHECK_DEADLOCK FALSE
INVARIANTS OneOperationPerPort ExitZeroSound PortReleasedOnExit
