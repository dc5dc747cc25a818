CONSTANTS
    MaxAttempts <- MC_MaxAttempts
    Timeout <- MC_Timeout
    MaxBackoff <- MC_MaxBackoff
SPECIFICATION Spec
INVARIANTS
    TypeOK
    WithinWorstCase
CHECK_DEADLOCK FALSE
