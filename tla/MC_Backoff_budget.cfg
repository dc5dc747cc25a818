CONSTANTS
    MaxAttempts <- MC_MaxAttempts
    Timeout <- MC_Timeout
    MaxBackoff <- MC_MaxBackoff
SPECIFICATION Spec
INVARIANT
    WithinSpecBudget
CHECK_DEADLOCK FALSE
