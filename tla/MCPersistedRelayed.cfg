SPECIFICATION Spec
CONSTANTS
    confirmations = 1
    MaxBlock = 4
    MaxLogs = 3
    MaxFailures = 1
INVARIANT PersistedBlocksAreRelayed
CHECK_DEADLOCK FALSE
