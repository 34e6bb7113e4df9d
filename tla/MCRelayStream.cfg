SPECIFICATION Spec
CONSTANTS
    confirmations = 1
    MaxBlock = 4
    MaxLogs = 3
    MaxFailures = 1
INVARIANTS NoLogIsSkipped RelaysAreFinal EarlierRangesAreRelayed
PROPERTIES ProgressIsMonotone ImplementsProgress LogsAreNotForgotten
CHECK_DEADLOCK FALSE
