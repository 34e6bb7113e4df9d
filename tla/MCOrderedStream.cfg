SPECIFICATION MCSpec
CONSTANTS
    Order = {1, 2}
    Future = {a, b, c}
INVARIANT SameOrderYieldedAsInserted
CHECK_DEADLOCK FALSE
