SPECIFICATION Spec
CONSTANTS
    mainConfirmations = 1
    sideConfirmations = 2
    Radix = 2
    MaxBlock = 5
    MaxFailures = 1
INVARIANT DatabaseIsFinal
PROPERTIES DeploymentGoesOn RelaysImplementProgress YieldsArePersisted BridgeComesUp
CHECK_DEADLOCK FALSE
