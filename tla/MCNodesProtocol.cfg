SPECIFICATION NodesSpec
CONSTANTS
    h1 = h1
    h2 = h2
    b1 = b1
    Address = {zero, h1, b1, u1}
    ZeroAddress = zero
    Recipient = {u1}
    Value = {2}
    GasPrice = {0, 1}
    MainTx = {m1}
    SideTx = {s1}
    UintModulus = 8
    authorities <- MixedAuthorities
    requiredSignatures = 2
    estimatedGasCostOfWithdraw = 1
    maxTotalMainContractBalance = 0
    maxSingleDepositValue = 0
    Payable = {h1, b1, u1}
    EtherSupply = 2
    MaxRepeats = 1
    MaxSigned = 3
    MaxSignatures = 2
    MaxWithdraws = 1
    Byzantine = {b1}
    MaxCrashes = 1
    MaxDrops = 1
INVARIANTS SentWithdrawIsAccepted
PROPERTIES ImplementsProtocol
CHECK_DEADLOCK FALSE
