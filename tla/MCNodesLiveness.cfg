SPECIFICATION NodesSpec
CONSTANTS
    h1 = h1
    h2 = h2
    b1 = b1
    Address = {zero, h1, h2, u1}
    ZeroAddress = zero
    Recipient = {u1}
    Value = {2}
    GasPrice = {1}
    MainTx = {m1}
    SideTx = {s1}
    UintModulus = 8
    authorities <- HonestAuthorities
    requiredSignatures = 2
    estimatedGasCostOfWithdraw = 1
    maxTotalMainContractBalance = 0
    maxSingleDepositValue = 0
    Payable = {h1, h2, u1}
    EtherSupply = 2
    MaxRepeats = 1
    MaxSigned = 8
    MaxSignatures = 2
    MaxWithdraws = 1
    Byzantine = {}
    MaxCrashes = 1
    MaxDrops = 1
PROPERTIES DepositsAreMinted BurnsArePaid
CHECK_DEADLOCK FALSE
